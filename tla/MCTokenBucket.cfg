SPECIFICATION Spec
CONSTANTS
  r1 = r1
  Replicas <- MCReplicas
  CAPACITY = 2
  PERIOD = 2
  SECOND = 2
  TTL_MARGIN = 1
  EARLY = 1
  LATE = 1
  MaxTime = 7
INVARIANTS
  LimitUpToSpread
  DenialsAreEarned
  RetryAfterSuffices
