SPECIFICATION Spec
CONSTANTS
  Services <- MCServices
  EventIds <- MCEventIds
  MaxTime = 3
  WINDOW_SECONDS = 2
  GRACE_SECONDS = 1
  Partitions <- MCPartitions
  Messages <- Mixed
  BATCH_SIZE = 2
  MAX_RETRIES = 2
  MaxLog = 3
  MaxFaults = 2
  MaxStops = 1
INVARIANTS
  Accounted
  LossBounded
  AlertsAreBacked
  DuplicatesNeedAFailure
PROPERTIES
  ImplementsAtLeastOnce
