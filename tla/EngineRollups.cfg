SPECIFICATION Spec
CONSTANTS
  Services <- MCServices
  EventIds <- MCEventIds
  MaxTime = 3
  WINDOW_SECONDS = 2
  GRACE_SECONDS = 1
  Partitions <- TwoTopics
  Messages <- Straggling
  BATCH_SIZE = 2
  MAX_RETRIES = 1
  MaxLog = 2
  MaxFaults = 1
  MaxStops = 0
INVARIANTS
  RollupsAreComplete
