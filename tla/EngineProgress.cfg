SPECIFICATION FairSpec
CONSTANTS
  Services <- MCServices
  EventIds <- MCEventIds
  MaxTime = 3
  WINDOW_SECONDS = 2
  GRACE_SECONDS = 1
  Partitions <- MCPartitions
  Messages <- Hostile
  BATCH_SIZE = 2
  MAX_RETRIES = 1
  MaxLog = 3
  MaxFaults = 1
  MaxStops = 0
PROPERTIES
  EventuallyStored
  LoopReturns
