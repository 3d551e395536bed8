SPECIFICATION MCSpec
CONSTANTS
  Services <- MCServices
  EventIds <- MCEventIds
  e1 = e1
  Engines = {e1, e2}
  NoEngine = NoEngine
  Partitions = {1, 2}
  Stamps = {0, 3}
  MaxTime = 3
  WINDOW_SECONDS = 2
  GRACE_SECONDS = 1
  MaxLog = 2
  MaxGenerations = 4
  MaxEnds = 1
  MaxTrouble = 1
  MaxFaults = 1
INVARIANTS
  CommittedIsCounted
  ReadingsAreBounded
  CleanStopsLoseNothing
PROPERTIES
  EventuallyCounted
CHECK_DEADLOCK FALSE
