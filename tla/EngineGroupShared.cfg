SPECIFICATION SharedSpec
CONSTANTS
  Services <- MCServices
  EventIds <- MCEventIds
  e1 = e1
  Engines = {e1, e2}
  NoEngine = NoEngine
  Partitions = {1, 2}
  Stamps = {0, 3}
  MaxTime = 3
  WINDOW_SECONDS = 2
  GRACE_SECONDS = 1
  MaxLog = 2
  MaxGenerations = 4
  MaxEnds = 0
  MaxTrouble = 0
  MaxFaults = 0
INVARIANTS
  RollupsAreRecomputed
CHECK_DEADLOCK FALSE
