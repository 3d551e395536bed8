SPECIFICATION MCSpec
CONSTANTS
  Absent = Absent
  None = None
  MetricRoutes <- MCMetricRoutes
  Queries <- MCQueries
  Routes <- MCRoutes
  MaxAge <- MCMaxAge
  MaxWait <- MCMaxWait
  Slots = {1, 2}
  MaxTime = 3
  REFRESH = 2
  Recorded <- MCRecorded
  Targets <- MCTargets
  Runs <- MCRuns
  Late = {"q1"}
  Jobs = {1}
  MaxFaults = 1
  MaxCrashes = 1
  MaxTrouble = 1
INVARIANTS
  DashTypeOK
  JobsAreAccounted
  MatchMeansMatch
  ScreenIsCurrent
  RefreshKeepsUp
PROPERTIES
  NeverBlank
  ReplaysEnd
CHECK_DEADLOCK FALSE
