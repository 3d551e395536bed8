SPECIFICATION MCSpec
CONSTANTS
  service = service
  simulator = simulator
  Clients <- MCClients
  Batches <- MCBatches
  Scenario <- MCScenario
  DURATION = 0
  MAX_BATCH_SIZE = 2
  MAX_BATCH = 2
  MAX_BATCHES_PER_SECOND = 2
  UNIT = 2
  TargetRates = {1,3,8}
  SECOND = 2
  MaxSpans = 1
  MaxAttempts = 3
  MaxFaults = 2
  RunFaults = 1
INVARIANTS
  SimTypeOK
  AnswersMatchTheLog
  SummaryIsTrue
  NeverFasterThanAsked
PROPERTIES
  EveryoneFinishes
CHECK_DEADLOCK FALSE
