SPECIFICATION DebugSpec
CONSTANTS
  RETRY_THRESHOLD = 2
  FAN_OUT_THRESHOLD = 2
  MIN_SLOW_SPAN = 2
  BASELINE_MULTIPLIER = 2
  Traces <- MCTraces
  Baselines <- MCBaselines
  MaxTwice = 1
INVARIANTS
  TreeIsFaithful
  TimesAddUp
  FindingsAreReal
  OrderDoesNotMatter
CHECK_DEADLOCK FALSE
