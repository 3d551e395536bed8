SPECIFICATION Spec
CONSTANTS
  Services <- MCServices
  EventIds <- MCEventIds
  MaxTime = 5
  WINDOW_SECONDS = 2
  GRACE_SECONDS = 1
INVARIANTS
  Conservation
  AgreesWithAggregate
PROPERTIES
  WindowsCloseOnTime
CHECK_DEADLOCK FALSE
