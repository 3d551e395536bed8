SPECIFICATION Spec
CONSTANTS
  search = search
  catalog = catalog
  Services <- MCServices
  Metrics <- MCMetrics
  Observations <- MCObservations
  THRESHOLD = 1
  BASELINE = 3
  MIN_BASELINE = 2
  MIN_SAMPLES = 10
  MaxRollups = 5
  MaxReopened = 1
SYMMETRY Symmetry
INVARIANTS
  EvidenceIsThePast
  OrdinaryIsSilent
  OutliersAreReported
CHECK_DEADLOCK FALSE
