SPECIFICATION CacheSpec
CONSTANTS
  h1 = h1
  h2 = h2
  Keys <- MCKeys
  Endpoints <- MCKeys
  EndpointOf <- MCEndpointOf
  Ttl <- MCTtl
  Queries <- MCQueries
  Routes <- MCRoutes
  KeysOf <- MCKeysOf
  Slots <- MCSlots
  Turn = 1
  Cleared <- MCCleared
  MaxTime = 3
SYMMETRY Symmetry
INVARIANTS
  WindowsAgree
  InvalidationHolds
PROPERTIES
  KeepsThePromise
CHECK_DEADLOCK FALSE
