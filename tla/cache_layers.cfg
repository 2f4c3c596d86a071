SPECIFICATION Spec
CONSTANTS
  Gatherers = {g1, g2}
  INTEL_CACHE = TRUE
  TTL <- TwoDays
  MaxAge = 3
  Providers <- TwoProviders
  None = None
  LastDay = 5
  MaxFaults = 1
INVARIANTS TypeOK StalenessIsBounded StampedeIsBounded
PROPERTIES GatheringsEnd
CHECK_DEADLOCK FALSE
