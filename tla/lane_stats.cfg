SPECIFICATION Spec
CONSTANTS
  r1 = r1
  a1 = a1
  a2 = a2
  c1 = c1
  Runs = {r1}
  Workers = {a1, a2, c1}
  Of <- SomeOwners
  None = None
  Window = 1
  MaxClock = 2
  MaxWork = 3
  MaxOthers = 2
  MaxCrashes = 1
SYMMETRY Alike
INVARIANTS TypeOK CallsAreCounted SoloRunsNeverOvercount
CHECK_DEADLOCK FALSE
