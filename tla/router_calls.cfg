SPECIFICATION Spec
CONSTANTS
  Callers = {t1, t2}
  LANES <- ThreeLanes
  Cap <- ThreeCaps
  ATTEMPTS_PER_LANE = 2
  MaxCalls = 1
  MaxUsed = 9
  MaxFaults = 1
INVARIANTS TypeOK EveryKeyHasItsChance OvershootIsBounded
PROPERTIES CallsEnd
CHECK_DEADLOCK FALSE
