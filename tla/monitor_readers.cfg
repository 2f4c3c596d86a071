SPECIFICATION Spec
CONSTANTS
  r1 = r1
  r2 = r2
  r3 = r3
  u = u
  h1 = h1
  h2 = h2
  h3 = h3
  Runs = {r1, r2, r3}
  Owner <- SomeOwners
  User = u
  Headlines = {h1, h2, h3}
  Key <- SomeKeys
  None = None
SYMMETRY Alike
INVARIANTS DeltaIsWhatIsNew BadgesLeadToNews
CHECK_DEADLOCK FALSE
