SPECIFICATION Spec
CONSTANTS
  Runs = {r1}
  Intel <- SomeIntel
  Agent <- SomeAgents
  Sources <- SomeSources
  LowSignal <- SomeLow
  Ids = {e1, e2, e3}
  None = None
  NoReport = NoReport
  MaxFaults = 0
  news1 = news1
  product1 = product1
  review1 = review1
  u1 = u1
  u2 = u2
INVARIANTS FailuresAreVisible
CHECK_DEADLOCK FALSE
