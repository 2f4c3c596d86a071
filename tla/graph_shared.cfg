SPECIFICATION Spec
CONSTANTS
  Runs = {r1, r2}
  Intel <- FewIntel
  Agent <- FewAgents
  Sources <- FewSources
  LowSignal <- FewLow
  Ids = {e1, e2}
  None = None
  NoReport = NoReport
  MaxFaults = 1
  news1 = news1
  product1 = product1
  review1 = review1
  u1 = u1
  u2 = u2
INVARIANTS CitationsLeadToTheirSource
PROPERTIES RowsAreNeverTaken
CHECK_DEADLOCK FALSE
