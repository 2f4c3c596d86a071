SPECIFICATION FairSpec
CONSTANTS
  Analyzes = {a1}
  Confirms = {c1, c2}
  Refreshes = {f1}
  Rivals = {x, y}
  NoRun = NoRun
  NoList = NoList
  NoReport = NoReport
  Shell = Shell
  FaultSites <- AllSites
  MaxFaults = 2
  MaxCrashes = 1
INVARIANTS TypeOK LaunchedAtMostOnce AnalysedListIsApproved ApprovalsAreHuman CompletedHasReport InProgressHasWorker
PROPERTIES PhaseNeverRewinds ImplementsHumanGate RunsSettle
CHECK_DEADLOCK FALSE
