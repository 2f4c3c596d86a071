------------------------- MODULE RunLifecycleProofs -------------------------
(***************************************************************************)
(* Theorems about RunLifecycle, for any sets of requests and rivals and    *)
(* any number of failures and restarts.                                    *)
(***************************************************************************)
EXTENDS RunLifecycle, TLAPS

-----------------------------------------------------------------------------
(* Type correctness. *)

\* Where a call may send control.
LEMMA KnownSites ==
  {"idle", "disc_emitter", "disc_begin", "disc_agents", "disc_park", "disc_announce",
   "disc_fail", "conf_replace", "ref_create", "ref_replace", "ana_emitter",
   "ana_begin", "ana_agents", "ana_save", "ana_finish", "ana_fail",
   "done", "rejected", "raised", "killed"} = Sites \cup Ends
BY DEF Sites, Ends, DiscoverySites, GateSites, AnalysisSites

\* An update outside the domain changes nothing, one inside needs a typed value.
LEMMA UpdateType ==
  ASSUME NEW D, NEW T, NEW f \in [D -> T], NEW x, NEW v, x \in D => v \in T
  PROVE  [f EXCEPT ![x] = v] \in [D -> T]
OBVIOUS

\* The type of the history of failures.
FailingType == faults \in Nat /\ escaped \in [Requests -> Sites \cup Ends \cup {"none"}]

\* A step of request q moves its program counter to a site and keeps the types
\* of the counters.
LEMMA PcType ==
  ASSUME TypeOK, NEW q \in Requests, NEW next \in Sites \cup Ends,
         NEW handler \in Sites \cup Ends,
         (Goto(q, next) /\ UNCHANGED failing) \/ Raise(q, handler)
  PROVE  pc' \in [Requests -> Sites \cup Ends] /\ FailingType'
BY DEF TypeOK, Goto, Raise, failing, FailingType

\* Writing a status keeps the type of the runs table.
LEMMA StatusType ==
  ASSUME TypeOK, NEW r, NEW s \in Status
  PROVE  WithStatus(r, s) \in [Runs -> RunRow]
BY DEF TypeOK, WithStatus, RunRow

\* A write of the runs table that commits, fails, or fails after committing.
LEMMA WriteRunsType ==
  ASSUME TypeOK, NEW q \in Requests, NEW new \in [Runs -> RunRow],
         NEW next \in Sites \cup Ends, NEW handler \in Sites \cup Ends,
         Write(q, runs, new, next, handler)
  PROVE  /\ runs' \in [Runs -> RunRow]
         /\ pc' \in [Requests -> Sites \cup Ends]
         /\ FailingType'
<1>1. runs' \in {runs, new}
  BY DEF Write
<1>2. (Goto(q, next) /\ UNCHANGED failing) \/ Raise(q, handler)
  BY DEF Write
<1>3. pc' \in [Requests -> Sites \cup Ends] /\ FailingType'
  BY <1>2, PcType
<1>4. QED
  BY <1>1, <1>3 DEF TypeOK

\* Every table column, program counter and counter keeps its type through
\* every handler, task, failure and restart.
THEOREM TypeCorrect == Spec => []TypeOK
<1>1. Init => TypeOK
  <2> SUFFICES ASSUME Init PROVE TypeOK
    OBVIOUS
  <2>1. Absent \in RunRow
    BY DEF Absent, RunRow, Status
  <2>2. "idle" \in Sites \cup Ends
    BY KnownSites
  <2>3. QED
    BY <2>1, <2>2 DEF Init, TypeOK, Lists, FailingType
<1>2. TypeOK /\ [Next]_vars => TypeOK'
  <2> SUFFICES ASSUME TypeOK, [Next]_vars PROVE TypeOK'
    OBVIOUS
  <2> USE DEF tables, local, history, failing, FailingType
  <2>0. Analyzes \subseteq Requests /\ Confirms \subseteq Requests /\ Refreshes \subseteq Requests
    BY DEF Requests
  <2>1. ASSUME NEW q \in Requests, NEW r, NEW s \in Status, NEW next \in Sites \cup Ends,
               NEW handler \in Sites \cup Ends,
               Write(q, runs, WithStatus(r, s), next, handler),
               UNCHANGED <<rivals, report, local, history, clock, crashes>>
        PROVE  TypeOK'
    <3>1. WithStatus(r, s) \in [Runs -> RunRow]
      BY StatusType
    <3>2. runs' \in [Runs -> RunRow] /\ pc' \in [Requests -> Sites \cup Ends] /\ FailingType'
      BY <2>1, <3>1, WriteRunsType
    <3>3. QED
      BY <2>1, <3>2 DEF TypeOK
  <2>2. ASSUME NEW q \in Requests, NEW next \in Sites \cup Ends, NEW handler \in Sites \cup Ends,
               Call(q, next, handler),
               UNCHANGED <<tables, local, history, clock, crashes>>
        PROVE  TypeOK'
    <3>1. pc' \in [Requests -> Sites \cup Ends] /\ FailingType'
      BY <2>2, PcType DEF Call
    <3>2. QED
      BY <2>2, <3>1 DEF TypeOK
  <2>3. ASSUME NEW q \in Analyzes, StartRun(q) PROVE TypeOK'
    BY <2>0, <2>1, <2>3, KnownSites DEF StartRun, Status
  <2>4. ASSUME NEW q \in Requests, Discovery(q) PROVE TypeOK'
    <3>1. CASE DiscoveryEmitter(q)
      BY <2>2, <3>1, KnownSites DEF DiscoveryEmitter
    <3>2. CASE BeginDiscovery(q)
      BY <2>1, <3>2, KnownSites DEF BeginDiscovery, Status
    <3>3. CASE DiscoverRivals(q)
      <4>1. PICK found \in Lists :
              Write(q, rivals, [rivals EXCEPT ![q] = @ \cup found], "disc_park", "disc_fail")
        BY <3>3 DEF DiscoverRivals, Saved
      <4>2. rivals' \in [Runs -> Lists]
        BY <4>1 DEF Write, TypeOK, Lists, FailingType
      <4>3. pc' \in [Requests -> Sites \cup Ends] /\ FailingType'
        BY <4>1, PcType, KnownSites DEF Write
      <4>4. QED
        BY <3>3, <4>2, <4>3 DEF DiscoverRivals, TypeOK
    <3>4. CASE Park(q)
      BY <2>1, <3>4, KnownSites DEF Park, Status
    <3>5. CASE AnnounceDiscovery(q)
      BY <2>2, <3>5, KnownSites DEF AnnounceDiscovery
    <3>6. QED
      BY <2>4, <3>1, <3>2, <3>3, <3>4, <3>5 DEF Discovery
  <2>5. ASSUME NEW q \in Requests, Analysis(q) PROVE TypeOK'
    <3>1. CASE AnalysisEmitter(q)
      BY <2>2, <3>1, KnownSites DEF AnalysisEmitter
    <3>2. CASE BeginAnalysis(q)
      BY <2>1, <3>2, KnownSites DEF BeginAnalysis, Status
    <3>3. CASE RunAgents(q)
      BY <2>2, <3>3, KnownSites DEF RunAgents
    <3>4. CASE SaveReport(q)
      <4>1. PICK text \in {list[q], Shell} :
              Write(q, report, [report EXCEPT ![run[q]] = text], "ana_finish", "ana_fail")
        BY <3>4 DEF SaveReport
      <4>2. report' \in [Runs -> {NoReport, Shell} \cup Lists]
        <5>1. text \in {NoReport, Shell} \cup Lists
          BY <4>1 DEF TypeOK
        <5>2. report' \in {report, [report EXCEPT ![run[q]] = text]}
          BY <4>1 DEF Write
        <5>3. QED
          BY <5>1, <5>2 DEF TypeOK
      <4>3. pc' \in [Requests -> Sites \cup Ends] /\ FailingType'
        BY <4>1, PcType, KnownSites DEF Write
      <4>4. QED
        BY <3>4, <4>2, <4>3 DEF SaveReport, TypeOK
    <3>5. CASE FinishRun(q)
      <4>1. [runs EXCEPT ![run[q]] =
               [status |-> "completed", error |-> @.error, finished |-> clock + 1]]
              \in [Runs -> RunRow]
        <5> DEFINE row == [status |-> "completed", error |-> runs[run[q]].error,
                           finished |-> clock + 1]
        <5>1. run[q] \in Runs => row \in RunRow
          BY DEF TypeOK, RunRow, Status
        <5>2. runs \in [Runs -> RunRow]
          BY DEF TypeOK
        <5> HIDE DEF row
        <5>3. [runs EXCEPT ![run[q]] = row] \in [Runs -> RunRow]
          BY <5>1, <5>2, UpdateType
        <5>4. QED
          BY <5>3 DEF row
      <4>2. runs' \in [Runs -> RunRow] /\ pc' \in [Requests -> Sites \cup Ends] /\ FailingType'
        BY <3>5, <4>1, WriteRunsType, KnownSites DEF FinishRun
      <4>3. clock' = clock + 1 /\ UNCHANGED <<rivals, report, local, history, crashes>>
        BY <3>5 DEF FinishRun
      <4>4. QED
        BY <4>2, <4>3 DEF TypeOK
    <3>6. QED
      BY <2>5, <3>1, <3>2, <3>3, <3>4, <3>5 DEF Analysis
  <2>6. ASSUME NEW q \in Requests, FailRun(q) PROVE TypeOK'
    <3>1. [runs EXCEPT ![run[q]] =
             [status |-> "failed", error |-> TRUE, finished |-> clock + 1]] \in [Runs -> RunRow]
      <4>1. [status |-> "failed", error |-> TRUE, finished |-> clock + 1] \in RunRow
        BY DEF TypeOK, RunRow, Status
      <4>2. QED
        BY <4>1, UpdateType, Zenon DEF TypeOK
    <3>2. runs' \in [Runs -> RunRow] /\ pc' \in [Requests -> Sites \cup Ends] /\ FailingType'
      BY <2>6, <3>1, WriteRunsType, KnownSites DEF FailRun
    <3>3. clock' = clock + 1 /\ UNCHANGED <<rivals, report, local, history, crashes>>
      BY <2>6 DEF FailRun
    <3>4. QED
      BY <3>2, <3>3 DEF TypeOK
  <2>7. ASSUME NEW q \in Confirms, Confirm(q) PROVE TypeOK'
    <3>1. pc' \in [Requests -> Sites \cup Ends] /\ FailingType'
      BY <2>0, <2>7, PcType, KnownSites DEF Confirm, Call
    <3>2. CASE UNCHANGED <<runs, approved, local>>
      BY <2>7, <3>1, <3>2 DEF Confirm, TypeOK
    <3>3. CASE \E r \in Runs, l \in Lists :
                 /\ runs' = WithStatus(r, "confirmed")
                 /\ approved' = [approved EXCEPT ![r] = l]
                 /\ run' = [run EXCEPT ![q] = r]
                 /\ list' = [list EXCEPT ![q] = l]
      <4>1. PICK r \in Runs, l \in Lists :
              /\ runs' = WithStatus(r, "confirmed")
              /\ approved' = [approved EXCEPT ![r] = l]
              /\ run' = [run EXCEPT ![q] = r]
              /\ list' = [list EXCEPT ![q] = l]
        BY <3>3
      <4>2. runs' \in [Runs -> RunRow]
        BY <4>1, StatusType DEF Status
      <4>3. /\ approved' \in [Runs -> {NoList} \cup Lists]
            /\ run' \in [Requests -> Runs \cup {NoRun}]
            /\ list' \in [Requests -> Lists]
        BY <4>1 DEF TypeOK
      <4>4. QED
        BY <2>7, <3>1, <4>2, <4>3 DEF Confirm, TypeOK
    <3>4. QED
      BY <2>7, <3>2, <3>3 DEF Confirm
  <2>8. ASSUME NEW q \in Requests, ReplaceAndLaunch(q) PROVE TypeOK'
    <3>1. rivals' \in [Runs -> Lists]
      <4>1. rivals' \in {rivals, Replaced(q)}
        BY <2>8 DEF ReplaceAndLaunch, Write
      <4>2. list[q] \in Lists
        BY DEF TypeOK
      <4>3. QED
        BY <4>1, <4>2 DEF TypeOK, Replaced
    <3>2. pc' \in [Requests -> Sites \cup Ends] /\ FailingType'
      BY <2>8, PcType, KnownSites DEF ReplaceAndLaunch, Write
    <3>3. launches' \in [Runs -> Nat]
      <4>1. launches' \in {launches, [launches EXCEPT ![run[q]] = @ + 1]}
        BY <2>8 DEF ReplaceAndLaunch
      <4>2. run[q] \in Runs => launches[run[q]] + 1 \in Nat
        BY DEF TypeOK
      <4>3. QED
        BY <4>1, <4>2, UpdateType DEF TypeOK
    <3>4. UNCHANGED <<runs, report, local, approved, clock, crashes>>
      BY <2>8 DEF ReplaceAndLaunch
    <3>5. QED
      BY <3>1, <3>2, <3>3, <3>4 DEF TypeOK
  <2>9. ASSUME NEW q \in Requests, CreateRefreshRun(q) PROVE TypeOK'
    <3>1. WithStatus(q, "queued") \in [Runs -> RunRow]
      BY StatusType DEF Status
    <3>2. runs' \in [Runs -> RunRow] /\ pc' \in [Requests -> Sites \cup Ends] /\ FailingType'
      BY <2>9, <3>1, WriteRunsType, KnownSites DEF CreateRefreshRun
    <3>3. approved' \in [Runs -> {NoList} \cup Lists]
      BY <2>9 DEF CreateRefreshRun, TypeOK
    <3>4. QED
      BY <2>9, <3>2, <3>3 DEF CreateRefreshRun, TypeOK
  <2>10. ASSUME NEW q \in Refreshes, ReadLatest(q) PROVE TypeOK'
    BY <2>10, KnownSites DEF ReadLatest, Goto, TypeOK
  <2>11. ASSUME NEW q \in Requests, Refuse(q) \/ RefuseRefresh(q) PROVE TypeOK'
    BY <2>11, KnownSites DEF Refuse, RefuseRefresh, Goto, TypeOK
  <2>12. CASE Restart
    BY <2>12, KnownSites DEF Restart, TypeOK
  <2>13. CASE UNCHANGED vars
    BY <2>13 DEF vars, TypeOK
  <2>14. QED
    BY <2>0, <2>3, <2>4, <2>5, <2>6, <2>7, <2>8, <2>9, <2>10, <2>11, <2>12, <2>13
       DEF Next, Arrive, Continue
<1>3. QED
  BY <1>1, <1>2, PTL DEF Spec

-----------------------------------------------------------------------------
(* How the program counters move. *)

Moves(q, from, to) == pc[q] \in from /\ \E s \in to : pc' = [pc EXCEPT ![q] = s]

\* A request that has arrived stays in its own part of the program: the moves of
\* a discovery task, of an analysis task, and of a handler at the gate.
DiscoveryMove(q) == Moves(q, DiscoverySites, DiscoverySites \cup {"done", "raised"})
AnalysisMove(q)  == Moves(q, AnalysisSites, AnalysisSites \cup {"done", "raised"})
GateMove(q) == \/ Moves(q, {"ref_create"}, {"ref_replace", "raised"})
               \/ Moves(q, {"conf_replace", "ref_replace"}, {"ana_emitter", "raised"})

\* A request that continues keeps its run and list and moves as above.
LEMMA ContinueMoves ==
  ASSUME NEW q, Continue(q)
  PROVE  /\ UNCHANGED local
         /\ DiscoveryMove(q) \/ AnalysisMove(q) \/ GateMove(q)
<1> USE DEF Moves, DiscoveryMove, AnalysisMove, GateMove, DiscoverySites, AnalysisSites,
            Write, Call, Raise, Goto
<1>1. CASE DiscoveryEmitter(q)
  BY <1>1 DEF DiscoveryEmitter
<1>2. CASE BeginDiscovery(q)
  BY <1>2 DEF BeginDiscovery
<1>3. CASE DiscoverRivals(q)
  BY <1>3 DEF DiscoverRivals
<1>4. CASE Park(q)
  BY <1>4 DEF Park
<1>5. CASE AnnounceDiscovery(q)
  BY <1>5 DEF AnnounceDiscovery
<1>6. CASE FailRun(q)
  BY <1>6 DEF FailRun
<1>7. CASE ReplaceAndLaunch(q)
  BY <1>7 DEF ReplaceAndLaunch
<1>8. CASE CreateRefreshRun(q)
  BY <1>8 DEF CreateRefreshRun
<1>9. CASE AnalysisEmitter(q)
  BY <1>9 DEF AnalysisEmitter
<1>10. CASE BeginAnalysis(q)
  BY <1>10 DEF BeginAnalysis
<1>11. CASE RunAgents(q)
  BY <1>11 DEF RunAgents
<1>12. CASE SaveReport(q)
  BY <1>12 DEF SaveReport
<1>13. CASE FinishRun(q)
  BY <1>13 DEF FinishRun
<1>14. QED
  BY <1>1, <1>2, <1>3, <1>4, <1>5, <1>6, <1>7, <1>8, <1>9, <1>10, <1>11, <1>12, <1>13
     DEF Continue, Discovery, Analysis

\* What a confirm request does that is not refused: its call raises before the
\* swap, or it wins, and goes on or raises after that.
LEMMA ConfirmEffect ==
  ASSUME NEW q, Confirm(q)
  PROVE  /\ pc[q] = "idle"
         /\ UNCHANGED <<rivals, report, launches, clock, crashes>>
         /\ \/ /\ pc' = [pc EXCEPT ![q] = "raised"]
               /\ UNCHANGED <<runs, run, list, approved>>
            \/ \E r \in Runs, l \in Lists :
                 /\ runs[r].status = "awaiting_confirmation"
                 /\ \E s \in {"conf_replace", "raised"} : pc' = [pc EXCEPT ![q] = s]
                 /\ runs' = WithStatus(r, "confirmed")
                 /\ run' = [run EXCEPT ![q] = r] /\ list' = [list EXCEPT ![q] = l]
                 /\ approved' = [approved EXCEPT ![r] = l]
BY DEF Confirm, AtGate, Call, Raise, Goto, local

\* No interleaving takes a request out of its part of the program, or lets one
\* that works be without a run.
LEMMA SitesInvariant == Spec => []SitesInv
<1>1. Init => SitesInv
  BY DEF Init, SitesInv, Runs, Requests, DiscoverySites, Ends
<1>2. TypeOK /\ SitesInv /\ [Next]_vars => SitesInv'
  <2> SUFFICES ASSUME TypeOK, SitesInv, [Next]_vars PROVE SitesInv'
    OBVIOUS
  <2>1. ASSUME NEW q \in Requests, Continue(q) PROVE SitesInv'
    <3>1. UNCHANGED run /\ (DiscoveryMove(q) \/ AnalysisMove(q) \/ GateMove(q))
      BY <2>1, ContinueMoves DEF local
    <3>2. CASE DiscoveryMove(q)
      BY <3>1, <3>2, KindsDisjoint DEF DiscoveryMove, Moves, SitesInv, TypeOK, Requests, DiscoverySites, Ends
    <3>3. CASE AnalysisMove(q)
      BY <3>1, <3>3, KindsDisjoint DEF AnalysisMove, Moves, SitesInv, TypeOK, Requests,
                        DiscoverySites, AnalysisSites, Ends
    <3>4. CASE GateMove(q)
      BY <3>1, <3>4, KindsDisjoint DEF GateMove, Moves, SitesInv, TypeOK, Requests,
                        DiscoverySites, AnalysisSites, Ends
    <3>5. QED
      BY <3>1, <3>2, <3>3, <3>4
  <2>2. ASSUME NEW q \in Analyzes, StartRun(q) PROVE SitesInv'
    <3>1. \E s \in {"disc_emitter", "raised"} : pc' = [pc EXCEPT ![q] = s]
      BY <2>2 DEF StartRun, Write, Raise, Goto
    <3>2. UNCHANGED run
      BY <2>2 DEF StartRun, local
    <3>3. QED
      BY <3>1, <3>2, KindsDisjoint DEF SitesInv, TypeOK, Requests, Runs, DiscoverySites, Ends
  <2>3. ASSUME NEW q \in Confirms, Confirm(q) PROVE SitesInv'
    <3>1. \/ pc' = [pc EXCEPT ![q] = "raised"] /\ run' = run
          \/ \E r \in Runs, s \in {"conf_replace", "raised"} :
               pc' = [pc EXCEPT ![q] = s] /\ run' = [run EXCEPT ![q] = r]
      BY <2>3, ConfirmEffect
    <3>2. QED
      BY <2>3, <3>1, KindsDisjoint DEF SitesInv, TypeOK, Requests, Runs, DiscoverySites, Ends
  <2>4. ASSUME NEW q \in Requests, Refuse(q) \/ RefuseRefresh(q) PROVE SitesInv'
    BY <2>4, KindsDisjoint DEF Refuse, RefuseRefresh, Goto, local, SitesInv, TypeOK, Requests,
                      DiscoverySites, Ends
  <2>5. ASSUME NEW q \in Refreshes, ReadLatest(q) PROVE SitesInv'
    BY <2>5, KindsDisjoint DEF ReadLatest, Goto, SitesInv, TypeOK, Requests, Runs, DiscoverySites, Ends
  <2>6. CASE Restart
    BY <2>6 DEF Restart, local, SitesInv, TypeOK, Requests, DiscoverySites, Ends
  <2>7. CASE UNCHANGED vars
    BY <2>7 DEF vars, local, SitesInv
  <2>8. QED
    BY <2>1, <2>2, <2>3, <2>4, <2>5, <2>6, <2>7 DEF Next, Arrive, Requests
<1>3. QED
  BY <1>1, <1>2, TypeCorrect, PTL DEF Spec

-----------------------------------------------------------------------------
(* The status column. *)

\* The status of a run x after status s was written for r.
LEMMA StatusAfterWrite ==
  ASSUME TypeOK, NEW r \in Runs, NEW s \in Status, NEW x \in Runs
  PROVE  WithStatus(r, s)[x].status = IF x = r THEN s ELSE runs[x].status
BY DEF TypeOK, WithStatus, RunRow

\* Outside FinishRun no write makes a run completed, and only SaveReport touches
\* the reports or moves a task to its last call.
LEMMA NothingCompletes ==
  ASSUME TypeOK, SitesInv, NEW q \in Requests, Continue(q), ~FinishRun(q), ~SaveReport(q)
  PROVE  /\ UNCHANGED <<report, run>>
         /\ \A x \in Runs : runs'[x].status = "completed" => runs[x].status = "completed"
         /\ \A p \in Requests : pc'[p] = "ana_finish" => pc[p] = "ana_finish"
<1> USE DEF local, tables, history
<1>0. ASSUME NEW r \in Runs, NEW s \in Status \ {"completed"},
             NEW next, NEW handler, next # "ana_finish", handler # "ana_finish",
             Write(q, runs, WithStatus(r, s), next, handler), UNCHANGED <<report, run>>
      PROVE  /\ UNCHANGED <<report, run>>
             /\ \A x \in Runs : runs'[x].status = "completed" => runs[x].status = "completed"
             /\ \A p \in Requests : pc'[p] = "ana_finish" => pc[p] = "ana_finish"
  <2>1. runs' \in {runs, WithStatus(r, s)}
    BY <1>0 DEF Write
  <2>2. pc' = [pc EXCEPT ![q] = next] \/ pc' = [pc EXCEPT ![q] = handler]
    BY <1>0 DEF Write, Raise, Goto
  <2>3. QED
    BY <1>0, <2>1, <2>2, StatusAfterWrite DEF TypeOK
<1>1. CASE BeginDiscovery(q) \/ Park(q) \/ CreateRefreshRun(q)
  <2>1. q \in Runs
    BY <1>1, KindsDisjoint DEF SitesInv, Requests, Runs, DiscoverySites, AnalysisSites, Ends,
       BeginDiscovery, Park, CreateRefreshRun
  <2>2. CASE BeginDiscovery(q)
    BY <1>0, <2>1, <2>2 DEF BeginDiscovery, Status
  <2>3. CASE Park(q)
    BY <1>0, <2>1, <2>3 DEF Park, Status
  <2>4. CASE CreateRefreshRun(q)
    BY <1>0, <2>1, <2>4 DEF CreateRefreshRun, Status
  <2>5. QED
    BY <1>1, <2>2, <2>3, <2>4
<1>2. CASE BeginAnalysis(q)
  <2>1. run[q] \in Runs
    BY <1>2 DEF BeginAnalysis, SitesInv, Ends
  <2>2. QED
    BY <1>0, <1>2, <2>1 DEF BeginAnalysis, Status
<1>3. CASE FailRun(q)
  <2>1. runs' \in {runs, [runs EXCEPT ![run[q]] =
                     [status |-> "failed", error |-> TRUE, finished |-> clock + 1]]}
    BY <1>3 DEF FailRun, Write
  <2>2. \A x \in Runs : runs'[x].status = "completed" => runs[x].status = "completed"
    BY <2>1 DEF TypeOK
  <2>3. UNCHANGED <<report, run>>
    BY <1>3 DEF FailRun
  <2>4. pc' = [pc EXCEPT ![q] = "done"] \/ pc' = [pc EXCEPT ![q] = "raised"]
    BY <1>3 DEF FailRun, Write, Raise, Goto
  <2>5. QED
    BY <2>2, <2>3, <2>4 DEF TypeOK
<1>4. CASE DiscoveryEmitter(q) \/ AnnounceDiscovery(q) \/ AnalysisEmitter(q) \/ RunAgents(q)
  BY <1>4 DEF DiscoveryEmitter, AnnounceDiscovery, AnalysisEmitter, RunAgents, Call, Raise,
     Goto, TypeOK
<1>5. CASE DiscoverRivals(q)
  BY <1>5 DEF DiscoverRivals, Write, Raise, Goto, TypeOK
<1>6. CASE ReplaceAndLaunch(q)
  BY <1>6 DEF ReplaceAndLaunch, Write, Raise, Goto, TypeOK
<1>7. QED
  BY <1>1, <1>2, <1>3, <1>4, <1>5, <1>6 DEF Continue, Discovery, Analysis

\* A report is stored before the run is completed.
LEMMA ReportInvariant == Spec => []ReportInv
<1>1. Init => ReportInv
  BY DEF Init, ReportInv, CompletedHasReport, Absent
<1>2. TypeOK /\ SitesInv /\ ReportInv /\ [Next]_vars => ReportInv'
  <2> SUFFICES ASSUME TypeOK, SitesInv, ReportInv, [Next]_vars PROVE ReportInv'
    OBVIOUS
  <2> USE DEF ReportInv, CompletedHasReport
  <2>1. ASSUME UNCHANGED <<report, run>>,
               \A x \in Runs : runs'[x].status = "completed" => runs[x].status = "completed",
               \A p \in Requests : pc'[p] = "ana_finish" => pc[p] = "ana_finish"
        PROVE  ReportInv'
    BY <2>1
  <2>2. ASSUME NEW q \in Requests, SaveReport(q) PROVE ReportInv'
    <3>1. PICK text \in {list[q], Shell} :
            Write(q, report, [report EXCEPT ![run[q]] = text], "ana_finish", "ana_fail")
      BY <2>2 DEF SaveReport
    <3>2. UNCHANGED <<runs, run>> /\ run[q] \in Runs
      BY <2>2 DEF SaveReport, local, SitesInv, Ends
    <3>3. text # NoReport
      BY <3>1, NullsDistinct DEF TypeOK
    <3>4. \/ report' = [report EXCEPT ![run[q]] = text] /\ pc' = [pc EXCEPT ![q] = "ana_finish"]
          \/ /\ report' \in {report, [report EXCEPT ![run[q]] = text]}
             /\ pc' = [pc EXCEPT ![q] = "ana_fail"]
      BY <3>1 DEF Write, Raise, Goto
    <3>5. \A x \in Runs : report[x] # NoReport => report'[x] # NoReport
      BY <3>3, <3>4 DEF TypeOK
    <3>6. ASSUME NEW p \in Requests, pc'[p] = "ana_finish"
          PROVE  report'[run'[p]] # NoReport
      <4>1. CASE p = q
        BY <3>2, <3>3, <3>4, <3>6, <4>1 DEF TypeOK
      <4>2. CASE p # q
        <5>1. pc[p] = "ana_finish" /\ run[p] \in Runs
          BY <3>4, <3>6, <4>2 DEF TypeOK, SitesInv, Ends
        <5>2. QED
          BY <3>2, <3>5, <5>1
      <4>3. QED
        BY <4>1, <4>2
    <3>7. QED
      BY <3>2, <3>5, <3>6
  <2>3. ASSUME NEW q \in Requests, FinishRun(q) PROVE ReportInv'
    <3>1. /\ pc[q] = "ana_finish"
          /\ UNCHANGED <<report, run>>
          /\ runs' \in {runs, [runs EXCEPT ![run[q]] =
                      [status |-> "completed", error |-> @.error, finished |-> clock + 1]]}
          /\ pc' = [pc EXCEPT ![q] = "done"] \/ pc' = [pc EXCEPT ![q] = "ana_fail"]
      BY <2>3 DEF FinishRun, Write, Raise, Goto, local
    <3>2. \A x \in Runs : runs'[x].status = "completed" => runs[x].status = "completed" \/ x = run[q]
      BY <3>1 DEF TypeOK
    <3>3. \A p \in Requests : pc'[p] = "ana_finish" => pc[p] = "ana_finish"
      BY <3>1 DEF TypeOK
    <3>4. QED
      BY <3>1, <3>2, <3>3
  <2>4. ASSUME NEW q \in Requests, Continue(q) PROVE ReportInv'
    BY <2>1, <2>2, <2>3, <2>4, NothingCompletes
  <2>5. ASSUME NEW q \in Analyzes, StartRun(q) PROVE ReportInv'
    <3>1. q \in Runs /\ q \in Requests
      BY DEF Runs, Requests
    <3>2. runs' \in {runs, WithStatus(q, "queued")} /\ UNCHANGED <<report, run>>
      BY <2>5 DEF StartRun, Write, local
    <3>3. pc' = [pc EXCEPT ![q] = "disc_emitter"] \/ pc' = [pc EXCEPT ![q] = "raised"]
      BY <2>5 DEF StartRun, Write, Raise, Goto
    <3>4. \A p \in Requests : pc'[p] = "ana_finish" => pc[p] = "ana_finish"
      BY <3>3 DEF TypeOK
    <3>5. QED
      BY <2>1, <3>1, <3>2, <3>4, StatusAfterWrite DEF Status
  <2>6. ASSUME NEW q \in Confirms, Confirm(q) PROVE ReportInv'
    <3>1. /\ UNCHANGED report
          /\ \E s \in {"conf_replace", "raised"} : pc' = [pc EXCEPT ![q] = s]
          /\ runs' = runs \/ \E r \in Runs : runs' = WithStatus(r, "confirmed")
          /\ run' = run \/ \E r \in Runs : run' = [run EXCEPT ![q] = r]
      BY <2>6, ConfirmEffect
    <3>2. \A x \in Runs : runs'[x].status = "completed" => runs[x].status = "completed"
      BY <3>1, StatusAfterWrite DEF Status
    <3>3. \A p \in Requests : pc'[p] = "ana_finish" => pc[p] = "ana_finish" /\ run'[p] = run[p]
      BY <3>1 DEF TypeOK
    <3>4. QED
      BY <3>1, <3>2, <3>3
  <2>7. ASSUME NEW q \in Requests, Refuse(q) \/ RefuseRefresh(q) \/ ReadLatest(q) PROVE ReportInv'
    BY <2>1, <2>7 DEF Refuse, RefuseRefresh, ReadLatest, Goto, tables, local, TypeOK
  <2>8. CASE Restart
    BY <2>1, <2>8 DEF Restart, tables, local, TypeOK
  <2>9. CASE UNCHANGED vars
    BY <2>1, <2>9 DEF vars, tables, local
  <2>10. QED
    BY <2>4, <2>5, <2>6, <2>7, <2>8, <2>9 DEF Next, Arrive, Requests
<1>3. QED
  BY <1>1, <1>2, TypeCorrect, SitesInvariant, PTL DEF Spec

\* A completed run, of which the poller hands out the run_id, has a report:
\* with any interleaving, failure or restart.
THEOREM CompletedRunsHaveReports == Spec => []CompletedHasReport
<1>1. ReportInv => CompletedHasReport
  BY DEF ReportInv
<1>2. QED
  BY <1>1, ReportInvariant, PTL

-----------------------------------------------------------------------------
(* The human gate, which confirm_run closes with one UPDATE. *)

\* Which statuses a request that continues may write, and for which run: a late
\* one for its own run, or one of the discovery, or of the creation, of a run.
LEMMA StatusStep ==
  ASSUME TypeOK, SitesInv, NEW q \in Requests, Continue(q), NEW x \in Runs,
         runs'[x].status # runs[x].status
  PROVE  /\ x = run[q]
         /\ \/ runs'[x].status \notin Early /\ pc'[q] \notin PreGate
            \/ x = q /\ q \in Analyzes /\ pc[q] = "disc_begin" /\ runs'[x].status = "running_discovery"
            \/ x = q /\ q \in Analyzes /\ pc[q] = "disc_park" /\ pc'[q] \notin PreGate
            \/ x = q /\ q \in Refreshes /\ runs'[x].status = "queued"
<1> USE DEF Early, PreGate
<1>0. pc \in [Requests -> Sites \cup Ends]
  BY DEF TypeOK
<1>1. ASSUME NEW r \in Runs, NEW s \in Status, runs' \in {runs, WithStatus(r, s)}
      PROVE  x = r /\ runs'[x].status = s
  BY <1>1, StatusAfterWrite
<1>2. CASE BeginDiscovery(q) \/ Park(q)
  <2>1. q \in Analyzes /\ q \in Runs /\ run[q] = q
    BY <1>2, KindsDisjoint DEF SitesInv, Requests, Runs, DiscoverySites, AnalysisSites, Ends,
       BeginDiscovery, Park
  <2>2. CASE BeginDiscovery(q)
    <3>1. runs' \in {runs, WithStatus(q, "running_discovery")} /\ pc[q] = "disc_begin"
      BY <2>2 DEF BeginDiscovery, Write
    <3>2. QED
      BY <1>1, <2>1, <3>1 DEF Status
  <2>3. CASE Park(q)
    <3>1. /\ runs' \in {runs, WithStatus(q, "awaiting_confirmation")}
          /\ pc[q] = "disc_park"
          /\ pc' = [pc EXCEPT ![q] = "disc_announce"] \/ pc' = [pc EXCEPT ![q] = "disc_fail"]
      BY <2>3 DEF Park, Write, Raise, Goto
    <3>2. QED
      BY <1>0, <1>1, <2>1, <3>1 DEF Status
  <2>4. QED
    BY <1>2, <2>2, <2>3
<1>3. CASE CreateRefreshRun(q)
  <2>1. q \in Refreshes /\ q \in Runs /\ run[q] = q
    BY <1>3, KindsDisjoint DEF SitesInv, Requests, Runs, DiscoverySites, Ends, CreateRefreshRun
  <2>2. runs' \in {runs, WithStatus(q, "queued")}
    BY <1>3 DEF CreateRefreshRun, Write
  <2>3. QED
    BY <1>1, <2>1, <2>2 DEF Status
<1>4. CASE BeginAnalysis(q)
  <2>1. /\ runs' \in {runs, WithStatus(run[q], "running_analysis")}
        /\ pc' = [pc EXCEPT ![q] = "ana_agents"] \/ pc' = [pc EXCEPT ![q] = "ana_fail"]
    BY <1>4 DEF BeginAnalysis, Write, Raise, Goto
  <2>2. run[q] \in Runs
    BY <1>4 DEF BeginAnalysis, SitesInv, Ends
  <2>3. QED
    BY <1>0, <1>1, <2>1, <2>2 DEF Status
<1>5. CASE FailRun(q) \/ FinishRun(q)
  <2>1. PICK row \in {[status |-> "failed", error |-> TRUE, finished |-> clock + 1],
                      [status |-> "completed", error |-> runs[run[q]].error, finished |-> clock + 1]} :
          /\ runs' \in {runs, [runs EXCEPT ![run[q]] = row]}
          /\ \E s \in {"done", "raised", "ana_fail"} : pc' = [pc EXCEPT ![q] = s]
    BY <1>5 DEF FailRun, FinishRun, Write, Raise, Goto
  <2>2. row.status \in {"failed", "completed"}
    BY <2>1
  <2>3. x = run[q] /\ runs'[x].status \in {"failed", "completed"}
    BY <2>1, <2>2 DEF TypeOK
  <2>4. pc'[q] \in {"done", "raised", "ana_fail"}
    BY <1>0, <2>1
  <2>5. QED
    BY <2>3, <2>4
<1>6. CASE ~(\/ BeginDiscovery(q) \/ Park(q) \/ CreateRefreshRun(q) \/ BeginAnalysis(q)
             \/ FailRun(q) \/ FinishRun(q))
  <2>1. runs' = runs
    BY <1>6 DEF Continue, Discovery, Analysis, tables, DiscoveryEmitter, AnnounceDiscovery,
       AnalysisEmitter, RunAgents, DiscoverRivals, SaveReport, ReplaceAndLaunch
  <2>2. QED
    BY <2>1
<1>7. QED
  BY <1>2, <1>3, <1>4, <1>5, <1>6

\* A request that continues launches agents only when it leaves the gate with
\* its list stored, and only for its own run.
LEMMA LaunchStep ==
  ASSUME TypeOK, NEW q \in Requests, Continue(q)
  PROVE  \/ UNCHANGED launches
         \/ /\ pc[q] \in {"conf_replace", "ref_replace"}
            /\ pc' = [pc EXCEPT ![q] = "ana_emitter"]
            /\ launches' = [launches EXCEPT ![run[q]] = @ + 1]
<1>1. CASE ReplaceAndLaunch(q)
  <2>1. pc' = [pc EXCEPT ![q] = "ana_emitter"] \/ pc' = [pc EXCEPT ![q] = "raised"]
    BY <1>1 DEF ReplaceAndLaunch, Write, Raise, Goto
  <2>2. QED
    BY <1>1, <2>1 DEF ReplaceAndLaunch, TypeOK
<1>2. CASE ~ReplaceAndLaunch(q)
  BY <1>2 DEF Continue, Discovery, Analysis, history, DiscoveryEmitter, BeginDiscovery,
     DiscoverRivals, Park, AnnounceDiscovery, AnalysisEmitter, BeginAnalysis, RunAgents,
     SaveReport, FinishRun, FailRun, CreateRefreshRun
<1>3. QED
  BY <1>1, <1>2

\* The inductive step for the requests that have arrived.
LEMMA GateContinue ==
  ASSUME TypeOK, SitesInv, GateInv, NEW q \in Requests, Continue(q)
  PROVE  GateInv'
<1> USE DEF PreGate
<1>0. /\ UNCHANGED run
      /\ DiscoveryMove(q) \/ AnalysisMove(q) \/ GateMove(q)
  BY ContinueMoves DEF local
<1>1. PICK from, to :
        /\ pc[q] \in from /\ \E s \in to : pc' = [pc EXCEPT ![q] = s]
        /\ \/ from = DiscoverySites /\ to = DiscoverySites \cup {"done", "raised"}
           \/ from = AnalysisSites /\ to = AnalysisSites \cup {"done", "raised"}
           \/ from = {"ref_create"} /\ to = {"ref_replace", "raised"}
           \/ from = {"conf_replace", "ref_replace"} /\ to = {"ana_emitter", "raised"}
  BY <1>0 DEF DiscoveryMove, AnalysisMove, GateMove, Moves
<1>2. \A p \in Requests \ {q} : pc'[p] = pc[p]
  BY <1>1 DEF TypeOK
<1>3. pc'[q] \notin {"idle", "conf_replace", "ref_create"}
  BY <1>1 DEF TypeOK, DiscoverySites, AnalysisSites
<1>4. pc[q] \notin PreGate => pc'[q] \notin PreGate
  <2> SUFFICES ASSUME pc[q] \notin PreGate, pc'[q] \in PreGate PROVE FALSE
    OBVIOUS
  <2>1. pc[q] \in {"disc_announce", "disc_fail"}
    BY <1>1 DEF TypeOK, DiscoverySites, AnalysisSites
  <2>2. AnnounceDiscovery(q) \/ FailRun(q)
    BY <2>1 DEF Continue, Discovery, Analysis, DiscoveryEmitter, BeginDiscovery, DiscoverRivals,
       Park, AnalysisEmitter, BeginAnalysis, RunAgents, SaveReport, FinishRun,
       ReplaceAndLaunch, CreateRefreshRun
  <2>3. \E s \in {"done", "raised", "disc_fail"} : pc' = [pc EXCEPT ![q] = s]
    BY <2>2 DEF AnnounceDiscovery, FailRun, Call, Write, Raise, Goto
  <2>4. QED
    BY <2>3 DEF TypeOK
<1>5. \A r \in Analyzes : pc'[r] \in PreGate => pc[r] \in PreGate
  BY <1>2, <1>4 DEF Requests
<1>6. \A r \in Runs : q \in Runs /\ run[q] = r => q = r
  BY DEF SitesInv
<1>7. \A r \in Runs : q \in Confirms /\ run[q] = r =>
        r \in Analyzes /\ runs[r].status \notin Early /\ pc[r] \notin PreGate
  BY NullsDistinct DEF GateInv, Runs
<1>8. (\A c \in Confirms : pc[c] = "idle" => run[c] = NoRun)'
  BY <1>0, <1>2, <1>3 DEF GateInv, Requests
<1>9. (\A c, d \in Confirms : run[c] = run[d] /\ run[c] # NoRun => c = d)'
  BY <1>0 DEF GateInv
<1>10. ASSUME NEW c \in Confirms, run[c] # NoRun
       PROVE  (/\ run[c] \in Analyzes
               /\ runs[run[c]].status \notin Early
               /\ pc[run[c]] \notin PreGate
               /\ launches[run[c]] <= 1
               /\ pc[c] = "conf_replace" => launches[run[c]] = 0)'
  <2>1. run[c] \in Analyzes /\ run[c] \in Runs /\ run'[c] = run[c]
    BY <1>0, <1>10 DEF GateInv, Runs
  <2>2. runs'[run[c]].status \notin Early
    <3>1. runs[run[c]].status \notin Early /\ pc[run[c]] \notin PreGate
      BY <1>10 DEF GateInv
    <3>2. CASE runs'[run[c]].status = runs[run[c]].status
      BY <3>1, <3>2
    <3>3. CASE runs'[run[c]].status # runs[run[c]].status
      BY <2>1, <3>1, <3>3, StatusStep, KindsDisjoint
    <3>4. QED
      BY <3>2, <3>3
  <2>3. pc'[run[c]] \notin PreGate
    BY <1>5, <1>10, <2>1 DEF GateInv
  <2>4. CASE UNCHANGED launches
    BY <1>2, <1>3, <1>10, <2>1, <2>2, <2>3, <2>4 DEF GateInv, Requests
  <2>5. CASE /\ pc[q] \in {"conf_replace", "ref_replace"}
             /\ pc' = [pc EXCEPT ![q] = "ana_emitter"]
             /\ launches' = [launches EXCEPT ![run[q]] = @ + 1]
    <3>1. run[q] = run[c] => q = c
      <4>1. q \notin Analyzes
        BY <2>5 DEF SitesInv, DiscoverySites, Ends
      <4>2. QED
        BY <1>6, <1>10, <2>1, <4>1, KindsDisjoint DEF GateInv, Requests, Runs
    <3>2. CASE q = c
      <4>1. pc[c] = "conf_replace"
        BY <2>5, <3>2 DEF SitesInv
      <4>2. launches[run[c]] = 0
        BY <1>10, <4>1 DEF GateInv
      <4>3. launches'[run[c]] = 1 /\ pc'[c] # "conf_replace"
        BY <1>3, <2>1, <2>5, <3>2, <4>2 DEF TypeOK
      <4>4. QED
        BY <2>1, <2>2, <2>3, <4>3
    <3>3. CASE q # c
      <4>1. launches'[run[c]] = launches[run[c]] /\ pc'[c] = pc[c]
        BY <1>2, <2>5, <3>1, <3>3 DEF TypeOK, Requests
      <4>2. QED
        BY <1>10, <2>1, <2>2, <2>3, <4>1 DEF GateInv
    <3>4. QED
      BY <3>2, <3>3
  <2>6. QED
    BY <2>4, <2>5, LaunchStep
<1>11. ASSUME NEW r \in Analyzes, \A c \in Confirms : run'[c] # r
       PROVE  launches'[r] = 0
  <2>1. launches[r] = 0
    BY <1>0, <1>11 DEF GateInv
  <2>2. CASE UNCHANGED launches
    BY <2>1, <2>2
  <2>3. CASE /\ pc[q] \in {"conf_replace", "ref_replace"}
             /\ launches' = [launches EXCEPT ![run[q]] = @ + 1]
    <3>1. q \notin Analyzes
      BY <2>3 DEF SitesInv, DiscoverySites, Ends
    <3>2. run[q] # r
      BY <1>0, <1>6, <1>11, <3>1, KindsDisjoint DEF Requests, Runs
    <3>3. QED
      BY <2>1, <2>3, <3>2 DEF TypeOK, Runs
  <2>4. QED
    BY <2>2, <2>3, LaunchStep
<1>12. ASSUME NEW r \in Analyzes, pc'[r] \in PreGate
       PROVE  runs'[r].status \in Early \ {"awaiting_confirmation"}
  <2>1. r \in Runs /\ r \in Requests /\ pc[r] \in PreGate
    BY <1>5, <1>12 DEF Runs, Requests
  <2>2. runs[r].status \in Early \ {"awaiting_confirmation"}
    BY <2>1 DEF GateInv
  <2>3. CASE runs'[r].status = runs[r].status
    BY <2>2, <2>3
  <2>4. CASE runs'[r].status # runs[r].status
    <3>1. run[q] = r
      BY <2>1, <2>4, StatusStep
    <3>2. q = r
      BY <1>6, <1>7, <2>1, <3>1 DEF Requests, Runs
    <3>3. QED
      BY <1>12, <2>1, <2>4, <3>2, StatusStep, KindsDisjoint DEF Early
  <2>5. QED
    BY <2>3, <2>4
<1>13. ASSUME NEW r \in Refreshes
       PROVE  (/\ runs[r].status # "awaiting_confirmation"
               /\ launches[r] <= 1
               /\ pc[r] \in {"idle", "ref_create", "ref_replace"} => launches[r] = 0)'
  <2>1. r \in Runs /\ r \in Requests /\ r \notin Analyzes
    BY KindsDisjoint DEF Runs, Requests
  <2>2. runs'[r].status # "awaiting_confirmation"
    BY <2>1, StatusStep DEF GateInv, Early
  <2>3. pc'[r] \in {"idle", "ref_create", "ref_replace"} => pc[r] \in {"idle", "ref_create", "ref_replace"}
    BY <1>1, <1>2, <1>3, <2>1 DEF TypeOK, DiscoverySites, AnalysisSites
  <2>4. CASE UNCHANGED launches
    BY <2>2, <2>3, <2>4 DEF GateInv
  <2>5. CASE /\ pc[q] \in {"conf_replace", "ref_replace"}
             /\ pc' = [pc EXCEPT ![q] = "ana_emitter"]
             /\ launches' = [launches EXCEPT ![run[q]] = @ + 1]
    <3>1. run[q] = r => q = r
      BY <1>6, <1>7, <2>1 DEF Requests, Runs
    <3>2. CASE q = r
      <4>1. pc[r] = "ref_replace" /\ pc'[r] = "ana_emitter" /\ run[q] = r
        BY <2>1, <2>5, <3>2 DEF SitesInv, TypeOK
      <4>2. launches[r] = 0
        BY <4>1 DEF GateInv
      <4>3. launches'[r] = 1
        BY <2>1, <2>5, <4>1, <4>2 DEF TypeOK
      <4>4. QED
        BY <2>2, <4>1, <4>3
    <3>3. CASE q # r
      <4>1. launches'[r] = launches[r]
        BY <2>1, <2>5, <3>1, <3>3 DEF TypeOK
      <4>2. QED
        BY <2>2, <2>3, <4>1 DEF GateInv
    <3>4. QED
      BY <3>2, <3>3
  <2>6. QED
    BY <2>4, <2>5, LaunchStep
<1>14. QED
  BY <1>0, <1>8, <1>9, <1>10, <1>11, <1>12, <1>13 DEF GateInv

\* The inductive step for the confirm request that wins the gate of r.
LEMMA GateWon ==
  ASSUME TypeOK, GateInv, NEW q \in Confirms, Confirm(q), NEW r \in Runs,
         runs[r].status = "awaiting_confirmation",
         NEW s \in {"conf_replace", "raised"}, pc' = [pc EXCEPT ![q] = s],
         runs' = WithStatus(r, "confirmed"),
         run' = [run EXCEPT ![q] = r]
  PROVE  GateInv'
<1>1. pc[q] = "idle" /\ UNCHANGED launches
  BY ConfirmEffect
<1>2. q \in Requests /\ q \notin Runs
  BY KindsDisjoint DEF Requests, Runs
<1>3. r \in Analyzes
  BY <1>1 DEF GateInv, Runs
<1>4. pc[r] \notin PreGate /\ \A c \in Confirms : run[c] # r
  BY <1>1, <1>3, NullsDistinct DEF GateInv, Early
<1>5. launches[r] = 0
  BY <1>3, <1>4 DEF GateInv
<1>6. \A p \in Requests : p # q => pc'[p] = pc[p]
  BY <1>1 DEF TypeOK
<1>7. run'[q] = r /\ pc'[q] \in {"conf_replace", "raised"}
  BY <1>2, <1>1 DEF TypeOK
<1>8. \A p \in Requests : p # q => run'[p] = run[p]
  BY <1>1 DEF TypeOK
<1>9. \A x \in Runs : runs'[x].status = IF x = r THEN "confirmed" ELSE runs[x].status
  BY <1>1, StatusAfterWrite DEF Status
<1>10. (\A c \in Confirms : pc[c] = "idle" => run[c] = NoRun)'
  BY <1>6, <1>7, <1>8 DEF GateInv, Requests
<1>11. (\A c, d \in Confirms : run[c] = run[d] /\ run[c] # NoRun => c = d)'
  BY <1>4, <1>7, <1>8 DEF GateInv, Requests
<1>12. ASSUME NEW c \in Confirms, run'[c] # NoRun
      PROVE  (/\ run[c] \in Analyzes
              /\ runs[run[c]].status \notin Early
              /\ pc[run[c]] \notin PreGate
              /\ launches[run[c]] <= 1
              /\ pc[c] = "conf_replace" => launches[run[c]] = 0)'
  <2>1. CASE c = q
    BY <1>1, <1>2, <1>3, <1>4, <1>5, <1>6, <1>7, <1>9, <2>1 DEF Early, Requests, Runs
  <2>2. CASE c # q
    <3>1. run'[c] = run[c] /\ pc'[c] = pc[c] /\ run[c] \in Analyzes /\ run[c] # q
      BY <1>2, <1>6, <1>8, <1>12, <2>2 DEF GateInv, Requests, Runs
    <3>2. run[c] \in Runs /\ run[c] \in Requests /\ pc'[run[c]] = pc[run[c]]
      BY <1>6, <3>1 DEF Requests, Runs
    <3>3. QED
      BY <1>1, <1>4, <1>9, <1>12, <3>1, <3>2 DEF GateInv
  <2>3. QED
    BY <2>1, <2>2
<1>13. (\A a \in Analyzes : (\A c \in Confirms : run[c] # a) => launches[a] = 0)'
  <2> SUFFICES ASSUME NEW a \in Analyzes, \A c \in Confirms : run'[c] # a
               PROVE  launches'[a] = 0
    OBVIOUS
  <2>1. run[q] = NoRun /\ a # NoRun
    BY <1>1, NullsDistinct DEF GateInv, Runs
  <2>2. \A c \in Confirms : run[c] # a
    BY <1>8, <2>1 DEF Requests
  <2>3. launches[a] = 0
    BY <2>2 DEF GateInv
  <2>4. QED
    BY <1>1, <2>3
<1>14. (\A a \in Analyzes : pc[a] \in PreGate => runs[a].status \in Early \ {"awaiting_confirmation"})'
  BY <1>2, <1>4, <1>6, <1>9 DEF GateInv, Requests, Runs
<1>15. (\A a \in Refreshes :
        /\ runs[a].status # "awaiting_confirmation"
        /\ launches[a] <= 1
        /\ pc[a] \in {"idle", "ref_create", "ref_replace"} => launches[a] = 0)'
  BY <1>1, <1>2, <1>6, <1>9 DEF GateInv, Requests, Runs
<1>16. QED
  BY <1>10, <1>11, <1>12, <1>13, <1>14, <1>15 DEF GateInv

\* At most one confirm request wins the gate of a run.
LEMMA GateInvariant == Spec => []GateInv
<1>1. Init => GateInv
  <2> SUFFICES ASSUME Init PROVE GateInv
    OBVIOUS
  <2>1. \A c \in Confirms : c \notin Runs /\ run[c] = NoRun
    BY KindsDisjoint DEF Init, Requests, Runs
  <2>2. \A r \in Runs : launches[r] = 0 /\ runs[r].status = "none"
    BY DEF Init, Absent
  <2>3. \A r \in Runs : launches[r] <= 1
    BY <2>2
  <2>4. QED
    BY <2>1, <2>2, <2>3 DEF GateInv, Runs, Early
<1>2. TypeOK /\ SitesInv /\ GateInv /\ [Next]_vars => GateInv'
  <2> SUFFICES ASSUME TypeOK, SitesInv, GateInv, [Next]_vars PROVE GateInv'
    OBVIOUS
  <2>1. ASSUME UNCHANGED <<runs, run, launches>>,
               \A p \in Requests : pc'[p] # pc[p] => pc[p] \notin {"raised"} /\ pc'[p] \in {"rejected", "ref_create", "killed"},
               \A p \in Requests : pc'[p] = "ref_create" => pc[p] \in {"idle", "ref_create"}
        PROVE  GateInv'
    BY <2>1 DEF GateInv, PreGate, Requests, Runs
  <2>2. ASSUME NEW q \in Analyzes, StartRun(q) PROVE GateInv'
    <3>1. /\ q \in Runs /\ q \in Requests /\ q \notin Confirms /\ q \notin Refreshes
          /\ pc[q] \in PreGate /\ pc[q] = "idle"
          /\ runs' \in {runs, WithStatus(q, "queued")}
          /\ \E s \in {"disc_emitter", "raised"} : pc' = [pc EXCEPT ![q] = s]
          /\ UNCHANGED <<run, launches>>
      BY <2>2, KindsDisjoint DEF StartRun, Write, Raise, Goto, local, history, PreGate, Runs, Requests
    <3>2. runs[q].status \in Early \ {"awaiting_confirmation"}
      BY <3>1 DEF GateInv
    <3>3. \A x \in Runs : runs'[x].status = runs[x].status \/ (x = q /\ runs'[x].status = "queued")
      BY <3>1, StatusAfterWrite DEF Status
    <3>4. \A p \in Requests : pc'[p] = pc[p] \/ p = q
      BY <3>1 DEF TypeOK
    <3>5. \A c \in Confirms : run[c] # q
      BY <3>1, NullsDistinct DEF GateInv
    <3>6. QED
      BY <3>1, <3>2, <3>3, <3>4, <3>5 DEF GateInv, Early, Requests, Runs
  <2>3. ASSUME NEW q \in Requests, Continue(q) PROVE GateInv'
    BY <2>3, GateContinue
  <2>4. ASSUME NEW q \in Confirms, Confirm(q) PROVE GateInv'
    <3>1. pc[q] = "idle" /\ UNCHANGED launches
      BY <2>4, ConfirmEffect
    <3>2. CASE pc' = [pc EXCEPT ![q] = "raised"] /\ UNCHANGED <<runs, run>>
      <4>1. q \in Requests /\ q \notin Runs /\ \A p \in Requests : p # q => pc'[p] = pc[p]
        BY <3>2, KindsDisjoint DEF TypeOK, Requests, Runs
      <4>2. QED
        BY <3>1, <3>2, <4>1 DEF GateInv, TypeOK, Requests, Runs, PreGate
    <3>3. QED
      BY <2>4, <3>2, ConfirmEffect, GateWon
  <2>5. ASSUME NEW q \in Requests, Refuse(q) \/ RefuseRefresh(q) PROVE GateInv'
    <3>1. pc[q] = "idle" /\ pc' = [pc EXCEPT ![q] = "rejected"]
      BY <2>5 DEF Refuse, RefuseRefresh, Goto
    <3>2. \A p \in Requests : pc'[p] = pc[p] \/ (pc[p] = "idle" /\ pc'[p] = "rejected")
      BY <3>1 DEF TypeOK
    <3>3. QED
      BY <2>1, <2>5, <3>2 DEF Refuse, RefuseRefresh, tables, local, history
  <2>6. ASSUME NEW q \in Refreshes, ReadLatest(q) PROVE GateInv'
    <3>1. pc[q] = "idle" /\ pc' = [pc EXCEPT ![q] = "ref_create"] /\ q \in Requests
      BY <2>6 DEF ReadLatest, Goto, Requests
    <3>2. \A p \in Requests : pc'[p] = pc[p] \/ (pc[p] = "idle" /\ pc'[p] = "ref_create")
      BY <3>1 DEF TypeOK
    <3>3. QED
      BY <2>1, <2>6, <3>2 DEF ReadLatest, tables, local, history
  <2>7. CASE Restart
    <3>1. \A p \in Requests : pc'[p] = pc[p] \/ (pc[p] \notin Ends /\ pc'[p] = "killed")
      BY <2>7 DEF Restart
    <3>2. QED
      BY <2>1, <2>7, <3>1 DEF Restart, tables, local, history, Ends
  <2>8. CASE UNCHANGED vars
    BY <2>1, <2>8 DEF vars, tables, local, history
  <2>9. QED
    BY <2>2, <2>3, <2>4, <2>5, <2>6, <2>7, <2>8 DEF Next, Arrive, Requests
<1>3. QED
  BY <1>1, <1>2, TypeCorrect, SitesInvariant, PTL DEF Spec

\* The agents are launched at most once for every run, however
\* many users confirm it at the same time and whatever fails in between.
THEOREM AgentsLaunchAtMostOnce == Spec => []LaunchedAtMostOnce
<1>1. GateInv => LaunchedAtMostOnce
  <2> SUFFICES ASSUME GateInv, NEW r \in Runs PROVE launches[r] <= 1
    BY DEF LaunchedAtMostOnce
  <2>1. CASE r \in Refreshes
    BY <2>1 DEF GateInv
  <2>2. CASE r \in Analyzes /\ \E c \in Confirms : run[c] = r
    <3>1. r # NoRun
      BY NullsDistinct
    <3>2. QED
      BY <2>2, <3>1 DEF GateInv
  <2>3. CASE r \in Analyzes /\ \A c \in Confirms : run[c] # r
    <3>1. launches[r] = 0
      BY <2>3 DEF GateInv
    <3>2. QED
      BY <3>1
  <2>4. QED
    BY <2>1, <2>2, <2>3 DEF Runs
<1>2. QED
  BY <1>1, GateInvariant, PTL
-----------------------------------------------------------------------------
(* The lists of rivals: what is analysed is what a user approved. *)

Working == AnalysisSites \cup {"conf_replace", "ref_replace"}
Late    == {"running_analysis", "completed"}

\* A request that is past the gate works on the approved list of its run.
LEMMA WorksOnApproved ==
  ASSUME TypeOK, SitesInv, ListInv, NEW q \in Requests, pc[q] \in Working
  PROVE  /\ q \notin Analyzes /\ run[q] \in Runs
         /\ approved[run[q]] = list[q] /\ list[q] # NoList /\ list[q] \in Lists
<1>1. q \notin Analyzes
  BY DEF SitesInv, Working, AnalysisSites, DiscoverySites, Ends
<1>2. run[q] \in Runs
  BY DEF SitesInv, Working, AnalysisSites, Ends
<1>3. list[q] \in Lists /\ list[q] # NoList
  BY NullsDistinct DEF TypeOK
<1>4. CASE q \in Confirms
  BY <1>1, <1>2, <1>3, <1>4, NullsDistinct DEF ListInv
<1>5. CASE q \in Refreshes
  <2>1. run[q] = q /\ pc[q] # "conf_replace"
    BY <1>5 DEF SitesInv, Runs
  <2>2. approved[q] = list[q]
    BY <1>5, <2>1 DEF ListInv, Working
  <2>3. QED
    BY <1>1, <1>2, <1>3, <2>1, <2>2
<1>6. QED
  BY <1>1, <1>4, <1>5 DEF Requests

\* No two requests work on the analysis of one run.
LEMMA OneWorker ==
  ASSUME SitesInv, GateInv, NEW p \in Requests \ Analyzes, NEW q \in Requests \ Analyzes,
         run[p] \in Runs, run[p] = run[q]
  PROVE  p = q
<1>1. \A c \in Confirms : run[c] \in Runs => run[c] \in Analyzes
  BY NullsDistinct DEF GateInv
<1>2. \A f \in Refreshes : run[f] = f /\ f \notin Analyzes
  BY KindsDisjoint DEF SitesInv, Runs
<1>3. \A c, d \in Confirms : run[c] = run[d] /\ run[c] \in Runs => c = d
  BY NullsDistinct DEF GateInv
<1>4. QED
  BY <1>1, <1>2, <1>3 DEF Requests

\* What a request that continues does to the lists stored for the runs.
LEMMA RivalsStep ==
  ASSUME TypeOK, SitesInv, NEW q \in Requests, Continue(q), NEW x \in Runs,
         rivals'[x] # rivals[x]
  PROVE  \/ x = q /\ q \in Analyzes /\ pc[q] = "disc_agents"
         \/ x = run[q] /\ pc[q] \in {"conf_replace", "ref_replace"} /\ rivals'[x] = list[q]
<1>1. CASE DiscoverRivals(q)
  <2>1. q \in Analyzes /\ pc[q] = "disc_agents"
    BY <1>1 DEF DiscoverRivals, SitesInv, Requests, DiscoverySites, Ends
  <2>2. \E found \in Lists : rivals' \in {rivals, [rivals EXCEPT ![q] = @ \cup found]}
    BY <1>1 DEF DiscoverRivals, Saved, Write
  <2>3. QED
    BY <2>1, <2>2 DEF TypeOK
<1>2. CASE ReplaceAndLaunch(q)
  <2>1. rivals' \in {rivals, [rivals EXCEPT ![run[q]] = list[q]]}
    BY <1>2 DEF ReplaceAndLaunch, Write, Replaced
  <2>2. QED
    BY <1>2, <2>1 DEF ReplaceAndLaunch, TypeOK
<1>3. CASE ~DiscoverRivals(q) /\ ~ReplaceAndLaunch(q)
  BY <1>3 DEF Continue, Discovery, Analysis, tables, DiscoveryEmitter, BeginDiscovery, Park,
     AnnounceDiscovery, AnalysisEmitter, BeginAnalysis, RunAgents, SaveReport, FinishRun,
     FailRun, CreateRefreshRun
<1>4. QED
  BY <1>1, <1>2, <1>3

\* An analysis task is launched only with the list stored.
LEMMA LaunchedWithList ==
  ASSUME TypeOK, SitesInv, NEW q \in Requests, Continue(q), pc'[q] \in AnalysisSites,
         pc[q] \notin AnalysisSites
  PROVE  pc[q] \in {"conf_replace", "ref_replace"} /\ rivals'[run[q]] = list[q]
<1>1. pc[q] \in {"conf_replace", "ref_replace"} /\ pc'[q] = "ana_emitter"
  BY ContinueMoves DEF DiscoveryMove, AnalysisMove, GateMove, Moves, TypeOK, AnalysisSites,
     DiscoverySites
<1>2. ReplaceAndLaunch(q)
  BY <1>1 DEF Continue, Discovery, Analysis, DiscoveryEmitter, BeginDiscovery, DiscoverRivals,
     Park, AnnounceDiscovery, AnalysisEmitter, BeginAnalysis, RunAgents, SaveReport, FinishRun,
     FailRun, CreateRefreshRun
<1>3. pc' # [pc EXCEPT ![q] = "raised"]
  BY <1>1 DEF TypeOK
<1>4. rivals' = [rivals EXCEPT ![run[q]] = list[q]]
  BY <1>2, <1>3 DEF ReplaceAndLaunch, Write, Raise, Goto, Replaced
<1>5. run[q] \in Runs
  BY <1>1 DEF SitesInv, Ends
<1>6. QED
  BY <1>1, <1>4, <1>5 DEF TypeOK

\* Only the creation of a refreshed run approves a list outside the gate.
LEMMA ApprovedStep ==
  ASSUME TypeOK, SitesInv, NEW q \in Requests, Continue(q), NEW x \in Runs,
         approved'[x] # approved[x]
  PROVE  x = q /\ q \in Refreshes /\ pc[q] = "ref_create" /\ approved'[x] = list[q]
<1>1. CreateRefreshRun(q)
  BY DEF Continue, Discovery, Analysis, history, DiscoveryEmitter, BeginDiscovery, DiscoverRivals,
     Park, AnnounceDiscovery, AnalysisEmitter, BeginAnalysis, RunAgents, SaveReport, FinishRun,
     FailRun, ReplaceAndLaunch
<1>2. pc[q] = "ref_create" /\ approved' = [approved EXCEPT ![q] = list[q]]
  BY <1>1 DEF CreateRefreshRun
<1>3. q \in Refreshes
  BY <1>2 DEF SitesInv, Requests, DiscoverySites, Ends
<1>4. QED
  BY <1>2, <1>3 DEF TypeOK, Runs

\* Only an analysis task writes a report, about its own list.
LEMMA ReportStep ==
  ASSUME TypeOK, NEW q \in Requests, Continue(q), NEW x \in Runs, report'[x] # report[x]
  PROVE  x = run[q] /\ pc[q] = "ana_save" /\ report'[x] \in {list[q], Shell}
<1>1. SaveReport(q)
  BY DEF Continue, Discovery, Analysis, tables, DiscoveryEmitter, BeginDiscovery, DiscoverRivals,
     Park, AnnounceDiscovery, AnalysisEmitter, BeginAnalysis, RunAgents, FinishRun,
     FailRun, ReplaceAndLaunch, CreateRefreshRun
<1>2. \E text \in {list[q], Shell} : report' \in {report, [report EXCEPT ![run[q]] = text]}
  BY <1>1 DEF SaveReport, Write
<1>3. QED
  BY <1>1, <1>2 DEF SaveReport, TypeOK

\* Only an analysis task takes its run into, or through, the analysis.
LEMMA LateStep ==
  ASSUME TypeOK, SitesInv, NEW q \in Requests, Continue(q), NEW x \in Runs,
         runs'[x].status # runs[x].status, runs'[x].status \in Late
  PROVE  x = run[q] /\ pc[q] \in AnalysisSites
<1>1. x = run[q]
  BY StatusStep
<1>2. ASSUME NEW r \in Runs, NEW s \in Status \ Late, runs' \in {runs, WithStatus(r, s)} PROVE FALSE
  BY <1>2, StatusAfterWrite
<1>3. CASE BeginAnalysis(q) \/ FinishRun(q)
  BY <1>1, <1>3 DEF BeginAnalysis, FinishRun, AnalysisSites
<1>4. CASE BeginDiscovery(q) \/ Park(q) \/ CreateRefreshRun(q)
  <2>1. q \in Runs
    BY <1>4 DEF BeginDiscovery, Park, CreateRefreshRun, SitesInv, Requests, Runs, DiscoverySites, Ends
  <2>2. \E s \in {"running_discovery", "awaiting_confirmation", "queued"} :
          runs' \in {runs, WithStatus(q, s)}
    BY <1>4 DEF BeginDiscovery, Park, CreateRefreshRun, Write
  <2>3. QED
    BY <1>2, <2>1, <2>2 DEF Status, Late
<1>5. CASE FailRun(q)
  <2>1. runs' \in {runs, [runs EXCEPT ![run[q]] =
                           [status |-> "failed", error |-> TRUE, finished |-> clock + 1]]}
    BY <1>5 DEF FailRun, Write
  <2>2. runs'[x] \in {runs[x], [status |-> "failed", error |-> TRUE, finished |-> clock + 1]}
    BY <2>1 DEF TypeOK
  <2>3. QED
    BY <2>2 DEF Late
<1>6. CASE UNCHANGED runs
  BY <1>6
<1>7. QED
  BY <1>3, <1>4, <1>5, <1>6 DEF Continue, Discovery, Analysis, tables, DiscoveryEmitter,
     DiscoverRivals, AnnounceDiscovery, AnalysisEmitter, RunAgents, SaveReport, ReplaceAndLaunch
\* A list that a user approved stays one while the winners of the gates and
\* what they approved stay.
LEMMA HumanKept ==
  ASSUME NEW l, Human(l),
         \A c \in Confirms : run[c] # NoRun =>
           run'[c] = run[c] /\ list'[c] = list[c] /\ approved'[run[c]] = approved[run[c]]
  PROVE  \E c \in Confirms : run'[c] # NoRun /\ approved'[run'[c]] = list'[c] /\ list'[c] = l
BY DEF Human

\* The inductive step for the requests that have arrived.
LEMMA ListContinue ==
  ASSUME TypeOK, SitesInv, GateInv, ListInv, NEW q \in Requests, Continue(q)
  PROVE  ListInv'
<1>1. UNCHANGED <<run, list>>
  BY ContinueMoves DEF local
<1>2. \A p \in Requests \ {q} : pc'[p] = pc[p]
  BY ContinueMoves DEF DiscoveryMove, AnalysisMove, GateMove, Moves, TypeOK
<1>3. pc'[q] \notin {"idle", "ref_create"} /\ (pc'[q] = "ref_replace" => pc[q] = "ref_create")
  BY ContinueMoves DEF DiscoveryMove, AnalysisMove, GateMove, Moves, TypeOK, DiscoverySites, AnalysisSites
<1>4. \A c \in Confirms : run[c] # NoRun =>
        run'[c] = run[c] /\ list'[c] = list[c] /\ approved'[run[c]] = approved[run[c]]
  <2> SUFFICES ASSUME NEW c \in Confirms, run[c] # NoRun
               PROVE  approved'[run[c]] = approved[run[c]]
    BY <1>1
  <2>1. run[c] \in Analyzes /\ run[c] \in Runs /\ run[c] \notin Refreshes
    BY KindsDisjoint DEF GateInv, Runs
  <2>2. QED
    BY <2>1, ApprovedStep
<1>5. \A x \in Runs : approved[x] # NoList => approved'[x] = approved[x]
  BY ApprovedStep DEF ListInv
<1>6. ASSUME NEW r \in Runs, runs'[r].status \in Late
      PROVE  approved'[r] # NoList /\ rivals'[r] = approved'[r]
  <2>1. CASE runs'[r].status # runs[r].status
    <3>1. r = run[q] /\ pc[q] \in AnalysisSites
      BY <1>6, <2>1, LateStep
    <3>2. approved[r] = list[q] /\ list[q] # NoList /\ rivals[r] = list[q]
      BY <3>1, WorksOnApproved DEF Working, ListInv
    <3>3. rivals'[r] = rivals[r]
      BY <3>1, RivalsStep DEF AnalysisSites
    <3>4. QED
      BY <1>5, <3>2, <3>3
  <2>2. CASE runs'[r].status = runs[r].status
    <3>1. approved[r] # NoList /\ rivals[r] = approved[r]
      BY <1>6, <2>2 DEF ListInv, AnalysedListIsApproved, Late
    <3>2. CASE rivals'[r] = rivals[r]
      BY <1>5, <3>1, <3>2
    <3>3. CASE rivals'[r] # rivals[r]
      <4>1. ~(r = q /\ q \in Analyzes /\ pc[q] = "disc_agents")
        BY <1>6, <2>2 DEF GateInv, PreGate, Early, Late
      <4>2. r = run[q] /\ pc[q] \in Working /\ rivals'[r] = list[q]
        BY <3>3, <4>1, RivalsStep DEF Working
      <4>3. QED
        BY <1>5, <3>1, <4>2, WorksOnApproved
    <3>4. QED
      BY <3>2, <3>3
  <2>3. QED
    BY <2>1, <2>2
<1>7. ASSUME NEW r \in Runs, report'[r] # NoReport
      PROVE  report'[r] \in {approved'[r], Shell} /\ approved'[r] # NoList
  <2>1. CASE report'[r] = report[r]
    BY <1>5, <1>7, <2>1 DEF ListInv, AnalysedListIsApproved
  <2>2. CASE report'[r] # report[r]
    <3>1. r = run[q] /\ pc[q] = "ana_save" /\ report'[r] \in {list[q], Shell}
      BY <2>2, ReportStep
    <3>2. approved[r] = list[q] /\ list[q] # NoList
      BY <3>1, WorksOnApproved DEF Working, AnalysisSites
    <3>3. QED
      BY <1>5, <3>1, <3>2
  <2>3. QED
    BY <2>1, <2>2
<1>8. ASSUME NEW r \in Runs, approved'[r] # NoList
      PROVE  Human(approved[r])'
  <2>1. CASE approved'[r] = approved[r]
    <3>1. Human(approved[r])
      BY <1>8, <2>1 DEF ListInv
    <3>2. QED
      BY <1>4, <2>1, <3>1, HumanKept DEF Human
  <2>2. CASE approved'[r] # approved[r]
    <3>1. approved'[r] = list[q] /\ q \in Refreshes /\ pc[q] = "ref_create"
      BY <2>2, ApprovedStep
    <3>2. Human(list[q])
      BY <3>1 DEF ListInv
    <3>3. QED
      BY <1>4, <3>1, <3>2, HumanKept DEF Human
  <2>3. QED
    BY <2>1, <2>2
<1>9. (\A c \in Confirms : run[c] # NoRun => approved[run[c]] = list[c])'
  BY <1>1, <1>4 DEF ListInv
<1>10. ASSUME NEW r \in Analyzes, approved'[r] # NoList
       PROVE  \E c \in Confirms : run'[c] = r
  <2>1. approved[r] # NoList
    BY <1>10, ApprovedStep, KindsDisjoint DEF Runs
  <2>2. QED
    BY <1>1, <2>1 DEF ListInv
<1>11. ASSUME NEW f \in Refreshes
       PROVE  (/\ pc[f] \in {"idle", "ref_create"} => approved[f] = NoList
               /\ pc[f] = "ref_create" => Human(list[f])
               /\ pc[f] \in {"ref_replace"} \cup AnalysisSites => approved[f] = list[f])'
  <2>1. f \in Runs /\ f \in Requests
    BY DEF Runs, Requests
  <2>2. CASE f # q
    <3>1. pc'[f] = pc[f] /\ list'[f] = list[f] /\ approved'[f] = approved[f]
      BY <1>1, <1>2, <2>1, <2>2, ApprovedStep
    <3>2. pc[f] = "ref_create" => Human(list[f])'
      <4> SUFFICES ASSUME pc[f] = "ref_create" PROVE Human(list[f])'
        OBVIOUS
      <4>1. Human(list[f])
        BY DEF ListInv
      <4>2. QED
        BY <1>4, <3>1, <4>1, HumanKept DEF Human
    <3>3. QED
      BY <3>1, <3>2 DEF ListInv
  <2>3. CASE f = q
    <3>1. pc'[f] \notin {"idle", "ref_create"}
      BY <1>3, <2>3
    <3>2. ASSUME pc'[f] \in {"ref_replace"} \cup AnalysisSites PROVE approved'[f] = list'[f]
      <4>1. CASE CreateRefreshRun(q)
        <5>1. approved' = [approved EXCEPT ![q] = list[q]]
          BY <4>1 DEF CreateRefreshRun
        <5>2. QED
          BY <1>1, <2>1, <2>3, <5>1 DEF TypeOK
      <4>2. CASE ~CreateRefreshRun(q)
        <5>1. pc[q] # "ref_create"
          BY <4>2 DEF Continue, Discovery, Analysis, DiscoveryEmitter, BeginDiscovery,
             DiscoverRivals, Park, AnnounceDiscovery, AnalysisEmitter, BeginAnalysis, RunAgents,
             SaveReport, FinishRun, FailRun, ReplaceAndLaunch
        <5>2. pc[q] \in Working
          BY <1>3, <2>3, <3>2, <5>1, LaunchedWithList DEF Working, AnalysisSites
        <5>3. run[q] = q
          BY <2>1, <2>3 DEF SitesInv
        <5>4. approved[q] = list[q] /\ list[q] # NoList
          BY <5>2, <5>3, WorksOnApproved
        <5>5. QED
          BY <1>1, <1>5, <2>1, <2>3, <5>4
      <4>3. QED
        BY <4>1, <4>2
    <3>3. QED
      BY <3>1, <3>2
  <2>4. QED
    BY <2>2, <2>3
<1>12. ASSUME NEW p \in Requests, pc'[p] \in AnalysisSites
       PROVE  rivals'[run'[p]] = list'[p]
  <2>1. CASE p = q /\ pc[q] \notin AnalysisSites
    BY <1>1, <1>12, <2>1, LaunchedWithList
  <2>2. CASE p # q \/ pc[q] \in AnalysisSites
    <3>1. pc[p] \in AnalysisSites
      BY <1>2, <1>12, <2>2
    <3>2. run[p] \in Runs /\ p \notin Analyzes /\ rivals[run[p]] = list[p]
      BY <3>1, WorksOnApproved DEF Working, ListInv
    <3>3. rivals'[run[p]] = rivals[run[p]]
      <4> SUFFICES ASSUME rivals'[run[p]] # rivals[run[p]] PROVE FALSE
        OBVIOUS
      <4>1. CASE run[p] = q /\ q \in Analyzes /\ pc[q] = "disc_agents"
        <5>1. p \in Confirms
          BY <3>2, <4>1, KindsDisjoint DEF SitesInv, Requests, Runs
        <5>2. pc[q] \notin PreGate
          BY <3>2, <4>1, <5>1, NullsDistinct DEF GateInv
        <5>3. QED
          BY <4>1, <5>2 DEF PreGate
      <4>2. CASE run[p] = run[q] /\ pc[q] \in {"conf_replace", "ref_replace"}
        <5>1. q \notin Analyzes
          BY <4>2, WorksOnApproved DEF Working
        <5>2. p = q
          BY <3>2, <4>2, <5>1, OneWorker
        <5>3. QED
          BY <3>1, <4>2, <5>2 DEF AnalysisSites
      <4>3. QED
        BY <3>2, <4>1, <4>2, RivalsStep
    <3>4. QED
      BY <1>1, <3>2, <3>3
  <2>3. QED
    BY <2>1, <2>2
<1>13. QED
  BY <1>6, <1>7, <1>8, <1>9, <1>10, <1>11, <1>12 DEF ListInv, AnalysedListIsApproved, Late
\* The inductive step for the confirm request that wins the gate of r with l.
LEMMA ListWon ==
  ASSUME TypeOK, SitesInv, GateInv, ListInv, NEW q \in Confirms, pc[q] = "idle",
         UNCHANGED <<rivals, report>>,
         NEW r \in Runs, NEW l \in Lists, runs[r].status = "awaiting_confirmation",
         NEW s \in {"conf_replace", "raised"}, pc' = [pc EXCEPT ![q] = s],
         runs' = WithStatus(r, "confirmed"),
         run' = [run EXCEPT ![q] = r], list' = [list EXCEPT ![q] = l],
         approved' = [approved EXCEPT ![r] = l]
  PROVE  ListInv'
<1>1. q \in Requests /\ q \notin Runs /\ q \notin Refreshes /\ run[q] = NoRun /\ l # NoList
  BY KindsDisjoint, NullsDistinct DEF GateInv, Requests, Runs
<1>2. r \in Analyzes /\ \A c \in Confirms : run[c] # r
  BY NullsDistinct DEF GateInv, Runs, Early
<1>3. approved[r] = NoList /\ report[r] = NoReport
  BY <1>2 DEF ListInv
<1>4. /\ run'[q] = r /\ list'[q] = l /\ approved'[r] = l
      /\ \A p \in Requests \ {q} : pc'[p] = pc[p] /\ run'[p] = run[p] /\ list'[p] = list[p]
      /\ \A x \in Runs \ {r} : approved'[x] = approved[x]
  BY <1>1 DEF TypeOK
<1>5. pc'[q] \notin AnalysisSites
  BY <1>1 DEF TypeOK, AnalysisSites
<1>6. \A x \in Runs : runs'[x].status = IF x = r THEN "confirmed" ELSE runs[x].status
  BY StatusAfterWrite DEF Status
<1>7. \A c \in Confirms : run[c] # NoRun =>
        c # q /\ run'[c] = run[c] /\ list'[c] = list[c] /\ approved'[run[c]] = approved[run[c]]
  <2> SUFFICES ASSUME NEW c \in Confirms, run[c] # NoRun
               PROVE  c # q /\ run'[c] = run[c] /\ list'[c] = list[c] /\ approved'[run[c]] = approved[run[c]]
    OBVIOUS
  <2>1. c # q /\ run[c] \in Runs \ {r} /\ c \in Requests
    BY <1>1, <1>2 DEF GateInv, Runs, Requests
  <2>2. QED
    BY <1>4, <2>1
<1>8. r # NoRun
  BY NullsDistinct
<1>9. AnalysedListIsApproved'
  <2> SUFFICES ASSUME NEW x \in Runs
               PROVE  (/\ runs[x].status \in {"running_analysis", "completed"} =>
                            approved[x] # NoList /\ rivals[x] = approved[x]
                       /\ report[x] # NoReport => report[x] \in {approved[x], Shell})'
    BY DEF AnalysedListIsApproved
  <2>1. CASE x = r
    BY <1>3, <1>6, <2>1
  <2>2. CASE x # r
    BY <1>4, <1>6, <2>2 DEF ListInv, AnalysedListIsApproved
  <2>3. QED
    BY <2>1, <2>2
<1>10. ASSUME NEW x \in Runs, approved'[x] # NoList
       PROVE  Human(approved[x])'
  <2>1. CASE x = r
    BY <1>4, <1>8, <2>1 DEF Human
  <2>2. CASE x # r
    <3>1. Human(approved[x])
      BY <1>4, <1>10, <2>2 DEF ListInv
    <3>2. QED
      BY <1>4, <1>7, <2>2, <3>1, HumanKept DEF Human
  <2>3. QED
    BY <2>1, <2>2
<1>11. (\A x \in Runs : report[x] # NoReport => approved[x] # NoList)'
  BY <1>3, <1>4 DEF ListInv
<1>12. (\A c \in Confirms : run[c] # NoRun => approved[run[c]] = list[c])'
  <2> SUFFICES ASSUME NEW c \in Confirms, run'[c] # NoRun PROVE approved'[run'[c]] = list'[c]
    OBVIOUS
  <2>1. CASE c = q
    BY <1>4, <2>1
  <2>2. CASE c # q
    BY <1>4, <1>7, <2>2 DEF ListInv, Requests
  <2>3. QED
    BY <2>1, <2>2
<1>13. ASSUME NEW x \in Analyzes, approved'[x] # NoList
       PROVE  \E c \in Confirms : run'[c] = x
  <2>1. CASE x = r
    BY <1>4, <2>1
  <2>2. CASE x # r
    <3>1. x \in Runs /\ x # NoRun /\ approved[x] # NoList
      BY <1>4, <1>13, <2>2, NullsDistinct DEF Runs
    <3>2. PICK c \in Confirms : run[c] = x
      BY <3>1 DEF ListInv
    <3>3. QED
      BY <1>7, <3>1, <3>2
  <2>3. QED
    BY <2>1, <2>2
<1>14. ASSUME NEW f \in Refreshes
       PROVE  (/\ pc[f] \in {"idle", "ref_create"} => approved[f] = NoList
               /\ pc[f] = "ref_create" => Human(list[f])
               /\ pc[f] \in {"ref_replace"} \cup AnalysisSites => approved[f] = list[f])'
  <2>1. /\ pc'[f] = pc[f] /\ list'[f] = list[f] /\ approved'[f] = approved[f]
    BY <1>1, <1>2, <1>4, KindsDisjoint DEF Requests, Runs
  <2>2. ASSUME pc[f] = "ref_create" PROVE Human(list[f])'
    <3>1. Human(list[f])
      BY <2>2 DEF ListInv
    <3>2. QED
      BY <1>7, <2>1, <3>1, HumanKept DEF Human
  <2>3. QED
    BY <2>1, <2>2 DEF ListInv
<1>15. (\A p \in Requests : pc[p] \in AnalysisSites => rivals[run[p]] = list[p])'
  BY <1>4, <1>5 DEF ListInv
<1>16. QED
  BY <1>9, <1>10, <1>11, <1>12, <1>13, <1>14, <1>15 DEF ListInv

\* The list of every run is fixed once, by a user.
LEMMA ListInvariant == Spec => []ListInv
<1>1. Init => ListInv
  <2> SUFFICES ASSUME Init PROVE ListInv
    OBVIOUS
  <2>1. \A r \in Runs : runs[r].status = "none" /\ approved[r] = NoList /\ report[r] = NoReport
    BY DEF Init, Absent
  <2>2. \A q \in Requests : pc[q] = "idle"
    BY DEF Init
  <2>3. \A c \in Confirms : run[c] = NoRun
    BY KindsDisjoint DEF Init, Requests, Runs
  <2>4. QED
    BY <2>1, <2>2, <2>3 DEF ListInv, AnalysedListIsApproved, AnalysisSites, Runs, Requests
<1>2. TypeOK /\ SitesInv /\ GateInv /\ ListInv /\ [Next]_vars => ListInv'
  <2> SUFFICES ASSUME TypeOK, SitesInv, GateInv, ListInv, [Next]_vars PROVE ListInv'
    OBVIOUS
  <2>1. ASSUME UNCHANGED <<rivals, report, local, approved>>,
               \A x \in Runs : runs'[x].status = runs[x].status \/ runs'[x].status \notin Late,
               \A p \in Requests : pc'[p] = pc[p] \/ pc'[p] \in {"disc_emitter", "raised", "rejected", "killed"}
        PROVE  ListInv'
    <3>1. AnalysedListIsApproved'
      BY <2>1 DEF ListInv, AnalysedListIsApproved, Late
    <3>2. \A p \in Requests : pc'[p] \in {"idle", "ref_create", "ref_replace"} \cup AnalysisSites => pc'[p] = pc[p]
      BY <2>1 DEF AnalysisSites
    <3>3. QED
      BY <2>1, <3>1, <3>2 DEF ListInv, Human, local, Requests
  <2>2. ASSUME NEW q \in Analyzes, StartRun(q) PROVE ListInv'
    <3>1. /\ q \in Runs
          /\ runs' \in {runs, WithStatus(q, "queued")}
          /\ \E s \in {"disc_emitter", "raised"} : pc' = [pc EXCEPT ![q] = s]
          /\ UNCHANGED <<rivals, report, local, approved>>
      BY <2>2 DEF StartRun, Write, Raise, Goto, history, Runs
    <3>2. \A x \in Runs : runs'[x].status = runs[x].status \/ runs'[x].status = "queued"
      BY <3>1, StatusAfterWrite DEF Status
    <3>3. \A p \in Requests : pc'[p] = pc[p] \/ pc'[p] \in {"disc_emitter", "raised"}
      BY <3>1 DEF TypeOK
    <3>4. QED
      BY <2>1, <3>1, <3>2, <3>3 DEF Late
  <2>3. ASSUME NEW q \in Requests, Continue(q) PROVE ListInv'
    BY <2>3, ListContinue
  <2>4. ASSUME NEW q \in Confirms, Confirm(q) PROVE ListInv'
    <3>1. pc[q] = "idle" /\ UNCHANGED <<rivals, report>>
      BY <2>4, ConfirmEffect
    <3>2. CASE pc' = [pc EXCEPT ![q] = "raised"] /\ UNCHANGED <<runs, run, list, approved>>
      <4>1. \A p \in Requests : pc'[p] = pc[p] \/ pc'[p] = "raised"
        BY <3>2 DEF TypeOK
      <4>2. QED
        BY <2>1, <3>1, <3>2, <4>1 DEF local
    <3>3. QED
      BY <2>4, <3>1, <3>2, ConfirmEffect, ListWon
  <2>5. ASSUME NEW q \in Requests, Refuse(q) \/ RefuseRefresh(q) PROVE ListInv'
    <3>1. pc' = [pc EXCEPT ![q] = "rejected"] /\ UNCHANGED <<tables, local, history>>
      BY <2>5 DEF Refuse, RefuseRefresh, Goto
    <3>2. \A p \in Requests : pc'[p] = pc[p] \/ pc'[p] = "rejected"
      BY <3>1 DEF TypeOK
    <3>3. QED
      BY <2>1, <3>1, <3>2 DEF tables, history
  <2>6. ASSUME NEW q \in Refreshes, ReadLatest(q) PROVE ListInv'
    <3>1. /\ pc[q] = "idle" /\ pc' = [pc EXCEPT ![q] = "ref_create"]
          /\ q \in Requests /\ q \notin Confirms
          /\ UNCHANGED <<runs, rivals, report, run, approved>>
      BY <2>6, KindsDisjoint DEF ReadLatest, Goto, Requests, tables, history
    <3>2. PICK r \in Runs : IsLatest(r) /\ list' = [list EXCEPT ![q] = rivals[r]]
      BY <2>6 DEF ReadLatest
    <3>3. Human(rivals[r])
      BY <3>2 DEF IsLatest, Completed, ListInv, AnalysedListIsApproved
    <3>4. /\ pc'[q] = "ref_create" /\ list'[q] = rivals[r]
          /\ \A p \in Requests \ {q} : pc'[p] = pc[p] /\ list'[p] = list[p]
      BY <3>1, <3>2 DEF TypeOK
    <3>5. AnalysedListIsApproved'
      BY <3>1 DEF ListInv, AnalysedListIsApproved
    <3>6. (\A x \in Runs : approved[x] # NoList => Human(approved[x]))'
      BY <3>1, <3>4 DEF ListInv, Human, Requests
    <3>7. (\A c \in Confirms : run[c] # NoRun => approved[run[c]] = list[c])'
      BY <3>1, <3>4 DEF ListInv, Requests
    <3>8. Human(list[q])'
      BY <3>1, <3>3, <3>4 DEF Human, Requests
    <3>9. ASSUME NEW f \in Refreshes
           PROVE  (/\ pc[f] \in {"idle", "ref_create"} => approved[f] = NoList
                   /\ pc[f] = "ref_create" => Human(list[f])
                   /\ pc[f] \in {"ref_replace"} \cup AnalysisSites => approved[f] = list[f])'
      <4>1. CASE f = q
        BY <3>1, <3>4, <3>8, <4>1 DEF ListInv, AnalysisSites
      <4>2. CASE f # q
        BY <3>1, <3>4, <4>2 DEF ListInv, Human, Requests
      <4>3. QED
        BY <4>1, <4>2
    <3>10. (\A p \in Requests : pc[p] \in AnalysisSites => rivals[run[p]] = list[p])'
      BY <3>1, <3>4 DEF ListInv, AnalysisSites
    <3>11. QED
      BY <3>1, <3>5, <3>6, <3>7, <3>9, <3>10 DEF ListInv
  <2>7. CASE Restart
    <3>1. \A p \in Requests : pc'[p] = pc[p] \/ pc'[p] = "killed"
      BY <2>7 DEF Restart
    <3>2. QED
      BY <2>1, <2>7, <3>1 DEF Restart, tables, history
  <2>8. CASE UNCHANGED vars
    BY <2>1, <2>8 DEF vars, tables, history
  <2>9. QED
    BY <2>2, <2>3, <2>4, <2>5, <2>6, <2>7, <2>8 DEF Next, Arrive, Requests
<1>3. QED
  BY <1>1, <1>2, TypeCorrect, SitesInvariant, GateInvariant, PTL DEF Spec

\* A run under analysis has exactly the approved list stored, and a report is
\* about that list, however many runs, confirms and refreshes of the company
\* overlap and whatever fails.
THEOREM ApprovedListsAreAnalysed == Spec => []AnalysedListIsApproved
<1>1. ListInv => AnalysedListIsApproved
  BY DEF ListInv
<1>2. QED
  BY <1>1, ListInvariant, PTL

\* Every list that is analysed was let through a gate by a user, those that
\* refreshes inherit through any number of generations included.
THEOREM UsersPickTheRivals == Spec => []ApprovalsAreHuman
<1>1. ListInv => ApprovalsAreHuman
  BY DEF ListInv, Human, ApprovalsAreHuman
<1>2. QED
  BY <1>1, ListInvariant, PTL

-----------------------------------------------------------------------------
(* What the steps may do: no write takes a run back to an earlier phase, the
   runs in progress are attended, and every step is a step of HumanGate or
   leaves it alone. *)

-----------------------------------------------------------------------------
(* Where a request comes from, and what it writes on the way. *)

\* A request reaches a site only from the one before it, and the calls between
\* two writes of the status column leave it alone.
LEMMA Advance ==
  ASSUME TypeOK, NEW q \in Requests, Continue(q)
  PROVE  /\ pc'[q] \notin {"idle", "disc_emitter", "conf_replace", "ref_create"}
         /\ pc'[q] = "disc_begin" => pc[q] = "disc_emitter" /\ UNCHANGED runs
         /\ pc'[q] = "disc_agents" =>
              pc[q] = "disc_begin" /\ runs' = WithStatus(q, "running_discovery")
         /\ pc'[q] = "disc_park" => pc[q] = "disc_agents" /\ UNCHANGED runs
         /\ pc'[q] = "ref_replace" =>
              pc[q] = "ref_create" /\ runs' = WithStatus(q, "queued")
         /\ pc'[q] = "ana_emitter" =>
              pc[q] \in {"conf_replace", "ref_replace"} /\ UNCHANGED runs
         /\ pc'[q] = "ana_begin" => pc[q] = "ana_emitter" /\ UNCHANGED runs
         /\ pc'[q] = "ana_agents" => pc[q] = "ana_begin"
         /\ pc'[q] = "ana_save" => pc[q] = "ana_agents"
<1> USE DEF TypeOK, Write, Call, Raise, Goto, tables
<1>1. CASE DiscoveryEmitter(q)
  BY <1>1 DEF DiscoveryEmitter
<1>2. CASE BeginDiscovery(q)
  BY <1>2 DEF BeginDiscovery
<1>3. CASE DiscoverRivals(q)
  BY <1>3 DEF DiscoverRivals
<1>4. CASE Park(q) \/ AnnounceDiscovery(q)
  BY <1>4 DEF Park, AnnounceDiscovery
<1>5. CASE FailRun(q)
  BY <1>5 DEF FailRun
<1>6. CASE ReplaceAndLaunch(q)
  BY <1>6 DEF ReplaceAndLaunch
<1>7. CASE CreateRefreshRun(q)
  BY <1>7 DEF CreateRefreshRun
<1>8. CASE AnalysisEmitter(q) \/ RunAgents(q)
  BY <1>8 DEF AnalysisEmitter, RunAgents
<1>9. CASE BeginAnalysis(q)
  BY <1>9 DEF BeginAnalysis
<1>10. CASE SaveReport(q)
  BY <1>10 DEF SaveReport
<1>11. CASE FinishRun(q)
  BY <1>11 DEF FinishRun
<1>12. QED
  BY <1>1, <1>2, <1>3, <1>4, <1>5, <1>6, <1>7, <1>8, <1>9, <1>10, <1>11
     DEF Continue, Discovery, Analysis

\* The six writes of the status column that a task or a handler makes.
LEMMA StatusWrite ==
  ASSUME TypeOK, SitesInv, NEW q \in Requests, Continue(q), NEW x \in Runs,
         runs'[x].status # runs[x].status
  PROVE  /\ x = run[q]
         /\ \/ pc[q] = "disc_begin" /\ runs'[x].status = "running_discovery"
            \/ pc[q] = "disc_park" /\ runs'[x].status = "awaiting_confirmation"
            \/ pc[q] = "ref_create" /\ runs'[x].status = "queued"
            \/ pc[q] = "ana_begin" /\ runs'[x].status = "running_analysis"
            \/ pc[q] = "ana_finish" /\ runs'[x].status = "completed"
            \/ runs'[x].status = "failed"
<1>1. x = run[q]
  BY StatusStep
<1>2. ASSUME NEW r \in Runs, NEW s \in Status, runs' \in {runs, WithStatus(r, s)}
      PROVE  runs'[x].status = s
  BY <1>2, StatusAfterWrite
<1>3. CASE BeginDiscovery(q) \/ Park(q) \/ CreateRefreshRun(q)
  <2>1. q \in Runs
    BY <1>3, KindsDisjoint DEF SitesInv, Requests, Runs, DiscoverySites, AnalysisSites, Ends,
       BeginDiscovery, Park, CreateRefreshRun
  <2>2. CASE BeginDiscovery(q)
    BY <1>1, <1>2, <2>1, <2>2 DEF BeginDiscovery, Write, Status
  <2>3. CASE Park(q)
    BY <1>1, <1>2, <2>1, <2>3 DEF Park, Write, Status
  <2>4. CASE CreateRefreshRun(q)
    BY <1>1, <1>2, <2>1, <2>4 DEF CreateRefreshRun, Write, Status
  <2>5. QED
    BY <1>3, <2>2, <2>3, <2>4
<1>4. CASE BeginAnalysis(q)
  <2>1. run[q] \in Runs
    BY <1>1
  <2>2. QED
    BY <1>1, <1>2, <1>4, <2>1 DEF BeginAnalysis, Write, Status
<1>5. CASE FailRun(q)
  BY <1>1, <1>5 DEF FailRun, Write, TypeOK
<1>6. CASE FinishRun(q)
  BY <1>1, <1>6 DEF FinishRun, Write, TypeOK
<1>7. CASE ~(\/ BeginDiscovery(q) \/ Park(q) \/ CreateRefreshRun(q) \/ BeginAnalysis(q)
             \/ FailRun(q) \/ FinishRun(q))
  BY <1>7 DEF Continue, Discovery, Analysis, tables, DiscoveryEmitter, AnnounceDiscovery,
     AnalysisEmitter, RunAgents, DiscoverRivals, SaveReport, ReplaceAndLaunch
<1>8. QED
  BY <1>3, <1>4, <1>5, <1>6, <1>7

\* Only the winner of a run's gate writes the row of a run it did not create,
\* and then discovery is past its own writes.
LEMMA ForeignWrite ==
  ASSUME TypeOK, SitesInv, GateInv, NEW q \in Requests, Continue(q), NEW x \in Runs, x # q,
         runs'[x].status # runs[x].status
  PROVE  q \in Confirms /\ x \in Analyzes /\ pc[x] \notin PreGate
<1>1. x = run[q]
  BY StatusWrite
<1>2. q \in Confirms
  BY <1>1 DEF SitesInv, Requests, Runs
<1>3. QED
  BY <1>1, <1>2, NullsDistinct DEF GateInv

-----------------------------------------------------------------------------
(* The phase invariant. *)

\* The inductive step for the requests that have arrived.
LEMMA PhaseContinue ==
  ASSUME TypeOK, SitesInv, GateInv, PhaseInv, NEW q \in Requests, Continue(q)
  PROVE  PhaseInv'
<1>1. UNCHANGED run /\ \A p \in Requests \ {q} : pc'[p] = pc[p]
  BY ContinueMoves DEF local, DiscoveryMove, AnalysisMove, GateMove, Moves, TypeOK
<1>2. ASSUME NEW r \in Runs, pc'[r] \in {"idle", "ref_create"}
      PROVE  runs'[r].status = "none"
  <2>1. r \in Requests /\ r # q
    BY <1>2, Advance DEF Requests, Runs
  <2>2. pc[r] \in {"idle", "ref_create"} /\ runs[r].status = "none"
    BY <1>1, <1>2, <2>1 DEF PhaseInv
  <2>3. r \in Analyzes => pc[r] \in PreGate
    BY <2>1, <2>2 DEF SitesInv, DiscoverySites, Ends, PreGate
  <2>4. QED
    BY <2>1, <2>2, <2>3, ForeignWrite
<1>3. ASSUME NEW r \in Analyzes
      PROVE  (/\ pc[r] \in {"disc_emitter", "disc_begin"} => runs[r].status = "queued"
              /\ pc[r] \in {"disc_agents", "disc_park"} => runs[r].status = "running_discovery")'
  <2>1. r \in Requests /\ r \in Runs
    BY DEF Requests, Runs
  <2>2. CASE r # q
    <3>1. pc[r] \in PreGate => runs'[r].status = runs[r].status
      BY <2>1, <2>2, ForeignWrite
    <3>2. QED
      BY <1>1, <2>1, <2>2, <3>1 DEF PhaseInv, PreGate
  <2>3. CASE r = q
    <3>1. pc'[r] = "disc_agents" => runs'[r].status = "running_discovery"
      BY <2>1, <2>3, Advance, StatusAfterWrite DEF Status
    <3>2. QED
      BY <2>3, <3>1, Advance DEF PhaseInv
  <2>4. QED
    BY <2>2, <2>3
<1>4. ASSUME NEW p \in Requests \ Analyzes,
             pc'[p] \in {"conf_replace", "ref_replace", "ana_emitter", "ana_begin"}
      PROVE  runs'[run'[p]].status # "completed"
  <2>1. run'[p] = run[p] /\ run[p] \in Runs
    BY <1>1, <1>4, Advance DEF SitesInv, Ends
  <2>2. CASE p # q
    <3>1. runs[run[p]].status # "completed"
      BY <1>1, <1>4, <2>2 DEF PhaseInv
    <3>2. ASSUME runs'[run[p]].status = "completed" PROVE FALSE
      <4>1. run[p] = run[q] /\ pc[q] = "ana_finish"
        BY <2>1, <3>1, <3>2, StatusWrite
      <4>2. q \notin Analyzes
        BY <4>1 DEF SitesInv, DiscoverySites, Ends
      <4>3. QED
        BY <2>1, <2>2, <4>1, <4>2, OneWorker
    <3>3. QED
      BY <2>1, <3>2
  <2>3. CASE p = q /\ pc'[q] = "ref_replace"
    <3>1. q \in Refreshes /\ q \in Runs
      BY <2>3, Advance, <1>4 DEF SitesInv, Requests, Runs
    <3>2. run[q] = q
      BY <3>1 DEF SitesInv
    <3>3. runs'[q].status = "queued"
      BY <2>3, <3>1, Advance, StatusAfterWrite DEF Status
    <3>4. QED
      BY <2>1, <2>3, <3>2, <3>3
  <2>4. CASE p = q /\ pc'[q] # "ref_replace"
    <3>1. UNCHANGED runs /\ pc[q] \in {"conf_replace", "ref_replace", "ana_emitter"}
      BY <1>4, <2>4, Advance
    <3>2. QED
      BY <2>1, <2>4, <3>1 DEF PhaseInv
  <2>5. QED
    BY <2>2, <2>3, <2>4
<1>5. QED
  BY <1>2, <1>3, <1>4 DEF PhaseInv

\* A task finds the status it expects wherever it writes the next one without
\* looking, however the two tasks of the run overlap.
LEMMA PhaseInvariant == Spec => []PhaseInv
<1>1. Init => PhaseInv
  BY KindsDisjoint DEF Init, PhaseInv, Absent, Requests, Runs
<1>2. TypeOK /\ SitesInv /\ GateInv /\ PhaseInv /\ [Next]_vars => PhaseInv'
  <2> SUFFICES ASSUME TypeOK, SitesInv, GateInv, PhaseInv, [Next]_vars PROVE PhaseInv'
    OBVIOUS
  <2>1. ASSUME UNCHANGED <<runs, run>>,
               \A p \in Requests : \/ pc'[p] = pc[p]
                                   \/ pc'[p] \in Ends
                                   \/ pc[p] = "idle" /\ pc'[p] = "ref_create"
        PROVE  PhaseInv'
    BY <2>1 DEF PhaseInv, Ends, Requests, Runs
  <2>2. ASSUME NEW q \in Requests, Continue(q) PROVE PhaseInv'
    BY <2>2, PhaseContinue
  <2>3. ASSUME NEW q \in Analyzes, StartRun(q) PROVE PhaseInv'
    <3>1. /\ q \in Runs /\ q \in Requests /\ pc[q] = "idle"
          /\ \/ pc' = [pc EXCEPT ![q] = "disc_emitter"] /\ runs' = WithStatus(q, "queued")
             \/ pc' = [pc EXCEPT ![q] = "raised"] /\ runs' \in {runs, WithStatus(q, "queued")}
          /\ UNCHANGED run
      BY <2>3 DEF StartRun, Write, Raise, Goto, local, Runs, Requests
    <3>2. /\ \A p \in Requests \ {q} : pc'[p] = pc[p]
          /\ pc'[q] \in {"disc_emitter", "raised"}
      BY <3>1 DEF TypeOK
    <3>3. \A x \in Runs : x # q => runs'[x].status = runs[x].status
      BY <3>1, StatusAfterWrite DEF Status
    <3>4. runs'[q].status \in {"none", "queued"}
      BY <3>1, StatusAfterWrite DEF Status, PhaseInv
    <3>5. pc'[q] = "disc_emitter" => runs'[q].status = "queued"
      BY <3>1, <3>2, StatusAfterWrite DEF Status, TypeOK
    <3>6. \A p \in Requests \ Analyzes : runs'[run[p]].status = "completed" /\ run[p] \in Runs =>
            runs[run[p]].status = "completed"
      BY <3>3, <3>4
    <3>7. \A p \in Requests : pc[p] \in {"conf_replace", "ref_replace", "ana_emitter", "ana_begin"}
            => run[p] \in Runs
      BY DEF SitesInv, Ends
    <3>8. (\A r \in Runs : pc[r] \in {"idle", "ref_create"} => runs[r].status = "none")'
      BY <3>2, <3>3 DEF PhaseInv, Runs, Requests
    <3>9. (\A r \in Analyzes :
             /\ pc[r] \in {"disc_emitter", "disc_begin"} => runs[r].status = "queued"
             /\ pc[r] \in {"disc_agents", "disc_park"} => runs[r].status = "running_discovery")'
      BY <3>2, <3>3, <3>5 DEF PhaseInv, Runs, Requests
    <3>10. (\A p \in Requests \ Analyzes :
              pc[p] \in {"conf_replace", "ref_replace", "ana_emitter", "ana_begin"} =>
                runs[run[p]].status # "completed")'
      BY <3>1, <3>2, <3>6, <3>7 DEF PhaseInv
    <3>11. QED
      BY <3>8, <3>9, <3>10 DEF PhaseInv
  <2>4. ASSUME NEW q \in Confirms, Confirm(q) PROVE PhaseInv'
    <3>1. CASE pc' = [pc EXCEPT ![q] = "raised"] /\ UNCHANGED <<runs, run, list, approved>>
      BY <2>1, <3>1 DEF TypeOK, Ends
    <3>2. ASSUME NEW r \in Runs, NEW s \in {"conf_replace", "raised"},
                 runs[r].status = "awaiting_confirmation", pc' = [pc EXCEPT ![q] = s],
                 runs' = WithStatus(r, "confirmed"), run' = [run EXCEPT ![q] = r]
          PROVE  PhaseInv'
      <4>1. r \in Analyzes /\ pc[r] \notin PreGate
        BY <3>2 DEF GateInv, Runs
      <4>2. q \in Requests /\ q \notin Runs
        BY KindsDisjoint DEF Requests, Runs
      <4>3. /\ \A p \in Requests \ {q} : pc'[p] = pc[p] /\ run'[p] = run[p]
            /\ run'[q] = r
        BY <3>2, <4>2 DEF TypeOK
      <4>4. \A x \in Runs : runs'[x].status = IF x = r THEN "confirmed" ELSE runs[x].status
        BY <3>2, StatusAfterWrite DEF Status
      <4>5. (\A x \in Runs : pc[x] \in {"idle", "ref_create"} => runs[x].status = "none")'
        BY <3>2, <4>2, <4>3, <4>4 DEF PhaseInv, Runs, Requests
      <4>6. (\A x \in Analyzes :
               /\ pc[x] \in {"disc_emitter", "disc_begin"} => runs[x].status = "queued"
               /\ pc[x] \in {"disc_agents", "disc_park"} => runs[x].status = "running_discovery")'
        BY <4>1, <4>2, <4>3, <4>4 DEF PhaseInv, Runs, Requests, PreGate
      <4>7. ASSUME NEW p \in Requests \ Analyzes,
                   pc'[p] \in {"conf_replace", "ref_replace", "ana_emitter", "ana_begin"}
            PROVE  runs'[run'[p]].status # "completed"
        <5>1. CASE p = q
          BY <4>3, <4>4, <5>1
        <5>2. CASE p # q
          <6>1. pc[p] = pc'[p] /\ run'[p] = run[p] /\ run[p] \in Runs
            BY <4>3, <4>7, <5>2 DEF SitesInv, Ends
          <6>2. QED
            BY <4>4, <4>7, <6>1 DEF PhaseInv
        <5>3. QED
          BY <5>1, <5>2
      <4>8. QED
        BY <4>5, <4>6, <4>7 DEF PhaseInv
    <3>3. QED
      BY <2>4, <3>1, <3>2, ConfirmEffect
  <2>5. ASSUME NEW q \in Requests, Refuse(q) \/ RefuseRefresh(q) PROVE PhaseInv'
    BY <2>1, <2>5 DEF Refuse, RefuseRefresh, Goto, tables, local, TypeOK, Ends
  <2>6. ASSUME NEW q \in Refreshes, ReadLatest(q) PROVE PhaseInv'
    BY <2>1, <2>6 DEF ReadLatest, Goto, tables, TypeOK
  <2>7. CASE Restart
    BY <2>1, <2>7 DEF Restart, tables, local, Ends
  <2>8. CASE UNCHANGED vars
    BY <2>1, <2>8 DEF vars, tables, local
  <2>9. QED
    BY <2>2, <2>3, <2>4, <2>5, <2>6, <2>7, <2>8 DEF Next, Arrive, Requests
<1>3. QED
  BY <1>1, <1>2, TypeCorrect, SitesInvariant, GateInvariant, PTL DEF Spec

\* However the discovery and the analysis of a run, its late failures and the
\* restarts interleave, no step takes a run back to an earlier phase: the gate
\* never opens a second time.
THEOREM PhasesNeverRewind == Spec => PhaseNeverRewinds
<1> DEFINE Onward(r) ==
      IF runs[r].status = "failed"
      THEN runs'[r].status \in {"failed", "running_analysis", "completed"}
      ELSE Rank[runs[r].status] <= Rank[runs'[r].status]
<1>1. ASSUME TypeOK, SitesInv, GateInv, PhaseInv, [Next]_vars, NEW r \in Runs
      PROVE  Onward(r)
  <2>1. runs[r].status \in Status
    BY <1>1 DEF TypeOK, RunRow
  <2>2. CASE runs'[r].status = runs[r].status
    BY <2>1, <2>2 DEF Rank, Status
  <2>3. CASE runs'[r].status = "failed"
    BY <2>1, <2>3 DEF Rank, Status
  <2>4. ASSUME NEW q \in Requests, Continue(q), runs'[r].status # runs[r].status,
               runs'[r].status # "failed"
        PROVE  Onward(r)
    <3>1. /\ r = run[q]
          /\ \/ pc[q] = "disc_begin" /\ runs'[r].status = "running_discovery"
             \/ pc[q] = "disc_park" /\ runs'[r].status = "awaiting_confirmation"
             \/ pc[q] = "ref_create" /\ runs'[r].status = "queued"
             \/ pc[q] = "ana_begin" /\ runs'[r].status = "running_analysis"
             \/ pc[q] = "ana_finish" /\ runs'[r].status = "completed"
      BY <1>1, <2>4, StatusWrite
    <3>2. CASE pc[q] \in {"disc_begin", "disc_park"}
      <4>1. q \in Analyzes /\ r = q
        BY <1>1, <3>1, <3>2 DEF SitesInv, Requests, Runs, DiscoverySites
      <4>2. runs[r].status \in {"queued", "running_discovery"}
        BY <1>1, <3>2, <4>1 DEF PhaseInv
      <4>3. pc[q] = "disc_begin" => runs[r].status = "queued"
        BY <1>1, <4>1 DEF PhaseInv
      <4>4. QED
        BY <3>1, <3>2, <4>2, <4>3 DEF Rank
    <3>3. CASE pc[q] = "ref_create"
      <4>1. q \in Refreshes /\ r = q
        BY <1>1, <3>1, <3>3 DEF SitesInv, Requests, Runs, DiscoverySites, Ends
      <4>2. runs[r].status = "none"
        BY <1>1, <3>3, <4>1 DEF PhaseInv
      <4>3. QED
        BY <3>1, <3>3, <4>2 DEF Rank
    <3>4. CASE pc[q] = "ana_begin"
      <4>1. q \notin Analyzes
        BY <1>1, <3>4 DEF SitesInv, DiscoverySites, Ends
      <4>2. runs[r].status # "completed"
        BY <1>1, <3>1, <3>4, <4>1 DEF PhaseInv
      <4>3. QED
        BY <2>1, <3>1, <3>4, <4>2 DEF Rank, Status
    <3>5. CASE pc[q] = "ana_finish"
      BY <2>1, <3>1, <3>5 DEF Rank, Status
    <3>6. QED
      BY <3>1, <3>2, <3>3, <3>4, <3>5
  <2>5. ASSUME NEW q \in Analyzes, StartRun(q), runs'[r].status # runs[r].status
        PROVE  Onward(r)
    <3>1. q \in Runs /\ pc[q] = "idle" /\ runs' \in {runs, WithStatus(q, "queued")}
      BY <2>5 DEF StartRun, Write, Runs
    <3>2. runs[q].status = "none"
      BY <1>1, <3>1 DEF PhaseInv
    <3>3. r = q /\ runs'[r].status = "queued"
      BY <1>1, <2>5, <3>1, StatusAfterWrite DEF Status
    <3>4. QED
      BY <3>2, <3>3 DEF Rank
  <2>6. ASSUME NEW q \in Confirms, Confirm(q), runs'[r].status # runs[r].status
        PROVE  Onward(r)
    <3>1. PICK w \in Runs : /\ runs[w].status = "awaiting_confirmation"
                            /\ runs' = WithStatus(w, "confirmed")
      BY <2>6, ConfirmEffect
    <3>2. r = w /\ runs'[r].status = "confirmed"
      BY <1>1, <2>6, <3>1, StatusAfterWrite DEF Status
    <3>3. QED
      BY <3>1, <3>2 DEF Rank
  <2>7. ASSUME \/ \E q \in Confirms : Refuse(q)
               \/ \E q \in Refreshes : ReadLatest(q) \/ RefuseRefresh(q)
               \/ Restart
               \/ UNCHANGED vars
        PROVE  runs'[r].status = runs[r].status
    BY <2>7 DEF Refuse, ReadLatest, RefuseRefresh, Restart, vars, tables
  <2>8. QED
    BY <1>1, <2>2, <2>3, <2>4, <2>5, <2>6, <2>7 DEF Next, Arrive
<1>2. TypeOK /\ SitesInv /\ GateInv /\ PhaseInv /\ [Next]_vars =>
        [\A r \in Runs :
           LET before == runs[r].status  after == runs[r].status'
           IN IF before = "failed"
              THEN after \in {"failed", "running_analysis", "completed"}
              ELSE Rank[before] <= Rank[after]]_vars
  BY <1>1
<1>3. QED
  BY <1>2, TypeCorrect, SitesInvariant, GateInvariant, PhaseInvariant, PTL
     DEF Spec, PhaseNeverRewinds

-----------------------------------------------------------------------------
(* The human gate. *)

\* Nobody is a worker on a run but the request that was let through its gate.
LEMMA WorkersAreUnique ==
  ASSUME SitesInv, GateInv, NEW p \in Requests, NEW q \in Requests,
         pc[p] \in Working, pc[q] \in Working, run[p] = run[q]
  PROVE  p = q
<1>1. p \notin Analyzes /\ q \notin Analyzes /\ run[p] \in Runs
  BY DEF SitesInv, Working, DiscoverySites, AnalysisSites, Ends
<1>2. QED
  BY <1>1, OneWorker

\* A report is never taken back.
LEMMA ReportsAreKept ==
  ASSUME TypeOK, NEW q \in Requests, Continue(q), NEW x \in Runs, report[x] # NoReport
  PROVE  report'[x] # NoReport
BY ReportStep, NullsDistinct DEF TypeOK

\* The list of a run is written once.
LEMMA ApprovalsAreKept ==
  ASSUME TypeOK, SitesInv, ListInv, NEW q \in Requests, Continue(q), NEW x \in Runs,
         approved[x] # NoList
  PROVE  approved'[x] = approved[x]
BY ApprovedStep DEF ListInv

\* The inductive step for the requests that have arrived.
LEMMA TaskContinue ==
  ASSUME TypeOK, SitesInv, GateInv, ListInv, TaskInv, NEW q \in Requests, Continue(q)
  PROVE  TaskInv'
<1>1. UNCHANGED local /\ \A p \in Requests \ {q} : pc'[p] = pc[p]
  BY ContinueMoves DEF DiscoveryMove, AnalysisMove, GateMove, Moves, TypeOK
<1> USE DEF local
<1>2. ASSUME NEW f \in Refreshes, pc'[f] = "ref_create"
      PROVE  \E s \in Runs : report'[s] # NoReport /\ approved'[s] = list'[f]
  <2>1. f # q /\ pc[f] = "ref_create"
    BY <1>1, <1>2, Advance DEF Requests
  <2>2. PICK s \in Runs : report[s] # NoReport /\ approved[s] = list[f]
    BY <2>1 DEF TaskInv
  <2>3. approved[s] # NoList
    BY <2>2 DEF ListInv
  <2>4. QED
    BY <1>1, <2>2, <2>3, ReportsAreKept, ApprovalsAreKept
<1>3. ASSUME NEW p \in Requests \ Analyzes,
             pc'[p] \in {"conf_replace", "ref_replace", "ana_emitter", "ana_begin",
                         "ana_agents", "ana_save"}
      PROVE  report'[run'[p]] = NoReport
  <2>1. run'[p] = run[p] /\ run[p] \in Runs
    BY <1>1, <1>3, Advance DEF SitesInv, Ends
  <2>2. CASE pc'[p] = "ref_replace" /\ p = q
    <3>1. p \in Refreshes /\ pc[p] = "ref_create" /\ run[p] = p
      BY <2>2, Advance DEF SitesInv, Requests, Runs, DiscoverySites, Ends
    <3>2. approved[p] = NoList
      BY <3>1 DEF ListInv
    <3>3. report[p] = NoReport
      BY <3>1, <3>2 DEF ListInv, Runs
    <3>4. report'[p] = report[p]
      BY <2>2, <3>1, ReportStep DEF Runs
    <3>5. QED
      BY <2>1, <3>1, <3>3, <3>4
  <2>3. CASE ~(pc'[p] = "ref_replace" /\ p = q)
    <3>1. \/ pc[p] \in {"conf_replace", "ref_replace", "ana_emitter", "ana_begin", "ana_agents"}
          \/ p # q /\ pc[p] = "ana_save"
      BY <1>1, <1>3, <2>3, Advance
    <3>2. report[run[p]] = NoReport
      BY <3>1 DEF TaskInv
    <3>3. ASSUME report'[run[p]] # NoReport PROVE FALSE
      <4>1. run[p] = run[q] /\ pc[q] = "ana_save"
        BY <2>1, <3>2, <3>3, ReportStep
      <4>2. p = q
        BY <3>1, <4>1, WorkersAreUnique DEF Working, AnalysisSites
      <4>3. QED
        BY <3>1, <4>1, <4>2
    <3>4. QED
      BY <2>1, <3>3
  <2>4. QED
    BY <2>2, <2>3
<1>4. ASSUME NEW p \in Requests \ Analyzes, pc'[p] \in AnalysisSites
      PROVE  launches'[run'[p]] > 0
  <2>1. \A x \in Runs : /\ launches[x] \in Nat /\ launches'[x] \in Nat
                        /\ launches'[x] >= launches[x]
    BY LaunchStep DEF TypeOK
  <2>2. run'[p] = run[p] /\ run[p] \in Runs
    <3>1. pc[p] \notin Ends \cup {"idle"}
      <4>1. CASE p = q
        BY <4>1, ContinueMoves DEF DiscoveryMove, AnalysisMove, GateMove, Moves,
           DiscoverySites, AnalysisSites, Ends
      <4>2. CASE p # q
        BY <1>1, <1>4, <4>2 DEF AnalysisSites, Ends
      <4>3. QED
        BY <4>1, <4>2
    <3>2. QED
      BY <1>1, <3>1 DEF SitesInv
  <2>3. CASE pc[p] \in AnalysisSites
    <3>1. launches[run[p]] > 0
      BY <2>3 DEF TaskInv
    <3>2. PICK before, after : before = launches[run[p]] /\ after = launches'[run[p]]
      OBVIOUS
    <3>3. before \in Nat /\ before > 0 /\ after >= before /\ after \in Nat
      BY <2>1, <2>2, <3>1, <3>2
    <3>4. after > 0
      BY <3>3
    <3>5. QED
      BY <2>2, <3>2, <3>4
  <2>4. CASE pc[p] \notin AnalysisSites
    <3>1. p = q /\ pc[q] \in {"conf_replace", "ref_replace"}
      BY <1>1, <1>4, <2>4, LaunchedWithList
    <3>2. pc'[q] = "ana_emitter"
      BY <1>4, <3>1, ContinueMoves DEF DiscoveryMove, AnalysisMove, GateMove, Moves,
         DiscoverySites, AnalysisSites, TypeOK
    <3>3. ReplaceAndLaunch(q)
      BY <3>1 DEF Continue, Discovery, Analysis, DiscoveryEmitter, BeginDiscovery, DiscoverRivals,
         Park, AnnounceDiscovery, AnalysisEmitter, BeginAnalysis, RunAgents, SaveReport,
         FinishRun, FailRun, CreateRefreshRun
    <3>4. launches' = [launches EXCEPT ![run[q]] = @ + 1]
      BY <3>2, <3>3 DEF ReplaceAndLaunch
    <3>5. QED
      BY <2>1, <2>2, <3>1, <3>4 DEF TypeOK
  <2>5. QED
    BY <2>3, <2>4
<1>5. QED
  BY <1>2, <1>3, <1>4 DEF TaskInv

\* A task publishes at most once, after it was launched, and a refresh holds the
\* list of a run that has its report.
LEMMA TaskInvariant == Spec => []TaskInv
<1>1. Init => TaskInv
  BY DEF Init, TaskInv, Requests, AnalysisSites
<1>2. TypeOK /\ SitesInv /\ GateInv /\ ListInv /\ ReportInv /\ TaskInv /\ [Next]_vars => TaskInv'
  <2> SUFFICES ASSUME TypeOK, SitesInv, GateInv, ListInv, ReportInv, TaskInv, [Next]_vars
               PROVE TaskInv'
    OBVIOUS
  <2>1. ASSUME UNCHANGED <<report, local, approved, launches>>,
               \A p \in Requests : pc'[p] = pc[p] \/ pc'[p] \in Ends \cup {"disc_emitter"}
        PROVE  TaskInv'
    <3>1. \A p \in Requests : pc'[p] \in {"ref_create", "conf_replace", "ref_replace"} \cup AnalysisSites
            => pc'[p] = pc[p]
      BY <2>1 DEF Ends, AnalysisSites
    <3>2. QED
      BY <2>1, <3>1 DEF TaskInv, local, Requests, AnalysisSites
  <2>2. ASSUME NEW q \in Requests, Continue(q) PROVE TaskInv'
    BY <2>2, TaskContinue
  <2>3. ASSUME NEW q \in Analyzes, StartRun(q) PROVE TaskInv'
    <3>1. \E s \in {"disc_emitter", "raised"} : pc' = [pc EXCEPT ![q] = s]
      BY <2>3 DEF StartRun, Write, Raise, Goto
    <3>2. QED
      BY <2>1, <2>3, <3>1 DEF StartRun, history, TypeOK, Ends
  <2>4. ASSUME NEW q \in Confirms, Confirm(q) PROVE TaskInv'
    <3>0. UNCHANGED <<report, launches>>
      BY <2>4, ConfirmEffect
    <3>1. CASE pc' = [pc EXCEPT ![q] = "raised"] /\ UNCHANGED <<runs, run, list, approved>>
      BY <2>1, <3>0, <3>1 DEF TypeOK, Ends, local
    <3>2. ASSUME NEW r \in Runs, NEW l \in Lists, NEW s \in {"conf_replace", "raised"},
                 runs[r].status = "awaiting_confirmation", pc' = [pc EXCEPT ![q] = s],
                 run' = [run EXCEPT ![q] = r], list' = [list EXCEPT ![q] = l],
                 approved' = [approved EXCEPT ![r] = l]
          PROVE  TaskInv'
      <4>1. r \in Analyzes /\ \A c \in Confirms : run[c] # r
        BY <3>2, NullsDistinct DEF GateInv, Runs, Early
      <4>2. approved[r] = NoList /\ report[r] = NoReport
        BY <4>1, <3>2 DEF ListInv
      <4>3. q \in Requests /\ q \notin Refreshes
        BY KindsDisjoint DEF Requests
      <4>4. /\ \A p \in Requests \ {q} : pc'[p] = pc[p] /\ run'[p] = run[p] /\ list'[p] = list[p]
            /\ run'[q] = r /\ pc'[q] = s
        BY <3>2, <4>3 DEF TypeOK
      <4>5. \A x \in Runs : report[x] # NoReport => approved'[x] = approved[x]
        BY <3>2, <4>2 DEF TypeOK
      <4>6. (\A f \in Refreshes : pc[f] = "ref_create" =>
               \E x \in Runs : report[x] # NoReport /\ approved[x] = list[f])'
        BY <3>0, <4>3, <4>4, <4>5 DEF TaskInv, Requests
      <4>7. (\A p \in Requests \ Analyzes :
               /\ pc[p] \in {"conf_replace", "ref_replace", "ana_emitter", "ana_begin",
                             "ana_agents", "ana_save"} => report[run[p]] = NoReport
               /\ pc[p] \in AnalysisSites => launches[run[p]] > 0)'
        BY <3>0, <4>2, <4>4 DEF TaskInv, AnalysisSites
      <4>8. QED
        BY <4>6, <4>7 DEF TaskInv
    <3>3. QED
      BY <2>4, <3>1, <3>2, ConfirmEffect
  <2>5. ASSUME NEW q \in Requests, Refuse(q) \/ RefuseRefresh(q) PROVE TaskInv'
    BY <2>1, <2>5 DEF Refuse, RefuseRefresh, Goto, tables, history, TypeOK, Ends
  <2>6. ASSUME NEW q \in Refreshes, ReadLatest(q) PROVE TaskInv'
    <3>1. /\ pc' = [pc EXCEPT ![q] = "ref_create"]
          /\ UNCHANGED <<report, run, approved, launches>>
      BY <2>6 DEF ReadLatest, Goto, tables, history
    <3>2. PICK r \in Runs : IsLatest(r) /\ list' = [list EXCEPT ![q] = rivals[r]]
      BY <2>6 DEF ReadLatest
    <3>3. runs[r].status = "completed"
      BY <3>2 DEF IsLatest, Completed
    <3>4. report[r] # NoReport /\ approved[r] = rivals[r]
      BY <3>3 DEF ReportInv, CompletedHasReport, ListInv, AnalysedListIsApproved
    <3>5. q \in Requests
      BY DEF Requests
    <3>6. /\ \A p \in Requests \ {q} : pc'[p] = pc[p] /\ list'[p] = list[p]
          /\ pc'[q] = "ref_create" /\ list'[q] = rivals[r]
      BY <3>1, <3>2, <3>5 DEF TypeOK
    <3>7. QED
      BY <3>1, <3>4, <3>6 DEF TaskInv, Requests, AnalysisSites
  <2>7. CASE Restart
    BY <2>1, <2>7 DEF Restart, tables, history, Ends
  <2>8. CASE UNCHANGED vars
    BY <2>1, <2>8 DEF vars, tables, history
  <2>9. QED
    BY <2>2, <2>3, <2>4, <2>5, <2>6, <2>7, <2>8 DEF Next, Arrive, Requests
<1>3. QED
  BY <1>1, <1>2, TypeCorrect, SitesInvariant, GateInvariant, ListInvariant, ReportInvariant, PTL
     DEF Spec

Launched == {r \in Runs : launches[r] > 0}

\* What a request that has arrived does is one action of the human gate, or
\* nothing that the gate can see.
LEMMA ContinueRefines ==
  ASSUME TypeOK, SitesInv, GateInv, ListInv, TaskInv, NEW q \in Requests, Continue(q)
  PROVE  [Gate!Next]_<<approved, Launched, report>>
<1>1. CASE CreateRefreshRun(q)
  <2>1. q \in Refreshes /\ q \in Runs /\ pc[q] = "ref_create"
    BY <1>1 DEF CreateRefreshRun, SitesInv, Requests, Runs, DiscoverySites, Ends
  <2>2. PICK s \in Runs : report[s] # NoReport /\ approved[s] = list[q]
    BY <2>1 DEF TaskInv
  <2>3. approved[q] = NoList
    BY <2>1 DEF ListInv
  <2>4. approved' = [approved EXCEPT ![q] = approved[s]]
    BY <1>1, <2>2 DEF CreateRefreshRun
  <2>5. UNCHANGED <<Launched, report>>
    BY <1>1 DEF CreateRefreshRun, Launched
  <2>6. Gate!Inherit(q, s)
    BY <2>2, <2>3, <2>4, <2>5 DEF Gate!Inherit, Launched
  <2>7. QED
    BY <2>1, <2>6 DEF Gate!Next
<1>2. CASE ReplaceAndLaunch(q)
  <2>1. UNCHANGED <<approved, report>>
    BY <1>2 DEF ReplaceAndLaunch
  <2>2. pc[q] \in {"conf_replace", "ref_replace"}
    BY <1>2 DEF ReplaceAndLaunch
  <2>3. CASE UNCHANGED launches
    BY <2>1, <2>3 DEF Launched
  <2>4. CASE launches' = [launches EXCEPT ![run[q]] = @ + 1]
    <3>1. run[q] \in Runs /\ approved[run[q]] # NoList
      BY <2>2, WorksOnApproved DEF Working
    <3>2. launches[run[q]] = 0
      <4>1. CASE q \in Confirms
        <5>1. run[q] # NoRun /\ pc[q] = "conf_replace"
          BY <2>2, <3>1, <4>1, NullsDistinct DEF SitesInv
        <5>2. QED
          BY <4>1, <5>1 DEF GateInv
      <4>2. CASE q \in Refreshes
        <5>1. pc[q] = "ref_replace" /\ run[q] = q
          BY <2>2, <4>2 DEF SitesInv, Runs
        <5>2. QED
          BY <4>2, <5>1 DEF GateInv
      <4>3. q \notin Analyzes
        BY <2>2, WorksOnApproved DEF Working
      <4>4. QED
        BY <4>1, <4>2, <4>3 DEF Requests
    <3>3. \A x \in Runs : launches'[x] = IF x = run[q] THEN 1 ELSE launches[x]
      BY <2>4, <3>1, <3>2 DEF TypeOK
    <3>4. run[q] \notin Launched /\ Launched' = Launched \cup {run[q]}
      BY <3>1, <3>2, <3>3 DEF Launched
    <3>5. PICK r \in Runs : r = run[q]
      BY <3>1
    <3>6. Gate!Launch(r)
      BY <2>1, <3>1, <3>4, <3>5 DEF Gate!Launch, Launched
    <3>7. QED
      BY <3>6 DEF Gate!Next
  <2>5. QED
    BY <2>3, <2>4, <1>2 DEF ReplaceAndLaunch
<1>3. CASE SaveReport(q)
  <2>1. PICK text \in {list[q], Shell} : report' \in {report, [report EXCEPT ![run[q]] = text]}
    BY <1>3 DEF SaveReport, Write
  <2>2. UNCHANGED <<approved, Launched>>
    BY <1>3 DEF SaveReport, history, Launched
  <2>3. pc[q] = "ana_save"
    BY <1>3 DEF SaveReport
  <2>4. CASE report' = report
    BY <2>2, <2>4
  <2>5. CASE report' = [report EXCEPT ![run[q]] = text]
    <3>1. q \notin Analyzes /\ run[q] \in Runs /\ approved[run[q]] = list[q]
      BY <2>3, WorksOnApproved DEF Working, AnalysisSites
    <3>2. run[q] \in Launched /\ report[run[q]] = NoReport
      BY <2>3, <3>1 DEF TaskInv, Launched, AnalysisSites
    <3>3. Gate!Publish(run[q])
      BY <2>1, <2>2, <2>5, <3>1, <3>2 DEF Gate!Publish, Launched
    <3>4. QED
      BY <3>1, <3>3 DEF Gate!Next
  <2>6. QED
    BY <2>1, <2>4, <2>5
<1>4. CASE ~(CreateRefreshRun(q) \/ ReplaceAndLaunch(q) \/ SaveReport(q))
  <2>1. UNCHANGED <<approved, launches, report>>
    BY <1>4 DEF Continue, Discovery, Analysis, tables, history, DiscoveryEmitter, BeginDiscovery,
       DiscoverRivals, Park, AnnounceDiscovery, AnalysisEmitter, BeginAnalysis, RunAgents,
       FinishRun, FailRun
  <2>2. QED
    BY <2>1 DEF Launched
<1>5. QED
  BY <1>1, <1>2, <1>3, <1>4

\* The handlers and the tasks, with their retries, failures and restarts,
\* implement the human gate: the list of a run is fixed once, by a user or by
\* inheriting that of a reported run; the agents are launched once, on it; one
\* report is published, about it or the degraded shell.
THEOREM LifecycleImplementsGate == Spec => ImplementsHumanGate
<1>1. Init => Gate!Init
  <2> SUFFICES ASSUME Init PROVE Gate!Init
    OBVIOUS
  <2>1. Launched = {}
    BY DEF Init, Launched
  <2>2. QED
    BY <2>1 DEF Init, Gate!Init, Launched
<1>2. ASSUME TypeOK, SitesInv, GateInv, ListInv, TaskInv, [Next]_vars
      PROVE  [Gate!Next]_<<approved, Launched, report>>
  <2>1. ASSUME NEW q \in Requests, Continue(q)
        PROVE  [Gate!Next]_<<approved, Launched, report>>
    BY <1>2, <2>1, ContinueRefines
  <2>2. ASSUME NEW q \in Confirms, Confirm(q)
        PROVE  [Gate!Next]_<<approved, Launched, report>>
    <3>1. UNCHANGED <<report, Launched>>
      BY <2>2, ConfirmEffect DEF Launched
    <3>2. CASE UNCHANGED approved
      BY <3>1, <3>2
    <3>3. CASE ~UNCHANGED approved
      <4>1. PICK r \in Runs, l \in Lists \ {{}} :
              AtGate(r) /\ approved' = [approved EXCEPT ![r] = l]
        BY <2>2, <3>3 DEF Confirm
      <4>2. \A c \in Confirms : run[c] # r
        BY <1>2, <4>1, NullsDistinct DEF AtGate, GateInv, Early
      <4>3. r \in Analyzes
        BY <1>2, <4>1 DEF AtGate, GateInv, Runs
      <4>4. approved[r] = NoList
        BY <1>2, <4>2, <4>3 DEF ListInv
      <4>5. Gate!Approve(r, l)
        BY <3>1, <4>1, <4>4 DEF Gate!Approve, Launched
      <4>6. QED
        BY <4>1, <4>5 DEF Gate!Next
    <3>4. QED
      BY <3>2, <3>3
  <2>3. ASSUME \/ \E q \in Analyzes : StartRun(q)
               \/ \E q \in Confirms : Refuse(q)
               \/ \E q \in Refreshes : ReadLatest(q) \/ RefuseRefresh(q)
               \/ Restart
               \/ UNCHANGED vars
        PROVE  UNCHANGED <<approved, Launched, report>>
    BY <2>3 DEF StartRun, Refuse, ReadLatest, RefuseRefresh, Restart, vars, tables, history, Launched
  <2>4. QED
    BY <1>2, <2>1, <2>2, <2>3 DEF Next, Arrive
<1>3. ASSUME TypeOK, SitesInv, GateInv, ListInv, TaskInv, [Next]_vars
      PROVE  [Gate!Next]_<<approved, {r \in Runs : launches[r] > 0}, report>>
  BY <1>2, <1>3 DEF Launched
<1>4. QED
  BY <1>1, <1>3, TypeCorrect, SitesInvariant, GateInvariant, ListInvariant, TaskInvariant, PTL
     DEF Spec, ImplementsHumanGate, Gate!Spec

-----------------------------------------------------------------------------
(* Runs in progress. *)

\* A request that continues stays answerable for its run until it has settled it,
\* or only announces that discovery did.
LEMMA AnswersUntilSettled ==
  ASSUME TypeOK, SitesInv, NEW q \in Requests, Continue(q)
  PROVE  /\ pc'[q] \notin {"idle", "rejected"}
         /\ pc'[q] \in {"done", "disc_announce"} =>
              \/ runs'[run[q]].status \notin InProgress
              \/ pc[q] = "disc_announce" /\ runs' = runs
<1> USE DEF TypeOK, Write, Call, Raise, Goto, tables, InProgress
<1>1. CASE DiscoveryEmitter(q) \/ BeginDiscovery(q) \/ DiscoverRivals(q) \/ AnnounceDiscovery(q)
  BY <1>1 DEF DiscoveryEmitter, BeginDiscovery, DiscoverRivals, AnnounceDiscovery
<1>2. CASE Park(q)
  <2>1. run[q] = q /\ q \in Runs
    BY <1>2, KindsDisjoint DEF SitesInv, Requests, Runs, Park, DiscoverySites, AnalysisSites, Ends
  <2>2. /\ pc'[q] \in {"disc_announce", "disc_fail"}
        /\ pc'[q] = "disc_announce" => runs' = WithStatus(q, "awaiting_confirmation")
    BY <1>2 DEF Park
  <2>3. runs' = WithStatus(q, "awaiting_confirmation") =>
          runs'[q].status = "awaiting_confirmation"
    BY <2>1, StatusAfterWrite DEF Status
  <2>4. QED
    BY <2>1, <2>2, <2>3
<1>3. CASE FailRun(q) \/ FinishRun(q)
  <2>1. run[q] \in Runs
    BY <1>3 DEF SitesInv, FailRun, FinishRun, Ends
  <2>2. /\ pc'[q] \in {"done", "raised", "ana_fail"}
        /\ pc'[q] = "done" => \E row : /\ row.status \in {"failed", "completed"}
                                       /\ runs' = [runs EXCEPT ![run[q]] = row]
    BY <1>3, <2>1 DEF FailRun, FinishRun
  <2>3. QED
    BY <2>1, <2>2
<1>4. CASE ReplaceAndLaunch(q) \/ CreateRefreshRun(q)
  BY <1>4 DEF ReplaceAndLaunch, CreateRefreshRun
<1>5. CASE AnalysisEmitter(q) \/ BeginAnalysis(q) \/ RunAgents(q) \/ SaveReport(q)
  BY <1>5 DEF AnalysisEmitter, BeginAnalysis, RunAgents, SaveReport
<1>6. QED
  BY <1>1, <1>2, <1>3, <1>4, <1>5 DEF Continue, Discovery, Analysis

\* Every run in progress has somebody who is answerable for it.
LEMMA WorkerInvariant == Spec => []WorkerInv
<1>1. Init => WorkerInv
  BY DEF Init, WorkerInv, InProgress, Absent
<1>2. ASSUME TypeOK, SitesInv, GateInv, WorkerInv, [Next]_vars PROVE WorkerInv'
  <2>0. pc \in [Requests -> Sites \cup Ends] /\ run \in [Requests -> Runs \cup {NoRun}]
    BY <1>2 DEF TypeOK
  <2>1. ASSUME NEW q \in Requests, Continue(q) PROVE WorkerInv'
    <3>1. run' = run /\ \A p \in Requests \ {q} : pc'[p] = pc[p]
      BY <2>0, <2>1, ContinueMoves DEF local, DiscoveryMove, AnalysisMove, GateMove, Moves
    <3>2. SUFFICES ASSUME NEW r \in Runs, runs'[r].status \in InProgress
                   PROVE  \E p \in Requests : Answers(p, r)'
      BY DEF WorkerInv
    <3>3. CASE run[q] = r /\ pc'[q] \notin {"done", "disc_announce"}
      BY <1>2, <2>1, <3>1, <3>3, AnswersUntilSettled DEF Answers
    <3>4. CASE run[q] # r \/ pc'[q] \in {"done", "disc_announce"}
      <4>1. runs'[r].status = runs[r].status /\ (run[q] # r \/ pc[q] = "disc_announce")
        BY <1>2, <2>1, <3>2, <3>4, AnswersUntilSettled, StatusStep
      <4>2. PICK p \in Requests : Answers(p, r)
        BY <1>2, <3>2, <4>1 DEF WorkerInv
      <4>3. p # q
        BY <4>1, <4>2 DEF Answers
      <4>4. QED
        BY <3>1, <4>2, <4>3 DEF Answers
    <3>5. QED
      BY <3>3, <3>4
  <2>2. ASSUME NEW q \in Analyzes, StartRun(q) PROVE WorkerInv'
    <3>1. /\ q \in Requests /\ q \in Runs /\ run[q] = q /\ run' = run /\ pc[q] = "idle"
          /\ \E s \in {"disc_emitter", "raised"} : pc' = [pc EXCEPT ![q] = s]
          /\ runs' \in {runs, WithStatus(q, "queued")}
      BY <1>2, <2>2 DEF StartRun, Write, Raise, Goto, local, SitesInv, Requests, Runs
    <3>2. \A r \in Runs : r # q => runs'[r] = runs[r]
      BY <1>2, <3>1 DEF WithStatus, TypeOK
    <3>3. Answers(q, q)' /\ \A r \in Runs, p \in Requests : Answers(p, r) => Answers(p, r)'
      BY <2>0, <3>1 DEF Answers
    <3>4. QED
      BY <1>2, <3>1, <3>2, <3>3 DEF WorkerInv
  <2>3. ASSUME NEW q \in Confirms, Confirm(q) PROVE WorkerInv'
    <3>1. pc[q] = "idle" /\ q \in Requests
      BY <2>3, ConfirmEffect DEF Requests
    <3>2. ASSUME NEW p \in Requests, NEW r \in Runs, Answers(p, r) PROVE Answers(p, r)'
      <4>1. p # q
        BY <3>1, <3>2 DEF Answers
      <4>2. pc'[p] = pc[p] /\ run'[p] = run[p]
        BY <2>0, <2>3, <4>1, ConfirmEffect
      <4>3. QED
        BY <3>2, <4>2 DEF Answers
    <3>3. CASE runs' = runs
      BY <1>2, <3>2, <3>3 DEF WorkerInv
    <3>4. CASE runs' # runs
      <4>1. PICK r \in Runs :
              /\ \E s \in {"conf_replace", "raised"} : pc' = [pc EXCEPT ![q] = s]
              /\ runs' = WithStatus(r, "confirmed")
              /\ run' = [run EXCEPT ![q] = r]
        BY <2>3, <3>4, ConfirmEffect
      <4>2. Answers(q, r)'
        BY <2>0, <3>1, <4>1 DEF Answers
      <4>3. \A x \in Runs : x # r => runs'[x] = runs[x]
        BY <1>2, <4>1 DEF WithStatus, TypeOK
      <4>4. QED
        BY <1>2, <3>1, <3>2, <4>2, <4>3 DEF WorkerInv
    <3>5. QED
      BY <3>3, <3>4
  <2>4. ASSUME NEW q \in Confirms \cup Refreshes,
               Refuse(q) \/ ReadLatest(q) \/ RefuseRefresh(q)
        PROVE  WorkerInv'
    <3>1. /\ runs' = runs /\ run' = run /\ pc[q] = "idle" /\ q \in Requests
          /\ \A p \in Requests \ {q} : pc'[p] = pc[p]
      BY <2>0, <2>4 DEF Refuse, ReadLatest, RefuseRefresh, Goto, tables, local, Requests
    <3>2. \A p \in Requests, r \in Runs : Answers(p, r) => Answers(p, r)'
      BY <3>1 DEF Answers
    <3>3. QED
      BY <1>2, <3>1, <3>2 DEF WorkerInv
  <2>5. CASE Restart
    <3>1. /\ runs' = runs /\ run' = run
          /\ \A p \in Requests : pc'[p] \in {pc[p], "killed"}
      BY <2>5 DEF Restart, tables, local
    <3>2. \A p \in Requests, r \in Runs : Answers(p, r) => Answers(p, r)'
      BY <3>1 DEF Answers
    <3>3. QED
      BY <1>2, <3>1, <3>2 DEF WorkerInv
  <2>6. CASE UNCHANGED vars
    BY <1>2, <2>6 DEF vars, tables, local, WorkerInv, Answers
  <2>7. QED
    BY <1>2, <2>1, <2>2, <2>3, <2>4, <2>5, <2>6 DEF Next, Arrive
<1>3. QED
  BY <1>1, <1>2, TypeCorrect, SitesInvariant, GateInvariant, PTL DEF Spec

\* Whatever raises in a try block is caught there.
LEMMA EscapesAreUnguarded == Spec => []EscapesInv
<1>1. Init => EscapesInv
  BY DEF Init, EscapesInv
<1>2. ASSUME TypeOK, EscapesInv, [Next]_vars PROVE EscapesInv'
  <2> SUFFICES ASSUME NEW p \in Requests, pc'[p] = "raised" PROVE escaped'[p] \in Unguarded
    BY DEF EscapesInv, Unguarded
  <2>0. /\ DOMAIN pc = Requests /\ DOMAIN escaped = Requests
        /\ pc[p] = "raised" => escaped[p] \in Unguarded
    BY <1>2 DEF TypeOK, EscapesInv
  <2> USE <2>0 DEF Unguarded, Write, Call, Raise, Goto, failing
  <2>1. ASSUME NEW q \in Requests, Discovery(q) PROVE escaped'[p] \in Unguarded
    BY <2>1 DEF Discovery, DiscoveryEmitter, BeginDiscovery, DiscoverRivals, Park, AnnounceDiscovery
  <2>2. ASSUME NEW q \in Requests, Analysis(q) PROVE escaped'[p] \in Unguarded
    BY <2>2 DEF Analysis, AnalysisEmitter, BeginAnalysis, RunAgents, SaveReport, FinishRun
  <2>3. ASSUME NEW q \in Requests, FailRun(q) \/ ReplaceAndLaunch(q) \/ CreateRefreshRun(q)
        PROVE  escaped'[p] \in Unguarded
    BY <2>3 DEF FailRun, ReplaceAndLaunch, CreateRefreshRun
  <2>4. ASSUME NEW q \in Requests, StartRun(q) \/ Confirm(q) PROVE escaped'[p] \in Unguarded
    BY <2>4 DEF StartRun, Confirm
  <2>5. ASSUME NEW q, Refuse(q) \/ ReadLatest(q) \/ RefuseRefresh(q)
        PROVE  escaped'[p] \in Unguarded
    BY <2>5 DEF Refuse, ReadLatest, RefuseRefresh
  <2>6. CASE Restart \/ UNCHANGED vars
    BY <2>6 DEF Restart, vars
  <2>7. QED
    BY <1>2, <2>1, <2>2, <2>3, <2>4, <2>5, <2>6 DEF Next, Arrive, Continue, Requests
<1>3. QED
  BY <1>1, <1>2, TypeCorrect, PTL DEF Spec

\* No exception inside the try blocks of the two tasks leaves a run in progress without
\* a request that works on it (InProgressHasWorker); a request that was killed, or
\* that raised where no try block is, may.
THEOREM RunsInProgressAreAttended == Spec => []InProgressHasWorker
<1>1. TypeOK /\ WorkerInv /\ EscapesInv => InProgressHasWorker
  <2> SUFFICES ASSUME TypeOK, WorkerInv, EscapesInv,
                      NEW r \in Runs, runs[r].status \in InProgress
               PROVE  Attended(r) \/ Abandoned(r)
    BY DEF InProgressHasWorker
  <2>1. PICK q \in Requests : Answers(q, r)
    BY DEF WorkerInv
  <2>2. pc[q] = "raised" => escaped[q] \in Unguarded
    BY DEF EscapesInv
  <2>3. QED
    BY <2>1, <2>2 DEF Answers, Attended, Abandoned, Running, Ends
<1>2. QED
  BY <1>1, TypeCorrect, WorkerInvariant, EscapesAreUnguarded, PTL

-----------------------------------------------------------------------------
(* Mutual exclusion. *)

\* No two requests ever store the list of a run, analyse it or report on it at the
\* same time, whatever confirms were posted and retried: confirm_run is the lock,
\* and nobody else holds the run of a refresh.
AnalysedByOne ==
  \A p, q \in Requests : p # q /\ pc[p] \in Working /\ pc[q] \in Working => run[p] # run[q]

\* The requests past the gate exclude each other (AnalysedByOne).
THEOREM RunsAreAnalysedByOne == Spec => []AnalysedByOne
<1>1. SitesInv /\ GateInv => AnalysedByOne
  BY WorkersAreUnique DEF AnalysedByOne
<1>2. QED
  BY <1>1, SitesInvariant, GateInvariant, PTL
=============================================================================
