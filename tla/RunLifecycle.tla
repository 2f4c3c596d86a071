---------------------------- MODULE RunLifecycle ----------------------------
(***************************************************************************)
(* The life of an analysis run: POST /analyze creates the row and runs     *)
(* discovery in a background task, POST /runs/{id}/confirm lets one caller *)
(* through the human gate and runs the analysis, POST /companies/{slug}/   *)
(* refresh starts an analysis on the list of the latest completed run.     *)
(*                                                                         *)
(* A request is a process: its handler runs, then the background task it   *)
(* queued runs in the same process (FastAPI BackgroundTasks), so one       *)
(* program counter walks through both.  The request that creates a run     *)
(* names it.  Every database call is a step of its own: other requests     *)
(* interleave with it, it may fail (before its effect, or after it with    *)
(* the acknowledgement lost), and the process may be killed around it.     *)
(* All runs belong to one company, whose refresh handler this is.          *)
(***************************************************************************)
EXTENDS Naturals, FiniteSets

CONSTANTS
  Analyzes,    \* POST /analyze requests
  Confirms,    \* POST /runs/{job_id}/confirm requests
  Refreshes,   \* POST /companies/{slug}/refresh requests
  Rivals,      \* competitor names
  NoRun, NoList, NoReport,
  Shell,       \* the degraded report shell, about no rival
  FaultSites,  \* program points whose database call may raise
  MaxFaults,   \* bound on the database calls that raise
  MaxCrashes   \* bound on the restarts of the process

Requests == Analyzes \cup Confirms \cup Refreshes
Runs     == Analyzes \cup Refreshes
Lists    == SUBSET Rivals

ASSUME KindsDisjoint ==
  /\ Analyzes \cap Confirms = {}
  /\ Analyzes \cap Refreshes = {}
  /\ Confirms \cap Refreshes = {}
ASSUME NullsDistinct ==
  /\ NoRun \notin Runs
  /\ NoReport # Shell
  /\ \A l \in Lists : NoList # l /\ NoReport # l /\ Shell # l
ASSUME BoundsAssumption == MaxFaults \in Nat /\ MaxCrashes \in Nat

VARIABLES
  runs,       \* table runs: status, error is set, finished_at
  rivals,     \* table competitors: the list stored for each run
  report,     \* table reports: the list the stored report is about
  pc, run, list,          \* each request: where it is, its run, its list
  approved, launches,     \* history: list let through a run's gate,
                          \* analysis tasks queued for a run
  escaped,    \* history: the call whose exception left the request
  clock, faults, crashes  \* finished_at source, and the bounded counters

tables  == <<runs, rivals, report>>
local   == <<run, list>>
history == <<approved, launches>>
failing == <<faults, escaped>>
vars    == <<tables, pc, local, history, clock, failing, crashes>>

Status == {"none", "queued", "running_discovery", "awaiting_confirmation",
           "confirmed", "running_analysis", "completed", "failed"}

\* Where a request can be.  The last four are ends: answered or task finished;
\* refused with 404/409; an exception nobody caught; killed with the process.
DiscoverySites == {"disc_emitter", "disc_begin", "disc_agents", "disc_park",
                   "disc_announce", "disc_fail"}
GateSites      == {"conf_replace", "ref_create", "ref_replace"}
AnalysisSites  == {"ana_emitter", "ana_begin", "ana_agents", "ana_save",
                   "ana_finish", "ana_fail"}
Ends           == {"done", "rejected", "raised", "killed"}
Sites          == {"idle"} \cup DiscoverySites \cup GateSites \cup AnalysisSites

RunRow == [status: Status, error: BOOLEAN, finished: Nat]
Absent == [status |-> "none", error |-> FALSE, finished |-> 0]

TypeOK ==
  /\ runs \in [Runs -> RunRow]
  /\ rivals \in [Runs -> Lists]
  /\ report \in [Runs -> {NoReport, Shell} \cup Lists]
  /\ pc \in [Requests -> Sites \cup Ends]
  /\ run \in [Requests -> Runs \cup {NoRun}]
  /\ list \in [Requests -> Lists]
  /\ approved \in [Runs -> {NoList} \cup Lists]
  /\ launches \in [Runs -> Nat]
  /\ clock \in Nat /\ faults \in Nat /\ crashes \in Nat
  /\ escaped \in [Requests -> Sites \cup Ends \cup {"none"}]

Init ==
  /\ runs = [r \in Runs |-> Absent]
  /\ rivals = [r \in Runs |-> {}]
  /\ report = [r \in Runs |-> NoReport]
  /\ pc = [q \in Requests |-> "idle"]
  /\ run = [q \in Requests |-> IF q \in Runs THEN q ELSE NoRun]
  /\ list = [q \in Requests |-> {}]
  /\ approved = [r \in Runs |-> NoList]
  /\ launches = [r \in Runs |-> 0]
  /\ clock = 0 /\ faults = 0 /\ crashes = 0
  /\ escaped = [q \in Requests |-> "none"]

-----------------------------------------------------------------------------
(* Steps of a request. *)

Goto(q, site) == pc' = [pc EXCEPT ![q] = site]

\* The call at q's program point raises and control goes to site.
Raise(q, site) ==
  /\ pc[q] \in FaultSites
  /\ faults < MaxFaults
  /\ faults' = faults + 1
  /\ escaped' = IF site = "raised" THEN [escaped EXCEPT ![q] = pc[q]] ELSE escaped
  /\ Goto(q, site)

\* The statement commits and control goes on, or the call raises: with the
\* statement not applied, or applied and its acknowledgement lost.
Write(q, table, new, next, handler) ==
  \/ table' = new /\ Goto(q, next) /\ UNCHANGED failing
  \/ table' \in {table, new} /\ Raise(q, handler)

\* A call that changes no table: it returns, or raises.
Call(q, next, handler) ==
  \/ Goto(q, next) /\ UNCHANGED failing
  \/ Raise(q, handler)

WithStatus(r, s) == [runs EXCEPT ![r].status = s]

-----------------------------------------------------------------------------
(* POST /analyze: start_run, then the task start_discovery. *)

\* Mutant: a status the enumeration does not have.
StartPending(q) ==
  /\ pc[q] = "idle"
  /\ Write(q, runs, WithStatus(q, "pending"), "disc_emitter", "raised")
  /\ UNCHANGED <<rivals, report, local, history, clock, crashes>>

StartRun(q) ==
  /\ pc[q] = "idle"
  /\ Write(q, runs, WithStatus(q, "queued"), "disc_emitter", "raised")
  /\ UNCHANGED <<rivals, report, local, history, clock, crashes>>

\* _emitter reads the run row before the try block of either task.
DiscoveryEmitter(q) ==
  /\ pc[q] = "disc_emitter"
  /\ Call(q, "disc_begin", "raised")
  /\ UNCHANGED <<tables, local, history, clock, crashes>>

BeginDiscovery(q) ==
  /\ pc[q] = "disc_begin"
  /\ Write(q, runs, WithStatus(q, "running_discovery"), "disc_agents", "disc_fail")
  /\ UNCHANGED <<rivals, report, local, history, clock, crashes>>

\* save_competitors appends.
Saved(q, found) == [rivals EXCEPT ![q] = @ \cup found]

\* The discovery agent stores the rivals it found.  Without an answer of the
\* search or the model it found none, and a failed append is swallowed; only an
\* event that cannot be written may get out of the agent and its boundary.
DiscoverRivals(q) ==
  /\ pc[q] = "disc_agents"
  /\ \E found \in Lists : Write(q, rivals, Saved(q, found), "disc_park", "disc_fail")
  /\ UNCHANGED <<runs, report, local, history, clock, crashes>>

Park(q) ==
  /\ pc[q] = "disc_park"
  /\ Write(q, runs, WithStatus(q, "awaiting_confirmation"), "disc_announce", "disc_fail")
  /\ UNCHANGED <<rivals, report, local, history, clock, crashes>>

\* Mutant: the status is written once more after the closing event.
AnnounceThenPark(q) ==
  /\ pc[q] = "disc_announce"
  /\ Write(q, runs, WithStatus(q, "awaiting_confirmation"), "done", "disc_fail")
  /\ UNCHANGED <<rivals, report, local, history, clock, crashes>>

\* The closing event, appended after the gate is already open.
AnnounceDiscovery(q) ==
  /\ pc[q] = "disc_announce"
  /\ Call(q, "done", "disc_fail")
  /\ UNCHANGED <<tables, local, history, clock, crashes>>

\* Mutant: the error is recorded and the status is not.
RecordError(q) ==
  /\ pc[q] \in {"disc_fail", "ana_fail"}
  /\ clock' = clock + 1
  /\ Write(q, runs, [runs EXCEPT ![run[q]].error = TRUE], "done", "raised")
  /\ UNCHANGED <<rivals, report, local, history, crashes>>

\* The except block of either task: fail_run, whatever the status is by now.
FailRun(q) ==
  /\ pc[q] \in {"disc_fail", "ana_fail"}
  /\ clock' = clock + 1
  /\ Write(q, runs, [runs EXCEPT ![run[q]] =
                       [status |-> "failed", error |-> TRUE, finished |-> clock + 1]],
           "done", "raised")
  /\ UNCHANGED <<rivals, report, local, history, crashes>>

-----------------------------------------------------------------------------
(* POST /runs/{job_id}/confirm. *)

\* Mutant: a confirmation that is posted again passes too.
AtOrPastGate(r) == runs[r].status \in {"awaiting_confirmation", "confirmed"}

AtGate(r) == runs[r].status = "awaiting_confirmation"

\* confirm_run, a single UPDATE ... WHERE status = 'awaiting_confirmation': the
\* caller that wins posts the list it approves, every other one is refused.
Confirm(q) ==
  /\ pc[q] = "idle"
  /\ \/ \E r \in Runs, l \in Lists \ {{}} :
          /\ AtGate(r)
          /\ runs' = WithStatus(r, "confirmed")
          /\ approved' = [approved EXCEPT ![r] = l]
          /\ run' = [run EXCEPT ![q] = r]
          /\ list' = [list EXCEPT ![q] = l]
          /\ Call(q, "conf_replace", "raised")
     \/ Raise(q, "raised") /\ UNCHANGED <<runs, approved, local>>
  /\ UNCHANGED <<rivals, report, launches, clock, crashes>>

Refuse(q) ==
  /\ pc[q] = "idle"
  /\ \E r \in Runs : ~AtGate(r)
  /\ Goto(q, "rejected")
  /\ UNCHANGED <<tables, local, history, clock, failing, crashes>>

\* Mutant: the approved list is added to what discovery stored.
Appended(q) == [rivals EXCEPT ![run[q]] = @ \cup list[q]]

Replaced(q) == [rivals EXCEPT ![run[q]] = list[q]]

\* replace_competitors (one transaction), then the task is queued.
ReplaceAndLaunch(q) ==
  /\ pc[q] \in {"conf_replace", "ref_replace"}
  /\ Write(q, rivals, Replaced(q), "ana_emitter", "raised")
  /\ launches' = IF pc'[q] = "ana_emitter"
                 THEN [launches EXCEPT ![run[q]] = @ + 1] ELSE launches
  /\ UNCHANGED <<runs, report, local, approved, clock, crashes>>

-----------------------------------------------------------------------------
(* POST /companies/{slug}/refresh. *)

\* Mutant: a run that waits for its user counts as completed.
CompletedOrWaiting == {r \in Runs : runs[r].status \in {"completed", "awaiting_confirmation"}}

Completed == {r \in Runs : runs[r].status = "completed"}
IsLatest(r) == r \in Completed /\ \A s \in Completed : runs[s].finished <= runs[r].finished

ReadLatest(q) ==
  /\ pc[q] = "idle"
  /\ \E r \in Runs :
       /\ IsLatest(r)
       /\ rivals[r] # {}
       /\ list' = [list EXCEPT ![q] = rivals[r]]
  /\ Goto(q, "ref_create")
  /\ UNCHANGED <<tables, run, history, clock, failing, crashes>>

RefuseRefresh(q) ==
  /\ pc[q] = "idle"
  /\ \A r \in Runs : IsLatest(r) => rivals[r] = {}
  /\ Goto(q, "rejected")
  /\ UNCHANGED <<tables, local, history, clock, failing, crashes>>

CreateRefreshRun(q) ==
  /\ pc[q] = "ref_create"
  /\ Write(q, runs, WithStatus(q, "queued"), "ref_replace", "raised")
  /\ approved' = [approved EXCEPT ![q] = list[q]]
  /\ UNCHANGED <<rivals, report, local, launches, clock, crashes>>

-----------------------------------------------------------------------------
(* The task start_analysis. *)

AnalysisEmitter(q) ==
  /\ pc[q] = "ana_emitter"
  /\ Call(q, "ana_begin", "raised")
  /\ UNCHANGED <<tables, local, history, clock, crashes>>

BeginAnalysis(q) ==
  /\ pc[q] = "ana_begin"
  /\ Write(q, runs, WithStatus(run[q], "running_analysis"), "ana_agents", "ana_fail")
  /\ UNCHANGED <<rivals, report, local, history, clock, crashes>>

\* The started event, the company row and the graph: an agent that fails
\* degrades inside the graph, an event or a read that fails may get out of it.
RunAgents(q) ==
  /\ pc[q] = "ana_agents"
  /\ Call(q, "ana_save", "ana_fail")
  /\ UNCHANGED <<tables, local, history, clock, crashes>>

\* Mutant: a failed save is swallowed.
SaveQuietly(q) ==
  /\ pc[q] = "ana_save"
  /\ \E text \in {list[q], Shell} :
       Write(q, report, [report EXCEPT ![run[q]] = text], "ana_finish", "ana_finish")
  /\ UNCHANGED <<runs, rivals, local, history, clock, crashes>>

\* The report on the task's own list, or the shell when synthesis degraded.
SaveReport(q) ==
  /\ pc[q] = "ana_save"
  /\ \E text \in {list[q], Shell} :
       Write(q, report, [report EXCEPT ![run[q]] = text], "ana_finish", "ana_fail")
  /\ UNCHANGED <<runs, rivals, local, history, clock, crashes>>

\* finish_run; what follows it in the task is swallowed when it fails.
FinishRun(q) ==
  /\ pc[q] = "ana_finish"
  /\ clock' = clock + 1
  /\ Write(q, runs, [runs EXCEPT ![run[q]] =
                       [status |-> "completed", error |-> @.error, finished |-> clock + 1]],
           "done", "ana_fail")
  /\ UNCHANGED <<rivals, report, local, history, crashes>>

-----------------------------------------------------------------------------
\* The process is killed: every handler and task in flight is gone, the
\* database stays.  Requests that have not arrived find the restarted process.
Restart ==
  /\ crashes < MaxCrashes
  /\ crashes' = crashes + 1
  /\ pc' = [q \in Requests |-> IF pc[q] \in Ends \cup {"idle"} THEN pc[q] ELSE "killed"]
  /\ UNCHANGED <<tables, local, history, clock, failing>>

Discovery(q) == \/ DiscoveryEmitter(q) \/ BeginDiscovery(q) \/ DiscoverRivals(q)
                \/ Park(q) \/ AnnounceDiscovery(q)
Analysis(q)  == \/ AnalysisEmitter(q) \/ BeginAnalysis(q) \/ RunAgents(q)
                \/ SaveReport(q) \/ FinishRun(q)

\* A request that has arrived keeps running (the thread pool schedules it).
Continue(q) == \/ Discovery(q) \/ Analysis(q) \/ FailRun(q)
               \/ ReplaceAndLaunch(q) \/ CreateRefreshRun(q)

Arrive == \/ \E q \in Analyzes : StartRun(q)
          \/ \E q \in Confirms : Confirm(q) \/ Refuse(q)
          \/ \E q \in Refreshes : ReadLatest(q) \/ RefuseRefresh(q)

Next == \/ Arrive
        \/ \E q \in Requests : Continue(q)
        \/ Restart

Spec     == Init /\ [][Next]_vars
FairSpec == Spec /\ \A q \in Requests : WF_vars(Continue(q))

-----------------------------------------------------------------------------
(* Properties. *)

InProgress == {"queued", "running_discovery", "confirmed", "running_analysis"}
Running(q) == pc[q] \notin Ends \cup {"idle"}
Attended(r) == \E q \in Requests : run[q] = r /\ Running(q)

\* The calls outside every try block: those of the handlers, _emitter, fail_run.
Unguarded == {"idle", "conf_replace", "ref_create", "ref_replace",
              "disc_emitter", "ana_emitter", "disc_fail", "ana_fail"}

\* A request of the run was killed, or one of those calls of it raised.
Abandoned(r) ==
  \E q \in Requests :
    run[q] = r /\ (pc[q] = "killed" \/ (pc[q] = "raised" /\ escaped[q] \in Unguarded))

\* However many callers confirm a run, and whatever fails, the agents are
\* launched at most once for it (the compare-and-swap of confirm_run).
LaunchedAtMostOnce == \A r \in Runs : launches[r] <= 1

\* A run under analysis, or analysed, has exactly the approved list stored:
\* nothing that discovery proposed and the user removed is left over, and a
\* report is about that list or is the degraded shell.
AnalysedListIsApproved ==
  \A r \in Runs :
    /\ runs[r].status \in {"running_analysis", "completed"} =>
         approved[r] # NoList /\ rivals[r] = approved[r]
    /\ report[r] # NoReport => report[r] \in {approved[r], Shell}

\* Every approved list, those of refreshed runs included, is one that some
\* confirm request won the gate of a run with: only a user picks rivals.
ApprovalsAreHuman ==
  \A r \in Runs : approved[r] # NoList =>
    \E c \in Confirms : run[c] # NoRun /\ approved[run[c]] = list[c] /\ list[c] = approved[r]

\* The poller is given the run_id of a completed run, and GET /reports on it
\* answers: the report was stored before the status was flipped.
CompletedHasReport ==
  \A r \in Runs : runs[r].status = "completed" => report[r] # NoReport

\* No exception inside the try blocks of the two tasks leaves a run in progress with
\* nobody working on it: it reaches fail_run.  Exempt are the runs of which a request
\* was killed with the process, or raised where no try block is: in a handler, in
\* _emitter, or in fail_run itself.  Those may stay in progress for ever.
InProgressHasWorker ==
  \A r \in Runs : runs[r].status \in InProgress => Attended(r) \/ Abandoned(r)

Rank == [none |-> 0, queued |-> 1, running_discovery |-> 2, awaiting_confirmation |-> 3,
         confirmed |-> 4, running_analysis |-> 5, completed |-> 6, failed |-> 7]

\* The two tasks of a run write its status without looking at it, and may
\* overlap; still no write takes a run back to an earlier phase, so the gate
\* never opens twice.  Only a late fail_run can be overwritten, by the analysis.
PhaseNeverRewinds ==
  [][\A r \in Runs :
       LET before == runs[r].status  after == runs[r].status'
       IN IF before = "failed"
          THEN after \in {"failed", "running_analysis", "completed"}
          ELSE Rank[before] <= Rank[after]]_vars

\* Every run in progress is eventually parked at the gate, completed or failed,
\* or it is abandoned as above: the poller never polls for ever on a task that runs.
RunsSettle ==
  \A r \in Runs : runs[r].status \in InProgress
                  ~> runs[r].status \notin InProgress \/ Abandoned(r)

Gate == INSTANCE HumanGate WITH
          launched <- {r \in Runs : launches[r] > 0}

\* The requests, the tasks and their failures implement the human gate.
ImplementsHumanGate == Gate!Spec

-----------------------------------------------------------------------------
(* The inductive invariants behind the safety properties. *)

\* Each request stays in its own part of the program, with a run to work on.
SitesInv ==
  /\ \A r \in Runs : run[r] = r
  /\ \A q \in Requests : pc[q] \in Ends \cup {"idle"} \/ run[q] \in Runs
  /\ \A q \in Analyzes : pc[q] \in {"idle"} \cup DiscoverySites \cup Ends
  /\ \A q \in Confirms \cup Refreshes : pc[q] \notin DiscoverySites
  /\ \A q \in Confirms : pc[q] \notin {"ref_create", "ref_replace"}
  /\ \A q \in Refreshes : pc[q] # "conf_replace"

\* A task about to finish has stored its report.
ReportInv ==
  /\ CompletedHasReport
  /\ \A q \in Requests : pc[q] = "ana_finish" => report[run[q]] # NoReport

PreGate == {"idle", "disc_emitter", "disc_begin", "disc_agents", "disc_park"}
Early   == {"none", "queued", "running_discovery", "awaiting_confirmation"}

\* The gate of an analysis run has at most one winner; before there is one,
\* nothing was approved or launched, and from then on discovery has written
\* every status but a failure.  A refreshed run has no gate.
GateInv ==
  /\ \A c \in Confirms : pc[c] = "idle" => run[c] = NoRun
  /\ \A c, d \in Confirms : run[c] = run[d] /\ run[c] # NoRun => c = d
  /\ \A c \in Confirms : run[c] # NoRun =>
       /\ run[c] \in Analyzes
       /\ runs[run[c]].status \notin Early
       /\ pc[run[c]] \notin PreGate
       /\ launches[run[c]] <= 1
       /\ pc[c] = "conf_replace" => launches[run[c]] = 0
  /\ \A r \in Analyzes : (\A c \in Confirms : run[c] # r) => launches[r] = 0
  /\ \A r \in Analyzes : pc[r] \in PreGate => runs[r].status \in Early \ {"awaiting_confirmation"}
  /\ \A r \in Refreshes :
       /\ runs[r].status # "awaiting_confirmation"
       /\ launches[r] <= 1
       /\ pc[r] \in {"idle", "ref_create", "ref_replace"} => launches[r] = 0

\* A list that a confirm request won the gate of some run with.
Human(l) == \E c \in Confirms : run[c] # NoRun /\ approved[run[c]] = list[c] /\ list[c] = l

\* The list of a run is fixed once, by the winner of its gate or by the refresh
\* that creates it, which holds the list of a completed run; a task works on
\* the list its run has stored.
ListInv ==
  /\ AnalysedListIsApproved
  /\ \A r \in Runs : approved[r] # NoList => Human(approved[r])
  /\ \A r \in Runs : report[r] # NoReport => approved[r] # NoList
  /\ \A c \in Confirms : run[c] # NoRun => approved[run[c]] = list[c]
  /\ \A r \in Analyzes : approved[r] # NoList => \E c \in Confirms : run[c] = r
  /\ \A q \in Refreshes :
       /\ pc[q] \in {"idle", "ref_create"} => approved[q] = NoList
       /\ pc[q] = "ref_create" => Human(list[q])
       /\ pc[q] \in {"ref_replace"} \cup AnalysisSites => approved[q] = list[q]
  /\ \A q \in Requests : pc[q] \in AnalysisSites => rivals[run[q]] = list[q]

\* What a task finds in the status column where it writes it without a look.
PhaseInv ==
  /\ \A r \in Runs : pc[r] \in {"idle", "ref_create"} => runs[r].status = "none"
  /\ \A r \in Analyzes :
       /\ pc[r] \in {"disc_emitter", "disc_begin"} => runs[r].status = "queued"
       /\ pc[r] \in {"disc_agents", "disc_park"} => runs[r].status = "running_discovery"
  /\ \A q \in Requests \ Analyzes :
       pc[q] \in {"conf_replace", "ref_replace", "ana_emitter", "ana_begin"} =>
         runs[run[q]].status # "completed"

\* A refresh holds the list of a reported run; a task that was launched has not
\* published until it saves.
TaskInv ==
  /\ \A q \in Refreshes : pc[q] = "ref_create" =>
       \E s \in Runs : report[s] # NoReport /\ approved[s] = list[q]
  /\ \A q \in Requests \ Analyzes :
       /\ pc[q] \in {"conf_replace", "ref_replace", "ana_emitter", "ana_begin", "ana_agents",
                     "ana_save"} => report[run[q]] = NoReport
       /\ pc[q] \in AnalysisSites => launches[run[q]] > 0

\* Who is answerable for a run in progress: a request that works on it, or was lost
\* on the way.  One that only announces the end of discovery does not count.
Answers(q, r) == run[q] = r /\ pc[q] \notin {"idle", "done", "rejected", "disc_announce"}

WorkerInv ==
  \A r \in Runs : runs[r].status \in InProgress => \E q \in Requests : Answers(q, r)

\* What leaves a request was raised outside the try blocks.
EscapesInv == \A q \in Requests : pc[q] = "raised" => escaped[q] \in Unguarded
=============================================================================
