---------------------------- MODULE AnalysisGraph ----------------------------
(***************************************************************************)
(* The graph of an analysis: news, product and review gather in parallel,  *)
(* merge turns what they found into evidence rows, the strategist writes a *)
(* report that cites them, validate lets it pass, repairs it once or drops *)
(* it, and the task stores the report or a degraded shell.                 *)
(*                                                                         *)
(* Every node runs inside a boundary that turns an exception into a typed  *)
(* empty value and a finding; but the boundary itself writes events to the *)
(* database, and when such a write raises the whole graph fails.           *)
(* Several runs execute at once and share the evidence table, whose ids    *)
(* are short and random: an id may have been taken by another run.         *)
(***************************************************************************)
EXTENDS Naturals, FiniteSets, Functions

CONSTANTS
  Runs,       \* analyses under way
  Intel,      \* results the gathering agents may return
  Agent,      \* the agent each result comes from
  Sources,    \* the urls each result rests on
  LowSignal,  \* the results whose low_signal flag is set
  Ids,        \* the evidence ids
  None,       \* no row, no index entry
  NoReport,
  MaxFaults   \* bound on the database calls that raise

Gatherers == {"news", "product", "review"}
Nodes     == Gatherers \cup {"merge", "strategist", "analysis"}
Urls      == UNION {Sources[i] : i \in Intel}

ASSUME IntelAssumption ==
  /\ Agent \in [Intel -> Gatherers]
  /\ DOMAIN Sources = Intel
  /\ LowSignal \subseteq Intel
  /\ \A i \in Intel : Agent[i] = "news" /\ Sources[i] = {} => i \in LowSignal
ASSUME NoneAssumption ==
  /\ None \notin Urls
  /\ \A r \in Runs, u \in Urls : None # [run |-> r, url |-> u]
ASSUME FaultsAssumption == MaxFaults \in Nat

\* A report: it passes the sanity checks, the evidence ids that its items
\* cite, and the nodes that its low_signal_findings mention.
Report == [sound : BOOLEAN, cites : SUBSET Ids, findings : SUBSET Nodes]

ASSUME NoReportAssumption == NoReport \notin Report

VARIABLES
  evidence,   \* table evidence: run and url of each id
  signals,    \* table signals: the results stored for each run
  saved,      \* table reports
  stage,      \* where each analysis is
  running,    \* gathering agents that have not returned
  results,    \* state of the graph: what the agents found
  todo,       \* merge: results it has not fused yet
  index,      \* evidence index: url behind each id of the run
  told,       \* nodes named in the findings that merge hands the strategist
  findings,   \* nodes named in the low_signal_findings of the graph
  report,     \* state of the graph: the report
  faults

tables == <<evidence, signals, saved>>
vars   == <<tables, stage, running, results, todo, index, told, findings, report, faults>>

Stages == {"gather", "merge", "strategist", "validate", "outer", "returned",
           "saved", "raised"}

TypeOK ==
  /\ evidence \in [Ids -> {None} \cup [run : Runs, url : Urls]]
  /\ signals \in [Runs -> SUBSET Intel]
  /\ saved \in [Runs -> {NoReport} \cup Report]
  /\ stage \in [Runs -> Stages]
  /\ running \in [Runs -> SUBSET Gatherers]
  /\ results \in [Runs -> SUBSET Intel]
  /\ todo \in [Runs -> SUBSET Intel]
  /\ index \in [Runs -> [Ids -> {None} \cup Urls]]
  /\ told \in [Runs -> SUBSET Nodes]
  /\ findings \in [Runs -> SUBSET Nodes]
  /\ report \in [Runs -> {NoReport} \cup Report]
  /\ faults \in 0..MaxFaults

Empty == [id \in Ids |-> None]

Init ==
  /\ evidence = Empty
  /\ signals = [r \in Runs |-> {}]
  /\ saved = [r \in Runs |-> NoReport]
  /\ stage = [r \in Runs |-> "gather"]
  /\ running = [r \in Runs |-> Gatherers]
  /\ results = [r \in Runs |-> {}]
  /\ todo = [r \in Runs |-> {}]
  /\ index = [r \in Runs |-> Empty]
  /\ told = [r \in Runs |-> {}]
  /\ findings = [r \in Runs |-> {}]
  /\ report = [r \in Runs |-> NoReport]
  /\ faults = 0

Goto(r, s) == stage' = [stage EXCEPT ![r] = s]

\* Mutant: a finding names the lane of the events instead of the node.
FindLane(r, nodes) ==
  findings' = [findings EXCEPT ![r] = @ \cup {IF n = "review" THEN "reviews" ELSE n : n \in nodes}]

Find(r, nodes) == findings' = [findings EXCEPT ![r] = @ \cup nodes]
Raise == faults < MaxFaults /\ faults' = faults + 1

-----------------------------------------------------------------------------
(* The gathering agents, in parallel. *)

Gather(r, g) ==
  /\ g \in running[r]
  /\ \E found \in SUBSET {i \in Intel : Agent[i] = g} :
       results' = [results EXCEPT ![r] = @ \cup found]
  /\ running' = [running EXCEPT ![r] = @ \ {g}]
  /\ UNCHANGED <<tables, stage, todo, index, told, findings, report, faults>>

\* The agent raises, or returns something that is not a list.
Degrade(r, g) ==
  /\ g \in running[r]
  /\ running' = [running EXCEPT ![r] = @ \ {g}]
  /\ Find(r, {g})
  /\ UNCHANGED <<tables, stage, results, todo, index, told, report, faults>>

\* Mutant: merge waits for one branch instead of all.
JoinFirst(r) ==
  /\ stage[r] = "gather"
  /\ running[r] # Gatherers
  /\ Goto(r, "merge")
  /\ todo' = [todo EXCEPT ![r] = results[r]]
  /\ UNCHANGED <<tables, running, results, index, told, findings, report, faults>>

Join(r) ==
  /\ stage[r] = "gather"
  /\ running[r] = {}
  /\ Goto(r, "merge")
  /\ todo' = [todo EXCEPT ![r] = results[r]]
  /\ UNCHANGED <<tables, running, results, index, told, findings, report, faults>>

-----------------------------------------------------------------------------
(* merge. *)

Known(r) == {id \in Ids : index[r][id] # None}

\* Mutant: a conflicting insert takes the row over.
Upserted(r, ids, url) ==
  [id \in Ids |-> IF id \in ids THEN [run |-> r, url |-> url[id]] ELSE evidence[id]]

\* INSERT ... ON CONFLICT (id) DO NOTHING.
Inserted(r, ids, url) ==
  [id \in Ids |-> IF id \in ids /\ evidence[id] = None
                  THEN [run |-> r, url |-> url[id]] ELSE evidence[id]]

\* Each source of a result gets a random id, an entry of the
\* index and, unless the write fails, a row; then the result becomes a signal.
\* Failed writes are swallowed.  Ids of one run are taken to differ from each
\* other: it draws a hundred of four billion, the table holds all runs.
Drawn(i, id) == {id[u] : u \in Sources[i]}
UrlOf(i, id) == [n \in Drawn(i, id) |-> CHOOSE u \in Sources[i] : id[u] = n]

Fuse(r) ==
  /\ stage[r] = "merge"
  /\ \E i \in todo[r] : \E id \in Injection(Sources[i], Ids \ Known(r)) :
       /\ index' = [index EXCEPT ![r] =
                      [n \in Ids |-> IF n \in Drawn(i, id) THEN UrlOf(i, id)[n] ELSE @[n]]]
       /\ todo' = [todo EXCEPT ![r] = @ \ {i}]
       /\ \E stored \in SUBSET Drawn(i, id), sig \in SUBSET {i} :
            /\ evidence' = Inserted(r, stored, UrlOf(i, id))
            /\ signals' = [signals EXCEPT ![r] = @ \cup sig]
            /\ IF stored = Drawn(i, id) /\ sig = {i} THEN UNCHANGED faults ELSE Raise
  /\ UNCHANGED <<saved, stage, running, results, told, findings, report>>

FinishMerge(r) ==
  /\ stage[r] = "merge" /\ todo[r] = {}
  /\ Goto(r, "strategist")
  /\ LET low == {Agent[i] : i \in results[r] \cap LowSignal}
     IN told' = [told EXCEPT ![r] = low] /\ Find(r, low)
  /\ UNCHANGED <<tables, running, results, todo, index, report, faults>>

\* Its last statement before returning, an event write, raises: the boundary
\* substitutes an empty UnifiedSignals; the rows stay in the tables.
MergeFails(r) ==
  /\ stage[r] = "merge" /\ todo[r] = {}
  /\ Raise
  /\ Goto(r, "strategist")
  /\ index' = [index EXCEPT ![r] = Empty]
  /\ Find(r, {"merge"})
  /\ UNCHANGED <<tables, running, results, todo, told, report>>

-----------------------------------------------------------------------------
(* strategist and validate. *)

\* Mutant: a citation is known when any run has stored it.
KnownSomewhere(r, cited) == cited \cap {id \in Ids : evidence[id] # None}

\* _clean_cited: ids the index of the run does not have are stripped.
CleanCited(r, cited) == cited \cap Known(r)

\* Without an answer of the model the report claims nothing.
Degraded(r) == [sound |-> TRUE, cites |-> {}, findings |-> told[r] \cup {"strategist"}]

\* What a call of the strategist may return: the model cites any ids and may
\* write debris.
Syntheses(r) ==
  {[sound |-> s, cites |-> CleanCited(r, ids), findings |-> told[r]] :
      s \in BOOLEAN, ids \in SUBSET Ids}
  \cup {Degraded(r)}

Sound(text) == text # NoReport /\ text.sound

Synthesise(r) ==
  /\ stage[r] = "strategist"
  /\ Goto(r, "validate")
  /\ \E text \in Syntheses(r) : report' = [report EXCEPT ![r] = text]
  /\ UNCHANGED <<tables, running, results, todo, index, told, findings, faults>>

StrategistFails(r) ==
  /\ stage[r] = "strategist"
  /\ Raise
  /\ Goto(r, "validate")
  /\ Find(r, {"strategist"})
  /\ UNCHANGED <<tables, running, results, todo, index, told, report>>

Accept(r) ==
  /\ stage[r] = "validate" /\ Sound(report[r])
  /\ Goto(r, "returned")
  /\ UNCHANGED <<tables, running, results, todo, index, told, findings, report, faults>>

\* Mutant: a report that fails the checks is synthesised until one passes.
RepairForEver(r) ==
  /\ stage[r] = "validate" /\ ~Sound(report[r])
  /\ Goto(r, "strategist")
  /\ UNCHANGED <<tables, running, results, todo, index, told, findings, report, faults>>

\* Mutant: the second report is not checked.
RepairOnTrust(r) ==
  /\ stage[r] = "validate" /\ ~Sound(report[r])
  /\ Goto(r, "returned")
  /\ \E second \in Syntheses(r) : report' = [report EXCEPT ![r] = second]
  /\ UNCHANGED <<tables, running, results, todo, index, told, findings, faults>>

\* Exactly one repair; a second report that fails the checks is dropped (so is
\* a second call that raises: the same outcome).
Repair(r) ==
  /\ stage[r] = "validate" /\ ~Sound(report[r])
  /\ Goto(r, "returned")
  /\ \E second \in Syntheses(r) :
       IF Sound(second)
       THEN report' = [report EXCEPT ![r] = second] /\ UNCHANGED findings
       ELSE report' = [report EXCEPT ![r] = NoReport] /\ Find(r, {"strategist"})
  /\ UNCHANGED <<tables, running, results, todo, index, told, faults>>

-----------------------------------------------------------------------------
(* The outer boundary, and the end of the task. *)

\* An event write of a node boundary, or of validate, raises: the graph fails,
\* and what its branches return is dropped.
Escape(r) ==
  /\ stage[r] \in {"gather", "merge", "strategist", "validate"}
  /\ Raise
  /\ Goto(r, "outer")
  /\ running' = [running EXCEPT ![r] = {}]
  /\ UNCHANGED <<tables, results, todo, index, told, findings, report>>

\* run_analysis returns the state it was given, unless its own event raises.
OuterBoundary(r) ==
  /\ stage[r] = "outer"
  /\ \/ /\ Goto(r, "returned")
        /\ report' = [report EXCEPT ![r] = NoReport]
        /\ findings' = [findings EXCEPT ![r] = {"analysis"}]
        /\ UNCHANGED faults
     \/ Raise /\ Goto(r, "raised") /\ UNCHANGED <<findings, report>>
  /\ UNCHANGED <<tables, running, results, todo, index, told>>

Shell(r) == [sound |-> TRUE, cites |-> {},
             findings |-> IF findings[r] = {} THEN {"analysis"} ELSE findings[r]]

\* The report, or the shell with the findings of the graph; when the save
\* raises, or the event that announces the shell, the run fails.
SaveReport(r) ==
  /\ stage[r] = "returned"
  /\ LET stored == [saved EXCEPT ![r] = IF report[r] = NoReport THEN Shell(r) ELSE report[r]]
     IN \/ saved' = stored /\ Goto(r, "saved") /\ UNCHANGED faults
        \/ saved' \in {saved, stored} /\ Goto(r, "raised") /\ Raise
  /\ UNCHANGED <<evidence, signals, running, results, todo, index, told, findings, report>>

Step(r) == \/ \E g \in Gatherers : Gather(r, g) \/ Degrade(r, g)
           \/ Join(r) \/ Fuse(r) \/ FinishMerge(r) \/ MergeFails(r)
           \/ Synthesise(r) \/ StrategistFails(r) \/ Accept(r) \/ Repair(r)
           \/ Escape(r) \/ OuterBoundary(r) \/ SaveReport(r)

Next == \E r \in Runs : Step(r)

Spec     == Init /\ [][Next]_vars
FairSpec == Spec /\ \A r \in Runs : WF_vars(Step(r))

-----------------------------------------------------------------------------
(* Properties. *)

\* The two readers of cited ids.  GET /evidence-refs: the row of an id, if it belongs
\* to the run asked about.
Drawer(r, id) == {row \in {evidence[id]} \ {None} : row.run = r}

\* GET /export: the row of an id, whichever run it belongs to.
Exported(id) == {evidence[id]} \ {None}

\* An id cited by a stored report comes from the evidence index of its run, and
\* what the drawer shows for it is the source that merge cited, or nothing, never a
\* row of another run, even when the two runs drew the same id.  The export may then
\* print the row of the other run: but only what that run found under that very id,
\* unless its merge failed and lost its index.
CitationsLeadToTheirSource ==
  \A r \in Runs : saved[r] # NoReport =>
    \A id \in saved[r].cites :
      /\ id \in Known(r)
      /\ \A row \in Drawer(r, id) : row.url = index[r][id]
      /\ \A row \in Exported(id) : index[row.run] = Empty \/ index[row.run][id] = row.url

\* A row of the evidence table is never changed: the reports that cite it are
\* already out.
RowsAreNeverTaken == [][\A id \in Ids : evidence[id] # None => evidence'[id] = evidence[id]]_vars

\* The strategist is given every source that any branch found, unless merge
\* itself degraded or the graph failed: merge starts after the last branch.
EverySourceIsFused ==
  \A r \in Runs :
    stage[r] \in {"validate", "returned", "saved"} /\ findings[r] \cap {"merge", "analysis"} = {} =>
      \A i \in results[r] : \A u \in Sources[i] : \E id \in Ids : index[r][id] = u

\* Model debris never reaches the reader, whichever attempt produced it.
DebrisIsNeverSaved == \A r \in Runs : saved[r] # NoReport => saved[r].sound

\* Every analysis ends, with a stored report or as a failed run.
AnalysesEnd == \A r \in Runs : <>(stage[r] \in {"saved", "raised"})

\* Claims of the documentation.

\* PRODUCTION_READINESS.md: failures are visible in the report; a gathering
\* agent that failed or found nothing is in the findings of the stored report.
FailuresAreVisible ==
  \A r \in Runs : stage[r] = "saved" => findings[r] \cap Gatherers \subseteq saved[r].findings

-----------------------------------------------------------------------------
(* The inductive invariant behind CitationsLeadToTheirSource. *)

\* Until merge is over there is no report to cite anything.
StagesInv ==
  \A r \in Runs : stage[r] \in {"gather", "merge", "strategist"} =>
    report[r] = NoReport /\ saved[r] = NoReport

\* Reports cite the index of their run, which no longer changes.
CitesInv ==
  \A r \in Runs :
    /\ report[r] # NoReport => report[r].cites \subseteq Known(r)
    /\ saved[r] # NoReport => saved[r].cites \subseteq Known(r)

\* A row agrees with the index of its run, unless merge failed and lost it.
RowsInv ==
  \A r \in Runs, id \in Ids : evidence[id] # None /\ evidence[id].run = r =>
    \/ index[r][id] = evidence[id].url
    \/ index[r] = Empty /\ stage[r] \notin {"gather", "merge"}

(* Those behind DebrisIsNeverSaved and EverySourceIsFused. *)

\* What leaves validate has passed the checks, and the outer boundary drops the rest.
SoundInv ==
  \A r \in Runs :
    /\ stage[r] = "returned" => report[r] = NoReport \/ report[r].sound
    /\ saved[r] # NoReport => saved[r].sound

\* The index of the run has all the sources of a result.
Fused(r, i) == \A u \in Sources[i] : \E id \in Ids : index[r][id] = u

\* Merge starts after the last branch, and works off what the branches found.
FusedInv ==
  \A r \in Runs :
    /\ stage[r] # "gather" => running[r] = {}
    /\ stage[r] = "merge" => \A i \in results[r] \ todo[r] : Fused(r, i)
    /\ /\ stage[r] \in {"strategist", "validate", "returned", "saved"}
       /\ findings[r] \cap {"merge", "analysis"} = {}
       => \A i \in results[r] : Fused(r, i)
=============================================================================
