------------------------- MODULE AnalysisGraphProofs -------------------------
(***************************************************************************)
(* Theorems about AnalysisGraph, for any number of concurrent runs, any    *)
(* results and ids, and any number of failing database calls.              *)
(***************************************************************************)
EXTENDS AnalysisGraph, TLAPS

-----------------------------------------------------------------------------
(* Type correctness. *)

\* A record of a report.
LEMMA ReportOf ==
  ASSUME NEW s \in BOOLEAN, NEW c \in SUBSET Ids, NEW f \in SUBSET Nodes
  PROVE  /\ [sound |-> s, cites |-> c, findings |-> f] \in Report
         /\ [sound |-> s, cites |-> c, findings |-> f].cites = c
BY DEF Report

\* What the strategist returns is a report that cites known ids.
LEMMA SynthesesAreReports ==
  ASSUME TypeOK, NEW r \in Runs, NEW text \in Syntheses(r)
  PROVE  text \in Report /\ text.cites \subseteq Known(r) /\ text # NoReport
<1>1. told[r] \cup {"strategist"} \in SUBSET Nodes
  BY DEF TypeOK, Nodes
<1>2. \A ids \in SUBSET Ids : CleanCited(r, ids) \subseteq Known(r) /\ CleanCited(r, ids) \subseteq Ids
  BY DEF CleanCited, Known
<1>3. ASSUME \E s \in BOOLEAN, ids \in SUBSET Ids :
               text = [sound |-> s, cites |-> CleanCited(r, ids), findings |-> told[r]]
      PROVE  text \in Report /\ text.cites \subseteq Known(r)
  <2>1. PICK s \in BOOLEAN, ids \in SUBSET Ids :
          text = [sound |-> s, cites |-> CleanCited(r, ids), findings |-> told[r]]
    BY <1>3
  <2>2. CleanCited(r, ids) \in SUBSET Ids /\ CleanCited(r, ids) \subseteq Known(r)
    BY <1>2
  <2>3. told[r] \in SUBSET Nodes
    BY DEF TypeOK
  <2>4. QED
    BY <2>1, <2>2, <2>3, ReportOf
<1>4. ASSUME text = Degraded(r)
      PROVE  text \in Report /\ text.cites \subseteq Known(r)
  <2>1. text.cites = {}
    BY <1>4 DEF Degraded
  <2>2. QED
    BY <1>1, <1>4, <2>1, ReportOf DEF Degraded
<1>5. text \in Report /\ text.cites \subseteq Known(r)
  BY <1>3, <1>4 DEF Syntheses
<1>6. QED
  BY <1>5, NoReportAssumption

\* Each id that Fuse draws was unknown, and stands for one of the sources.
LEMMA DrawnIds ==
  ASSUME TypeOK, NEW r \in Runs, NEW i \in todo[r],
         NEW id \in Injection(Sources[i], Ids \ Known(r))
  PROVE  /\ Drawn(i, id) \subseteq Ids \ Known(r)
         /\ UrlOf(i, id) \in [Drawn(i, id) -> Urls]
         /\ None \notin Urls
<1>1. i \in Intel
  BY DEF TypeOK
<1>2. id \in [Sources[i] -> Ids \ Known(r)]
  BY DEF Injection
<1>3. ASSUME NEW n \in Drawn(i, id) PROVE UrlOf(i, id)[n] \in Urls
  <2>1. PICK u \in Sources[i] : id[u] = n
    BY DEF Drawn
  <2>2. (CHOOSE v \in Sources[i] : id[v] = n) \in Sources[i]
    BY <2>1
  <2>3. QED
    BY <1>1, <2>2 DEF Urls, UrlOf
<1>4. Drawn(i, id) \subseteq Ids \ Known(r)
  BY <1>2 DEF Drawn
<1>5. UrlOf(i, id) \in [Drawn(i, id) -> Urls]
  BY <1>3 DEF UrlOf
<1>6. QED
  BY <1>4, <1>5, NoneAssumption

\* What a step of merge does to the index and to the evidence table.
LEMMA FuseStep ==
  ASSUME TypeOK, NEW r \in Runs, Fuse(r)
  PROVE  \E new \in SUBSET (Ids \ Known(r)) : \E url \in [new -> Urls] : \E stored \in SUBSET new :
           /\ index' = [index EXCEPT ![r] = [n \in Ids |-> IF n \in new THEN url[n] ELSE index[r][n]]]
           /\ evidence' = Inserted(r, stored, url)
<1>1. PICK i \in todo[r] : \E id \in Injection(Sources[i], Ids \ Known(r)) :
        /\ index' = [index EXCEPT ![r] =
             [n \in Ids |-> IF n \in Drawn(i, id) THEN UrlOf(i, id)[n] ELSE @[n]]]
        /\ \E stored \in SUBSET Drawn(i, id) : evidence' = Inserted(r, stored, UrlOf(i, id))
  BY DEF Fuse
<1>2. PICK id \in Injection(Sources[i], Ids \ Known(r)) :
        /\ index' = [index EXCEPT ![r] =
             [n \in Ids |-> IF n \in Drawn(i, id) THEN UrlOf(i, id)[n] ELSE @[n]]]
        /\ \E stored \in SUBSET Drawn(i, id) : evidence' = Inserted(r, stored, UrlOf(i, id))
  BY <1>1
<1>3. PICK stored \in SUBSET Drawn(i, id) : evidence' = Inserted(r, stored, UrlOf(i, id))
  BY <1>2
<1>4. Drawn(i, id) \subseteq Ids \ Known(r) /\ UrlOf(i, id) \in [Drawn(i, id) -> Urls]
  BY DrawnIds
<1>. USE <1>4
<1>5. WITNESS Drawn(i, id) \in SUBSET (Ids \ Known(r))
<1>6. WITNESS UrlOf(i, id) \in [Drawn(i, id) -> Urls]
<1>7. WITNESS stored \in SUBSET Drawn(i, id)
<1>8. QED
  BY <1>2, <1>3, <1>4

\* Every variable keeps its type through every node, failure and save.
THEOREM TypeCorrect == Spec => []TypeOK
<1>1. Init => TypeOK
  BY FaultsAssumption DEF Init, TypeOK, Empty, Stages, Gatherers
<1>2. ASSUME TypeOK, [Next]_vars PROVE TypeOK'
  <2>. USE <1>2
  <2>1. ASSUME NEW r \in Runs, NEW g \in Gatherers, Gather(r, g) PROVE TypeOK'
    BY <2>1 DEF Gather, TypeOK, tables
  <2>2. ASSUME NEW r \in Runs, NEW g \in Gatherers, Degrade(r, g) PROVE TypeOK'
    BY <2>2 DEF Degrade, Find, Nodes, TypeOK, tables
  <2>3. ASSUME NEW r \in Runs, Join(r) PROVE TypeOK'
    BY <2>3 DEF Join, Goto, Stages, TypeOK, tables
  <2>4. ASSUME NEW r \in Runs, Fuse(r) PROVE TypeOK'
    <3>1. PICK new \in SUBSET (Ids \ Known(r)) : \E url \in [new -> Urls] :
            \E stored \in SUBSET new :
              /\ index' = [index EXCEPT ![r] =
                             [n \in Ids |-> IF n \in new THEN url[n] ELSE index[r][n]]]
              /\ evidence' = Inserted(r, stored, url)
      BY <2>4, FuseStep
    <3>2. PICK url \in [new -> Urls] : \E stored \in SUBSET new :
            /\ index' = [index EXCEPT ![r] =
                           [n \in Ids |-> IF n \in new THEN url[n] ELSE index[r][n]]]
            /\ evidence' = Inserted(r, stored, url)
      BY <3>1
    <3>3. [n \in Ids |-> IF n \in new THEN url[n] ELSE index[r][n]] \in [Ids -> {None} \cup Urls]
      BY DEF TypeOK
    <3>4. index' \in [Runs -> [Ids -> {None} \cup Urls]]
      BY <3>2, <3>3 DEF TypeOK
    <3>5. evidence' \in [Ids -> {None} \cup [run : Runs, url : Urls]]
      BY <3>2 DEF Inserted, TypeOK
    <3>6. todo' \in [Runs -> SUBSET Intel] /\ signals' \in [Runs -> SUBSET Intel]
      BY <2>4 DEF Fuse, TypeOK
    <3>7. faults' \in 0..MaxFaults
      BY <2>4, FaultsAssumption DEF Fuse, Raise, TypeOK
    <3>8. QED
      BY <2>4, <3>4, <3>5, <3>6, <3>7 DEF Fuse, TypeOK
  <2>5. ASSUME NEW r \in Runs, FinishMerge(r) PROVE TypeOK'
    <3>1. {Agent[i] : i \in results[r] \cap LowSignal} \subseteq Nodes
      BY IntelAssumption DEF TypeOK, Nodes
    <3>2. told' \in [Runs -> SUBSET Nodes] /\ findings' \in [Runs -> SUBSET Nodes]
      BY <2>5, <3>1 DEF FinishMerge, Find, TypeOK
    <3>3. QED
      BY <2>5, <3>2 DEF FinishMerge, Goto, Stages, TypeOK, tables
  <2>6. ASSUME NEW r \in Runs, MergeFails(r) PROVE TypeOK'
    BY <2>6, FaultsAssumption DEF MergeFails, Raise, Goto, Find, Empty, Nodes, Stages, TypeOK, tables
  <2>7. ASSUME NEW r \in Runs, Synthesise(r) PROVE TypeOK'
    <3>1. report' \in [Runs -> {NoReport} \cup Report]
      BY <2>7, SynthesesAreReports DEF Synthesise, TypeOK
    <3>2. QED
      BY <2>7, <3>1 DEF Synthesise, Goto, Stages, TypeOK, tables
  <2>8. ASSUME NEW r \in Runs, StrategistFails(r) PROVE TypeOK'
    BY <2>8, FaultsAssumption DEF StrategistFails, Raise, Goto, Find, Nodes, Stages, TypeOK, tables
  <2>9. ASSUME NEW r \in Runs, Accept(r) PROVE TypeOK'
    BY <2>9 DEF Accept, Goto, Stages, TypeOK, tables
  <2>10. ASSUME NEW r \in Runs, Repair(r) PROVE TypeOK'
    <3>1. PICK second \in Syntheses(r) :
            IF Sound(second)
            THEN report' = [report EXCEPT ![r] = second] /\ UNCHANGED findings
            ELSE report' = [report EXCEPT ![r] = NoReport] /\ Find(r, {"strategist"})
      BY <2>10 DEF Repair
    <3>2. second \in Report /\ {"strategist"} \subseteq Nodes
      BY SynthesesAreReports DEF Nodes
    <3>3. report' \in [Runs -> {NoReport} \cup Report] /\ findings' \in [Runs -> SUBSET Nodes]
      <4>1. CASE Sound(second)
        BY <3>1, <3>2, <4>1 DEF TypeOK
      <4>2. CASE ~Sound(second)
        <5>1. findings[r] \cup {"strategist"} \in SUBSET Nodes
          BY <3>2 DEF TypeOK
        <5>2. /\ report' = [report EXCEPT ![r] = NoReport]
              /\ findings' = [findings EXCEPT ![r] = @ \cup {"strategist"}]
          BY <3>1, <4>2 DEF Find
        <5>3. QED
          BY <5>1, <5>2 DEF TypeOK
      <4>3. QED
        BY <4>1, <4>2
    <3>4. QED
      BY <2>10, <3>3 DEF Repair, Goto, Stages, TypeOK, tables
  <2>11. ASSUME NEW r \in Runs, Escape(r) PROVE TypeOK'
    BY <2>11, FaultsAssumption DEF Escape, Raise, Goto, Stages, TypeOK, tables
  <2>12. ASSUME NEW r \in Runs, OuterBoundary(r) PROVE TypeOK'
    <3>. {"analysis"} \subseteq Nodes
      BY DEF Nodes
    <3>1. report' \in [Runs -> {NoReport} \cup Report] /\ findings' \in [Runs -> SUBSET Nodes]
      <4>1. CASE UNCHANGED <<findings, report>>
        BY <4>1 DEF TypeOK
      <4>2. CASE /\ report' = [report EXCEPT ![r] = NoReport]
                 /\ findings' = [findings EXCEPT ![r] = {"analysis"}]
        BY <4>2 DEF TypeOK
      <4>3. QED
        BY <2>12, <4>1, <4>2 DEF OuterBoundary
    <3>2. stage' \in [Runs -> Stages] /\ faults' \in 0..MaxFaults
      BY <2>12, FaultsAssumption DEF OuterBoundary, Raise, Goto, Stages, TypeOK
    <3>3. QED
      BY <2>12, <3>1, <3>2 DEF OuterBoundary, TypeOK, tables
  <2>13. ASSUME NEW r \in Runs, SaveReport(r) PROVE TypeOK'
    <3>1. Shell(r) \in Report
      BY DEF Shell, Report, Nodes, TypeOK
    <3>2. saved' \in [Runs -> {NoReport} \cup Report]
      BY <2>13, <3>1 DEF SaveReport, TypeOK
    <3>3. faults' \in 0..MaxFaults /\ stage' \in [Runs -> Stages]
      BY <2>13, FaultsAssumption DEF SaveReport, Raise, Goto, Stages, TypeOK
    <3>4. QED
      BY <2>13, <3>2, <3>3 DEF SaveReport, TypeOK
  <2>14. CASE UNCHANGED vars
    BY <2>14 DEF vars, tables, TypeOK
  <2>15. QED
    BY <2>1, <2>2, <2>3, <2>4, <2>5, <2>6, <2>7, <2>8, <2>9, <2>10, <2>11, <2>12,
       <2>13, <2>14 DEF Next, Step
<1>3. QED
  BY <1>1, <1>2, PTL DEF Spec
-----------------------------------------------------------------------------
(* Citations. *)

\* Outside merge neither the index nor the evidence table changes.
LEMMA MergeOwnsTheIndex ==
  ASSUME NEW r \in Runs, Step(r)
  PROVE  Fuse(r) \/ MergeFails(r) \/ UNCHANGED <<index, evidence>>
BY DEF Step, Gather, Degrade, Join, FinishMerge, Synthesise, StrategistFails, Accept,
       Repair, Escape, OuterBoundary, SaveReport, tables

\* A step of one run leaves the stage, the index and the reports of another.
LEMMA RunsAreApart ==
  ASSUME TypeOK, NEW r \in Runs, NEW s \in Runs, r # s, Step(r)
  PROVE  /\ stage'[s] = stage[s] /\ index'[s] = index[s]
         /\ report'[s] = report[s] /\ saved'[s] = saved[s]
BY DEF Step, Gather, Degrade, Join, Fuse, FinishMerge, MergeFails, Synthesise,
       StrategistFails, Accept, Repair, Escape, OuterBoundary, SaveReport, Goto, tables, TypeOK

\* A row of the evidence table is never changed, whatever ids the runs draw.
THEOREM RowsAreImmutable == Spec => RowsAreNeverTaken
<1>1. ASSUME TypeOK, [Next]_vars
      PROVE  [\A id \in Ids : evidence[id] # None => evidence'[id] = evidence[id]]_vars
  <2>1. ASSUME NEW r \in Runs, Fuse(r), NEW id \in Ids, evidence[id] # None
        PROVE  evidence'[id] = evidence[id]
    BY <1>1, <2>1, FuseStep DEF Inserted
  <2>2. ASSUME NEW r \in Runs, MergeFails(r) PROVE UNCHANGED evidence
    BY <2>2 DEF MergeFails, tables
  <2>3. CASE UNCHANGED vars
    BY <2>3
  <2>4. QED
    BY <1>1, <2>1, <2>2, <2>3, MergeOwnsTheIndex DEF Next
<1>2. QED
  BY <1>1, TypeCorrect, PTL DEF Spec, RowsAreNeverTaken

CitationInv == TypeOK /\ StagesInv /\ CitesInv /\ RowsInv

\* No report exists while merge still works on the index.
LEMMA StagesStep == ASSUME CitationInv, [Next]_vars PROVE StagesInv'
<1>. USE DEF CitationInv
<1>1. ASSUME NEW r \in Runs, Step(r), NEW s \in Runs,
             stage'[s] \in {"gather", "merge", "strategist"}
      PROVE  report'[s] = NoReport /\ saved'[s] = NoReport
  <2>1. CASE r = s
    BY <1>1, <2>1 DEF StagesInv, TypeOK, Step, Gather, Degrade, Join, Fuse, FinishMerge,
       MergeFails, Synthesise, StrategistFails, Accept, Repair, Escape, OuterBoundary,
       SaveReport, Goto, tables
  <2>2. CASE r # s
    BY <1>1, <2>2, RunsAreApart DEF StagesInv
  <2>3. QED
    BY <2>1, <2>2
<1>2. CASE UNCHANGED vars
  BY <1>2 DEF StagesInv, vars, tables
<1>3. QED
  BY <1>1, <1>2 DEF Next, StagesInv

\* Reports keep citing known ids: the index they cite is complete by then.
LEMMA CitesStep == ASSUME CitationInv, [Next]_vars PROVE CitesInv'
<1>. USE DEF CitationInv
<1>1. ASSUME NEW r \in Runs, Step(r), NEW s \in Runs
      PROVE  /\ report'[s] # NoReport => report'[s].cites \subseteq Known(s)'
             /\ saved'[s] # NoReport => saved'[s].cites \subseteq Known(s)'
  <2>1. CASE r # s
    BY <1>1, <2>1, RunsAreApart DEF CitesInv, Known
  <2>2. CASE r = s /\ (Fuse(r) \/ MergeFails(r))
    <3>1. stage[s] = "merge" /\ report' = report /\ saved' = saved
      BY <2>2 DEF Fuse, MergeFails, tables
    <3>2. QED
      BY <3>1 DEF StagesInv
  <2>3. CASE r = s /\ Synthesise(r)
    <3>1. PICK text \in Syntheses(r) : report' = [report EXCEPT ![r] = text]
      BY <2>3 DEF Synthesise
    <3>2. report'[s] = text /\ text.cites \subseteq Known(s)
      BY <2>3, <3>1, SynthesesAreReports DEF TypeOK
    <3>3. QED
      BY <2>3, <3>2 DEF Synthesise, CitesInv, Known, tables
  <2>4. CASE r = s /\ Repair(r)
    <3>1. PICK second \in Syntheses(r) : report'[s] \in {second, NoReport}
      BY <2>4 DEF Repair, TypeOK
    <3>2. second.cites \subseteq Known(s)
      BY <2>4, SynthesesAreReports
    <3>3. QED
      BY <2>4, <3>1, <3>2 DEF Repair, CitesInv, Known, tables
  <2>5. CASE r = s /\ SaveReport(r)
    <3>1. saved'[s] \in {saved[s], Shell(r), report[s]} /\ Shell(r).cites = {}
      <4>1. saved'[s] \in {saved[s], IF report[r] = NoReport THEN Shell(r) ELSE report[r]}
        BY <2>5 DEF SaveReport, TypeOK
      <4>2. Shell(r).cites = {}
        BY DEF Shell
      <4>3. QED
        BY <2>5, <4>1, <4>2
    <3>2. UNCHANGED <<report, index>>
      BY <2>5 DEF SaveReport
    <3>3. QED
      BY <3>1, <3>2 DEF CitesInv, Known
  <2>6. CASE r = s /\ OuterBoundary(r)
    BY <2>6 DEF OuterBoundary, TypeOK, CitesInv, Known, tables
  <2>7. CASE UNCHANGED <<report, saved, index>>
    BY <2>7 DEF CitesInv, Known
  <2>8. QED
    BY <1>1, <2>1, <2>2, <2>3, <2>4, <2>5, <2>6, <2>7 DEF Step, Gather, Degrade, Join,
       FinishMerge, StrategistFails, Accept, Escape, tables
<1>2. CASE UNCHANGED vars
  BY <1>2 DEF CitesInv, Known, vars, tables
<1>3. QED
  BY <1>1, <1>2 DEF Next, CitesInv

\* Rows keep agreeing with the index of their run.
LEMMA RowsStep == ASSUME CitationInv, [Next]_vars PROVE RowsInv'
<1>. USE DEF CitationInv
<1>1. ASSUME NEW r \in Runs, Step(r), NEW s \in Runs, NEW n \in Ids,
             evidence'[n] # None, evidence'[n].run = s
      PROVE  \/ index'[s][n] = evidence'[n].url
             \/ index'[s] = Empty /\ stage'[s] \notin {"gather", "merge"}
  <2>1. CASE Fuse(r)
    <3>1. PICK new \in SUBSET (Ids \ Known(r)) : \E url \in [new -> Urls] :
            \E stored \in SUBSET new :
              /\ index' = [index EXCEPT ![r] =
                             [m \in Ids |-> IF m \in new THEN url[m] ELSE index[r][m]]]
              /\ evidence' = Inserted(r, stored, url)
      BY <2>1, FuseStep
    <3>2. PICK url \in [new -> Urls], stored \in SUBSET new :
            /\ index' = [index EXCEPT ![r] =
                           [m \in Ids |-> IF m \in new THEN url[m] ELSE index[r][m]]]
            /\ evidence' = Inserted(r, stored, url)
      BY <3>1
    <3>3. index'[r] = [m \in Ids |-> IF m \in new THEN url[m] ELSE index[r][m]]
      BY <3>2 DEF TypeOK
    <3>4. stage' = stage /\ stage[r] = "merge"
      BY <2>1 DEF Fuse
    <3>5. CASE n \in stored /\ evidence[n] = None
      <4>1. evidence'[n] = [run |-> r, url |-> url[n]]
        BY <3>2, <3>5 DEF Inserted
      <4>2. s = r
        BY <1>1, <4>1
      <4>3. QED
        BY <3>3, <3>5, <4>1, <4>2
    <3>6. CASE ~(n \in stored /\ evidence[n] = None)
      <4>1. evidence'[n] = evidence[n]
        BY <3>2, <3>6 DEF Inserted
      <4>2. CASE s = r
        <5>1. index[r][n] = evidence[n].url
          BY <1>1, <3>4, <4>1, <4>2 DEF RowsInv
        <5>2. evidence[n].url \in Urls
          BY <1>1, <4>1 DEF TypeOK
        <5>3. n \notin new
          BY <5>1, <5>2, NoneAssumption DEF Known
        <5>4. QED
          BY <3>3, <4>1, <4>2, <5>1, <5>3
      <4>3. CASE s # r
        BY <1>1, <3>4, <4>1, <4>3, RunsAreApart DEF RowsInv, Empty
      <4>4. QED
        BY <4>2, <4>3
    <3>7. QED
      BY <3>5, <3>6
  <2>2. CASE MergeFails(r)
    <3>1. evidence' = evidence
      BY <2>2 DEF MergeFails, tables
    <3>2. CASE s = r
      BY <2>2, <3>2 DEF MergeFails, Goto, Empty, TypeOK
    <3>3. CASE s # r
      BY <1>1, <3>1, <3>3, RunsAreApart DEF RowsInv, Empty
    <3>4. QED
      BY <3>2, <3>3
  <2>3. CASE UNCHANGED <<index, evidence>>
    <3>1. stage[s] \notin {"gather", "merge"} => stage'[s] \notin {"gather", "merge"}
      <4>1. CASE r = s
        BY <1>1, <4>1 DEF TypeOK, Step, Gather, Degrade, Join, Fuse, FinishMerge, MergeFails,
           Synthesise, StrategistFails, Accept, Repair, Escape, OuterBoundary, SaveReport, Goto
      <4>2. CASE r # s
        BY <1>1, <4>2, RunsAreApart
      <4>3. QED
        BY <4>1, <4>2
    <3>2. QED
      BY <1>1, <2>3, <3>1 DEF RowsInv, Empty
  <2>4. QED
    BY <1>1, <2>1, <2>2, <2>3, MergeOwnsTheIndex
<1>2. CASE UNCHANGED vars
  BY <1>2 DEF RowsInv, Empty, vars, tables
<1>3. QED
  BY <1>1, <1>2 DEF Next, RowsInv, Empty

\* Whatever ids the runs draw and whichever writes fail, a report cites only its
\* own index, the drawer shows for a cited id the source that was cited or nothing,
\* and the export what the run that owns the row found under that id.
THEOREM CitationsAreHonest == Spec => []CitationsLeadToTheirSource
<1>1. Init => StagesInv /\ CitesInv /\ RowsInv
  BY DEF Init, StagesInv, CitesInv, RowsInv, Empty
<1>2. CitationInv /\ [Next]_vars => (StagesInv /\ CitesInv /\ RowsInv)'
  BY StagesStep, CitesStep, RowsStep
<1>3. CitationInv => CitationsLeadToTheirSource
  <2> SUFFICES ASSUME CitationInv, NEW r \in Runs, saved[r] # NoReport, NEW id \in saved[r].cites
               PROVE  /\ id \in Known(r)
                      /\ \A row \in Drawer(r, id) : row.url = index[r][id]
                      /\ \A row \in Exported(id) :
                           index[row.run] = Empty \/ index[row.run][id] = row.url
    BY DEF CitationsLeadToTheirSource
  <2>1. id \in Known(r) /\ id \in Ids /\ index[r][id] # None
    BY DEF CitationInv, CitesInv, Known
  <2>2. evidence[id] # None =>
          /\ evidence[id].run \in Runs
          /\ \/ index[evidence[id].run] = Empty
             \/ index[evidence[id].run][id] = evidence[id].url
    BY <2>1 DEF CitationInv, TypeOK, RowsInv
  <2>3. index[r] # Empty
    BY <2>1 DEF Empty
  <2>4. QED
    BY <2>1, <2>2, <2>3 DEF Drawer, Exported
<1>4. QED
  BY <1>1, <1>2, <1>3, TypeCorrect, PTL DEF Spec, CitationInv

-----------------------------------------------------------------------------
(* Debris. *)

\* What leaves validate is sound, on the first attempt or on the second.
LEMMA SoundStep == ASSUME TypeOK, SoundInv, [Next]_vars PROVE SoundInv'
<1>1. ASSUME NEW r \in Runs, Step(r), NEW s \in Runs
      PROVE  /\ stage'[s] = "returned" => report'[s] = NoReport \/ report'[s].sound
             /\ saved'[s] # NoReport => saved'[s].sound
  <2>0. /\ stage[s] = "returned" => report[s] = NoReport \/ report[s].sound
        /\ saved[s] # NoReport => saved[s].sound
    BY DEF SoundInv
  <2>1. CASE r # s
    BY <1>1, <2>0, <2>1, RunsAreApart
  <2>2. CASE r = s /\ Repair(r)
    <3>1. PICK second \in Syntheses(r) : report'[s] = IF Sound(second) THEN second ELSE NoReport
      BY <2>2 DEF Repair, TypeOK
    <3>2. saved' = saved
      BY <2>2 DEF Repair, tables
    <3>3. QED
      BY <2>0, <3>1, <3>2 DEF Sound
  <2>3. CASE r = s /\ SaveReport(r)
    <3>1. saved'[s] \in {saved[s], IF report[s] = NoReport THEN Shell(s) ELSE report[s]}
      BY <2>3 DEF SaveReport, TypeOK
    <3>2. stage[s] = "returned" /\ stage'[s] # "returned"
      BY <2>3 DEF SaveReport, Goto, TypeOK
    <3>3. Shell(s).sound
      BY DEF Shell
    <3>4. QED
      BY <2>0, <3>1, <3>2, <3>3
  <2>4. CASE r = s /\ OuterBoundary(r)
    BY <2>0, <2>4 DEF OuterBoundary, Goto, TypeOK, tables
  <2>5. CASE r = s /\ Accept(r)
    BY <2>0, <2>5 DEF Accept, Sound, Goto, TypeOK, tables
  <2>6. CASE r = s /\ UNCHANGED saved /\ stage'[s] # "returned"
    BY <2>0, <2>6
  <2>7. CASE r = s /\ UNCHANGED <<saved, report, stage>>
    BY <2>0, <2>7
  <2>8. QED
    BY <1>1, <2>1, <2>2, <2>3, <2>4, <2>5, <2>6, <2>7 DEF Step, Gather, Degrade, Join, Fuse,
       FinishMerge, MergeFails, Synthesise, StrategistFails, Escape, Goto, tables, TypeOK
<1>2. CASE UNCHANGED vars
  BY <1>2 DEF SoundInv, vars, tables
<1>3. QED
  BY <1>1, <1>2 DEF Next, SoundInv

\* No report with debris of the model is stored (DebrisIsNeverSaved), whichever
\* attempt produced it and whatever raises on the way.
THEOREM DebrisIsDropped == Spec => []DebrisIsNeverSaved
<1>1. Init => SoundInv
  BY DEF Init, SoundInv
<1>2. TypeOK /\ SoundInv /\ [Next]_vars => SoundInv'
  BY SoundStep
<1>3. SoundInv => DebrisIsNeverSaved
  BY DEF SoundInv, DebrisIsNeverSaved
<1>4. QED
  BY <1>1, <1>2, <1>3, TypeCorrect, PTL DEF Spec

-----------------------------------------------------------------------------
(* Completeness of merge. *)

\* A step of one run leaves alone what the branches of another found and what is
\* to be fused.
LEMMA WorkIsApart ==
  ASSUME TypeOK, NEW r \in Runs, NEW s \in Runs, r # s, Step(r)
  PROVE  /\ running'[s] = running[s] /\ results'[s] = results[s]
         /\ todo'[s] = todo[s] /\ findings'[s] = findings[s]
BY DEF Step, Gather, Degrade, Join, Fuse, FinishMerge, MergeFails, Synthesise, Find,
       StrategistFails, Accept, Repair, Escape, OuterBoundary, SaveReport, tables, TypeOK

\* Merge fuses the sources of one result, and keeps those it has fused.
LEMMA FuseCovers ==
  ASSUME TypeOK, NEW r \in Runs, Fuse(r)
  PROVE  \E i \in todo[r] :
           /\ todo'[r] = todo[r] \ {i}
           /\ Fused(r, i)'
           /\ \A j \in Intel : Fused(r, j) => Fused(r, j)'
<1>1. PICK i \in todo[r] : \E id \in Injection(Sources[i], Ids \ Known(r)) :
        /\ index' = [index EXCEPT ![r] =
             [n \in Ids |-> IF n \in Drawn(i, id) THEN UrlOf(i, id)[n] ELSE @[n]]]
        /\ todo' = [todo EXCEPT ![r] = @ \ {i}]
  BY DEF Fuse
<1>2. PICK id \in Injection(Sources[i], Ids \ Known(r)) :
        /\ index' = [index EXCEPT ![r] =
             [n \in Ids |-> IF n \in Drawn(i, id) THEN UrlOf(i, id)[n] ELSE @[n]]]
        /\ todo' = [todo EXCEPT ![r] = @ \ {i}]
  BY <1>1
<1>3. /\ \A n \in Ids : index'[r][n] = IF n \in Drawn(i, id) THEN UrlOf(i, id)[n] ELSE index[r][n]
      /\ todo'[r] = todo[r] \ {i}
  BY <1>2 DEF TypeOK
<1>4. /\ id \in [Sources[i] -> Ids \ Known(r)]
      /\ \A u, v \in Sources[i] : id[u] = id[v] => u = v
  BY DEF Injection, IsInjective
<1>5. ASSUME NEW u \in Sources[i] PROVE id[u] \in Ids /\ index'[r][id[u]] = u
  <2>1. id[u] \in Ids /\ id[u] \in Drawn(i, id)
    BY <1>4 DEF Drawn
  <2>2. UrlOf(i, id)[id[u]] = CHOOSE v \in Sources[i] : id[v] = id[u]
    BY <2>1 DEF UrlOf
  <2>3. (CHOOSE v \in Sources[i] : id[v] = id[u]) = u
    BY <1>4
  <2>4. QED
    BY <1>3, <2>1, <2>2, <2>3
<1>6. Fused(r, i)'
  BY <1>5 DEF Fused
<1>7. ASSUME NEW j \in Intel, Fused(r, j), NEW u \in Sources[j]
      PROVE  \E n \in Ids : index'[r][n] = u
  <2>1. PICK n \in Ids : index[r][n] = u
    BY <1>7 DEF Fused
  <2>2. u \in Urls
    BY DEF Urls
  <2>3. n \notin Drawn(i, id)
    BY <2>1, <2>2, DrawnIds DEF Known
  <2>4. QED
    BY <1>3, <2>1, <2>3
<1>8. \A j \in Intel : Fused(r, j) => Fused(r, j)'
  BY <1>7 DEF Fused
<1>9. QED
  BY <1>3, <1>6, <1>8

\* What the branches found is fused when merge is over.
LEMMA FusedStep == ASSUME TypeOK, FusedInv, [Next]_vars PROVE FusedInv'
<1> DEFINE Over(s) == stage[s] \in {"strategist", "validate", "returned", "saved"}
           Whole(s) == findings[s] \cap {"merge", "analysis"} = {}
           FusedOf(s) ==
             /\ stage[s] # "gather" => running[s] = {}
             /\ stage[s] = "merge" => \A i \in results[s] \ todo[s] : Fused(s, i)
             /\ Over(s) /\ Whole(s) => \A i \in results[s] : Fused(s, i)
<1>1. \A s \in Runs : FusedOf(s)
  BY DEF FusedInv
<1>2. ASSUME NEW s \in Runs, index'[s] = index[s], results'[s] = results[s],
             todo'[s] = todo[s], running'[s] \subseteq running[s],
             stage'[s] # "gather" => running'[s] = {},
             stage'[s] = "merge" => stage[s] = "merge",
             Over(s)' /\ Whole(s)' => Over(s) /\ Whole(s)
      PROVE  FusedOf(s)'
  BY <1>1, <1>2 DEF Fused
<1>3. ASSUME NEW r \in Runs, Step(r), NEW s \in Runs
      PROVE  FusedOf(s)'
  <2>1. CASE r # s
    BY <1>1, <1>2, <1>3, <2>1, RunsAreApart, WorkIsApart
  <2>2. CASE r = s /\ \E g \in Gatherers : Gather(r, g) \/ Degrade(r, g)
    <3>1. stage'[s] = stage[s] /\ running[s] # {}
      BY <2>2 DEF Gather, Degrade
    <3>2. QED
      BY <1>1, <3>1
  <2>3. CASE r = s /\ Join(r)
    <3>1. stage'[s] = "merge" /\ running'[s] = {} /\ todo'[s] = results'[s]
      BY <2>3 DEF Join, Goto, TypeOK
    <3>2. QED
      BY <3>1
  <2>4. CASE r = s /\ Fuse(r)
    <3>1. /\ stage[s] = "merge" /\ stage' = stage /\ running' = running /\ results' = results
      BY <2>4 DEF Fuse
    <3>2. PICK i \in todo[s] : /\ todo'[s] = todo[s] \ {i}
                               /\ Fused(s, i)'
                               /\ \A j \in Intel : Fused(s, j) => Fused(s, j)'
      BY <2>4, FuseCovers
    <3>3. results[s] \subseteq Intel
      BY DEF TypeOK
    <3>4. \A j \in results'[s] \ todo'[s] : Fused(s, j)'
      BY <1>1, <3>1, <3>2, <3>3
    <3>5. QED
      BY <1>1, <3>1, <3>4
  <2>5. CASE r = s /\ FinishMerge(r)
    <3>1. /\ stage[s] = "merge" /\ stage'[s] = "strategist" /\ todo[s] = {}
          /\ running' = running /\ results' = results /\ index' = index
      BY <2>5 DEF FinishMerge, Goto, TypeOK
    <3>2. \A i \in results'[s] : Fused(s, i)'
      BY <1>1, <3>1 DEF Fused
    <3>3. QED
      BY <1>1, <3>1, <3>2
  <2>6. CASE r = s /\ MergeFails(r)
    <3>1. /\ stage[s] = "merge" /\ stage'[s] = "strategist" /\ running' = running
          /\ "merge" \in findings'[s]
      BY <2>6 DEF MergeFails, Goto, Find, TypeOK
    <3>2. QED
      BY <1>1, <3>1
  <2>7. CASE r = s /\ (Synthesise(r) \/ StrategistFails(r) \/ Accept(r) \/ Repair(r) \/ SaveReport(r))
    <3>1. /\ index' = index /\ results' = results /\ todo' = todo /\ running' = running
          /\ Over(s) /\ stage'[s] # "merge" /\ findings[s] \subseteq findings'[s]
      BY <2>7 DEF Synthesise, StrategistFails, Accept, Repair, SaveReport, Goto, Find, TypeOK
    <3>2. QED
      BY <1>1, <1>2, <3>1
  <2>8. CASE r = s /\ Escape(r)
    <3>1. stage'[s] = "outer" /\ running'[s] = {}
      BY <2>8 DEF Escape, Goto, TypeOK
    <3>2. QED
      BY <3>1
  <2>9. CASE r = s /\ OuterBoundary(r)
    <3>1. /\ running' = running /\ stage[s] = "outer"
          /\ \/ stage'[s] = "raised"
             \/ stage'[s] = "returned" /\ findings'[s] = {"analysis"}
      BY <2>9 DEF OuterBoundary, Goto, TypeOK
    <3>2. QED
      BY <1>1, <3>1
  <2>10. QED
    BY <1>3, <2>1, <2>2, <2>3, <2>4, <2>5, <2>6, <2>7, <2>8, <2>9 DEF Step
<1>4. ASSUME UNCHANGED vars, NEW s \in Runs PROVE FusedOf(s)'
  <2>1. /\ index' = index /\ results' = results /\ todo' = todo /\ running' = running
        /\ stage' = stage /\ findings' = findings
    BY <1>4 DEF vars
  <2>2. QED
    BY <1>1, <2>1 DEF Fused
<1>5. \A s \in Runs : FusedOf(s)'
  BY <1>3, <1>4 DEF Next
<1>6. QED
  BY <1>5 DEF FusedInv

\* The strategist is given every source that a branch found (EverySourceIsFused),
\* unless merge itself degraded or the graph failed.
THEOREM SourcesReachTheStrategist == Spec => []EverySourceIsFused
<1>1. Init => FusedInv
  BY DEF Init, FusedInv
<1>2. TypeOK /\ FusedInv /\ [Next]_vars => FusedInv'
  BY FusedStep
<1>3. FusedInv => EverySourceIsFused
  BY DEF FusedInv, Fused, EverySourceIsFused
<1>4. QED
  BY <1>1, <1>2, <1>3, TypeCorrect, PTL DEF Spec
=============================================================================
