------------------------ MODULE CompanyIdentityProofs ------------------------
(* Proofs about CompanyIdentity, for any runs and any names. *)
EXTENDS CompanyIdentity, TLAPS

\* Every name has a slug, and neither is None.
LEMMA SlugsOfNames == \A n \in Names : Slug[n] \in Slugs /\ n # None /\ Slug[n] # None
BY NoneAssumption DEF Slugs

\* A step that leaves the columns and the locals of a run alone, and empties no
\* row of a company, keeps its progress.
LEMMA OthersProgress ==
  ASSUME TypeOK, NEW q \in Runs, Progress(q),
         stage'[q] = stage[q], asked'[q] = asked[q], worked'[q] = worked[q],
         row'[q] = row[q], framed'[q] = framed[q], report'[q] = report[q],
         \A s \in Slugs : name[s] # None => name'[s] # None
  PROVE  Progress(q)'
<1>1. asked[q] # None /\ asked[q] \in Posted => Slug[asked[q]] \in Slugs
  BY NamesAssumption, SlugsOfNames
<1>2. QED
  BY <1>1 DEF Progress, TypeOK

\* Renaming a row empties none.
LEMMA RenameFills ==
  ASSUME TypeOK, NEW s \in Slugs, NEW n \in Names, Rename(s, n)
  PROVE  /\ name' \in [Slugs -> Names \cup {None}]
         /\ name'[s] = n
         /\ \A t \in Slugs \ {s} : name'[t] = name[t]
         /\ \A t \in Slugs : name[t] # None => name'[t] # None
BY SlugsOfNames DEF Rename, TypeOK

\* Types, and how far each run is.
Inv == TypeOK /\ ProgressInv

\* The two transactions of a request.
LEMMA CreateCompanyProgress ==
  ASSUME Inv, NEW r \in Runs, CreateCompany(r) PROVE Inv'
<1> USE DEF Inv
<1>1. PICK n \in Posted :
        IF Taken(Slug[n], n)
        THEN Goto(r, "raised") /\ UNCHANGED <<name, asked>>
        ELSE /\ Rename(Slug[n], n)
             /\ asked' = [asked EXCEPT ![r] = n]
             /\ Goto(r, "posted")
  BY DEF CreateCompany
<1>2. n \in Names /\ Slug[n] \in Slugs /\ n # None
  BY SlugsOfNames, NamesAssumption
<1>3. stage[r] = "idle" /\ UNCHANGED <<row, report, worked, framed>>
  BY DEF CreateCompany
<1>4. CASE Taken(Slug[n], n)
  <2>1. stage' = [stage EXCEPT ![r] = "raised"] /\ UNCHANGED <<name, asked>>
    BY <1>1, <1>4 DEF Goto
  <2>2. TypeOK'
    BY <1>3, <2>1 DEF TypeOK, Stages
  <2>3. ASSUME NEW q \in Runs, q # r PROVE Progress(q)'
    BY <1>3, <2>1, <2>3, OthersProgress DEF TypeOK, ProgressInv
  <2>4. Progress(r)'
    BY <1>3, <2>1 DEF TypeOK, ProgressInv, Progress
  <2>5. QED
    BY <2>2, <2>3, <2>4 DEF ProgressInv
<1>5. CASE ~Taken(Slug[n], n)
  <2>1. /\ stage' = [stage EXCEPT ![r] = "posted"] /\ Rename(Slug[n], n)
        /\ asked' = [asked EXCEPT ![r] = n]
    BY <1>1, <1>5 DEF Goto
  <2>2. TypeOK'
    BY <1>2, <1>3, <2>1, RenameFills DEF TypeOK, Stages
  <2>3. ASSUME NEW q \in Runs, q # r PROVE Progress(q)'
    <3>1. \A s \in Slugs : name[s] # None => name'[s] # None
      BY <1>2, <2>1, RenameFills
    <3>2. QED
      BY <1>3, <2>1, <2>3, <3>1, OthersProgress DEF TypeOK, ProgressInv
  <2>4. Progress(r)'
    <3>1. stage'[r] = "posted" /\ asked'[r] = n
      BY <2>1 DEF TypeOK
    <3>2. name'[Slug[n]] # None
      BY <1>2, <2>1, RenameFills
    <3>3. QED
      BY <1>2, <1>3, <3>1, <3>2 DEF TypeOK, ProgressInv, Progress
  <2>5. QED
    BY <2>2, <2>3, <2>4 DEF ProgressInv
<1>6. QED
  BY <1>4, <1>5

\* The run row takes the slug of the name that was posted.
LEMMA CreateRunProgress ==
  ASSUME Inv, NEW r \in Runs, CreateRun(r) PROVE Inv'
<1> USE DEF Inv
<1>1. stage[r] = "posted" /\ UNCHANGED <<name, report, asked, worked, framed>>
  BY DEF CreateRun
<1>2. asked[r] \in Names /\ asked[r] # None /\ Slug[asked[r]] \in Slugs
  BY <1>1, SlugsOfNames DEF TypeOK, ProgressInv, Progress
<1>3. row'[r] \in {None, Slug[asked[r]]} /\ stage'[r] \in {"discovering", "raised"}
      /\ (stage'[r] = "discovering" => row'[r] = Slug[asked[r]])
      /\ (stage'[r] = "raised" => row'[r] = None)
  BY <1>1, SlugsOfNames DEF CreateRun, Goto, TypeOK, ProgressInv, Progress
<1>4. \A q \in Runs \ {r} : row'[q] = row[q] /\ stage'[q] = stage[q]
  BY DEF CreateRun, Goto, TypeOK
<1>5. TypeOK'
  BY <1>1, <1>2 DEF CreateRun, Goto, TypeOK, Stages
<1>6. ASSUME NEW q \in Runs, q # r PROVE Progress(q)'
  BY <1>1, <1>4, <1>6, OthersProgress DEF ProgressInv
<1>7. Progress(r)'
  BY <1>1, <1>2, <1>3, SlugsOfNames DEF ProgressInv, Progress
<1>8. QED
  BY <1>5, <1>6, <1>7 DEF ProgressInv

\* Phase 1 keeps to the row of the run.
LEMMA DiscoverProgress ==
  ASSUME Inv, NEW r \in Runs, Discover(r) PROVE Inv'
<1> USE DEF Inv
<1>1. stage[r] = "discovering" /\ UNCHANGED <<row, report, asked, framed>>
  BY DEF Discover
<1>2. PICK n \in WorksUnder(r) :
        /\ worked' = [worked EXCEPT ![r] = n]
        /\ IF n = asked[r]
           THEN Goto(r, "parked") /\ UNCHANGED name
           ELSE IF Taken(row[r], n)
           THEN Goto(r, "failed") /\ UNCHANGED name
           ELSE Rename(row[r], n) /\ Goto(r, "parked")
  BY DEF Discover
<1>3. asked[r] \in Names /\ asked[r] # None /\ row[r] \in Slugs /\ row[r] # None
      /\ name[row[r]] # None /\ framed[r] = None /\ report[r] = None
  BY <1>1, SlugsOfNames DEF TypeOK, ProgressInv, Progress
<1>12. name[Slug[asked[r]]] # None /\ Slug[asked[r]] \in Slugs
  BY <1>3, SlugsOfNames DEF ProgressInv, Progress
<1>4. n \in Names /\ n # None /\ (n = asked[r] \/ asked[r] \in Ideas)
  BY <1>2, <1>3, SlugsOfNames DEF WorksUnder
<1>5. name' = name \/ Rename(row[r], n)
  BY <1>2
<1>6. /\ name' \in [Slugs -> Names \cup {None}]
      /\ \A s \in Slugs : name[s] # None => name'[s] # None
  BY <1>3, <1>4, <1>5, RenameFills DEF TypeOK
<1>7. /\ worked' = [worked EXCEPT ![r] = n]
      /\ stage' = [stage EXCEPT ![r] = stage'[r]] /\ stage'[r] \in {"parked", "failed"}
  BY <1>2 DEF Goto, TypeOK
<1>8. TypeOK'
  BY <1>1, <1>4, <1>6, <1>7 DEF TypeOK, Stages
<1>9. ASSUME NEW q \in Runs, q # r PROVE Progress(q)'
  <2>1. worked'[q] = worked[q] /\ stage'[q] = stage[q]
    BY <1>7, <1>9 DEF TypeOK
  <2>2. QED
    BY <1>1, <1>6, <2>1, OthersProgress DEF ProgressInv
<1>10. Progress(r)'
  <2>1. worked'[r] = n
    BY <1>7 DEF TypeOK
  <2>2. QED
    BY <1>1, <1>3, <1>12, <1>4, <1>6, <1>7, <2>1 DEF ProgressInv, Progress
<1>11. QED
  BY <1>8, <1>9, <1>10 DEF ProgressInv

\* A refresh takes the company of a completed run.
LEMMA RefreshProgress ==
  ASSUME Inv, NEW r \in Runs, Refresh(r) PROVE Inv'
<1> USE DEF Inv
<1>1. stage[r] = "idle" /\ UNCHANGED <<name, report, asked, worked, framed>>
  BY DEF Refresh
<1>2. PICK p \in Runs : stage[p] = "completed" /\ row' = [row EXCEPT ![r] = row[p]]
  BY DEF Refresh
<1>3. row[p] \in Slugs /\ row[p] # None /\ name[row[p]] # None
  BY <1>2 DEF TypeOK, ProgressInv, Progress
<1>4. stage' = [stage EXCEPT ![r] = "parked"]
  BY DEF Refresh, Goto
<1>5. TypeOK'
  BY <1>1, <1>2, <1>3, <1>4 DEF TypeOK, Stages
<1>6. ASSUME NEW q \in Runs, q # r PROVE Progress(q)'
  BY <1>1, <1>2, <1>4, <1>6, OthersProgress DEF TypeOK, ProgressInv
<1>7. Progress(r)'
  <2>1. row'[r] = row[p] /\ stage'[r] = "parked"
    BY <1>2, <1>4 DEF TypeOK
  <2>2. QED
    BY <1>1, <1>3, <2>1 DEF ProgressInv, Progress
<1>8. QED
  BY <1>5, <1>6, <1>7 DEF ProgressInv

\* The task of a run reads a name that is there.
LEMMA FrameProgress ==
  ASSUME Inv, NEW r \in Runs, Frame(r) PROVE Inv'
<1> USE DEF Inv
<1>1. stage[r] = "parked" /\ UNCHANGED <<name, row, report, asked, worked>>
      /\ framed' = [framed EXCEPT ![r] = name[row[r]]]
      /\ stage' = [stage EXCEPT ![r] = "analysing"]
  BY DEF Frame, Goto
<1>2. row[r] \in Slugs /\ row[r] # None /\ name[row[r]] \in Names /\ name[row[r]] # None
  BY <1>1 DEF TypeOK, ProgressInv, Progress
<1>3. TypeOK'
  BY <1>1, <1>2 DEF TypeOK, Stages
<1>4. ASSUME NEW q \in Runs, q # r PROVE Progress(q)'
  BY <1>1, <1>4, OthersProgress DEF TypeOK, ProgressInv
<1>5. Progress(r)'
  <2>1. framed'[r] = name[row[r]] /\ stage'[r] = "analysing"
    BY <1>1 DEF TypeOK
  <2>2. QED
    BY <1>1, <1>2, <2>1 DEF ProgressInv, Progress
<1>6. QED
  BY <1>3, <1>4, <1>5 DEF ProgressInv

\* The report takes the name its task read.
LEMMA SaveReportProgress ==
  ASSUME Inv, NEW r \in Runs, SaveReport(r) PROVE Inv'
<1> USE DEF Inv
<1>1. stage[r] = "analysing" /\ UNCHANGED <<name, row, asked, worked, framed>>
      /\ report' = [report EXCEPT ![r] = framed[r]]
      /\ stage' = [stage EXCEPT ![r] = "completed"]
  BY DEF SaveReport, Goto
<1>2. TypeOK'
  BY <1>1 DEF TypeOK, Stages
<1>3. ASSUME NEW q \in Runs, q # r PROVE Progress(q)'
  BY <1>1, <1>3, OthersProgress DEF TypeOK, ProgressInv
<1>4. Progress(r)'
  <2>1. report'[r] = framed[r] /\ stage'[r] = "completed"
    BY <1>1 DEF TypeOK
  <2>2. QED
    BY <1>1, <2>1 DEF ProgressInv, Progress
<1>5. QED
  BY <1>2, <1>3, <1>4 DEF ProgressInv

\* A run that fails has no report.
LEMMA FailProgress ==
  ASSUME Inv, NEW r \in Runs, Fail(r) PROVE Inv'
<1> USE DEF Inv
<1>1. stage[r] \in {"discovering", "parked", "analysing"}
      /\ UNCHANGED <<name, row, report, asked, worked, framed>>
      /\ stage' = [stage EXCEPT ![r] = "failed"]
  BY DEF Fail, Goto
<1>2. TypeOK'
  BY <1>1 DEF TypeOK, Stages
<1>3. ASSUME NEW q \in Runs, q # r PROVE Progress(q)'
  BY <1>1, <1>3, OthersProgress DEF TypeOK, ProgressInv
<1>4. Progress(r)'
  <2>1. stage'[r] = "failed"
    BY <1>1 DEF TypeOK
  <2>2. QED
    BY <1>1, <2>1 DEF ProgressInv, Progress
<1>5. QED
  BY <1>2, <1>3, <1>4 DEF ProgressInv

\* Every action keeps the types and the progress of the runs.
LEMMA StepProgress == ASSUME Inv, NEW r \in Runs, Step(r) PROVE Inv'
BY CreateCompanyProgress, CreateRunProgress, DiscoverProgress, RefreshProgress,
   FrameProgress, SaveReportProgress, FailProgress DEF Step

\* Nor does a step that changes nothing.
LEMMA StutterProgress == ASSUME Inv, UNCHANGED vars PROVE Inv'
BY DEF Inv, vars, TypeOK, ProgressInv, Progress, Stages

\* An empty database keeps them.
LEMMA InitProgress == Init => Inv
BY NoneAssumption DEF Init, Inv, TypeOK, ProgressInv, Progress, Stages

\* Types and progress are kept by every behaviour.
LEMMA AlwaysProgress == Spec => []Inv
<1>1. Inv /\ [Next]_vars => Inv'
  BY StepProgress, StutterProgress DEF Next
<1>2. QED
  BY <1>1, InitProgress, PTL DEF Spec

\* Every column and local keeps its type, and an analysis has a name to work
\* under, for any runs and any names.
THEOREM TypeCorrect == Spec => []TypeOK
BY AlwaysProgress, PTL DEF Inv

-----------------------------------------------------------------------------
(* Where names come from. *)

\* A step writes to the columns of one run, which keeps what it was posted with,
\* resolved to or framed under once that is set.
LEMMA OneRun ==
  ASSUME Inv, NEW r \in Runs, Step(r), NEW q \in Runs
  PROVE  /\ q # r => /\ stage'[q] = stage[q] /\ asked'[q] = asked[q]
                     /\ worked'[q] = worked[q] /\ framed'[q] = framed[q]
                     /\ row'[q] = row[q]
         /\ asked[q] # None => asked'[q] = asked[q]
         /\ worked[q] # None => worked'[q] = worked[q]
         /\ framed[q] # None => framed'[q] = framed[q] /\ row'[q] = row[q]
<1> USE DEF Inv
<1>1. CASE CreateCompany(r)
  BY <1>1 DEF CreateCompany, Goto, TypeOK, ProgressInv, Progress
<1>2. CASE CreateRun(r)
  BY <1>2 DEF CreateRun, Goto, TypeOK, ProgressInv, Progress
<1>3. CASE Discover(r)
  BY <1>3 DEF Discover, Goto, TypeOK, ProgressInv, Progress
<1>4. CASE Refresh(r)
  BY <1>4 DEF Refresh, Goto, TypeOK, ProgressInv, Progress
<1>5. CASE Frame(r)
  BY <1>5 DEF Frame, Goto, TypeOK, ProgressInv, Progress
<1>6. CASE SaveReport(r) \/ Fail(r)
  BY <1>6 DEF SaveReport, Fail, Goto, TypeOK, ProgressInv, Progress
<1>7. QED
  BY <1>1, <1>2, <1>3, <1>4, <1>5, <1>6 DEF Step

\* A name that was brought to a company stays brought.
LEMMA BroughtLasts ==
  ASSUME Inv, NEW r \in Runs, Step(r), NEW s \in Slugs, NEW n, n # None, Brought(s, n)
  PROVE  Brought(s, n)'
<1>1. PICK q \in PostedTo(s) : n \in {asked[q], worked[q]}
  BY DEF Brought
<1>2. q \in Runs /\ asked[q] # None /\ Slug[asked[q]] = s
  BY DEF PostedTo
<1>3. asked'[q] = asked[q] /\ (worked[q] # None => worked'[q] = worked[q])
  BY <1>2, OneRun
<1>4. q \in PostedTo(s)' /\ n \in {asked'[q], worked'[q]}
  BY <1>1, <1>2, <1>3 DEF PostedTo
<1>5. QED
  BY <1>4 DEF Brought

\* A step renames at most one row, and only to what its run brought to it.
LEMMA RenamesBring ==
  ASSUME Inv, NEW r \in Runs, Step(r), NEW s \in Slugs, name'[s] # name[s]
  PROVE  /\ asked'[r] # None /\ Slug[asked'[r]] = s
         /\ name'[s] \in {asked'[r], worked'[r]}
         /\ stage'[r] = "posted" => name'[s] = asked'[r]
         /\ stage'[r] = "parked" => name'[s] = worked'[r]
         /\ stage'[r] \in {"posted", "parked"}
<1> USE DEF Inv
<1>1. CASE CreateCompany(r)
  <2>1. PICK n \in Posted : Rename(Slug[n], n) /\ asked' = [asked EXCEPT ![r] = n]
                            /\ stage' = [stage EXCEPT ![r] = "posted"]
    BY <1>1 DEF CreateCompany, Goto
  <2>2. n \in Names /\ Slug[n] \in Slugs /\ n # None
    BY SlugsOfNames, NamesAssumption
  <2>3. Slug[n] = s /\ name'[s] = n
    BY <2>1, <2>2, RenameFills
  <2>4. asked'[r] = n /\ stage'[r] = "posted"
    BY <2>1 DEF TypeOK
  <2>5. QED
    BY <2>2, <2>3, <2>4
<1>2. CASE Discover(r)
  <2>1. PICK n \in WorksUnder(r) : Rename(row[r], n) /\ worked' = [worked EXCEPT ![r] = n]
                                   /\ stage' = [stage EXCEPT ![r] = "parked"]
    BY <1>2 DEF Discover, Goto
  <2>2. asked[r] \in Names /\ asked[r] # None /\ row[r] \in Slugs /\ row[r] = Slug[asked[r]]
        /\ asked' = asked
    BY <1>2, SlugsOfNames DEF Discover, TypeOK, ProgressInv, Progress
  <2>3. n \in Names
    BY <2>2 DEF WorksUnder
  <2>4. row[r] = s /\ name'[s] = n
    BY <2>1, <2>2, <2>3, RenameFills
  <2>5. worked'[r] = n /\ stage'[r] = "parked"
    BY <2>1 DEF TypeOK
  <2>6. QED
    BY <2>2, <2>4, <2>5
<1>3. CASE ~CreateCompany(r) /\ ~Discover(r)
  BY <1>3 DEF Step, CreateRun, Refresh, Frame, SaveReport, Fail
<1>4. QED
  BY <1>1, <1>2, <1>3

\* A task that takes a name takes it from the row of its company.
LEMMA FramesRead ==
  ASSUME Inv, NEW r \in Runs, Step(r), framed'[r] # framed[r]
  PROVE  /\ framed'[r] = name[row[r]] /\ row[r] \in Slugs /\ row[r] # None
         /\ row' = row /\ asked' = asked /\ worked' = worked /\ stage[r] = "parked"
<1>1. Frame(r)
  BY DEF Step, CreateCompany, CreateRun, Discover, Refresh, SaveReport, Fail
<1>2. QED
  BY <1>1 DEF Frame, Inv, TypeOK, ProgressInv, Progress

\* The names in the rows and in the tasks come from runs of their company.
LEMMA NamesStep ==
  ASSUME Inv, NamesInv, NEW r \in Runs, Step(r) PROVE NamesInv'
<1> USE DEF Inv
<1>1. ASSUME NEW s \in Slugs, name'[s] # None PROVE Brought(s, name[s])'
  <2>1. PICK n : n = name'[s]
    OBVIOUS
  <2>2. CASE name'[s] = name[s]
    <3>1. Brought(s, n)
      BY <1>1, <2>1, <2>2 DEF NamesInv
    <3>2. Brought(s, n)'
      BY <1>1, <2>1, <3>1, BroughtLasts
    <3>3. QED
      BY <2>1, <3>2 DEF Brought
  <2>3. CASE name'[s] # name[s]
    BY <2>3, RenamesBring DEF Brought, PostedTo
  <2>4. QED
    BY <2>2, <2>3
<1>2. ASSUME NEW q \in Runs, framed'[q] # None PROVE Brought(row[q], framed[q])'
  <2>1. PICK n, s : n = framed'[q] /\ s = row'[q]
    OBVIOUS
  <2>2. s \in Slugs /\ Brought(s, n)
    <3>1. CASE framed'[q] = framed[q]
      <4>1. row'[q] = row[q] /\ framed[q] # None
        BY <1>2, <3>1, OneRun
      <4>2. row[q] \in Slugs
        BY <4>1 DEF TypeOK, ProgressInv, Progress
      <4>3. QED
        BY <2>1, <3>1, <4>1, <4>2 DEF NamesInv
    <3>2. CASE framed'[q] # framed[q]
      <4>1. q = r
        BY <3>2, OneRun
      <4>2. framed'[r] = name[row[r]] /\ row[r] \in Slugs /\ row' = row
        BY <3>2, <4>1, FramesRead
      <4>3. QED
        BY <1>2, <2>1, <4>1, <4>2 DEF NamesInv
    <3>3. QED
      BY <3>1, <3>2
  <2>3. Brought(s, n)'
    BY <1>2, <2>1, <2>2, BroughtLasts
  <2>4. QED
    BY <2>1, <2>3 DEF Brought
<1>3. QED
  BY <1>1, <1>2 DEF NamesInv

\* How the run of a step that was posted before gets to its next stage.
LEMMA Moves ==
  ASSUME Inv, NEW r \in Runs, Step(r), asked[r] # None
  PROVE  /\ stage'[r] \in {"posted", "discovering"} => stage[r] = "posted" /\ name' = name
         /\ stage'[r] = "parked" =>
              /\ stage[r] = "discovering"
              /\ \/ name'[Slug[asked[r]]] = worked'[r]
                 \/ name' = name /\ worked'[r] = asked[r]
         /\ stage'[r] \in {"analysing", "completed"} =>
              stage[r] \in {"parked", "analysing"} /\ name' = name /\ worked' = worked
<1> USE DEF Inv
<1>1. CASE CreateCompany(r) \/ Refresh(r)
  BY <1>1 DEF CreateCompany, Refresh, ProgressInv, Progress
<1>2. CASE CreateRun(r)
  BY <1>2 DEF CreateRun, Goto, TypeOK
<1>3. CASE Discover(r)
  <2>1. PICK n \in WorksUnder(r) :
          /\ worked' = [worked EXCEPT ![r] = n]
          /\ IF n = asked[r]
             THEN Goto(r, "parked") /\ UNCHANGED name
             ELSE IF Taken(row[r], n)
             THEN Goto(r, "failed") /\ UNCHANGED name
             ELSE Rename(row[r], n) /\ Goto(r, "parked")
    BY <1>3 DEF Discover
  <2>2. asked[r] \in Names /\ row[r] \in Slugs /\ row[r] = Slug[asked[r]]
        /\ stage[r] = "discovering"
    BY <1>3 DEF Discover, TypeOK, ProgressInv, Progress
  <2>3. worked'[r] = n /\ n \in Names
    BY <2>1, <2>2 DEF TypeOK, WorksUnder
  <2>4. stage'[r] \in {"parked", "failed"}
    BY <2>1 DEF Goto, TypeOK
  <2>5. stage'[r] = "parked" => (name' = name /\ n = asked[r]) \/ Rename(row[r], n)
    BY <2>1 DEF Goto, TypeOK
  <2>6. Rename(row[r], n) => name'[row[r]] = n
    BY <2>2, <2>3, RenameFills
  <2>7. QED
    BY <2>2, <2>3, <2>4, <2>5, <2>6
<1>4. CASE Frame(r)
  BY <1>4 DEF Frame, Goto, TypeOK
<1>5. CASE SaveReport(r)
  BY <1>5 DEF SaveReport, Goto, TypeOK
<1>6. CASE Fail(r)
  BY <1>6 DEF Fail, Goto, TypeOK
<1>7. QED
  BY <1>1, <1>2, <1>3, <1>4, <1>5, <1>6 DEF Step

\* A request that has just been accepted has named the row.
LEMMA Accepted ==
  ASSUME Inv, NEW r \in Runs, Step(r), asked[r] = None, asked'[r] # None
  PROVE  /\ stage'[r] = "posted" /\ name'[Slug[asked'[r]]] = asked'[r]
         /\ framed'[r] = None
<1> USE DEF Inv
<1>1. CreateCompany(r)
  BY DEF Step, CreateRun, Discover, Refresh, Frame, SaveReport, Fail
<1>2. PICK n \in Posted :
        IF Taken(Slug[n], n)
        THEN Goto(r, "raised") /\ UNCHANGED <<name, asked>>
        ELSE /\ Rename(Slug[n], n)
             /\ asked' = [asked EXCEPT ![r] = n]
             /\ Goto(r, "posted")
  BY <1>1 DEF CreateCompany
<1>3. Rename(Slug[n], n) /\ asked' = [asked EXCEPT ![r] = n] /\ Goto(r, "posted")
  BY <1>2
<1>4. n \in Names /\ Slug[n] \in Slugs
  BY SlugsOfNames, NamesAssumption
<1>5. asked'[r] = n /\ stage'[r] = "posted" /\ name'[Slug[n]] = n
  BY <1>3, <1>4, RenameFills DEF Goto, TypeOK
<1>6. framed'[r] = None
  BY <1>1 DEF CreateCompany, ProgressInv, Progress
<1>7. QED
  BY <1>5, <1>6

\* What a lone run brought stays in its row, whatever the other runs do.
LEMMA LoneStep ==
  ASSUME Inv, LoneInv, NEW r \in Runs, Step(r) PROVE LoneInv'
<1> USE DEF Inv
<1> SUFFICES ASSUME NEW q \in Runs, asked'[q] # None, PostedTo(Slug[asked[q]])' = {q}
             PROVE  /\ stage'[q] \in {"posted", "discovering"} =>
                         name'[Slug[asked'[q]]] = asked'[q]
                    /\ stage'[q] \in {"parked", "analysing", "completed"} =>
                         name'[Slug[asked'[q]]] = worked'[q]
                    /\ framed'[q] # None => framed'[q] = worked'[q]
  BY DEF LoneInv
<1>1. PICK s : s = Slug[asked'[q]]
  OBVIOUS
<1>2. s \in Slugs
  BY <1>1, StepProgress, NamesAssumption, SlugsOfNames DEF ProgressInv, Progress
<1>3. asked'[r] # None /\ Slug[asked'[r]] = s => r = q
  BY <1>1 DEF PostedTo
<1>4. CASE asked[q] = None
  <2>1. q = r
    BY <1>4, OneRun
  <2>2. QED
    BY <1>4, <2>1, Accepted
<1>5. CASE asked[q] # None
  <2>1. asked'[q] = asked[q]
    BY <1>5, OneRun
  <2>2. PostedTo(s) = {q}
    <3>1. PostedTo(s)' = {q}
      BY <1>1
    <3>2. \A p \in PostedTo(s) : p \in PostedTo(s)'
      BY OneRun DEF PostedTo
    <3>3. q \in PostedTo(s)
      BY <1>1, <1>5, <2>1 DEF PostedTo
    <3>4. QED
      BY <3>1, <3>2, <3>3
  <2>3. /\ stage[q] \in {"posted", "discovering"} => name[s] = asked[q]
        /\ stage[q] \in {"parked", "analysing", "completed"} => name[s] = worked[q]
        /\ framed[q] # None => framed[q] = worked[q]
    BY <1>1, <1>5, <2>1, <2>2 DEF LoneInv
  <2>4. ASSUME framed'[q] # None PROVE framed'[q] = worked'[q]
    <3>1. CASE framed'[q] = framed[q]
      BY <2>3, <2>4, <3>1, OneRun
    <3>2. CASE framed'[q] # framed[q]
      <4>1. q = r
        BY <3>2, OneRun
      <4>2. framed'[r] = name[row[r]] /\ worked' = worked /\ stage[r] = "parked" /\ row[r] # None
        BY <3>2, <4>1, FramesRead
      <4>3. row[r] = s
        BY <1>1, <1>5, <2>1, <4>1, <4>2 DEF ProgressInv, Progress
      <4>4. QED
        BY <2>3, <4>1, <4>2, <4>3
    <3>3. QED
      BY <3>1, <3>2
  <2>5. CASE name'[s] # name[s]
    <3>1. q = r
      BY <1>2, <1>3, <2>5, RenamesBring
    <3>2. QED
      BY <1>1, <1>2, <2>4, <2>5, <3>1, RenamesBring
  <2>6. CASE name'[s] = name[s]
    <3>1. CASE q # r
      BY <1>1, <2>1, <2>3, <2>4, <2>6, <3>1, OneRun
    <3>2. CASE q = r
      BY <1>1, <1>5, <2>1, <2>3, <2>4, <2>6, <3>2, Moves
    <3>3. QED
      BY <3>1, <3>2
  <2>7. QED
    BY <2>5, <2>6
<1>6. QED
  BY <1>4, <1>5

\* The inductive invariant: how far runs are, where names come from, and what a
\* lone run finds again.
IInv == Inv /\ NamesInv /\ LoneInv

\* An empty database keeps the invariant.
LEMMA InitIdentity == Init => IInv
<1> SUFFICES ASSUME Init PROVE IInv
  OBVIOUS
<1>1. Inv
  BY InitProgress
<1>2. NamesInv /\ LoneInv
  BY DEF Init, NamesInv, LoneInv
<1>3. QED
  BY <1>1, <1>2 DEF IInv

\* A step that changes nothing keeps it.
LEMMA StutterIdentity == ASSUME IInv, UNCHANGED vars PROVE IInv'
<1>1. Inv'
  BY StutterProgress DEF IInv
<1>2. NamesInv'
  BY DEF IInv, vars, NamesInv, Brought, PostedTo
<1>3. LoneInv'
  BY DEF IInv, vars, LoneInv, PostedTo
<1>4. QED
  BY <1>1, <1>2, <1>3 DEF IInv

\* Every behaviour keeps it.
LEMMA AlwaysIdentity == Spec => []IInv
<1>1. IInv /\ [Next]_vars => IInv'
  <2>1. ASSUME IInv, NEW r \in Runs, Step(r) PROVE IInv'
    BY <2>1, StepProgress, NamesStep, LoneStep DEF IInv
  <2>2. QED
    BY <2>1, StutterIdentity DEF Next
<1>2. QED
  BY <1>1, InitIdentity, PTL DEF Spec

\* Whoever shares, renames or refreshes a row, no report carries the name of
\* another company.
THEOREM ReportsStay == Spec => []ReportsStayWithTheirCompany
<1>1. IInv => ReportsStayWithTheirCompany
  BY DEF IInv, Inv, ProgressInv, Progress, NamesInv, Brought, ReportsStayWithTheirCompany
<1>2. QED
  BY <1>1, AlwaysIdentity, PTL

\* Only an idea can bring a name of another slug to a company.
THEOREM SpellingsKeep == Spec => []SpellingsKeepTheirSlug
<1>1. IInv => SpellingsKeepTheirSlug
  <2> SUFFICES ASSUME IInv, NEW r \in Runs, report[r] # None,
                      \A q \in PostedTo(row[r]) : asked[q] \notin Ideas
               PROVE  Slug[report[r]] = row[r]
    BY DEF SpellingsKeepTheirSlug
  <2>1. framed[r] # None /\ report[r] = framed[r]
    BY DEF IInv, Inv, ProgressInv, Progress
  <2>2. PICK q \in PostedTo(row[r]) : report[r] \in {asked[q], worked[q]}
    BY <2>1 DEF IInv, NamesInv, Brought
  <2>3. q \in Runs /\ Slug[asked[q]] = row[r] /\ asked[q] \notin Ideas
    BY <2>2 DEF PostedTo
  <2>4. worked[q] # None => worked[q] = asked[q]
    BY <2>3 DEF IInv, Inv, ProgressInv, Progress
  <2>5. QED
    BY <2>2, <2>3, <2>4
<1>2. QED
  BY <1>1, AlwaysIdentity, PTL

\* The identity of a run that shares its row with no other posted run passes the
\* gate, whatever is refreshed and whatever other companies do.
THEOREM IdentityPasses == Spec => []IdentityPassesTheGate
<1>1. IInv => IdentityPassesTheGate
  <2> SUFFICES ASSUME IInv, NEW r \in Runs, report[r] # None, PostedTo(row[r]) = {r}
               PROVE  report[r] = worked[r]
    BY DEF IdentityPassesTheGate
  <2>1. framed[r] # None /\ report[r] = framed[r]
    BY DEF IInv, Inv, ProgressInv, Progress
  <2>2. asked[r] # None /\ Slug[asked[r]] = row[r]
    BY DEF PostedTo
  <2>3. QED
    BY <2>1, <2>2 DEF IInv, LoneInv
<1>2. QED
  BY <1>1, AlwaysIdentity, PTL
=============================================================================
