--------------------------- MODULE CompanyIdentity ---------------------------
(***************************************************************************)
(* Under which name a run works.  POST /analyze upserts the row of the     *)
(* company on the slug of the name, or of the idea, it is given; phase 1   *)
(* of an idea renames the row to the name the idea resolved to; phase 2,   *)
(* and every refresh of the company, reads the name back from the row.     *)
(*                                                                         *)
(* The row is shared by all the runs of a slug, and two unique indexes     *)
(* guard the table, one on the slug and one on the name in lower case:     *)
(* a statement that would break the second one raises.  Statuses, rivals   *)
(* and the gate are those of RunLifecycle and left out here.               *)
(***************************************************************************)
CONSTANTS
  Runs,   \* runs, and the requests that start them
  Names,  \* names of companies, and sentences of ideas
  Ideas,  \* the sentences among them
  Posted, \* the names and sentences that requests are posted with
  Slug,   \* _slugify of each name
  Lower,  \* each name in lower case
  None

Slugs == {Slug[n] : n \in Names}

ASSUME NamesAssumption ==
  /\ Ideas \subseteq Names /\ Posted \subseteq Names
  /\ DOMAIN Slug = Names /\ DOMAIN Lower = Names
ASSUME NoneAssumption == None \notin Names \cup Slugs

VARIABLES
  name,    \* table companies: the name in the row of each slug
  row,     \* table runs: the company of each run, by its slug
  report,  \* table reports: the company on the report of each run
  stage,   \* run: where its request or its task is
  asked,   \* run: the name or idea it was posted with; a refresh has none
  worked,  \* run: the name its discovery worked under
  framed   \* run: the name its analysis works under

vars == <<name, row, report, stage, asked, worked, framed>>

Stages == {"idle", "raised", "posted", "discovering", "parked", "analysing",
           "completed", "failed"}

TypeOK ==
  /\ name \in [Slugs -> Names \cup {None}]
  /\ row \in [Runs -> Slugs \cup {None}]
  /\ report \in [Runs -> Names \cup {None}]
  /\ stage \in [Runs -> Stages]
  /\ asked \in [Runs -> Names \cup {None}]
  /\ worked \in [Runs -> Names \cup {None}]
  /\ framed \in [Runs -> Names \cup {None}]
  /\ \A r \in Runs : stage[r] = "analysing" => framed[r] # None

Init ==
  /\ name = [s \in Slugs |-> None]
  /\ row = [r \in Runs |-> None]
  /\ report = [r \in Runs |-> None]
  /\ stage = [r \in Runs |-> "idle"]
  /\ asked = [r \in Runs |-> None]
  /\ worked = [r \in Runs |-> None]
  /\ framed = [r \in Runs |-> None]

Goto(r, s) == stage' = [stage EXCEPT ![r] = s]

-----------------------------------------------------------------------------
(* The rows of the companies. *)

\* The index on lower(name): another row holds the name.
Taken(s, n) == \E t \in Slugs \ {s} : name[t] # None /\ Lower[name[t]] = Lower[n]

Rename(s, n) == name' = [name EXCEPT ![s] = n]

-----------------------------------------------------------------------------
(* POST /analyze, in two transactions. *)

\* create_company: inserts the row of the slug, or renames it.
CreateCompany(r) ==
  /\ stage[r] = "idle"
  /\ \E n \in Posted :
       IF Taken(Slug[n], n)
       THEN Goto(r, "raised") /\ UNCHANGED <<name, asked>>
       ELSE /\ Rename(Slug[n], n)
            /\ asked' = [asked EXCEPT ![r] = n]
            /\ Goto(r, "posted")
  /\ UNCHANGED <<row, report, worked, framed>>

CreateRun(r) ==
  /\ stage[r] = "posted"
  /\ \/ /\ row' = [row EXCEPT ![r] = Slug[asked[r]]]
        /\ Goto(r, "discovering")
     \/ Goto(r, "raised") /\ UNCHANGED row
  /\ UNCHANGED <<name, report, asked, worked, framed>>

-----------------------------------------------------------------------------
(* Phase 1. *)

\* Mutant: discovery resolves every name.
AnyName(r) == (Names \ Ideas) \cup {asked[r]}

\* A company works under the name it was posted with, an idea under the one
\* the model coined for it, or the default; the model may also echo the idea.
WorksUnder(r) == IF asked[r] \in Ideas THEN (Names \ Ideas) \cup {asked[r]} ELSE {asked[r]}

\* Mutant: the resolved name is not stored.
KeepIdea(r) ==
  /\ stage[r] = "discovering"
  /\ \E n \in WorksUnder(r) : worked' = [worked EXCEPT ![r] = n]
  /\ Goto(r, "parked")
  /\ UNCHANGED <<name, row, report, asked, framed>>

\* Mutant: the resolved name is upserted, like a name that is posted.
UpsertResolved(r) ==
  /\ stage[r] = "discovering"
  /\ \E n \in WorksUnder(r) :
       /\ worked' = [worked EXCEPT ![r] = n]
       /\ IF Taken(Slug[n], n)
          THEN Goto(r, "failed") /\ UNCHANGED name
          ELSE Rename(Slug[n], n) /\ Goto(r, "parked")
  /\ UNCHANGED <<row, report, asked, framed>>

\* Discovery works under a name of its own; set_run_company then stores the one
\* an idea resolved to, or raises when another row holds it.
Discover(r) ==
  /\ stage[r] = "discovering"
  /\ \E n \in WorksUnder(r) :
       /\ worked' = [worked EXCEPT ![r] = n]
       /\ IF n = asked[r]
          THEN Goto(r, "parked") /\ UNCHANGED name
          ELSE IF Taken(row[r], n)
          THEN Goto(r, "failed") /\ UNCHANGED name
          ELSE Rename(row[r], n) /\ Goto(r, "parked")
  /\ UNCHANGED <<row, report, asked, framed>>

-----------------------------------------------------------------------------
(* POST /companies/{slug}/refresh, and phase 2. *)

\* A run of a company that has a completed one, already past the gate.
Refresh(r) ==
  /\ stage[r] = "idle"
  /\ \E q \in Runs : stage[q] = "completed" /\ row' = [row EXCEPT ![r] = row[q]]
  /\ Goto(r, "parked")
  /\ UNCHANGED <<name, report, asked, worked, framed>>

\* Mutant: the task keeps the name it was posted with.
FrameAsked(r) ==
  /\ stage[r] = "parked"
  /\ framed' = [framed EXCEPT ![r] = asked[r]]
  /\ Goto(r, "analysing")
  /\ UNCHANGED <<name, row, report, asked, worked>>

\* The run is past the gate and its task reads the name: get_run_company.
Frame(r) ==
  /\ stage[r] = "parked"
  /\ framed' = [framed EXCEPT ![r] = name[row[r]]]
  /\ Goto(r, "analysing")
  /\ UNCHANGED <<name, row, report, asked, worked>>

\* The strategist, or the shell, stamps the report with that name.
SaveReport(r) ==
  /\ stage[r] = "analysing"
  /\ report' = [report EXCEPT ![r] = framed[r]]
  /\ Goto(r, "completed")
  /\ UNCHANGED <<name, row, asked, worked, framed>>

\* fail_run, for any other reason.
Fail(r) ==
  /\ stage[r] \in {"discovering", "parked", "analysing"}
  /\ Goto(r, "failed")
  /\ UNCHANGED <<name, row, report, asked, worked, framed>>

Step(r) == \/ CreateCompany(r) \/ CreateRun(r) \/ Discover(r)
           \/ Refresh(r) \/ Frame(r) \/ SaveReport(r) \/ Fail(r)

Next == \E r \in Runs : Step(r)

Spec == Init /\ [][Next]_vars

-----------------------------------------------------------------------------
(* Properties. *)

\* The runs whose request has written to the row of a slug.
PostedTo(s) == {r \in Runs : asked[r] # None /\ Slug[asked[r]] = s}

\* Whatever happens to the shared row, the name on a report is one that a run
\* of the same company was posted with or resolved to, never one of another
\* company.
ReportsStayWithTheirCompany ==
  \A r \in Runs : report[r] # None =>
    \E q \in PostedTo(row[r]) : report[r] \in {asked[q], worked[q]}

\* Unless an idea was posted whose sentence has the slug of the company, its
\* reports are about a spelling of its slug, those of refreshed runs included.
SpellingsKeepTheirSlug ==
  \A r \in Runs :
    report[r] # None /\ (\A q \in PostedTo(row[r]) : asked[q] \notin Ideas) =>
      Slug[report[r]] = row[r]

\* The identity that phase 1 worked under passes the gate: when no other run
\* was posted for the company, the report carries it.
IdentityPassesTheGate ==
  \A r \in Runs :
    report[r] # None /\ PostedTo(row[r]) = {r} => report[r] = worked[r]

\* A claim of the documentation.

\* BACKEND.md: discovery first resolves the idea into a company and persists the
\* resolved identity.
IdentitiesAreStored ==
  [][\A r \in Runs :
       stage[r] = "discovering" /\ worked'[r] \notin {None, asked[r]} =>
         name'[row[r]] = worked'[r]]_vars

-----------------------------------------------------------------------------
(* The inductive invariant behind the three properties. *)

\* A name that a run posted for the company was posted with or resolved to.
Brought(s, n) == \E q \in PostedTo(s) : n \in {asked[q], worked[q]}

\* How far a run has come tells which of its names are set.
Progress(r) ==
  /\ stage[r] = "idle" => asked[r] = None
  /\ stage[r] \in {"posted", "discovering"} => asked[r] # None
  /\ stage[r] \in {"idle", "raised", "posted"} => row[r] = None
  /\ stage[r] \in {"idle", "raised", "posted", "discovering"} => worked[r] = None
  /\ stage[r] \in {"idle", "raised", "posted", "discovering", "parked"} => framed[r] = None
  /\ stage[r] \in {"discovering", "parked", "analysing", "completed"} =>
       row[r] # None /\ name[row[r]] # None
  /\ stage[r] \in {"parked", "analysing", "completed"} => (worked[r] = None <=> asked[r] = None)
  /\ asked[r] # None => asked[r] \in Posted /\ name[Slug[asked[r]]] # None
  /\ asked[r] # None /\ row[r] # None => row[r] = Slug[asked[r]]
  /\ framed[r] # None => row[r] # None
  /\ report[r] # None => stage[r] = "completed" /\ report[r] = framed[r]
  /\ worked[r] # None => worked[r] = asked[r] \/ asked[r] \in Ideas

ProgressInv == \A r \in Runs : Progress(r)

\* Names come from the runs of their company, in the row and in the tasks.
NamesInv ==
  /\ \A s \in Slugs : name[s] # None => Brought(s, name[s])
  /\ \A r \in Runs : framed[r] # None => Brought(row[r], framed[r])

\* What a lone run brought stays in the row, and is what its task reads.
LoneInv ==
  \A r \in Runs : asked[r] # None /\ PostedTo(Slug[asked[r]]) = {r} =>
    /\ stage[r] \in {"posted", "discovering"} => name[Slug[asked[r]]] = asked[r]
    /\ stage[r] \in {"parked", "analysing", "completed"} => name[Slug[asked[r]]] = worked[r]
    /\ framed[r] # None => framed[r] = worked[r]
=============================================================================
