------------------------------ MODULE HumanGate ------------------------------
(***************************************************************************)
(* What the two-phase pipeline promises, with no request, task, status or  *)
(* failure in sight: the agents look only at rivals a user approved.  The  *)
(* list of a run is fixed once, by the user or by inheriting the list of a *)
(* reported run (monitoring refresh); the agents are launched on it once;  *)
(* one report is published, about that list or the degraded shell.         *)
(***************************************************************************)
CONSTANTS Runs, Lists, NoList, NoReport, Shell

VARIABLES approved, launched, report

Init == /\ approved = [r \in Runs |-> NoList]
        /\ launched = {}
        /\ report = [r \in Runs |-> NoReport]

Approve(r, l) == /\ approved[r] = NoList
                 /\ l # {}
                 /\ approved' = [approved EXCEPT ![r] = l]
                 /\ UNCHANGED <<launched, report>>

Inherit(r, s) == /\ approved[r] = NoList
                 /\ report[s] # NoReport
                 /\ approved' = [approved EXCEPT ![r] = approved[s]]
                 /\ UNCHANGED <<launched, report>>

Launch(r) == /\ approved[r] # NoList
             /\ r \notin launched
             /\ launched' = launched \cup {r}
             /\ UNCHANGED <<approved, report>>

Publish(r) == /\ r \in launched
              /\ report[r] = NoReport
              /\ \E text \in {approved[r], Shell} :
                   report' = [report EXCEPT ![r] = text]
              /\ UNCHANGED <<approved, launched>>

Next == \E r \in Runs : \/ \E l \in Lists : Approve(r, l)
                        \/ \E s \in Runs : Inherit(r, s)
                        \/ Launch(r)
                        \/ Publish(r)

Spec == Init /\ [][Next]_<<approved, launched, report>>
=============================================================================
