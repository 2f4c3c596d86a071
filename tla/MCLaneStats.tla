----------------------------- MODULE MCLaneStats -----------------------------
(* The two pool threads of a run, and a thread that searches for chats. *)
EXTENDS LaneStats, TLC

CONSTANTS r1, a1, a2, c1

SomeOwners == a1 :> r1 @@ a2 :> r1 @@ c1 :> None
Alike      == Permutations({a1, a2})
=============================================================================
