------------------------------ MODULE MCMonitor ------------------------------
(* Two runs of a user and a refresh; two spellings of a headline and another. *)
EXTENDS Monitor, TLC

CONSTANTS r1, r2, r3, u, h1, h2, h3

SomeOwners == r1 :> u @@ r2 :> u @@ r3 :> None
SomeKeys   == h1 :> "a" @@ h2 :> "a" @@ h3 :> "b"
Alike      == Permutations({r1, r2}) \cup Permutations({h1, h2})
=============================================================================
