--------------------------- MODULE MCRefreshTokens ---------------------------
(* Requests of two users; one request is like another, and one user too. *)
EXTENDS RefreshTokens, TLC

Interchangeable == Permutations(Requests) \cup Permutations(Users)
=============================================================================
