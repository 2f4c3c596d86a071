----------------------------- MODULE MCChatStore -----------------------------
(* A chat over two pieces of evidence, which nothing tells apart. *)
EXTENDS ChatStore, TLC

Alike == Permutations(Evidence)
=============================================================================
