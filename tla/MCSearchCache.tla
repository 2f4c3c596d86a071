---------------------------- MODULE MCSearchCache ----------------------------
(* Days and providers for the runs of SearchCache. *)
EXTENDS SearchCache

\* Two days in Redis and three in the table: an entry outlives its hot copy.
TwoDays == [e \in Entries |-> 2]

\* Tavily with two keys, Serper with one.
TwoProviders == <<2, 1>>
=============================================================================
