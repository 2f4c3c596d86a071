----------------------------- MODULE SearchCache -----------------------------
(***************************************************************************)
(* How the intel about one rival is gathered: from the intel cache, or     *)
(* else by an agent whose search comes from the search cache, or else from *)
(* the providers.  Both caches are entries of one store with two layers:   *)
(* a hot one with a time to live (Redis, or the REST interface of Upstash  *)
(* without it) and the table search_cache, which ignores rows past an age. *)
(* The runs that analyse the rival at the same time gather concurrently    *)
(* and share the entries.                                                  *)
(*                                                                         *)
(* Time passes in days, a fraction of a time to live; a gathering takes    *)
(* minutes (every request has a timeout), so days pass between gatherings. *)
(* One query stands for the three or four of an agent, each of which has a *)
(* key of its own.                                                         *)
(***************************************************************************)
EXTENDS Naturals, Sequences, FiniteSets

CONSTANTS
  Gatherers,    \* agents of concurrent runs, about one rival
  INTEL_CACHE,  \* COMPETITOR_INTEL_CACHE
  TTL,          \* time to live of the hot entries, in days
  MaxAge,       \* _SEARCH_CACHE_MAX_AGE, in days
  Providers,    \* number of keys of each search provider, in order
  None,         \* no entry, no result
  LastDay,      \* bound on the days
  MaxFaults     \* bound on the calls of a layer that fail

Entries == {"search", "intel"}
Lane    == 1..Len(Providers)
Scraper == Len(Providers) + 1

ASSUME GatherersAssumption == IsFiniteSet(Gatherers) /\ Gatherers # {}
ASSUME ConfigAssumption ==
  /\ INTEL_CACHE \in BOOLEAN
  /\ TTL \in [Entries -> Nat] /\ MaxAge \in Nat \ {0}
  /\ Providers \in Seq(Nat)
  /\ LastDay \in Nat /\ MaxFaults \in Nat

\* The day its pages were fetched, the day it was made.
Item == [at : 0..LastDay, made : 0..LastDay]

ASSUME NoneAssumption ==
  /\ None \notin Item
  /\ \A it \in Item, d \in 0..LastDay : [item |-> it, created |-> d] # None

VARIABLES
  hot,     \* entry: item and the day it expires
  cold,    \* entry: item and the day of the row (created_at)
  day,
  pc,      \* gatherer: where it is
  entry,   \* gatherer: the entry it reads or writes
  item,    \* gatherer: what it has
  lane, key,
  faults,
  bought,  \* history: paid answers with pages since the row of the search was last stale
  late     \* history: paid answers, with pages or not, while there is a row

vars == <<hot, cold, day, pc, entry, item, lane, key, faults, bought, late>>

Rest  == {"idle", "done", "raised"}
Sites == Rest \cup {"read_hot", "read_cold", "ask", "write_hot", "write_cold", "extract"}

TypeOK ==
  /\ hot \in [Entries -> {None} \cup [item : Item, until : Nat]]
  /\ cold \in [Entries -> {None} \cup [item : Item, created : 0..LastDay]]
  /\ day \in 0..LastDay
  /\ pc \in [Gatherers -> Sites]
  /\ entry \in [Gatherers -> Entries]
  /\ item \in [Gatherers -> {None} \cup Item]
  /\ lane \in [Gatherers -> 1..Scraper] /\ key \in [Gatherers -> Nat]
  /\ faults \in 0..MaxFaults /\ bought \in Nat /\ late \in Nat
  /\ \A g \in Gatherers : pc[g] \in {"write_hot", "write_cold", "done"} => item[g] # None

Init ==
  /\ hot = [e \in Entries |-> None]
  /\ cold = [e \in Entries |-> None]
  /\ day = 0
  /\ pc = [g \in Gatherers |-> "idle"]
  /\ entry = [g \in Gatherers |-> "search"]
  /\ item = [g \in Gatherers |-> None]
  /\ lane = [g \in Gatherers |-> 1]
  /\ key = [g \in Gatherers |-> 1]
  /\ faults = 0 /\ bought = 0 /\ late = 0

store == <<hot, cold>>
asked == <<lane, key>>
paid  == <<bought, late>>

Goto(g, site) == pc' = [pc EXCEPT ![g] = site]
At(g, e, site) == entry' = [entry EXCEPT ![g] = e] /\ Goto(g, site)
Has(g, it) == item' = [item EXCEPT ![g] = it]
Fault == faults < MaxFaults /\ faults' = faults + 1

-----------------------------------------------------------------------------
(* cache_get and cache_set. *)

\* gather of the intel cache, or straight to the agent and its search.
Gather(g) ==
  /\ pc[g] \in Rest
  /\ At(g, IF INTEL_CACHE THEN "intel" ELSE "search", "read_hot")
  /\ Has(g, None)
  /\ UNCHANGED <<store, day, asked, faults, paid>>

\* A hit on the intel is the answer, one on the search goes to the agent.
Hit(g, it) ==
  /\ Has(g, it)
  /\ Goto(g, IF entry[g] = "intel" THEN "done" ELSE "extract")
  /\ UNCHANGED <<entry, asked>>

\* No intel: run the agent, which searches.  No search: ask the providers.
Miss(g) ==
  /\ IF entry[g] = "intel" THEN At(g, "search", "read_hot")
     ELSE Goto(g, "ask") /\ UNCHANGED entry
  /\ UNCHANGED <<item, asked>>

HotHas(e) == hot[e] # None /\ day < hot[e].until

\* A hit, or on to the table: on a miss, and when the call fails.
ReadHot(g) ==
  /\ pc[g] = "read_hot"
  /\ \/ /\ HotHas(entry[g])
        /\ Hit(g, hot[entry[g]].item)
        /\ UNCHANGED faults
     \/ /\ Goto(g, "read_cold")
        /\ IF HotHas(entry[g]) THEN Fault ELSE UNCHANGED faults
        /\ UNCHANGED <<entry, item, asked>>
  /\ UNCHANGED <<store, day, paid>>

RowHas(e) == cold[e] # None /\ day - cold[e].created < MaxAge

\* Mutant: a hit of the table warms Redis up again.
ReadColdAndWarm(g) ==
  /\ pc[g] = "read_cold"
  /\ \/ /\ RowHas(entry[g]) /\ Hit(g, cold[entry[g]].item)
        /\ hot' = [hot EXCEPT ![entry[g]] =
                     [item |-> cold[entry[g]].item, until |-> day + TTL[entry[g]]]]
        /\ UNCHANGED faults
     \/ /\ Miss(g)
        /\ IF RowHas(entry[g]) THEN Fault ELSE UNCHANGED faults
        /\ UNCHANGED hot
  /\ UNCHANGED <<cold, day, paid>>

\* A hit leaves Redis as it is.
ReadCold(g) ==
  /\ pc[g] = "read_cold"
  /\ \/ /\ RowHas(entry[g])
        /\ Hit(g, cold[entry[g]].item)
        /\ UNCHANGED faults
     \/ /\ Miss(g)
        /\ IF RowHas(entry[g]) THEN Fault ELSE UNCHANGED faults
  /\ UNCHANGED <<store, day, paid>>

\* A write that fails is swallowed, whether or not it took effect.
WriteHot(g) ==
  /\ pc[g] = "write_hot"
  /\ LET new == [hot EXCEPT ![entry[g]] = [item |-> item[g], until |-> day + TTL[entry[g]]]]
     IN \/ hot' = new /\ UNCHANGED faults
        \/ hot' \in {hot, new} /\ Fault
  /\ Goto(g, "write_cold")
  /\ UNCHANGED <<cold, day, entry, item, asked, paid>>

\* Mutant: ON CONFLICT DO NOTHING.
Row(g) == IF cold[entry[g]] = None THEN [item |-> item[g], created |-> day] ELSE cold[entry[g]]

\* ON CONFLICT DO UPDATE SET value, created_at = now().
Upsert(g) == [item |-> item[g], created |-> day]

WriteCold(g) ==
  /\ pc[g] = "write_cold"
  /\ LET new == [cold EXCEPT ![entry[g]] = Upsert(g)]
     IN \/ cold' = new /\ UNCHANGED faults
        \/ cold' \in {cold, new} /\ Fault
  /\ Goto(g, IF entry[g] = "intel" THEN "done" ELSE "extract")
  /\ UNCHANGED <<hot, day, entry, item, asked, paid>>

-----------------------------------------------------------------------------
(* The chain of providers. *)

rest == <<store, day, entry, faults>>

Asks(g) == pc[g] = "ask" /\ lane[g] \in Lane /\ Providers[lane[g]] > 0

\* A 200 is counted against the budget of the day before its results are looked at.
\* The history ends with the first call of a layer that fails.
Count(pages) ==
  IF faults = 0
  THEN /\ bought' = bought + pages
       /\ late' = late + IF RowHas("search") THEN 1 ELSE 0
  ELSE UNCHANGED paid

\* The chain ends; the next search starts at the first key.
Leave(g, site) ==
  /\ Goto(g, site)
  /\ lane' = [lane EXCEPT ![g] = 1] /\ key' = [key EXCEPT ![g] = 1]

NextProvider(g) ==
  /\ lane' = [lane EXCEPT ![g] = @ + 1] /\ key' = [key EXCEPT ![g] = 1]
  /\ UNCHANGED <<pc, item>>

\* Pages, one paid request; both caches get them.
Pages(g) ==
  /\ Asks(g)
  /\ Has(g, [at |-> day, made |-> day])
  /\ Leave(g, "write_hot")
  /\ Count(1)
  /\ UNCHANGED rest

\* A paid answer without pages: no results, so the next provider is asked too; or no
\* JSON, so search raises, and search_all goes on without this query.
NoPages(g) ==
  /\ Asks(g)
  /\ \/ NextProvider(g)
     \/ Leave(g, "extract") /\ UNCHANGED item
  /\ Count(0)
  /\ UNCHANGED rest

\* Mutant: the rotation comes back to the first key.
RotateForEver(g) ==
  /\ Asks(g)
  /\ key' = [key EXCEPT ![g] = (@ % Providers[lane[g]]) + 1]
  /\ UNCHANGED <<pc, item, lane, paid, rest>>

\* 401, 403 or 429: the next key; with the last key, the next provider.
Refused(g) ==
  /\ Asks(g)
  /\ IF key[g] < Providers[lane[g]]
     THEN key' = [key EXCEPT ![g] = @ + 1] /\ UNCHANGED <<pc, item, lane>>
     ELSE NextProvider(g)
  /\ UNCHANGED <<paid, rest>>

\* Another error, a transport error, or no key configured.
Barren(g) ==
  /\ pc[g] = "ask" /\ lane[g] \in Lane
  /\ NextProvider(g)
  /\ UNCHANGED <<paid, rest>>

\* After the providers the site of the rival, when the query names it; nothing
\* that comes back empty is cached.
Scrape(g) ==
  /\ pc[g] = "ask" /\ lane[g] = Scraper
  /\ \/ Has(g, [at |-> day, made |-> day]) /\ Leave(g, "write_hot")
     \/ Leave(g, "extract") /\ UNCHANGED item
  /\ UNCHANGED <<paid, rest>>

Hits(g) == \/ pc[g] = "read_hot"  /\ HotHas(entry[g])
           \/ pc[g] = "read_cold" /\ RowHas(entry[g])

\* An event write raises: search raises, and search_all goes on without this query.
SearchRaises(g) ==
  /\ pc[g] = "ask" \/ (entry[g] = "search" /\ Hits(g))
  /\ Leave(g, "extract")
  /\ UNCHANGED <<item, paid, rest>>

-----------------------------------------------------------------------------
\* Mutant: an agent without pages delivers nothing for the rival.
ExtractNothing(g) ==
  /\ pc[g] = "extract"
  /\ Has(g, IF item[g] = None THEN None ELSE [at |-> item[g].at, made |-> day])
  /\ Goto(g, "done")
  /\ UNCHANGED <<store, day, entry, asked, faults, paid>>

\* The agent turns the pages into intel, low signal or not; without pages it is
\* low signal.  The intel is cached, either way.
Extract(g) ==
  /\ pc[g] = "extract"
  /\ Has(g, [at |-> IF item[g] = None THEN day ELSE item[g].at, made |-> day])
  /\ IF INTEL_CACHE
     THEN At(g, "intel", "write_hot")
     ELSE Goto(g, "done") /\ UNCHANGED entry
  /\ UNCHANGED <<store, day, asked, faults, paid>>

\* An event write of the agent, or of a hit on the intel, raises: its branch of
\* the graph degrades.
AgentRaises(g) ==
  /\ pc[g] = "extract" \/ (entry[g] = "intel" /\ Hits(g))
  /\ Goto(g, "raised")
  /\ Has(g, None)
  /\ UNCHANGED <<store, day, entry, asked, faults, paid>>

\* Redis is flushed, restarted, or evicts the entry.
Flush ==
  /\ \E e \in Entries : hot' = [hot EXCEPT ![e] = None]
  /\ UNCHANGED <<cold, day, pc, entry, item, asked, faults, paid>>

\* Redis drops what expires; the runs of the next day start afresh.
NextDay ==
  /\ day < LastDay /\ \A g \in Gatherers : pc[g] \in Rest
  /\ day' = day + 1
  /\ hot' = [e \in Entries |-> IF HotHas(e) /\ day + 1 < hot[e].until THEN hot[e] ELSE None]
  /\ pc' = [g \in Gatherers |-> "idle"]
  /\ entry' = [g \in Gatherers |-> "search"]
  /\ item' = [g \in Gatherers |-> None]
  /\ IF cold["search"] # None /\ day + 1 - cold["search"].created < MaxAge
     THEN UNCHANGED paid
     ELSE bought' = 0 /\ late' = 0
  /\ UNCHANGED <<cold, asked, faults>>

Step(g) == \/ ReadHot(g) \/ ReadCold(g) \/ WriteHot(g) \/ WriteCold(g)
           \/ Pages(g) \/ NoPages(g) \/ Refused(g) \/ Barren(g) \/ Scrape(g)
           \/ SearchRaises(g) \/ Extract(g) \/ AgentRaises(g)

Next == \/ \E g \in Gatherers : Gather(g) \/ Step(g)
        \/ Flush
        \/ NextDay

Spec == Init /\ [][Next]_vars /\ \A g \in Gatherers : WF_vars(Step(g))

-----------------------------------------------------------------------------
(* Properties. *)

Life(e) == IF TTL[e] > MaxAge THEN TTL[e] ELSE MaxAge

\* The ages add up, intel made of an old search is kept as long as any other,
\* but they are bounded: neither layer ever renews what it only read.
StalenessIsBounded ==
  \A g \in Gatherers : pc[g] = "done" =>
    day - item[g].at <= (Life("intel") - 1) + (Life("search") - 1)

Configured == {l \in Lane : Providers[l] > 0}

\* While no call of a layer fails, and until the row of a search is stale, its pages
\* are bought at most once by each concurrent gatherer, whatever is flushed from
\* Redis; and once the row is there it ends the asking: only the gatherers that were
\* already asking, all but the one that stored, still pay, each provider once at most.
\* (Before there is a row nothing bounds the answers without pages: each is counted,
\* none is cached, and every later gathering pays for them again.)
StampedeIsBounded ==
  faults = 0 =>
    /\ bought <= Cardinality(Gatherers)
    /\ late <= (Cardinality(Gatherers) - 1) * Cardinality(Configured)

\* Whatever the caches and the providers do, a gathering ends.
GatheringsEnd == \A g \in Gatherers : pc[g] \notin Rest ~> pc[g] \in Rest

-----------------------------------------------------------------------------
(* The inductive invariant behind the bound on the ages. *)

\* How old its pages may be when an item is made.
Spread(e) == IF e = "intel" THEN Life("search") - 1 ELSE 0

\* Neither layer keeps an item longer than from the day it was made.
LayerInv(e) ==
  /\ hot[e] # None =>
       /\ hot[e].until <= hot[e].item.made + TTL[e]
       /\ hot[e].item.made <= hot[e].item.at + Spread(e)
  /\ cold[e] # None =>
       /\ cold[e].created <= cold[e].item.made
       /\ cold[e].item.made <= cold[e].item.at + Spread(e)

\* Only what was made today is written; an agent works on one search, or none.
ItemInv(g) ==
  /\ pc[g] \in {"read_hot", "read_cold", "ask"} => item[g] = None
  /\ pc[g] = "ask" => entry[g] = "search"
  /\ pc[g] \in {"write_hot", "write_cold"} =>
       item[g].made = day /\ day <= item[g].at + Spread(entry[g])
  /\ pc[g] = "extract" => item[g] = None \/ day <= item[g].at + Spread("intel")

AgesInv ==
  /\ \A e \in Entries : LayerInv(e)
  /\ \A g \in Gatherers : ItemInv(g)
  /\ StalenessIsBounded

\* The inductive invariant behind the bounds on the paid searches: before there is a
\* row, whoever has bought pages is about to write it; with it, only those who already
\* ask may still pay, the providers they have not asked yet.
Asking  == {g \in Gatherers : pc[g] = "ask"}
Storing == {g \in Gatherers : entry[g] = "search" /\ pc[g] \in {"write_hot", "write_cold"}}
Pending == {r \in Gatherers \X Configured : pc[r[1]] = "ask" /\ lane[r[1]] <= r[2]}

BoughtInv ==
  IF RowHas("search") THEN bought + Cardinality(Asking) <= Cardinality(Gatherers)
  ELSE bought <= Cardinality(Storing)

LateInv ==
  IF RowHas("search")
  THEN late + Cardinality(Pending) <= (Cardinality(Gatherers) - 1) * Cardinality(Configured)
  ELSE late = 0

PaidInv == faults = 0 => BoughtInv /\ LateInv
=============================================================================
