-------------------------- MODULE SearchCacheProofs --------------------------
(***************************************************************************)
(* Type correctness of SearchCache, and the bounds on the age of what it   *)
(* serves and on what is paid for one search, for any times to live,       *)
(* providers, gatherers and failures.                                      *)
(***************************************************************************)
EXTENDS SearchCache, SequenceTheorems, FiniteSetTheorems, TLAPS

\* What a read that hits returns is an item of the store, not None.
LEMMA ItemsAreSome ==
  ASSUME TypeOK
  PROVE  \A e \in Entries :
           /\ hot[e] # None => hot[e].item \in Item /\ hot[e].until \in Nat
           /\ cold[e] # None => cold[e].item \in Item /\ cold[e].created \in Nat
BY DEF TypeOK

\* The first lane and the scraper are lanes; a lane has a next one.
LEMMA LanesGoUp ==
  /\ 1 \in 1..Scraper
  /\ \A l \in Lane : l + 1 \in 1..Scraper
<1>1. Len(Providers) \in Nat
  BY ConfigAssumption, LenProperties
<1>2. QED
  BY <1>1 DEF Lane, Scraper

\* Counting a paid answer keeps the counts numbers.
LEMMA CountsAreNumbers ==
  ASSUME TypeOK, NEW pages \in Nat, Count(pages)
  PROVE  bought' \in Nat /\ late' \in Nat
BY DEF Count, paid, TypeOK

\* The variables keep their types, and what is about to be written, or was
\* delivered, is there.
LEMMA TypeStep ==
  ASSUME TypeOK, [Next]_vars
  PROVE  TypeOK'
<1> USE DEF Rest, Sites
<1>. DEFINE Ok == TypeOK'
<1>0. LastDay \in Nat /\ MaxFaults \in Nat /\ TTL \in [Entries -> Nat] /\ day \in Nat
  BY ConfigAssumption DEF TypeOK
<1>1. ASSUME NEW g \in Gatherers, Gather(g) PROVE Ok
  BY <1>1 DEF Gather, At, Goto, Has, store, asked, paid, TypeOK, Entries
<1>2. ASSUME NEW g \in Gatherers, ReadHot(g) PROVE Ok
  <2>1. CASE HotHas(entry[g]) /\ Hit(g, hot[entry[g]].item) /\ UNCHANGED faults
    <3>1. hot[entry[g]].item \in Item /\ hot[entry[g]].item # None
      BY <2>1, ItemsAreSome, NoneAssumption DEF HotHas, TypeOK
    <3>2. QED
      BY <1>2, <2>1, <3>1 DEF ReadHot, Hit, Has, Goto, store, asked, paid, TypeOK
  <2>2. CASE /\ Goto(g, "read_cold")
             /\ IF HotHas(entry[g]) THEN Fault ELSE UNCHANGED faults
             /\ UNCHANGED <<entry, item, asked>>
    BY <1>0, <1>2, <2>2 DEF ReadHot, Goto, Fault, store, asked, paid, TypeOK
  <2>3. QED
    BY <1>2, <2>1, <2>2 DEF ReadHot
<1>3. ASSUME NEW g \in Gatherers, ReadCold(g) PROVE Ok
  <2>1. CASE RowHas(entry[g]) /\ Hit(g, cold[entry[g]].item) /\ UNCHANGED faults
    <3>1. cold[entry[g]].item \in Item /\ cold[entry[g]].item # None
      BY <2>1, ItemsAreSome, NoneAssumption DEF RowHas, TypeOK
    <3>2. QED
      BY <1>3, <2>1, <3>1 DEF ReadCold, Hit, Has, Goto, store, asked, paid, TypeOK
  <2>2. CASE Miss(g) /\ IF RowHas(entry[g]) THEN Fault ELSE UNCHANGED faults
    BY <1>0, <1>3, <2>2 DEF ReadCold, Miss, At, Goto, Fault, store, asked, paid, TypeOK, Entries
  <2>3. QED
    BY <1>3, <2>1, <2>2 DEF ReadCold
<1>4. ASSUME NEW g \in Gatherers, WriteHot(g) PROVE Ok
  <2>1. item[g] \in Item /\ entry[g] \in Entries
    BY <1>4 DEF WriteHot, TypeOK
  <2>. DEFINE new == [hot EXCEPT ![entry[g]] = [item |-> item[g], until |-> day + TTL[entry[g]]]]
  <2>2. new \in [Entries -> {None} \cup [item : Item, until : Nat]]
    BY <1>0, <2>1 DEF TypeOK
  <2>3. hot' \in {hot, new} /\ faults' \in 0..MaxFaults
    BY <1>0, <1>4 DEF WriteHot, Fault, TypeOK
  <2>4. hot' \in [Entries -> {None} \cup [item : Item, until : Nat]]
    BY <2>2, <2>3 DEF TypeOK
  <2>5. QED
    BY <1>4, <2>1, <2>3, <2>4, NoneAssumption DEF WriteHot, Goto, asked, paid, TypeOK
<1>5. ASSUME NEW g \in Gatherers, WriteCold(g) PROVE Ok
  <2>1. item[g] \in Item /\ entry[g] \in Entries
    BY <1>5 DEF WriteCold, TypeOK
  <2>. DEFINE new == [cold EXCEPT ![entry[g]] = Upsert(g)]
  <2>2. new \in [Entries -> {None} \cup [item : Item, created : 0..LastDay]]
    BY <2>1 DEF TypeOK, Upsert
  <2>3. cold' \in {cold, new} /\ faults' \in 0..MaxFaults
    BY <1>0, <1>5 DEF WriteCold, Fault, TypeOK
  <2>4. cold' \in [Entries -> {None} \cup [item : Item, created : 0..LastDay]]
    BY <2>2, <2>3 DEF TypeOK
  <2>5. QED
    BY <1>5, <2>1, <2>3, <2>4, NoneAssumption DEF WriteCold, Goto, asked, paid, TypeOK
<1>6. ASSUME NEW g \in Gatherers, Pages(g) PROVE Ok
  <2>1. [at |-> day, made |-> day] \in Item
    BY DEF TypeOK, Item
  <2>2. QED
    BY <1>6, <2>1, LanesGoUp, CountsAreNumbers, NoneAssumption
     DEF Pages, Has, Leave, Goto, rest, store, TypeOK
<1>7. ASSUME NEW g \in Gatherers, Refused(g) PROVE Ok
  <2>1. lane[g] \in Lane /\ key[g] \in Nat /\ key[g] + 1 \in Nat
    BY <1>7 DEF Refused, Asks, TypeOK
  <2>2. lane[g] + 1 \in 1..Scraper
    BY <2>1, LanesGoUp
  <2>3. QED
    BY <1>7, <2>1, <2>2 DEF Refused, NextProvider, paid, rest, store, TypeOK
<1>8. ASSUME NEW g \in Gatherers, Barren(g) PROVE Ok
  <2>1. lane[g] + 1 \in 1..Scraper
    BY <1>8, LanesGoUp DEF Barren
  <2>2. QED
    BY <1>8, <2>1 DEF Barren, NextProvider, paid, rest, store, TypeOK
<1>9. ASSUME NEW g \in Gatherers, Scrape(g) PROVE Ok
  <2>1. [at |-> day, made |-> day] \in Item
    BY DEF TypeOK, Item
  <2>2. QED
    BY <1>9, <2>1, LanesGoUp, NoneAssumption DEF Scrape, Has, Leave, Goto, paid, rest, store, TypeOK
<1>10. ASSUME NEW g \in Gatherers, SearchRaises(g) PROVE Ok
  BY <1>10, LanesGoUp DEF SearchRaises, Leave, Goto, paid, rest, store, TypeOK
<1>11. ASSUME NEW g \in Gatherers, Extract(g) PROVE Ok
  <2>. DEFINE it == [at |-> IF item[g] = None THEN day ELSE item[g].at, made |-> day]
  <2>1. it \in Item
    BY DEF TypeOK, Item
  <2>2. item' = [item EXCEPT ![g] = it]
    BY <1>11 DEF Extract, Has
  <2>3. it # None
    BY <2>1, NoneAssumption
  <2>. HIDE DEF it
  <2>4. QED
    BY <1>11, <2>1, <2>2, <2>3 DEF Extract, At, Goto, store, asked, paid, TypeOK, Entries
<1>12. ASSUME NEW g \in Gatherers, AgentRaises(g) PROVE Ok
  BY <1>12 DEF AgentRaises, Has, Goto, store, asked, paid, TypeOK
<1>13. CASE Flush
  BY <1>13 DEF Flush, asked, paid, TypeOK
<1>14. CASE NextDay
  <2>1. day' \in 0..LastDay
    BY <1>0, <1>14 DEF NextDay, TypeOK
  <2>2. bought' \in Nat /\ late' \in Nat
    BY <1>14 DEF NextDay, paid, TypeOK
  <2>3. QED
    BY <1>14, <2>1, <2>2 DEF NextDay, asked, TypeOK, Entries, Sites, Rest
<1>15. CASE UNCHANGED vars
  BY <1>15 DEF vars, TypeOK
<1>16. ASSUME NEW g \in Gatherers, NoPages(g) PROVE Ok
  <2>1. lane[g] + 1 \in 1..Scraper
    BY <1>16, LanesGoUp DEF NoPages, Asks
  <2>2. QED
    BY <1>16, <2>1, LanesGoUp, CountsAreNumbers
       DEF NoPages, NextProvider, Leave, Goto, rest, store, TypeOK
<1>17. QED
  BY <1>1, <1>2, <1>3, <1>4, <1>5, <1>6, <1>7, <1>8, <1>9, <1>10, <1>11, <1>12,
     <1>13, <1>14, <1>15, <1>16 DEF Next, Step

\* The initial state is typed.
LEMMA TypeInit == Init => TypeOK
<1>1. 0 \in 0..LastDay /\ 0 \in 0..MaxFaults
  BY ConfigAssumption
<1>2. QED
  BY <1>1, LanesGoUp DEF Init, TypeOK, Entries, Rest, Sites

\* Caches, gatherers and counters keep their types, and nothing is written or
\* delivered that was not found or made (SearchCache!TypeOK).
THEOREM TypeCorrect == Spec => []TypeOK
BY TypeInit, TypeStep, PTL DEF Spec

-----------------------------------------------------------------------------
(* The ages. *)

\* StalenessIsBounded for one gatherer.
Served(g) == pc[g] = "done" =>
  day - item[g].at <= (Life("intel") - 1) + (Life("search") - 1)

\* A cache life is at least a day, and as long as either layer's.
LEMMA LivesAreLong ==
  \A e \in Entries : /\ Life(e) \in Nat /\ TTL[e] \in Nat
                     /\ Life(e) >= 1 /\ Life(e) >= TTL[e] /\ Life(e) >= MaxAge
                     /\ Spread(e) \in Nat /\ Spread(e) <= Spread("intel")
                     /\ Spread("search") = 0
BY ConfigAssumption DEF Life, Spread, Entries

\* A gatherer that does not move today keeps what is known of it.
LEMMA OthersKeepTheirAge ==
  ASSUME NEW h \in Gatherers, ItemInv(h), Served(h), day' = day,
         pc'[h] = pc[h], item'[h] = item[h], entry'[h] = entry[h]
  PROVE  ItemInv(h)' /\ Served(h)'
BY DEF ItemInv, Served, Spread, Life

\* A hit, on either layer, is young enough for whoever asked.
LEMMA HitsAreYoung ==
  ASSUME TypeOK, NEW g \in Gatherers, NEW it \in Item, Hit(g, it), UNCHANGED day,
         it.made <= it.at + Spread(entry[g]),
         day - it.made <= Life(entry[g]) - 1
  PROVE  ItemInv(g)' /\ Served(g)'
<1>1. entry[g] \in Entries /\ entry'[g] = entry[g] /\ item'[g] = it /\ day \in Nat
  BY DEF Hit, Has, TypeOK
<1>2. pc'[g] = IF entry[g] = "intel" THEN "done" ELSE "extract"
  BY DEF Hit, Goto, TypeOK
<1>3. it.at \in Nat /\ it.made \in Nat
  BY ConfigAssumption DEF Item
<1>4. day' <= it.at + (Life(entry[g]) - 1) + Spread(entry[g])
  BY <1>1, <1>3, LivesAreLong
<1>5. CASE entry[g] = "intel"
  <2>1. Spread("intel") = Life("search") - 1
    BY DEF Spread
  <2>2. Served(g)'
    BY <1>1, <1>2, <1>3, <1>4, <1>5, <2>1, LivesAreLong DEF Served, Life, Entries
  <2>3. ItemInv(g)'
    BY <1>2, <1>5 DEF ItemInv
  <2>4. QED
    BY <2>2, <2>3
<1>6. CASE entry[g] = "search"
  <2>1. day' <= it.at + Spread("intel")
    BY <1>1, <1>3, <1>4, <1>6, LivesAreLong DEF Spread, Entries
  <2>2. QED
    BY <1>1, <1>2, <1>6, <2>1 DEF ItemInv, Served, Spread, Life
<1>7. QED
  BY <1>1, <1>5, <1>6 DEF Entries

\* Only the gatherer that steps changes what it holds, and no step takes a day.
LEMMA StepIsLocal ==
  ASSUME TypeOK, NEW g \in Gatherers, Gather(g) \/ Step(g)
  PROVE  /\ day' = day
         /\ \A h \in Gatherers \ {g} :
              pc'[h] = pc[h] /\ item'[h] = item[h] /\ entry'[h] = entry[h]
<1> USE DEF Goto, At, Has, TypeOK
<1>1. CASE Gather(g)
  BY <1>1 DEF Gather
<1>2. CASE ReadHot(g)
  BY <1>2 DEF ReadHot, Hit
<1>3. CASE ReadCold(g)
  BY <1>3 DEF ReadCold, Hit, Miss
<1>4. CASE WriteHot(g) \/ WriteCold(g)
  BY <1>4 DEF WriteHot, WriteCold
<1>5. CASE Pages(g) \/ NoPages(g) \/ Scrape(g) \/ SearchRaises(g)
  BY <1>5 DEF Pages, NoPages, NextProvider, Scrape, SearchRaises, Leave, rest
<1>6. CASE Refused(g) \/ Barren(g)
  BY <1>6 DEF Refused, Barren, NextProvider, rest
<1>7. CASE Extract(g) \/ AgentRaises(g)
  BY <1>7 DEF Extract, AgentRaises
<1>8. QED
  BY <1>1, <1>2, <1>3, <1>4, <1>5, <1>6, <1>7 DEF Step

\* The gatherer that steps keeps its own part of the invariant.
LEMMA OwnAge ==
  ASSUME TypeOK, AgesInv, NEW g \in Gatherers, Gather(g) \/ Step(g)
  PROVE  ItemInv(g)' /\ Served(g)'
<1>0. /\ ItemInv(g) /\ day \in Nat /\ day' = day /\ entry[g] \in Entries
      /\ \A e \in Entries : LayerInv(e)
  BY StepIsLocal DEF AgesInv, TypeOK
<1>1. CASE Gather(g)
  BY <1>1 DEF Gather, At, Goto, Has, TypeOK, ItemInv, Served, Rest
<1>2. CASE ReadHot(g)
  <2>1. CASE HotHas(entry[g]) /\ Hit(g, hot[entry[g]].item)
    <3>. DEFINE it == hot[entry[g]].item
    <3>1. it \in Item /\ hot[entry[g]].until \in Nat /\ day < hot[entry[g]].until
      BY <1>0, <2>1, ItemsAreSome DEF HotHas
    <3>2. it.made <= it.at + Spread(entry[g]) /\ hot[entry[g]].until <= it.made + TTL[entry[g]]
      BY <1>0, <2>1 DEF HotHas, LayerInv
    <3>3. it.made \in Nat
      BY <3>1, ConfigAssumption DEF Item
    <3>4. day - it.made <= Life(entry[g]) - 1
      BY <1>0, <3>1, <3>2, <3>3, LivesAreLong
    <3>5. QED
      BY <1>0, <2>1, <3>1, <3>2, <3>4, HitsAreYoung
  <2>2. CASE Goto(g, "read_cold") /\ UNCHANGED <<entry, item, asked>>
    BY <1>0, <1>2, <2>2 DEF ReadHot, Goto, TypeOK, ItemInv, Served
  <2>3. QED
    BY <1>2, <2>1, <2>2 DEF ReadHot
<1>3. CASE ReadCold(g)
  <2>1. CASE RowHas(entry[g]) /\ Hit(g, cold[entry[g]].item)
    <3>. DEFINE it == cold[entry[g]].item
    <3>1. it \in Item /\ cold[entry[g]].created \in Nat /\ day - cold[entry[g]].created < MaxAge
      BY <1>0, <2>1, ItemsAreSome DEF RowHas
    <3>2. it.made <= it.at + Spread(entry[g]) /\ cold[entry[g]].created <= it.made
      BY <1>0, <2>1 DEF RowHas, LayerInv
    <3>3. it.made \in Nat /\ MaxAge \in Nat
      BY <3>1, ConfigAssumption DEF Item
    <3>4. day - it.made <= Life(entry[g]) - 1
      BY <1>0, <3>1, <3>2, <3>3, LivesAreLong
    <3>5. QED
      BY <1>0, <2>1, <3>1, <3>2, <3>4, HitsAreYoung
  <2>2. CASE Miss(g)
    BY <1>0, <1>3, <2>2 DEF ReadCold, Miss, At, Goto, TypeOK, ItemInv, Served, Entries
  <2>3. QED
    BY <1>3, <2>1, <2>2 DEF ReadCold
<1>4. CASE WriteHot(g)
  BY <1>0, <1>4 DEF WriteHot, Goto, TypeOK, ItemInv, Served, Spread, Life
<1>5. CASE WriteCold(g)
  <2>1. /\ pc'[g] = IF entry[g] = "intel" THEN "done" ELSE "extract"
        /\ item'[g] = item[g] /\ entry'[g] = entry[g] /\ item[g] \in Item
    BY <1>5 DEF WriteCold, Goto, TypeOK
  <2>2. day <= item[g].at + Spread(entry[g]) /\ item[g].at \in Nat
    BY <1>0, <1>5, <2>1, ConfigAssumption DEF WriteCold, ItemInv, Item
  <2>3. CASE entry[g] = "intel"
    <3>1. day - item[g].at <= (Life("intel") - 1) + (Life("search") - 1)
      BY <1>0, <2>2, <2>3, LivesAreLong DEF Spread, Entries
    <3>2. QED
      BY <1>0, <2>1, <2>3, <3>1 DEF ItemInv, Served, Life
  <2>4. CASE entry[g] = "search"
    <3>1. day <= item[g].at + Spread("intel")
      <4>1. "intel" \in Entries /\ "search" \in Entries
        BY DEF Entries
      <4>2. Spread("search") = 0
        BY DEF Spread
      <4>3. Spread("intel") \in Nat
        BY <4>1, LivesAreLong
      <4>4. QED
        BY <1>0, <2>2, <2>4, <4>2, <4>3
    <3>2. QED
      BY <1>0, <2>1, <2>4, <3>1 DEF ItemInv, Served, Spread, Life
  <2>5. QED
    BY <1>0, <2>3, <2>4 DEF Entries
<1>6. CASE Pages(g) \/ Scrape(g)
  <2>1. entry'[g] = entry[g] /\ entry[g] = "search"
    BY <1>0, <1>6 DEF Pages, Scrape, Asks, rest, ItemInv
  <2>2. \/ pc'[g] = "write_hot" /\ item'[g] = [at |-> day, made |-> day]
        \/ pc'[g] = "extract" /\ item'[g] = item[g] /\ item[g] = None
    BY <1>0, <1>6 DEF Pages, Scrape, Asks, Has, Leave, Goto, TypeOK, ItemInv
  <2>3. QED
    BY <1>0, <2>1, <2>2, LivesAreLong DEF ItemInv, Served
<1>7. CASE Refused(g) \/ Barren(g)
  BY <1>0, <1>7 DEF Refused, Barren, Asks, NextProvider, rest, TypeOK, ItemInv, Served
<1>8. CASE NoPages(g) \/ SearchRaises(g)
  <2>1. /\ item[g] = None /\ item'[g] = None /\ entry'[g] = entry[g]
        /\ pc'[g] = "extract" \/ (pc[g] = "ask" /\ pc'[g] = "ask")
    BY <1>0, <1>8 DEF NoPages, SearchRaises, Asks, Hits, NextProvider, Leave, Goto, rest,
       TypeOK, ItemInv
  <2>2. QED
    BY <1>0, <2>1 DEF ItemInv, Served
<1>9. CASE Extract(g)
  <2>. DEFINE it == [at |-> IF item[g] = None THEN day ELSE item[g].at, made |-> day]
  <2>1. /\ pc[g] = "extract" /\ item'[g] = it
        /\ \/ pc'[g] = "write_hot" /\ entry'[g] = "intel"
           \/ pc'[g] = "done"
    BY <1>9 DEF Extract, At, Has, Goto, TypeOK
  <2>2. it.at \in Nat /\ day <= it.at + Spread("intel") /\ it.made = day
    <3>1. item[g] \in {None} \cup Item
      BY DEF TypeOK
    <3>2. CASE item[g] = None
      BY <1>0, <3>2, LivesAreLong DEF Entries
    <3>3. CASE item[g] \in Item /\ item[g] # None
      BY <1>0, <2>1, <3>3, ConfigAssumption DEF ItemInv, Item
    <3>4. QED
      BY <3>1, <3>2, <3>3
  <2>. HIDE DEF it
  <2>3. day - it.at <= (Life("intel") - 1) + (Life("search") - 1)
    BY <1>0, <2>2, LivesAreLong DEF Spread, Entries
  <2>4. QED
    BY <1>0, <2>1, <2>2, <2>3 DEF ItemInv, Served, Spread, Life
<1>10. CASE AgentRaises(g)
  BY <1>10 DEF AgentRaises, Goto, TypeOK, ItemInv, Served
<1>11. QED
  BY <1>1, <1>2, <1>3, <1>4, <1>5, <1>6, <1>7, <1>8, <1>9, <1>10 DEF Step

\* The layers are given today's items for their time to live, and lose entries.
LEMMA LayersKeepTheirAge ==
  ASSUME TypeOK, AgesInv, [Next]_vars, NEW e \in Entries
  PROVE  LayerInv(e)'
<1>0. LayerInv(e) /\ \A g \in Gatherers : ItemInv(g)
  BY DEF AgesInv
<1>1. ASSUME NEW g \in Gatherers, WriteHot(g) PROVE LayerInv(e)'
  <2>1. item[g] \in Item /\ item[g].made = day /\ day <= item[g].at + Spread(entry[g])
    BY <1>0, <1>1 DEF WriteHot, TypeOK, ItemInv
  <2>2. cold' = cold /\ \/ hot'[e] = hot[e]
                        \/ /\ e = entry[g]
                           /\ hot'[e] = [item |-> item[g], until |-> day + TTL[e]]
    BY <1>1 DEF WriteHot, TypeOK
  <2>3. day \in Nat /\ TTL[e] \in Nat
    BY LivesAreLong DEF TypeOK
  <2>4. QED
    BY <1>0, <2>1, <2>2, <2>3 DEF LayerInv, Spread, Life
<1>2. ASSUME NEW g \in Gatherers, WriteCold(g) PROVE LayerInv(e)'
  <2>1. item[g] \in Item /\ item[g].made = day /\ day <= item[g].at + Spread(entry[g])
    BY <1>0, <1>2 DEF WriteCold, TypeOK, ItemInv
  <2>2. hot' = hot /\ \/ cold'[e] = cold[e]
                      \/ /\ e = entry[g]
                         /\ cold'[e] = [item |-> item[g], created |-> day]
    BY <1>2 DEF WriteCold, Upsert, TypeOK
  <2>3. day \in Nat
    BY DEF TypeOK
  <2>4. QED
    BY <1>0, <2>1, <2>2, <2>3 DEF LayerInv, Spread, Life
<1>3. CASE Flush \/ NextDay
  <2>1. cold' = cold /\ (hot'[e] = hot[e] \/ hot'[e] = None)
    BY <1>3 DEF Flush, NextDay, TypeOK
  <2>2. QED
    BY <1>0, <2>1 DEF LayerInv, Spread, Life
<1>4. CASE UNCHANGED store
  BY <1>0, <1>4 DEF store, LayerInv, Spread, Life
<1>5. \/ \E g \in Gatherers : WriteHot(g) \/ WriteCold(g)
      \/ Flush \/ NextDay
      \/ UNCHANGED store
  BY DEF Next, Step, Gather, ReadHot, ReadCold, Pages, NoPages, Refused, Barren, Scrape,
         SearchRaises, Extract, AgentRaises, rest, vars, store
<1>6. QED
  BY <1>1, <1>2, <1>3, <1>4, <1>5

\* The ages stay within their bounds.
LEMMA AgesStep ==
  ASSUME TypeOK, AgesInv, [Next]_vars
  PROVE  AgesInv'
<1>0. \A h \in Gatherers : ItemInv(h) /\ Served(h)
  BY DEF AgesInv, StalenessIsBounded, Served
<1>1. \A e \in Entries : LayerInv(e)'
  BY LayersKeepTheirAge
<1>2. ASSUME NEW h \in Gatherers PROVE ItemInv(h)' /\ Served(h)'
  <2>1. ASSUME NEW g \in Gatherers, Gather(g) \/ Step(g) PROVE ItemInv(h)' /\ Served(h)'
    <3>1. CASE h = g
      BY <2>1, <3>1, OwnAge
    <3>2. CASE h # g
      BY <1>0, <2>1, <3>2, StepIsLocal, OthersKeepTheirAge
    <3>3. QED
      BY <3>1, <3>2
  <2>2. CASE NextDay
    BY <2>2 DEF NextDay, ItemInv, Served
  <2>3. CASE Flush \/ UNCHANGED vars
    BY <1>0, <2>3, OthersKeepTheirAge DEF Flush, vars
  <2>4. QED
    BY <2>1, <2>2, <2>3 DEF Next
<1>3. QED
  BY <1>1, <1>2 DEF AgesInv, StalenessIsBounded, Served, Life

\* What a gathering delivers was fetched at most two cache lives ago, less the
\* two last days: one life as a search, and one as intel made of it
\* (cache_get, cache_set, gather).
THEOREM AgesAreBounded == Spec => []StalenessIsBounded
<1>1. Init => TypeOK /\ AgesInv
  <2>1. Init => AgesInv
    BY DEF Init, AgesInv, LayerInv, ItemInv, StalenessIsBounded
  <2>2. QED
    BY <2>1, TypeInit
<1>2. TypeOK /\ AgesInv /\ [Next]_vars => (TypeOK /\ AgesInv)'
  BY TypeStep, AgesStep
<1>3. AgesInv => StalenessIsBounded
  BY DEF AgesInv
<1>4. QED
  BY <1>1, <1>2, <1>3, PTL DEF Spec

-----------------------------------------------------------------------------
(* The paid searches. *)

\* Gatherers can be counted, and two sets of them without a common member together.
LEMMA GatherersAreCounted ==
  ASSUME NEW A \in SUBSET Gatherers, NEW S \in SUBSET Gatherers, A \cap S = {}
  PROVE  /\ IsFiniteSet(A) /\ IsFiniteSet(S)
         /\ Cardinality(A) \in Nat /\ Cardinality(S) \in Nat
         /\ Cardinality(Gatherers) \in Nat
         /\ Cardinality(A) + Cardinality(S) <= Cardinality(Gatherers)
<1>1. /\ IsFiniteSet(A) /\ IsFiniteSet(S)
      /\ Cardinality(Gatherers) \in Nat /\ Cardinality(A) \in Nat /\ Cardinality(S) \in Nat
  BY GatherersAssumption, FS_Subset, FS_CardinalityType
<1>2. Cardinality(A \cap S) = 0
  BY FS_EmptySet
<1>3. Cardinality(A \cup S) = Cardinality(A) + Cardinality(S)
  <2>1. Cardinality(A \cup S) = Cardinality(A) + Cardinality(S) - Cardinality(A \cap S)
    BY <1>1, FS_Union
  <2>2. QED
    BY <1>1, <1>2, <2>1
<1>4. A \cup S \in SUBSET Gatherers
  OBVIOUS
<1>5. Cardinality(A \cup S) <= Cardinality(Gatherers)
  BY <1>4, GatherersAssumption, FS_Subset
<1>6. QED
  BY <1>1, <1>3, <1>5

\* Whoever asks stores nothing yet.
LEMMA AskOrStore ==
  /\ Asking \in SUBSET Gatherers /\ Storing \in SUBSET Gatherers /\ Asking \cap Storing = {}
  /\ Asking' \in SUBSET Gatherers /\ Storing' \in SUBSET Gatherers /\ Asking' \cap Storing' = {}
BY DEF Asking, Storing

\* Without a fault a gatherer pays once for what it then stores; the row comes with
\* the first that has stored it, and nobody starts to ask while there is one.
LEMMA PaidEffects ==
  ASSUME TypeOK, AgesInv, NEW g \in Gatherers, Gather(g) \/ Step(g), faults' = 0
  PROVE  /\ faults = 0
         /\ \/ /\ g \in Asking /\ Asking' = Asking \ {g}
               /\ g \notin Storing /\ Storing' = Storing \cup {g}
               /\ bought' = bought + 1 /\ RowHas("search")' = RowHas("search")
            \/ Asking' = Asking /\ bought' = bought /\ RowHas("search")'
            \/ /\ Storing \subseteq Storing' /\ RowHas("search")' = RowHas("search")
               /\ RowHas("search") => Asking' \subseteq Asking
               /\ bought' = bought
<1>0. /\ ItemInv(g) /\ day' = day /\ day \in Nat /\ faults \in Nat
      /\ DOMAIN pc = Gatherers /\ DOMAIN entry = Gatherers /\ DOMAIN cold = Entries
      /\ MaxAge \in Nat \ {0} /\ entry[g] \in Entries
  BY StepIsLocal, ConfigAssumption DEF AgesInv, TypeOK
<1>. DEFINE Keeps == /\ Storing \subseteq Storing' /\ RowHas("search")' = RowHas("search")
                     /\ RowHas("search") => Asking' \subseteq Asking
                     /\ bought' = bought
<1>1. ~Fault /\ faults = 0
  BY <1>0 DEF Fault, Gather, Step, ReadHot, ReadCold, WriteHot, WriteCold, Pages, Refused,
     NoPages, Barren, Scrape, SearchRaises, Extract, AgentRaises, rest
<1>2. cold' = cold => RowHas("search")' = RowHas("search")
  BY <1>0 DEF RowHas
\* A gatherer that stores nothing and does not come to ask changes nothing here.
<1>3. ASSUME cold' = cold, bought' = bought, g \notin Storing,
             pc'[g] = "ask" => pc[g] = "ask" \/ ~RowHas("search")
      PROVE  Keeps
  BY <1>2, <1>3, StepIsLocal DEF Asking, Storing
<1>4. CASE Gather(g)
  BY <1>0, <1>1, <1>3, <1>4 DEF Gather, At, Goto, Storing, Rest, paid, store
<1>5. CASE ReadHot(g)
  BY <1>0, <1>1, <1>3, <1>5 DEF ReadHot, Hit, Goto, Storing, paid, store
<1>6. CASE ReadCold(g)
  BY <1>0, <1>1, <1>3, <1>6 DEF ReadCold, Hit, Miss, At, Goto, Storing, paid, store, Entries
<1>7. CASE WriteHot(g)
  <2>1. cold' = cold /\ bought' = bought /\ pc'[g] = "write_cold" /\ entry'[g] = entry[g]
    BY <1>0, <1>7 DEF WriteHot, Goto, paid
  <2>2. Keeps
    BY <1>2, <1>7, <2>1, StepIsLocal DEF Asking, Storing
  <2>3. QED
    BY <1>1, <2>2
<1>8. CASE WriteCold(g)
  <2>1. /\ cold' = [cold EXCEPT ![entry[g]] = Upsert(g)] /\ bought' = bought
        /\ pc[g] = "write_cold" /\ pc'[g] \in {"done", "extract"} /\ entry' = entry
    BY <1>0, <1>1, <1>8 DEF WriteCold, Goto, paid
  <2>2. Asking' = Asking
    BY <2>1, StepIsLocal DEF Asking
  <2>3. CASE entry[g] = "search"
    <3>1. cold'["search"] = [item |-> item[g], created |-> day]
      BY <1>0, <2>1, <2>3 DEF Upsert
    <3>2. cold'["search"] # None /\ cold'["search"].created = day
      <4>1. item[g] \in Item /\ day \in 0..LastDay
        BY <2>1 DEF TypeOK
      <4>2. QED
        BY <3>1, <4>1, NoneAssumption
    <3>3. RowHas("search")'
      BY <1>0, <3>2 DEF RowHas
    <3>4. QED
      BY <1>1, <2>1, <2>2, <3>3
  <2>4. CASE entry[g] = "intel"
    <3>1. cold'["search"] = cold["search"]
      BY <1>0, <2>1, <2>4
    <3>2. RowHas("search")' = RowHas("search")
      BY <1>0, <3>1 DEF RowHas
    <3>3. Storing \subseteq Storing'
      BY <2>1, <2>4, StepIsLocal DEF Storing
    <3>4. QED
      BY <1>1, <2>1, <2>2, <3>2, <3>3
  <2>5. QED
    BY <1>0, <2>3, <2>4 DEF Entries
<1>9. CASE Pages(g)
  <2>1. /\ pc[g] = "ask" /\ entry[g] = "search" /\ pc'[g] = "write_hot" /\ entry' = entry
        /\ cold' = cold /\ bought' = bought + 1
    BY <1>0, <1>1, <1>9 DEF Pages, Count, Asks, Leave, Goto, rest, store, ItemInv
  <2>2. g \in Asking /\ Asking' = Asking \ {g}
    BY <2>1, StepIsLocal DEF Asking
  <2>3. g \notin Storing /\ Storing' = Storing \cup {g}
    BY <2>1, StepIsLocal DEF Storing
  <2>4. QED
    BY <1>1, <1>2, <2>1, <2>2, <2>3
<1>10. CASE Refused(g) \/ Barren(g)
  BY <1>0, <1>1, <1>3, <1>10 DEF Refused, Barren, Asks, NextProvider, paid, rest, store, Storing
<1>11. CASE Scrape(g) \/ SearchRaises(g)
  BY <1>0, <1>1, <1>3, <1>11 DEF Scrape, SearchRaises, Hits, Leave, Goto, paid, rest, store, Storing
<1>12. CASE Extract(g) \/ AgentRaises(g)
  BY <1>0, <1>1, <1>3, <1>12 DEF Extract, AgentRaises, Hits, At, Goto, paid, store, Storing
<1>13. CASE NoPages(g)
  <2>1. bought' = bought
    BY <1>1, <1>13 DEF NoPages, Count, TypeOK
  <2>2. QED
    BY <1>0, <1>1, <1>3, <1>13, <2>1
       DEF NoPages, Asks, NextProvider, Leave, Goto, rest, store, Storing
<1>14. QED
  BY <1>1, <1>4, <1>5, <1>6, <1>7, <1>8, <1>9, <1>10, <1>11, <1>12, <1>13 DEF Step

\* The bound on what is bought is kept.
LEMMA BoughtStep ==
  ASSUME TypeOK, AgesInv, PaidInv, [Next]_vars, faults' = 0
  PROVE  BoughtInv'
<1> DEFINE Many  == Cardinality(Gatherers)
           Ask   == Cardinality(Asking)
           Store == Cardinality(Storing)
<1>1. /\ IsFiniteSet(Asking) /\ IsFiniteSet(Storing)
      /\ Ask \in Nat /\ Store \in Nat /\ Many \in Nat /\ Ask + Store <= Many
  BY AskOrStore, GatherersAreCounted
<1>2. /\ IsFiniteSet(Asking') /\ IsFiniteSet(Storing')
      /\ Ask' \in Nat /\ Store' \in Nat /\ Ask' + Store' <= Many
  BY AskOrStore, GatherersAreCounted
<1>3. bought \in Nat /\ faults \in Nat
  BY DEF TypeOK
<1>4. SUFFICES IF RowHas("search")' THEN bought' + Ask' <= Many ELSE bought' <= Store'
  BY DEF BoughtInv
<1>5. ASSUME faults = 0
      PROVE  IF RowHas("search") THEN bought + Ask <= Many ELSE bought <= Store
  BY <1>5 DEF PaidInv, BoughtInv
<1>6. ASSUME NEW g \in Gatherers, Gather(g) \/ Step(g)
      PROVE  IF RowHas("search")' THEN bought' + Ask' <= Many ELSE bought' <= Store'
  <2>1. faults = 0
    BY <1>6, PaidEffects
  <2>2. CASE /\ g \in Asking /\ Asking' = Asking \ {g}
             /\ g \notin Storing /\ Storing' = Storing \cup {g}
             /\ bought' = bought + 1 /\ RowHas("search")' = RowHas("search")
    <3>1. Ask' = Ask - 1
      BY <1>1, <2>2, FS_RemoveElement
    <3>2. Store' = Store + 1
      BY <1>1, <2>2, FS_AddElement
    <3>3. QED
      BY <1>1, <1>3, <1>5, <2>1, <2>2, <3>1, <3>2
  <2>3. CASE Asking' = Asking /\ bought' = bought /\ RowHas("search")'
    BY <1>1, <1>3, <1>5, <2>1, <2>3
  <2>4. CASE /\ Storing \subseteq Storing' /\ RowHas("search")' = RowHas("search")
             /\ RowHas("search") => Asking' \subseteq Asking
             /\ bought' = bought
    <3>1. Store <= Store'
      BY <1>2, <2>4, FS_Subset
    <3>2. RowHas("search") => Ask' <= Ask
      BY <1>1, <2>4, FS_Subset
    <3>3. QED
      BY <1>1, <1>2, <1>3, <1>5, <2>1, <2>4, <3>1, <3>2
  <2>5. QED
    BY <1>6, <2>2, <2>3, <2>4, PaidEffects
<1>7. CASE NextDay
  <2>1. Asking' = {} /\ Storing = {} /\ faults = 0
    BY <1>7 DEF NextDay, Asking, Storing, Rest
  <2>2. Ask' = 0 /\ Store = 0
    BY <2>1, FS_EmptySet
  <2>3. /\ bought' = bought \/ bought' = 0
        /\ RowHas("search")' => RowHas("search")
        /\ ~RowHas("search")' => bought' = 0
    <3>1. /\ cold' = cold /\ day' = day + 1 /\ day \in Nat /\ MaxAge \in Nat
          /\ cold["search"] # None => cold["search"].created \in Nat
      BY <1>7, ItemsAreSome, ConfigAssumption DEF NextDay, TypeOK, Entries
    <3>2. /\ RowHas("search")' <=> /\ cold["search"] # None
                                   /\ day + 1 - cold["search"].created < MaxAge
      BY <3>1 DEF RowHas
    <3>3. QED
      BY <1>7, <3>1, <3>2 DEF NextDay, RowHas, paid
  <2>4. QED
    BY <1>1, <1>2, <1>3, <1>5, <2>1, <2>2, <2>3
<1>8. CASE Flush \/ UNCHANGED vars
  <2>1. /\ Asking' = Asking /\ Storing' = Storing /\ bought' = bought /\ faults' = faults
        /\ RowHas("search")' = RowHas("search")
    BY <1>8 DEF Flush, vars, paid, Asking, Storing, RowHas
  <2>2. QED
    BY <1>5, <2>1
<1>9. QED
  BY <1>6, <1>7, <1>8 DEF Next

\* The numbers of the bound on what is paid late.
LEMMA PendingIsCounted ==
  /\ IsFiniteSet(Configured) /\ IsFiniteSet(Pending) /\ IsFiniteSet(Pending')
  /\ Cardinality(Pending) \in Nat /\ Cardinality(Pending') \in Nat
  /\ (Cardinality(Gatherers) - 1) * Cardinality(Configured) \in Nat
  /\ \A g \in Gatherers : \A S \in SUBSET ((Gatherers \ {g}) \X Configured) :
       Cardinality(S) <= (Cardinality(Gatherers) - 1) * Cardinality(Configured)
<1>1. IsFiniteSet(Configured)
  <2>1. IsFiniteSet(Lane)
    BY ConfigAssumption, LenProperties, FS_Interval DEF Lane
  <2>2. QED
    BY <2>1, FS_Subset DEF Configured
<1>2. IsFiniteSet(Gatherers \X Configured)
  BY <1>1, GatherersAssumption, FS_Product
<1>3. /\ IsFiniteSet(Pending) /\ IsFiniteSet(Pending')
      /\ Cardinality(Pending) \in Nat /\ Cardinality(Pending') \in Nat
  BY <1>2, FS_Subset, FS_CardinalityType DEF Pending, Configured, Lane
<1>4. ASSUME NEW g \in Gatherers
      PROVE  /\ (Cardinality(Gatherers) - 1) * Cardinality(Configured) \in Nat
             /\ \A S \in SUBSET ((Gatherers \ {g}) \X Configured) :
                  Cardinality(S) <= (Cardinality(Gatherers) - 1) * Cardinality(Configured)
  <2>. DEFINE Others == Gatherers \ {g}
              Rest2  == Others \X Configured
  <2>1. IsFiniteSet(Others) /\ Cardinality(Others) = Cardinality(Gatherers) - 1
    BY GatherersAssumption, FS_RemoveElement
  <2>2. /\ IsFiniteSet(Rest2)
        /\ Cardinality(Rest2) = Cardinality(Others) * Cardinality(Configured)
    BY <1>1, <2>1, FS_Product
  <2>3. Cardinality(Rest2) = (Cardinality(Gatherers) - 1) * Cardinality(Configured)
    BY <2>1, <2>2
  <2>4. Cardinality(Rest2) \in Nat
    BY <2>2, FS_CardinalityType
  <2>5. QED
    BY <2>2, <2>3, <2>4, FS_Subset
<1>5. QED
  BY <1>1, <1>3, <1>4, GatherersAssumption

\* Only the gatherer that steps changes its place in the chain.
LEMMA LanesAreLocal ==
  ASSUME TypeOK, NEW g \in Gatherers, Gather(g) \/ Step(g)
  PROVE  \A h \in Gatherers \ {g} : pc'[h] = pc[h] /\ lane'[h] = lane[h]
<1>1. \A h \in Gatherers \ {g} : lane'[h] = lane[h]
  <2> USE DEF asked, TypeOK
  <2>1. CASE Gather(g)
    BY <2>1 DEF Gather
  <2>2. CASE ReadHot(g) \/ ReadCold(g)
    BY <2>2 DEF ReadHot, ReadCold, Hit, Miss
  <2>3. CASE WriteHot(g) \/ WriteCold(g) \/ Extract(g) \/ AgentRaises(g)
    BY <2>3 DEF WriteHot, WriteCold, Extract, AgentRaises
  <2>4. CASE Pages(g) \/ NoPages(g) \/ Scrape(g) \/ SearchRaises(g)
    BY <2>4 DEF Pages, NoPages, NextProvider, Scrape, SearchRaises, Leave
  <2>5. CASE Refused(g) \/ Barren(g)
    BY <2>5 DEF Refused, Barren, NextProvider
  <2>6. QED
    BY <2>1, <2>2, <2>3, <2>4, <2>5 DEF Step
<1>2. QED
  BY <1>1, StepIsLocal

\* A gatherer that does not come to ask, nor goes back in the chain, has no more
\* providers before it.
LEMMA PendingShrinks ==
  ASSUME TypeOK, NEW g \in Gatherers, Gather(g) \/ Step(g),
         pc'[g] = "ask" => pc[g] = "ask" /\ lane[g] <= lane'[g]
  PROVE  Pending' \subseteq Pending
<1>1. \A h \in Gatherers : lane[h] \in Nat /\ lane'[h] \in Nat
  <2>1. TypeOK'
    BY TypeStep DEF Next
  <2>2. /\ lane \in [Gatherers -> 1..Scraper]
        /\ lane' \in [Gatherers -> 1..Scraper]
    BY <2>1 DEF TypeOK
  <2>3. Scraper \in Nat
    <3>1. Len(Providers) \in Nat
      BY ConfigAssumption, LenProperties
    <3>2. QED
      BY <3>1 DEF Scraper
  <2>4. QED
    BY <2>2, <2>3
<1>2. QED
  BY <1>1, LanesAreLocal DEF Pending, Configured, Lane

\* One that has a paid answer has that provider behind it.
LEMMA PaidOnce ==
  ASSUME TypeOK, NEW g \in Gatherers, Step(g), Asks(g),
         pc'[g] = "ask" => lane'[g] = lane[g] + 1
  PROVE  \E r \in Pending : Pending' \subseteq Pending \ {r}
<1>1. lane[g] \in Nat /\ lane[g] \in Configured
  BY DEF Asks, Configured, Lane
<1>2. <<g, lane[g]>> \in Pending
  BY <1>1 DEF Pending, Asks
<1>3. <<g, lane[g]>> \notin Pending'
  BY <1>1 DEF Pending
<1>4. Pending' \subseteq Pending
  BY <1>1, PendingShrinks DEF Asks
<1>5. QED
  BY <1>2, <1>3, <1>4

\* Without a fault, once there is a row, nobody comes to ask, and whoever pays has one
\* provider less before it; the row comes when one that asks no more has stored it.
LEMMA LateEffects ==
  ASSUME TypeOK, AgesInv, NEW g \in Gatherers, Gather(g) \/ Step(g), faults' = 0
  PROVE  /\ RowHas("search") =>
              /\ RowHas("search")'
              /\ \/ late' = late /\ Pending' \subseteq Pending
                 \/ late' = late + 1 /\ \E r \in Pending : Pending' \subseteq Pending \ {r}
         /\ ~RowHas("search") =>
              /\ late' = late
              /\ RowHas("search")' => Pending' \subseteq (Gatherers \ {g}) \X Configured
<1> DEFINE Quiet == late' = late /\ (RowHas("search") => Pending' \subseteq Pending)
<1>0. /\ faults = 0 /\ ItemInv(g) /\ late \in Nat /\ lane[g] \in Nat
      /\ DOMAIN pc = Gatherers /\ DOMAIN lane = Gatherers
      /\ RowHas("search") => RowHas("search")'
      /\ ~RowHas("search") /\ RowHas("search")' => WriteCold(g)
  <2>1. faults = 0 /\ (RowHas("search") => RowHas("search")')
    BY PaidEffects
  <2>2. ~WriteCold(g) => cold' = cold /\ day' = day
    BY StepIsLocal DEF Gather, Step, ReadHot, ReadCold, WriteHot, Pages, NoPages, Refused,
       Barren, Scrape, SearchRaises, Extract, AgentRaises, rest, store
  <2>3. lane[g] \in Nat
    BY ConfigAssumption, LenProperties DEF TypeOK, Scraper
  <2>4. QED
    BY <2>1, <2>2, <2>3 DEF RowHas, AgesInv, TypeOK
<1>1. ASSUME late' = late,
             pc'[g] = "ask" => ~RowHas("search") \/ (pc[g] = "ask" /\ lane[g] <= lane'[g])
      PROVE  Quiet
  BY <1>1, PendingShrinks
<1>2. ASSUME Step(g), Asks(g), Count(0) \/ Count(1), pc'[g] = "ask" => lane'[g] = lane[g] + 1
      PROVE  /\ RowHas("search") =>
                  late' = late + 1 /\ \E r \in Pending : Pending' \subseteq Pending \ {r}
             /\ ~RowHas("search") => late' = late
  BY <1>0, <1>2, PaidOnce DEF Count
<1>3. Quiet \/ Pages(g) \/ NoPages(g)
  <2>1. CASE Gather(g)
    BY <1>0, <1>1, <2>1 DEF Gather, At, Goto, paid
  <2>2. CASE ReadHot(g)
    BY <1>0, <1>1, <2>2 DEF ReadHot, Hit, Goto, paid
  <2>3. CASE ReadCold(g)
    <3>1. pc'[g] = "ask" => ~RowHas("search")
      <4>1. entry[g] \in Entries /\ ~Fault
        BY <1>0 DEF Fault, TypeOK
      <4>2. QED
        BY <1>0, <2>3, <4>1 DEF ReadCold, Hit, Miss, At, Goto, Entries
    <3>2. QED
      BY <1>1, <2>3, <3>1 DEF ReadCold, paid
  <2>4. CASE WriteHot(g) \/ WriteCold(g)
    BY <1>0, <1>1, <2>4 DEF WriteHot, WriteCold, Goto, paid
  <2>5. CASE Refused(g)
    BY <1>0, <1>1, <2>5 DEF Refused, Asks, NextProvider, paid
  <2>6. CASE Barren(g)
    BY <1>0, <1>1, <2>6 DEF Barren, NextProvider, paid
  <2>7. CASE Scrape(g) \/ SearchRaises(g)
    BY <1>0, <1>1, <2>7 DEF Scrape, SearchRaises, Leave, Goto, paid
  <2>8. CASE Extract(g) \/ AgentRaises(g)
    BY <1>0, <1>1, <2>8 DEF Extract, AgentRaises, At, Goto, paid
  <2>9. QED
    BY <2>1, <2>2, <2>3, <2>4, <2>5, <2>6, <2>7, <2>8 DEF Step
<1>4. CASE Pages(g) \/ NoPages(g)
  <2>1. /\ Step(g) /\ Asks(g) /\ (Count(0) \/ Count(1)) /\ ~WriteCold(g)
        /\ pc'[g] = "ask" => lane'[g] = lane[g] + 1
    BY <1>0, <1>4 DEF Pages, NoPages, Asks, NextProvider, Leave, Goto, Step, WriteCold
  <2>2. QED
    BY <1>0, <1>2, <2>1
<1>5. CASE Quiet
  <2>1. ASSUME WriteCold(g) PROVE Pending' \subseteq (Gatherers \ {g}) \X Configured
    <3>1. pc'[g] # "ask"
      BY <1>0, <2>1 DEF WriteCold, Goto
    <3>2. QED
      BY <3>1 DEF Pending, Configured, Lane
  <2>2. QED
    BY <1>0, <1>5, <2>1
<1>6. QED
  BY <1>3, <1>4, <1>5

\* The bound on what is paid late is kept.
LEMMA LateStep ==
  ASSUME TypeOK, AgesInv, PaidInv, [Next]_vars, faults' = 0
  PROVE  LateInv'
<1> DEFINE Bound == (Cardinality(Gatherers) - 1) * Cardinality(Configured)
           Left  == Cardinality(Pending)
<1>1. Left \in Nat /\ Left' \in Nat /\ Bound \in Nat /\ late \in Nat
  BY PendingIsCounted DEF TypeOK
<1>2. faults = 0 => IF RowHas("search") THEN late + Left <= Bound ELSE late = 0
  BY DEF PaidInv, LateInv
<1>3. SUFFICES IF RowHas("search")' THEN late' + Left' <= Bound ELSE late' = 0
  BY DEF LateInv, Configured, Lane
<1> HIDE DEF Bound
<1>4. ASSUME NEW g \in Gatherers, Gather(g) \/ Step(g)
      PROVE  IF RowHas("search")' THEN late' + Left' <= Bound ELSE late' = 0
  <2>0. faults = 0
    BY <1>4, PaidEffects
  <2>1. CASE RowHas("search") /\ late' = late /\ Pending' \subseteq Pending
    <3>1. Left' <= Left
      BY <2>1, PendingIsCounted, FS_Subset
    <3>2. QED
      BY <1>1, <1>2, <1>4, <2>0, <2>1, <3>1, LateEffects
  <2>2. CASE /\ RowHas("search") /\ late' = late + 1
             /\ \E r \in Pending : Pending' \subseteq Pending \ {r}
    <3>1. PICK r \in Pending : Pending' \subseteq Pending \ {r}
      BY <2>2
    <3>2. /\ IsFiniteSet(Pending \ {r}) /\ Cardinality(Pending \ {r}) = Left - 1
      BY <3>1, PendingIsCounted, FS_RemoveElement
    <3>3. Left' <= Left - 1
      BY <3>1, <3>2, FS_Subset
    <3>4. QED
      BY <1>1, <1>2, <1>4, <2>0, <2>2, <3>3, LateEffects
  <2>3. CASE ~RowHas("search")
    <3>1. late' = 0
      BY <1>2, <1>4, <2>0, <2>3, LateEffects
    <3>2. RowHas("search")' => Left' <= Bound
      BY <1>4, <2>3, LateEffects, PendingIsCounted DEF Bound
    <3>3. QED
      BY <1>1, <3>1, <3>2
  <2>4. QED
    BY <1>4, <2>1, <2>2, <2>3, LateEffects
<1>5. CASE NextDay
  <2>1. Pending' = {} /\ faults = 0
    BY <1>5 DEF NextDay, Pending
  <2>2. Left' = 0
    BY <2>1, FS_EmptySet
  <2>3. /\ RowHas("search")' => RowHas("search") /\ late' = late
        /\ ~RowHas("search")' => late' = 0
    <3>1. /\ cold' = cold /\ day' = day + 1 /\ day \in Nat /\ MaxAge \in Nat
          /\ cold["search"] # None => cold["search"].created \in Nat
      BY <1>5, ItemsAreSome, ConfigAssumption DEF NextDay, TypeOK, Entries
    <3>2. /\ RowHas("search")' <=> /\ cold["search"] # None
                                   /\ day + 1 - cold["search"].created < MaxAge
      BY <3>1 DEF RowHas
    <3>3. QED
      BY <1>5, <3>1, <3>2 DEF NextDay, RowHas, paid
  <2>4. QED
    BY <1>1, <1>2, <2>1, <2>2, <2>3
<1>6. CASE Flush \/ UNCHANGED vars
  <2>1. /\ Pending' = Pending /\ late' = late /\ faults' = faults
        /\ RowHas("search")' = RowHas("search")
    BY <1>6 DEF Flush, vars, asked, paid, Pending, RowHas, Configured, Lane
  <2>2. QED
    BY <1>2, <2>1
<1>7. QED
  BY <1>4, <1>5, <1>6 DEF Next

\* Both bounds on what is paid are kept.
LEMMA PaidStep ==
  ASSUME TypeOK, AgesInv, PaidInv, [Next]_vars
  PROVE  PaidInv'
BY BoughtStep, LateStep DEF PaidInv

\* Until the row of a search is stale, and while no call of a layer fails, its pages
\* are bought at most once by each gatherer, and once the row is there only those that
\* were already asking still pay, each provider at most once (StampedeIsBounded).
THEOREM StampedesAreBounded == Spec => []StampedeIsBounded
<1>1. Init => TypeOK /\ AgesInv /\ PaidInv
  <2> SUFFICES ASSUME Init PROVE TypeOK /\ AgesInv /\ PaidInv
    OBVIOUS
  <2>1. AgesInv
    BY DEF Init, AgesInv, LayerInv, ItemInv, StalenessIsBounded
  <2>2. PaidInv
    <3>1. Cardinality(Storing) \in Nat /\ bought = 0 /\ late = 0 /\ cold["search"] = None
      BY AskOrStore, GatherersAreCounted DEF Init, Entries
    <3>2. QED
      BY <3>1 DEF PaidInv, BoughtInv, LateInv, RowHas
  <2>3. QED
    BY <2>1, <2>2, TypeInit
<1>2. TypeOK /\ AgesInv /\ PaidInv /\ [Next]_vars => (TypeOK /\ AgesInv /\ PaidInv)'
  BY TypeStep, AgesStep, PaidStep
<1>3. TypeOK /\ PaidInv => StampedeIsBounded
  <2> SUFFICES ASSUME TypeOK, PaidInv, faults = 0
               PROVE  /\ bought <= Cardinality(Gatherers)
                      /\ late <= (Cardinality(Gatherers) - 1) * Cardinality(Configured)
    BY DEF StampedeIsBounded
  <2>1. /\ Cardinality(Asking) \in Nat /\ Cardinality(Storing) \in Nat
        /\ Cardinality(Gatherers) \in Nat
        /\ Cardinality(Asking) + Cardinality(Storing) <= Cardinality(Gatherers)
    BY AskOrStore, GatherersAreCounted
  <2>2. bought \in Nat /\ late \in Nat
    BY DEF TypeOK
  <2>3. bought <= Cardinality(Gatherers)
    BY <2>1, <2>2 DEF PaidInv, BoughtInv
  <2>4. late <= (Cardinality(Gatherers) - 1) * Cardinality(Configured)
    <3>. DEFINE Bound == (Cardinality(Gatherers) - 1) * Cardinality(Configured)
    <3>1. Cardinality(Pending) \in Nat /\ Bound \in Nat
      BY PendingIsCounted
    <3>2. IF RowHas("search") THEN late + Cardinality(Pending) <= Bound ELSE late = 0
      BY DEF PaidInv, LateInv
    <3> HIDE DEF Bound
    <3>3. late <= Bound
      BY <2>2, <3>1, <3>2
    <3>4. QED
      BY <3>3 DEF Bound
  <2>5. QED
    BY <2>3, <2>4
<1>4. QED
  BY <1>1, <1>2, <1>3, PTL DEF Spec
=============================================================================
