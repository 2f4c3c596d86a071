-------------------------- MODULE LaneStatsProofs --------------------------
(***************************************************************************)
(* Theorems about LaneStats, for any runs, any pool threads and threads of *)
(* chats, any window between two flushes and any number of restarts.       *)
(***************************************************************************)
EXTENDS LaneStats, FiniteSetTheorems, TLAPS

-----------------------------------------------------------------------------
(* Threads, and the calls they have still to count. *)

\* A pool thread is a thread of the process and works for a run.
LEMMA PoolThreads == \A w \in Pool : w \in Workers /\ Of[w] \in Runs
BY DEF Pool

\* What is still to be counted for a run is a number.
LEMMA UncountedIsNatural ==
  ASSUME NEW r \in Runs
  PROVE  IsFiniteSet(Uncounted(r)) /\ Cardinality(Uncounted(r)) \in Nat
<1>1. Uncounted(r) \in SUBSET Workers
  BY PoolThreads DEF Uncounted
<1>2. IsFiniteSet(Uncounted(r))
  BY <1>1, FS_Subset, WorkersAssumption
<1>3. QED
  BY <1>2, FS_CardinalityType

\* It grows by one when a thread has told a call, shrinks by one when that thread
\* counts it, and other moves leave it alone.
LEMMA UncountedMoves ==
  ASSUME TypeOK, NEW w \in Pool, \A x \in Pool \ {w} : at'[x] = at[x],
         NEW r \in Runs
  PROVE  /\ r # Of[w] \/ (at[w] # "counting call" /\ at'[w] # "counting call") =>
              Cardinality(Uncounted(r))' = Cardinality(Uncounted(r))
         /\ r = Of[w] /\ at[w] # "counting call" /\ at'[w] = "counting call" =>
              Cardinality(Uncounted(r))' = Cardinality(Uncounted(r)) + 1
         /\ r = Of[w] /\ at[w] = "counting call" /\ at'[w] # "counting call" =>
              Cardinality(Uncounted(r))' = Cardinality(Uncounted(r)) - 1
<1>1. CASE r # Of[w] \/ (at[w] # "counting call" /\ at'[w] # "counting call")
  <2>1. Uncounted(r)' = Uncounted(r)
    BY <1>1 DEF Uncounted
  <2>2. QED
    BY <1>1, <2>1
<1>2. CASE r = Of[w] /\ at[w] # "counting call" /\ at'[w] = "counting call"
  <2>1. \A x : x \in Uncounted(r)' <=> x = w \/ x \in Uncounted(r)
    BY <1>2 DEF Uncounted
  <2>2. Uncounted(r)' = Uncounted(r) \cup {w} /\ w \notin Uncounted(r)
    BY <1>2, <2>1 DEF Uncounted
  <2>3. QED
    BY <1>2, <2>2, UncountedIsNatural, FS_AddElement
<1>3. CASE r = Of[w] /\ at[w] = "counting call" /\ at'[w] # "counting call"
  <2>1. Uncounted(r)' = Uncounted(r) \ {w} /\ w \in Uncounted(r)
    BY <1>3 DEF Uncounted
  <2>2. QED
    BY <1>3, <2>1, UncountedIsNatural, FS_RemoveElement
<1>4. QED
  BY <1>1, <1>2, <1>3

\* A run whose threads are all free has nothing to count.
LEMMA IdleIsCounted ==
  ASSUME NEW r \in Runs, Idle(r)
  PROVE  Cardinality(Uncounted(r)) = 0
<1>1. Uncounted(r) = {}
  BY DEF Uncounted, Idle
<1>2. QED
  BY <1>1, FS_EmptySet

-----------------------------------------------------------------------------
(* Type correctness. *)

\* Counting a call or a search, or setting one, gives counts again.
LEMMA CountsTypes ==
  ASSUME NEW f \in [Runs -> Counts], NEW r \in Runs
  PROVE  /\ [f EXCEPT ![r].calls = @ + 1] \in [Runs -> Counts]
         /\ [f EXCEPT ![r].searches = @ + 1] \in [Runs -> Counts]
         /\ \A n \in Int : [f EXCEPT ![r].searches = n] \in [Runs -> Counts]
         /\ Zero \in Counts
BY DEF Counts, Zero

\* A step of a pool thread keeps the types.
LEMMA TypeThread ==
  ASSUME TypeOK, NEW w \in Pool, Step(w)
  PROVE  TypeOK'
<1> USE DEF Goto, task, counter
<1>0. w \in Workers /\ Of[w] \in Runs
  BY PoolThreads
<1>1. CASE Call(w)
  BY <1>0, <1>1 DEF Call, TypeOK
<1>2. CASE StartSearch(w)
  <2>0. made \in [Runs -> Counts]
    BY DEF TypeOK
  <2>1. [made EXCEPT ![Of[w]].searches = @ + 1] \in [Runs -> Counts]
    BY <1>0, <2>0, CountsTypes
  <2>2. got' \in [Workers -> Nat \cup {None}] /\ shared' \subseteq Runs
    BY <1>0, <1>2 DEF StartSearch, ReadTotal, Disturb, TypeOK
  <2>3. \A x \in Pool : got'[x] # None => at'[x] = "searching"
    BY <1>0, <1>2, PoolThreads DEF StartSearch, ReadTotal, TypeOK
  <2>4. made' \in [Runs -> Counts]
    BY <1>2, <2>1 DEF StartSearch
  <2>5. at' \in [Pool -> {"free", "calling", "searching", "counting call",
                          "counting search", "flushing", "writing"}]
    BY <1>2 DEF StartSearch, TypeOK
  <2>6. QED
    BY <1>2, <2>2, <2>3, <2>4, <2>5 DEF StartSearch, ReadTotal, TypeOK
<1>3. CASE EndSearch(w)
  <2>1. got[w] \in Nat /\ total' = got[w] + 1
    BY <1>0, <1>3 DEF EndSearch, WriteTotal, TypeOK
  <2>2. total' \in Nat
    BY <2>1
  <2>3. got' \in [Workers -> Nat \cup {None}] /\ shared' \subseteq Runs
    BY <1>0, <1>3 DEF EndSearch, WriteTotal, Disturb, TypeOK
  <2>4. \A x \in Pool : got'[x] # None => at'[x] = "searching"
    BY <1>0, <1>3, PoolThreads DEF EndSearch, WriteTotal, TypeOK
  <2>5. QED
    BY <1>0, <1>3, <2>2, <2>3, <2>4 DEF EndSearch, WriteTotal, TypeOK
<1>4. CASE Tell(w)
  <2>1. [made EXCEPT ![Of[w]].calls = @ + 1] \in [Runs -> Counts]
    BY <1>0, CountsTypes DEF TypeOK
  <2>2. made' \in [Runs -> Counts]
    BY <1>4, <2>1 DEF Tell, TypeOK
  <2>3. /\ at' \in [Pool -> {"free", "calling", "searching", "counting call",
                             "counting search", "flushing", "writing"}]
        /\ \A x \in Pool : got'[x] # None => at'[x] = "searching"
    BY <1>4 DEF Tell, TypeOK
  <2>4. QED
    BY <1>4, <2>2, <2>3 DEF Tell, TypeOK
<1>5. CASE Count(w)
  <2>1. prior[Of[w]] + (total - base[Of[w]]) \in Int
    <3>1. prior \in [Runs -> Int] /\ total \in Nat /\ base \in [Runs -> Nat]
      BY DEF TypeOK
    <3>2. QED
      BY <1>0, <3>1
  <2>. DEFINE n == prior[Of[w]] + (total - base[Of[w]])
  <2>2. mem \in [Runs -> Counts]
    BY DEF TypeOK
  <2>3. /\ [mem EXCEPT ![Of[w]].calls = @ + 1] \in [Runs -> Counts]
        /\ [mem EXCEPT ![Of[w]].searches = n] \in [Runs -> Counts]
    <3> HIDE DEF n
    <3> QED BY <1>0, <2>1, <2>2, CountsTypes DEF n
  <2>4. mem' \in [Runs -> Counts]
    BY <1>5, <2>3 DEF Count
  <2>5. QED
    BY <1>5, <2>4 DEF Count, TypeOK
<1>6. CASE Gate(w)
  <2>1. /\ last \in [Runs -> Nat] /\ snap \in [Pool -> Counts] /\ mem \in [Runs -> Counts]
        /\ clock \in Nat
    BY DEF TypeOK
  <2>2. last' \in [Runs -> Nat] /\ snap' \in [Pool -> Counts]
    BY <1>0, <1>6, <2>1 DEF Gate
  <2>3. at' \in [Pool -> {"free", "calling", "searching", "counting call",
                          "counting search", "flushing", "writing"}]
    BY <1>6 DEF Gate, TypeOK
  <2>4. \A x \in Pool : got'[x] # None => at'[x] = "searching"
    BY <1>6 DEF Gate, TypeOK
  <2>5. QED
    BY <1>6, <2>2, <2>3, <2>4 DEF Gate, TypeOK
<1>7. CASE WriteSnapshot(w)
  <2>1. Zero \in Counts
    BY <1>0, CountsTypes DEF TypeOK
  <2>2. stored' \in [Runs -> Counts] /\ snap' \in [Pool -> Counts]
    BY <1>0, <1>7, <2>1 DEF WriteSnapshot, TypeOK
  <2>3. QED
    BY <1>7, <2>2 DEF WriteSnapshot, TypeOK
<1>8. QED
  BY <1>1, <1>2, <1>3, <1>4, <1>5, <1>6, <1>7 DEF Step

\* The locals of a task that is over are those of one that has not begun.
LEMMA DropTypes ==
  ASSUME TypeOK, NEW over, Drop(over)
  PROVE  /\ mem' \in [Runs -> Counts] /\ base' \in [Runs -> Nat]
         /\ prior' \in [Runs -> Int] /\ last' \in [Runs -> Nat]
<1>1. Zero \in Counts
  BY DEF Zero, Counts
<1>2. /\ mem \in [Runs -> Counts] /\ base \in [Runs -> Nat]
      /\ prior \in [Runs -> Int] /\ last \in [Runs -> Nat]
  BY DEF TypeOK
<1>3. QED
  BY <1>1, <1>2 DEF Drop

\* The tasks, the chats, the clock and a restart keep the types too.
LEMMA TypeStep ==
  ASSUME TypeOK, [Next]_vars
  PROVE  TypeOK'
<1> USE DEF counter
<1>1. ASSUME NEW r \in Runs, Begin(r) PROVE TypeOK'
  <2>1. stored[r].searches \in Int
    BY DEF TypeOK, Counts
  <2>2. QED
    BY <1>1, <2>1 DEF Begin, Base, TypeOK
<1>2. ASSUME NEW r \in Runs, Persist(r) PROVE TypeOK'
  BY <1>2, DropTypes DEF Persist, TypeOK
<1>3. ASSUME NEW r \in Runs, FailTask(r) PROVE TypeOK'
  BY <1>3, DropTypes DEF FailTask, TypeOK
<1>4. ASSUME NEW w \in Pool, Step(w) PROVE TypeOK'
  BY <1>4, TypeThread
<1>5. ASSUME NEW w \in Workers \ Pool, SearchForChat(w) PROVE TypeOK'
  <2>1. others' \in 0..MaxOthers
    <3>1. others \in 0..MaxOthers /\ (others' = others \/ (others < MaxOthers /\ others' = others + 1))
      BY <1>5 DEF SearchForChat, TypeOK
    <3>2. QED
      BY <3>1, BoundsAssumption
  <2>2. total' \in Nat
    <3>1. CASE got[w] # None /\ total' = got[w] + 1
      <4>1. got[w] \in Nat
        BY <3>1 DEF TypeOK
      <4>2. QED
        BY <3>1, <4>1
    <3>2. CASE total' = total
      BY <3>2 DEF TypeOK
    <3>3. QED
      BY <1>5, <3>1, <3>2 DEF SearchForChat, ReadTotal, WriteTotal
  <2>3. got' \in [Workers -> Nat \cup {None}] /\ shared' \subseteq Runs
    BY <1>5 DEF SearchForChat, ReadTotal, WriteTotal, Disturb, TypeOK
  <2>4. \A x \in Pool : got'[x] = got[x] /\ at'[x] = at[x]
    BY <1>5, PoolThreads DEF SearchForChat, ReadTotal, WriteTotal, TypeOK
  <2>5. QED
    BY <1>5, <2>1, <2>2, <2>3, <2>4 DEF SearchForChat, ReadTotal, WriteTotal, task, TypeOK
<1>6. CASE Tick
  <2>1. clock' \in Nat
    <3>1. clock \in Nat /\ clock' = clock + 1
      BY <1>6 DEF Tick, TypeOK
    <3>2. QED
      BY <3>1
  <2>2. QED
    BY <1>6, <2>1 DEF Tick, task, TypeOK
<1>7. CASE Restart
  <2>1. crashes' \in 0..MaxCrashes
    <3>1. crashes \in 0..MaxCrashes /\ crashes < MaxCrashes /\ crashes' = crashes + 1
      BY <1>7 DEF Restart, TypeOK
    <3>2. QED
      BY <3>1, BoundsAssumption
  <2>2. /\ Zero \in Counts /\ total' \in Nat
        /\ got' \in [Workers -> Nat \cup {None}]
        /\ \A x \in Pool : got'[x] = None
    BY <1>7, PoolThreads DEF Restart, Zero, Counts
  <2>3. QED
    BY <1>7, <2>1, <2>2, DropTypes DEF Restart, TypeOK
<1>8. CASE UNCHANGED vars
  BY <1>8 DEF vars, task, TypeOK
<1>9. QED
  BY <1>1, <1>2, <1>3, <1>4, <1>5, <1>6, <1>7, <1>8 DEF Next

-----------------------------------------------------------------------------
(* The calls. *)

\* The numbers of a run.
LEMMA CallNumbers ==
  ASSUME TypeOK, NEW r \in Runs
  PROVE  /\ stored[r].calls \in Nat /\ mem[r].calls \in Nat /\ made[r].calls \in Nat
         /\ Cardinality(Uncounted(r)) \in Nat
<1>1. stored[r] \in Counts /\ mem[r] \in Counts /\ made[r] \in Counts
  BY DEF TypeOK
<1>2. QED
  BY <1>1, UncountedIsNatural DEF Counts

\* Threads work in phases.
LEMMA PhasesStep ==
  ASSUME TypeOK, PhasesInv, [Next]_vars
  PROVE  PhasesInv'
<1> USE PoolThreads DEF PhasesInv, InPhase, counter
<1>1. ASSUME NEW r \in Runs, Begin(r) PROVE PhasesInv'
  BY <1>1 DEF Begin, TypeOK
<1>2. ASSUME NEW r \in Runs, Persist(r) \/ FailTask(r) PROVE PhasesInv'
  BY <1>2 DEF Persist, FailTask, Idle, TypeOK
<1>3. ASSUME NEW w \in Pool, Step(w) PROVE PhasesInv'
  BY <1>3 DEF Step, Call, StartSearch, EndSearch, Tell, Count, Gate, WriteSnapshot, Working,
     Goto, TypeOK
<1>4. ASSUME NEW w \in Workers \ Pool, SearchForChat(w) PROVE PhasesInv'
  BY <1>4 DEF SearchForChat
<1>5. CASE Tick \/ UNCHANGED vars
  BY <1>5 DEF Tick, vars
<1>6. CASE Restart
  BY <1>6 DEF Restart
<1>7. QED
  BY <1>1, <1>2, <1>3, <1>4, <1>5, <1>6 DEF Next

\* CallsInv for one run.
CallsOf(r) ==
  /\ stored[r].calls <= made[r].calls
  /\ InPhase(r) => mem[r].calls + Cardinality(Uncounted(r)) <= made[r].calls
  /\ r \notin lost =>
       /\ stage[r] \in {"waiting", "parked", "done"} => stored[r].calls = made[r].calls
       /\ InPhase(r) => mem[r].calls + Cardinality(Uncounted(r)) = made[r].calls

SnapshotsBehind == \A w \in Pool : snap[w].calls <= made[Of[w]].calls

\* The invariant, run by run.
LEMMA CallsSplit == CallsInv <=> (\A r \in Runs : CallsOf(r)) /\ SnapshotsBehind
BY DEF CallsInv, CallsOf, SnapshotsBehind

\* A thread leaves the runs of others alone.
LEMMA ThreadIsLocal ==
  ASSUME TypeOK, NEW w \in Pool, Step(w), NEW r \in Runs, r # Of[w]
  PROVE  /\ stored'[r] = stored[r] /\ mem'[r] = mem[r] /\ made'[r] = made[r]
         /\ Cardinality(Uncounted(r))' = Cardinality(Uncounted(r))
<1>1. stored'[r] = stored[r] /\ mem'[r] = mem[r] /\ made'[r] = made[r]
  BY DEF Step, Call, StartSearch, EndSearch, Tell, Count, Gate, WriteSnapshot, task, TypeOK
<1>2. \A x \in Pool \ {w} : at'[x] = at[x]
  BY DEF Step, Call, StartSearch, EndSearch, Tell, Count, Gate, WriteSnapshot, Goto, TypeOK
<1>3. QED
  BY <1>1, <1>2, UncountedMoves

\* What a thread does for its own run: a call that it has told is made and not yet
\* counted, and then counted.
LEMMA ThreadCounts ==
  ASSUME TypeOK, NEW w \in Pool, Step(w), NEW r \in Runs, r = Of[w]
  PROVE  /\ stage' = stage /\ lost' = lost
         /\ stored'[r].calls \in {stored[r].calls, snap[w].calls}
         /\ snap'[w].calls \in {snap[w].calls, mem[r].calls, 0}
         /\ \A x \in Pool \ {w} : snap'[x] = snap[x]
         /\ \/ /\ made'[r].calls = made[r].calls /\ mem'[r].calls = mem[r].calls
               /\ Cardinality(Uncounted(r))' = Cardinality(Uncounted(r))
            \/ /\ made'[r].calls = made[r].calls + 1 /\ mem'[r].calls = mem[r].calls
               /\ Cardinality(Uncounted(r))' = Cardinality(Uncounted(r)) + 1
            \/ /\ made'[r].calls = made[r].calls /\ mem'[r].calls = mem[r].calls + 1
               /\ Cardinality(Uncounted(r))' = Cardinality(Uncounted(r)) - 1
<1>0. \A x \in Pool \ {w} : at'[x] = at[x]
  BY DEF Step, Call, StartSearch, EndSearch, Tell, Count, Gate, WriteSnapshot, Goto, TypeOK
<1>1. /\ DOMAIN stored = Runs /\ DOMAIN mem = Runs /\ DOMAIN made = Runs
      /\ DOMAIN snap = Pool /\ DOMAIN at = Pool /\ at[w] \in {"free", "calling", "searching", "counting call",
                      "counting search", "flushing", "writing"}
      /\ mem[r] \in Counts /\ made[r] \in Counts
  BY DEF TypeOK
<1>2. CASE Call(w)
  BY <1>1, <1>2, <1>0, UncountedMoves DEF Goto, Call, task
<1>3. CASE StartSearch(w)
  BY <1>1, <1>3, <1>0, UncountedMoves DEF Goto, StartSearch, task, Counts
<1>4. CASE EndSearch(w)
  <2>1. Uncounted(r)' = Uncounted(r)
    BY <1>4 DEF EndSearch, Uncounted
  <2>2. QED
    BY <1>1, <1>4, <2>1 DEF EndSearch, task
<1>5. CASE Tell(w)
  <2>1. CASE /\ at[w] = "calling" /\ at'[w] = "counting call"
             /\ made' = [made EXCEPT ![Of[w]].calls = @ + 1]
    <3>1. made'[r].calls = made[r].calls + 1
      BY <1>1, <2>1 DEF Counts
    <3>2. Cardinality(Uncounted(r))' = Cardinality(Uncounted(r)) + 1
      BY <2>1, <1>0, UncountedMoves
    <3>3. stage' = stage /\ lost' = lost /\ stored' = stored /\ mem' = mem /\ snap' = snap
      BY <1>5 DEF Tell, task
    <3>4. QED
      BY <3>1, <3>2, <3>3
  <2>2. CASE /\ at[w] \in {"calling", "searching"} /\ UNCHANGED made
             /\ at'[w] \in {"counting search", "free"}
    <3>1. Cardinality(Uncounted(r))' = Cardinality(Uncounted(r))
      BY <2>2, <1>0, UncountedMoves
    <3>2. stage' = stage /\ lost' = lost /\ stored' = stored /\ mem' = mem /\ snap' = snap
      BY <1>5 DEF Tell, task
    <3>3. QED
      BY <2>2, <3>1, <3>2
  <2>3. QED
    BY <1>1, <1>5, <2>1, <2>2 DEF Tell, Goto
<1>6. CASE Count(w)
  <2>0. /\ stage' = stage /\ lost' = lost /\ stored' = stored /\ made' = made /\ snap' = snap
        /\ at'[w] = "flushing"
    BY <1>1, <1>6 DEF Count, Goto
  <2>1. CASE at[w] = "counting call" /\ mem' = [mem EXCEPT ![r].calls = @ + 1]
    <3>1. mem'[r].calls = mem[r].calls + 1
      BY <1>1, <2>1 DEF Counts
    <3>2. Cardinality(Uncounted(r))' = Cardinality(Uncounted(r)) - 1
      BY <2>0, <2>1, <1>0, UncountedMoves
    <3>3. QED
      BY <2>0, <3>1, <3>2
  <2>2. CASE /\ at[w] = "counting search"
             /\ mem' = [mem EXCEPT ![r].searches = prior[r] + (total - base[r])]
    <3>1. mem'[r].calls = mem[r].calls
      BY <1>1, <2>2 DEF Counts
    <3>2. Cardinality(Uncounted(r))' = Cardinality(Uncounted(r))
      BY <2>0, <2>2, <1>0, UncountedMoves
    <3>3. QED
      BY <2>0, <3>1, <3>2
  <2>3. QED
    BY <1>6, <2>1, <2>2 DEF Count
<1>7. CASE Gate(w)
  BY <1>1, <1>7, <1>0, UncountedMoves DEF Goto, Gate
<1>8. CASE WriteSnapshot(w)
  BY <1>1, <1>8, <1>0, UncountedMoves DEF Goto, WriteSnapshot, task, Zero
<1>9. QED
  BY <1>2, <1>3, <1>4, <1>5, <1>6, <1>7, <1>8 DEF Step

\* Nothing is lost between the ledger, the counters and the row.
LEMMA CallsStep ==
  ASSUME TypeOK, PhasesInv, CallsInv, [Next]_vars
  PROVE  CallsInv'
<1> USE DEF InPhase
<1>0. (\A r \in Runs : CallsOf(r)) /\ SnapshotsBehind
  BY CallsSplit
<1>1. SUFFICES (\A r \in Runs : CallsOf(r)') /\ SnapshotsBehind'
  BY DEF CallsInv, CallsOf, SnapshotsBehind
<1>2. ASSUME stored' = stored, mem' = mem, made' = made, stage' = stage, lost' = lost,
             snap' = snap, at' = at
      PROVE  (\A r \in Runs : CallsOf(r)') /\ SnapshotsBehind'
  <2>1. ASSUME NEW r \in Runs PROVE CallsOf(r)'
    <3>1. Uncounted(r)' = Uncounted(r)
      BY <1>2 DEF Uncounted
    <3>2. QED
      BY <1>0, <1>2, <3>1 DEF CallsOf
  <2>2. QED
    BY <1>0, <1>2, <2>1 DEF SnapshotsBehind
<1>3. ASSUME NEW x \in Runs, Begin(x)
      PROVE  (\A r \in Runs : CallsOf(r)') /\ SnapshotsBehind'
  <2>1. /\ stored' = stored /\ made' = made /\ lost' = lost /\ at' = at /\ snap' = snap
        /\ stage[x] \in {"waiting", "parked"} /\ mem'[x] = stored[x]
        /\ \A r \in Runs \ {x} : stage'[r] = stage[r] /\ mem'[r] = mem[r]
    BY <1>3 DEF Begin, TypeOK
  <2>2. ASSUME NEW r \in Runs PROVE CallsOf(r)'
    <3>1. Uncounted(r)' = Uncounted(r)
      BY <2>1 DEF Uncounted
    <3>2. CASE r # x
      BY <1>0, <2>1, <3>1, <3>2 DEF CallsOf
    <3>3. CASE r = x
      <4>1. Idle(x)
        BY <2>1 DEF PhasesInv, Idle
      <4>2. Cardinality(Uncounted(x)) = 0
        BY <4>1, IdleIsCounted
      <4>3. stage'[x] \in {"phase1", "phase2"}
        BY <1>3 DEF Begin, TypeOK
      <4>4. QED
        BY <1>0, <2>1, <3>1, <3>3, <4>2, <4>3, CallNumbers DEF CallsOf
    <3>4. QED
      BY <3>2, <3>3
  <2>3. QED
    BY <1>0, <2>1, <2>2 DEF SnapshotsBehind
<1>4. ASSUME NEW x \in Runs, Persist(x) \/ FailTask(x)
      PROVE  (\A r \in Runs : CallsOf(r)') /\ SnapshotsBehind'
  <2>1. /\ made' = made /\ at' = at /\ snap' = snap /\ Idle(x)
        /\ \A r \in Runs \ {x} : /\ stage'[r] = stage[r] /\ mem'[r] = mem[r]
                                 /\ stored'[r] = stored[r] /\ (r \in lost' <=> r \in lost)
    BY <1>4 DEF Persist, FailTask, Drop, TypeOK
  <2>2. /\ stage'[x] \in {"parked", "done", "failed"}
        /\ \/ stored'[x] = stored[x] /\ (x \in lost' \/ stage'[x] = "failed")
           \/ stored'[x] = mem[x] /\ InPhase(x) /\ lost' = lost
    BY <1>4 DEF Persist, FailTask, TypeOK
  <2>3. ASSUME NEW r \in Runs PROVE CallsOf(r)'
    <3>1. Uncounted(r)' = Uncounted(r)
      BY <2>1 DEF Uncounted
    <3>2. CASE r # x
      BY <1>0, <2>1, <3>1, <3>2 DEF CallsOf
    <3>3. CASE r = x
      BY <1>0, <2>1, <2>2, <3>3, IdleIsCounted, CallNumbers DEF CallsOf
    <3>4. QED
      BY <3>2, <3>3
  <2>4. QED
    BY <1>0, <2>1, <2>3 DEF SnapshotsBehind
<1>5. ASSUME NEW w \in Pool, Step(w)
      PROVE  (\A r \in Runs : CallsOf(r)') /\ SnapshotsBehind'
  <2>1. Of[w] \in Runs /\ stage' = stage /\ lost' = lost
    BY <1>5, PoolThreads, ThreadCounts
  <2>2. CallsOf(Of[w]) /\ snap[w].calls <= made[Of[w]].calls /\ snap[w].calls \in Nat
    BY <1>0, <2>1 DEF SnapshotsBehind, TypeOK, Counts
  <2>3. InPhase(Of[w])
    BY <1>5 DEF PhasesInv, Step, Call, StartSearch, EndSearch, Tell, Count, Gate, WriteSnapshot,
       Working
  <2>4. /\ stored[Of[w]].calls \in Nat /\ mem[Of[w]].calls \in Nat /\ made[Of[w]].calls \in Nat
        /\ Cardinality(Uncounted(Of[w])) \in Nat
    BY <2>1, CallNumbers
  <2>5. CallsOf(Of[w])'
    <3>1. stage'[Of[w]] \in {"phase1", "phase2"}
      BY <2>1, <2>3
    <3>2. stored'[Of[w]].calls \in {stored[Of[w]].calls, snap[w].calls}
      BY <1>5, <2>1, ThreadCounts
    <3>3. \/ /\ made'[Of[w]].calls = made[Of[w]].calls /\ mem'[Of[w]].calls = mem[Of[w]].calls
             /\ Cardinality(Uncounted(Of[w]))' = Cardinality(Uncounted(Of[w]))
          \/ /\ made'[Of[w]].calls = made[Of[w]].calls + 1
             /\ mem'[Of[w]].calls = mem[Of[w]].calls
             /\ Cardinality(Uncounted(Of[w]))' = Cardinality(Uncounted(Of[w])) + 1
          \/ /\ made'[Of[w]].calls = made[Of[w]].calls
             /\ mem'[Of[w]].calls = mem[Of[w]].calls + 1
             /\ Cardinality(Uncounted(Of[w]))' = Cardinality(Uncounted(Of[w])) - 1
      BY <1>5, <2>1, ThreadCounts
    <3>4. QED
      BY <2>1, <2>2, <2>3, <2>4, <3>1, <3>2, <3>3 DEF CallsOf
  <2>6. ASSUME NEW r \in Runs, r # Of[w] PROVE CallsOf(r)'
    BY <1>0, <1>5, <2>1, <2>6, ThreadIsLocal DEF CallsOf
  <2>7. SnapshotsBehind'
    <3>1. made'[Of[w]].calls \in {made[Of[w]].calls, made[Of[w]].calls + 1}
      BY <1>5, <2>1, ThreadCounts
    <3>2. ASSUME NEW v \in Pool PROVE snap'[v].calls <= made'[Of[v]].calls
      <4>1. CASE v = w
        <5>1. mem[Of[w]].calls <= made[Of[w]].calls
          BY <2>2, <2>3, <2>4 DEF CallsOf
        <5>2. snap'[w].calls \in {snap[w].calls, mem[Of[w]].calls, 0}
          BY <1>5, <2>1, ThreadCounts
        <5>3. QED
          BY <2>2, <2>4, <3>1, <4>1, <5>1, <5>2
      <4>2. CASE v # w
        <5>1. snap'[v] = snap[v] /\ snap[v].calls \in Nat /\ snap[v].calls <= made[Of[v]].calls
          BY <1>0, <1>5, <2>1, <4>2, ThreadCounts DEF SnapshotsBehind, TypeOK, Counts
        <5>2. Of[v] # Of[w] => made'[Of[v]] = made[Of[v]]
          BY <1>5, PoolThreads, ThreadIsLocal
        <5>3. QED
          BY <2>1, <3>1, <5>1, <5>2, CallNumbers
      <4>3. QED
        BY <4>1, <4>2
    <3>3. QED
      BY <3>2 DEF SnapshotsBehind
  <2>8. QED
    BY <2>5, <2>6, <2>7
<1>6. ASSUME NEW w \in Workers \ Pool, SearchForChat(w)
      PROVE  (\A r \in Runs : CallsOf(r)') /\ SnapshotsBehind'
  BY <1>2, <1>6 DEF SearchForChat, task
<1>7. CASE Tick \/ UNCHANGED vars
  BY <1>2, <1>7 DEF Tick, vars, task
<1>8. CASE Restart
  <2>1. /\ stored' = stored /\ made' = made /\ lost' = lost
        /\ \A r \in Runs : stage'[r] = IF InPhase(r) THEN "gone" ELSE stage[r]
        /\ \A w \in Pool : snap'[w].calls = 0
    BY <1>8 DEF Restart, Zero
  <2>2. ASSUME NEW r \in Runs PROVE CallsOf(r)'
    BY <1>0, <2>1 DEF CallsOf
  <2>3. SnapshotsBehind'
    BY <2>1, CallNumbers, PoolThreads DEF SnapshotsBehind
  <2>4. QED
    BY <2>2, <2>3
<1>9. QED
  BY <1>3, <1>4, <1>5, <1>6, <1>7, <1>8 DEF Next

-----------------------------------------------------------------------------
(* The searches. *)

\* The numbers of a run, and of its threads.
LEMMA SearchNumbers ==
  ASSUME TypeOK, NEW r \in Runs
  PROVE  /\ stored[r].searches \in Int /\ mem[r].searches \in Int /\ made[r].searches \in Int
         /\ prior[r] \in Int /\ base[r] \in Nat /\ total \in Nat
         /\ \A w \in Pool : got[w] # None => got[w] \in Nat
<1>1. stored[r] \in Counts /\ mem[r] \in Counts /\ made[r] \in Counts
  BY DEF TypeOK
<1>2. QED
  BY <1>1, PoolThreads DEF TypeOK, Counts

\* SearchesInv for one run: what it shows, and what its phase has read.
ShownOf(r) ==
  /\ stored[r].searches \in 0..made[r].searches
  /\ \A w \in Pool : Of[w] = r => snap[w].searches \in 0..made[r].searches

ReadOf(r) ==
  /\ mem[r].searches \in 0..made[r].searches /\ prior[r] \in Nat
  /\ total - base[r] \in 0..(made[r].searches - prior[r])
  /\ \A w \in Pool : Of[w] = r /\ got[w] # None =>
       got[w] - base[r] \in 0..(made[r].searches - prior[r] - 1)

\* The invariant, run by run.
LEMMA SearchesSplit ==
  SearchesInv <=> \A r \in Runs \ shared : ShownOf(r) /\ (InPhase(r) => ReadOf(r))
BY DEF SearchesInv, ShownOf, ReadOf

\* A search of somebody else during a phase is noticed, and any other step of
\* somebody else leaves to a run all that it has read.
LEMMA StrangersAreNoticed ==
  ASSUME TypeOK, NEW r \in Runs \ shared', NEW w \in Workers, Of[w] # r,
         (w \in Pool /\ Step(w)) \/ (w \in Workers \ Pool /\ SearchForChat(w)),
         InPhase(r)
  PROVE  /\ total' = total
         /\ \A x \in Pool : Of[x] = r => got'[x] = got[x]
<1>1. \/ Disturb(Of[w])
      \/ total' = total /\ got' = got
  BY DEF Step, Call, StartSearch, EndSearch, Tell, Count, Gate, WriteSnapshot, counter,
     SearchForChat
<1>2. ~Disturb(Of[w])
  BY DEF Disturb
<1>3. QED
  BY <1>1, <1>2

\* What a thread does for its own run keeps both parts.
LEMMA OwnSearches ==
  ASSUME TypeOK, PhasesInv, NEW w \in Pool, Step(w), NEW r \in Runs, r = Of[w],
         ShownOf(r), ReadOf(r)
  PROVE  ShownOf(r)' /\ ReadOf(r)'
<1>1. /\ DOMAIN stored = Runs /\ DOMAIN mem = Runs /\ DOMAIN snap = Pool
      /\ \A x \in Pool : x \in DOMAIN got
      /\ made \in [Runs -> Counts] /\ mem[r] \in Counts
  BY PoolThreads DEF TypeOK
<1>2. CASE Call(w)
  BY <1>2 DEF Call, task, counter, ShownOf, ReadOf
<1>3. CASE StartSearch(w)
  <2>1. /\ stored' = stored /\ mem' = mem /\ prior' = prior /\ base' = base /\ snap' = snap
        /\ total' = total /\ got'[w] = total /\ \A x \in Pool \ {w} : got'[x] = got[x]
    BY <1>1, <1>3 DEF StartSearch, ReadTotal, task
  <2>2. made'[r].searches = made[r].searches + 1
    BY <1>1, <1>3 DEF StartSearch, Counts
  <2>3. QED
    BY <2>1, <2>2, SearchNumbers DEF ShownOf, ReadOf
<1>4. CASE EndSearch(w)
  <2>1. /\ stored' = stored /\ mem' = mem /\ prior' = prior /\ base' = base /\ snap' = snap
        /\ made' = made /\ got[w] # None /\ total' = got[w] + 1
        /\ got'[w] = None /\ \A x \in Pool \ {w} : got'[x] = got[x]
    BY <1>1, <1>4 DEF EndSearch, WriteTotal, task
  <2>2. total' - base[r] \in 0..(made[r].searches - prior[r])
    BY <2>1, SearchNumbers DEF ReadOf
  <2>3. QED
    BY <2>1, <2>2 DEF ShownOf, ReadOf
<1>5. CASE Tell(w)
  <2>1. made'[r].searches = made[r].searches
    <3>1. made' = [made EXCEPT ![Of[w]].calls = @ + 1] \/ made' = made
      BY <1>5 DEF Tell
    <3>2. QED
      BY <1>1, <3>1 DEF Counts
  <2>2. QED
    BY <1>5, <2>1 DEF Tell, task, counter, ShownOf, ReadOf
<1>6. CASE Count(w)
  <2>1. /\ stored' = stored /\ prior' = prior /\ base' = base /\ snap' = snap
        /\ made' = made /\ got' = got /\ total' = total
    BY <1>6 DEF Count, counter
  <2>2. mem'[r].searches \in {mem[r].searches, prior[r] + (total - base[r])}
    <3>1. \/ mem' = [mem EXCEPT ![r].calls = @ + 1]
          \/ mem' = [mem EXCEPT ![r].searches = prior[r] + (total - base[r])]
      BY <1>6 DEF Count
    <3>2. mem \in [Runs -> Counts]
      BY DEF TypeOK
    <3>3. CASE mem' = [mem EXCEPT ![r].calls = @ + 1]
      BY <3>2, <3>3 DEF Counts
    <3>4. CASE mem' = [mem EXCEPT ![r].searches = prior[r] + (total - base[r])]
      BY <3>2, <3>4 DEF Counts
    <3>5. QED
      BY <3>1, <3>3, <3>4
  <2>3. mem'[r].searches \in 0..made[r].searches
    BY <2>2, SearchNumbers DEF ReadOf
  <2>4. QED
    BY <2>1, <2>3 DEF ShownOf, ReadOf
<1>7. CASE Gate(w)
  <2>1. /\ stored' = stored /\ prior' = prior /\ base' = base /\ mem' = mem
        /\ made' = made /\ got' = got /\ total' = total
        /\ \A x \in Pool : snap'[x] \in {snap[x], mem[Of[x]]}
    BY <1>1, <1>7 DEF Gate, counter
  <2>2. QED
    BY <2>1 DEF ShownOf, ReadOf
<1>8. CASE WriteSnapshot(w)
  <2>1. /\ mem' = mem /\ prior' = prior /\ base' = base /\ made' = made /\ got' = got
        /\ total' = total /\ stored'[r] \in {stored[r], snap[w]}
        /\ \A x \in Pool : snap'[x].searches \in {snap[x].searches, 0}
    BY <1>1, <1>8 DEF WriteSnapshot, counter, task, Zero
  <2>2. 0 \in 0..made[r].searches
    BY SearchNumbers DEF ShownOf
  <2>3. QED
    BY <2>1, <2>2 DEF ShownOf, ReadOf
<1>9. QED
  BY <1>2, <1>3, <1>4, <1>5, <1>6, <1>7, <1>8 DEF Step

\* While nobody else searches in a phase, the difference of the process counter
\* is what the run has made.
LEMMA SearchesStep ==
  ASSUME TypeOK, PhasesInv, SearchesInv, [Next]_vars
  PROVE  SearchesInv'
<1> USE DEF InPhase
<1>0. shared \subseteq shared'
  BY DEF Next, vars, Begin, Persist, FailTask, Step, Call, StartSearch, EndSearch, Tell, Count,
     Gate, WriteSnapshot, SearchForChat, Disturb, Tick, Restart
<1>1. SUFFICES ASSUME NEW r \in Runs \ shared', ShownOf(r), InPhase(r) => ReadOf(r)
               PROVE  ShownOf(r)' /\ (InPhase(r)' => ReadOf(r)')
  BY <1>0, SearchesSplit DEF SearchesInv, ShownOf, ReadOf
<1>2. ASSUME stored' = stored, mem' = mem, made' = made, stage' = stage, snap' = snap,
             prior' = prior, base' = base, InPhase(r) => total' = total,
             InPhase(r) => \A x \in Pool : Of[x] = r => got'[x] = got[x]
      PROVE  ShownOf(r)' /\ (InPhase(r)' => ReadOf(r)')
  BY <1>1, <1>2 DEF ShownOf, ReadOf
<1>3. ASSUME NEW x \in Runs, Begin(x)
      PROVE  ShownOf(r)' /\ (InPhase(r)' => ReadOf(r)')
  <2>1. /\ stored' = stored /\ made' = made /\ snap' = snap /\ total' = total /\ got' = got
        /\ stage[x] \in {"waiting", "parked"}
        /\ mem'[x] = stored[x] /\ base'[x] = total /\ prior'[x] = stored[x].searches
        /\ \A y \in Runs \ {x} : /\ stage'[y] = stage[y] /\ mem'[y] = mem[y]
                                 /\ prior'[y] = prior[y] /\ base'[y] = base[y]
    BY <1>3 DEF Begin, Base, counter, TypeOK
  <2>2. ShownOf(r)'
    BY <1>1, <2>1 DEF ShownOf
  <2>3. CASE r # x
    BY <1>1, <2>1, <2>2, <2>3 DEF ReadOf
  <2>4. CASE r = x
    <3>1. \A w \in Pool : Of[w] = x => got[w] = None
      BY <2>1 DEF PhasesInv, TypeOK
    <3>2. stored[x].searches \in 0..made[x].searches /\ made[x].searches \in Int
      BY <1>1, <2>4, SearchNumbers DEF ShownOf
    <3>3. total - total = 0
      BY SearchNumbers
    <3>4. QED
      BY <2>1, <2>2, <2>4, <3>1, <3>2, <3>3 DEF ReadOf
  <2>5. QED
    BY <2>3, <2>4
<1>4. ASSUME NEW x \in Runs, Persist(x) \/ FailTask(x)
      PROVE  ShownOf(r)' /\ (InPhase(r)' => ReadOf(r)')
  <2>1. /\ made' = made /\ snap' = snap /\ total' = total /\ got' = got
        /\ stage'[x] \in {"parked", "done", "failed"}
        /\ stored'[x] = stored[x] \/ (InPhase(x) /\ stored'[x] = mem[x])
        /\ \A y \in Runs \ {x} : /\ stage'[y] = stage[y] /\ mem'[y] = mem[y]
                                 /\ stored'[y] = stored[y]
                                 /\ prior'[y] = prior[y] /\ base'[y] = base[y]
    BY <1>4 DEF Persist, FailTask, Drop, counter, TypeOK
  <2>2. CASE r # x
    BY <1>1, <2>1, <2>2 DEF ShownOf, ReadOf
  <2>3. CASE r = x
    BY <1>1, <2>1, <2>3 DEF ShownOf, ReadOf
  <2>4. QED
    BY <2>2, <2>3
<1>5. ASSUME NEW w \in Pool, Step(w)
      PROVE  ShownOf(r)' /\ (InPhase(r)' => ReadOf(r)')
  <2>1. stage' = stage
    BY <1>5 DEF Step, Call, StartSearch, EndSearch, Tell, Count, Gate, WriteSnapshot
  <2>2. CASE r = Of[w]
    <3>1. InPhase(r)
      BY <1>5, <2>2 DEF PhasesInv, Step, Call, StartSearch, EndSearch, Tell, Count, Gate,
         WriteSnapshot, Working
    <3>2. QED
      BY <1>1, <1>5, <2>2, <3>1, OwnSearches
  <2>3. CASE r # Of[w]
    <3>1. stored'[r] = stored[r] /\ mem'[r] = mem[r] /\ made'[r] = made[r]
      BY <1>5, <2>3, ThreadIsLocal
    <3>2. prior' = prior /\ base' = base
      BY <1>5 DEF Step, Call, StartSearch, EndSearch, Tell, Count, Gate, WriteSnapshot, task
    <3>3. \A x \in Pool : Of[x] = r => snap'[x] = snap[x]
      BY <1>5, <2>3, PoolThreads, ThreadCounts
    <3>4. InPhase(r) => total' = total /\ \A x \in Pool : Of[x] = r => got'[x] = got[x]
      BY <1>5, <2>3, PoolThreads, StrangersAreNoticed
    <3>5. QED
      BY <1>1, <2>1, <3>1, <3>2, <3>3, <3>4 DEF ShownOf, ReadOf
  <2>4. QED
    BY <2>2, <2>3
<1>6. ASSUME NEW w \in Workers \ Pool, SearchForChat(w)
      PROVE  ShownOf(r)' /\ (InPhase(r)' => ReadOf(r)')
  <2>1. Of[w] # r
    BY <1>1 DEF Pool
  <2>2. QED
    BY <1>2, <1>6, <2>1, StrangersAreNoticed DEF SearchForChat, task
<1>7. CASE Tick \/ UNCHANGED vars
  BY <1>2, <1>7 DEF Tick, vars, task, counter
<1>8. CASE Restart
  <2>1. /\ stored' = stored /\ made' = made
        /\ stage'[r] = IF InPhase(r) THEN "gone" ELSE stage[r]
        /\ \A w \in Pool : snap'[w].searches = 0
    BY <1>8 DEF Restart, Zero
  <2>2. 0 \in 0..made[r].searches
    BY <1>1, SearchNumbers DEF ShownOf
  <2>3. QED
    BY <1>1, <2>1, <2>2 DEF ShownOf
<1>9. QED
  BY <1>3, <1>4, <1>5, <1>6, <1>7, <1>8 DEF Next

-----------------------------------------------------------------------------
(* The theorems. *)

\* The parts hold before any run, and each step keeps them.
LEMMA CountersInvariant == Spec => []CountersInv
<1>1. ASSUME Init PROVE CountersInv
  <2>1. Zero \in Counts /\ Zero.calls = 0 /\ Zero.searches = 0
    BY DEF Zero, Counts
  <2>2. TypeOK
    BY <1>1, <2>1, BoundsAssumption, PoolThreads DEF Init, TypeOK
  <2>3. PhasesInv
    BY <1>1 DEF Init, PhasesInv
  <2>4. CallsInv
    BY <1>1, <2>1, PoolThreads DEF Init, CallsInv, InPhase
  <2>5. SearchesInv
    BY <1>1, <2>1 DEF Init, SearchesInv, InPhase, Pool
  <2>6. QED
    BY <2>2, <2>3, <2>4, <2>5 DEF CountersInv
<1>2. CountersInv /\ [Next]_vars => CountersInv'
  BY TypeStep, PhasesStep, CallsStep, SearchesStep DEF CountersInv
<1>3. QED
  BY <1>1, <1>2, PTL DEF Spec

\* Counters, snapshots and rows keep their types (LaneStats!TypeOK).
THEOREM TypeCorrect == Spec => []TypeOK
<1>1. CountersInv => TypeOK
  BY DEF CountersInv
<1>2. QED
  BY <1>1, CountersInvariant, PTL

\* The calls in the row of a parked or finished run are those of its ledger
\* (CallsAreCounted), however its snapshots were dropped or overtook each other.
THEOREM PhasesEndExactly == Spec => []CallsAreCounted
<1>1. CountersInv => CallsAreCounted
  BY DEF CountersInv, CallsInv, CallsAreCounted
<1>2. QED
  BY <1>1, CountersInvariant, PTL

\* A run that nobody disturbed shows no search that it did not make
\* (SoloRunsNeverOvercount), although its threads lose increments to each other.
THEOREM SoloRunsAreModest == Spec => []SoloRunsNeverOvercount
<1>1. CountersInv => SoloRunsNeverOvercount
  BY DEF CountersInv, SearchesInv, SoloRunsNeverOvercount
<1>2. QED
  BY <1>1, CountersInvariant, PTL
=============================================================================
