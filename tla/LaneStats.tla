------------------------------ MODULE LaneStats ------------------------------
(***************************************************************************)
(* The live counters of a run (_emitter): calls of models and searches are *)
(* counted in memory by the pool threads of a phase, under a lock, and     *)
(* flushed to the column lane_stats at most once per Window.  The snapshot *)
(* is taken under the lock and written after it is released, so that two   *)
(* writes may arrive in either order; each phase ends with a write of its  *)
(* own, and the next phase starts from what the column holds.  Searches    *)
(* are the difference of the process-wide counter since the phase began.   *)
(*                                                                         *)
(* Keys that are assigned once (signals_found, evidence_rows, the score)   *)
(* are left out, and the calls of all lanes are one count.                 *)
(***************************************************************************)
EXTENDS Integers, FiniteSets

CONSTANTS
  Runs,
  Workers,    \* threads of the process that search
  Of,         \* the run that each of them works for, or the chat
  Window,     \* between two flushes, 1.5 seconds
  None,
  MaxClock,   \* bound on the time
  MaxWork,    \* bound on the calls and searches of a run
  MaxOthers,  \* bound on the searches of chats
  MaxCrashes  \* bound on the restarts of the process

ASSUME WorkersAssumption == IsFiniteSet(Workers) /\ DOMAIN Of = Workers
ASSUME NoneAssumption == None \notin Int
ASSUME BoundsAssumption == /\ Window \in Nat \ {0} /\ MaxClock \in Nat
                           /\ MaxWork \in Nat /\ MaxOthers \in Nat /\ MaxCrashes \in Nat

VARIABLES
  total,   \* process: stats["searches"] of search_chain
  got,     \* thread: what it has read of it and not yet written back
  others,  \* process: the searches of chats so far
  stage,   \* run: where its two tasks are
  stored,  \* table runs: the column lane_stats
  mem,     \* task: the counters of the phase
  base,    \* task: the process-wide counter when the phase began
  prior,   \* task: the searches of the phases before
  last,    \* task: when it last flushed
  at,      \* pool thread: where it is
  snap,    \* pool thread: the snapshot it is about to write
  clock,
  made,    \* history: the calls and searches of a run
  shared,  \* history: runs during a phase of which somebody else searched
  lost,    \* history: runs whose last write of a phase failed
  crashes

task  == <<mem, base, prior, last>>
counter == <<total, got, others, crashes>>
vars  == <<counter, stage, stored, task, at, snap, clock, made, shared, lost>>

Pool == {w \in Workers : Of[w] \in Runs}
Counts == [calls : Nat, searches : Int]
Zero == [calls |-> 0, searches |-> 0]

TypeOK ==
  /\ total \in Nat /\ got \in [Workers -> Nat \cup {None}]
  /\ others \in 0..MaxOthers /\ crashes \in 0..MaxCrashes
  /\ stage \in [Runs -> {"waiting", "phase1", "parked", "phase2", "done", "failed", "gone"}]
  /\ stored \in [Runs -> Counts] /\ mem \in [Runs -> Counts]
  /\ base \in [Runs -> Nat] /\ prior \in [Runs -> Int] /\ last \in [Runs -> Nat]
  /\ at \in [Pool -> {"free", "calling", "searching", "counting call", "counting search",
                      "flushing", "writing"}]
  /\ snap \in [Pool -> Counts]
  /\ clock \in Nat /\ made \in [Runs -> Counts]
  /\ shared \subseteq Runs /\ lost \subseteq Runs
  /\ \A w \in Pool : got[w] # None => at[w] = "searching"

Init ==
  /\ total = 0 /\ got = [w \in Workers |-> None] /\ others = 0 /\ crashes = 0
  /\ stage = [r \in Runs |-> "waiting"]
  /\ stored = [r \in Runs |-> Zero] /\ mem = [r \in Runs |-> Zero]
  /\ base = [r \in Runs |-> 0] /\ prior = [r \in Runs |-> 0] /\ last = [r \in Runs |-> 0]
  /\ at = [w \in Pool |-> "free"] /\ snap = [w \in Pool |-> Zero]
  /\ clock = Window
  /\ made = [r \in Runs |-> Zero]
  /\ shared = {} /\ lost = {}

InPhase(r) == stage[r] \in {"phase1", "phase2"}

\* Mutant: a task does not wait for its pool.
NotAwaited(r) == TRUE

Idle(r) == \A w \in Pool : Of[w] = r => at[w] = "free"
Goto(w, p) == at' = [at EXCEPT ![w] = p]

\* The tasks of some runs are over, and their locals with them.
Drop(over) ==
  /\ mem' = [r \in Runs |-> IF r \in over THEN Zero ELSE mem[r]]
  /\ base' = [r \in Runs |-> IF r \in over THEN 0 ELSE base[r]]
  /\ prior' = [r \in Runs |-> IF r \in over THEN 0 ELSE prior[r]]
  /\ last' = [r \in Runs |-> IF r \in over THEN 0 ELSE last[r]]

-----------------------------------------------------------------------------
(* The two tasks. *)

\* Mutant: the whole counter of the process is taken for this run's.
NoBase(r) == 0

Base(r) == total

\* _emitter: the counters start from what the column holds.
Begin(r) ==
  /\ stage[r] \in {"waiting", "parked"}
  /\ stage' = [stage EXCEPT ![r] = IF @ = "waiting" THEN "phase1" ELSE "phase2"]
  /\ base' = [base EXCEPT ![r] = Base(r)]
  /\ mem' = [mem EXCEPT ![r] = stored[r]]
  /\ prior' = [prior EXCEPT ![r] = stored[r].searches]
  /\ UNCHANGED <<stored, last, at, snap, clock, made, shared, lost, counter>>

\* The graph has joined its threads; _persist_lane_stats swallows a failure.
Persist(r) ==
  /\ InPhase(r) /\ Idle(r)
  /\ stage' = [stage EXCEPT ![r] = IF @ = "phase1" THEN "parked" ELSE "done"]
  /\ \/ stored' = [stored EXCEPT ![r] = mem[r]] /\ UNCHANGED lost
     \/ lost' = lost \cup {r} /\ UNCHANGED stored
  /\ Drop({r})
  /\ UNCHANGED <<at, snap, clock, made, shared, counter>>

\* The except block of either task, which does not write the counters; or the
\* read of the row in _emitter raises.
FailTask(r) ==
  /\ Idle(r)
  /\ stage[r] \in {"waiting", "phase1", "parked", "phase2"}
  /\ stage' = [stage EXCEPT ![r] = "failed"]
  /\ Drop({r})
  /\ UNCHANGED <<stored, at, snap, clock, made, shared, lost, counter>>

-----------------------------------------------------------------------------
(* A pool thread, for a run in a phase. *)

Working(w) == InPhase(Of[w]) /\ made[Of[w]].calls + made[Of[w]].searches < MaxWork

\* A call of a model, or a query that the cache answers.
Call(w) ==
  /\ Working(w) /\ at[w] = "free"
  /\ Goto(w, "calling")
  /\ UNCHANGED <<stage, stored, task, snap, clock, made, shared, lost, counter>>

\* stats["searches"] += 1, which no lock protects, is a read and a write.
ReadTotal(w) ==
  /\ got[w] = None
  /\ got' = [got EXCEPT ![w] = total]
  /\ UNCHANGED <<total, crashes>>

WriteTotal(w) ==
  /\ got[w] # None
  /\ total' = got[w] + 1
  /\ got' = [got EXCEPT ![w] = None]
  /\ UNCHANGED crashes

\* The runs that are in a phase while somebody else searches.
Disturb(x) == shared' = shared \cup {r \in Runs \ {x} : InPhase(r)}

StartSearch(w) ==
  /\ Working(w) /\ at[w] = "free"
  /\ ReadTotal(w) /\ Disturb(Of[w])
  /\ Goto(w, "searching")
  /\ made' = [made EXCEPT ![Of[w]].searches = @ + 1]
  /\ UNCHANGED <<others, stage, stored, task, snap, clock, lost>>

EndSearch(w) ==
  /\ at[w] = "searching"
  /\ WriteTotal(w) /\ Disturb(Of[w])
  /\ UNCHANGED <<others, stage, stored, task, at, snap, clock, made, lost>>

\* A chat searches through the same chain, and shows nobody its count.
SearchForChat(w) ==
  /\ \/ others < MaxOthers /\ others' = others + 1 /\ ReadTotal(w)
     \/ WriteTotal(w) /\ UNCHANGED others
  /\ Disturb(Of[w])
  /\ UNCHANGED <<stage, stored, task, at, snap, clock, made, lost>>

\* Mutant: what a thread has read of the counter is kept for its next search.
TellAndKeep(w) ==
  /\ \/ /\ at[w] = "calling" /\ Goto(w, "counting call")
        /\ made' = [made EXCEPT ![Of[w]].calls = @ + 1]
     \/ at[w] \in {"calling", "searching"} /\ Goto(w, "counting search") /\ UNCHANGED made
     \/ at[w] \in {"calling", "searching"} /\ Goto(w, "free") /\ UNCHANGED made
  /\ UNCHANGED <<stage, stored, task, snap, clock, shared, lost, counter>>

\* append_events: the line is in the ledger, of a call, of a search or of a query
\* that was cached; or it raises into the agent, which gives up what it was doing.
Tell(w) ==
  /\ \/ /\ at[w] = "calling" /\ Goto(w, "counting call")
        /\ made' = [made EXCEPT ![Of[w]].calls = @ + 1]
     \/ /\ at[w] \in {"calling", "searching"} /\ got[w] = None
        /\ Goto(w, "counting search") /\ UNCHANGED made
     \/ at[w] \in {"calling", "searching"} /\ got[w] = None /\ Goto(w, "free") /\ UNCHANGED made
  /\ UNCHANGED <<stage, stored, task, snap, clock, shared, lost, counter>>

\* emit, under the lock.
Count(w) ==
  LET r == Of[w] IN
  /\ \/ at[w] = "counting call" /\ mem' = [mem EXCEPT ![r].calls = @ + 1]
     \/ at[w] = "counting search"
        /\ mem' = [mem EXCEPT ![r].searches = prior[r] + (total - base[r])]
  /\ Goto(w, "flushing")
  /\ UNCHANGED <<stage, stored, base, prior, last, snap, clock, made, shared, lost, counter>>

\* _flush, under the lock again: a flush too early is dropped.
Gate(w) ==
  LET r == Of[w] IN
  /\ at[w] = "flushing"
  /\ IF clock - last[r] < Window
     THEN Goto(w, "free") /\ UNCHANGED <<last, snap>>
     ELSE /\ last' = [last EXCEPT ![r] = clock]
          /\ snap' = [snap EXCEPT ![w] = mem[r]]
          /\ Goto(w, "writing")
  /\ UNCHANGED <<stage, stored, mem, base, prior, clock, made, shared, lost, counter>>

\* set_lane_stats, outside the lock; a failure is swallowed.
WriteSnapshot(w) ==
  /\ at[w] = "writing"
  /\ \/ stored' = [stored EXCEPT ![Of[w]] = snap[w]]
     \/ UNCHANGED stored
  /\ snap' = [snap EXCEPT ![w] = Zero]
  /\ Goto(w, "free")
  /\ UNCHANGED <<stage, task, clock, made, shared, lost, counter>>

Tick ==
  /\ clock < MaxClock
  /\ clock' = clock + 1
  /\ UNCHANGED <<stage, stored, task, at, snap, made, shared, lost, counter>>

\* The process is restarted: the tasks and their threads are gone, and the counter.
Restart ==
  /\ crashes < MaxCrashes
  /\ crashes' = crashes + 1
  /\ total' = 0 /\ got' = [w \in Workers |-> None]
  /\ stage' = [r \in Runs |-> IF InPhase(r) THEN "gone" ELSE stage[r]]
  /\ at' = [w \in Pool |-> "free"] /\ snap' = [w \in Pool |-> Zero]
  /\ Drop({r \in Runs : InPhase(r)})
  /\ UNCHANGED <<others, stored, clock, made, shared, lost>>

Step(w) == \/ Call(w) \/ StartSearch(w) \/ EndSearch(w) \/ Tell(w) \/ Count(w)
           \/ Gate(w) \/ WriteSnapshot(w)

Next == \/ \E r \in Runs : Begin(r) \/ Persist(r) \/ FailTask(r)
        \/ \E w \in Pool : Step(w)
        \/ \E w \in Workers \ Pool : SearchForChat(w)
        \/ Tick
        \/ Restart

Spec == Init /\ [][Next]_vars

-----------------------------------------------------------------------------
(* Properties. *)

\* What a phase ends with is exact, and survives the gate: the calls of models of
\* a parked or finished run are all counted once, however its snapshots were
\* thrown away or overtook each other, unless the last write of a phase failed.
CallsAreCounted ==
  \A r \in Runs :
    /\ stored[r].calls <= made[r].calls
    /\ stage[r] \in {"parked", "done"} /\ r \notin lost => stored[r].calls = made[r].calls

\* A run that had the process to itself while it was in a phase never shows more
\* searches than it made, whatever increments its own threads lose to each other
\* and whoever searched before.
SoloRunsNeverOvercount ==
  \A r \in Runs \ shared : stored[r].searches \in 0..made[r].searches
-----------------------------------------------------------------------------
(* The inductive invariant behind the two. *)

\* Calls that are in the ledger, and not yet in the counters of the phase.
Uncounted(r) == {w \in Pool : Of[w] = r /\ at[w] = "counting call"}

\* A pool thread works for a phase, which does not end before it.
PhasesInv == \A w \in Pool : at[w] # "free" => InPhase(Of[w])

\* Each call was counted or is about to be; no snapshot is ahead of the ledger.
CallsInv ==
  /\ \A r \in Runs :
       /\ stored[r].calls <= made[r].calls
       /\ InPhase(r) => mem[r].calls + Cardinality(Uncounted(r)) <= made[r].calls
       /\ r \notin lost =>
            /\ stage[r] \in {"waiting", "parked", "done"} => stored[r].calls = made[r].calls
            /\ InPhase(r) => mem[r].calls + Cardinality(Uncounted(r)) = made[r].calls
  /\ \A w \in Pool : snap[w].calls <= made[Of[w]].calls

\* What a phase without strangers adds to the process counter is its own, and a thread
\* that has read it and not yet written has one search more to show.
SearchesInv ==
  \A r \in Runs \ shared :
    /\ stored[r].searches \in 0..made[r].searches
    /\ \A w \in Pool : Of[w] = r => snap[w].searches \in 0..made[r].searches
    /\ InPhase(r) =>
         /\ mem[r].searches \in 0..made[r].searches /\ prior[r] \in Nat
         /\ total - base[r] \in 0..(made[r].searches - prior[r])
         /\ \A w \in Pool : Of[w] = r /\ got[w] # None =>
              got[w] - base[r] \in 0..(made[r].searches - prior[r] - 1)

CountersInv == TypeOK /\ PhasesInv /\ CallsInv /\ SearchesInv
=============================================================================
