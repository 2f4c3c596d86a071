---------------------------- MODULE MonitorProofs ----------------------------
(***************************************************************************)
(* Theorems about Monitor, for any runs, owners and headlines: what a      *)
(* reader in several transactions may rely on while runs finish and fail.  *)
(***************************************************************************)
EXTENDS Monitor, TLAPS

-----------------------------------------------------------------------------
(* The runs.  A run whose finished_at is written is settled: its signals are
   all there, and nothing moves it but a failure. *)

AllKeys == {Key[h] : h \in Headlines}
Settled(r) == finished[r] > 0
Stamps(r) == {finished[r], stamp[r]} \ {0}

TableType ==
  /\ status \in [Runs -> {"none", "open", "completed", "failed"}]
  /\ finished \in [Runs -> Nat] /\ stamp \in [Runs -> Nat] /\ clock \in Nat
  /\ signals \in [Runs -> SUBSET Headlines]
  /\ task \in [Runs -> {"none", "saving", "finishing", "failing", "over"}]

\* What the record of a run says of its task.
RunInv(r) ==
  /\ status[r] = "none" <=> task[r] = "none"
  /\ task[r] = "saving" => status[r] = "open"
  /\ task[r] = "finishing" => status[r] = "open" /\ stamp[r] > 0
  /\ task[r] # "finishing" => stamp[r] = 0
  /\ status[r] = "completed" => Settled(r)
  /\ Settled(r) => task[r] \in {"failing", "over"} /\ status[r] \in {"completed", "failed"}

\* No two transactions that finish a run begin at the same moment.
StampInv ==
  /\ \A r \in Runs : \A t \in Stamps(r) : t <= clock
  /\ \A r, s \in Runs : r # s => Stamps(r) \cap Stamps(s) = {}

TableInv == TableType /\ (\A r \in Runs : RunInv(r)) /\ StampInv

-----------------------------------------------------------------------------
(* The client. *)

KeysOf(r) == {Key[h] : h \in signals[r]}
NewIn(p) == New(signals[p[1]], KeysOf(p[2]))

ClientType ==
  /\ at \in {"idle", "listed", "asking", "history", "delta", "told"}
  /\ row \in Runs \cup {None} /\ pair \in (Runs \X Runs) \cup {None}
  /\ before \in (SUBSET AllKeys) \cup {None}
  /\ badge \in BOOLEAN /\ moved \in BOOLEAN /\ saw \in Runs \cup {None}

\* A pair that was read: two settled runs in the order in which they finished.
Ordered(p) == Settled(p[1]) /\ Settled(p[2]) /\ finished[p[2]] < finished[p[1]]

PairInv ==
  /\ at \in {"idle", "listed", "asking"} => pair = None
  /\ at \in {"history", "delta"} => pair # None
  /\ pair # None => Ordered(pair)
  /\ before # None => at \in {"history", "delta"} /\ before = KeysOf(pair[2])
  /\ at = "told" /\ pair # None => news = NewIn(pair)

\* The run the client saw completed, and what the delta it gets says of it.
SawInv ==
  saw # None =>
    /\ Settled(saw)
    /\ at \in {"delta", "told"} /\ pair # None =>
         finished[saw] <= finished[pair[1]] \/ status[saw] = "failed"

\* The row of the history, and why its badge holds as long as nothing moves.
RowInv ==
  /\ row # None => Owner[row] = User
  /\ at = "listed" => ~badge /\ ~moved
  /\ at = "history" => ~badge /\ row # None /\ pair[1] = row
  /\ at = "history" /\ ~moved => pair \in PairOf(Completed)
  /\ badge => row # None
  /\ badge /\ ~moved => \E p \in PairOf(Completed) : p[1] = row /\ NewIn(p) # {}
  /\ badge /\ ~moved /\ at \in {"delta", "told"} =>
       pair # None /\ pair \in PairOf(Completed)

ReaderInv == ClientType /\ PairInv /\ SawInv /\ RowInv

MonitorInv == TableInv /\ ReaderInv

-----------------------------------------------------------------------------
(* The table is sound, whatever the readers do. *)

LEMMA TableStart == Init => TableInv
BY DEF Init, TableInv, TableType, RunInv, StampInv, Settled, Stamps

LEMMA TableTypeStep ==
  ASSUME TableType, NEW r \in Runs, Run(r)
  PROVE  TableType'
<1> USE DEF TableType, Becomes, Turn
<1>1. CASE Start(r)
  BY <1>1 DEF Start
<1>2. CASE SaveSignal(r)
  BY <1>2 DEF SaveSignal
<1>3. CASE BeginFinish(r)
  BY <1>3 DEF BeginFinish
<1>4. CASE CommitFinish(r)
  BY <1>4 DEF CommitFinish
<1>5. CASE FailRun(r)
  BY <1>5 DEF FailRun
<1>6. CASE LateFail(r)
  BY <1>6 DEF LateFail
<1>7. QED
  BY <1>1, <1>2, <1>3, <1>4, <1>5, <1>6 DEF Run

\* A step of a run leaves the records of the others alone.
LEMMA OthersStay ==
  ASSUME TableType, NEW r \in Runs, Run(r), NEW s \in Runs, s # r
  PROVE  /\ status'[s] = status[s] /\ finished'[s] = finished[s]
         /\ signals'[s] = signals[s]
         /\ task'[s] = task[s] /\ stamp'[s] = stamp[s]
BY DEF TableType, Run, Start, SaveSignal, BeginFinish, CommitFinish, FailRun,
       LateFail, Becomes, Turn

LEMMA RunStep ==
  ASSUME TableInv, NEW r \in Runs, Run(r)
  PROVE  \A s \in Runs : RunInv(s)'
<1> USE DEF RunInv, Settled
<1>1. TableType /\ RunInv(r) /\ TableType'
  BY TableTypeStep DEF TableInv
<1>2. RunInv(r)'
  <2> USE <1>1 DEF TableType, Becomes, Turn
  <2>1. CASE Start(r)
    BY <2>1 DEF Start
  <2>2. CASE SaveSignal(r)
    BY <2>2 DEF SaveSignal, Saving
  <2>3. CASE BeginFinish(r)
    BY <2>3 DEF BeginFinish
  <2>4. CASE CommitFinish(r)
    BY <2>4 DEF CommitFinish
  <2>5. CASE FailRun(r)
    BY <2>5 DEF FailRun
  <2>6. CASE LateFail(r)
    BY <2>6 DEF LateFail
  <2>7. QED
    BY <2>1, <2>2, <2>3, <2>4, <2>5, <2>6 DEF Run
<1>3. ASSUME NEW s \in Runs, s # r PROVE RunInv(s)'
  BY <1>1, <1>3, OthersStay DEF TableInv
<1>4. QED
  BY <1>2, <1>3

\* A step gives a run no stamp but one it had, or the next one of the clock.
LEMMA StampsOfStep ==
  ASSUME TableInv, NEW r \in Runs, Run(r)
  PROVE  /\ clock' \in {clock, clock + 1}
         /\ \A s \in Runs : s # r => Stamps(s)' = Stamps(s)
         /\ \/ Stamps(r)' \subseteq Stamps(r)
            \/ Stamps(r)' \subseteq Stamps(r) \cup {clock + 1} /\ clock' = clock + 1
<1> USE DEF Stamps
<1>1. TableType
  BY DEF TableInv
<1>2. \A s \in Runs : s # r => Stamps(s)' = Stamps(s)
  BY <1>1, OthersStay
<1>3. CASE BeginFinish(r)
  <2>1. /\ clock' = clock + 1 /\ finished'[r] = finished[r]
        /\ stamp'[r] = clock + 1
    BY <1>1, <1>3 DEF BeginFinish, TableType
  <2>2. Stamps(r)' \subseteq Stamps(r) \cup {clock + 1}
    BY <2>1
  <2>3. QED
    BY <1>2, <2>1, <2>2
<1>4. CASE CommitFinish(r)
  <2>1. stamp'[r] = 0 /\ finished'[r] \in {finished[r], stamp[r]} /\ clock' = clock
    BY <1>1, <1>4 DEF CommitFinish, TableType
  <2>2. QED
    BY <1>2, <2>1
<1>5. CASE Start(r) \/ SaveSignal(r) \/ FailRun(r) \/ LateFail(r)
  BY <1>2, <1>5 DEF Start, SaveSignal, FailRun, LateFail
<1>6. QED
  BY <1>3, <1>4, <1>5 DEF Run

LEMMA StampStep ==
  ASSUME TableInv, NEW r \in Runs, Run(r)
  PROVE  StampInv'
<1>1. /\ clock \in Nat
      /\ \A s \in Runs : \A t \in Stamps(s) : t \in Nat /\ t <= clock
      /\ \A s, u \in Runs : s # u => Stamps(s) \cap Stamps(u) = {}
  <2>1. \A s \in Runs : Stamps(s) \subseteq Nat
    BY DEF TableInv, TableType, Stamps
  <2>2. clock \in Nat
    BY DEF TableInv, TableType
  <2>3. QED
    BY <2>1, <2>2 DEF TableInv, StampInv
<1>2. \A s \in Runs : \A t \in Stamps(s)' : t <= clock'
  BY <1>1, StampsOfStep
<1>3. clock + 1 \notin UNION {Stamps(s) : s \in Runs}
  BY <1>1
<1>4. \A s, u \in Runs : s # u => Stamps(s)' \cap Stamps(u)' = {}
  BY <1>1, <1>3, StampsOfStep
<1>5. QED
  BY <1>2, <1>4 DEF StampInv

LEMMA TableStep == TableInv /\ [Next]_vars => TableInv'
<1> SUFFICES ASSUME TableInv, [Next]_vars PROVE TableInv'
  OBVIOUS
<1>1. ASSUME NEW r \in Runs, Run(r) PROVE TableInv'
  <2>1. TableType'
    BY <1>1, TableTypeStep DEF TableInv
  <2>2. QED
    BY <1>1, <2>1, RunStep, StampStep DEF TableInv
<1>2. CASE Look \/ UNCHANGED vars
  <2>1. UNCHANGED table
    BY <1>2 DEF Look, ReadHistory, CheckRow, Open, ReadRuns, ReadBefore, ReadLatest,
                Again, vars
  <2>2. QED
    BY <2>1 DEF table, TableInv, TableType, RunInv, StampInv, Settled, Stamps
<1>3. QED
  BY <1>1, <1>2 DEF Next
-----------------------------------------------------------------------------
(* The two runs that finished last. *)

LEMMA PairsAreOrdered ==
  ASSUME TableInv, NEW p \in PairOf(Completed)
  PROVE  /\ p \in Runs \X Runs /\ Ordered(p)
         /\ \A s \in Completed : finished[s] <= finished[p[1]]
<1>1. /\ p \in Completed \X Completed /\ p[1] \in Newest(Completed)
      /\ p[2] \in Completed /\ p[1] # p[2]
  BY DEF PairOf, Newest
<1>2. p \in Runs \X Runs /\ p[1] \in Runs /\ p[2] \in Runs
  BY <1>1 DEF Completed
<1>3. \A s \in Completed : finished[s] <= finished[p[1]]
  BY <1>1 DEF Newest
<1>4. Settled(p[1]) /\ Settled(p[2])
  BY <1>1, <1>2 DEF TableInv, RunInv, Completed
<1>5. finished[p[1]] \in Nat /\ finished[p[2]] \in Nat
  BY <1>2 DEF TableInv, TableType
<1>6. finished[p[1]] # finished[p[2]]
  BY <1>1, <1>2, <1>4, <1>5 DEF TableInv, StampInv, Stamps, Settled
<1>7. QED
  BY <1>1, <1>2, <1>3, <1>4, <1>5, <1>6 DEF Ordered

\* At one moment there is one latest run, and one before it.
LEMMA OneNewest ==
  ASSUME TableInv, NEW S \in SUBSET Completed, NEW r \in Newest(S), NEW s \in Newest(S)
  PROVE  r = s
<1>1. r \in Runs /\ s \in Runs /\ status[r] = "completed" /\ status[s] = "completed"
  BY DEF Newest, Completed
<1>2. Settled(r) /\ finished[r] \in Nat /\ finished[s] \in Nat
  BY <1>1 DEF TableInv, RunInv, TableType
<1>3. finished[r] = finished[s]
  BY <1>2 DEF Newest
<1>4. QED
  BY <1>1, <1>2, <1>3 DEF TableInv, StampInv, Stamps, Settled

LEMMA OnePair ==
  ASSUME TableInv, NEW p \in PairOf(Completed), NEW q \in PairOf(Completed)
  PROVE  p = q
<1>1. p[1] = q[1]
  BY OneNewest DEF PairOf
<1>2. p[2] = q[2]
  BY <1>1, OneNewest DEF PairOf
<1>3. QED
  BY <1>1, <1>2 DEF PairOf

-----------------------------------------------------------------------------
(* What a reader may rely on while the runs go on. *)

LEMMA SettledStays ==
  ASSUME TableInv, NEW r \in Runs, Run(r), NEW s \in Runs, Settled(s)
  PROVE  /\ finished'[s] = finished[s] /\ signals'[s] = signals[s]
         /\ status[s] = "failed" => status'[s] = "failed"
<1>1. TableType /\ task[s] \in {"failing", "over"} /\ status[s] \in {"completed", "failed"}
  BY DEF TableInv, RunInv
<1>2. CASE s # r
  BY <1>1, <1>2, OthersStay
<1>3. CASE s = r
  <2>1. FailRun(r) \/ LateFail(r)
    BY <1>1, <1>3 DEF Run, Start, SaveSignal, Saving, BeginFinish, CommitFinish
  <2>2. QED
    BY <1>1, <1>3, <2>1 DEF FailRun, LateFail, Becomes, TableType
<1>4. QED
  BY <1>2, <1>3

LEMMA ClientStays ==
  ASSUME NEW r \in Runs, Run(r)
  PROVE  UNCHANGED client
BY DEF Run, Start, SaveSignal, BeginFinish, CommitFinish, FailRun, LateFail

\* Between a comparison and the delta it leads to, moved misses nothing.
LEMMA MovesAreNoted ==
  ASSUME TableInv, ClientType, NEW r \in Runs, Run(r)
  PROVE  /\ moved' \in BOOLEAN /\ (moved => moved')
         /\ at # "history" /\ ~badge => moved' = moved
         /\ at = "history" \/ badge =>
              moved' \/ UNCHANGED <<finished, Completed>>
<1>1. TableType /\ RunInv(r) /\ moved \in BOOLEAN
  BY DEF TableInv, ClientType
<1>2. CASE Start(r)
  <2>1. Completed' = Completed
    BY <1>1, <1>2 DEF Start, Becomes, Completed, TableType
  <2>2. QED
    BY <1>1, <1>2, <2>1 DEF Start
<1>3. CASE SaveSignal(r) \/ BeginFinish(r)
  BY <1>1, <1>3 DEF SaveSignal, BeginFinish, Completed
<1>4. CASE CommitFinish(r) \/ FailRun(r) \/ LateFail(r)
  BY <1>1, <1>4 DEF CommitFinish, FailRun, LateFail, Note, Completed
<1>5. QED
  BY <1>2, <1>3, <1>4 DEF Run

LEMMA PairsStay ==
  UNCHANGED <<finished, Completed>> => PairOf(Completed)' = PairOf(Completed)
BY DEF PairOf, Newest
-----------------------------------------------------------------------------
(* The readers, while a run steps. *)

LEMMA OrderStays ==
  ASSUME TableInv, NEW r \in Runs, Run(r), NEW p \in Runs \X Runs, Ordered(p)
  PROVE  Ordered(p)' /\ NewIn(p)' = NewIn(p) /\ KeysOf(p[2])' = KeysOf(p[2])
<1>1. p[1] \in Runs /\ p[2] \in Runs
  OBVIOUS
<1>2. /\ finished'[p[1]] = finished[p[1]] /\ signals'[p[1]] = signals[p[1]]
      /\ finished'[p[2]] = finished[p[2]] /\ signals'[p[2]] = signals[p[2]]
  BY <1>1, SettledStays DEF Ordered
<1>3. QED
  BY <1>2 DEF Ordered, Settled, NewIn, KeysOf

LEMMA RunKeepsReaders ==
  ASSUME TableInv, ReaderInv, NEW r \in Runs, Run(r)
  PROVE  ReaderInv'
<1>1. UNCHANGED client
  BY ClientStays
<1> USE <1>1 DEF client
<1>2. ClientType'
  BY MovesAreNoted DEF ReaderInv, ClientType
<1>3. PairInv'
  <2>1. pair # None => /\ Ordered(pair)' /\ NewIn(pair)' = NewIn(pair)
                       /\ KeysOf(pair[2])' = KeysOf(pair[2])
    BY OrderStays DEF ReaderInv, ClientType, PairInv
  <2>2. QED
    BY <2>1 DEF ReaderInv, PairInv
<1>4. SawInv'
  <2>1. SUFFICES ASSUME saw # None PROVE SawInv'
    BY DEF SawInv
  <2>2. saw \in Runs /\ Settled(saw)
    BY <2>1 DEF ReaderInv, ClientType, SawInv
  <2>3. finished'[saw] = finished[saw] /\ (status[saw] = "failed" => status'[saw] = "failed")
    BY <2>2, SettledStays
  <2>4. pair # None => finished'[pair[1]] = finished[pair[1]]
    BY SettledStays DEF ReaderInv, ClientType, PairInv, Ordered
  <2>5. QED
    BY <2>1, <2>2, <2>3, <2>4 DEF ReaderInv, SawInv, Settled
<1>5. RowInv'
  <2>1. CASE at = "history" \/ badge
    <3>1. moved' \/ PairOf(Completed)' = PairOf(Completed)
      BY <2>1, MovesAreNoted, PairsStay DEF ReaderInv
    <3>2. \A p \in PairOf(Completed) : NewIn(p)' = NewIn(p)
      BY OrderStays, PairsAreOrdered
    <3>3. moved => moved'
      BY MovesAreNoted DEF ReaderInv
    <3>4. QED
      BY <2>1, <3>1, <3>2, <3>3 DEF ReaderInv, RowInv, ClientType
  <2>2. CASE at # "history" /\ ~badge
    BY <2>2, MovesAreNoted DEF ReaderInv, RowInv
  <2>3. QED
    BY <2>1, <2>2
<1>6. QED
  BY <1>2, <1>3, <1>4, <1>5 DEF ReaderInv

-----------------------------------------------------------------------------
(* The steps of the readers. *)

LEMMA ReaderStart == Init => ReaderInv
BY NoneAssumption DEF Init, ReaderInv, ClientType, PairInv, SawInv, RowInv

LEMMA KeysAreNotNone ==
  ASSUME TableInv, NEW r \in Runs
  PROVE  KeysOf(r) \in SUBSET AllKeys /\ KeysOf(r) # None
<1>1. signals[r] \subseteq Headlines
  BY DEF TableInv, TableType
<1>2. KeysOf(r) \in SUBSET AllKeys
  BY <1>1 DEF KeysOf, AllKeys
<1>3. QED
  BY <1>2, NoneAssumption DEF AllKeys

\* A step of the client writes no table.
LEMMA TableRead ==
  ASSUME UNCHANGED table
  PROVE  /\ \A r \in Runs : Settled(r)' = Settled(r) /\ KeysOf(r)' = KeysOf(r)
         /\ \A p : Ordered(p)' = Ordered(p) /\ NewIn(p)' = NewIn(p)
         /\ Completed' = Completed /\ PairOf(Completed)' = PairOf(Completed)
BY DEF table, Settled, KeysOf, Ordered, NewIn, New, Completed, PairOf, Newest

LEMMA ReadHistoryStep ==
  ASSUME TableInv, ReaderInv, ReadHistory
  PROVE  ReaderInv'
<1> USE DEF ReaderInv, ReadHistory
<1>1. row' \in Runs \cup {None} /\ (row' # None => Owner[row'] = User)
  BY DEF Newest, Completed
<1>2. ClientType'
  BY <1>1 DEF ClientType
<1>3. PairInv'
  BY DEF PairInv
<1>4. SawInv'
  BY DEF SawInv, PairInv, Settled, table
<1>5. RowInv'
  BY <1>1 DEF RowInv
<1>6. QED
  BY <1>2, <1>3, <1>4, <1>5

LEMMA CheckRowStep ==
  ASSUME TableInv, ReaderInv, CheckRow
  PROVE  ReaderInv'
<1> USE DEF ReaderInv
<1>1. /\ at = "listed" /\ ~badge /\ ~moved /\ pair = None /\ before = None
      /\ UNCHANGED <<table, before, badge, saw, moved>>
  BY DEF CheckRow, RowInv, PairInv
<1>2. CASE /\ row # None /\ row' = row /\ at' = "history"
           /\ pair' \in PairOf(Completed) /\ pair'[1] = row
  <2>1. pair' \in Runs \X Runs /\ Ordered(pair') /\ pair' # None
    BY <1>2, PairsAreOrdered, NoneAssumption
  <2>2. Ordered(pair)'
    BY <1>1, <2>1 DEF Ordered, Settled, table
  <2>3. ClientType'
    BY <1>1, <1>2, <2>1 DEF ClientType
  <2>4. PairInv'
    BY <1>1, <1>2, <2>1, <2>2 DEF PairInv
  <2>5. SawInv'
    BY <1>1, <1>2 DEF SawInv, Settled, table
  <2>6. RowInv'
    BY <1>1, <1>2, TableRead DEF RowInv
  <2>7. QED
    BY <2>3, <2>4, <2>5, <2>6
<1>3. CASE at' = "idle" /\ row' = None /\ pair' = pair
  <2>1. ClientType' /\ PairInv' /\ RowInv'
    BY <1>1, <1>3 DEF ClientType, PairInv, RowInv
  <2>2. SawInv'
    BY <1>1, <1>3 DEF SawInv, Settled, table
  <2>3. QED
    BY <2>1, <2>2
<1>4. QED
  BY <1>2, <1>3 DEF CheckRow, Flagged

LEMMA OpenStep ==
  ASSUME TableInv, ReaderInv, Open
  PROVE  ReaderInv'
<1> USE DEF ReaderInv, Open
<1>1. saw' \in Runs \cup {None} /\ (saw' # None => Settled(saw'))
  BY DEF Completed, TableInv, RunInv
<1>2. ClientType' /\ PairInv'
  BY <1>1 DEF ClientType, PairInv
<1>3. SawInv'
  BY <1>1 DEF SawInv, Settled, table, PairInv
<1>4. RowInv'
  BY TableRead DEF RowInv, PairInv
<1>5. QED
  BY <1>2, <1>3, <1>4
LEMMA ReadRunsStep ==
  ASSUME TableInv, ReaderInv, ReadRuns
  PROVE  ReaderInv'
<1> USE DEF ReaderInv
<1>1. /\ at = "asking" /\ pair = None /\ before = None
      /\ UNCHANGED <<table, row, before, news, badge, saw, moved>>
  BY DEF ReadRuns, PairInv
<1>2. CASE at' = "delta" /\ pair' \in PairOf(Completed)
  <2>1. /\ pair' \in Runs \X Runs /\ Ordered(pair') /\ pair' # None
        /\ \A s \in Completed : finished[s] <= finished[pair'[1]]
    BY <1>2, PairsAreOrdered, NoneAssumption
  <2>2. Ordered(pair)'
    BY <1>1, <2>1 DEF Ordered, Settled, table
  <2>3. ClientType'
    BY <1>1, <1>2, <2>1 DEF ClientType
  <2>4. PairInv'
    BY <1>1, <1>2, <2>1, <2>2 DEF PairInv
  <2>5. SawInv'
    <3>1. saw # None => saw \in Runs /\ Settled(saw) /\ status[saw] \in {"completed", "failed"}
      BY DEF SawInv, ClientType, TableInv, RunInv
    <3>2. saw # None => saw \in Completed \/ status[saw] = "failed"
      BY <3>1 DEF Completed
    <3>3. QED
      BY <1>1, <1>2, <2>1, <3>1, <3>2 DEF SawInv, Settled, table
  <2>6. RowInv'
    BY <1>1, <1>2, <2>1, TableRead DEF RowInv
  <2>7. QED
    BY <2>3, <2>4, <2>5, <2>6
<1>3. CASE at' = "told" /\ pair' = pair /\ PairOf(Completed) = {}
  <2>1. ClientType' /\ PairInv'
    BY <1>1, <1>3 DEF ClientType, PairInv
  <2>2. SawInv'
    BY <1>1, <1>3 DEF SawInv, Settled, table
  <2>3. RowInv'
    BY <1>1, <1>3, TableRead DEF RowInv
  <2>4. QED
    BY <2>1, <2>2, <2>3
<1>4. QED
  BY <1>2, <1>3 DEF ReadRuns

LEMMA ReadBeforeStep ==
  ASSUME TableInv, ReaderInv, ReadBefore
  PROVE  ReaderInv'
<1> USE DEF ReaderInv
<1>1. /\ at \in {"history", "delta"} /\ before' = KeysOf(pair[2])
      /\ UNCHANGED <<table, at, row, pair, news, badge, saw, moved>>
  BY DEF ReadBefore, KeysOf
<1>2. pair # None /\ pair \in Runs \X Runs /\ Ordered(pair)
  BY <1>1 DEF PairInv, ClientType
<1>3. before' \in SUBSET AllKeys
  BY <1>1, <1>2, KeysAreNotNone
<1>4. ClientType'
  BY <1>1, <1>3 DEF ClientType
<1>5. PairInv'
  BY <1>1, <1>2, TableRead DEF PairInv
<1>6. SawInv'
  BY <1>1 DEF SawInv, Settled, table
<1>7. RowInv'
  BY <1>1, TableRead DEF RowInv
<1>8. QED
  BY <1>4, <1>5, <1>6, <1>7

LEMMA ReadLatestStep ==
  ASSUME TableInv, ReaderInv, ReadLatest
  PROVE  ReaderInv'
<1> USE DEF ReaderInv
<1>1. /\ at \in {"history", "delta"} /\ before = KeysOf(pair[2]) /\ before' = None
      /\ UNCHANGED <<table, saw>>
  BY DEF ReadLatest, PairInv
<1>2. pair # None /\ pair \in Runs \X Runs /\ Ordered(pair)
  BY <1>1 DEF PairInv, ClientType
<1>3. CASE /\ at = "delta" /\ at' = "told" /\ news' = NewIn(pair)
           /\ UNCHANGED <<row, pair, badge, moved>>
  <2>1. ClientType'
    BY <1>1, <1>3 DEF ClientType
  <2>2. PairInv'
    BY <1>1, <1>2, <1>3, TableRead DEF PairInv
  <2>3. SawInv'
    BY <1>1, <1>3 DEF SawInv, Settled, table
  <2>4. RowInv'
    BY <1>1, <1>3, TableRead DEF RowInv
  <2>5. QED
    BY <2>1, <2>2, <2>3, <2>4
<1>4. CASE /\ at = "history" /\ at' = "idle" /\ badge' = (NewIn(pair) # {})
           /\ pair' = None /\ row' = (IF badge' THEN row ELSE None)
           /\ moved' = (badge' /\ moved)
  <2>1. ClientType'
    BY <1>1, <1>4 DEF ClientType
  <2>2. PairInv'
    BY <1>1, <1>4 DEF PairInv
  <2>3. SawInv'
    BY <1>1, <1>4 DEF SawInv, Settled, table
  <2>4. CASE badge'
    BY <1>1, <1>2, <1>4, <2>1, <2>2, <2>3, <2>4, TableRead DEF RowInv, ClientType
  <2>5. CASE ~badge'
    BY <1>1, <1>4, <2>1, <2>2, <2>3, <2>5 DEF RowInv
  <2>6. QED
    BY <2>4, <2>5
<1>5. QED
  BY <1>1, <1>3, <1>4 DEF ReadLatest, NewIn, KeysOf

LEMMA AgainStep ==
  ASSUME TableInv, ReaderInv, Again
  PROVE  ReaderInv'
<1> USE DEF ReaderInv, Again
<1>1. ClientType' /\ PairInv'
  BY DEF ClientType, PairInv
<1>2. SawInv' /\ RowInv'
  BY DEF SawInv, RowInv
<1>3. QED
  BY <1>1, <1>2

-----------------------------------------------------------------------------
(* The invariant, and what the two handlers promise. *)

LEMMA MonitorStep == MonitorInv /\ [Next]_vars => MonitorInv'
<1> SUFFICES ASSUME MonitorInv, [Next]_vars PROVE MonitorInv'
  OBVIOUS
<1>1. TableInv /\ ReaderInv /\ TableInv'
  BY TableStep DEF MonitorInv
<1>2. CASE \E r \in Runs : Run(r)
  BY <1>1, <1>2, RunKeepsReaders DEF MonitorInv
<1>3. CASE Look
  BY <1>1, <1>3, ReadHistoryStep, CheckRowStep, OpenStep, ReadRunsStep, ReadBeforeStep,
     ReadLatestStep, AgainStep DEF Look, MonitorInv
<1>4. CASE UNCHANGED vars
  <2>1. UNCHANGED table /\ UNCHANGED client /\ UNCHANGED moved
    BY <1>4 DEF vars
  <2>2. ClientType' /\ PairInv'
    BY <1>1, <2>1, TableRead DEF ReaderInv, ClientType, PairInv, client
  <2>3. SawInv'
    BY <1>1, <2>1 DEF ReaderInv, SawInv, Settled, client, table
  <2>4. RowInv'
    BY <1>1, <2>1, TableRead DEF ReaderInv, RowInv, client
  <2>5. QED
    BY <1>1, <2>2, <2>3, <2>4 DEF MonitorInv, ReaderInv
<1>5. QED
  BY <1>2, <1>3, <1>4 DEF Next

LEMMA MonitorInvariant == Spec => []MonitorInv
<1>1. Init => MonitorInv
  BY TableStart, ReaderStart DEF MonitorInv
<1>2. QED
  BY <1>1, MonitorStep, PTL DEF Spec

\* However runs finish, fail and commit between the reads of the handler, a delta
\* is the difference of two completed runs in the order they finished, and is
\* about the run the client saw completed or a later one.
THEOREM DeltasAreDifferences == Spec => []DeltaIsWhatIsNew
<1>1. MonitorInv => DeltaIsWhatIsNew
  <2> SUFFICES ASSUME MonitorInv, at = "told", pair # None PROVE DeltaIsWhatIsNew
    BY DEF DeltaIsWhatIsNew
  <2>1. Ordered(pair) /\ news = NewIn(pair)
    BY DEF MonitorInv, ReaderInv, PairInv
  <2>2. NewIn(pair) = {h \in signals[pair[1]] : \A g \in signals[pair[2]] : Key[g] # Key[h]}
    BY DEF NewIn, New, KeysOf
  <2>3. saw # None => finished[saw] <= finished[pair[1]] \/ status[saw] = "failed"
    BY DEF MonitorInv, ReaderInv, SawInv
  <2>4. QED
    BY <2>1, <2>2, <2>3 DEF DeltaIsWhatIsNew, Ordered
<1>2. QED
  BY <1>1, MonitorInvariant, PTL

\* The history and the delta agree about the newest run of the company: a badge
\* is worth following for as long as no run completes or fails.
THEOREM BadgesAreKept == Spec => []BadgesLeadToNews
<1>1. MonitorInv => BadgesLeadToNews
  <2> SUFFICES ASSUME MonitorInv, badge PROVE BadgesLeadToNews
    BY DEF BadgesLeadToNews
  <2>1. row # None /\ Owner[row] = User
    BY DEF MonitorInv, ReaderInv, RowInv
  <2>2. ASSUME ~moved PROVE row \in Newest(Completed)
    BY <2>2 DEF MonitorInv, ReaderInv, RowInv, PairOf
  <2>3. ASSUME at = "told", ~moved PROVE pair # None /\ news # {}
    <3>1. pair # None /\ pair \in PairOf(Completed) /\ news = NewIn(pair)
      BY <2>3 DEF MonitorInv, ReaderInv, RowInv, PairInv
    <3>2. \E p \in PairOf(Completed) : NewIn(p) # {}
      BY <2>3 DEF MonitorInv, ReaderInv, RowInv
    <3>3. QED
      BY <3>1, <3>2, OnePair DEF MonitorInv
  <2>4. QED
    BY <2>1, <2>2, <2>3 DEF BadgesLeadToNews
<1>2. QED
  BY <1>1, MonitorInvariant, PTL

\* What a run was compared by once it was completed never changes, even when its
\* closing event fails it afterwards: its signals, the moment it finished, and a
\* failure, which no later write takes back.
SettledForGood ==
  [][\A r \in Runs : Settled(r) =>
       /\ finished'[r] = finished[r] /\ signals'[r] = signals[r]
       /\ status[r] = "failed" => status'[r] = "failed"]_vars

\* Nothing that a reader holds of a completed run grows stale (SettledForGood).
THEOREM SettledRunsAreFinal == Spec => SettledForGood
<1> DEFINE Kept == \A r \in Runs : Settled(r) =>
                     /\ finished'[r] = finished[r] /\ signals'[r] = signals[r]
                     /\ status[r] = "failed" => status'[r] = "failed"
<1>1. MonitorInv /\ [Next]_vars => [Kept]_vars
  <2> SUFFICES ASSUME MonitorInv, Next PROVE Kept
    OBVIOUS
  <2>1. ASSUME NEW r \in Runs, Run(r) PROVE Kept
    BY <2>1, SettledStays DEF MonitorInv
  <2>2. CASE Look
    BY <2>2 DEF Look, ReadHistory, CheckRow, Open, ReadRuns, ReadBefore, ReadLatest, Again, table
  <2>3. QED
    BY <2>1, <2>2 DEF Next
<1>2. QED
  BY <1>1, MonitorInvariant, PTL DEF Spec, SettledForGood
=============================================================================
