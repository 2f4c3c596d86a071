------------------------------- MODULE Monitor -------------------------------
(***************************************************************************)
(* The monitoring of one company: what its latest run found that the run   *)
(* before it did not.  GET /companies/{slug}/delta compares the signals of *)
(* the two completed runs that finished last; GET /history flags the       *)
(* newest run of the caller when it is the latest of the company and that  *)
(* comparison finds something.  Each handler reads the runs, then the      *)
(* signals of the one and of the other, in transactions of their own,      *)
(* while runs complete, and while completed runs are failed by a late      *)
(* except block.                                                           *)
(*                                                                         *)
(* Handlers that only read do not disturb each other: there is one client, *)
(* who looks at the history and opens the delta, or opens it at once.  The *)
(* agent, the rival and the type of a signal are part of its headline.  A  *)
(* read that raises ends the request, and is left out.                     *)
(***************************************************************************)
EXTENDS Naturals

CONSTANTS
  Runs,
  Owner,     \* the user who started a run, None for a refresh
  User,      \* the user whose history is read
  Headlines,
  Key,       \* what normalize_headline makes of a headline
  None

ASSUME OwnerAssumption == DOMAIN Owner = Runs
ASSUME KeyAssumption == DOMAIN Key = Headlines
ASSUME NoneAssumption ==
  /\ None \notin Runs
  /\ \A p \in Runs \X Runs : p # None
  /\ \A keys \in SUBSET {Key[h] : h \in Headlines} : keys # None

VARIABLES
  status,   \* table runs: "none", "open", "completed", "failed"
  finished, \* table runs: finished_at of a run that was completed, or 0
  signals,  \* table signals: the headlines of each run
  task,     \* analysis: "none", "saving", "finishing", "failing", "over"
  stamp,    \* analysis: now() of the transaction of finish_run, or 0
  clock,
  at,       \* client: "idle", "listed", "asking", "history", "delta", "told"
  row,      \* client: its newest row in the history
  pair,     \* client: the latest run and the one before, or None
  before,   \* client: the keys read of the run before, or None
  news,     \* client: the headlines of the delta, or None
  badge,    \* client: the history had has_new on the row
  saw,      \* client: a run that it saw completed before it asked for the delta
  moved     \* history: a run completed or failed since the history read the runs

table  == <<status, finished, signals, task, stamp, clock>>
client == <<at, row, pair, before, news, badge, saw>>
vars   == <<table, client, moved>>

Init ==
  /\ status = [r \in Runs |-> "none"] /\ finished = [r \in Runs |-> 0]
  /\ signals = [r \in Runs |-> {}]
  /\ task = [r \in Runs |-> "none"] /\ stamp = [r \in Runs |-> 0] /\ clock = 0
  /\ at = "idle" /\ row = None /\ pair = None /\ before = None /\ news = None
  /\ badge = FALSE /\ saw = None /\ moved = FALSE

Completed == {r \in Runs : status[r] = "completed"}
Becomes(r, s) == status' = [status EXCEPT ![r] = s]
Turn(r, p) == task' = [task EXCEPT ![r] = p]

\* Of interest to a client who is about to be told of a badge, or was.
Note == moved' = (moved \/ at = "history" \/ badge)

-----------------------------------------------------------------------------
(* Runs. *)

\* An analysis whose rivals were confirmed, or the refresh of a completed one.
Start(r) ==
  /\ status[r] = "none"
  /\ Owner[r] # None \/ Completed # {}
  /\ Becomes(r, "open") /\ Turn(r, "saving")
  /\ UNCHANGED <<finished, signals, stamp, clock, client, moved>>

\* Mutant: the signals may be saved after the run is completed.
SavingLate(r) == task[r] \in {"saving", "over"}

Saving(r) == task[r] = "saving"

\* merge_node saves a signal; one that cannot be saved is passed over.
SaveSignal(r) ==
  /\ Saving(r)
  /\ \E h \in Headlines \ signals[r] : signals' = [signals EXCEPT ![r] = @ \cup {h}]
  /\ UNCHANGED <<status, finished, task, stamp, clock, client, moved>>

\* The transaction of finish_run begins; its now() is what is written.
BeginFinish(r) ==
  /\ task[r] = "saving"
  /\ clock' = clock + 1
  /\ stamp' = [stamp EXCEPT ![r] = clock + 1]
  /\ Turn(r, "finishing")
  /\ UNCHANGED <<status, finished, signals, client, moved>>

\* It commits, in any order with those of other runs; the call may raise then,
\* or instead.
CommitFinish(r) ==
  /\ task[r] = "finishing"
  /\ \/ /\ Becomes(r, "completed")
        /\ finished' = [finished EXCEPT ![r] = stamp[r]]
        /\ Note
        /\ Turn(r, "over") \/ Turn(r, "failing")
     \/ Turn(r, "failing") /\ UNCHANGED <<status, finished, moved>>
  /\ stamp' = [stamp EXCEPT ![r] = 0]
  /\ UNCHANGED <<signals, clock, client>>

\* fail_run, in the except block of the analysis after something raised in it;
\* the finished_at of a failed run is not read.
FailRun(r) ==
  /\ task[r] \in {"saving", "failing"}
  /\ Becomes(r, "failed") /\ Turn(r, "over")
  /\ Note
  /\ UNCHANGED <<finished, signals, stamp, clock, client>>

\* fail_run, in the except block of a discovery that could not write its closing
\* event; before the analysis has completed the run, nobody sees it.
LateFail(r) ==
  /\ status[r] = "completed" /\ Owner[r] # None
  /\ Becomes(r, "failed")
  /\ Note
  /\ UNCHANGED <<finished, signals, task, stamp, clock, client>>

-----------------------------------------------------------------------------
(* The two handlers. *)

Newest(S) == {r \in S : \A s \in S : finished[s] <= finished[r]}

\* ORDER BY finished_at DESC LIMIT 2.
PairOf(S) == {p \in S \X S : p[1] \in Newest(S) /\ p[2] \in Newest(S \ {p[1]})}

\* get_history: the completed runs of the user, newest first.
ReadHistory ==
  /\ at = "idle"
  /\ LET mine == {r \in Completed : Owner[r] = User} IN
       IF mine = {} THEN row' = None ELSE \E r \in Newest(mine) : row' = r
  /\ at' = "listed" /\ badge' = FALSE /\ moved' = FALSE
  /\ UNCHANGED <<table, pair, before, news, saw>>

\* Mutant: the newest row is compared with the one below it in the history.
RunsOfUser == {r \in Completed : Owner[r] = User}

Flagged == Completed

\* _flag_new_changes: only a row that is the latest of two runs is compared.
CheckRow ==
  /\ at = "listed"
  /\ \/ /\ row # None
        /\ \E p \in PairOf(Flagged) : p[1] = row /\ pair' = p
        /\ at' = "history" /\ UNCHANGED row
     \/ /\ \A p \in PairOf(Flagged) : p[1] # row
        /\ at' = "idle" /\ row' = None /\ UNCHANGED pair
  /\ UNCHANGED <<table, before, news, badge, saw, moved>>

\* The client asks for the delta, after a poll that showed a run completed, or not.
Open ==
  /\ at = "idle"
  /\ \E r \in Completed \cup {None} : saw' = r
  /\ at' = "asking"
  /\ UNCHANGED <<table, row, pair, before, news, badge, moved>>

\* company_delta.
ReadRuns ==
  /\ at = "asking"
  /\ IF PairOf(Completed) = {}
     THEN at' = "told" /\ UNCHANGED pair
     ELSE at' = "delta" /\ pair' \in PairOf(Completed)
  /\ UNCHANGED <<table, row, before, news, badge, saw, moved>>

\* get_signals_for_run of the run before.
ReadBefore ==
  /\ at \in {"history", "delta"} /\ before = None
  /\ before' = {Key[h] : h \in signals[pair[2]]}
  /\ UNCHANGED <<table, at, row, pair, news, badge, saw, moved>>

\* compute_delta.
New(headlines, keys) == {h \in headlines : Key[h] \notin keys}

\* get_signals_for_run of the latest run, and the answer.
ReadLatest ==
  /\ at \in {"history", "delta"} /\ before # None
  /\ before' = None
  /\ LET new == New(signals[pair[1]], before) IN
       IF at = "delta"
       THEN at' = "told" /\ news' = new /\ UNCHANGED <<row, pair, badge, moved>>
       ELSE /\ at' = "idle" /\ badge' = (new # {}) /\ pair' = None
            /\ row' = IF badge' THEN row ELSE None
            /\ moved' = (badge' /\ moved)
            /\ UNCHANGED news
  /\ UNCHANGED <<table, saw>>

\* The client looks again.
Again ==
  /\ at = "told"
  /\ at' = "idle" /\ row' = None /\ pair' = None /\ news' = None
  /\ badge' = FALSE /\ saw' = None /\ moved' = FALSE
  /\ UNCHANGED <<table, before>>

Run(r) == \/ Start(r) \/ SaveSignal(r) \/ BeginFinish(r) \/ CommitFinish(r)
          \/ FailRun(r) \/ LateFail(r)
Look   == \/ ReadHistory \/ CheckRow \/ Open \/ ReadRuns \/ ReadBefore
          \/ ReadLatest \/ Again

Next == (\E r \in Runs : Run(r)) \/ Look

Spec == Init /\ [][Next]_vars

-----------------------------------------------------------------------------
(* Properties. *)

\* A delta is what it says whatever ran between its reads: all that the later of
\* two completed runs found, and nothing that the earlier one did under another
\* spelling.  A client that saw a run completed gets the news of that run or of
\* one that finished later, unless the run was failed after all.
DeltaIsWhatIsNew ==
  at = "told" /\ pair # None =>
    /\ finished[pair[2]] < finished[pair[1]]
    /\ news = {h \in signals[pair[1]] : \A g \in signals[pair[2]] : Key[g] # Key[h]}
    /\ saw # None => finished[saw] <= finished[pair[1]] \/ status[saw] = "failed"

\* The two handlers agree: the badge is on a run of the user, the latest of the
\* company, and who follows it to the delta finds something new there, unless
\* another run was completed or failed in the meantime.
BadgesLeadToNews ==
  badge =>
    /\ Owner[row] = User
    /\ ~moved => row \in Newest(Completed)
    /\ at = "told" /\ ~moved => pair # None /\ news # {}
=============================================================================
