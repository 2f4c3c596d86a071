------------------------------ MODULE ChatStore ------------------------------
(***************************************************************************)
(* Chats over the stored intel of a company.  POST /chat puts a record in  *)
(* a dict of the process and queues a task; the task answers from the      *)
(* stored analysis, or searches live, or both; GET /chat polls the record. *)
(* The dict is guarded by a lock, under which a poll copies the record;    *)
(* the copy shares the list of events with the task, which appends to it   *)
(* while the poll is rendered.                                             *)
(*                                                                         *)
(* Answers are known by where they come from and what they cite, events by *)
(* their number; each step of the task says one thing.                     *)
(***************************************************************************)
EXTENDS Naturals

CONSTANTS
  Chats,
  Evidence,   \* ids that an answer may cite
  None, NotFound,
  MaxCrashes  \* bound on the restarts of the process

ASSUME NoneAssumption ==
  /\ None \notin {NotFound, "stored", "live", "mixed"}
  /\ \A ids \in SUBSET Evidence : ids # None
  /\ \A record \in [status : {"processing", "completed", "failed"},
                   source : {None, "stored", "live", "mixed"}, cites : SUBSET Evidence] :
       record # None
ASSUME BoundAssumption == MaxCrashes \in Nat

VARIABLES
  chat,    \* the dict: the record of each chat, without its events
  events,  \* how many events its list has
  where,   \* task: where it is
  fresh,   \* task: the question asks for something current
  context, \* task: the ids in the stored analysis, if there is one
  query,   \* pool threads of the task: its two queries
  copy,    \* poll: the record that it copied and has not rendered yet
  shown,   \* client: what the last poll of each chat showed
  said,    \* history: the events of a chat when it was settled
  crashes

task  == <<where, fresh, context, query>>
polls == <<copy, shown>>
vars  == <<chat, events, task, polls, said, crashes>>

Queries == {1, 2}  \* the company with the question, and the question
Ids     == SUBSET Evidence
Sources == {None, "stored", "live", "mixed"}
Records == [status : {"processing", "completed", "failed"}, source : Sources, cites : Ids]
Answers == [status : {"processing", "completed", "failed"}, source : Sources, cites : Ids,
            events : Nat]

TypeOK ==
  /\ chat \in [Chats -> {None} \cup Records]
  /\ events \in [Chats -> Nat] /\ said \in [Chats -> Nat] /\ crashes \in 0..MaxCrashes
  /\ where \in [Chats -> {"none", "looking", "asking", "searching", "answering",
                          "failing", "closing", "done"}]
  /\ fresh \in [Chats -> BOOLEAN] /\ context \in [Chats -> {None} \cup Ids]
  /\ query \in [Chats -> [Queries -> {"waiting", "running", "empty", "found"}]]
  /\ copy \in [Chats -> {None} \cup Records]
  /\ shown \in [Chats -> {None, NotFound} \cup Answers]
  /\ \A c \in Chats : where[c] \notin {"none", "done"} \/ copy[c] # None => chat[c] # None

Unasked == [q \in Queries |-> "waiting"]

Init ==
  /\ chat = [c \in Chats |-> None] /\ events = [c \in Chats |-> 0]
  /\ where = [c \in Chats |-> "none"]
  /\ fresh = [c \in Chats |-> FALSE] /\ context = [c \in Chats |-> None]
  /\ query = [c \in Chats |-> Unasked]
  /\ copy = [c \in Chats |-> None] /\ shown = [c \in Chats |-> None]
  /\ said = [c \in Chats |-> 0] /\ crashes = 0

Move(c, p) == where' = [where EXCEPT ![c] = p]
Say(c) == events' = [events EXCEPT ![c] = @ + 1]

\* The locals of tasks that are over.
Forget(over) ==
  /\ fresh' = [c \in Chats |-> c \notin over /\ fresh[c]]
  /\ context' = [c \in Chats |-> IF c \in over THEN None ELSE context[c]]
  /\ query' = [c \in Chats |-> IF c \in over THEN Unasked ELSE query[c]]

\* create_chat, and the task is queued.
Post(c) ==
  /\ where[c] = "none"
  /\ chat' = [chat EXCEPT ![c] = [status |-> "processing", source |-> None, cites |-> {}]]
  /\ \E f \in BOOLEAN : fresh' = [fresh EXCEPT ![c] = f]
  /\ Move(c, "looking")
  /\ UNCHANGED <<events, context, query, polls, said, crashes>>

-----------------------------------------------------------------------------
(* The task. *)

\* Without a stored analysis, or for a question about now, the task searches.
GoesLive(c, ids) == ids = None \/ fresh[c]

\* _stored_context reads the report, the competitors and the signals of a run;
\* it raises, finds nothing, or finds an analysis with some evidence.
LookUp(c) ==
  /\ where[c] = "looking"
  /\ \/ \E ids \in {None} \cup Ids :
          /\ context' = [context EXCEPT ![c] = ids]
          /\ Move(c, IF GoesLive(c, ids) THEN "searching" ELSE "asking")
     \/ Move(c, "failing") /\ UNCHANGED context
  /\ Say(c)
  /\ UNCHANGED <<chat, fresh, query, polls, said, crashes>>

\* Mutant: what the model cites is believed.
AnyIds(c) == Ids

\* The ids of the context that the model cites, or else all of them.
Cited(c) == {ids \in SUBSET context[c] : ids # {} \/ context[c] = {}}

\* chat_store.finish, one update under the lock.
Finish(c, source, ids) ==
  /\ chat' = [chat EXCEPT ![c] = [status |-> "completed", source |-> source, cites |-> ids]]
  /\ said' = [said EXCEPT ![c] = events[c]]
  /\ Move(c, "closing")

\* The model answers from the analysis, or does not, or something raises.
AskStored(c) ==
  /\ where[c] = "asking"
  /\ \/ \E ids \in Cited(c) : Finish(c, "stored", ids) /\ UNCHANGED events
     \/ Move(c, "searching") /\ Say(c) /\ UNCHANGED <<chat, said>>
     \/ Move(c, "failing") /\ UNCHANGED <<chat, events, said>>
  /\ UNCHANGED <<fresh, context, query, polls, crashes>>

\* search_all: a pool thread for each query, whose events go to the chat; a
\* query that raises has no results.
StartQuery(c, q) ==
  /\ where[c] = "searching" /\ query[c][q] = "waiting"
  /\ query' = [query EXCEPT ![c][q] = "running"]
  /\ UNCHANGED <<chat, events, where, fresh, context, polls, said, crashes>>

EndQuery(c, q) ==
  /\ query[c][q] = "running"
  /\ \E result \in {"empty", "found"} : query' = [query EXCEPT ![c][q] = result]
  /\ Say(c)
  /\ UNCHANGED <<chat, where, fresh, context, polls, said, crashes>>

Found(c) == \E q \in Queries : query[c][q] = "found"

\* Mutant: the first query with results is enough.
FirstEnded(c) == Found(c) \/ \A q \in Queries : query[c][q] = "empty"

AllEnded(c) == \A q \in Queries : query[c][q] \in {"empty", "found"}

Join(c) ==
  /\ where[c] = "searching" /\ AllEnded(c)
  /\ Move(c, "answering")
  /\ UNCHANGED <<chat, events, fresh, context, query, polls, said, crashes>>

\* The model answers from what was found, or a text says that nothing was.
AskLive(c) ==
  /\ where[c] = "answering"
  /\ \/ IF context[c] = None THEN Finish(c, "live", {})
        ELSE Finish(c, IF Found(c) THEN "mixed" ELSE "stored", context[c])
     \/ Move(c, "failing") /\ UNCHANGED <<chat, said>>
  /\ UNCHANGED <<events, fresh, context, query, polls, crashes>>

\* The last event follows the answer, which clients may not wait for.
Close(c) ==
  /\ where[c] = "closing"
  /\ Say(c) /\ Move(c, "done") /\ Forget({c})
  /\ UNCHANGED <<chat, polls, said, crashes>>

\* Mutant: a status that the answer of a poll does not have.
FailOddly(c) ==
  /\ where[c] = "failing"
  /\ chat' = [chat EXCEPT ![c].status = "error"]
  /\ said' = [said EXCEPT ![c] = events[c]]
  /\ Move(c, "done") /\ Forget({c})
  /\ UNCHANGED <<events, polls, crashes>>

\* start_chat: whatever was raised.
FailChat(c) ==
  /\ where[c] = "failing"
  /\ chat' = [chat EXCEPT ![c].status = "failed"]
  /\ said' = [said EXCEPT ![c] = events[c]]
  /\ Move(c, "done") /\ Forget({c})
  /\ UNCHANGED <<events, polls, crashes>>

-----------------------------------------------------------------------------
(* GET /chat/{chat_id}. *)

\* chat_store.get copies the record, or the answer is 404.
Poll(c) ==
  /\ where[c] # "none" /\ copy[c] = None
  /\ IF chat[c] = None
     THEN shown' = [shown EXCEPT ![c] = NotFound] /\ UNCHANGED copy
     ELSE copy' = [copy EXCEPT ![c] = chat[c]] /\ UNCHANGED shown
  /\ UNCHANGED <<chat, events, task, said, crashes>>

Answer(record, n) == [status |-> record.status, source |-> record.source,
                      cites |-> record.cites, events |-> n]

\* Mutant: get hands out the record itself, and the status is read last.
ReadLive(c) == [Answer(copy[c], events[c]) EXCEPT !.status = chat[c].status]

\* The fields are those of the copy; the events are whatever the list has by now.
Rendered(c) == Answer(copy[c], events[c])

Render(c) ==
  /\ copy[c] # None
  /\ shown' = [shown EXCEPT ![c] = Rendered(c)]
  /\ copy' = [copy EXCEPT ![c] = None]
  /\ UNCHANGED <<chat, events, task, said, crashes>>

\* The process is restarted: the dict, the tasks and the polls are gone.
Restart ==
  /\ crashes < MaxCrashes
  /\ crashes' = crashes + 1
  /\ chat' = [c \in Chats |-> None] /\ events' = [c \in Chats |-> 0]
  /\ where' = [c \in Chats |-> IF where[c] = "none" THEN "none" ELSE "done"]
  /\ Forget({c \in Chats : where[c] # "none"})
  /\ copy' = [c \in Chats |-> None]
  /\ UNCHANGED <<shown, said>>

Step(c) == \/ LookUp(c) \/ AskStored(c) \/ Join(c) \/ AskLive(c) \/ Close(c) \/ FailChat(c)
           \/ \E q \in Queries : StartQuery(c, q) \/ EndQuery(c, q)

Next == \/ \E c \in Chats : Post(c) \/ Step(c) \/ Poll(c) \/ Render(c)
        \/ Restart

Spec == Init /\ [][Next]_vars

-----------------------------------------------------------------------------
(* Properties. *)

\* What a client is shown is one moment of the chat: an answer and what it rests
\* on come with the status completed and only with it, and everything that was
\* said until the chat was settled is there, so that a client may stop polling.
PollsAreWhole ==
  \A c \in Chats : shown[c] \notin {None, NotFound} =>
    /\ shown[c].status = "completed" <=> shown[c].source # None
    /\ shown[c].status # "completed" => shown[c].cites = {}
    /\ shown[c].status # "processing" => shown[c].events >= said[c]

\* An answer is what its source says: live, when there was no analysis, and then
\* without citations; mixed, when a query had results.  It cites nothing but the
\* analysis that its task read, a question about now is answered after both
\* queries have ended, and none of them still runs.
AnswersAreGrounded ==
  \A c \in Chats : where[c] = "closing" =>
    /\ chat[c].source = "live" <=> context[c] = None
    /\ chat[c].cites \subseteq (IF context[c] = None THEN {} ELSE context[c])
    /\ chat[c].source = "mixed" <=> context[c] # None /\ Found(c)
    /\ fresh[c] => AllEnded(c)
    /\ \A q \in Queries : query[c][q] # "running"

-----------------------------------------------------------------------------
(* The inductive invariant behind the two. *)

New == [status |-> "processing", source |-> None, cites |-> {}]

\* Until it is settled a chat has nothing to show but its events.
Unsettled(c) == where[c] \in {"none", "looking", "asking", "searching", "answering", "failing"}

\* A record that is settled has all the events that were said before.
SettledInv(c) ==
  /\ where[c] = "none" => chat[c] = None
  /\ Unsettled(c) /\ where[c] # "none" => chat[c] = New
  /\ Unsettled(c) /\ shown[c] \notin {None, NotFound} => shown[c].status = "processing"
  /\ chat[c] # None =>
       /\ chat[c].status = "completed" <=> chat[c].source # None
       /\ chat[c].status # "completed" => chat[c].cites = {}
       /\ chat[c].status # "processing" => events[c] >= said[c]
  /\ copy[c] # None => copy[c] \in {New, chat[c]}

\* The queries run while the task waits for them, and it asks the stored analysis
\* only for a question that is not about now.
AskedInv(c) ==
  /\ where[c] \in {"none", "looking", "asking", "done"} => query[c] = Unasked
  /\ where[c] # "searching" => \A q \in Queries : query[c][q] # "running"
  /\ where[c] = "asking" => context[c] # None /\ ~fresh[c]
  /\ where[c] = "answering" => AllEnded(c)

ChatInv == /\ TypeOK /\ PollsAreWhole /\ AnswersAreGrounded
           /\ \A c \in Chats : SettledInv(c) /\ AskedInv(c)
=============================================================================
