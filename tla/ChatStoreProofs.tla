--------------------------- MODULE ChatStoreProofs ---------------------------
(***************************************************************************)
(* Theorems about ChatStore, for any chats and any evidence: any           *)
(* interleaving of the tasks, their queries and the polls of the clients,  *)
(* any failure of a task and any number of restarts.                       *)
(***************************************************************************)
EXTENDS ChatStore, TLAPS

-----------------------------------------------------------------------------
(* What a step of one chat does. *)

\* None is not a record, a set of ids or the source of an answer.
LEMMA NoneIsApart ==
  /\ None \notin Records /\ None \notin Ids
  /\ None \notin {NotFound, "stored", "live", "mixed"}
BY NoneAssumption DEF Records, Ids, Sources

\* The four kinds of steps that belong to a chat.
OfChat(c) == Post(c) \/ Step(c) \/ Poll(c) \/ Render(c)

\* A step of one chat leaves the others alone.
LEMMA ChatsAreApart ==
  ASSUME TypeOK, NEW c \in Chats, OfChat(c), NEW d \in Chats \ {c}
  PROVE  /\ chat'[d] = chat[d] /\ events'[d] = events[d] /\ said'[d] = said[d]
         /\ where'[d] = where[d] /\ fresh'[d] = fresh[d] /\ context'[d] = context[d]
         /\ query'[d] = query[d] /\ copy'[d] = copy[d] /\ shown'[d] = shown[d]
<1> USE DEF TypeOK, Move, Say, Forget, task, polls
<1>1. CASE Post(c)
  BY <1>1 DEF Post
<1>2. CASE LookUp(c)
  BY <1>2 DEF LookUp
<1>3. CASE AskStored(c) \/ AskLive(c)
  BY <1>3 DEF AskStored, AskLive, Finish
<1>4. CASE Join(c) \/ Close(c) \/ FailChat(c)
  BY <1>4 DEF Join, Close, FailChat
<1>5. CASE \E q \in Queries : StartQuery(c, q) \/ EndQuery(c, q)
  BY <1>5 DEF StartQuery, EndQuery
<1>6. CASE Poll(c) \/ Render(c)
  BY <1>6 DEF Poll, Render
<1>7. QED
  BY <1>1, <1>2, <1>3, <1>4, <1>5, <1>6 DEF OfChat, Step

\* An answer is settled once, with a source and citations that its task has read.
LEMMA AnswersSettle ==
  ASSUME ChatInv, NEW c \in Chats, AskStored(c) \/ AskLive(c), chat' # chat
  PROVE  \E source \in {"stored", "live", "mixed"}, ids \in Ids :
           /\ Finish(c, source, ids) /\ events' = events /\ chat[c] = New
           /\ source = "live" <=> context[c] = None
           /\ ids \subseteq (IF context[c] = None THEN {} ELSE context[c])
           /\ source = "mixed" <=> context[c] # None /\ Found(c)
           /\ fresh[c] => AllEnded(c)
           /\ \A q \in Queries : query[c][q] # "running"
<1> USE DEF ChatInv
<1>0. chat[c] = New
  BY DEF SettledInv, Unsettled, AskStored, AskLive
<1>1. CASE AskStored(c)
  <2>1. PICK ids \in Cited(c) : Finish(c, "stored", ids) /\ UNCHANGED events
    BY <1>1 DEF AskStored
  <2>2. context[c] # None /\ ~fresh[c] /\ query[c] = Unasked
    BY <1>1 DEF AskedInv, AskStored
  <2>3. ids \in Ids /\ ids \subseteq context[c]
    BY <2>2 DEF TypeOK, Cited, Ids
  <2>4. ~Found(c) /\ \A q \in Queries : query[c][q] # "running"
    BY <2>2 DEF Found, Unasked
  <2>5. QED
    BY <1>0, <2>1, <2>2, <2>3, <2>4
<1>2. CASE AskLive(c)
  <2>1. AllEnded(c)
    BY <1>2 DEF AskedInv, AskLive
  <2>2. \A q \in Queries : query[c][q] # "running"
    BY <2>1 DEF AllEnded
  <2>3. context[c] \in {None} \cup Ids /\ {} \in Ids
    BY DEF TypeOK, Ids
  <2>4. CASE context[c] = None
    <3>1. Finish(c, "live", {}) /\ events' = events
      BY <1>2, <2>4 DEF AskLive
    <3>2. QED
      BY <1>0, <2>1, <2>2, <2>3, <2>4, <3>1
  <2>5. CASE context[c] # None
    <3>1. Finish(c, IF Found(c) THEN "mixed" ELSE "stored", context[c]) /\ events' = events
      BY <1>2, <2>5 DEF AskLive
    <3>2. QED
      BY <1>0, <2>1, <2>2, <2>3, <2>5, <3>1
  <2>6. QED
    BY <2>4, <2>5
<1>3. QED
  BY <1>1, <1>2

-----------------------------------------------------------------------------
(* Type correctness. *)

\* The dict, the tasks and the polls keep their types.
LEMMA TypeStep ==
  ASSUME ChatInv, NEW c \in Chats, OfChat(c)
  PROVE  TypeOK'
<1> USE DEF OfChat, Step
<1>1. TypeOK
  BY DEF ChatInv
<1>2. events' \in [Chats -> Nat] /\ said' \in [Chats -> Nat] /\ crashes' \in 0..MaxCrashes
  <2>1. events' = events \/ events' = [events EXCEPT ![c] = @ + 1]
    BY DEF Post, LookUp, AskStored, Finish, Join, AskLive, Close, FailChat, StartQuery, EndQuery,
       Poll, Render, Say
  <2>2. said' = said \/ said' = [said EXCEPT ![c] = events[c]]
    BY DEF Post, LookUp, AskStored, Finish, Join, AskLive, Close, FailChat, StartQuery, EndQuery,
       Poll, Render
  <2>3. crashes' = crashes
    BY DEF Post, LookUp, AskStored, Join, AskLive, Close, FailChat, StartQuery, EndQuery,
       Poll, Render
  <2>4. events \in [Chats -> Nat] /\ said \in [Chats -> Nat] /\ crashes \in 0..MaxCrashes
    BY <1>1 DEF TypeOK
  <2>5. QED
    BY <2>1, <2>2, <2>3, <2>4
<1>3. where' \in [Chats -> {"none", "looking", "asking", "searching", "answering",
                            "failing", "closing", "done"}]
  <2>1. where' = where \/ \E p \in {"looking", "asking", "searching", "answering",
                                    "failing", "closing", "done"} : Move(c, p)
    BY DEF Post, LookUp, AskStored, Finish, Join, AskLive, Close, FailChat, StartQuery, EndQuery,
       Poll, Render, task
  <2>2. QED
    BY <1>1, <2>1 DEF Move, TypeOK
<1>4. fresh' \in [Chats -> BOOLEAN]
  <2>1. CASE Post(c)
    BY <1>1, <2>1 DEF Post, TypeOK
  <2>2. CASE Forget({c})
    BY <1>1, <2>2 DEF Forget, TypeOK
  <2>3. CASE fresh' = fresh
    BY <1>1, <2>3 DEF TypeOK
  <2>4. QED
    BY <2>1, <2>2, <2>3 DEF LookUp, AskStored, Join, AskLive, Close, FailChat, StartQuery,
       EndQuery, Poll, Render, task
<1>5. context' \in [Chats -> {None} \cup Ids]
  <2>1. \/ context' = context \/ Forget({c})
        \/ \E ids \in {None} \cup Ids : context' = [context EXCEPT ![c] = ids]
    BY DEF Post, LookUp, AskStored, Join, AskLive, Close, FailChat, StartQuery, EndQuery,
       Poll, Render, task
  <2>2. QED
    BY <1>1, <2>1 DEF Forget, TypeOK
<1>6. query' \in [Chats -> [Queries -> {"waiting", "running", "empty", "found"}]]
  <2>1. \/ query' = query \/ Forget({c})
        \/ \E q \in Queries, v \in {"running", "empty", "found"} :
             query' = [query EXCEPT ![c][q] = v]
    BY DEF Post, LookUp, AskStored, Join, AskLive, Close, FailChat, StartQuery, EndQuery,
       Poll, Render, task
  <2>2. Unasked \in [Queries -> {"waiting", "running", "empty", "found"}]
    BY DEF Unasked
  <2>3. query \in [Chats -> [Queries -> {"waiting", "running", "empty", "found"}]]
    BY <1>1 DEF TypeOK
  <2>4. QED
    BY <2>1, <2>2, <2>3 DEF Forget
<1>7. /\ chat' \in [Chats -> {None} \cup Records]
      /\ chat'[c] = None => chat' = chat
  <2>1. CASE Post(c)
    <3>1. New \in Records /\ chat' = [chat EXCEPT ![c] = New]
      BY <2>1 DEF New, Records, Ids, Sources, Post
    <3>2. QED
      BY <1>1, <3>1, NoneIsApart DEF TypeOK
  <2>2. CASE AskStored(c) \/ AskLive(c)
    <3>1. CASE chat' # chat
      <4>1. PICK source \in {"stored", "live", "mixed"}, ids \in Ids : Finish(c, source, ids)
        BY <2>2, <3>1, AnswersSettle
      <4>2. [status |-> "completed", source |-> source, cites |-> ids] \in Records
        BY DEF Records, Sources
      <4>3. QED
        BY <1>1, <4>1, <4>2, NoneIsApart DEF Finish, TypeOK
    <3>2. QED
      BY <1>1, <3>1 DEF TypeOK
  <2>3. CASE FailChat(c)
    <3>1. chat[c] \in Records
      BY <1>1, <2>3 DEF FailChat, TypeOK
    <3>2. [chat[c] EXCEPT !.status = "failed"] \in Records
      BY <3>1 DEF Records
    <3>3. QED
      BY <1>1, <2>3, <3>2, NoneIsApart DEF FailChat, TypeOK
  <2>4. CASE chat' = chat
    BY <1>1, <2>4 DEF TypeOK
  <2>5. QED
    BY <2>1, <2>2, <2>3, <2>4 DEF LookUp, Join, Close, StartQuery, EndQuery, Poll, Render
<1>8. copy' \in [Chats -> {None} \cup Records]
  BY <1>1 DEF Post, LookUp, AskStored, Join, AskLive, Close, FailChat, StartQuery, EndQuery,
     Poll, Render, polls, TypeOK
<1>9. shown' \in [Chats -> {None, NotFound} \cup Answers]
  <2>1. CASE Poll(c)
    BY <1>1, <2>1 DEF Poll, TypeOK
  <2>2. CASE Render(c)
    <3>1. copy[c] \in Records /\ events[c] \in Nat
      BY <1>1, <2>2 DEF Render, TypeOK
    <3>2. Rendered(c) \in Answers
      BY <3>1 DEF Rendered, Answer, Answers, Records
    <3>3. QED
      BY <1>1, <2>2, <3>2 DEF Render, TypeOK
  <2>3. CASE shown' = shown
    BY <1>1, <2>3 DEF TypeOK
  <2>4. QED
    BY <2>1, <2>2, <2>3 DEF Post, LookUp, AskStored, Join, AskLive, Close, FailChat, StartQuery,
       EndQuery, polls
<1>10. ASSUME NEW d \in Chats, where'[d] \notin {"none", "done"} \/ copy'[d] # None
       PROVE  chat'[d] # None
  <2>1. CASE d # c
    BY <1>1, <1>10, <2>1, ChatsAreApart DEF TypeOK
  <2>2. CASE d = c
    <3>1. SUFFICES ASSUME chat'[c] = None, chat' = chat, chat[c] = None PROVE FALSE
      BY <1>7, <2>2
    <3>2. where[c] \in {"none", "done"} /\ copy[c] = None
      BY <1>1, <3>1 DEF TypeOK
    <3>3. CASE Post(c)
      BY <1>1, <3>1, <3>3, NoneIsApart DEF Post, TypeOK, New, Records, Ids, Sources
    <3>4. where' = where /\ copy' = copy
      BY <3>1, <3>2, <3>3 DEF LookUp, AskStored, Join, AskLive, Close, FailChat, StartQuery, EndQuery,
         Poll, Render, task, polls
    <3>5. QED
      BY <1>10, <2>2, <3>2, <3>4
  <2>3. QED
    BY <2>1, <2>2
<1>11. QED
  BY <1>2, <1>3, <1>4, <1>5, <1>6, <1>7, <1>8, <1>9, <1>10 DEF TypeOK

-----------------------------------------------------------------------------
(* What the record of a chat, its copies and its answers say. *)

\* What PollsAreWhole says of the last poll of one chat.
Whole(c) ==
  shown[c] \notin {None, NotFound} =>
    /\ shown[c].status = "completed" <=> shown[c].source # None
    /\ shown[c].status # "completed" => shown[c].cites = {}
    /\ shown[c].status # "processing" => shown[c].events >= said[c]

\* A chat is settled once, when nothing that was shown of it says that it was, and
\* what is copied of it later is settled with it.
LEMMA SettledStep ==
  ASSUME ChatInv, NEW c \in Chats, OfChat(c)
  PROVE  SettledInv(c)' /\ Whole(c)'
<1>1. /\ DOMAIN chat = Chats /\ DOMAIN where = Chats /\ DOMAIN events = Chats
      /\ DOMAIN said = Chats /\ DOMAIN copy = Chats /\ DOMAIN shown = Chats
      /\ events[c] \in Nat /\ said[c] \in Nat
      /\ where[c] \in {"none", "looking", "asking", "searching", "answering", "failing",
                       "closing", "done"}
      /\ where[c] # "none" /\ where[c] # "done" => chat[c] # None
      /\ copy[c] # None => chat[c] # None
  BY DEF ChatInv, TypeOK
<1>2. SettledInv(c) /\ Whole(c)
  BY DEF ChatInv, PollsAreWhole, Whole
<1>3. New.status = "processing" /\ New.source = None /\ New.cites = {}
  BY DEF New
\* A step that leaves the record, the copy and what was shown alone.
<1>4. ASSUME chat' = chat, said' = said, copy' = copy, shown' = shown,
             events'[c] \in {events[c], events[c] + 1},
             where'[c] # "none", where[c] # "none", Unsettled(c)' => Unsettled(c)
      PROVE  SettledInv(c)' /\ Whole(c)'
  BY <1>1, <1>2, <1>4 DEF SettledInv, Whole
<1>5. CASE Post(c)
  <2>1. /\ chat'[c] = New /\ copy' = copy /\ shown' = shown /\ said' = said
        /\ where'[c] = "looking" /\ chat[c] = None /\ copy[c] = None
        /\ Unsettled(c)
    BY <1>1, <1>2, <1>5 DEF Post, New, Move, polls, SettledInv, Unsettled
  <2>2. QED
    BY <1>2, <1>3, <2>1 DEF SettledInv, Whole
<1>6. CASE LookUp(c)
  <2>1. /\ chat' = chat /\ said' = said /\ copy' = copy /\ shown' = shown
        /\ events'[c] = events[c] + 1 /\ where[c] = "looking"
        /\ where'[c] \in {"searching", "asking", "failing"}
    BY <1>1, <1>6 DEF LookUp, Move, Say, polls
  <2>2. QED
    BY <1>4, <2>1 DEF Unsettled
<1>7. CASE (AskStored(c) \/ AskLive(c)) /\ chat' # chat
  <2>1. PICK source \in {"stored", "live", "mixed"}, ids \in Ids :
          Finish(c, source, ids) /\ events' = events /\ chat[c] = New
    BY <1>7, AnswersSettle
  <2>2. /\ chat'[c] = [status |-> "completed", source |-> source, cites |-> ids]
        /\ said'[c] = events[c] /\ where'[c] = "closing"
    BY <1>1, <2>1 DEF Finish, Move
  <2>3. copy' = copy /\ shown' = shown /\ Unsettled(c) /\ where[c] # "none"
    BY <1>7 DEF AskStored, AskLive, polls, Unsettled
  <2>4. source # None /\ (copy[c] # None => copy[c] = New)
    BY <1>2, <2>1, NoneIsApart DEF SettledInv
  <2>5. shown[c] \notin {None, NotFound} => shown[c].status = "processing"
    BY <1>2, <2>3 DEF SettledInv
  <2>6. SettledInv(c)'
    BY <1>1, <2>1, <2>2, <2>3, <2>4 DEF SettledInv, Unsettled
  <2>7. Whole(c)'
    BY <1>2, <2>3, <2>5 DEF Whole
  <2>8. QED
    BY <2>6, <2>7
<1>8. CASE (AskStored(c) \/ AskLive(c)) /\ chat' = chat
  <2>1. /\ copy' = copy /\ shown' = shown /\ Unsettled(c) /\ where[c] # "none" /\ chat[c] = New
    BY <1>2, <1>8 DEF AskStored, AskLive, polls, Unsettled, SettledInv
  <2>2. \A source, ids : ~Finish(c, source, ids)
    BY <1>1, <1>3, <1>8, <2>1 DEF Finish
  <2>3. /\ said' = said /\ where'[c] \in {"searching", "failing"}
        /\ events'[c] \in {events[c], events[c] + 1}
    BY <1>1, <1>8, <2>2 DEF AskStored, AskLive, Move, Say
  <2>4. QED
    BY <1>4, <1>8, <2>1, <2>3
<1>9. CASE Join(c) \/ \E q \in Queries : StartQuery(c, q) \/ EndQuery(c, q)
  <2>1. /\ chat' = chat /\ said' = said /\ copy' = copy /\ shown' = shown
        /\ events'[c] \in {events[c], events[c] + 1}
        /\ \/ where[c] = "searching" /\ where'[c] = "answering"
           \/ where' = where
    BY <1>1, <1>9 DEF Join, StartQuery, EndQuery, Move, Say, polls
  <2>2. where[c] # "none"
    <3>1. where[c] = "none" => query[c] = Unasked
      BY DEF ChatInv, AskedInv
    <3>2. QED
      BY <1>9, <3>1 DEF Join, StartQuery, EndQuery, Unasked
  <2>3. QED
    BY <1>4, <2>1, <2>2 DEF Unsettled
<1>10. CASE Close(c)
  BY <1>1, <1>4, <1>10 DEF Close, Move, Say, polls, Unsettled
<1>11. CASE FailChat(c)
  <2>1. chat[c] = New /\ Unsettled(c) /\ where[c] # "none"
    BY <1>2, <1>11 DEF FailChat, SettledInv, Unsettled
  <2>2. /\ chat'[c].status = "failed" /\ chat'[c].source = None /\ chat'[c].cites = {}
        /\ chat'[c] # New
    BY <1>1, <1>11, <2>1 DEF FailChat, New
  <2>3. /\ said'[c] = events[c] /\ events' = events /\ copy' = copy /\ shown' = shown
        /\ where'[c] = "done"
    BY <1>1, <1>11 DEF FailChat, Move, polls
  <2>4. shown[c] \notin {None, NotFound} => shown[c].status = "processing"
    BY <1>2, <2>1 DEF SettledInv
  <2>5. copy[c] # None => copy[c] = New
    BY <1>2, <2>1 DEF SettledInv
  <2>6. SettledInv(c)'
    BY <1>1, <2>2, <2>3, <2>5 DEF SettledInv, Unsettled
  <2>7. Whole(c)'
    BY <1>2, <2>3, <2>4 DEF Whole
  <2>8. QED
    BY <2>6, <2>7
<1>12. CASE Poll(c)
  BY <1>1, <1>2, <1>12 DEF Poll, task, SettledInv, Whole, Unsettled
<1>13. CASE Render(c)
  <2>1. /\ chat' = chat /\ events' = events /\ said' = said /\ where' = where
        /\ copy[c] # None /\ copy'[c] = None
        /\ shown'[c] = Answer(copy[c], events[c])
    BY <1>1, <1>13 DEF Render, Rendered, task
  <2>2. /\ shown'[c].status = copy[c].status /\ shown'[c].source = copy[c].source
        /\ shown'[c].cites = copy[c].cites /\ shown'[c].events = events[c]
    BY <2>1 DEF Answer
  <2>3. copy[c] \in {New, chat[c]} /\ chat[c] # None
    BY <1>1, <1>2, <2>1 DEF SettledInv
  <2>4. Unsettled(c) => copy[c].status = "processing"
    BY <1>1, <1>2, <1>3, <2>1, <2>3 DEF SettledInv
  <2>5. SettledInv(c)'
    BY <1>2, <2>1, <2>2, <2>4 DEF SettledInv, Unsettled
  <2>6. Whole(c)'
    BY <1>2, <1>3, <2>1, <2>2, <2>3 DEF SettledInv, Whole
  <2>7. QED
    BY <2>5, <2>6
<1>14. QED
  BY <1>5, <1>6, <1>7, <1>8, <1>9, <1>10, <1>11, <1>12, <1>13 DEF OfChat, Step

-----------------------------------------------------------------------------
(* What a task has asked. *)

\* What AnswersAreGrounded says of one chat.
Grounded(c) ==
  where[c] = "closing" =>
    /\ chat[c].source = "live" <=> context[c] = None
    /\ chat[c].cites \subseteq (IF context[c] = None THEN {} ELSE context[c])
    /\ chat[c].source = "mixed" <=> context[c] # None /\ Found(c)
    /\ fresh[c] => AllEnded(c)
    /\ \A q \in Queries : query[c][q] # "running"

\* A task leaves the searching with both queries ended, comes to the stored analysis
\* only when it has one and the question is not about now, and answers from what it
\* has read.
LEMMA AskedStep ==
  ASSUME ChatInv, NEW c \in Chats, OfChat(c)
  PROVE  AskedInv(c)' /\ Grounded(c)'
<1> USE DEF Found, AllEnded
<1>1. /\ DOMAIN chat = Chats /\ DOMAIN where = Chats /\ DOMAIN fresh = Chats
      /\ DOMAIN context = Chats /\ DOMAIN query = Chats /\ DOMAIN query[c] = Queries
  BY DEF ChatInv, TypeOK
<1>2. AskedInv(c) /\ Grounded(c)
  BY DEF ChatInv, AnswersAreGrounded, Grounded
<1>3. \A q \in Queries : Unasked[q] = "waiting"
  BY DEF Unasked
<1>4. CASE Post(c)
  BY <1>1, <1>2, <1>4 DEF Post, Move, AskedInv, Grounded
<1>5. CASE LookUp(c)
  <2>1. /\ query' = query /\ fresh' = fresh /\ where[c] = "looking"
        /\ \/ where'[c] \in {"searching", "failing"}
           \/ where'[c] = "asking" /\ context'[c] # None /\ ~fresh[c]
    BY <1>1, <1>5 DEF LookUp, Move, GoesLive
  <2>2. QED
    BY <1>2, <1>3, <2>1 DEF AskedInv, Grounded
<1>6. CASE (AskStored(c) \/ AskLive(c)) /\ chat' # chat
  <2>1. PICK source \in {"stored", "live", "mixed"}, ids \in Ids :
          /\ Finish(c, source, ids)
          /\ source = "live" <=> context[c] = None
          /\ ids \subseteq (IF context[c] = None THEN {} ELSE context[c])
          /\ source = "mixed" <=> context[c] # None /\ Found(c)
          /\ fresh[c] => AllEnded(c)
          /\ \A q \in Queries : query[c][q] # "running"
    BY <1>6, AnswersSettle
  <2>2. /\ where'[c] = "closing" /\ chat'[c].source = source /\ chat'[c].cites = ids
        /\ fresh' = fresh /\ context' = context /\ query' = query
    BY <1>1, <1>6, <2>1 DEF Finish, Move, AskStored, AskLive
  <2>3. QED
    BY <2>1, <2>2 DEF AskedInv, Grounded
<1>7. CASE (AskStored(c) \/ AskLive(c)) /\ chat' = chat
  <2>1. chat[c] = New
    BY <1>7 DEF AskStored, AskLive, ChatInv, SettledInv, Unsettled
  <2>2. \A source, ids : ~Finish(c, source, ids)
    BY <1>1, <1>7, <2>1 DEF Finish, New
  <2>3. /\ where'[c] \in {"searching", "failing"} /\ where[c] \in {"asking", "answering"}
        /\ where'[c] = "searching" => where[c] = "asking"
        /\ fresh' = fresh /\ context' = context /\ query' = query
    BY <1>1, <1>7, <2>2 DEF AskStored, AskLive, Move
  <2>4. QED
    BY <1>2, <2>3 DEF AskedInv, Grounded
<1>8. CASE Join(c)
  BY <1>1, <1>2, <1>8 DEF Join, Move, AskedInv, Grounded
<1>9. CASE Close(c) \/ FailChat(c)
  <2>1. query'[c] = Unasked /\ where'[c] = "done"
    BY <1>1, <1>9 DEF Close, FailChat, Forget, Move
  <2>2. QED
    BY <1>3, <2>1 DEF AskedInv, Grounded
<1>10. CASE \E q \in Queries : StartQuery(c, q) \/ EndQuery(c, q)
  <2>1. where[c] = "searching" /\ where' = where
    BY <1>2, <1>10 DEF StartQuery, EndQuery, AskedInv
  <2>2. QED
    BY <2>1 DEF AskedInv, Grounded
<1>11. CASE Poll(c) \/ Render(c)
  BY <1>2, <1>11 DEF Poll, Render, task, AskedInv, Grounded
<1>12. QED
  BY <1>4, <1>5, <1>6, <1>7, <1>8, <1>9, <1>10, <1>11 DEF OfChat, Step

-----------------------------------------------------------------------------
(* The invariant. *)

\* The parts that are about one chat.
LEMMA ChatByChat ==
  ChatInv <=> /\ TypeOK
              /\ \A c \in Chats : SettledInv(c) /\ Whole(c) /\ AskedInv(c) /\ Grounded(c)
BY DEF ChatInv, PollsAreWhole, AnswersAreGrounded, Whole, Grounded

\* A restart leaves nothing to poll and no task that goes on.
LEMMA RestartStep ==
  ASSUME ChatInv, Restart
  PROVE  ChatInv'
<1>1. TypeOK'
  <2>1. \A c \in Chats : where'[c] \in {"none", "done"} /\ chat'[c] = None /\ copy'[c] = None
    BY DEF Restart
  <2>2. /\ fresh' \in [Chats -> BOOLEAN]
        /\ where' \in [Chats -> {"none", "looking", "asking", "searching", "answering",
                                 "failing", "closing", "done"}]
    BY DEF Restart, Forget, ChatInv, TypeOK
  <2>3. /\ context' \in [Chats -> {None} \cup Ids]
        /\ query' \in [Chats -> [Queries -> {"waiting", "running", "empty", "found"}]]
    BY DEF Restart, Forget, Unasked, ChatInv, TypeOK
  <2>4. /\ chat' \in [Chats -> {None} \cup Records] /\ events' \in [Chats -> Nat]
        /\ copy' \in [Chats -> {None} \cup Records]
    BY DEF Restart
  <2>5. /\ said' \in [Chats -> Nat] /\ shown' \in [Chats -> {None, NotFound} \cup Answers]
        /\ crashes' \in 0..MaxCrashes
    <3>1. /\ said \in [Chats -> Nat] /\ shown \in [Chats -> {None, NotFound} \cup Answers]
          /\ crashes \in 0..MaxCrashes
      BY DEF ChatInv, TypeOK
    <3>2. crashes' \in 0..MaxCrashes
      BY <3>1, BoundAssumption DEF Restart
    <3>3. QED
      BY <3>1, <3>2 DEF Restart
  <2>6. QED
    BY <2>1, <2>2, <2>3, <2>4, <2>5 DEF TypeOK
<1>2. ASSUME NEW c \in Chats
      PROVE  (SettledInv(c) /\ Whole(c) /\ AskedInv(c) /\ Grounded(c))'
  <2>1. /\ chat'[c] = None /\ copy'[c] = None /\ shown' = shown /\ said' = said
        /\ where'[c] \in {"none", "done"} /\ (where'[c] = "none" <=> where[c] = "none")
        /\ query'[c] = IF where[c] = "none" THEN query[c] ELSE Unasked
    BY DEF Restart, Forget
  <2>2. query'[c] = Unasked
    BY <2>1 DEF ChatInv, AskedInv
  <2>3. SettledInv(c) /\ Whole(c)
    BY ChatByChat
  <2>4. SettledInv(c)' /\ Whole(c)'
    BY <2>1, <2>3 DEF SettledInv, Whole, Unsettled
  <2>5. AskedInv(c)' /\ Grounded(c)'
    BY <2>1, <2>2 DEF AskedInv, Grounded, Unasked
  <2>6. QED
    BY <2>4, <2>5
<1>3. QED
  BY <1>1, <1>2 DEF ChatInv, PollsAreWhole, AnswersAreGrounded, Whole, Grounded

\* The invariant holds throughout.
LEMMA ChatInvariant == Spec => []ChatInv
<1>1. Init => ChatInv
  <2> SUFFICES ASSUME Init PROVE ChatInv
    OBVIOUS
  <2>1. TypeOK
    BY BoundAssumption DEF Init, TypeOK, Unasked
  <2>2. QED
    BY <2>1 DEF Init, ChatInv, PollsAreWhole, AnswersAreGrounded, SettledInv, AskedInv,
       Unsettled, Unasked
<1>2. ChatInv /\ [Next]_vars => ChatInv'
  <2> SUFFICES ASSUME ChatInv, [Next]_vars PROVE ChatInv'
    OBVIOUS
  <2>1. ASSUME NEW c \in Chats, OfChat(c) PROVE ChatInv'
    <3>1. TypeOK'
      BY <2>1, TypeStep
    <3>2. ASSUME NEW d \in Chats
          PROVE  SettledInv(d)' /\ Whole(d)' /\ AskedInv(d)' /\ Grounded(d)'
      <4>1. CASE d = c
        BY <2>1, <4>1, SettledStep, AskedStep
      <4>2. CASE d # c
        <5>1. SettledInv(d) /\ Whole(d) /\ AskedInv(d) /\ Grounded(d)
          BY ChatByChat
        <5>2. /\ chat'[d] = chat[d] /\ events'[d] = events[d] /\ said'[d] = said[d]
              /\ where'[d] = where[d] /\ fresh'[d] = fresh[d] /\ context'[d] = context[d]
              /\ query'[d] = query[d] /\ copy'[d] = copy[d] /\ shown'[d] = shown[d]
          BY <2>1, <4>2, ChatsAreApart DEF ChatInv
        <5>3. SettledInv(d)' /\ Whole(d)'
          BY <5>1, <5>2 DEF SettledInv, Whole, Unsettled
        <5>4. AskedInv(d)' /\ Grounded(d)'
          BY <5>1, <5>2 DEF AskedInv, Grounded, Found, AllEnded
        <5>5. QED
          BY <5>3, <5>4
      <4>3. QED
        BY <4>1, <4>2
    <3>3. QED
      BY <3>1, <3>2 DEF ChatInv, PollsAreWhole, AnswersAreGrounded, Whole, Grounded
  <2>2. CASE Restart
    BY <2>2, RestartStep
  <2>3. CASE UNCHANGED vars
    BY <2>3 DEF vars, task, polls, ChatInv, TypeOK, PollsAreWhole, AnswersAreGrounded,
       SettledInv, AskedInv, Unsettled, Found, AllEnded
  <2>4. QED
    BY <2>1, <2>2, <2>3 DEF Next, OfChat
<1>3. QED
  BY <1>1, <1>2, PTL DEF Spec

-----------------------------------------------------------------------------
(* The theorems. *)

\* The dict, the tasks and the polls have their types, and a task or a poll at work
\* has a record (TypeOK).
THEOREM TypeCorrect == Spec => []TypeOK
<1>1. ChatInv => TypeOK
  BY DEF ChatInv
<1>2. QED
  BY <1>1, ChatInvariant, PTL

\* What a client is shown is one moment of the chat (PollsAreWhole), although its
\* fields are copied before its events are read.
THEOREM PollsShowOneMoment == Spec => []PollsAreWhole
<1>1. ChatInv => PollsAreWhole
  BY DEF ChatInv
<1>2. QED
  BY <1>1, ChatInvariant, PTL

\* An answer is what its source says, and cites what its task has read
\* (AnswersAreGrounded), however its queries end.
THEOREM AnswersSayTheirSource == Spec => []AnswersAreGrounded
<1>1. ChatInv => AnswersAreGrounded
  BY DEF ChatInv
<1>2. QED
  BY <1>1, ChatInvariant, PTL
=============================================================================
