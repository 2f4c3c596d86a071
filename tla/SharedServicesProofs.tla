------------------------ MODULE SharedServicesProofs ------------------------
(***************************************************************************)
(* Theorems about the two services that all runs and all clients share:    *)
(* LLMRouter, for any lanes, keys, caps and callers, and RefreshTokens,    *)
(* for any sets of requests and users, any interleaving of the handlers    *)
(* and any loss of calls and answers.  They share no state: Spec is the    *)
(* specification of the router, RTSpec that of the tokens.                 *)
(***************************************************************************)
EXTENDS LLMRouter, RefreshTokens, FiniteSetTheorems, WellFoundedInduction, TLAPS

-----------------------------------------------------------------------------
(* Lanes in their order. *)

\* A set of lanes that is not empty has a first one, which Min picks.
LEMMA FirstLane ==
  ASSUME NEW S \in SUBSET Nat, S # {}
  PROVE  Min(S) \in S /\ \A l \in S : Min(S) <= l
<1> DEFINE Less == OpToRel(<, Nat)
<1>1. IsWellFoundedOn(Less, Nat)
  BY NatLessThanWellFounded
<1>2. \A k, l \in Nat : k < l => <<k, l>> \in Less
  BY DEF OpToRel
<1> HIDE DEF Less
<1>3. PICK l \in S : \A k \in S : <<k, l>> \notin Less
  BY <1>1, WFMin
<1>4. ASSUME NEW k \in S PROVE l <= k
  <2>1. k \in Nat /\ l \in Nat
    OBVIOUS
  <2>2. (k < l) => FALSE
    BY <1>2, <1>3, <2>1
  <2>3. QED
    BY <2>1, <2>2
<1>5. QED
  BY <1>4 DEF Min

LEMMA LanesAreNumbers == Configured \subseteq Lane /\ Lane \subseteq Nat
BY LanesAssumption DEF Configured, Lane

-----------------------------------------------------------------------------
(* The walk of a call.  Its position is typed as long as it has one. *)

Running(c) == at[c] \in {"send", "wait"}

WalkType ==
  /\ at \in [Callers -> Ended \cup {"send", "wait"}]
  /\ lanes \in [Callers -> SUBSET Configured]
  /\ lane \in [Callers -> Nat] /\ key \in [Callers -> Nat] /\ attempt \in [Callers -> Nat]
  /\ \A c \in Callers : Running(c) =>
       /\ lane[c] \in lanes[c] /\ key[c] \in Keys(lane[c])
       /\ attempt[c] \in 1..ATTEMPTS_PER_LANE

\* Where a call goes from its position: onward on the same lane, or to the first
\* key of a later one with none of its lanes in between, or to the end.
Stays(c) == lane'[c] = lane[c]
Jumps(c) ==
  /\ lane'[c] \in lanes[c] /\ lane'[c] > lane[c] /\ key'[c] = 1 /\ attempt'[c] = 1
  /\ \A l \in lanes[c] : l < lane'[c] => l <= lane[c]
Exhausts(c) == at'[c] = "exhausted" /\ \A l \in lanes[c] : l <= lane[c]

OthersKeep(c) ==
  \A d \in Callers \ {c} :
    at'[d] = at[d] /\ lane'[d] = lane[d] /\ key'[d] = key[d] /\ attempt'[d] = attempt[d]

-----------------------------------------------------------------------------
(* The invariant. *)

RouterType ==
  /\ used \in [Budgets -> 0..MaxUsed]
  /\ redis \in BOOLEAN /\ uncapped \in BOOLEAN
  /\ WalkType
  /\ calls \in [Callers -> 0..MaxCalls] /\ faults \in 0..MaxFaults
  /\ sent \in [Callers -> SUBSET Slots] /\ spurned \in [Callers -> SUBSET Lane]

\* Every lane behind a call was left over its answer or with all its keys asked,
\* and on the lane it is at, every key before its own was asked.
Spent(c, l) == l \in spurned[c] \/ Tried(c, l)
SentOf(c) ==
  /\ Running(c) =>
       /\ \A l \in lanes[c] : l < lane[c] => Spent(c, l)
       /\ \A k \in Keys(lane[c]) : k < key[c] => <<lane[c], k>> \in sent[c]
       /\ at[c] = "wait" => <<lane[c], key[c]>> \in sent[c]
  /\ at[c] = "exhausted" => \A l \in lanes[c] : Spent(c, l)
SentInv == \A c \in Callers : SentOf(c)

\* The attempts that the calls under way may still charge to a budget; what they
\* have charged and what they may never exceeds what the cap allows.
Ahead(c, s, n) ==
  /\ Running(c) /\ s[1] \in lanes[c]
  /\ \/ s[1] > lane[c]
     \/ s[1] = lane[c] /\ s[2] > key[c]
     \/ s[1] = lane[c] /\ s[2] = key[c] /\ n > attempt[c]
     \/ s[1] = lane[c] /\ s[2] = key[c] /\ n = attempt[c] /\ at[c] = "send"
Pending(b) == {x \in Callers \X Attempts(b) : Ahead(x[1], x[2][1], x[2][2])}
Capped == {LANES[l].budget : l \in Configured} \cap DOMAIN Cap
Limit(b) == Cap[b] + Cardinality(Callers) * Cardinality(Attempts(b))
BudgetInv ==
  ~uncapped => \A b \in Capped : used[b] + Cardinality(Pending(b)) < Limit(b)

RouterInv == RouterType /\ SentInv /\ BudgetInv
-----------------------------------------------------------------------------
(* Where the steps of a call take it. *)

Places == <<at, lane, key, attempt>>
PlacesTyped ==
  at \in [Callers -> Ended \cup {"send", "wait"}] /\ lane \in [Callers -> Nat]
  /\ key \in [Callers -> Nat] /\ attempt \in [Callers -> Nat]

Onward(c) ==
  /\ at'[c] = "send" /\ Stays(c)
  /\ \/ key'[c] = key[c] /\ attempt'[c] = attempt[c] + 1
        /\ attempt[c] < ATTEMPTS_PER_LANE
     \/ key'[c] = key[c] + 1 /\ attempt'[c] = 1 /\ key[c] < LANES[lane[c]].keys
Leaves(c) == (at'[c] = "send" /\ Jumps(c)) \/ Exhausts(c)

\* An update of the position of one call.
LEMMA PlaceAt ==
  ASSUME WalkType, NEW c \in Callers, NEW l \in Nat, NEW k \in Nat, NEW n \in Nat,
         Goto(c, "send"), Place(c, l, k, n)
  PROVE  /\ at'[c] = "send" /\ lane'[c] = l /\ key'[c] = k /\ attempt'[c] = n
         /\ OthersKeep(c) /\ PlacesTyped'
BY DEF WalkType, Goto, Place, OthersKeep, PlacesTyped

LEMMA EndAt ==
  ASSUME WalkType, NEW c \in Callers, NEW site \in Ended \cup {"wait"},
         Goto(c, site), UNCHANGED position
  PROVE  at'[c] = site /\ Stays(c) /\ UNCHANGED position /\ OthersKeep(c) /\ PlacesTyped'
BY DEF WalkType, Goto, position, OthersKeep, PlacesTyped, Stays

LEMMA NextLaneWalks ==
  ASSUME WalkType, NEW c \in Callers, Running(c), NextLane(c)
  PROVE  Leaves(c) /\ OthersKeep(c) /\ PlacesTyped'
<1> DEFINE later == {l \in lanes[c] : l > lane[c]}
<1>1. lanes[c] \subseteq Nat /\ lane[c] \in Nat
  BY LanesAreNumbers DEF WalkType
<1>2. CASE later = {}
  <2>1. Goto(c, "exhausted") /\ UNCHANGED position
    BY <1>2 DEF NextLane
  <2>2. \A l \in lanes[c] : l <= lane[c]
    BY <1>1, <1>2
  <2>3. QED
    BY <2>1, <2>2, EndAt DEF Exhausts, Leaves, Ended
<1>3. CASE later # {}
  <2> DEFINE first == Min(later)
  <2>1. first \in later /\ \A l \in later : first <= l
    <3>1. later \in SUBSET Nat
      BY <1>1
    <3> HIDE DEF later
    <3>2. QED
      BY <1>3, <3>1, FirstLane
  <2>2. Goto(c, "send") /\ Place(c, first, 1, 1)
    BY <1>3 DEF NextLane
  <2> HIDE DEF first
  <2>3. first \in lanes[c] /\ first \in Nat /\ first > lane[c]
    BY <1>1, <2>1
  <2>4. \A l \in lanes[c] : l < first => l <= lane[c]
    BY <1>1, <2>1, <2>3
  <2>5. /\ at'[c] = "send" /\ lane'[c] = first /\ key'[c] = 1 /\ attempt'[c] = 1
        /\ OthersKeep(c) /\ PlacesTyped'
    BY <2>2, <2>3, PlaceAt
  <2>6. QED
    BY <2>3, <2>4, <2>5 DEF Jumps, Leaves
<1>4. QED
  BY <1>2, <1>3

LEMMA NextKeyWalks ==
  ASSUME WalkType, NEW c \in Callers, Running(c), NextKey(c)
  PROVE  /\ Onward(c) \/ (Leaves(c) /\ key[c] >= LANES[lane[c]].keys)
         /\ OthersKeep(c) /\ PlacesTyped'
<1>1. /\ lane[c] \in Nat /\ key[c] \in Nat /\ lane[c] \in Lane
      /\ LANES[lane[c]].keys \in Nat
  BY LanesAreNumbers, LanesAssumption DEF WalkType
<1>2. CASE key[c] < LANES[lane[c]].keys
  <2>1. Goto(c, "send") /\ Place(c, lane[c], key[c] + 1, 1)
    BY <1>2 DEF NextKey
  <2>2. key[c] + 1 \in Nat
    BY <1>1
  <2>3. /\ at'[c] = "send" /\ lane'[c] = lane[c] /\ key'[c] = key[c] + 1 /\ attempt'[c] = 1
        /\ OthersKeep(c) /\ PlacesTyped'
    BY <1>1, <2>1, <2>2, PlaceAt
  <2>4. QED
    BY <1>2, <2>3 DEF Onward, Stays
<1>3. CASE ~(key[c] < LANES[lane[c]].keys)
  BY <1>1, <1>3, NextLaneWalks DEF NextKey
<1>4. QED
  BY <1>2, <1>3

Returned(c) == Answered(c) \/ ClientError(c) \/ Unusable(c) \/ ServerError(c)

\* An answer, whatever it is, ends the call or takes it forward, and past a lane
\* only when it spurns that lane or its keys are used up.
LEMMA AnswerWalks ==
  ASSUME WalkType, NEW c \in Callers, Returned(c)
  PROVE  /\ \/ at'[c] = "answered"
            \/ Onward(c) /\ UNCHANGED spurned
            \/ Leaves(c) /\ UNCHANGED spurned /\ key[c] >= LANES[lane[c]].keys
            \/ Leaves(c) /\ spurned' = [spurned EXCEPT ![c] = @ \cup {lane[c]}]
         /\ at[c] = "wait" /\ OthersKeep(c) /\ PlacesTyped' /\ UNCHANGED rest
<1>1. CASE Answered(c)
  BY <1>1, EndAt DEF Answered, Ended
<1>2. CASE ClientError(c)
  BY <1>2, NextKeyWalks DEF ClientError, Running
<1>3. CASE Unusable(c)
  BY <1>3, NextLaneWalks DEF Unusable, Running
<1>4. CASE ServerError(c)
  <2>1. CASE attempt[c] < ATTEMPTS_PER_LANE
    <3>1. Goto(c, "send") /\ Place(c, lane[c], key[c], attempt[c] + 1)
      BY <1>4, <2>1 DEF ServerError
    <3>2. lane[c] \in Nat /\ key[c] \in Nat /\ attempt[c] + 1 \in Nat
      BY DEF WalkType
    <3>3. QED
      BY <1>4, <2>1, <3>1, <3>2, PlaceAt DEF ServerError, Onward, Stays
  <2>2. CASE ~(attempt[c] < ATTEMPTS_PER_LANE)
    BY <1>4, <2>2, NextKeyWalks DEF ServerError, Running
  <2>3. QED
    BY <2>1, <2>2
<1>5. QED
  BY <1>1, <1>2, <1>3, <1>4 DEF Returned
\* The call starts at the first of the lanes it will try.
LEMMA StartWalks ==
  ASSUME WalkType, NEW c \in Callers, Start(c)
  PROVE  /\ \/ /\ at'[c] = "send" /\ key'[c] = 1 /\ attempt'[c] = 1
               /\ lane'[c] \in lanes'[c] /\ \A l \in lanes'[c] : lane'[c] <= l
            \/ at'[c] = "exhausted" /\ lanes'[c] = {}
         /\ \A d \in Callers \ {c} : lanes'[d] = lanes[d]
         /\ lanes' \in [Callers -> SUBSET Configured]
         /\ OthersKeep(c) /\ PlacesTyped'
<1> DEFINE under == {l \in Configured : UnderBudget(LANES[l].budget)}
<1> DEFINE tried == IF under = {} THEN Configured ELSE under
<1>1. /\ lanes' = [lanes EXCEPT ![c] = tried]
      /\ IF tried = {} THEN Goto(c, "exhausted") /\ UNCHANGED position
                       ELSE Goto(c, "send") /\ Place(c, Min(tried), 1, 1)
  BY DEF Start
<1>2. tried \in SUBSET Configured
  OBVIOUS
<1> HIDE DEF tried
<1>3. /\ lanes'[c] = tried /\ \A d \in Callers \ {c} : lanes'[d] = lanes[d]
      /\ lanes' \in [Callers -> SUBSET Configured]
  BY <1>1, <1>2 DEF WalkType
<1>4. CASE tried = {}
  <2>1. at'[c] = "exhausted" /\ OthersKeep(c) /\ PlacesTyped'
    BY <1>1, <1>4, EndAt DEF Ended
  <2>2. QED
    BY <1>3, <1>4, <2>1
<1>5. CASE tried # {}
  <2> DEFINE first == Min(tried)
  <2>1. first \in tried /\ first \in Nat /\ \A l \in tried : first <= l
    <3>1. tried \in SUBSET Nat
      BY <1>2, LanesAreNumbers
    <3>2. QED
      BY <1>5, <3>1, FirstLane
  <2>2. Goto(c, "send") /\ Place(c, first, 1, 1)
    BY <1>1, <1>5
  <2> HIDE DEF first
  <2>3. /\ at'[c] = "send" /\ lane'[c] = first /\ key'[c] = 1 /\ attempt'[c] = 1
        /\ OthersKeep(c) /\ PlacesTyped'
    BY <2>1, <2>2, PlaceAt
  <2>4. QED
    BY <1>3, <2>1, <2>3
<1>6. QED
  BY <1>4, <1>5

-----------------------------------------------------------------------------
(* Type correctness. *)

LEMMA RouterStart == Init => RouterType
<1> SUFFICES ASSUME Init PROVE RouterType
  OBVIOUS
<1>1. used \in [Budgets -> 0..MaxUsed] /\ redis \in BOOLEAN /\ uncapped \in BOOLEAN
  BY DEF Init
<1>2. WalkType
  BY DEF Init, WalkType, Running, Ended
<1>3. 0 \in 0..MaxCalls /\ 0 \in 0..MaxFaults
  BY CallersAssumption
<1>4. calls \in [Callers -> 0..MaxCalls] /\ faults \in 0..MaxFaults
  BY <1>3 DEF Init
<1>5. sent \in [Callers -> SUBSET Slots] /\ spurned \in [Callers -> SUBSET Lane]
  BY DEF Init
<1>6. QED
  BY <1>1, <1>2, <1>4, <1>5 DEF RouterType

LEMMA FirstKey == \A l \in Configured : 1 \in Keys(l)
BY LanesAssumption DEF Configured, Keys

\* The others keep their positions, so only that of c has to be looked at.
LEMMA WalkTypeOf ==
  ASSUME WalkType, NEW c \in Callers, OthersKeep(c), PlacesTyped',
         lanes' \in [Callers -> SUBSET Configured],
         \A d \in Callers \ {c} : lanes'[d] = lanes[d],
         at'[c] \in {"send", "wait"} =>
           /\ lane'[c] \in lanes'[c] /\ key'[c] \in Keys(lane'[c])
           /\ attempt'[c] \in 1..ATTEMPTS_PER_LANE
  PROVE  WalkType'
BY DEF WalkType, OthersKeep, PlacesTyped, Running

LEMMA WalkTypeStep ==
  ASSUME WalkType, NEW c \in Callers, Start(c) \/ Step(c)
  PROVE  WalkType'
<1>0. 1 \in 1..ATTEMPTS_PER_LANE
  BY LanesAssumption
<1>1. CASE Start(c)
  BY <1>0, <1>1, StartWalks, FirstKey, WalkTypeOf DEF Ended
<1>2. CASE Send(c)
  <2>1. at'[c] = "wait" /\ UNCHANGED <<position, lanes>> /\ OthersKeep(c) /\ PlacesTyped'
    BY <1>2, EndAt DEF Send
  <2>2. QED
    BY <1>2, <2>1, WalkTypeOf DEF WalkType, position, Running, Send
<1>3. CASE EmitRaises(c)
  <2>1. at'[c] = "escaped" /\ lanes' = lanes /\ OthersKeep(c) /\ PlacesTyped'
    BY <1>3, EndAt DEF EmitRaises, Ended
  <2>2. QED
    BY <2>1, WalkTypeOf DEF WalkType
<1>4. CASE Returned(c)
  <2>1. Running(c) /\ lanes' = lanes /\ OthersKeep(c) /\ PlacesTyped'
    BY <1>4, AnswerWalks DEF Running, rest
  <2>2. /\ lane[c] \in lanes[c] /\ key[c] \in Keys(lane[c]) /\ lanes[c] \subseteq Configured
        /\ attempt[c] \in 1..ATTEMPTS_PER_LANE
    BY <2>1 DEF WalkType
  <2>3. CASE at'[c] = "answered" \/ Exhausts(c)
    BY <2>1, <2>3, WalkTypeOf DEF Exhausts, WalkType
  <2>4. CASE Onward(c)
    <3>1. LANES[lane[c]].keys \in Nat /\ ATTEMPTS_PER_LANE \in Nat
      BY <2>2, LanesAreNumbers, LanesAssumption
    <3>2. key'[c] \in Keys(lane'[c]) /\ attempt'[c] \in 1..ATTEMPTS_PER_LANE
      BY <1>0, <2>2, <2>4, <3>1 DEF Onward, Stays, Keys
    <3>3. QED
      BY <2>1, <2>2, <2>4, <3>2, WalkTypeOf DEF Onward, Stays, WalkType
  <2>5. CASE Jumps(c)
    BY <1>0, <2>1, <2>2, <2>5, FirstKey, WalkTypeOf DEF Jumps, WalkType
  <2>6. QED
    BY <1>4, <2>3, <2>4, <2>5, AnswerWalks DEF Leaves
<1>5. QED
  BY <1>1, <1>2, <1>3, <1>4 DEF Step, Returned

LEMMA RouterTypeStep ==
  ASSUME RouterType, [Next]_vars
  PROVE  RouterType'
<1> USE DEF RouterType
<1>1. CASE \E c \in Callers : Start(c) \/ Step(c)
  <2>1. PICK c \in Callers : Start(c) \/ Step(c)
    BY <1>1
  <2>2. WalkType'
    BY <2>1, WalkTypeStep
  <2>3. redis' \in BOOLEAN /\ uncapped' \in BOOLEAN
    BY <2>1, AnswerWalks DEF Start, Step, Send, EmitRaises, Returned, rest
  <2>4. used' \in [Budgets -> 0..MaxUsed]
    BY <2>1, AnswerWalks, CallersAssumption
    DEF Start, Step, Send, EmitRaises, Returned, rest, Counted
  <2>5. calls' \in [Callers -> 0..MaxCalls] /\ faults' \in 0..MaxFaults
    BY <2>1, AnswerWalks, CallersAssumption
    DEF Start, Step, Send, EmitRaises, Returned, rest
  <2>6. sent' \in [Callers -> SUBSET Slots]
    <3>1. CASE Send(c)
      <4>1. <<lane[c], key[c]>> \in Slots
        BY <3>1, LanesAreNumbers DEF WalkType, Running, Send, Slots
      <4>2. QED
        BY <3>1, <4>1 DEF Send
    <3>2. CASE ~Send(c)
      BY <2>1, <3>2, AnswerWalks DEF Start, Step, EmitRaises, Returned, rest
    <3>3. QED
      BY <3>1, <3>2
  <2>7. spurned' \in [Callers -> SUBSET Lane]
    <3>1. CASE Returned(c)
      <4>1. lane[c] \in Lane
        BY <3>1, AnswerWalks, LanesAreNumbers DEF WalkType, Running
      <4>2. \/ spurned' = spurned \/ spurned' = [spurned EXCEPT ![c] = @ \cup {lane[c]}]
        BY <3>1 DEF Returned, Answered, ClientError, Unusable, ServerError
      <4>3. QED
        BY <4>1, <4>2
    <3>2. CASE ~Returned(c)
      BY <2>1, <3>2 DEF Start, Step, Send, EmitRaises, Returned
    <3>3. QED
      BY <3>1, <3>2
  <2>8. QED
    BY <2>2, <2>3, <2>4, <2>5, <2>6, <2>7
<1>2. CASE RedisFlips
  BY <1>2 DEF RedisFlips, WalkType, Running, position
<1>3. CASE Midnight
  <2>1. 0 \in 0..MaxUsed
    BY CallersAssumption
  <2>2. used' \in [Budgets -> 0..MaxUsed]
    BY <1>3, <2>1 DEF Midnight
  <2>3. QED
    BY <1>3, <2>2 DEF Midnight, WalkType, Running, position
<1>4. CASE UNCHANGED vars
  BY <1>4 DEF vars, WalkType, Running, position
<1>5. QED
  BY <1>1, <1>2, <1>3, <1>4 DEF Next
-----------------------------------------------------------------------------
(* No key is left out. *)

LEMMA SentStays ==
  ASSUME NEW c, SentOf(c), at'[c] = at[c], lane'[c] = lane[c], key'[c] = key[c],
         lanes'[c] = lanes[c], sent'[c] = sent[c], spurned'[c] = spurned[c]
  PROVE  SentOf(c)'
BY DEF SentOf, Running, Spent, Tried

\* A call that has its answer has asked the key it is at, and so all the keys of
\* its lane when that is the last one.
LEMMA LeavesSpent ==
  ASSUME RouterType, NEW c \in Callers, SentOf(c), at[c] = "wait", Leaves(c),
         UNCHANGED <<lanes, sent>>, spurned[c] \subseteq spurned'[c],
         key[c] >= LANES[lane[c]].keys \/ lane[c] \in spurned'[c]
  PROVE  SentOf(c)'
<1>1. /\ lanes[c] \subseteq Nat /\ lane[c] \in lanes[c] /\ lane[c] \in Nat
      /\ key[c] \in Keys(lane[c]) /\ LANES[lane[c]].keys \in Nat
  BY LanesAreNumbers, LanesAssumption DEF RouterType, WalkType, Running
<1>2. \A l \in lanes[c] : l < lane[c] => Spent(c, l)'
  BY DEF SentOf, Running, Spent, Tried
<1>3. ASSUME NEW l, l = lane[c] PROVE Spent(c, l)'
  <2>1. CASE lane[c] \in spurned'[c]
    BY <1>3, <2>1 DEF Spent
  <2>2. CASE key[c] >= LANES[lane[c]].keys
    <3>1. \A k \in Keys(lane[c]) : k < key[c] \/ k = key[c]
      BY <1>1, <2>2 DEF Keys
    <3>2. \A k \in Keys(lane[c]) : <<lane[c], k>> \in sent'[c]
      BY <3>1 DEF SentOf, Running
    <3>3. QED
      BY <1>3, <3>2 DEF Spent, Tried
  <2>3. QED
    BY <2>1, <2>2
<1>4. \A l \in lanes[c] : l <= lane[c] => Spent(c, l)'
  BY <1>1, <1>2, <1>3
<1>5. CASE at'[c] = "send" /\ Jumps(c)
  <2>1. \A l \in lanes'[c] : l < lane'[c] => Spent(c, l)'
    BY <1>4, <1>5 DEF Jumps
  <2>2. \A k \in Keys(lane'[c]) : ~(k < key'[c])
    BY <1>5 DEF Jumps, Keys
  <2>3. QED
    BY <1>5, <2>1, <2>2 DEF SentOf
<1>6. CASE Exhausts(c)
  BY <1>4, <1>6 DEF Exhausts, SentOf, Running
<1>7. QED
  BY <1>5, <1>6 DEF Leaves

LEMMA SentStep ==
  ASSUME RouterType, SentInv, [Next]_vars
  PROVE  SentInv'
<1>1. ASSUME NEW c \in Callers, Start(c) \/ Step(c) PROVE SentInv'
  <2>1. \A d \in Callers \ {c} : SentOf(d)'
    <3>1. CASE Start(c)
      <4>1. OthersKeep(c) /\ \A d \in Callers \ {c} : lanes'[d] = lanes[d]
        BY <3>1, StartWalks DEF RouterType
      <4>2. \A d \in Callers \ {c} : sent'[d] = sent[d] /\ spurned'[d] = spurned[d]
        BY <3>1 DEF Start, RouterType
      <4>3. QED
        BY <4>1, <4>2, SentStays DEF SentInv, OthersKeep
    <3>2. CASE Send(c) \/ EmitRaises(c)
      <4>1. OthersKeep(c)
        BY <3>2, EndAt DEF RouterType, Send, EmitRaises, Ended
      <4>2. /\ UNCHANGED <<lanes, spurned>>
            /\ \A d \in Callers \ {c} : sent'[d] = sent[d]
        BY <3>2 DEF Send, EmitRaises, RouterType
      <4>3. QED
        BY <4>1, <4>2, SentStays DEF SentInv, OthersKeep
    <3>3. CASE Returned(c)
      <4>1. OthersKeep(c) /\ UNCHANGED <<lanes, sent>>
        BY <3>3, AnswerWalks DEF RouterType, rest
      <4>2. \A d \in Callers \ {c} : spurned'[d] = spurned[d]
        BY <3>3 DEF Returned, Answered, ClientError, Unusable, ServerError, RouterType
      <4>3. QED
        BY <4>1, <4>2, SentStays DEF SentInv, OthersKeep
    <3>4. QED
      BY <1>1, <3>1, <3>2, <3>3 DEF Step, Returned
  <2>2. SentOf(c)'
    <3>1. CASE Start(c)
      <4>1. CASE at'[c] = "send" /\ key'[c] = 1 /\ \A l \in lanes'[c] : lane'[c] <= l
        <5>1. lanes'[c] \subseteq Nat /\ lane'[c] \in Nat
          BY <3>1, StartWalks, LanesAreNumbers DEF RouterType, PlacesTyped
        <5>2. /\ \A l \in lanes'[c] : ~(l < lane'[c])
              /\ \A k \in Keys(lane'[c]) : ~(k < key'[c])
          BY <4>1, <5>1 DEF Keys
        <5>3. QED
          BY <4>1, <5>2 DEF SentOf
      <4>2. CASE at'[c] = "exhausted" /\ lanes'[c] = {}
        BY <4>2 DEF SentOf, Running
      <4>3. QED
        BY <3>1, <4>1, <4>2, StartWalks DEF RouterType
    <3>2. CASE Send(c)
      <4>1. /\ Running(c) /\ at'[c] = "wait" /\ UNCHANGED <<position, lanes, spurned>>
            /\ sent'[c] = sent[c] \cup {<<lane[c], key[c]>>}
        BY <3>2, EndAt DEF Send, RouterType, Running
      <4>2. QED
        BY <4>1 DEF SentInv, SentOf, Spent, Tried, position
    <3>3. CASE EmitRaises(c)
      <4>1. at'[c] = "escaped"
        BY <3>3, EndAt DEF EmitRaises, RouterType, Ended
      <4>2. QED
        BY <4>1 DEF SentOf, Running
    <3>4. CASE Returned(c)
      <4>1. at[c] = "wait" /\ UNCHANGED <<lanes, sent>> /\ SentOf(c)
        BY <3>4, AnswerWalks DEF RouterType, rest, SentInv
      <4>2. CASE at'[c] = "answered"
        BY <4>2 DEF SentOf, Running
      <4>3. CASE Onward(c) /\ UNCHANGED spurned
        <5>1. key[c] \in Nat /\ (key'[c] = key[c] \/ key'[c] = key[c] + 1)
          BY <4>3 DEF Onward, RouterType, WalkType
        <5>2. \A k \in Keys(lane[c]) : k < key'[c] => <<lane[c], k>> \in sent[c]
          <6>1. \A k \in Keys(lane[c]) : k < key'[c] => k < key[c] \/ k = key[c]
            BY <5>1 DEF Keys
          <6>2. QED
            BY <4>1, <6>1 DEF SentOf, Running
        <5>3. QED
          BY <4>1, <4>3, <5>2 DEF Onward, Stays, SentOf, Running, Spent, Tried
      <4>4. CASE Leaves(c) /\ UNCHANGED spurned /\ key[c] >= LANES[lane[c]].keys
        BY <4>1, <4>4, LeavesSpent
      <4>5. CASE Leaves(c) /\ spurned' = [spurned EXCEPT ![c] = @ \cup {lane[c]}]
        <5>1. lane[c] \in spurned'[c] /\ spurned[c] \subseteq spurned'[c]
          BY <4>5 DEF RouterType
        <5>2. QED
          BY <4>1, <4>5, <5>1, LeavesSpent
      <4>6. QED
        BY <3>4, <4>2, <4>3, <4>4, <4>5, AnswerWalks DEF RouterType
    <3>5. QED
      BY <1>1, <3>1, <3>2, <3>3, <3>4 DEF Step, Returned
  <2>3. QED
    BY <2>1, <2>2 DEF SentInv
<1>2. CASE RedisFlips \/ Midnight \/ UNCHANGED vars
  <2>1. UNCHANGED <<at, lanes, position, sent, spurned>>
    BY <1>2 DEF RedisFlips, Midnight, vars
  <2>2. QED
    BY <2>1, SentStays DEF SentInv, position
<1>3. QED
  BY <1>1, <1>2 DEF Next
-----------------------------------------------------------------------------
(* Counting attempts. *)

LEMMA SlotsAreFinite == IsFiniteSet(Slots)
<1> DEFINE f == [l \in Lane |-> {l} \X Keys(l)]
<1> DEFINE Rows == {{l} \X Keys(l) : l \in Lane}
<1>1. IsFiniteSet(Lane)
  BY LanesAssumption, FS_Interval DEF Lane
<1>2. f \in Surjection(Lane, Rows)
  BY DEF Surjection
<1>3. IsFiniteSet(Rows)
  <2> HIDE DEF f, Rows
  <2>1. QED
    BY <1>1, <1>2, FS_Surjection
<1>4. \A S \in Rows : IsFiniteSet(S)
  <2>1. ASSUME NEW l \in Lane PROVE IsFiniteSet({l} \X Keys(l))
    <3>1. LANES[l].keys \in Int
      BY LanesAssumption
    <3>2. IsFiniteSet(Keys(l))
      <4>1. \A n \in Int : IsFiniteSet(1..n)
        BY FS_Interval
      <4>2. QED
        BY <3>1, <4>1 DEF Keys
    <3>3. IsFiniteSet({l})
      BY FS_Singleton
    <3>4. QED
      BY <3>2, <3>3, FS_Product
  <2>2. QED
    BY <2>1
<1>5. IsFiniteSet(UNION Rows)
  <2> HIDE DEF Rows
  <2>1. QED
    BY <1>3, <1>4, FS_UNION
<1>6. QED
  BY <1>5 DEF Slots

\* All the attempts of all the callers, whether ahead or behind.
LEMMA AllAttempts ==
  ASSUME NEW b
  PROVE  /\ IsFiniteSet(Callers \X Attempts(b))
         /\ Cardinality(Callers \X Attempts(b)) =
              Cardinality(Callers) * Cardinality(Attempts(b))
<1>1. {s \in Slots : LANES[s[1]].budget = b} \in SUBSET Slots
  OBVIOUS
<1>2. IsFiniteSet({s \in Slots : LANES[s[1]].budget = b})
  BY <1>1, SlotsAreFinite, FS_Subset
<1>3. IsFiniteSet(1..ATTEMPTS_PER_LANE)
  BY LanesAssumption, FS_Interval
<1>4. IsFiniteSet(Attempts(b))
  BY <1>2, <1>3, FS_Product DEF Attempts
<1>5. QED
  BY <1>4, CallersAssumption, FS_Product

LEMMA PendingIsBounded ==
  ASSUME NEW b, NEW P \in SUBSET (Callers \X Attempts(b))
  PROVE  /\ IsFiniteSet(P) /\ Cardinality(P) \in Nat
         /\ Cardinality(P) <= Cardinality(Callers) * Cardinality(Attempts(b))
         /\ Cardinality(Callers) * Cardinality(Attempts(b)) \in Nat
<1>1. IsFiniteSet(P) /\ Cardinality(P) <= Cardinality(Callers \X Attempts(b))
  BY AllAttempts, FS_Subset
<1>2. Cardinality(P) \in Nat /\ Cardinality(Callers \X Attempts(b)) \in Nat
  BY <1>1, AllAttempts, FS_CardinalityType
<1>3. QED
  BY <1>1, <1>2, AllAttempts

LEMMA FewerPending ==
  ASSUME NEW b, NEW P \in SUBSET (Callers \X Attempts(b)), NEW Q \in SUBSET P
  PROVE  /\ Cardinality(Q) \in Nat /\ Cardinality(Q) <= Cardinality(P)
         /\ \A x \in P : x \notin Q => Cardinality(Q) + 1 <= Cardinality(P)
<1>1. IsFiniteSet(P) /\ Cardinality(P) \in Nat /\ IsFiniteSet(Q) /\ Cardinality(Q) \in Nat
  BY PendingIsBounded
<1>2. Cardinality(Q) <= Cardinality(P)
  BY <1>1, FS_Subset
<1>3. ASSUME NEW x \in P, x \notin Q PROVE Cardinality(Q) + 1 <= Cardinality(P)
  <2>1. IsFiniteSet(P \ {x}) /\ Cardinality(P \ {x}) = Cardinality(P) - 1
    BY <1>1, FS_RemoveElement
  <2>2. Q \in SUBSET (P \ {x})
    BY <1>3
  <2>3. Cardinality(Q) <= Cardinality(P \ {x})
    BY <2>1, <2>2, FS_Subset
  <2>4. QED
    BY <1>1, <2>1, <2>3
<1>4. QED
  BY <1>1, <1>2, <1>3

\* A budget that some provider with a key draws on has room for a call.
LEMMA LimitIsAbove ==
  ASSUME NEW b \in Capped
  PROVE  /\ Cap[b] \in Nat \ {0} /\ Limit(b) \in Nat
         /\ Limit(b) = Cap[b] + Cardinality(Callers) * Cardinality(Attempts(b))
         /\ Cap[b] < Limit(b)
<1>1. Cap[b] \in Nat \ {0}
  BY LanesAssumption DEF Capped
<1>2. PICK c : c \in Callers
  BY CallersAssumption
<1>3. PICK l \in Configured : LANES[l].budget = b
  BY DEF Capped
<1>4. <<l, 1>> \in Slots
  BY FirstKey, LanesAreNumbers DEF Slots
<1>5. 1 \in 1..ATTEMPTS_PER_LANE
  BY LanesAssumption
<1>6. <<<<l, 1>>, 1>> \in Attempts(b)
  BY <1>3, <1>4, <1>5 DEF Attempts
<1> DEFINE x == <<c, <<<<l, 1>>, 1>>>>
<1>7. x \in Callers \X Attempts(b)
  BY <1>2, <1>6
<1> HIDE DEF x
<1> DEFINE All == Callers \X Attempts(b)
<1>8. All \in SUBSET (Callers \X Attempts(b)) /\ {} \in SUBSET All /\ x \in All
  BY <1>7
<1> HIDE DEF All
<1>9. Cardinality({}) + 1 <= Cardinality(All) /\ Cardinality({}) \in Nat
  BY <1>8, FewerPending
<1>10. /\ Cardinality(All) \in Nat
       /\ Cardinality(All) = Cardinality(Callers) * Cardinality(Attempts(b))
  BY <1>8, PendingIsBounded, AllAttempts DEF All
<1>11. QED
  BY <1>1, <1>9, <1>10 DEF Limit

-----------------------------------------------------------------------------
(* What the calls under way may still ask only becomes less. *)

LEMMA PendingIsTyped == \A b : Pending(b) \in SUBSET (Callers \X Attempts(b))
BY DEF Pending

LEMMA AttemptsAreNumbers ==
  ASSUME NEW b, NEW t \in Attempts(b)
  PROVE  /\ t[1] \in Slots /\ LANES[t[1][1]].budget = b /\ t[1][1] \in Nat
         /\ t[1][2] \in Nat /\ t[2] \in Nat
BY LanesAreNumbers DEF Attempts, Slots, Keys

LEMMA OthersAhead ==
  ASSUME NEW c, NEW d \in Callers \ {c}, OthersKeep(c), lanes'[d] = lanes[d]
  PROVE  \A s, n : Ahead(d, s, n)' = Ahead(d, s, n)
BY DEF OthersKeep, Ahead, Running

LEMMA AnswerShrinks ==
  ASSUME WalkType, NEW c \in Callers, Returned(c), NEW b
  PROVE  Pending(b)' \subseteq Pending(b)
<1>1. /\ at[c] = "wait" /\ OthersKeep(c) /\ UNCHANGED lanes
      /\ at'[c] = "answered" \/ Onward(c) \/ Leaves(c)
  BY AnswerWalks DEF rest
<1>2. ASSUME NEW t \in Attempts(b), Ahead(c, t[1], t[2])' PROVE Ahead(c, t[1], t[2])
  <2>1. /\ lane[c] \in Nat /\ key[c] \in Nat /\ attempt[c] \in Nat
        /\ t[1][1] \in Nat /\ t[1][2] \in Nat /\ t[2] \in Nat /\ lanes[c] \subseteq Nat
    BY AttemptsAreNumbers, LanesAreNumbers DEF WalkType
  <2>2. Running(c) /\ t[1][1] \in lanes[c]
    BY <1>1, <1>2 DEF Ahead, Running
  <2>3. CASE Onward(c)
    <3>1. CASE key'[c] = key[c] /\ attempt'[c] = attempt[c] + 1
      BY <1>2, <2>1, <2>2, <2>3, <3>1 DEF Ahead, Onward, Stays
    <3>2. CASE key'[c] = key[c] + 1
      BY <1>2, <2>1, <2>2, <2>3, <3>2 DEF Ahead, Onward, Stays
    <3>3. QED
      BY <2>3, <3>1, <3>2 DEF Onward
  <2>4. CASE Jumps(c)
    <3>1. lane'[c] \in Nat /\ lane'[c] > lane[c]
      BY <1>1, <2>1, <2>4 DEF Jumps
    <3>2. t[1][1] > lane[c]
      BY <1>2, <2>1, <3>1 DEF Ahead
    <3>3. QED
      BY <2>2, <3>2 DEF Ahead
  <2>5. CASE at'[c] \in {"answered", "exhausted"}
    BY <1>2, <2>5 DEF Ahead, Running
  <2>6. QED
    BY <1>1, <2>3, <2>4, <2>5 DEF Leaves, Exhausts
<1>3. \A d \in Callers \ {c} : \A s, n : Ahead(d, s, n)' = Ahead(d, s, n)
  BY <1>1, OthersAhead
<1>4. QED
  BY <1>2, <1>3 DEF Pending
\* Starting under a cap is allowed however many attempts are pending; over it, the
\* call leaves the lanes of that budget alone.
LEMMA StartKeepsBudgets ==
  ASSUME RouterType, BudgetInv, NEW c \in Callers, Start(c)
  PROVE  BudgetInv'
<1> SUFFICES ASSUME ~uncapped', NEW b \in Capped
             PROVE  used'[b] + Cardinality(Pending(b))' < Limit(b)
  BY DEF BudgetInv
<1> DEFINE under == {l \in Configured : UnderBudget(LANES[l].budget)}
<1>1. /\ ~uncapped /\ redis /\ under # {} /\ used' = used
      /\ lanes'[c] = under
  BY DEF Start, RouterType, WalkType
<1>2. used[b] \in Nat /\ used[b] + Cardinality(Pending(b)) < Limit(b)
  BY <1>1, CallersAssumption DEF Capped, Configured, Budgets, RouterType, BudgetInv
<1>3. /\ Pending(b) \in SUBSET (Callers \X Attempts(b))
      /\ Pending(b)' \in SUBSET (Callers \X Attempts(b))
  BY DEF Pending
<1>4. CASE used[b] < Cap[b]
  <2>1. ASSUME NEW P \in SUBSET (Callers \X Attempts(b))
        PROVE  used[b] + Cardinality(P) < Limit(b)
    BY <1>2, <1>4, LimitIsAbove, PendingIsBounded
  <2>2. QED
    BY <1>1, <1>3, <2>1
<1>5. CASE ~(used[b] < Cap[b])
  <2>1. \A l \in lanes'[c] : LANES[l].budget # b
    BY <1>1, <1>5 DEF UnderBudget, Count, Capped
  <2>2. \A t \in Attempts(b) : ~Ahead(c, t[1], t[2])'
    BY <2>1, AttemptsAreNumbers DEF Ahead
  <2>3. \A d \in Callers \ {c} : \A s, n : Ahead(d, s, n)' = Ahead(d, s, n)
    BY StartWalks, OthersAhead DEF RouterType
  <2>4. Pending(b)' \subseteq Pending(b)
    BY <2>2, <2>3 DEF Pending
  <2>5. ASSUME NEW P \in SUBSET (Callers \X Attempts(b)), NEW Q \in SUBSET P,
               used[b] + Cardinality(P) < Limit(b)
        PROVE  used[b] + Cardinality(Q) < Limit(b)
    BY <1>2, <2>5, LimitIsAbove, FewerPending, PendingIsBounded
  <2>6. QED
    BY <1>1, <1>2, <1>3, <2>4, <2>5
<1>6. QED
  BY <1>4, <1>5

\* An attempt is charged once, and is pending no longer.
LEMMA SendKeepsBudgets ==
  ASSUME RouterType, BudgetInv, NEW c \in Callers, Send(c)
  PROVE  BudgetInv'
<1> SUFFICES ASSUME ~uncapped', NEW b \in Capped
             PROVE  used'[b] + Cardinality(Pending(b))' < Limit(b)
  BY DEF BudgetInv
<1>1. /\ at[c] = "send" /\ at'[c] = "wait" /\ UNCHANGED position /\ OthersKeep(c)
      /\ UNCHANGED <<lanes, uncapped>> /\ used' = Counted(LANES[lane[c]].budget)
  BY EndAt DEF Send, RouterType
<1>2. used[b] \in Nat /\ used[b] + Cardinality(Pending(b)) < Limit(b)
  BY <1>1, CallersAssumption DEF Capped, Configured, Budgets, RouterType, BudgetInv
<1>3. /\ lane[c] \in lanes[c] /\ lane[c] \in Lane /\ key[c] \in Keys(lane[c])
      /\ attempt[c] \in 1..ATTEMPTS_PER_LANE /\ Running(c)
  BY <1>1, LanesAreNumbers DEF RouterType, WalkType, Running
<1>4. Pending(b)' \in SUBSET Pending(b)
  <2>1. \A s, n : Ahead(c, s, n)' => Ahead(c, s, n)
    BY <1>1 DEF Ahead, Running, position
  <2>2. \A d \in Callers \ {c} : \A s, n : Ahead(d, s, n)' = Ahead(d, s, n)
    BY <1>1, OthersAhead
  <2>3. QED
    BY <2>1, <2>2 DEF Pending
<1>5. ASSUME NEW P \in SUBSET (Callers \X Attempts(b)), NEW Q \in SUBSET P
      PROVE  /\ Cardinality(P) \in Nat /\ Cardinality(Q) \in Nat
             /\ Cardinality(Q) <= Cardinality(P)
             /\ \A x \in P : x \notin Q => Cardinality(Q) + 1 <= Cardinality(P)
  BY FewerPending, PendingIsBounded
<1>6. CASE LANES[lane[c]].budget = b
  <2> DEFINE x == <<c, <<<<lane[c], key[c]>>, attempt[c]>>>>
  <2>1. x \in Pending(b)
    <3>1. <<lane[c], key[c]>> \in Slots
      BY <1>3 DEF Slots
    <3>2. <<<<lane[c], key[c]>>, attempt[c]>> \in Attempts(b)
      BY <1>3, <1>6, <3>1 DEF Attempts
    <3>3. Ahead(c, <<lane[c], key[c]>>, attempt[c])
      BY <1>1, <1>3 DEF Ahead
    <3>4. QED
      BY <3>2, <3>3 DEF Pending
  <2>2. \A y : y = x => y \notin Pending(b)'
    <3>1. /\ lane[c] \in Nat /\ key[c] \in Nat /\ attempt[c] \in Nat
      BY DEF RouterType, WalkType
    <3>2. \A s, n : s = <<lane[c], key[c]>> /\ n = attempt[c] => ~Ahead(c, s, n)'
      BY <1>1, <3>1 DEF Ahead, position
    <3>3. QED
      BY <3>2 DEF Pending
  <2>3. Cardinality(Pending(b)') + 1 <= Cardinality(Pending(b))
    BY <1>4, <1>5, <2>1, <2>2, PendingIsTyped
  <2>4. used'[b] \in {used[b], used[b] + 1}
    BY <1>1, <1>6 DEF Counted, RouterType
  <2>5. Cardinality(Pending(b)) \in Nat /\ Cardinality(Pending(b)') \in Nat
    BY <1>4, <1>5, PendingIsTyped
  <2>6. QED
    BY <1>2, <2>3, <2>4, <2>5, LimitIsAbove
<1>7. CASE LANES[lane[c]].budget # b
  <2>1. used'[b] = used[b]
    BY <1>1, <1>7 DEF Counted, RouterType
  <2>2. /\ Cardinality(Pending(b)) \in Nat /\ Cardinality(Pending(b)') \in Nat
        /\ Cardinality(Pending(b)') <= Cardinality(Pending(b))
    BY <1>4, <1>5, PendingIsTyped
  <2>3. QED
    BY <1>2, <2>1, <2>2, LimitIsAbove
<1>8. QED
  BY <1>6, <1>7

\* What leaves the counters alone and starts no attempt keeps the budgets.
LEMMA ShrinkKeepsBudgets ==
  ASSUME RouterType, BudgetInv, UNCHANGED <<used, uncapped>>,
         \A b : Pending(b)' \in SUBSET Pending(b)
  PROVE  BudgetInv'
<1> SUFFICES ASSUME ~uncapped', NEW b \in Capped
             PROVE  used'[b] + Cardinality(Pending(b))' < Limit(b)
  BY DEF BudgetInv
<1>1. used'[b] = used[b] /\ used[b] \in Nat /\ used[b] + Cardinality(Pending(b)) < Limit(b)
  BY CallersAssumption DEF Capped, Configured, Budgets, RouterType, BudgetInv
<1>2. ASSUME NEW P \in SUBSET (Callers \X Attempts(b)), NEW Q \in SUBSET P
      PROVE  /\ Cardinality(P) \in Nat /\ Cardinality(Q) \in Nat
             /\ Cardinality(Q) <= Cardinality(P)
  BY FewerPending, PendingIsBounded
<1>3. /\ Cardinality(Pending(b)) \in Nat /\ Cardinality(Pending(b)') \in Nat
      /\ Cardinality(Pending(b)') <= Cardinality(Pending(b))
  BY <1>2, PendingIsTyped
<1>4. QED
  BY <1>1, <1>3, LimitIsAbove

\* At midnight the counters start again, the calls under way go on.
LEMMA MidnightKeepsBudgets ==
  ASSUME RouterType, Midnight
  PROVE  BudgetInv'
<1> SUFFICES ASSUME NEW b \in Capped
             PROVE  used'[b] + Cardinality(Pending(b))' < Limit(b)
  BY DEF BudgetInv
<1>1. used'[b] = 0
  BY DEF Midnight, Capped, Configured, Budgets
<1>2. Pending(b)' \in SUBSET (Callers \X Attempts(b))
  BY DEF Pending
<1>3. ASSUME NEW P \in SUBSET (Callers \X Attempts(b)) PROVE 0 + Cardinality(P) < Limit(b)
  BY LimitIsAbove, PendingIsBounded
<1>4. QED
  BY <1>1, <1>2, <1>3

LEMMA BudgetStep ==
  ASSUME RouterType, BudgetInv, [Next]_vars
  PROVE  BudgetInv'
<1>1. ASSUME NEW c \in Callers, Start(c) \/ Step(c) PROVE BudgetInv'
  <2>1. CASE EmitRaises(c)
    <3>1. at'[c] = "escaped" /\ OthersKeep(c) /\ UNCHANGED <<used, uncapped, lanes>>
      BY <2>1, EndAt DEF EmitRaises, RouterType, Ended
    <3>2. \A s, n : ~Ahead(c, s, n)'
      BY <3>1 DEF Ahead, Running
    <3>3. \A d \in Callers \ {c} : \A s, n : Ahead(d, s, n)' = Ahead(d, s, n)
      BY <3>1, OthersAhead
    <3>4. \A b : Pending(b)' \in SUBSET Pending(b)
      BY <3>2, <3>3 DEF Pending
    <3>5. QED
      BY <3>1, <3>4, ShrinkKeepsBudgets
  <2>2. CASE Returned(c)
    <3>1. UNCHANGED <<used, uncapped>>
      BY <2>2, AnswerWalks DEF RouterType, rest
    <3>2. \A b : Pending(b)' \in SUBSET Pending(b)
      BY <2>2, AnswerShrinks DEF RouterType
    <3>3. QED
      BY <3>1, <3>2, ShrinkKeepsBudgets
  <2>3. QED
    BY <1>1, <2>1, <2>2, StartKeepsBudgets, SendKeepsBudgets DEF Step, Returned
<1>2. CASE RedisFlips \/ UNCHANGED vars
  <2>1. UNCHANGED <<used, uncapped, at, lanes, position>>
    BY <1>2 DEF RedisFlips, vars
  <2>2. \A b : Pending(b)' \in SUBSET Pending(b)
    BY <2>1 DEF Pending, Ahead, Running, position
  <2>3. QED
    BY <2>1, <2>2, ShrinkKeepsBudgets
<1>3. QED
  BY <1>1, <1>2, MidnightKeepsBudgets DEF Next

-----------------------------------------------------------------------------
(* The theorems. *)

LEMMA RouterInvariant == Spec => []RouterInv
<1>1. Init => RouterInv
  <2> SUFFICES ASSUME Init PROVE RouterInv
    OBVIOUS
  <2>1. RouterType
    BY RouterStart
  <2>2. SentInv
    BY DEF Init, SentInv, SentOf, Running
  <2>3. BudgetInv
    <3> SUFFICES ASSUME NEW b \in Capped
                 PROVE  used[b] + Cardinality(Pending(b)) < Limit(b)
      BY DEF BudgetInv
    <3>1. used[b] \in Nat /\ used[b] <= Cap[b]
      BY CallersAssumption DEF Init, Capped, Configured, Budgets
    <3>2. Pending(b) = {}
      BY DEF Init, Pending, Ahead, Running
    <3>3. Cardinality(Pending(b)) = 0
      BY <3>2, FS_EmptySet
    <3>4. QED
      BY <3>1, <3>3, LimitIsAbove
  <2>4. QED
    BY <2>1, <2>2, <2>3 DEF RouterInv
<1>2. RouterInv /\ [Next]_vars => RouterInv'
  BY RouterTypeStep, SentStep, BudgetStep DEF RouterInv
<1>3. QED
  BY <1>1, <1>2, PTL DEF Spec

\* Type correctness.
THEOREM RouterTypeCorrect == Spec => []TypeOK
<1>1. RouterInv => TypeOK
  BY LanesAreNumbers DEF RouterInv, RouterType, WalkType, TypeOK, Running
<1>2. QED
  BY <1>1, RouterInvariant, PTL

\* The walk of complete() leaves no key out: a provider is left only over an
\* answer that no key would improve, or with every key asked.
THEOREM NoKeyIsLeftOut == Spec => []EveryKeyHasItsChance
<1>1. RouterInv => EveryKeyHasItsChance
  BY DEF RouterInv, SentInv, SentOf, EveryKeyHasItsChance, Left, Spent, Running
<1>2. QED
  BY <1>1, RouterInvariant, PTL

\* A budget that is read once and charged later is exceeded by no more than the
\* attempts of the calls under way, at most one call of each thread.
THEOREM BudgetsAreNearlyKept == Spec => []OvershootIsBounded
<1>1. RouterInv => OvershootIsBounded
  <2> SUFFICES ASSUME RouterInv, ~uncapped, NEW b \in Capped
               PROVE  used[b] < Limit(b)
    BY DEF OvershootIsBounded, Capped, Limit
  <2>1. used[b] \in Nat /\ used[b] + Cardinality(Pending(b)) < Limit(b)
    BY CallersAssumption
    DEF RouterInv, RouterType, BudgetInv, Capped, Configured, Budgets
  <2>2. Cardinality(Pending(b)) \in Nat
    BY PendingIsTyped, PendingIsBounded
  <2>3. QED
    BY <2>1, <2>2, LimitIsAbove
<1>2. QED
  BY <1>1, RouterInvariant, PTL

-----------------------------------------------------------------------------
(* The refresh tokens. *)

\* Only the handler of a request moves it, and says for whom it acts and what
\* it was shown; both are settled when it leaves the first line.
LEMMA OneMoves ==
  ASSUME RTTypeOK, NEW q \in Requests, Handle(q)
  PROVE  /\ \A x \in Requests \ {q} :
              pc'[x] = pc[x] /\ who'[x] = who[x] /\ shown'[x] = shown[x]
         /\ pc[q] # "idle" => who' = who /\ shown' = shown
         /\ pc'[q] # "idle"
BY DEF RTTypeOK, Handle, Signup, Create, Login, Present, ReadToken,
   RevokeAll, Rotate, Leave, Store, Answer, Proceed, ActFor, Writes

\* Three effects on the table of tokens: one of its user, one it was shown, its own.
LEMMA TokenEffects ==
  ASSUME RTTypeOK, RequestsInv, NEW q \in Requests, Handle(q)
  PROVE  \/ token' = token
         \/ /\ pc[q] = "reuse" /\ pc'[q] \in {"refused", "raised"} /\ q \in wiped'
            /\ token' = [t \in Requests |->
                           IF t \in OfTheUser(q) THEN "revoked" ELSE token[t]]
         \/ /\ pc[q] \in {"rotating", "leaving"} /\ pc'[q] \in {"storing", "done", "raised"}
            /\ pc[q] = "leaving" => pc'[q] # "storing"
            /\ shown[q] # None /\ RevokeShown(q)
         \/ /\ pc[q] = "storing" /\ pc'[q] \in {"answering", "raised"}
            /\ token' = [token EXCEPT ![q] = "live"]
<1> USE DEF RTTypeOK, Proceed, tables
<1>1. CASE RevokeAll(q)
  BY <1>1 DEF RevokeAll, Writes
<1>2. CASE Rotate(q)
  BY <1>2 DEF Rotate, Writes, RequestsInv, RevokeShown
<1>3. CASE Leave(q)
  BY <1>3 DEF Leave, Writes, RevokeShown
<1>4. CASE Store(q)
  BY <1>4 DEF Store, Writes
<1>5. CASE Signup(q) \/ Create(q) \/ Login(q) \/ ReadToken(q) \/ Answer(q)
  BY <1>5 DEF Signup, Create, Login, ReadToken, Answer
<1>6. CASE Present(q, "reading") \/ Present(q, "leaving")
  BY <1>6 DEF Present
<1>7. QED
  BY <1>1, <1>2, <1>3, <1>4, <1>5, <1>6 DEF Handle

\* A revoked token stays revoked, and a row stays.
LEMMA RevocationLasts ==
  ASSUME SessionsInv, NEW q \in Requests, Handle(q)
  PROVE  /\ \A t \in Requests : token[t] = "revoked" => token'[t] = "revoked"
         /\ \A t \in Requests : token[t] # "none" => token'[t] # "none"
         /\ \A t \in Requests : t # q /\ token[t] = "none" => token'[t] = "none"
         /\ \A t \in Requests : t # q /\ token'[t] = "live" => token[t] = "live"
BY TokenEffects DEF SessionsInv, RTTypeOK, RequestsInv, ShownInv, RevokeShown,
   OfTheUser

-----------------------------------------------------------------------------
(* Type correctness. *)

\* The tables, the handlers and what they hold keep their types, and a row belongs
\* to an account.
LEMMA TokensTypeStep ==
  ASSUME RTTypeOK, RequestsInv, ShownInv, NEW q \in Requests, Handle(q)
  PROVE  RTTypeOK'
<1> USE NoneAssumption DEF Points, Proceed, ghosts, tables
<1>1. CASE Signup(q)
  BY <1>1 DEF Signup, ActFor, RTTypeOK, RequestsInv
<1>2. CASE Create(q)
  BY <1>2 DEF Create, Writes, RTTypeOK, RequestsInv
<1>3. CASE Login(q)
  BY <1>3 DEF Login, ActFor, RTTypeOK, RequestsInv
<1>4. CASE Present(q, "reading") \/ Present(q, "leaving")
  BY <1>4 DEF Present, ActFor, RTTypeOK, RequestsInv
<1>5. CASE ReadToken(q)
  BY <1>5 DEF ReadToken, RTTypeOK
<1>6. CASE RevokeAll(q)
  BY <1>6 DEF RevokeAll, Writes, OfTheUser, RTTypeOK
<1>7. CASE Rotate(q) \/ Leave(q)
  BY <1>7 DEF Rotate, Leave, Writes, RevokeShown, RTTypeOK, RequestsInv,
     ShownInv
<1>8. CASE Store(q)
  BY <1>8 DEF Store, Writes, RTTypeOK, RequestsInv
<1>9. CASE Answer(q)
  BY <1>9 DEF Answer, RTTypeOK, RequestsInv
<1>10. QED
  BY <1>1, <1>2, <1>3, <1>4, <1>5, <1>6, <1>7, <1>8, <1>9 DEF Handle

-----------------------------------------------------------------------------
(* The parts of the invariant. *)

\* A handler issues its token last, to a user who has an account.
LEMMA RequestsStep ==
  ASSUME SessionsInv, NEW q \in Requests, Handle(q)
  PROVE  RequestsInv'
<1> USE DEF SessionsInv
<1>1. \A x \in Requests \ {q} : token[x] = "none" => token'[x] = "none"
  BY RevocationLasts
<1>2. account \subseteq account'
  BY DEF Handle, Signup, Create, Login, Present, ReadToken, RevokeAll,
     Rotate, Leave, Store, Answer, Writes, tables
<1>3. /\ pc'[q] \in {"idle", "creating", "reading", "reuse", "rotating", "leaving",
                     "storing"} =>
           token'[q] = "none"
      /\ pc'[q] = "answering" => token'[q] # "none"
      /\ pc'[q] = "creating" => who'[q] \in Users
      /\ pc'[q] \in {"idle", "creating"} => shown'[q] = None
      /\ pc'[q] \in {"reuse", "rotating"} => shown'[q] # None
      /\ pc'[q] = "storing" => who'[q] \in account'
  <2> USE DEF RTTypeOK, RequestsInv, Proceed, tables
  <2>1. CASE Signup(q) \/ Login(q)
    BY <2>1 DEF Signup, Login, ActFor
  <2>2. CASE Create(q)
    BY <2>2 DEF Create, Writes
  <2>3. CASE Present(q, "reading") \/ Present(q, "leaving")
    BY <2>3 DEF Present
  <2>4. CASE ReadToken(q) \/ Answer(q)
    BY <2>4 DEF ReadToken, Answer
  <2>5. CASE RevokeAll(q)
    BY <2>5 DEF RevokeAll, Writes
  <2>6. CASE Rotate(q)
    BY <2>6, NoneAssumption DEF Rotate, Writes, RevokeShown, ShownInv
  <2>7. CASE Leave(q)
    BY <2>7 DEF Leave, Writes
  <2>8. CASE Store(q)
    BY <2>8 DEF Store, Writes
  <2>9. QED
    BY <2>1, <2>2, <2>3, <2>4, <2>5, <2>6, <2>7, <2>8 DEF Handle
<1>4. ASSUME NEW x \in Requests \ {q}
      PROVE  /\ pc[x] = "answering" => token'[x] # "none"
             /\ pc[x] = "storing" => who[x] \in account'
  BY <1>2, RevocationLasts DEF RequestsInv
<1>5. QED
  BY <1>1, <1>3, <1>4, OneMoves DEF RequestsInv

\* A token that was shown is in the table, and revoked before its successor is.
LEMMA ShownStep ==
  ASSUME SessionsInv, NEW q \in Requests, Handle(q)
  PROVE  ShownInv'
<1> USE DEF SessionsInv
<1>1. ASSUME NEW x \in Requests \ {q}, shown'[x] # None
      PROVE  /\ token'[shown'[x]] # "none" /\ who'[shown'[x]] = who'[x]
             /\ pc'[x] \in {"reuse", "storing"} \/ token'[x] = "live" =>
                  token'[shown'[x]] = "revoked"
  <2>1. shown[x] \in Requests /\ shown[x] # None /\ shown'[x] = shown[x]
    BY <1>1, OneMoves DEF RTTypeOK
  <2>2. token[shown[x]] # "none" /\ pc[shown[x]] # "idle"
    BY <2>1 DEF ShownInv, RequestsInv
  <2>3. who'[shown[x]] = who[shown[x]]
    BY <2>1, <2>2, OneMoves
  <2>4. token'[x] = "live" => token[x] = "live"
    BY RevocationLasts
  <2>5. QED
    BY <2>1, <2>2, <2>3, <2>4, OneMoves, RevocationLasts DEF ShownInv
<1>2. ASSUME shown'[q] # None
      PROVE  /\ token'[shown'[q]] # "none" /\ who'[shown'[q]] = who'[q]
             /\ pc'[q] \in {"reuse", "storing"} \/ token'[q] = "live" =>
                  token'[shown'[q]] = "revoked"
  <2>1. CASE pc[q] = "idle"
    <3>1. \/ Present(q, "reading") \/ Present(q, "leaving")
      BY <1>2, <2>1 DEF Handle, Signup, Create, Login, ReadToken,
         RevokeAll, Rotate, Leave, Store, Answer, RequestsInv
    <3>2. PICK t \in held \cup {None} :
            /\ shown' = [shown EXCEPT ![q] = t]
            /\ ActFor(q, IF t = None THEN None ELSE who[t])
      BY <3>1 DEF Present
    <3>3. t \in Requests /\ token[t] # "none" /\ t # q /\ token[q] = "none"
      BY <1>2, <2>1, <3>2 DEF RTTypeOK, RequestsInv
    <3>4. pc'[q] \in {"reading", "leaving"} /\ token' = token
      BY <3>1 DEF Present, Proceed, RTTypeOK, tables
    <3>5. who'[q] = who[t] /\ who'[t] = who[t] /\ shown'[q] = t
      BY <3>2, <3>3, NoneAssumption DEF ActFor, RTTypeOK
    <3>6. QED
      BY <3>3, <3>4, <3>5
  <2>2. CASE pc[q] # "idle"
    <3>1. shown' = shown /\ who' = who /\ shown[q] \in Requests
      BY <1>2, <2>2, OneMoves DEF RTTypeOK
    <3>2. token'[shown[q]] # "none" /\ who[shown[q]] = who[q] /\ shown[q] # None
      BY <1>2, <3>1, RevocationLasts DEF ShownInv
    <3>3. pc'[q] = "reuse" => token[shown[q]] = "revoked"
      BY <3>1, <3>2 DEF Handle, Signup, Create, Login, Present, ReadToken,
         RevokeAll, Rotate, Leave, Store, Answer, Proceed, Writes, RTTypeOK
    <3>4. pc'[q] = "storing" => token'[shown[q]] = "revoked"
      BY <3>1, <3>2 DEF Handle, Signup, Create, Login, Present, ReadToken,
         RevokeAll, Rotate, Leave, Store, Answer, Proceed, Writes, RTTypeOK,
         RequestsInv, RevokeShown
    <3>5. token'[q] = "live" => token[shown[q]] = "revoked"
      BY <3>1, <3>2, TokenEffects DEF ShownInv, RevokeShown, RTTypeOK
    <3>6. QED
      BY <3>1, <3>2, <3>3, <3>4, <3>5, RevocationLasts
  <2>3. QED
    BY <2>1, <2>2
<1>3. QED
  BY <1>1, <1>2 DEF ShownInv

\* Whoever revokes a token leaves a trace of it.
LEMMA CausesStep ==
  ASSUME SessionsInv, NEW q \in Requests, Handle(q)
  PROVE  CausesInv'
<1> USE DEF SessionsInv
<1>1. wiped \subseteq wiped'
  BY DEF Handle, Signup, Create, Login, Present, ReadToken, RevokeAll,
     Rotate, Leave, Store, Answer, Writes, ghosts
<1>2. pc[q] \in Past => pc'[q] \in Past
  BY DEF Handle, Signup, Create, Login, Present, ReadToken, RevokeAll,
     Rotate, Leave, Store, Answer, Writes, Proceed, RTTypeOK, Past
<1>3. ASSUME NEW t \in Requests, token'[t] = "revoked"
      PROVE  \E p \in Requests : /\ pc'[p] \in Past /\ who'[p] = who'[t]
                                 /\ shown'[p] = t \/ p \in wiped'
  <2>1. CASE token[t] = "revoked"
    <3>1. PICK p \in Requests : /\ pc[p] \in Past /\ who[p] = who[t]
                                /\ shown[p] = t \/ p \in wiped
      BY <2>1 DEF CausesInv
    <3>2. pc[p] # "idle" /\ pc[t] # "idle"
      BY <2>1, <3>1 DEF Past, RequestsInv
    <3>3. pc'[p] \in Past /\ who'[p] = who[p] /\ who'[t] = who[t] /\ shown'[p] = shown[p]
      BY <1>2, <3>1, <3>2, OneMoves
    <3>4. QED
      BY <1>1, <3>1, <3>3
  <2>2. CASE token[t] # "revoked"
    <3>1. /\ pc[q] \in {"reuse", "rotating", "leaving"} /\ pc'[q] \in Past
          /\ who[t] = who[q]
          /\ \/ q \in wiped'
             \/ shown[q] = t
      BY <1>3, <2>2, TokenEffects DEF RTTypeOK, OfTheUser, RevokeShown, ShownInv,
         Past
    <3>2. who' = who /\ shown' = shown
      BY <3>1, OneMoves
    <3>3. QED
      BY <3>1, <3>2
  <2>3. QED
    BY <2>1, <2>2
<1>4. QED
  BY <1>3 DEF CausesInv

\* A request that was shown a revoked token only reads on.
LEMMA LateStep ==
  ASSUME SessionsInv, NEW q \in Requests, Handle(q)
  PROVE  LateInv'
<1> USE DEF SessionsInv
<1>1. ASSUME NEW x \in late', x \notin late
      PROVE  /\ x = q /\ shown'[x] # None /\ token'[shown'[x]] = "revoked"
             /\ token'[x] = "none" /\ pc'[x] \in {"reading", "leaving"}
  <2>1. pc[q] = "idle" /\ (Present(q, "reading") \/ Present(q, "leaving"))
    BY <1>1 DEF Handle, Signup, Create, Login, Present, ReadToken,
       RevokeAll, Rotate, Leave, Store, Answer, ghosts
  <2>2. QED
    BY <1>1, <2>1, NoneAssumption DEF Present, Proceed, RTTypeOK, RequestsInv,
       tables
<1>2. ASSUME NEW x \in late \ {q}
      PROVE  /\ shown'[x] # None /\ token'[shown'[x]] = "revoked" /\ token'[x] = "none"
             /\ pc'[x] \in {"reading", "reuse", "leaving", "refused", "raised", "done"}
  BY OneMoves, RevocationLasts DEF LateInv, RTTypeOK
<1>3. ASSUME q \in late
      PROVE  /\ shown'[q] # None /\ token'[shown'[q]] = "revoked" /\ token'[q] = "none"
             /\ pc'[q] \in {"reading", "reuse", "leaving", "refused", "raised", "done"}
  <2>1. /\ shown[q] \in Requests /\ token[shown[q]] = "revoked" /\ token[q] = "none"
        /\ shown[q] # None /\ shown' = shown
        /\ pc[q] \in {"reading", "reuse", "leaving", "refused", "raised", "done"}
    BY <1>3, OneMoves DEF LateInv, RTTypeOK
  <2>2. pc'[q] \in {"reading", "reuse", "leaving", "refused", "raised", "done"}
    BY <2>1 DEF Handle, Signup, Create, Login, Present, ReadToken,
       RevokeAll, Rotate, Leave, Store, Answer, Writes, Proceed, RTTypeOK
  <2>3. token'[q] = "none"
    BY <2>1, TokenEffects DEF RTTypeOK, OfTheUser, RevokeShown
  <2>4. QED
    BY <2>1, <2>2, <2>3, RevocationLasts
<1>4. QED
  BY <1>1, <1>2, <1>3 DEF LateInv

-----------------------------------------------------------------------------
(* The theorems. *)

\* The parts hold of an empty table, and each step keeps them.
LEMMA SessionsInvariant == RTSpec => []SessionsInv
<1>1. RTInit => SessionsInv
  BY DEF RTInit, SessionsInv, RTTypeOK, Points, RequestsInv, ShownInv,
     CausesInv, LateInv
<1>2. ASSUME SessionsInv, [RTNext]_rtVars PROVE SessionsInv'
  <2>1. ASSUME NEW q \in Requests, Handle(q) PROVE SessionsInv'
    BY <1>2, <2>1, TokensTypeStep, RequestsStep, ShownStep, CausesStep, LateStep
       DEF SessionsInv
  <2>2. ASSUME NEW q \in Requests, Expire(q) PROVE SessionsInv'
    BY <1>2, <2>2 DEF SessionsInv, RTTypeOK, RequestsInv, ShownInv, CausesInv,
       LateInv, Expire, tables, ghosts
  <2>3. CASE UNCHANGED rtVars
    BY <1>2, <2>3 DEF SessionsInv, RTTypeOK, RequestsInv, ShownInv, CausesInv,
       LateInv, rtVars
  <2>4. QED
    BY <1>2, <2>1, <2>2, <2>3 DEF RTNext
<1>3. QED
  BY <1>1, <1>2, PTL DEF RTSpec

\* The tables and the handlers keep their types, and every token belongs to an
\* account (RefreshTokens!TypeOK).
THEOREM TokensTypeCorrect == RTSpec => []RTTypeOK
<1>1. SessionsInv => RTTypeOK
  BY DEF SessionsInv
<1>2. QED
  BY <1>1, SessionsInvariant, PTL

\* While a token is good, the one it was exchanged for is revoked
\* (ParentsAreRevoked), whatever raises between the transactions of a rotation.
THEOREM PredecessorsAreRevoked == RTSpec => []ParentsAreRevoked
<1>1. SessionsInv => ParentsAreRevoked
  BY DEF SessionsInv, ShownInv, ParentsAreRevoked
<1>2. QED
  BY <1>1, SessionsInvariant, PTL

\* A refresh that detects a reuse has another request to blame (AlarmsHaveACause):
\* one that was shown the same token, or that raised such an alarm for the user.
THEOREM AlarmsAreJustified == RTSpec => []AlarmsHaveACause
<1>1. SessionsInv => AlarmsHaveACause
  <2> SUFFICES ASSUME SessionsInv, NEW q \in Requests, pc[q] = "reuse"
               PROVE  \E p \in Requests \ {q} :
                        who[p] = who[q] /\ (shown[p] = shown[q] \/ p \in wiped)
    BY DEF AlarmsHaveACause
  <2>1. /\ shown[q] \in Requests /\ token[shown[q]] = "revoked"
        /\ who[shown[q]] = who[q]
    BY DEF SessionsInv, RTTypeOK, RequestsInv, ShownInv
  <2>2. PICK p \in Requests : /\ pc[p] \in Past /\ who[p] = who[shown[q]]
                              /\ shown[p] = shown[q] \/ p \in wiped
    BY <2>1 DEF SessionsInv, CausesInv
  <2>3. p # q
    BY <2>2 DEF Past
  <2>4. QED
    BY <2>1, <2>2, <2>3
<1>2. QED
  BY <1>1, SessionsInvariant, PTL

\* A request that presents a revoked token is never issued another
\* (RevokedMeansOver), by a rotation, after a logout or after an alarm.
THEOREM RevocationIsFinal == RTSpec => []RevokedMeansOver
<1>1. SessionsInv => RevokedMeansOver
  BY DEF SessionsInv, LateInv, RevokedMeansOver
<1>2. QED
  BY <1>1, SessionsInvariant, PTL

\* No interleaving of rotations, logouts, alarms and calls that raise makes a revoked
\* token good again, or takes a row out of the table, on which the detection of a
\* reuse rests.
RevokedForGood ==
  [][\A t \in Requests : /\ token[t] = "revoked" => token'[t] = "revoked"
                         /\ token[t] # "none" => token'[t] # "none"]_rtVars

\* Every step of every handler keeps what is revoked (RevokedForGood).
THEOREM RevocationIsPermanent == RTSpec => RevokedForGood
<1> DEFINE Kept == \A t \in Requests : /\ token[t] = "revoked" => token'[t] = "revoked"
                                       /\ token[t] # "none" => token'[t] # "none"
<1>1. SessionsInv /\ [RTNext]_rtVars => [Kept]_rtVars
  <2> SUFFICES ASSUME SessionsInv, RTNext PROVE Kept
    OBVIOUS
  <2>1. PICK q \in Requests : Handle(q) \/ Expire(q)
    BY DEF RTNext
  <2>2. CASE Handle(q)
    BY <2>2, RevocationLasts
  <2>3. CASE Expire(q)
    BY <2>3 DEF Expire, tables
  <2>4. QED
    BY <2>1, <2>2, <2>3
<1>2. QED
  BY <1>1, SessionsInvariant, PTL DEF RTSpec, RevokedForGood
=============================================================================
