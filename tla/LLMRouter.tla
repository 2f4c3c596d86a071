------------------------------ MODULE LLMRouter ------------------------------
(***************************************************************************)
(* complete() of the LLM router, called by the agents of several runs at   *)
(* once.  A call filters its lanes by the daily budgets, once; then it     *)
(* walks lane by lane, key by key, attempt by attempt, until an answer     *)
(* satisfies the schema or nothing is left.  The budgets are counters in   *)
(* Redis, one key per day, which may be unreachable at any time: then a    *)
(* read gives 0 and an increment is lost.                                  *)
(***************************************************************************)
EXTENDS Naturals, Sequences, FiniteSets, FiniteSetsExt

CONSTANTS
  Callers,            \* threads of the agents
  LANES,              \* rows of one task class: number of keys, budget key
  Cap,                \* budgets.json: daily cap of some of the budget keys
  ATTEMPTS_PER_LANE,
  MaxCalls,           \* bound on the calls of a thread
  MaxUsed,            \* bound on the counters, which stop there
  MaxFaults           \* bound on the event writes that raise

Lane    == 1..Len(LANES)
Keys(l) == 1..LANES[l].keys
Budgets == {LANES[l].budget : l \in Lane}
Configured == {l \in Lane : LANES[l].keys > 0}
Slots == UNION {{l} \X Keys(l) : l \in Lane}

ASSUME LanesAssumption ==
  /\ Len(LANES) \in Nat /\ \A l \in Lane : LANES[l].keys \in Nat
  /\ DOMAIN Cap \subseteq Budgets /\ \A b \in DOMAIN Cap : Cap[b] \in Nat \ {0}
  /\ ATTEMPTS_PER_LANE \in Nat \ {0}

ASSUME CallersAssumption ==
  /\ IsFiniteSet(Callers) /\ Callers # {}
  /\ MaxCalls \in Nat /\ MaxUsed \in Nat /\ MaxFaults \in Nat

VARIABLES
  used,        \* today's counter of each budget key
  redis,       \* Redis answers
  at,          \* thread: "idle", "send", "wait", or how its last call ended
  lanes,       \* thread: the lanes its call may try
  lane, key, attempt,
  calls, faults,
  sent,        \* history: lanes and keys the call has asked
  spurned,     \* history: lanes the call left over an unusable answer
  uncapped     \* history: a call of today chose its lanes without the caps

position == <<lane, key, attempt>>
vars == <<used, redis, at, lanes, position, calls, faults, sent, spurned, uncapped>>

Ended == {"idle", "answered", "exhausted", "escaped"}

TypeOK ==
  /\ used \in [Budgets -> 0..MaxUsed]
  /\ redis \in BOOLEAN /\ uncapped \in BOOLEAN
  /\ at \in [Callers -> Ended \cup {"send", "wait"}]
  /\ lanes \in [Callers -> SUBSET Lane]
  /\ \A c \in Callers : at[c] \in {"send", "wait"} =>
       /\ lane[c] \in lanes[c] /\ key[c] \in Keys(lane[c])
       /\ attempt[c] \in 1..ATTEMPTS_PER_LANE
  /\ calls \in [Callers -> 0..MaxCalls] /\ faults \in 0..MaxFaults
  /\ sent \in [Callers -> SUBSET Slots]
  /\ spurned \in [Callers -> SUBSET Lane]

Init ==
  /\ used \in {f \in [Budgets -> 0..MaxUsed] :
                 \A b \in Budgets : f[b] <= IF b \in DOMAIN Cap THEN Cap[b] ELSE 0}
  /\ redis = TRUE /\ uncapped = FALSE
  /\ at = [c \in Callers |-> "idle"]
  /\ lanes = [c \in Callers |-> {}]
  /\ lane = [c \in Callers |-> 1]
  /\ key = [c \in Callers |-> 1]
  /\ attempt = [c \in Callers |-> 1]
  /\ calls = [c \in Callers |-> 0] /\ faults = 0
  /\ sent = [c \in Callers |-> {}]
  /\ spurned = [c \in Callers |-> {}]

-----------------------------------------------------------------------------
(* The walk of a call. *)

Goto(c, site) == at' = [at EXCEPT ![c] = site]
Place(c, l, k, n) ==
  /\ lane' = [lane EXCEPT ![c] = l]
  /\ key' = [key EXCEPT ![c] = k]
  /\ attempt' = [attempt EXCEPT ![c] = n]

\* On to the next lane of the call; after the last one, RuntimeError.
NextLane(c) ==
  LET later == {l \in lanes[c] : l > lane[c]}
  IN IF later = {}
     THEN Goto(c, "exhausted") /\ UNCHANGED position
     ELSE Goto(c, "send") /\ Place(c, Min(later), 1, 1)

\* Mutant: a key that is refused takes its provider with it.
AbandonProvider(c) == NextLane(c)

\* Mutant: one key too many.
KeyTooMany(c) ==
  IF key[c] <= LANES[lane[c]].keys
  THEN Goto(c, "send") /\ Place(c, lane[c], key[c] + 1, 1)
  ELSE NextLane(c)

\* On to the next key of the same provider, or to the next lane.
NextKey(c) ==
  IF key[c] < LANES[lane[c]].keys
  THEN Goto(c, "send") /\ Place(c, lane[c], key[c] + 1, 1)
  ELSE NextLane(c)

\* counter_get and counter_incr, which never raise.
Count(b)   == IF redis THEN used[b] ELSE 0
Counted(b) == IF redis /\ used[b] < MaxUsed THEN [used EXCEPT ![b] = @ + 1] ELSE used

\* Mutant: the cap itself is still under the cap.
AtMostCap(b) == b \in DOMAIN Cap => Count(b) <= Cap[b]

\* _under_budget; a key without a cap always is.
UnderBudget(b) == b \in DOMAIN Cap => Count(b) < Cap[b]

\* The lanes are chosen when the call starts and never looked at again.
Start(c) ==
  /\ at[c] \in Ended
  /\ calls[c] < MaxCalls
  /\ LET under == {l \in Configured : UnderBudget(LANES[l].budget)}
         tried == IF under = {} THEN Configured ELSE under
     IN /\ lanes' = [lanes EXCEPT ![c] = tried]
        /\ IF tried = {}
           THEN Goto(c, "exhausted") /\ UNCHANGED position
           ELSE Goto(c, "send") /\ Place(c, Min(tried), 1, 1)
        /\ uncapped' = (uncapped \/ under = {} \/ ~redis)
  /\ calls' = [calls EXCEPT ![c] = @ + 1]
  /\ sent' = [sent EXCEPT ![c] = {}]
  /\ spurned' = [spurned EXCEPT ![c] = {}]
  /\ UNCHANGED <<used, redis, faults>>

\* The attempt's event, its increment, and the request itself.
Send(c) ==
  /\ at[c] = "send"
  /\ Goto(c, "wait")
  /\ used' = Counted(LANES[lane[c]].budget)
  /\ sent' = [sent EXCEPT ![c] = @ \cup {<<lane[c], key[c]>>}]
  /\ UNCHANGED <<redis, lanes, position, calls, faults, spurned, uncapped>>

\* An event write raises, the one before the request or one about its answer, and no
\* except clause catches it.  (The event of a call that ignores the caps is written
\* before its first attempt, and is that of "send".)
EmitRaises(c) ==
  /\ at[c] \in {"send", "wait"}
  /\ faults < MaxFaults
  /\ faults' = faults + 1
  /\ Goto(c, "escaped")
  /\ UNCHANGED <<used, redis, lanes, position, calls, sent, spurned, uncapped>>

rest == <<used, redis, lanes, calls, faults, sent, uncapped>>

\* An answer that satisfies the schema.
Answered(c) ==
  /\ at[c] = "wait"
  /\ Goto(c, "answered")
  /\ UNCHANGED <<position, spurned, rest>>

\* 4xx: the key may be the culprit.
ClientError(c) ==
  /\ at[c] = "wait"
  /\ NextKey(c)
  /\ UNCHANGED <<spurned, rest>>

\* An empty body, one the schema refuses, or a redirect: another key gives the same.
Unusable(c) ==
  /\ at[c] = "wait"
  /\ spurned' = [spurned EXCEPT ![c] = @ \cup {lane[c]}]
  /\ NextLane(c)
  /\ UNCHANGED rest

\* Mutant: a server error is retried without counting the attempts.
RetryForEver(c) ==
  /\ at[c] = "wait"
  /\ Goto(c, "send")
  /\ UNCHANGED <<position, spurned, rest>>

\* 5xx or a transport error: the same key again, then the next one.
ServerError(c) ==
  /\ at[c] = "wait"
  /\ IF attempt[c] < ATTEMPTS_PER_LANE
     THEN Goto(c, "send") /\ Place(c, lane[c], key[c], attempt[c] + 1)
     ELSE NextKey(c)
  /\ UNCHANGED <<spurned, rest>>

-----------------------------------------------------------------------------
\* Redis goes away or comes back; at midnight the counters have new names.
RedisFlips ==
  /\ redis' = ~redis
  /\ UNCHANGED <<used, at, lanes, position, calls, faults, sent, spurned, uncapped>>

Midnight ==
  /\ used' = [b \in Budgets |-> 0]
  /\ uncapped' = FALSE
  /\ UNCHANGED <<redis, at, lanes, position, calls, faults, sent, spurned>>

Step(c) == \/ Send(c) \/ EmitRaises(c) \/ Answered(c) \/ ClientError(c)
           \/ Unusable(c) \/ ServerError(c)

Next == \/ \E c \in Callers : Start(c) \/ Step(c)
        \/ RedisFlips
        \/ Midnight

Spec == Init /\ [][Next]_vars /\ \A c \in Callers : WF_vars(Step(c))

-----------------------------------------------------------------------------
(* Properties. *)

Tried(c, l) == \A k \in Keys(l) : <<l, k>> \in sent[c]
Left(c) == {l \in lanes[c] : at[c] = "exhausted" \/ (at[c] \in {"send", "wait"} /\ l < lane[c])}

\* A provider is left only over an answer that no key would improve, or with
\* every key asked: one refused or failing key must not poison the others.
EveryKeyHasItsChance == \A c \in Callers : \A l \in Left(c) : l \in spurned[c] \/ Tried(c, l)

\* Without an outage of Redis, and until every lane is spent, a budget may be
\* exceeded only by the calls already under way when it was reached.
Attempts(b) == {s \in Slots : LANES[s[1]].budget = b} \X (1..ATTEMPTS_PER_LANE)
OvershootIsBounded ==
  ~uncapped => \A b \in {LANES[l].budget : l \in Configured} \cap DOMAIN Cap :
    used[b] < Cap[b] + Cardinality(Callers) * Cardinality(Attempts(b))

\* Whatever the providers and Redis do, a call ends.
CallsEnd == \A c \in Callers : at[c] \in {"send", "wait"} ~> at[c] \in Ended
=============================================================================
