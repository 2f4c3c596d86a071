---------------------------- MODULE RefreshTokens ----------------------------
(***************************************************************************)
(* Accounts and refresh tokens.  A sign-up or a login issues a token;      *)
(* POST /auth/refresh exchanges a token for the next one of its family;    *)
(* POST /auth/logout revokes it.  A row is never deleted, so that a token  *)
(* which comes back after it was revoked is seen, and then every token of  *)
(* the user is revoked.                                                    *)
(*                                                                         *)
(* Each handler makes several calls to the database, each a transaction of *)
(* its own that may raise before or after it took effect; two tabs of one  *)
(* client, or a retry of a request whose answer was lost, run against each *)
(* other.  A request issues at most one token, a random string, so the     *)
(* token is named by the request that issues it.                           *)
(***************************************************************************)
EXTENDS FiniteSets

CONSTANTS
  Requests, \* requests, and the tokens they issue
  Users,    \* users, by the email address in lower case
  None

ASSUME NoneAssumption == None \notin Requests \cup Users

VARIABLES
  account,  \* table users: who has a row
  token,    \* table refresh_tokens: the row of each token
  expired,  \* the tokens whose expires_at has passed
  held,     \* the tokens that reached a client
  pc,       \* request: where its handler is
  who,      \* request: the user it acts for
  shown,    \* request: the token it presents
  late,     \* requests whose token was revoked when they presented it
  wiped     \* requests that have revoked all the tokens of their user

rtVars == <<account, token, expired, held, pc, who, shown, late, wiped>>
tables == <<account, token>>
ghosts == <<late, wiped>>

Points == {"idle", "creating", "reading", "reuse", "rotating", "leaving",
           "storing", "answering", "refused", "raised", "done"}

RTTypeOK ==
  /\ account \subseteq Users
  /\ token \in [Requests -> {"none", "live", "revoked"}]
  /\ expired \subseteq {q \in Requests : token[q] # "none"}
  /\ held \subseteq {q \in Requests : token[q] # "none"}
  /\ pc \in [Requests -> Points]
  /\ who \in [Requests -> Users \cup {None}]
  /\ shown \in [Requests -> Requests \cup {None}]
  /\ late \subseteq Requests /\ wiped \subseteq Requests
  /\ \A q \in Requests : token[q] # "none" => who[q] \in account

RTInit ==
  /\ account = {}
  /\ token = [q \in Requests |-> "none"]
  /\ expired = {} /\ held = {}
  /\ pc = [q \in Requests |-> "idle"]
  /\ who = [q \in Requests |-> None]
  /\ shown = [q \in Requests |-> None]
  /\ late = {} /\ wiped = {}

Proceed(q, p) == pc' = [pc EXCEPT ![q] = p]
ActFor(q, u) == who' = [who EXCEPT ![q] = u]

\* A call that writes takes effect and returns, takes effect and raises, or
\* raises without effect.
Writes(q, effect, next, same) ==
  \/ effect /\ (Proceed(q, next) \/ Proceed(q, "raised"))
  \/ same /\ Proceed(q, "raised")

-----------------------------------------------------------------------------
(* Sign-up and login. *)

\* POST /auth/signup looks for the address before it hashes the password.
Signup(q) ==
  /\ pc[q] = "idle"
  /\ \E u \in Users : ActFor(q, u) /\ Proceed(q, IF u \in account THEN "refused" ELSE "creating")
  /\ UNCHANGED <<tables, expired, held, shown, ghosts>>

\* Mutant: every error of the insert is taken for the lost race, and passed over.
CreateOrGoOn(q) ==
  /\ pc[q] = "creating"
  /\ \/ account' = account \cup {who[q]}
     \/ UNCHANGED account
  /\ Proceed(q, "storing")
  /\ UNCHANGED <<token, expired, held, who, shown, ghosts>>

\* create_user: the unique index on the address decides between two sign-ups.
Create(q) ==
  /\ pc[q] = "creating"
  /\ IF who[q] \in account
     THEN Proceed(q, "refused") /\ UNCHANGED account
     ELSE Writes(q, account' = account \cup {who[q]}, "storing", UNCHANGED account)
  /\ UNCHANGED <<token, expired, held, who, shown, ghosts>>

\* POST /auth/login, the password being right.
Login(q) ==
  /\ pc[q] = "idle"
  /\ \E u \in account : ActFor(q, u) /\ Proceed(q, "storing")
  /\ UNCHANGED <<tables, expired, held, shown, ghosts>>

-----------------------------------------------------------------------------
(* A token is presented. *)

\* None is a string that the table does not know.
Present(q, p) ==
  /\ pc[q] = "idle"
  /\ \E t \in held \cup {None} :
       /\ shown' = [shown EXCEPT ![q] = t]
       /\ ActFor(q, IF t = None THEN None ELSE who[t])
       /\ late' = IF t # None /\ token[t] = "revoked" THEN late \cup {q} ELSE late
  /\ Proceed(q, p)
  /\ UNCHANGED <<tables, expired, held, wiped>>

\* Mutant: whether the token is revoked is not looked at.
ReadAnyToken(q) ==
  /\ pc[q] = "reading"
  /\ \/ LET t == shown[q] IN Proceed(q, IF t = None \/ t \in expired THEN "refused" ELSE "rotating")
     \/ Proceed(q, "raised")
  /\ UNCHANGED <<tables, expired, held, who, shown, ghosts>>

\* POST /auth/refresh reads the row, and then the user, who is never deleted.
ReadToken(q) ==
  /\ pc[q] = "reading"
  /\ \/ LET t == shown[q] IN
          Proceed(q, IF t = None THEN "refused"
                  ELSE IF token[t] = "revoked" THEN "reuse"
                  ELSE IF t \in expired THEN "refused" ELSE "rotating")
     \/ Proceed(q, "raised")
  /\ UNCHANGED <<tables, expired, held, who, shown, ghosts>>

\* Mutant: the update forgets whose tokens it is to revoke.
OfAnyone(q) == {t \in Requests : token[t] = "live"}

OfTheUser(q) == {t \in Requests : token[t] = "live" /\ who[t] = who[q]}

\* revoke_all_for_user; the answer is 401 in any case.
RevokeAll(q) ==
  /\ pc[q] = "reuse"
  /\ Writes(q,
            /\ token' = [t \in Requests |-> IF t \in OfTheUser(q) THEN "revoked" ELSE token[t]]
            /\ wiped' = wiped \cup {q},
            "refused", UNCHANGED <<token, wiped>>)
  /\ UNCHANGED <<account, expired, held, who, shown, late>>

\* Mutant: the token stays good until the next one is stored and delivered.
RotateLater(q) ==
  /\ pc[q] = "rotating"
  /\ Proceed(q, "storing")
  /\ UNCHANGED <<tables, expired, held, who, shown, ghosts>>

RevokeShown(q) == token' = [token EXCEPT ![shown[q]] = "revoked"]

\* revoke, an update without a condition on the flag.
Rotate(q) ==
  /\ pc[q] = "rotating"
  /\ Writes(q, RevokeShown(q), "storing", UNCHANGED token)
  /\ UNCHANGED <<account, expired, held, who, shown, ghosts>>

\* POST /auth/logout revokes whatever it is shown, a second time too.
Leave(q) ==
  /\ pc[q] = "leaving"
  /\ Writes(q, IF shown[q] = None THEN UNCHANGED token ELSE RevokeShown(q),
            "done", UNCHANGED token)
  /\ UNCHANGED <<account, expired, held, who, shown, ghosts>>

-----------------------------------------------------------------------------
(* A token is issued. *)

\* _issue_tokens: the row is written first.
Store(q) ==
  /\ pc[q] = "storing"
  /\ Writes(q, token' = [token EXCEPT ![q] = "live"], "answering", UNCHANGED token)
  /\ UNCHANGED <<account, expired, held, who, shown, ghosts>>

\* The answer may be lost, and the token with it.
Answer(q) ==
  /\ pc[q] = "answering"
  /\ Proceed(q, "done")
  /\ \/ held' = held \cup {q}
     \/ UNCHANGED held
  /\ UNCHANGED <<tables, expired, who, shown, ghosts>>

Expire(t) ==
  /\ token[t] # "none" /\ t \notin expired
  /\ expired' = expired \cup {t}
  /\ UNCHANGED <<tables, held, pc, who, shown, ghosts>>

Handle(q) == \/ Signup(q) \/ Create(q) \/ Login(q)
             \/ Present(q, "reading") \/ ReadToken(q) \/ RevokeAll(q) \/ Rotate(q)
             \/ Present(q, "leaving") \/ Leave(q)
             \/ Store(q) \/ Answer(q)

RTNext == \E q \in Requests : Handle(q) \/ Expire(q)

RTSpec == RTInit /\ [][RTNext]_rtVars

-----------------------------------------------------------------------------
(* Properties. *)

\* While a token is good, the one it was exchanged for is revoked, in whatever order
\* the calls of several requests take effect and whichever of them raise.  (It is not
\* so that a family has one good token: two refreshes of one token which both read it
\* before either revokes it are both given a successor, and both successors are good.)
ParentsAreRevoked ==
  \A q \in Requests : token[q] = "live" /\ shown[q] # None => token[shown[q]] = "revoked"

\* A refresh is answered with "reuse detected" only after a second request presented the same
\* token (another tab, a retry after a lost answer, a logout), or after another
\* request of the same user was so answered: never on account of another user, of a login,
\* or of requests that ran next to its own.
AlarmsHaveACause ==
  \A q \in Requests : pc[q] = "reuse" =>
    \E p \in Requests \ {q} :
      who[p] = who[q] /\ (shown[p] = shown[q] \/ p \in wiped)

\* Once a token is revoked, by a rotation, a logout or an alarm, a request that
\* presents it gets no successor.  So two successors of one token come from
\* requests that were both under way before it was revoked, and a session
\* outlives a logout only in a refresh that was.
RevokedMeansOver == \A q \in late : token[q] = "none"
-----------------------------------------------------------------------------
(* The inductive invariant behind the three. *)

\* A request that has not stored its token has none, and what it does it may do.
RequestsInv ==
  \A q \in Requests :
    /\ pc[q] \in {"idle", "creating", "reading", "reuse", "rotating", "leaving", "storing"} =>
         token[q] = "none"
    /\ pc[q] = "answering" => token[q] # "none"
    /\ pc[q] = "creating" => who[q] \in Users
    /\ pc[q] \in {"idle", "creating"} => shown[q] = None
    /\ pc[q] \in {"reuse", "rotating"} => shown[q] # None
    /\ pc[q] = "storing" => who[q] \in account

\* What a request presented is a token of its user, gone before another is stored.
ShownInv ==
  \A q \in Requests : shown[q] # None =>
    /\ token[shown[q]] # "none" /\ who[shown[q]] = who[q]
    /\ pc[q] \in {"reuse", "storing"} \/ token[q] = "live" => token[shown[q]] = "revoked"

Past == {"storing", "answering", "refused", "raised", "done"}

\* Who revoked a token was shown it, or wiped the tokens of its user, and is past that.
CausesInv ==
  \A t \in Requests : token[t] = "revoked" =>
    \E p \in Requests : /\ pc[p] \in Past /\ who[p] = who[t]
                        /\ shown[p] = t \/ p \in wiped

\* A request that came too late is on none of the ways that lead to a token.
LateInv ==
  \A q \in late :
    /\ shown[q] # None /\ token[shown[q]] = "revoked" /\ token[q] = "none"
    /\ pc[q] \in {"reading", "reuse", "leaving", "refused", "raised", "done"}

SessionsInv == RTTypeOK /\ RequestsInv /\ ShownInv /\ CausesInv /\ LateInv
=============================================================================
