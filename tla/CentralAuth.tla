------------------------------ MODULE CentralAuth ------------------------------
(***************************************************************************)
(* The session authority (central-auth): sign-in with Google, and the      *)
(* sessions it issues, slides, refreshes and revokes.  Every statement is  *)
(* a step of its own; only consumeState and the revocations decide and     *)
(* write in one statement.                                                 *)
(***************************************************************************)
EXTENDS Integers, FiniteSets

CONSTANTS
  OAuthStates,    \* rows of oauth_states that sign-ins create
  Callbacks,      \* requests to the Google callback
  Refreshers,     \* requests to refresh or to validate a cookie
  MaxSessions,    \* bound: rows of sessions
  OAuthStateTTL, AccessTTL, RefreshTTL, IdleTimeout, MaxAge, \* in ticks
  LastTick        \* bound: the clock

ASSUME CentralAssumption ==
  /\ MaxSessions \in Nat \ {0} /\ LastTick \in Nat \ {0}
  /\ "refresh" \notin OAuthStates
  /\ {OAuthStateTTL, AccessTTL, RefreshTTL, IdleTimeout, MaxAge} \subseteq Nat

VARIABLES
  tick,          \* the clock
  stateExpiry,   \* expires_at of each row of oauth_states, 0 for no row
  usersOf,       \* rows of users with the account's e-mail
  identity,      \* user_identities: the user linked to the Google account, 0 for none
  sessions,      \* rows of sessions, oldest first
  callback,      \* each callback: where it is, its state and what it read
  refresher      \* each refresh or validation: where it is and what it read

centralVars == <<tick, stateExpiry, usersOf, identity, sessions, callback, refresher>>

Users == 0 .. MaxSessions
SessionRow ==
  [user : Users, cookie : BOOLEAN, access : Nat, refresh : Nat, login : Nat, revoked : BOOLEAN,
   from : OAuthStates \cup {"refresh"}]

CallbackSteps == {"idle", "exchange", "identity", "email", "insert", "session"}
IdleCallback == [at |-> "idle", state |-> "none", user |-> 0]
IdleRefresher == [at |-> "idle", row |-> 0, access |-> 0]

CentralTypeOK ==
  /\ tick \in 1 .. LastTick
  /\ stateExpiry \in [OAuthStates -> Nat]
  /\ usersOf \subseteq Users /\ identity \in Users
  /\ DOMAIN sessions = 1 .. Cardinality(DOMAIN sessions)
  /\ \A i \in DOMAIN sessions : sessions[i] \in SessionRow
  /\ callback \in [Callbacks ->
       [at : CallbackSteps, state : OAuthStates \cup {"none"}, user : Users]]
  /\ refresher \in [Refreshers ->
       [at : {"idle", "slide", "revoke", "create"}, row : Nat, access : Nat]]

Earlier(a, b) == IF a < b THEN a ELSE b

(* ValidateAccess, ValidateCookie: the session still counts. *)
ValidSession(row) == ~row.revoked /\ row.access > tick

(* createSession. *)
CreateSession(user, cookie, from) ==
  LET row == [user |-> user, cookie |-> cookie, access |-> tick + AccessTTL,
              refresh |-> tick + RefreshTTL, login |-> tick, revoked |-> FALSE, from |-> from]
  IN sessions' = [i \in 1 .. Cardinality(DOMAIN sessions) + 1 |->
                    IF i \in DOMAIN sessions THEN sessions[i] ELSE row]

Room == Cardinality(DOMAIN sessions) < MaxSessions

GoCallback(c, step) == callback' = [callback EXCEPT ![c].at = step]
SignsIn(c, user) ==
  callback' = [callback EXCEPT ![c] = [at |-> "session", state |-> callback[c].state, user |-> user]]
-----------------------------------------------------------------------------
CentralInit ==
  /\ tick = 1
  /\ stateExpiry = [s \in OAuthStates |-> 0]
  /\ usersOf = {} /\ identity = 0
  /\ sessions = << >>
  /\ callback = [c \in Callbacks |-> IdleCallback]
  /\ refresher = [q \in Refreshers |-> IdleRefresher]

(* Start: a fresh state, so each starts once; bound: on the first tick. *)
StartGoogle(s) ==
  /\ stateExpiry[s] = 0 /\ tick = 1
  /\ \A c \in Callbacks : callback[c].state # s
  /\ \A i \in DOMAIN sessions : sessions[i].from # s
  /\ stateExpiry' = [stateExpiry EXCEPT ![s] = tick + OAuthStateTTL]
  /\ UNCHANGED <<tick, usersOf, identity, sessions, callback, refresher>>

(* Mutant: the state is looked up and left in place. *)
StateLeft(s) == stateExpiry

StateConsumed(s) == [stateExpiry EXCEPT ![s] = 0]

(* consumeState: a callback may be repeated by the browser. *)
ConsumeState(c, s) ==
  /\ callback[c].at = "idle"
  /\ stateExpiry[s] > tick
  /\ stateExpiry' = StateConsumed(s)
  /\ callback' = [callback EXCEPT ![c] = [at |-> "exchange", state |-> s, user |-> 0]]
  /\ UNCHANGED <<tick, usersOf, identity, sessions, refresher>>

(* The code is exchanged and the profile fetched. *)
ExchangeCode(c) ==
  /\ callback[c].at = "exchange"
  /\ GoCallback(c, "identity")
  /\ UNCHANGED <<tick, stateExpiry, usersOf, identity, sessions, refresher>>

(* Any step of a callback may fail: Google, an unverified e-mail, the      *)
(* database.  The state is gone, and the user starts again.                *)
CallbackFails(c) ==
  /\ callback[c].at # "idle"
  /\ callback' = [callback EXCEPT ![c] = IdleCallback]
  /\ UNCHANGED <<tick, stateExpiry, usersOf, identity, sessions, refresher>>

(* ensureGoogleUser, statement by statement. *)
SelectIdentity(c) ==
  /\ callback[c].at = "identity"
  /\ callback' = [callback EXCEPT ![c].user = identity,
                                  ![c].at = IF identity # 0 THEN "session" ELSE "email"]
  /\ UNCHANGED <<tick, stateExpiry, usersOf, identity, sessions, refresher>>

(* The identity of a user that is there: "on conflict do update" leaves    *)
(* its user as it is.                                                      *)
LinkIdentity(user) == identity' = IF identity = 0 THEN user ELSE identity

SelectEmail(c) ==
  /\ callback[c].at = "email"
  /\ IF usersOf = {}
     THEN GoCallback(c, "insert") /\ UNCHANGED identity
     ELSE \E u \in usersOf : LinkIdentity(u) /\ SignsIn(c, u)
  /\ UNCHANGED <<tick, stateExpiry, usersOf, sessions, refresher>>

EmailFree == usersOf = {}

(* The insert waits for a concurrent one and fails on the unique e-mail.   *)
InsertUser(c) ==
  LET u == Cardinality(usersOf) + 1 IN
  /\ callback[c].at = "insert"
  /\ IF EmailFree
     THEN /\ usersOf' = usersOf \cup {u}
          /\ LinkIdentity(u) /\ SignsIn(c, u)
     ELSE /\ callback' = [callback EXCEPT ![c] = IdleCallback]
          /\ UNCHANGED <<usersOf, identity>>
  /\ UNCHANGED <<tick, stateExpiry, sessions, refresher>>

(* A redirect to the web gets a cookie, one to an app gets tokens.         *)
IssueSession(c) ==
  /\ callback[c].at = "session" /\ Room
  /\ \E cookie \in BOOLEAN : CreateSession(callback[c].user, cookie, callback[c].state)
  /\ callback' = [callback EXCEPT ![c] = IdleCallback]
  /\ UNCHANGED <<tick, stateExpiry, usersOf, identity, refresher>>

(* ValidateCookie: the row is read, and slid by a later statement unless   *)
(* the new end is no later than the one read.                              *)
SelectCookie(q, i) ==
  /\ refresher[q].at = "idle"
  /\ sessions[i].cookie /\ ValidSession(sessions[i])
  /\ refresher' = [refresher EXCEPT ![q] = [at |-> "slide", row |-> i, access |-> sessions[i].access]]
  /\ UNCHANGED <<tick, stateExpiry, usersOf, identity, sessions, callback>>

SlideTo(row) == Earlier(tick + IdleTimeout, row.login + MaxAge)

(* Mutant: the whole row is written back, as it was when it was valid. *)
SlideWholeRow(row, end) == [row EXCEPT !.access = end, !.revoked = FALSE]

SlideRow(row, end) == [row EXCEPT !.access = end]

SlideSession(q) ==
  LET i == refresher[q].row
      end == SlideTo(sessions[i]) IN
  /\ refresher[q].at = "slide"
  /\ sessions' = IF end > refresher[q].access
                 THEN [sessions EXCEPT ![i] = SlideRow(@, end)] ELSE sessions
  /\ refresher' = [refresher EXCEPT ![q] = IdleRefresher]
  /\ UNCHANGED <<tick, stateExpiry, usersOf, identity, callback>>

(* Refresh: select, revoke, create.  A crash between the last two leaves   *)
(* the user without a session.                                             *)
SelectRefresh(q, i) ==
  /\ refresher[q].at = "idle"
  /\ ~sessions[i].revoked /\ sessions[i].refresh > tick
  /\ refresher' = [refresher EXCEPT ![q] = [at |-> "revoke", row |-> i, access |-> 0]]
  /\ UNCHANGED <<tick, stateExpiry, usersOf, identity, sessions, callback>>

RevokeRefreshed(q) ==
  /\ refresher[q].at = "revoke"
  /\ sessions' = [sessions EXCEPT ![refresher[q].row].revoked = TRUE]
  /\ refresher' = [refresher EXCEPT ![q].at = "create"]
  /\ UNCHANGED <<tick, stateExpiry, usersOf, identity, callback>>

CreateRefreshed(q) ==
  LET row == sessions[refresher[q].row] IN
  /\ refresher[q].at = "create" /\ Room
  /\ CreateSession(row.user, row.cookie, "refresh")
  /\ refresher' = [refresher EXCEPT ![q] = IdleRefresher]
  /\ UNCHANGED <<tick, stateExpiry, usersOf, identity, callback>>

RefresherFails(q) ==
  /\ refresher[q].at # "idle"
  /\ refresher' = [refresher EXCEPT ![q] = IdleRefresher]
  /\ UNCHANGED <<tick, stateExpiry, usersOf, identity, sessions, callback>>

(* RevokeAccess, RevokeCookie. *)
RevokeSession(i) ==
  /\ ~sessions[i].revoked
  /\ sessions' = [sessions EXCEPT ![i].revoked = TRUE]
  /\ UNCHANGED <<tick, stateExpiry, usersOf, identity, callback, refresher>>

Tick ==
  /\ tick < LastTick
  /\ tick' = tick + 1
  /\ UNCHANGED <<stateExpiry, usersOf, identity, sessions, callback, refresher>>

CentralNext ==
  \/ Tick
  \/ \E s \in OAuthStates : StartGoogle(s)
  \/ \E c \in Callbacks :
       \/ \E s \in OAuthStates : ConsumeState(c, s)
       \/ ExchangeCode(c) \/ CallbackFails(c) \/ SelectIdentity(c)
       \/ SelectEmail(c) \/ InsertUser(c) \/ IssueSession(c)
  \/ \E q \in Refreshers :
       \/ \E i \in DOMAIN sessions : SelectCookie(q, i) \/ SelectRefresh(q, i)
       \/ SlideSession(q) \/ RevokeRefreshed(q) \/ CreateRefreshed(q) \/ RefresherFails(q)
  \/ \E i \in DOMAIN sessions : RevokeSession(i)

CentralSpec == CentralInit /\ [][CentralNext]_centralVars
-----------------------------------------------------------------------------
(* A sign-in that was started once yields one session at most, also when   *)
(* the browser sends its callback twice.                                   *)
OneSessionPerState ==
  \A i, j \in DOMAIN sessions :
    sessions[i].from = sessions[j].from /\ sessions[i].from # "refresh" => i = j

(* A session that was signed out never comes back, whatever request had    *)
(* read its row before.                                                    *)
RevokedStaysRevoked ==
  [][\A i \in DOMAIN sessions : sessions[i].revoked => sessions'[i].revoked]_centralVars
=============================================================================
