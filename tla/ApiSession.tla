------------------------------ MODULE ApiSession ------------------------------
(***************************************************************************)
(* The session of the native app: the keys it stores (frontend/src/api/    *)
(* sessionStorage.ts), the requests of packages/api/src/client.ts that     *)
(* carry the token, what a 401 sets off, and what App.tsx shows.  Awaits   *)
(* are steps; a request keeps the token it was built with.                 *)
(***************************************************************************)
EXTENDS Integers, FiniteSets

CONSTANTS
  Sealed,      \* session handles the user gets by signing in
  NoToken,
  Calls,       \* requests that can be under way together
  MaxOutages   \* bound: answers lost, or given without the gateway

ASSUME ApiSessionAssumption == MaxOutages \in Nat /\ NoToken \notin Sealed

VARIABLES
  accepted,   \* handles the gateway accepts
  issued,     \* handles given out
  store,      \* the stored token and refresh token
  launch,     \* a session being stored, its second key to follow
  screen,     \* authState
  call,       \* each request: kind, step, token sent
  refresh,    \* refreshPromise: its step
  posts,      \* refresh requests on the network
  overtaken,  \* history: sessions half stored when the keys were cleared
  outages

sessionVars ==
  <<accepted, issued, store, launch, screen, call, refresh, posts, overtaken, outages>>

Tokens == Sealed \cup {NoToken}
CallKinds == {"me", "api", "logout"}
CallSteps == {"idle", "sent", "refused", "waiting", "rejected"}
IdleCall == [kind |-> "api", at |-> "idle", token |-> NoToken]

SessionTypeOK ==
  /\ accepted \subseteq issued /\ issued \subseteq Sealed
  /\ store \in [token : Tokens, refresh : Tokens]
  /\ launch \in Tokens /\ overtaken \subseteq Sealed
  /\ screen \in {"loading", "in", "out"}
  /\ call \in [Calls -> [kind : CallKinds, at : CallSteps, token : Tokens]]
  /\ refresh \in {"none", "reading", "posted"}
  /\ posts \in Nat /\ outages \in 0 .. MaxOutages

Empty == [token |-> NoToken, refresh |-> NoToken]
Step(c, step) == [call EXCEPT ![c].at = step]

(* Mutant: the token's key goes and the refresh token's stays. *)
TokenRemoved == [store EXCEPT !.token = NoToken]

Cleared == Empty

(* clearSession.  A setSession under way goes on with its next key.         *)
ClearSession ==
  /\ store' = Cleared
  /\ overtaken' = overtaken \cup ({launch} \ {NoToken})
-----------------------------------------------------------------------------
SessionInit ==
  /\ accepted = {} /\ issued = {}
  /\ store = Empty /\ launch = NoToken /\ overtaken = {}
  /\ screen = "loading"
  /\ call = [c \in Calls |-> IdleCall]
  /\ refresh = "none" /\ posts = 0 /\ outages = 0

(* checkAuth before its request: no token, no session. *)
Launched(c) ==
  IF store.token = NoToken
  THEN screen' = "out" /\ UNCHANGED call
  ELSE /\ call' = [call EXCEPT ![c] = [kind |-> "me", at |-> "sent", token |-> store.token]]
       /\ UNCHANGED screen

Restart(c) ==
  /\ screen = "loading" /\ launch = NoToken
  /\ call[c].at = "idle" /\ \A d \in Calls : call[d].kind # "me"
  /\ Launched(c)
  /\ UNCHANGED <<accepted, issued, store, launch, refresh, posts, overtaken, outages>>

(* An address with a session opens the app: setSession, key by key. *)
OpenURL(h) ==
  /\ h \notin issued /\ launch = NoToken
  /\ issued' = issued \cup {h} /\ accepted' = accepted \cup {h}
  /\ store' = [store EXCEPT !.token = h]
  /\ launch' = h
  /\ UNCHANGED <<screen, call, refresh, posts, overtaken, outages>>

SessionStored(c) ==
  /\ launch # NoToken /\ call[c].at = "idle"
  /\ IF store.token = NoToken
     THEN screen' = "out" /\ UNCHANGED call
     ELSE /\ call' = [call EXCEPT ![c] = [kind |-> "me", at |-> "sent", token |-> store.token]]
          /\ UNCHANGED screen
  /\ store' = [store EXCEPT !.refresh = launch]
  /\ launch' = NoToken
  /\ UNCHANGED <<accepted, issued, refresh, posts, overtaken, outages>>

SendCall(c, kind) ==
  /\ screen = "in" /\ call[c].at = "idle"
  /\ kind = "logout" => \A d \in Calls : call[d].at = "idle" \/ call[d].kind # "logout"
  /\ call' = [call EXCEPT ![c] = [kind |-> kind, at |-> "sent", token |-> store.token]]
  /\ UNCHANGED <<accepted, issued, store, launch, screen, refresh, posts, overtaken, outages>>

(* The gateway's session ends. *)
HandleEnds(h) ==
  /\ h \in accepted
  /\ accepted' = accepted \ {h}
  /\ UNCHANGED <<issued, store, launch, screen, call, refresh, posts, overtaken, outages>>

(* A 200 to anything but a sign-out. *)
Answered(c) ==
  /\ call[c].at = "sent" /\ call[c].kind # "logout"
  /\ call[c].token \in accepted
  /\ screen' = IF call[c].kind = "me" THEN "in" ELSE screen
  /\ call' = [call EXCEPT ![c] = IdleCall]
  /\ UNCHANGED <<accepted, issued, store, launch, refresh, posts, overtaken, outages>>

(* notifyUnauthorized and the listeners.  Storage is faster than the net:  *)
(* no answer comes between the last key's deletion and the screen's change. *)
Unauthorized == ClearSession /\ screen' = "out"

(* A 401, which also stands for a gateway out of reach. *)
Refused(c) ==
  /\ call[c].at = "sent"
  /\ \/ call[c].token \notin accepted /\ UNCHANGED outages
     \/ call[c].token \in accepted /\ outages < MaxOutages /\ outages' = outages + 1
  /\ IF call[c].kind = "logout"
     THEN /\ call' = Step(c, "rejected")
          /\ Unauthorized
     ELSE /\ call' = Step(c, "refused")
          /\ UNCHANGED <<store, screen, overtaken>>
  /\ UNCHANGED <<accepted, issued, launch, refresh, posts>>

(* Mutant: every 401 posts a refresh of its own. *)
RefreshAgain == "reading"

RefreshShared == IF refresh = "none" THEN "reading" ELSE refresh

(* attemptRefresh. *)
AttemptRefresh(c) ==
  /\ call[c].at = "refused"
  /\ call' = Step(c, "waiting")
  /\ refresh' = RefreshShared
  /\ UNCHANGED <<accepted, issued, store, launch, screen, posts, overtaken, outages>>

Released == {c \in Calls : call[c].at = "waiting"}

(* The promise resolves to null, and all who wait give up: the keys go,    *)
(* each caller has its error, checkAuth's caller clears once more.         *)
RefreshEnds ==
  /\ refresh' = "none"
  /\ call' = [c \in Calls |->
       CASE c \in Released /\ call[c].kind = "me" -> [call[c] EXCEPT !.at = "rejected"]
         [] c \in Released -> IdleCall
         [] OTHER -> call[c]]
  /\ Unauthorized

(* getRefreshToken: none, or the request goes out. *)
PostRefresh ==
  /\ refresh = "reading"
  /\ IF store.refresh = NoToken
     THEN RefreshEnds /\ UNCHANGED posts
     ELSE /\ refresh' = "posted" /\ posts' = posts + 1
          /\ UNCHANGED <<call, store, screen, overtaken>>
  /\ UNCHANGED <<accepted, issued, launch, outages>>

(* The server answers 410 to every refresh; a lost answer ends alike.      *)
RefreshGone ==
  /\ posts > 0
  /\ posts' = posts - 1
  /\ IF refresh = "posted" THEN RefreshEnds ELSE UNCHANGED <<refresh, call, store, screen, overtaken>>
  /\ UNCHANGED <<accepted, issued, launch, outages>>

(* All base URLs failed or timed out.  checkAuth fails closed; a sign-out  *)
(* drops the keys and reports that it could not sign out.                  *)
NetworkFails(c) ==
  /\ call[c].at = "sent" /\ outages < MaxOutages
  /\ outages' = outages + 1
  /\ IF call[c].kind = "api" THEN UNCHANGED <<store, overtaken>> ELSE ClearSession
  /\ screen' = IF call[c].kind = "me" THEN "out" ELSE screen
  /\ call' = [call EXCEPT ![c] = IdleCall]
  /\ UNCHANGED <<accepted, issued, launch, refresh, posts>>

(* checkAuth's and handleLogout's catch of a 401. *)
Rejected(c) ==
  /\ call[c].at = "rejected"
  /\ ClearSession /\ screen' = "out"
  /\ call' = [call EXCEPT ![c] = IdleCall]
  /\ UNCHANGED <<accepted, issued, launch, refresh, posts, outages>>

(* logout: {"status":"revoked"}. *)
LogoutDone(c) ==
  /\ call[c].at = "sent" /\ call[c].kind = "logout" /\ call[c].token \in accepted
  /\ accepted' = accepted \ {call[c].token}
  /\ ClearSession /\ screen' = "out"
  /\ call' = [call EXCEPT ![c] = IdleCall]
  /\ UNCHANGED <<issued, launch, refresh, posts, outages>>

(* 502, 503: nothing is dropped, the user may try again. *)
LogoutUnconfirmed(c) ==
  /\ call[c].at = "sent" /\ call[c].kind = "logout" /\ outages < MaxOutages
  /\ outages' = outages + 1
  /\ accepted' \in {accepted, accepted \ {call[c].token}}
  /\ call' = [call EXCEPT ![c] = IdleCall]
  /\ UNCHANGED <<issued, store, launch, screen, refresh, posts, overtaken>>

SessionNext ==
  \/ \E h \in Sealed : OpenURL(h) \/ HandleEnds(h)
  \/ \E c \in Calls :
       \/ Restart(c) \/ SessionStored(c) \/ Answered(c) \/ Refused(c) \/ AttemptRefresh(c)
       \/ NetworkFails(c) \/ Rejected(c) \/ LogoutDone(c) \/ LogoutUnconfirmed(c)
       \/ \E kind \in {"api", "logout"} : SendCall(c, kind)
  \/ PostRefresh \/ RefreshGone

SessionSpec == SessionInit /\ [][SessionNext]_sessionVars
-----------------------------------------------------------------------------
(* Requests refused together share one refresh, and none of them waits     *)
(* when it is over.                                                        *)
RefreshIsShared ==
  /\ posts <= 1
  /\ (\E c \in Calls : call[c].at = "waiting") => refresh # "none"

(* When the app has come to rest on the sign-in screen, the token's key is *)
(* empty, whichever answers, refusals and failures led there, and the      *)
(* refresh token's key holds nothing but a session that was half stored    *)
(* when the keys were cleared: setSession (sessionStorage.ts:56-60) goes   *)
(* on with the refresh token, and checkAuth, which finds no token, ends    *)
(* without clearing again.  The gateway may still accept that session.     *)
AtRest == launch = NoToken /\ \A c \in Calls : call[c].at = "idle"

SignedOutForgets ==
  screen = "out" /\ AtRest =>
    store.token = NoToken /\ store.refresh \in overtaken \cup {NoToken}
=============================================================================
