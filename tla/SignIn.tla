-------------------------------- MODULE SignIn --------------------------------
(***************************************************************************)
(* Signing in and out with a browser: the hand-over of a session handle    *)
(* from the platform gateway over the callback and a pickup code           *)
(* (backend/internal/http/auth_handler.go) to the web app, whose tabs      *)
(* share one cookie jar.  The gateway is external: it gives each ticket's  *)
(* handle once.  A handle it rotates names the same session.               *)
(***************************************************************************)
EXTENDS Integers, FiniteSets

CONSTANTS
  Logins,      \* sign-ins: each has its nonce, ticket, handle and pickup code
  NoLogin,
  Tabs,        \* tabs of one browser
  PickupTTL,   \* pickupCodeTTL
  LastSecond   \* bound: the clock

ASSUME SignInAssumption == PickupTTL \in Nat /\ LastSecond \in Nat \ {0} /\ NoLogin \notin Logins

VARIABLES
  second,    \* the clock
  jar,       \* the browser's cookies: login nonce, session handle
  tab,       \* each tab: where it is, and with which sign-in
  tickets,   \* tickets the gateway has exchanged
  live,      \* handles the gateway accepts
  pickups,   \* pickupCodes: each code's expiry, 0 for no entry
  handed,    \* history: hand-overs of a handle for a code
  farewell   \* history: handles whose sign-out was confirmed to the user

signInVars == <<second, jar, tab, tickets, live, pickups, handed, farewell>>

TabSteps == {"home", "away", "exchange", "confirm", "launch", "pickup", "app", "logout"}
SomeLogin == Logins \cup {NoLogin}

SignInTypeOK ==
  /\ second \in 1 .. LastSecond
  /\ jar \in [nonce : SomeLogin, handle : SomeLogin]
  /\ tab \in [Tabs -> [at : TabSteps, login : SomeLogin]]
  /\ tickets \subseteq Logins /\ live \subseteq Logins /\ farewell \subseteq Logins
  /\ pickups \in [Logins -> Nat]
  /\ handed \subseteq [login : Logins, tab : Tabs, at : Nat, issued : Nat]

MoveTab(t, step) == tab' = [tab EXCEPT ![t].at = step]

(* Both handlers of codes first drop those that have expired. *)
Purged == [n \in Logins |-> IF pickups[n] < second THEN 0 ELSE pickups[n]]
-----------------------------------------------------------------------------
SignInInit ==
  /\ second = 1
  /\ jar = [nonce |-> NoLogin, handle |-> NoLogin]
  /\ tab = [t \in Tabs |-> [at |-> "home", login |-> NoLogin]]
  /\ tickets = {} /\ live = {} /\ farewell = {}
  /\ pickups = [n \in Logins |-> 0]
  /\ handed = {}

(* handleSignIn and login: a new nonce, of which the jar holds one.        *)
Login(t, n) ==
  /\ tab[t].at = "home"
  /\ n # jar.nonce /\ n \notin tickets /\ \A u \in Tabs : tab[u].login # n
  /\ tab' = [tab EXCEPT ![t] = [at |-> "away", login |-> n]]
  /\ jar' = [jar EXCEPT !.nonce = n]
  /\ UNCHANGED <<second, tickets, live, pickups, handed, farewell>>

(* The gateway sends the tab to the callback, which compares the nonce.    *)
Callback(t) ==
  /\ tab[t].at = "away"
  /\ MoveTab(t, IF jar.nonce = tab[t].login THEN "exchange" ELSE "home")
  /\ UNCHANGED <<second, jar, tickets, live, pickups, handed, farewell>>

(* ExchangeTicket; a call that fails may have used the ticket up.          *)
ExchangeTicket(t) ==
  LET n == tab[t].login IN
  /\ tab[t].at = "exchange" /\ n \notin tickets
  /\ tickets' = tickets \cup {n}
  /\ live' = live \cup {n}
  /\ MoveTab(t, "confirm")
  /\ UNCHANGED <<second, jar, pickups, handed, farewell>>

(* The ticket, the confirmation or EnsurePlatformUser failed: the answer   *)
(* clears the nonce and leads to the root.                                 *)
CallbackRefused(t) ==
  /\ tab[t].at \in {"exchange", "confirm"}
  /\ jar' = [jar EXCEPT !.nonce = NoLogin]
  /\ MoveTab(t, "home")
  /\ UNCHANGED <<second, tickets, live, pickups, handed, farewell>>

(* storePickupCode and the redirect with its cookies. *)
CallbackDone(t) ==
  LET n == tab[t].login IN
  /\ tab[t].at = "confirm"
  /\ pickups' = [Purged EXCEPT ![n] = second + PickupTTL]
  /\ jar' = [nonce |-> NoLogin, handle |-> n]
  /\ MoveTab(t, "launch")
  /\ UNCHANGED <<second, tickets, live, handed, farewell>>

(* The user goes back, or opens the same address in another tab.           *)
Revisit(t, u) ==
  /\ tab[t].at \in {"away", "exchange", "confirm", "launch"} /\ tab[u].at \in {"home", "app"}
  /\ \E step \in {"away", "launch"} :
       /\ step = "launch" => tab[t].at = "launch"
       /\ tab' = [tab EXCEPT ![u] = [at |-> step, login |-> tab[t].login]]
  /\ UNCHANGED <<second, jar, tickets, live, pickups, handed, farewell>>

(* parseSessionFromLaunchUrl: the code leaves the address, then is sent.   *)
Launch(t) ==
  /\ tab[t].at = "launch"
  /\ MoveTab(t, "pickup")
  /\ UNCHANGED <<second, jar, tickets, live, pickups, handed, farewell>>

(* Mutant: the entry stays until it expires. *)
CodeKept(codes, n) == codes

CodeDeleted(codes, n) == [codes EXCEPT ![n] = 0]

(* session, consumePickupCode; the answer may get lost on its way.         *)
PickUp(t) ==
  LET n == tab[t].login IN
  /\ tab[t].at = "pickup"
  /\ IF Purged[n] = 0
     THEN /\ pickups' = Purged
          /\ UNCHANGED <<jar, handed>>
     ELSE /\ pickups' = CodeDeleted(Purged, n)
          /\ handed' = handed \cup
               {[login |-> n, tab |-> t, at |-> second, issued |-> pickups[n] - PickupTTL]}
          /\ jar' \in {jar, [jar EXCEPT !.handle = n]}
  /\ MoveTab(t, "app")
  /\ UNCHANGED <<second, tickets, live, farewell>>

(* checkAuth with the cookie: 401 without a live handle, also while the    *)
(* gateway is out of reach.                                                *)
CheckFails(t) ==
  /\ tab[t].at = "app"
  /\ MoveTab(t, "home")
  /\ UNCHANGED <<second, jar, tickets, live, pickups, handed, farewell>>

StartLogout(t) ==
  /\ tab[t].at = "app" /\ jar.handle # NoLogin
  /\ tab' = [tab EXCEPT ![t] = [at |-> "logout", login |-> jar.handle]]
  /\ UNCHANGED <<second, jar, tickets, live, pickups, handed, farewell>>

(* Mutant: every 200 of the gateway counts as a revocation. *)
AnyStatus(status) == TRUE

Confirms(status) == status = "revoked"

(* LogoutSessionHandle answered 200: confirmed, or 502.                    *)
LogoutAnswered(t) ==
  LET n == tab[t].login IN
  /\ tab[t].at = "logout" /\ n \in live
  /\ \E status \in {"revoked", "other"} :
       /\ live' = IF status = "revoked" THEN live \ {n} ELSE live
       /\ IF Confirms(status)
          THEN /\ farewell' = farewell \cup {n}
               /\ jar' = [jar EXCEPT !.handle = NoLogin]
               /\ MoveTab(t, "home")
          ELSE /\ MoveTab(t, "app")
               /\ UNCHANGED <<jar, farewell>>
  /\ UNCHANGED <<second, tickets, pickups, handed>>

(* The gateway knows no such session: the cookie is cleared with a 401.    *)
LogoutUnknown(t) ==
  /\ tab[t].at = "logout" /\ tab[t].login \notin live
  /\ jar' = [jar EXCEPT !.handle = NoLogin]
  /\ MoveTab(t, "home")
  /\ UNCHANGED <<second, tickets, live, pickups, handed, farewell>>

(* 502, 503 or silence; the session may be gone all the same. *)
LogoutFails(t) ==
  /\ tab[t].at = "logout"
  /\ live' \in {live, live \ {tab[t].login}}
  /\ MoveTab(t, "app")
  /\ UNCHANGED <<second, jar, tickets, pickups, handed, farewell>>

NextSecond ==
  /\ second < LastSecond
  /\ second' = second + 1
  /\ UNCHANGED <<jar, tab, tickets, live, pickups, handed, farewell>>

SignInNext ==
  \/ NextSecond
  \/ \E t \in Tabs :
       \/ \E n \in Logins : Login(t, n)
       \/ \E u \in Tabs : Revisit(t, u)
       \/ Callback(t) \/ ExchangeTicket(t) \/ CallbackRefused(t) \/ CallbackDone(t)
       \/ Launch(t) \/ PickUp(t) \/ CheckFails(t)
       \/ StartLogout(t) \/ LogoutAnswered(t) \/ LogoutUnknown(t) \/ LogoutFails(t)

SignInSpec == SignInInit /\ [][SignInNext]_signInVars
-----------------------------------------------------------------------------
(* A pickup code hands its handle over once, and within its time to live,  *)
(* however many tabs the redirect was opened in.                           *)
PickedUpOnceInTime ==
  /\ \A a, b \in handed : a.login = b.login => a = b
  /\ \A a \in handed : a.at <= a.issued + PickupTTL

(* Who was told to be signed out is: the gateway no longer takes the       *)
(* handle, and no late answer makes it usable again.                       *)
SignedOutMeansEnded == farewell \cap live = {}
=============================================================================
