---------------------------- MODULE AccountProofs -----------------------------
(* Sign-in, the sessions behind it and the tokens, on the server and in     *)
(* the client, for any number of requests, tabs, keys and sessions; the     *)
(* account signed in to, with its learning pairs on both sides, its review  *)
(* settings and the weights fitted to its reviews.                          *)
EXTENDS Verifier, SignIn, ApiSession, CentralAuth, Accounts, Languages, Settings, Optimiser,
        DataLemmas, TLAPS

-------------------------------------------------------------------------------
(* The token verifier: no fetch of keys, however late, makes the API       *)
(* refuse a good token.                                                    *)

(* What a request fetched holds every key that was published all the time.  *)
(* The shared set promises nothing of the kind: an older answer may have    *)
(* replaced a newer one, which is why the decision must not go back to it.  *)
SteadyPublished == \A r \in TokenChecks : check[r].steady \subseteq published

SteadyFetched ==
  \A r \in TokenChecks :
    check[r].at \in {"answered", "decide"} => check[r].steady \subseteq check[r].fetched

VerifierInv == VerifierTypeOK /\ SteadyPublished /\ SteadyFetched /\ KnownKeyAccepted

LEMMA VerifierInvInit == VerifierInit => VerifierInv
  BY VerifierAssumption DEF VerifierInit, VerifierInv, VerifierTypeOK, SteadyPublished, SteadyFetched,
         KnownKeyAccepted, IdleCheck, CheckSteps

(* The issuer changes what it publishes: "steady" shrinks with it, and a    *)
(* request that already has its answer keeps it.                            *)
LEMMA RotateKeepsInv == VerifierInv /\ Rotate => VerifierInv'
<1> SUFFICES ASSUME VerifierInv, Rotate PROVE VerifierInv'
  OBVIOUS
<1> USE DEF VerifierInv, VerifierTypeOK
<1>1. /\ published' \subseteq SigningKeys /\ published' # {}
      /\ rotations' \in 0 .. MaxRotations
      /\ cachedKeys' = cachedKeys
  BY VerifierAssumption DEF Rotate
<1>2. \A r \in TokenChecks :
        /\ check'[r].at = check[r].at /\ check'[r].kid = check[r].kid
        /\ check'[r].fetched = check[r].fetched
        /\ check'[r].steady = check[r].steady \cap published'
  BY DEF Rotate
<1>3. VerifierTypeOK'
  BY <1>1 DEF Rotate
<1>4. SteadyPublished' /\ SteadyFetched' /\ KnownKeyAccepted'
  BY <1>2 DEF SteadyPublished, SteadyFetched, KnownKeyAccepted
<1> QED BY <1>3, <1>4

(* One request's steps leave the others, and what is published, alone.      *)
LEMMA CheckKeepsInv ==
  ASSUME VerifierInv, NEW r \in TokenChecks,
         \/ \E k \in SigningKeys : Verify(r, k)
         \/ KeysServed(r) \/ FetchFails(r) \/ FetchJWKS(r) \/ Decide(r)
  PROVE  VerifierInv'
<1> USE DEF VerifierInv, VerifierTypeOK, CheckSteps
<1>1. CASE \E k \in SigningKeys : Verify(r, k)
  <2>1. PICK k \in SigningKeys : Verify(r, k)
    BY <1>1
  <2>2. PICK step \in {"accepted", "fetch"} :
          check' = [check EXCEPT ![r] =
                      [at |-> step, kid |-> {k}, fetched |-> {}, steady |-> published]]
    BY <2>1 DEF Verify
  <2>3. UNCHANGED <<published, rotations, cachedKeys>>
    BY <2>1 DEF Verify
  <2>4. VerifierTypeOK'
    BY <2>2, <2>3
  <2> QED BY <2>2, <2>3, <2>4 DEF SteadyPublished, SteadyFetched, KnownKeyAccepted
<1>2. CASE KeysServed(r)
  <2>1. VerifierTypeOK'
    BY <1>2 DEF KeysServed
  <2> QED BY <1>2, <2>1 DEF KeysServed, SteadyPublished, SteadyFetched, KnownKeyAccepted
<1>3. CASE FetchFails(r)
  <2>1. VerifierTypeOK'
    BY <1>3 DEF FetchFails, IdleCheck
  <2> QED BY <1>3, <2>1 DEF FetchFails, IdleCheck, SteadyPublished, SteadyFetched, KnownKeyAccepted
<1>4. CASE FetchJWKS(r)
  <2>1. VerifierTypeOK'
    BY <1>4 DEF FetchJWKS
  <2> QED BY <1>4, <2>1 DEF FetchJWKS, SteadyPublished, SteadyFetched, KnownKeyAccepted
<1>5. CASE Decide(r)
  <2>1. VerifierTypeOK'
    BY <1>5 DEF Decide
  <2>2. check[r].kid \subseteq check[r].steady => check[r].kid \subseteq TrustedSet(check[r].fetched)
    BY <1>5 DEF Decide, SteadyFetched, TrustedSet
  <2> QED BY <1>5, <2>1, <2>2 DEF Decide, SteadyPublished, SteadyFetched, KnownKeyAccepted
<1> QED BY <1>1, <1>2, <1>3, <1>4, <1>5

LEMMA RestartKeepsInv == VerifierInv /\ RestartApi => VerifierInv'
  BY DEF RestartApi, VerifierInv, VerifierTypeOK, SteadyPublished, SteadyFetched,
         KnownKeyAccepted, IdleCheck, CheckSteps

LEMMA VerifierInvStep == VerifierInv /\ [VerifierNext]_verifierVars => VerifierInv'
<1>1. VerifierInv /\ VerifierNext => VerifierInv'
  BY RotateKeepsInv, CheckKeepsInv, RestartKeepsInv DEF VerifierNext
<1>2. VerifierInv /\ UNCHANGED verifierVars => VerifierInv'
  BY DEF verifierVars, VerifierInv, VerifierTypeOK, SteadyPublished, SteadyFetched, KnownKeyAccepted
<1> QED BY <1>1, <1>2

(* A token whose key was published while it was checked is never refused,   *)
(* whatever answers crossed in the cache meanwhile.                         *)
THEOREM GoodTokensPass == VerifierSpec => []KnownKeyAccepted
<1>1. VerifierInv => KnownKeyAccepted
  BY DEF VerifierInv
<1> QED BY VerifierInvInit, VerifierInvStep, <1>1, PTL DEF VerifierSpec

-------------------------------------------------------------------------------
(* The hand-over of a session and its end, for any life of a pickup code.  *)

(* A tab between the address bar and the app belongs to a sign-in. *)
UnderWayHasLogin ==
  \A t \in Tabs : tab[t].at \notin {"home", "app"} => tab[t].login \in Logins

(* Handles come from tickets; one that was said to be over is not live.     *)
HandlesHaveTickets == live \subseteq tickets /\ farewell \subseteq tickets

(* A code that has not been handed over: it is yet to be stored by the one  *)
(* tab that exchanged its ticket, or it is in the map.                      *)
NotHanded(n) == \A a \in handed : a.login # n

OneConfirms ==
  \A t \in Tabs :
    tab[t].at = "confirm" =>
      /\ tab[t].login \in tickets /\ pickups[tab[t].login] = 0 /\ NotHanded(tab[t].login)
      /\ \A u \in Tabs : tab[u].at = "confirm" /\ tab[u].login = tab[t].login => u = t

CodesFresh ==
  \A n \in Logins : pickups[n] # 0 => pickups[n] >= PickupTTL /\ n \in tickets /\ NotHanded(n)

HandedFromTickets == \A a \in handed : a.login \in tickets

SignInInv ==
  /\ SignInTypeOK /\ UnderWayHasLogin /\ HandlesHaveTickets /\ OneConfirms /\ CodesFresh
  /\ HandedFromTickets /\ SignedOutMeansEnded /\ PickedUpOnceInTime

LEMMA SignInInvInit == SignInInit => SignInInv
<1> SUFFICES ASSUME SignInInit PROVE SignInInv
  OBVIOUS
<1>1. SignInTypeOK
  BY SignInAssumption DEF SignInInit, SignInTypeOK, TabSteps, SomeLogin
<1>2. /\ UnderWayHasLogin /\ HandlesHaveTickets /\ OneConfirms /\ CodesFresh
      /\ HandedFromTickets /\ SignedOutMeansEnded /\ PickedUpOnceInTime
  BY DEF SignInInit, UnderWayHasLogin, HandlesHaveTickets, OneConfirms, CodesFresh,
         HandedFromTickets, SignedOutMeansEnded, PickedUpOnceInTime
<1> QED BY <1>1, <1>2 DEF SignInInv

(* Steps that move one tab, not to the confirmation, and leave tickets,     *)
(* handles and codes alone.                                                 *)
LEMMA TabMoves ==
  ASSUME SignInInv, NEW t \in Tabs, NEW step \in TabSteps \ {"confirm"}, NEW n \in SomeLogin,
         step \notin {"home", "app"} => n \in Logins,
         tab' = [tab EXCEPT ![t] = [at |-> step, login |-> n]],
         jar' \in [nonce : SomeLogin, handle : SomeLogin],
         UNCHANGED <<second, tickets, live, pickups, handed, farewell>>
  PROVE  SignInInv'
<1> USE DEF SignInInv, SignInTypeOK, TabSteps
<1>1. SignInTypeOK'
  OBVIOUS
<1>2. UnderWayHasLogin'
  BY DEF UnderWayHasLogin
<1>3. OneConfirms'
  BY DEF OneConfirms, NotHanded
<1>4. /\ HandlesHaveTickets' /\ CodesFresh' /\ HandedFromTickets' /\ SignedOutMeansEnded'
      /\ PickedUpOnceInTime'
  BY DEF HandlesHaveTickets, CodesFresh, NotHanded, HandedFromTickets, SignedOutMeansEnded,
         PickedUpOnceInTime
<1> QED BY <1>1, <1>2, <1>3, <1>4

LEMMA MovedTab ==
  ASSUME SignInTypeOK, NEW t \in Tabs, NEW step
  PROVE  [tab EXCEPT ![t].at = step] = [tab EXCEPT ![t] = [at |-> step, login |-> tab[t].login]]
<1>1. tab[t] \in [at : TabSteps, login : SomeLogin]
  BY DEF SignInTypeOK
<1>2. [tab[t] EXCEPT !.at = step] = [at |-> step, login |-> tab[t].login]
  BY <1>1
<1> QED BY <1>2

LEMMA BrowserKeepsInv ==
  ASSUME SignInInv, NEW t \in Tabs,
         \/ \E n \in Logins : Login(t, n)
         \/ \E u \in Tabs : Revisit(t, u)
         \/ Callback(t) \/ CallbackRefused(t) \/ Launch(t) \/ CheckFails(t) \/ StartLogout(t)
  PROVE  SignInInv'
<1> USE DEF SignInInv
<1>1. /\ tab[t].login \in SomeLogin /\ tab[t].at \in TabSteps
      /\ jar.nonce \in SomeLogin /\ jar.handle \in SomeLogin
      /\ NoLogin \in SomeLogin /\ Logins \subseteq SomeLogin
  BY DEF SignInTypeOK, SomeLogin
<1>2. CASE \E n \in Logins : Login(t, n)
  <2>1. PICK n \in Logins : Login(t, n)
    BY <1>2
  <2>2. [jar EXCEPT !.nonce = n] \in [nonce : SomeLogin, handle : SomeLogin]
    BY <1>1 DEF SignInTypeOK
  <2> QED BY <1>1, <2>1, <2>2, TabMoves DEF Login, TabSteps
<1>3. CASE \E u \in Tabs : Revisit(t, u)
  <2>1. PICK u \in Tabs, step \in {"away", "launch"} :
          tab' = [tab EXCEPT ![u] = [at |-> step, login |-> tab[t].login]]
    BY <1>3 DEF Revisit
  <2>2. tab[t].login \in Logins
    BY <1>3 DEF Revisit, UnderWayHasLogin
  <2>3. /\ jar' \in [nonce : SomeLogin, handle : SomeLogin]
        /\ UNCHANGED <<second, tickets, live, pickups, handed, farewell>>
    BY <1>3 DEF Revisit, SignInTypeOK
  <2>4. step \in TabSteps \ {"confirm"} /\ tab[t].login \in SomeLogin
    BY <1>1 DEF TabSteps
  <2> QED BY <2>1, <2>2, <2>3, <2>4, TabMoves
<1>4. CASE Callback(t)
  <2>1. PICK step \in {"exchange", "home"} :
          tab' = [tab EXCEPT ![t] = [at |-> step, login |-> tab[t].login]]
    BY <1>4, MovedTab DEF Callback, MoveTab
  <2>2. tab[t].login \in Logins
    BY <1>4 DEF Callback, UnderWayHasLogin
  <2> QED BY <1>1, <1>4, <2>1, <2>2, TabMoves DEF Callback, TabSteps, SignInTypeOK
<1>5. CASE CallbackRefused(t)
  <2>1. tab' = [tab EXCEPT ![t] = [at |-> "home", login |-> tab[t].login]]
    BY <1>5, MovedTab DEF CallbackRefused, MoveTab
  <2>2. [jar EXCEPT !.nonce = NoLogin] \in [nonce : SomeLogin, handle : SomeLogin]
    BY <1>1 DEF SignInTypeOK
  <2> QED BY <1>1, <1>5, <2>1, <2>2, TabMoves DEF CallbackRefused, TabSteps
<1>6. CASE Launch(t)
  <2>1. tab' = [tab EXCEPT ![t] = [at |-> "pickup", login |-> tab[t].login]]
    BY <1>6, MovedTab DEF Launch, MoveTab
  <2>2. tab[t].login \in Logins
    BY <1>6 DEF Launch, UnderWayHasLogin
  <2> QED BY <1>1, <1>6, <2>1, <2>2, TabMoves DEF Launch, TabSteps, SignInTypeOK
<1>7. CASE CheckFails(t)
  <2>1. tab' = [tab EXCEPT ![t] = [at |-> "home", login |-> tab[t].login]]
    BY <1>7, MovedTab DEF CheckFails, MoveTab
  <2> QED BY <1>1, <1>7, <2>1, TabMoves DEF CheckFails, TabSteps, SignInTypeOK
<1>8. CASE StartLogout(t)
  <2>1. jar.handle \in Logins
    BY <1>1, <1>8 DEF StartLogout, SomeLogin
  <2> QED BY <1>1, <1>8, <2>1, TabMoves DEF StartLogout, TabSteps, SignInTypeOK
<1> QED BY <1>2, <1>3, <1>4, <1>5, <1>6, <1>7, <1>8

(* The ticket is exchanged once, so nobody else confirms this sign-in.      *)
LEMMA ExchangeKeepsInv == ASSUME SignInInv, NEW t \in Tabs, ExchangeTicket(t) PROVE SignInInv'
<1> DEFINE n == tab[t].login
<1> USE DEF SignInInv, SignInTypeOK
<1>1. /\ n \in Logins /\ n \notin tickets
      /\ tickets' = tickets \cup {n} /\ live' = live \cup {n}
      /\ tab' = [tab EXCEPT ![t] = [at |-> "confirm", login |-> n]]
      /\ UNCHANGED <<second, jar, pickups, handed, farewell>>
  BY MovedTab DEF ExchangeTicket, MoveTab, UnderWayHasLogin
<1>2. SignInTypeOK'
  BY <1>1 DEF TabSteps, SomeLogin
<1>3. pickups[n] = 0 /\ NotHanded(n)
  BY <1>1 DEF CodesFresh, HandedFromTickets, NotHanded
<1>4. OneConfirms'
  BY <1>1, <1>3 DEF OneConfirms, NotHanded
<1>5. /\ UnderWayHasLogin' /\ HandlesHaveTickets' /\ CodesFresh' /\ HandedFromTickets'
  BY <1>1 DEF UnderWayHasLogin, HandlesHaveTickets, CodesFresh, HandedFromTickets, NotHanded
<1>6. SignedOutMeansEnded' /\ PickedUpOnceInTime'
  BY <1>1 DEF SignedOutMeansEnded, PickedUpOnceInTime, HandlesHaveTickets
<1> QED BY <1>2, <1>4, <1>5, <1>6

LEMMA PurgedType ==
  ASSUME SignInTypeOK
  PROVE  /\ Purged \in [Logins -> Nat]
         /\ \A n \in Logins : Purged[n] # 0 => Purged[n] = pickups[n] /\ second <= pickups[n]
         /\ \A n \in Logins : pickups[n] = 0 => Purged[n] = 0
  BY DEF SignInTypeOK, Purged

LEMMA StoreCodeKeepsInv == ASSUME SignInInv, NEW t \in Tabs, CallbackDone(t) PROVE SignInInv'
<1> DEFINE n == tab[t].login
<1> USE DEF SignInInv, SignInTypeOK
<1>1. /\ n \in Logins /\ tab[t].at = "confirm"
      /\ pickups' = [Purged EXCEPT ![n] = second + PickupTTL]
      /\ jar' = [nonce |-> NoLogin, handle |-> n]
      /\ tab' = [tab EXCEPT ![t] = [at |-> "launch", login |-> n]]
      /\ UNCHANGED <<second, tickets, live, handed, farewell>>
  BY MovedTab DEF CallbackDone, MoveTab, UnderWayHasLogin
<1>2. second + PickupTTL \in Nat /\ second + PickupTTL >= PickupTTL
  BY SignInAssumption
<1>3. SignInTypeOK'
  BY <1>1, <1>2, PurgedType DEF TabSteps, SomeLogin
<1>4. /\ n \in tickets /\ NotHanded(n)
      /\ \A u \in Tabs : tab[u].at = "confirm" /\ tab[u].login = n => u = t
  BY <1>1 DEF OneConfirms
<1>5. CodesFresh'
  BY <1>1, <1>2, <1>4, PurgedType DEF CodesFresh, NotHanded
<1>6. OneConfirms'
  <2> SUFFICES ASSUME NEW v \in Tabs, tab'[v].at = "confirm"
               PROVE  /\ tab'[v].login \in tickets' /\ pickups'[tab'[v].login] = 0
                      /\ \A a \in handed' : a.login # tab'[v].login
                      /\ \A u \in Tabs : tab'[u].at = "confirm" /\ tab'[u].login = tab'[v].login
                                           => u = v
    BY DEF OneConfirms, NotHanded
  <2>1. v # t /\ tab'[v] = tab[v] /\ tab[v].at = "confirm" /\ tab[v].login # n
    BY <1>1, <1>4
  <2>2. tab[v].login \in Logins
    BY <2>1 DEF UnderWayHasLogin
  <2> QED BY <1>1, <2>1, <2>2, PurgedType DEF OneConfirms, NotHanded
<1>7. /\ UnderWayHasLogin' /\ HandlesHaveTickets' /\ HandedFromTickets'
      /\ SignedOutMeansEnded' /\ PickedUpOnceInTime'
  BY <1>1 DEF UnderWayHasLogin, HandlesHaveTickets, HandedFromTickets, SignedOutMeansEnded,
              PickedUpOnceInTime
<1> QED BY <1>3, <1>5, <1>6, <1>7

(* A code that is found was never handed over, and has not expired.         *)
LEMMA PickUpKeepsInv == ASSUME SignInInv, NEW t \in Tabs, PickUp(t) PROVE SignInInv'
<1> DEFINE n == tab[t].login
           a == [login |-> n, tab |-> t, at |-> second, issued |-> pickups[n] - PickupTTL]
<1> USE DEF SignInInv, SignInTypeOK
<1>1. /\ n \in Logins /\ tab[t].at = "pickup"
      /\ tab' = [tab EXCEPT ![t] = [at |-> "app", login |-> n]]
      /\ UNCHANGED <<second, tickets, live, farewell>>
  BY MovedTab DEF PickUp, MoveTab, UnderWayHasLogin
<1>2. jar' \in [nonce : SomeLogin, handle : SomeLogin]
  <2>1. [jar EXCEPT !.handle = n] \in [nonce : SomeLogin, handle : SomeLogin]
    BY <1>1 DEF SomeLogin
  <2> QED BY <2>1 DEF PickUp
<1>3. tab' \in [Tabs -> [at : TabSteps, login : SomeLogin]]
  BY <1>1 DEF TabSteps
<1>4. UnderWayHasLogin' /\ HandlesHaveTickets' /\ SignedOutMeansEnded'
  BY <1>1 DEF UnderWayHasLogin, HandlesHaveTickets, SignedOutMeansEnded
<1>5. CASE Purged[n] = 0
  <2>1. pickups' = Purged /\ handed' = handed
    BY <1>5 DEF PickUp
  <2>2. SignInTypeOK'
    BY <1>1, <1>2, <1>3, <2>1, PurgedType
  <2>3. OneConfirms'
    BY <1>1, <2>1, PurgedType DEF OneConfirms, NotHanded, UnderWayHasLogin
  <2>4. CodesFresh' /\ HandedFromTickets' /\ PickedUpOnceInTime'
    BY <1>1, <2>1, PurgedType DEF CodesFresh, NotHanded, HandedFromTickets, PickedUpOnceInTime
  <2> QED BY <1>4, <2>2, <2>3, <2>4
<1>6. CASE Purged[n] # 0
  <2>1. pickups' = [Purged EXCEPT ![n] = 0] /\ handed' = handed \cup {a}
    BY <1>6 DEF PickUp, CodeDeleted
  <2>2. /\ pickups[n] # 0 /\ second <= pickups[n] /\ pickups[n] >= PickupTTL
        /\ n \in tickets /\ NotHanded(n)
    BY <1>1, <1>6, PurgedType DEF CodesFresh
  <2>3. a \in [login : Logins, tab : Tabs, at : Nat, issued : Nat] /\ a.at <= a.issued + PickupTTL
    BY <1>1, <2>2, SignInAssumption
  <2>4. SignInTypeOK'
    BY <1>1, <1>2, <1>3, <2>1, <2>3, PurgedType
  <2>5. OneConfirms'
    <3> SUFFICES ASSUME NEW v \in Tabs, tab'[v].at = "confirm"
                 PROVE  /\ tab'[v].login \in tickets' /\ pickups'[tab'[v].login] = 0
                        /\ \A b \in handed' : b.login # tab'[v].login
                        /\ \A u \in Tabs : tab'[u].at = "confirm" /\ tab'[u].login = tab'[v].login
                                             => u = v
      BY DEF OneConfirms, NotHanded
    <3>1. v # t /\ tab'[v] = tab[v] /\ tab[v].at = "confirm"
      BY <1>1
    <3>2. tab[v].login \in Logins /\ pickups[tab[v].login] = 0 /\ tab[v].login # n
      BY <2>2, <3>1 DEF UnderWayHasLogin, OneConfirms
    <3> QED BY <1>1, <2>1, <3>1, <3>2, PurgedType DEF OneConfirms, NotHanded
  <2>6. CodesFresh'
    BY <1>1, <2>1, PurgedType DEF CodesFresh, NotHanded
  <2>7. HandedFromTickets' /\ PickedUpOnceInTime'
    BY <1>1, <2>1, <2>2, <2>3 DEF NotHanded, HandedFromTickets, PickedUpOnceInTime
  <2> QED BY <1>4, <2>4, <2>5, <2>6, <2>7
<1> QED BY <1>5, <1>6

(* Steps that end a session, or may have, or only let time pass.            *)
LEMMA EndsKeepsInv ==
  ASSUME SignInInv,
         tab' \in [Tabs -> [at : TabSteps, login : SomeLogin]],
         \A t \in Tabs : tab'[t] = tab[t] \/ tab'[t].at \in {"home", "app"},
         jar' \in [nonce : SomeLogin, handle : SomeLogin],
         second' \in 1 .. LastSecond,
         live' \subseteq live, farewell' \subseteq tickets, farewell' \cap live' = {},
         UNCHANGED <<tickets, pickups, handed>>
  PROVE  SignInInv'
<1> USE DEF SignInInv, SignInTypeOK
<1>1. SignInTypeOK'
  OBVIOUS
<1>2. UnderWayHasLogin' /\ OneConfirms'
  BY DEF UnderWayHasLogin, OneConfirms, NotHanded
<1>3. /\ HandlesHaveTickets' /\ CodesFresh' /\ HandedFromTickets' /\ SignedOutMeansEnded'
      /\ PickedUpOnceInTime'
  BY DEF HandlesHaveTickets, CodesFresh, NotHanded, HandedFromTickets, SignedOutMeansEnded,
         PickedUpOnceInTime
<1> QED BY <1>1, <1>2, <1>3

LEMMA LogoutKeepsInv ==
  ASSUME SignInInv, NEW t \in Tabs, LogoutAnswered(t) \/ LogoutUnknown(t) \/ LogoutFails(t)
  PROVE  SignInInv'
<1> USE DEF SignInInv, SignInTypeOK
<1>1. PICK step \in {"home", "app"} :
        tab' = [tab EXCEPT ![t] = [at |-> step, login |-> tab[t].login]]
  BY MovedTab DEF LogoutAnswered, LogoutUnknown, LogoutFails, MoveTab
<1>2. /\ tab' \in [Tabs -> [at : TabSteps, login : SomeLogin]]
      /\ \A u \in Tabs : tab'[u] = tab[u] \/ tab'[u].at \in {"home", "app"}
  BY <1>1 DEF TabSteps
<1>3. jar' \in [nonce : SomeLogin, handle : SomeLogin]
  <2>1. [jar EXCEPT !.handle = NoLogin] \in [nonce : SomeLogin, handle : SomeLogin]
    BY DEF SomeLogin
  <2> QED BY <2>1 DEF LogoutAnswered, LogoutUnknown, LogoutFails
<1>4. UNCHANGED <<second, tickets, pickups, handed>>
  BY DEF LogoutAnswered, LogoutUnknown, LogoutFails
<1>5. live' \subseteq live /\ farewell' \subseteq tickets /\ farewell' \cap live' = {}
  BY DEF LogoutAnswered, LogoutUnknown, LogoutFails, Confirms, HandlesHaveTickets,
         SignedOutMeansEnded
<1> QED BY <1>2, <1>3, <1>4, <1>5, EndsKeepsInv

LEMMA SignInInvStep == SignInInv /\ [SignInNext]_signInVars => SignInInv'
<1>1. SignInInv /\ NextSecond => SignInInv'
  BY EndsKeepsInv, SignInAssumption
     DEF NextSecond, SignInInv, SignInTypeOK, HandlesHaveTickets, SignedOutMeansEnded
<1>2. SignInInv /\ SignInNext => SignInInv'
  BY <1>1, BrowserKeepsInv, ExchangeKeepsInv, StoreCodeKeepsInv, PickUpKeepsInv, LogoutKeepsInv
     DEF SignInNext
<1>3. SignInInv /\ UNCHANGED signInVars => SignInInv'
  BY EndsKeepsInv DEF signInVars, SignInInv, SignInTypeOK, HandlesHaveTickets, SignedOutMeansEnded
<1> QED BY <1>2, <1>3

(* A confirmed sign-out is final: no ticket, code or late answer brings the *)
(* handle back.                                                             *)
THEOREM SignOutIsFinal == SignInSpec => []SignedOutMeansEnded
<1>1. SignInInv => SignedOutMeansEnded
  BY DEF SignInInv
<1> QED BY SignInInvInit, SignInInvStep, <1>1, PTL DEF SignInSpec

(* A pickup code is good for one hand-over, in its time, in whatever tabs   *)
(* the redirect is opened.                                                  *)
THEOREM CodesAreSingleUse == SignInSpec => []PickedUpOnceInTime
<1>1. SignInInv => PickedUpOnceInTime
  BY DEF SignInInv
<1> QED BY SignInInvInit, SignInInvStep, <1>1, PTL DEF SignInSpec

-------------------------------------------------------------------------------
(* The client's session, for any handles, requests under way together and  *)
(* outages.                                                                *)

(* The refresh promise is the only one to post, and posts once. *)
OnePost == posts = IF refresh = "posted" THEN 1 ELSE 0

WaitersAreServed == \A c \in Calls : call[c].at = "waiting" => refresh # "none"

(* A token behind the sign-in screen is being tried: a session is still     *)
(* being stored, or checkAuth has not heard, and its end drops the token    *)
(* or opens the app.                                                        *)
TokenIsTried ==
  screen = "out" /\ store.token # NoToken =>
    launch # NoToken \/ \E c \in Calls : call[c].kind = "me" /\ call[c].at # "idle"

(* Where no token is stored, the refresh token and a session still being    *)
(* stored were half stored at a clearing.                                   *)
OvertakenKeys ==
  store.token = NoToken =>
    launch \in overtaken \cup {NoToken} /\ store.refresh \in overtaken \cup {NoToken}

SessionInv == SessionTypeOK /\ OnePost /\ WaitersAreServed /\ TokenIsTried /\ OvertakenKeys

LEMMA SessionInvInit == SessionInit => SessionInv
  BY ApiSessionAssumption
     DEF SessionInit, SessionInv, SessionTypeOK, OnePost, WaitersAreServed, TokenIsTried, OvertakenKeys,
         Empty, IdleCall, Tokens, CallKinds, CallSteps

(* A request starts, moves on or ends, outside the refresh: it is not       *)
(* waiting afterwards.                                                      *)
LEMMA CallMoves ==
  ASSUME SessionInv, NEW c \in Calls, NEW to \in [kind : CallKinds, at : CallSteps, token : Tokens],
         to.at # "waiting", call' = [call EXCEPT ![c] = to],
         accepted' \subseteq issued, UNCHANGED <<issued, refresh, posts>>,
         store' \in [token : Tokens, refresh : Tokens], launch' \in Tokens,
         screen' \in {"loading", "in", "out"}, outages' \in 0 .. MaxOutages, overtaken' \subseteq Sealed,
         TokenIsTried', OvertakenKeys'
  PROVE  SessionInv'
<1> USE DEF SessionInv, SessionTypeOK
<1>1. SessionTypeOK'
  OBVIOUS
<1>2. OnePost' /\ WaitersAreServed'
  BY DEF OnePost, WaitersAreServed
<1> QED BY <1>1, <1>2

LEMMA IdleCallType == IdleCall \in [kind : CallKinds, at : CallSteps, token : Tokens]
  BY DEF IdleCall, CallKinds, CallSteps, Tokens

LEMMA EmptyType == Empty \in [token : Tokens, refresh : Tokens]
  BY DEF Empty, Tokens

(* A clearing leaves no key, and one that was half stored is known. *)
LEMMA ClearingOvertakes ==
  ASSUME SessionTypeOK, ClearSession, launch' = launch
  PROVE  OvertakenKeys' /\ overtaken' \subseteq Sealed /\ store' = Empty
  BY DEF SessionTypeOK, ClearSession, Cleared, Empty, OvertakenKeys, Tokens

LEMMA Stepped ==
  ASSUME SessionTypeOK, NEW c \in Calls, NEW step \in CallSteps
  PROVE  /\ Step(c, step) = [call EXCEPT ![c] = [call[c] EXCEPT !.at = step]]
         /\ [call[c] EXCEPT !.at = step] \in [kind : CallKinds, at : CallSteps, token : Tokens]
         /\ [call[c] EXCEPT !.at = step].at = step
         /\ [call[c] EXCEPT !.at = step].kind = call[c].kind
  BY DEF SessionTypeOK, Step

(* An answer, a refusal or a failure that leaves the token where it was and *)
(* is not checkAuth's, or that opens the app, or drops the token.           *)
LEMMA EndsWell ==
  ASSUME SessionInv, NEW c \in Calls, NEW to, to.kind = call[c].kind \/ to.at = "idle",
         call' = [call EXCEPT ![c] = to], launch' = launch,
         \/ store' = Empty
         \/ screen' # "out"
         \/ store' = store /\ screen' = screen /\ call[c].kind # "me"
         \/ store' = store /\ screen' = screen /\ to.at # "idle" /\ to.kind = call[c].kind
              /\ call[c].at # "idle"
  PROVE  TokenIsTried'
<1>1. CASE store' = Empty \/ screen' # "out"
  BY <1>1 DEF TokenIsTried, Empty
<1>2. CASE store' = store /\ screen' = screen /\ call[c].kind # "me"
  <2>1. \A d \in Calls : call[d].kind = "me" => call'[d] = call[d]
    BY <1>2 DEF SessionInv, SessionTypeOK
  <2> QED BY <1>2, <2>1 DEF SessionInv, TokenIsTried
<1>3. CASE /\ store' = store /\ screen' = screen /\ to.at # "idle" /\ to.kind = call[c].kind
           /\ call[c].at # "idle"
  <2>1. \A d \in Calls : call'[d].kind = call[d].kind /\ (call[d].at # "idle" => call'[d].at # "idle")
    BY <1>3 DEF SessionInv, SessionTypeOK
  <2> QED BY <1>3, <2>1 DEF SessionInv, TokenIsTried
<1> QED BY <1>1, <1>2, <1>3

LEMMA AnswerKeepsInv ==
  ASSUME SessionInv, NEW c \in Calls,
         Answered(c) \/ NetworkFails(c) \/ Rejected(c) \/ LogoutDone(c) \/ LogoutUnconfirmed(c)
  PROVE  SessionInv'
<1> USE DEF SessionInv, SessionTypeOK
<1>1. /\ call' = [call EXCEPT ![c] = IdleCall]
      /\ accepted' \subseteq issued /\ UNCHANGED <<issued, refresh, posts, launch>>
      /\ store' \in [token : Tokens, refresh : Tokens] /\ screen' \in {"loading", "in", "out"}
      /\ outages' \in 0 .. MaxOutages
  BY EmptyType, ApiSessionAssumption
     DEF Answered, NetworkFails, ClearSession, Cleared, Rejected, LogoutDone, LogoutUnconfirmed
<1>2. \/ store' = Empty
      \/ screen' # "out"
      \/ store' = store /\ screen' = screen /\ call[c].kind # "me"
  BY DEF Answered, NetworkFails, ClearSession, Cleared, Rejected, LogoutDone, LogoutUnconfirmed
<1>3. IdleCall.at = "idle"
  BY DEF IdleCall
<1>4. TokenIsTried'
  BY <1>1, <1>2, <1>3, EndsWell
<1>5. OvertakenKeys' /\ overtaken' \subseteq Sealed
  <2>1. ClearSession \/ UNCHANGED <<store, overtaken>>
    BY DEF Answered, NetworkFails, Rejected, LogoutDone, LogoutUnconfirmed
  <2> QED BY <1>1, <2>1, ClearingOvertakes DEF OvertakenKeys
<1> QED BY <1>1, <1>3, <1>4, <1>5, CallMoves, IdleCallType

LEMMA RefusedKeepsInv == ASSUME SessionInv, NEW c \in Calls, Refused(c) PROVE SessionInv'
<1> USE DEF SessionInv, SessionTypeOK
<1>1. PICK step \in {"rejected", "refused"} : call' = Step(c, step)
  BY DEF Refused
<1> DEFINE to == [call[c] EXCEPT !.at = step]
<1>2. /\ to \in [kind : CallKinds, at : CallSteps, token : Tokens]
      /\ to.at \in {"rejected", "refused"} /\ to.kind = call[c].kind
      /\ call' = [call EXCEPT ![c] = to]
  <2>1. step \in CallSteps
    BY DEF CallSteps
  <2> QED BY <1>1, <2>1, Stepped
<1> HIDE DEF to
<1>3. /\ accepted' \subseteq issued /\ UNCHANGED <<issued, refresh, posts, launch>>
      /\ store' \in [token : Tokens, refresh : Tokens] /\ screen' \in {"loading", "in", "out"}
      /\ outages' \in 0 .. MaxOutages
  BY EmptyType, ApiSessionAssumption DEF Refused, Unauthorized, ClearSession, Cleared
<1>4. store' = Empty \/ (store' = store /\ screen' = screen /\ call[c].at # "idle")
  BY DEF Refused, Unauthorized, ClearSession, Cleared
<1>5. TokenIsTried'
  BY <1>2, <1>3, <1>4, EndsWell
<1>6. OvertakenKeys' /\ overtaken' \subseteq Sealed
  <2>1. ClearSession \/ UNCHANGED <<store, overtaken>>
    BY DEF Refused, Unauthorized
  <2> QED BY <1>3, <2>1, ClearingOvertakes DEF OvertakenKeys
<1> QED BY <1>2, <1>3, <1>5, <1>6, CallMoves

(* checkAuth and the requests of the app. *)
LEMMA SendKeepsInv ==
  ASSUME SessionInv, NEW c \in Calls,
         Restart(c) \/ SessionStored(c) \/ \E kind \in {"api", "logout"} : SendCall(c, kind)
  PROVE  SessionInv'
<1> USE DEF SessionInv, SessionTypeOK
<1>1. PICK to \in [kind : CallKinds, at : CallSteps, token : Tokens] :
        /\ call' = [call EXCEPT ![c] = to]
        /\ to.at # "waiting"
        /\ to = call[c] \/ to.at = "sent"
        /\ (Restart(c) \/ SessionStored(c)) /\ to # call[c] => to.kind = "me"
        /\ (Restart(c) \/ SessionStored(c)) /\ to = call[c] => store.token = NoToken
  <2>1. \A kind \in CallKinds : [kind |-> kind, at |-> "sent", token |-> store.token] \in
                                  [kind : CallKinds, at : CallSteps, token : Tokens]
    BY DEF CallSteps
  <2>2. CASE Restart(c) \/ SessionStored(c)
    <3>1. call[c].at = "idle"
      BY <2>2 DEF Restart, SessionStored
    <3>2. CASE store.token = NoToken
      <4>1. call' = [call EXCEPT ![c] = call[c]]
        BY <2>2, <3>2 DEF Restart, Launched, SessionStored
      <4> QED BY <3>1, <3>2, <4>1
    <3>3. CASE store.token # NoToken
      <4> DEFINE me == [kind |-> "me", at |-> "sent", token |-> store.token]
      <4>1. call' = [call EXCEPT ![c] = me]
        BY <2>2, <3>3 DEF Restart, Launched, SessionStored
      <4>2. me \in [kind : CallKinds, at : CallSteps, token : Tokens]
        BY <2>1 DEF CallKinds
      <4>3. me.at = "sent" /\ me.kind = "me" /\ me # call[c]
        BY <3>1
      <4> HIDE DEF me
      <4> QED BY <4>1, <4>2, <4>3
    <3> QED BY <3>2, <3>3
  <2>3. CASE \E kind \in {"api", "logout"} : SendCall(c, kind)
    <3>1. PICK kind \in {"api", "logout"} : SendCall(c, kind)
      BY <2>3
    <3>2. ~Restart(c) /\ ~SessionStored(c)
      BY <3>1 DEF SendCall, Restart, SessionStored
    <3> DEFINE sent == [kind |-> kind, at |-> "sent", token |-> store.token]
    <3>3. sent \in [kind : CallKinds, at : CallSteps, token : Tokens]
      BY <2>1 DEF CallKinds
    <3>4. call' = [call EXCEPT ![c] = sent] /\ sent.at = "sent"
      BY <3>1 DEF SendCall
    <3> HIDE DEF sent
    <3> QED BY <3>2, <3>3, <3>4
  <2> QED BY <2>2, <2>3
<1>2. /\ UNCHANGED <<accepted, issued, refresh, posts, outages>>
      /\ screen' \in {"loading", "in", "out"} /\ launch' \in Tokens
      /\ store' \in [token : Tokens, refresh : Tokens] /\ store'.token = store.token
  BY DEF Restart, Launched, SessionStored, SendCall, Tokens
<1>3. TokenIsTried'
  <2>1. CASE Restart(c) \/ SessionStored(c)
    BY <1>1, <1>2, <2>1 DEF TokenIsTried
  <2>2. CASE \E kind \in {"api", "logout"} : SendCall(c, kind)
    BY <2>2 DEF SendCall, TokenIsTried
  <2> QED BY <2>1, <2>2
<1>4. OvertakenKeys' /\ overtaken' = overtaken
  BY DEF Restart, SessionStored, SendCall, OvertakenKeys
<1>5. accepted' \subseteq issued /\ outages' \in 0 .. MaxOutages /\ overtaken' \subseteq Sealed
  BY <1>2, <1>4
<1> HIDE DEF SessionInv, SessionTypeOK
<1> QED BY <1>1, <1>2, <1>3, <1>4, <1>5, CallMoves

LEMMA HandlesKeepInv ==
  ASSUME SessionInv, NEW h \in Sealed, OpenURL(h) \/ HandleEnds(h)
  PROVE  SessionInv'
<1> USE DEF SessionInv, SessionTypeOK
<1>1. CASE OpenURL(h)
  BY <1>1, ApiSessionAssumption
     DEF OpenURL, Tokens, OnePost, WaitersAreServed, TokenIsTried, OvertakenKeys
<1>2. CASE HandleEnds(h)
  BY <1>2 DEF HandleEnds, OnePost, WaitersAreServed, TokenIsTried, OvertakenKeys
<1> QED BY <1>1, <1>2

LEMMA AttemptKeepsInv == ASSUME SessionInv, NEW c \in Calls, AttemptRefresh(c) PROVE SessionInv'
<1> USE DEF SessionInv, SessionTypeOK
<1>1. /\ call' = [call EXCEPT ![c] = [call[c] EXCEPT !.at = "waiting"]]
      /\ call' \in [Calls -> [kind : CallKinds, at : CallSteps, token : Tokens]]
      /\ \A d \in Calls : call'[d].kind = call[d].kind
                          /\ (call[d].at # "idle" => call'[d].at # "idle")
  <2> DEFINE to == [call[c] EXCEPT !.at = "waiting"]
  <2>1. "waiting" \in CallSteps
    BY DEF CallSteps
  <2>2. /\ to \in [kind : CallKinds, at : CallSteps, token : Tokens]
        /\ to.at = "waiting" /\ to.kind = call[c].kind
        /\ call' = [call EXCEPT ![c] = to]
    BY <2>1, Stepped DEF AttemptRefresh
  <2> HIDE DEF to
  <2>3. /\ call' \in [Calls -> [kind : CallKinds, at : CallSteps, token : Tokens]]
        /\ \A d \in Calls : call'[d].kind = call[d].kind
                            /\ (call[d].at # "idle" => call'[d].at # "idle")
    BY <2>2
  <2> QED BY <2>2, <2>3 DEF to
<1>2. /\ refresh' # "none" /\ refresh' \in {"reading", "posted"}
      /\ refresh' = "posted" <=> refresh = "posted"
      /\ UNCHANGED <<accepted, issued, store, launch, screen, posts, overtaken, outages>>
  BY DEF AttemptRefresh, RefreshShared
<1>3. OnePost' /\ WaitersAreServed' /\ TokenIsTried' /\ OvertakenKeys'
  BY <1>1, <1>2 DEF OnePost, WaitersAreServed, TokenIsTried, OvertakenKeys
<1> QED BY <1>1, <1>2, <1>3

(* The promise resolves for all who wait, and the keys are gone.            *)
LEMMA EndKeepsInv ==
  ASSUME SessionInv, RefreshEnds, posts' = 0, UNCHANGED <<accepted, issued, launch, outages>>
  PROVE  SessionInv'
<1> USE DEF SessionInv, SessionTypeOK
<1>1. \A c \in Calls :
        /\ call'[c] \in [kind : CallKinds, at : CallSteps, token : Tokens]
        /\ call'[c].at # "waiting"
  <2> SUFFICES ASSUME NEW c \in Calls
               PROVE  /\ call'[c] \in [kind : CallKinds, at : CallSteps, token : Tokens]
                      /\ call'[c].at # "waiting"
    OBVIOUS
  <2>1. \/ call'[c] = [call[c] EXCEPT !.at = "rejected"]
        \/ call'[c] = IdleCall
        \/ call'[c] = call[c] /\ call[c].at # "waiting"
    BY DEF RefreshEnds, Released
  <2> QED BY <2>1, IdleCallType DEF IdleCall, CallSteps
<1>2. OvertakenKeys' /\ overtaken' \subseteq Sealed /\ store' = Empty
  BY ClearingOvertakes DEF RefreshEnds, Unauthorized
<1>3. SessionTypeOK'
  BY <1>1, <1>2, EmptyType DEF RefreshEnds, Unauthorized
<1>4. OnePost' /\ WaitersAreServed' /\ TokenIsTried'
  BY <1>1, <1>2 DEF RefreshEnds, Unauthorized, Empty, OnePost, WaitersAreServed, TokenIsTried
<1> QED BY <1>2, <1>3, <1>4

LEMMA RefreshKeepsInv == ASSUME SessionInv, PostRefresh \/ RefreshGone PROVE SessionInv'
<1> USE DEF SessionInv, SessionTypeOK
<1>1. CASE PostRefresh /\ store.refresh = NoToken
  BY <1>1, EndKeepsInv DEF PostRefresh, OnePost
<1>2. CASE PostRefresh /\ store.refresh # NoToken
  BY <1>2 DEF PostRefresh, OnePost, WaitersAreServed, TokenIsTried, OvertakenKeys
<1>3. CASE RefreshGone
  BY <1>3, EndKeepsInv DEF RefreshGone, OnePost
<1> QED BY <1>1, <1>2, <1>3

LEMMA SessionInvStep == SessionInv /\ [SessionNext]_sessionVars => SessionInv'
<1>1. SessionInv /\ SessionNext => SessionInv'
  BY AnswerKeepsInv, RefusedKeepsInv, SendKeepsInv, HandlesKeepInv, AttemptKeepsInv, RefreshKeepsInv
     DEF SessionNext
<1>2. SessionInv /\ UNCHANGED sessionVars => SessionInv'
  BY DEF sessionVars, SessionInv, SessionTypeOK, OnePost, WaitersAreServed, TokenIsTried, OvertakenKeys
<1> QED BY <1>1, <1>2

(* However many requests are refused together, one refresh goes out, and    *)
(* nobody waits for one that is over.                                       *)
THEOREM OneRefreshForAll == SessionSpec => []RefreshIsShared
<1>1. SessionInv => RefreshIsShared
  BY DEF SessionInv, OnePost, WaitersAreServed, RefreshIsShared
<1> QED BY SessionInvInit, SessionInvStep, <1>1, PTL DEF SessionSpec

(* The client at rest on the sign-in screen has forgotten the token and     *)
(* every refresh token but that of a session half stored at a clearing,     *)
(* whatever refusals, failures and new sessions crossed on the way.         *)
THEOREM RestForgets == SessionSpec => []SignedOutForgets
<1>1. SessionInv => SignedOutForgets
  BY DEF SessionInv, TokenIsTried, OvertakenKeys, SignedOutForgets, AtRest
<1> QED BY SessionInvInit, SessionInvStep, <1>1, PTL DEF SessionSpec

-------------------------------------------------------------------------------
(* The session authority, for any sign-ins, requests and sessions.         *)

CallbackRow == [at : CallbackSteps, state : OAuthStates \cup {"none"}, user : Users]
RefresherRow == [at : {"idle", "slide", "revoke", "create"}, row : Nat, access : Nat]

(* A request that read a row is about a row that exists: none is deleted.   *)
RefreshersKnowRows ==
  \A q \in Refreshers : refresher[q].at # "idle" => refresher[q].row \in DOMAIN sessions

(* A state that was consumed: its row is gone and no session came of it.    *)
Unspent(s) == s \in OAuthStates /\ stateExpiry[s] = 0 /\ \A i \in DOMAIN sessions : sessions[i].from # s

(* At most one callback holds a state, and none once it became a session.   *)
StateHeldOnce ==
  /\ \A c \in Callbacks : callback[c].at # "idle" => Unspent(callback[c].state)
  /\ \A c, d \in Callbacks :
       callback[c].at # "idle" /\ callback[d].at # "idle" /\ callback[c].state = callback[d].state
       => c = d
  /\ \A i \in DOMAIN sessions : sessions[i].from # "refresh" => stateExpiry[sessions[i].from] = 0

CentralInv ==
  /\ CentralTypeOK /\ IsFiniteSet(DOMAIN sessions)
  /\ RefreshersKnowRows /\ StateHeldOnce /\ OneSessionPerState

LEMMA CentralInvInit == CentralInit => CentralInv
<1> SUFFICES ASSUME CentralInit PROVE CentralInv
  OBVIOUS
<1>1. DOMAIN sessions = {} /\ IsFiniteSet(DOMAIN sessions) /\ DOMAIN sessions = 1 .. Cardinality(DOMAIN sessions)
  BY FS_EmptySet DEF CentralInit
<1>2. CentralTypeOK
  BY <1>1, CentralAssumption
     DEF CentralInit, CentralTypeOK, Users, CallbackSteps, IdleCallback, IdleRefresher
<1> QED
  BY <1>1, <1>2 DEF CentralInit, CentralInv, RefreshersKnowRows, StateHeldOnce, OneSessionPerState,
                    IdleCallback, IdleRefresher

(* A new session is one row more, after the others.                         *)
LEMMA NewSession ==
  ASSUME CentralInv, NEW user \in Users, NEW cookie \in BOOLEAN, NEW from \in OAuthStates \cup {"refresh"},
         CreateSession(user, cookie, from)
  PROVE  \E n \in Nat :
           /\ DOMAIN sessions = 1 .. n /\ DOMAIN sessions' = 1 .. n + 1
           /\ IsFiniteSet(DOMAIN sessions') /\ DOMAIN sessions' = 1 .. Cardinality(DOMAIN sessions')
           /\ \A i \in 1 .. n : sessions'[i] = sessions[i]
           /\ sessions'[n + 1] \in SessionRow /\ sessions'[n + 1].from = from
<1> DEFINE n == Cardinality(DOMAIN sessions)
<1>1. n \in Nat /\ DOMAIN sessions = 1 .. n
  BY FS_CardinalityType DEF CentralInv, CentralTypeOK
<1>2. IsFiniteSet(1 .. n + 1) /\ Cardinality(1 .. n + 1) = n + 1
  BY <1>1, FS_Interval
<1> DEFINE row == [user |-> user, cookie |-> cookie, access |-> tick + AccessTTL,
                   refresh |-> tick + RefreshTTL, login |-> tick, revoked |-> FALSE, from |-> from]
<1>3. row \in SessionRow /\ row.from = from
  BY CentralAssumption DEF SessionRow, CentralInv, CentralTypeOK
<1>4. sessions' = [i \in 1 .. n + 1 |-> IF i \in DOMAIN sessions THEN sessions[i] ELSE row]
  BY DEF CreateSession
<1> HIDE DEF n, row
<1> QED BY <1>1, <1>2, <1>3, <1>4

(* What every step does to the rows: none is deleted, changes where it came *)
(* from or comes back from its revocation.                                  *)
RowsEvolve ==
  \A i \in DOMAIN sessions :
    /\ i \in DOMAIN sessions' /\ sessions'[i].from = sessions[i].from
    /\ sessions[i].revoked => sessions'[i].revoked

(* A request of a callback moves on with the state it holds, or ends, and   *)
(* leaves the sessions alone.                                               *)
LEMMA CallbackMoves ==
  ASSUME CentralInv, NEW c \in Callbacks, NEW to \in CallbackRow,
         callback' = [callback EXCEPT ![c] = to],
         to.at = "idle" \/ (callback[c].at # "idle" /\ to.state = callback[c].state),
         usersOf' \subseteq Users, identity' \in Users,
         UNCHANGED <<tick, stateExpiry, sessions, refresher>>
  PROVE  CentralInv' /\ RowsEvolve
<1> USE DEF CentralInv, CentralTypeOK, CallbackRow
<1>1. CentralTypeOK'
  OBVIOUS
<1>2. /\ callback'[c] = to
      /\ \A d \in Callbacks \ {c} : callback'[d] = callback[d]
  OBVIOUS
<1>3. StateHeldOnce'
  BY <1>2 DEF StateHeldOnce, Unspent
<1>4. RefreshersKnowRows' /\ OneSessionPerState' /\ RowsEvolve
  BY DEF RefreshersKnowRows, OneSessionPerState, RowsEvolve
<1> QED BY <1>1, <1>3, <1>4

LEMMA IdleCallbackType == IdleCallback \in CallbackRow /\ IdleCallback.at = "idle"
  BY CentralAssumption DEF IdleCallback, CallbackRow, CallbackSteps, Users

LEMMA IdleRefresherType == IdleRefresher \in RefresherRow /\ IdleRefresher.at = "idle"
  BY DEF IdleRefresher, RefresherRow

(* The step of a callback, with its state as it was. *)
LEMMA CallbackStep ==
  ASSUME CentralInv, NEW c \in Callbacks, NEW step \in CallbackSteps, NEW user \in Users,
         callback[c].at # "idle"
  PROVE  LET to == [callback[c] EXCEPT !.at = step]
             with == [[callback[c] EXCEPT !.user = user] EXCEPT !.at = step]
         IN /\ to \in CallbackRow /\ to.state = callback[c].state
            /\ with \in CallbackRow /\ with.state = callback[c].state
  BY DEF CentralInv, CentralTypeOK, CallbackRow

LEMMA CallbackKeepsInv ==
  ASSUME CentralInv, NEW c \in Callbacks,
         ExchangeCode(c) \/ CallbackFails(c) \/ SelectIdentity(c) \/ SelectEmail(c) \/ InsertUser(c)
  PROVE  CentralInv' /\ RowsEvolve
<1> USE DEF CentralInv, CentralTypeOK
<1>1. CASE ExchangeCode(c)
  <2> DEFINE to == [callback[c] EXCEPT !.at = "identity"]
  <2>1. to \in CallbackRow /\ to.state = callback[c].state
    BY <1>1 DEF ExchangeCode, CallbackRow, CallbackSteps
  <2>2. callback' = [callback EXCEPT ![c] = to]
    BY <1>1 DEF ExchangeCode, GoCallback
  <2> HIDE DEF to
  <2> QED BY <1>1, <2>1, <2>2, CallbackMoves DEF ExchangeCode
<1>2. CASE CallbackFails(c)
  BY <1>2, CallbackMoves, IdleCallbackType DEF CallbackFails
<1>3. CASE SelectIdentity(c)
  <2> DEFINE step == IF identity # 0 THEN "session" ELSE "email"
  <2> DEFINE to == [at |-> step, state |-> callback[c].state, user |-> identity]
  <2>1. to \in CallbackRow /\ to.state = callback[c].state
    BY <1>3 DEF CallbackRow, CallbackSteps
  <2>2. callback' = [callback EXCEPT ![c] = to]
    BY <1>3 DEF SelectIdentity
  <2> HIDE DEF to
  <2> QED BY <1>3, <2>1, <2>2, CallbackMoves DEF SelectIdentity
<1>4. CASE SelectEmail(c)
  <2>1. CASE usersOf = {}
    <3> DEFINE to == [callback[c] EXCEPT !.at = "insert"]
    <3>1. to \in CallbackRow /\ to.state = callback[c].state
      BY <1>4 DEF CallbackRow, CallbackSteps
    <3>2. callback' = [callback EXCEPT ![c] = to] /\ UNCHANGED identity
      BY <1>4, <2>1 DEF SelectEmail, GoCallback
    <3> HIDE DEF to
    <3> QED BY <1>4, <3>1, <3>2, CallbackMoves DEF SelectEmail
  <2>2. CASE usersOf # {}
    <3>1. PICK u \in usersOf :
            LinkIdentity(u) /\ SignsIn(c, u)
      BY <1>4, <2>2 DEF SelectEmail
    <3> DEFINE to == [at |-> "session", state |-> callback[c].state, user |-> u]
    <3>2. to \in CallbackRow /\ to.state = callback[c].state
      BY DEF CallbackRow, CallbackSteps
    <3>3. callback' = [callback EXCEPT ![c] = to]
      BY <3>1 DEF SignsIn
    <3>4. identity' \in Users
      BY <3>1 DEF LinkIdentity
    <3> HIDE DEF to
    <3> QED BY <1>4, <3>2, <3>3, <3>4, CallbackMoves DEF SelectEmail
  <2> QED BY <2>1, <2>2
<1>5. CASE InsertUser(c)
  <2>1. CASE EmailFree
    <3> DEFINE u == Cardinality(usersOf) + 1
    <3>1. u = 1 /\ u \in Users
      BY <2>1, FS_EmptySet, CentralAssumption DEF EmailFree, Users
    <3> DEFINE to == [at |-> "session", state |-> callback[c].state, user |-> u]
    <3>2. to \in CallbackRow /\ to.state = callback[c].state
      BY <3>1 DEF CallbackRow, CallbackSteps
    <3> HIDE DEF u
    <3>3. callback' = [callback EXCEPT ![c] = to]
      BY <1>5, <2>1 DEF InsertUser, SignsIn, u
    <3>4. identity' \in Users /\ usersOf' \subseteq Users
      BY <1>5, <2>1, <3>1 DEF InsertUser, LinkIdentity, u
    <3> HIDE DEF to
    <3> QED BY <1>5, <3>2, <3>3, <3>4, CallbackMoves DEF InsertUser
  <2>2. CASE ~EmailFree
    BY <1>5, <2>2, CallbackMoves, IdleCallbackType DEF InsertUser
  <2> QED BY <2>1, <2>2
<1> QED BY <1>1, <1>2, <1>3, <1>4, <1>5

(* The row of a state is created while nobody holds it, and taken by one.   *)
LEMMA StateKeepsInv ==
  ASSUME CentralInv, NEW s \in OAuthStates, StartGoogle(s) \/ \E c \in Callbacks : ConsumeState(c, s)
  PROVE  CentralInv' /\ RowsEvolve
<1> USE DEF CentralInv, CentralTypeOK
<1>1. CASE StartGoogle(s)
  <2>1. CentralTypeOK'
    BY <1>1, CentralAssumption DEF StartGoogle
  <2>2. \A t \in OAuthStates \ {s} : stateExpiry'[t] = stateExpiry[t]
    BY <1>1 DEF StartGoogle
  <2>3. StateHeldOnce'
    BY <1>1, <2>2 DEF StartGoogle, StateHeldOnce, Unspent, SessionRow
  <2> QED
    BY <1>1, <2>1, <2>3 DEF StartGoogle, RefreshersKnowRows, OneSessionPerState, RowsEvolve
<1>2. ASSUME NEW c \in Callbacks, ConsumeState(c, s) PROVE CentralInv' /\ RowsEvolve
  <2> DEFINE to == [at |-> "exchange", state |-> s, user |-> 0]
  <2>2. to \in CallbackRow /\ to.state = s /\ to.at = "exchange"
    BY CentralAssumption DEF CallbackRow, CallbackSteps, Users
  <2>3. callback' = [callback EXCEPT ![c] = to]
    BY <1>2 DEF ConsumeState
  <2> HIDE DEF to
  <2>4. stateExpiry' = [stateExpiry EXCEPT ![s] = 0] /\ stateExpiry[s] # 0
    BY <1>2 DEF ConsumeState, StateConsumed
  <2>5. CentralTypeOK'
    <3>1. stateExpiry' \in [OAuthStates -> Nat]
      BY <2>4
    <3> QED BY <1>2, <2>2, <2>3, <3>1 DEF ConsumeState, CallbackRow
  <2>6. /\ callback'[c] = to
        /\ \A d \in Callbacks \ {c} : callback'[d] = callback[d]
    BY <2>3
  <2>7. \A d \in Callbacks : callback[d].at # "idle" => callback[d].state # s
    BY <2>4 DEF StateHeldOnce, Unspent
  <2>8. \A i \in DOMAIN sessions : sessions[i].from # s
    BY <2>4, CentralAssumption DEF StateHeldOnce, SessionRow
  <2>9. StateHeldOnce'
    BY <1>2, <2>2, <2>4, <2>6, <2>7, <2>8 DEF ConsumeState, StateHeldOnce, Unspent, SessionRow
  <2> QED
    BY <1>2, <2>5, <2>9 DEF ConsumeState, RefreshersKnowRows, OneSessionPerState, RowsEvolve
<1> QED BY <1>1, <1>2

LEMMA IssueKeepsInv ==
  ASSUME CentralInv, NEW c \in Callbacks, IssueSession(c)
  PROVE  CentralInv' /\ RowsEvolve
<1> USE DEF CentralInv, CentralTypeOK
<1> DEFINE s == callback[c].state
<1>1. s \in OAuthStates /\ s # "refresh" /\ Unspent(s) /\ callback[c].user \in Users
  BY CentralAssumption DEF IssueSession, StateHeldOnce, Unspent
<1>2. PICK cookie \in BOOLEAN : CreateSession(callback[c].user, cookie, s)
  BY DEF IssueSession
<1>3. PICK n \in Nat :
           /\ DOMAIN sessions = 1 .. n /\ DOMAIN sessions' = 1 .. n + 1
           /\ IsFiniteSet(DOMAIN sessions') /\ DOMAIN sessions' = 1 .. Cardinality(DOMAIN sessions')
           /\ \A i \in 1 .. n : sessions'[i] = sessions[i]
           /\ sessions'[n + 1] \in SessionRow /\ sessions'[n + 1].from = s
  BY <1>1, <1>2, NewSession
<1>4. /\ callback' = [callback EXCEPT ![c] = IdleCallback]
      /\ UNCHANGED <<tick, stateExpiry, usersOf, identity, refresher>>
  BY DEF IssueSession
<1>5. /\ callback'[c].at = "idle"
      /\ \A d \in Callbacks \ {c} : callback'[d] = callback[d]
  BY <1>4, IdleCallbackType
<1>6. CentralTypeOK'
  <2>1. \A i \in DOMAIN sessions' : sessions'[i] \in SessionRow
    BY <1>3
  <2> QED BY <1>3, <1>4, <2>1, IdleCallbackType DEF CallbackRow
<1>7. StateHeldOnce'
  <2>1. \A d \in Callbacks \ {c} : callback[d].at # "idle" => callback[d].state # s
    BY DEF IssueSession, StateHeldOnce
  <2>2. \A d \in Callbacks : callback'[d].at # "idle" =>
          d # c /\ callback'[d] = callback[d] /\ Unspent(callback[d].state) /\ callback[d].state # s
    BY <1>5, <2>1 DEF StateHeldOnce
  <2>3. ASSUME NEW d \in Callbacks, callback'[d].at # "idle"
        PROVE  /\ callback'[d].state \in OAuthStates /\ stateExpiry'[callback'[d].state] = 0
               /\ \A i \in DOMAIN sessions' : sessions'[i].from # callback'[d].state
    <3> DEFINE t == callback[d].state
    <3>1. callback'[d].state = t /\ Unspent(t) /\ t # s
      BY <2>2, <2>3
    <3>2. t \in OAuthStates /\ stateExpiry'[t] = 0
      BY <3>1, <1>4 DEF Unspent
    <3>3. \A i \in DOMAIN sessions' : sessions'[i].from # t
      <4>1. \A i \in 1 .. n : sessions[i].from # t
        BY <3>1, <1>3 DEF Unspent
      <4>2. \A i \in DOMAIN sessions' : i \in 1 .. n \/ i = n + 1
        BY <1>3
      <4> HIDE DEF s, t
      <4> QED BY <3>1, <1>3, <4>1, <4>2
    <3> QED BY <3>1, <3>2, <3>3
  <2>4. \A i \in DOMAIN sessions' : sessions'[i].from # "refresh" => stateExpiry'[sessions'[i].from] = 0
    <3>1. \A i \in 1 .. n : sessions[i].from # "refresh" => stateExpiry[sessions[i].from] = 0
      BY <1>3 DEF StateHeldOnce
    <3>2. stateExpiry[s] = 0
      BY <1>1 DEF Unspent
    <3>3. \A i \in DOMAIN sessions' : i \in 1 .. n \/ i = n + 1
      BY <1>3
    <3> HIDE DEF s
    <3> QED BY <1>3, <1>4, <3>1, <3>2, <3>3
  <2>5. ASSUME NEW d \in Callbacks, NEW e \in Callbacks, callback'[d].at # "idle", callback'[e].at # "idle",
               callback'[d].state = callback'[e].state
        PROVE  d = e
    BY <2>2, <2>5 DEF StateHeldOnce
  <2> QED BY <2>3, <2>4, <2>5 DEF StateHeldOnce, Unspent
<1>8. OneSessionPerState'
  BY <1>1, <1>3 DEF OneSessionPerState, Unspent
<1>9. RefreshersKnowRows' /\ RowsEvolve
  BY <1>3, <1>4 DEF RefreshersKnowRows, RowsEvolve
<1> QED BY <1>3, <1>6, <1>7, <1>8, <1>9

(* A request reads a row, changes nothing that matters in it, or ends.      *)
LEMMA RefresherMoves ==
  ASSUME CentralInv, NEW q \in Refreshers, NEW to \in RefresherRow,
         refresher' = [refresher EXCEPT ![q] = to], to.at # "idle" => to.row \in DOMAIN sessions,
         DOMAIN sessions' = DOMAIN sessions,
         \A i \in DOMAIN sessions :
           /\ sessions'[i] \in SessionRow /\ sessions'[i].from = sessions[i].from
           /\ sessions[i].revoked => sessions'[i].revoked,
         UNCHANGED <<tick, stateExpiry, usersOf, identity, callback>>
  PROVE  CentralInv' /\ RowsEvolve
<1> USE DEF CentralInv, CentralTypeOK, RefresherRow
<1>1. CentralTypeOK' /\ IsFiniteSet(DOMAIN sessions')
  OBVIOUS
<1>2. RefreshersKnowRows' /\ RowsEvolve
  BY DEF RefreshersKnowRows, RowsEvolve
<1>3. StateHeldOnce'
  BY DEF StateHeldOnce, Unspent
<1>4. OneSessionPerState'
  BY DEF OneSessionPerState
<1> QED BY <1>1, <1>2, <1>3, <1>4

LEMMA RefresherKeepsInv ==
  ASSUME CentralInv, NEW q \in Refreshers,
         \/ \E i \in DOMAIN sessions : SelectCookie(q, i) \/ SelectRefresh(q, i)
         \/ SlideSession(q) \/ RevokeRefreshed(q) \/ RefresherFails(q)
  PROVE  CentralInv' /\ RowsEvolve
<1> USE DEF CentralInv, CentralTypeOK
<1>1. ASSUME NEW i \in DOMAIN sessions, SelectCookie(q, i) PROVE CentralInv' /\ RowsEvolve
  <2> DEFINE to == [at |-> "slide", row |-> i, access |-> sessions[i].access]
  <2>1. i \in Nat
    BY FS_CardinalityType
  <2>2. to \in RefresherRow /\ to.row \in DOMAIN sessions
    BY <2>1 DEF RefresherRow, SessionRow
  <2>3. refresher' = [refresher EXCEPT ![q] = to]
    BY <1>1 DEF SelectCookie
  <2> HIDE DEF to
  <2> QED BY <1>1, <2>2, <2>3, RefresherMoves DEF SelectCookie
<1>2. ASSUME NEW i \in DOMAIN sessions, SelectRefresh(q, i) PROVE CentralInv' /\ RowsEvolve
  <2> DEFINE to == [at |-> "revoke", row |-> i, access |-> 0]
  <2>2. i \in Nat
    BY FS_CardinalityType
  <2>3. to \in RefresherRow /\ to.row \in DOMAIN sessions
    BY <2>2 DEF RefresherRow
  <2>4. refresher' = [refresher EXCEPT ![q] = to]
    BY <1>2 DEF SelectRefresh
  <2> HIDE DEF to
  <2> QED BY <1>2, <2>3, <2>4, RefresherMoves DEF SelectRefresh
<1>3. CASE SlideSession(q)
  <2> DEFINE i == refresher[q].row
             end == SlideTo(sessions[i])
  <2>1. i \in DOMAIN sessions
    BY <1>3 DEF SlideSession, RefreshersKnowRows
  <2>2. end \in Nat
    <3>1. sessions[i] \in SessionRow
      BY <2>1
    <3>2. sessions[i].login \in Nat /\ tick \in Nat
      BY <3>1 DEF SessionRow
    <3>3. MaxAge \in Nat /\ IdleTimeout \in Nat
      BY CentralAssumption
    <3>4. tick + IdleTimeout \in Nat /\ sessions[i].login + MaxAge \in Nat
      BY <3>2, <3>3
    <3> QED BY <3>4 DEF SlideTo, Earlier
  <2>3. sessions' = IF end > refresher[q].access
                    THEN [sessions EXCEPT ![i] = [sessions[i] EXCEPT !.access = end]] ELSE sessions
    BY <1>3 DEF SlideSession, SlideRow
  <2> HIDE DEF i, end
  <2>4. /\ DOMAIN sessions' = DOMAIN sessions
        /\ \A j \in DOMAIN sessions :
             /\ sessions'[j] \in SessionRow /\ sessions'[j].from = sessions[j].from
             /\ sessions[j].revoked => sessions'[j].revoked
    BY <2>1, <2>2, <2>3 DEF SessionRow
  <2> QED BY <1>3, <2>4, RefresherMoves, IdleRefresherType DEF SlideSession
<1>4. CASE RevokeRefreshed(q)
  <2> DEFINE i == refresher[q].row
             to == [refresher[q] EXCEPT !.at = "create"]
  <2>1. i \in DOMAIN sessions
    BY <1>4 DEF RevokeRefreshed, RefreshersKnowRows
  <2>2. sessions' = [sessions EXCEPT ![i].revoked = TRUE] /\ refresher' = [refresher EXCEPT ![q] = to]
    BY <1>4 DEF RevokeRefreshed
  <2>3. to \in RefresherRow /\ to.row = i
    BY DEF RefresherRow
  <2> HIDE DEF i, to
  <2>4. /\ DOMAIN sessions' = DOMAIN sessions
        /\ \A j \in DOMAIN sessions :
             /\ sessions'[j] \in SessionRow /\ sessions'[j].from = sessions[j].from
             /\ sessions[j].revoked => sessions'[j].revoked
    BY <2>1, <2>2 DEF SessionRow
  <2> QED BY <1>4, <2>1, <2>2, <2>3, <2>4, RefresherMoves DEF RevokeRefreshed
<1>5. CASE RefresherFails(q)
  BY <1>5, RefresherMoves, IdleRefresherType DEF RefresherFails
<1> QED BY <1>1, <1>2, <1>3, <1>4, <1>5

LEMMA RefreshedKeepsInv ==
  ASSUME CentralInv, NEW q \in Refreshers, CreateRefreshed(q)
  PROVE  CentralInv' /\ RowsEvolve
<1> USE DEF CentralInv, CentralTypeOK
<1> DEFINE row == sessions[refresher[q].row]
<1>1. row \in SessionRow
  BY DEF CreateRefreshed, RefreshersKnowRows
<1>2. row.user \in Users /\ row.cookie \in BOOLEAN
  BY <1>1 DEF SessionRow
<1>3. CreateSession(row.user, row.cookie, "refresh")
  BY DEF CreateRefreshed
<1> HIDE DEF row
<1>4. PICK n \in Nat :
           /\ DOMAIN sessions = 1 .. n /\ DOMAIN sessions' = 1 .. n + 1
           /\ IsFiniteSet(DOMAIN sessions') /\ DOMAIN sessions' = 1 .. Cardinality(DOMAIN sessions')
           /\ \A i \in 1 .. n : sessions'[i] = sessions[i]
           /\ sessions'[n + 1] \in SessionRow /\ sessions'[n + 1].from = "refresh"
  BY <1>2, <1>3, NewSession
<1>5. /\ refresher' = [refresher EXCEPT ![q] = IdleRefresher]
      /\ UNCHANGED <<tick, stateExpiry, usersOf, identity, callback>>
  BY DEF CreateRefreshed
<1>6. CentralTypeOK'
  <2>1. \A i \in DOMAIN sessions' : sessions'[i] \in SessionRow
    BY <1>4
  <2> QED BY <1>4, <1>5, <2>1, IdleRefresherType DEF RefresherRow
<1>7. RefreshersKnowRows' /\ RowsEvolve
  BY <1>4, <1>5, IdleRefresherType DEF RefreshersKnowRows, RowsEvolve
<1>8. StateHeldOnce'
  <2>1. \A i \in DOMAIN sessions' : i \in 1 .. n \/ sessions'[i].from = "refresh"
    <3>1. \A i \in 1 .. n + 1 : i \in 1 .. n \/ i = n + 1
      OBVIOUS
    <3> QED BY <1>4, <3>1
  <2>2. \A i \in DOMAIN sessions' : sessions'[i].from # "refresh" => stateExpiry'[sessions'[i].from] = 0
    BY <1>4, <1>5, <2>1 DEF StateHeldOnce
  <2>3. ASSUME NEW c \in Callbacks, callback'[c].at # "idle"
        PROVE  /\ callback'[c].state \in OAuthStates /\ stateExpiry'[callback'[c].state] = 0
               /\ \A i \in DOMAIN sessions' : sessions'[i].from # callback'[c].state
    <3> DEFINE t == callback[c].state
    <3>1. t \in OAuthStates /\ stateExpiry[t] = 0 /\ \A i \in DOMAIN sessions : sessions[i].from # t
      BY <1>5, <2>3 DEF StateHeldOnce, Unspent
    <3>2. t # "refresh"
      BY <3>1, CentralAssumption
    <3>3. \A i \in DOMAIN sessions' : sessions'[i].from # t
      BY <1>4, <2>1, <3>1, <3>2
    <3> QED BY <1>5, <3>1, <3>3
  <2>4. \A c, d \in Callbacks :
          callback'[c].at # "idle" /\ callback'[d].at # "idle" /\ callback'[c].state = callback'[d].state
          => c = d
    BY <1>5 DEF StateHeldOnce
  <2> QED BY <2>1, <2>2, <2>3, <2>4 DEF StateHeldOnce, Unspent
<1>9. OneSessionPerState'
  <2>1. \A i \in DOMAIN sessions' : i \in 1 .. n \/ i = n + 1
    BY <1>4
  <2>2. \A i, j \in 1 .. n : sessions'[i].from = sessions'[j].from /\ sessions'[i].from # "refresh" => i = j
    BY <1>4 DEF OneSessionPerState
  <2>3. sessions'[n + 1].from = "refresh"
    BY <1>4
  <2> QED BY <2>1, <2>2, <2>3 DEF OneSessionPerState
<1> QED BY <1>4, <1>6, <1>7, <1>8, <1>9

LEMMA RevokeKeepsInv ==
  ASSUME CentralInv, NEW i \in DOMAIN sessions, RevokeSession(i)
  PROVE  CentralInv' /\ RowsEvolve
<1> USE DEF CentralInv, CentralTypeOK
<1>1. /\ DOMAIN sessions' = DOMAIN sessions
      /\ \A j \in DOMAIN sessions :
           /\ sessions'[j] \in SessionRow /\ sessions'[j].from = sessions[j].from
           /\ sessions[j].revoked => sessions'[j].revoked
  BY DEF RevokeSession, SessionRow
<1>2. CentralTypeOK' /\ IsFiniteSet(DOMAIN sessions')
  BY <1>1 DEF RevokeSession
<1>3. RefreshersKnowRows' /\ RowsEvolve /\ StateHeldOnce' /\ OneSessionPerState'
  BY <1>1 DEF RevokeSession, RefreshersKnowRows, RowsEvolve, StateHeldOnce, Unspent, OneSessionPerState
<1> QED BY <1>2, <1>3

LEMMA CentralStep == CentralInv /\ [CentralNext]_centralVars => CentralInv' /\ RowsEvolve
<1> SUFFICES ASSUME CentralInv, [CentralNext]_centralVars PROVE CentralInv' /\ RowsEvolve
  OBVIOUS
<1>1. CASE Tick \/ UNCHANGED centralVars
  <2>1. UNCHANGED <<stateExpiry, usersOf, identity, sessions, callback, refresher>>
    BY <1>1 DEF Tick, centralVars
  <2>2. tick' \in 1 .. LastTick
    BY <1>1, CentralAssumption DEF Tick, centralVars, CentralInv, CentralTypeOK
  <2>3. CentralTypeOK' /\ IsFiniteSet(DOMAIN sessions')
    BY <2>1, <2>2 DEF CentralInv, CentralTypeOK
  <2> QED
    BY <2>1, <2>3 DEF CentralInv, RefreshersKnowRows, StateHeldOnce, Unspent, OneSessionPerState, RowsEvolve
<1>2. CASE CentralNext /\ ~Tick
  BY <1>2, StateKeepsInv, CallbackKeepsInv, IssueKeepsInv, RefresherKeepsInv, RefreshedKeepsInv,
     RevokeKeepsInv DEF CentralNext
<1> QED BY <1>1, <1>2

LEMMA CentralInvAlways == CentralSpec => []CentralInv
  BY CentralInvInit, CentralStep, PTL DEF CentralSpec

(* A state that Google brings back, however often and to however many       *)
(* requests, becomes one session at most (consumeState).                    *)
THEOREM OneSignInPerState == CentralSpec => []OneSessionPerState
<1>1. CentralInv => OneSessionPerState
  BY DEF CentralInv
<1> QED BY <1>1, CentralInvAlways, PTL

(* A revoked session stays revoked, whatever slide or refresh has read its  *)
(* row before: the statements that follow write other columns or rows.      *)
THEOREM RevocationIsFinal == CentralSpec => RevokedStaysRevoked
<1>1. CentralInv /\ [CentralNext]_centralVars =>
        [\A i \in DOMAIN sessions : sessions[i].revoked => sessions'[i].revoked]_centralVars
  BY CentralStep DEF RowsEvolve
<1> QED BY <1>1, CentralInvAlways, PTL DEF CentralSpec, RevokedStaysRevoked

-------------------------------------------------------------------------------
(* Users, identities and learning pairs, for any requests that overlap.     *)

(* The rows of a user's pairs, one of them active at most.                 *)
PairRows == UNION {[S -> BOOLEAN] : S \in SUBSET TargetLanguages}
NeverTwo(rows) == \A a, b \in DOMAIN rows : rows[a] /\ rows[b] => a = b

PairsFit(ps, there) ==
  /\ DOMAIN ps = UserIds
  /\ \A u \in UserIds : ps[u] \in PairRows /\ NeverTwo(ps[u]) /\ (u \notin there => ps[u] = NoPairs)

AccountSteps == {"idle", "sync", "make room", "add", "deactivate", "activate", "rename", "remove", "merge"}

(* What a request brings to its write.                                     *)
AccountFits(q) ==
  /\ q.at \in AccountSteps
  /\ q.at = "sync" => q.subject \in Subjects
  /\ q.at \in {"make room", "add"} =>
       q.user \in UserIds /\ q.language \in TargetLanguages /\ q.active \in BOOLEAN
  /\ q.at \in {"deactivate", "activate", "rename", "remove"} => q.user \in UserIds
  /\ q.at = "rename" => q.new \in TargetLanguages

RequestsFit(rs) == DOMAIN rs = AccountRequests /\ \A r \in AccountRequests : AccountFits(rs[r])

(* No user is merged into itself. *)
TwoMerge == \A m \in merges : m.source # m.target

AccountsInv ==
  /\ AccountsTypeOK /\ PairsFit(pairs, users) /\ RequestsFit(accountRequest) /\ TwoMerge

LEMMA NoPairsFit == NoPairs \in PairRows /\ NeverTwo(NoPairs) /\ DOMAIN NoPairs = {}
<1>1. DOMAIN NoPairs = {} /\ NoPairs \in [{} -> BOOLEAN]
  BY DEF NoPairs
<1> QED BY <1>1 DEF PairRows, NeverTwo

LEMMA PairRowsType ==
  ASSUME NEW rows \in PairRows
  PROVE  /\ DOMAIN rows \subseteq TargetLanguages /\ \A language \in DOMAIN rows : rows[language] \in BOOLEAN
         /\ rows \in [DOMAIN rows -> BOOLEAN]
  BY DEF PairRows

LEMMA MakesPairRows ==
  ASSUME NEW S \in SUBSET TargetLanguages, NEW rows \in [S -> BOOLEAN]
  PROVE  rows \in PairRows /\ DOMAIN rows = S
  BY DEF PairRows

(* The index, as the commit checks it. *)
LEMMA IndexMeansOne ==
  ASSUME NEW rows \in PairRows, ActiveIndex(rows)
  PROVE  NeverTwo(rows)
<1> SUFFICES ASSUME NEW a \in DOMAIN rows, NEW b \in DOMAIN rows, rows[a], rows[b], a # b
             PROVE  FALSE
  BY DEF NeverTwo
<1> DEFINE S == ActiveOf(rows)
<1>1. a \in S /\ b \in S /\ S \subseteq TargetLanguages
  BY PairRowsType DEF ActiveOf
<1>2. IsFiniteSet(S) /\ Cardinality(S) \in Nat /\ Cardinality(S) <= 1
  BY <1>1, AccountsAssumption, FS_Subset, FS_CardinalityType DEF ActiveIndex
<1> HIDE DEF S
<1> QED BY <1>1, <1>2, AtMostOne

(* The types follow from the parts.                                        *)
LEMMA TypesFollow ==
  ASSUME users \subseteq UserIds, retired \subseteq UserIds \ users,
         bound \in [Subjects -> users \cup {"none"}], PairsFit(pairs, users),
         merges \subseteq [source : users, target : users], RequestsFit(accountRequest),
         accountRequests \in 0 .. MaxAccountRequests
  PROVE  AccountsTypeOK
  BY PairRowsType DEF AccountsTypeOK, PairsFit, RequestsFit, AccountFits, AccountSteps

LEMMA AccountsInvInit == AccountsInit => AccountsInv
<1> SUFFICES ASSUME AccountsInit PROVE AccountsInv
  OBVIOUS
<1> DEFINE first == [language \in {DefaultTarget} |-> TRUE]
<1>1. first \in PairRows /\ NeverTwo(first)
  <2>1. first \in [{DefaultTarget} -> BOOLEAN] /\ {DefaultTarget} \in SUBSET TargetLanguages
    BY AccountsAssumption
  <2> QED BY <2>1, MakesPairRows DEF NeverTwo
<1> HIDE DEF first
<1>2. pairs = [u \in UserIds |-> IF u \in SeededUsers THEN first ELSE NoPairs] /\ users = SeededUsers
  BY DEF AccountsInit, first
<1>3. PairsFit(pairs, users)
  BY <1>1, <1>2, NoPairsFit DEF PairsFit
<1>4. RequestsFit(accountRequest)
  BY DEF AccountsInit, RequestsFit, AccountFits, AccountSteps, NoAccountRequest
<1>5. TwoMerge /\ merges \subseteq [source : users, target : users]
  BY DEF AccountsInit, TwoMerge
<1>6. /\ users \subseteq UserIds /\ retired \subseteq UserIds \ users
      /\ bound \in [Subjects -> users \cup {"none"}] /\ accountRequests \in 0 .. MaxAccountRequests
  BY AccountsAssumption DEF AccountsInit
<1> QED BY <1>3, <1>4, <1>5, <1>6, TypesFollow DEF AccountsInv

(* The bound on the requests begun. *)
LEMMA CountGoesOn ==
  ASSUME AccountsInv, accountRequests < MaxAccountRequests, accountRequests' = accountRequests + 1
  PROVE  accountRequests' \in 0 .. MaxAccountRequests
<1>1. accountRequests \in 0 .. MaxAccountRequests
  BY DEF AccountsInv, AccountsTypeOK
<1> QED BY <1>1, AccountsAssumption

(* A request begins or goes on. *)
LEMMA RequestGoesOn ==
  ASSUME RequestsFit(accountRequest), NEW r \in AccountRequests, NEW q, AccountFits(q),
         accountRequest' = [accountRequest EXCEPT ![r] = q]
  PROVE  RequestsFit(accountRequest')
  BY DEF RequestsFit

LEMMA RequestBegins ==
  ASSUME AccountsInv, NEW r \in AccountRequests, NEW q, AccountFits(q), BeginRequest(r, q),
         UNCHANGED <<users, retired, bound, pairs, merges>>
  PROVE  AccountsInv'
<1>1. RequestsFit(accountRequest')
  BY RequestGoesOn DEF AccountsInv, BeginRequest
<1>2. accountRequests' \in 0 .. MaxAccountRequests
  BY CountGoesOn DEF BeginRequest
<1>3. AccountsTypeOK'
  BY <1>1, <1>2 DEF AccountsInv, AccountsTypeOK, RequestsFit, AccountFits, AccountSteps
<1> QED BY <1>1, <1>3 DEF AccountsInv, TwoMerge

LEMMA RequestEnds ==
  ASSUME AccountsInv, NEW r \in AccountRequests, EndRequest(r)
  PROVE  RequestsFit(accountRequest') /\ accountRequests' \in 0 .. MaxAccountRequests
<1>1. AccountFits(NoAccountRequest)
  BY DEF AccountFits, AccountSteps, NoAccountRequest
<1> QED BY <1>1, RequestGoesOn DEF AccountsInv, AccountsTypeOK, EndRequest

(* The write of one user's rows. *)
LEMMA PairsWritten ==
  ASSUME AccountsInv, NEW r \in AccountRequests, EndRequest(r),
         UNCHANGED <<users, retired, bound, merges>>,
         NEW u \in UserIds, NEW rows \in PairRows, NeverTwo(rows), u \notin users => rows = NoPairs,
         pairs' = [pairs EXCEPT ![u] = rows]
  PROVE  AccountsInv'
<1>1. RequestsFit(accountRequest') /\ accountRequests' \in 0 .. MaxAccountRequests
  BY RequestEnds
<1>2. PairsFit(pairs', users')
  BY DEF AccountsInv, PairsFit
<1>3. AccountsTypeOK'
  BY <1>1, <1>2, PairRowsType
     DEF AccountsInv, AccountsTypeOK, PairsFit, RequestsFit, AccountFits, AccountSteps
<1> QED BY <1>1, <1>2, <1>3 DEF AccountsInv, TwoMerge

LEMMA PairsKept ==
  ASSUME AccountsInv, NEW r \in AccountRequests, EndRequest(r),
         UNCHANGED <<users, retired, bound, merges, pairs>>
  PROVE  AccountsInv'
<1>1. RequestsFit(accountRequest') /\ accountRequests' \in 0 .. MaxAccountRequests
  BY RequestEnds
<1>2. AccountsTypeOK'
  BY <1>1 DEF AccountsInv, AccountsTypeOK, RequestsFit, AccountFits, AccountSteps
<1> QED BY <1>1, <1>2 DEF AccountsInv, TwoMerge

LEMMA WriteKeepsInv ==
  ASSUME AccountsInv, NEW r \in AccountRequests, EndRequest(r),
         UNCHANGED <<users, retired, bound, merges>>,
         NEW u \in UserIds, NEW rows \in PairRows, WritePairs(u, rows)
  PROVE  AccountsInv'
<1>1. CASE u \in users /\ ActiveIndex(rows)
  <2>1. NeverTwo(rows) /\ pairs' = [pairs EXCEPT ![u] = rows]
    BY <1>1, IndexMeansOne DEF WritePairs
  <2> QED BY <1>1, <2>1, PairsWritten
<1>2. CASE ~(u \in users /\ ActiveIndex(rows))
  BY <1>2, PairsKept DEF WritePairs
<1> QED BY <1>1, <1>2

(* The requests, at their first read. *)
LEMMA AccountsReads ==
  ASSUME AccountsInv, NEW r \in AccountRequests
  PROVE  /\ \A x \in Subjects : LookUpIdentity(r, x) => AccountsInv'
         /\ \A u \in UserIds, language \in TargetLanguages :
              /\ \A setActive \in BOOLEAN : AddUserLanguage(r, u, language, setActive) => AccountsInv'
              /\ \A new \in TargetLanguages : UpdateUserLanguage(r, u, language, new) => AccountsInv'
              /\ SetActiveUserLanguage(r, u, language) => AccountsInv'
              /\ RemoveUserLanguage(r, u, language) => AccountsInv'
         /\ \A m \in merges : ConfirmMergeRequest(r, m) => AccountsInv'
<1>1. ASSUME NEW x \in Subjects, LookUpIdentity(r, x) PROVE AccountsInv'
  <2> DEFINE q == [at |-> "sync", subject |-> x, user |-> bound[x]]
  <2>1. AccountFits(q)
    BY DEF AccountFits, AccountSteps
  <2>2. BeginRequest(r, q) /\ UNCHANGED <<users, retired, bound, pairs, merges>>
    BY <1>1 DEF LookUpIdentity
  <2> HIDE DEF q
  <2> QED BY <2>1, <2>2, RequestBegins
<1>2. ASSUME NEW u \in UserIds, NEW language \in TargetLanguages, NEW setActive \in BOOLEAN,
             AddUserLanguage(r, u, language, setActive)
      PROVE  AccountsInv'
  <2> DEFINE active == setActive \/ pairs[u] = NoPairs
             q == [at |-> IF active THEN "make room" ELSE "add", user |-> u, language |-> language,
                   old |-> {}, active |-> active]
  <2>1. AccountFits(q)
    BY DEF AccountFits, AccountSteps
  <2>2. BeginRequest(r, q) /\ UNCHANGED <<users, retired, bound, pairs, merges>>
    BY <1>2 DEF AddUserLanguage
  <2> HIDE DEF q
  <2> QED BY <2>1, <2>2, RequestBegins
<1>3. ASSUME NEW u \in UserIds, NEW language \in TargetLanguages, NEW new \in TargetLanguages,
             UpdateUserLanguage(r, u, language, new)
      PROVE  AccountsInv'
  <2> DEFINE q == [at |-> "rename", user |-> u, old |-> language, new |-> new]
  <2>1. AccountFits(q)
    BY DEF AccountFits, AccountSteps
  <2>2. BeginRequest(r, q) /\ UNCHANGED <<users, retired, bound, pairs, merges>>
    BY <1>3 DEF UpdateUserLanguage
  <2> HIDE DEF q
  <2> QED BY <2>1, <2>2, RequestBegins
<1>4. ASSUME NEW u \in UserIds, NEW language \in TargetLanguages, SetActiveUserLanguage(r, u, language)
      PROVE  AccountsInv'
  <2> DEFINE q == [at |-> "deactivate", user |-> u, language |-> language]
  <2>1. AccountFits(q)
    BY DEF AccountFits, AccountSteps
  <2>2. BeginRequest(r, q) /\ UNCHANGED <<users, retired, bound, pairs, merges>>
    BY <1>4 DEF SetActiveUserLanguage
  <2> HIDE DEF q
  <2> QED BY <2>1, <2>2, RequestBegins
<1>5. ASSUME NEW u \in UserIds, NEW language \in TargetLanguages, RemoveUserLanguage(r, u, language)
      PROVE  AccountsInv'
  <2> DEFINE q == [at |-> "remove", user |-> u, language |-> language, wasActive |-> pairs[u][language]]
  <2>1. AccountFits(q)
    BY DEF AccountFits, AccountSteps
  <2>2. BeginRequest(r, q) /\ UNCHANGED <<users, retired, bound, pairs, merges>>
    BY <1>5 DEF RemoveUserLanguage
  <2> HIDE DEF q
  <2> QED BY <2>1, <2>2, RequestBegins
<1>6. ASSUME NEW m \in merges, ConfirmMergeRequest(r, m) PROVE AccountsInv'
  <2> DEFINE q == [at |-> "merge", merge |-> m]
  <2>1. AccountFits(q)
    BY DEF AccountFits, AccountSteps
  <2>2. BeginRequest(r, q) /\ UNCHANGED <<users, retired, bound, pairs, merges>>
    BY <1>6 DEF ConfirmMergeRequest
  <2> HIDE DEF q
  <2> QED BY <2>1, <2>2, RequestBegins
<1> QED BY <1>1, <1>2, <1>3, <1>4, <1>5, <1>6

LEMMA DeactivateOthersKeepsInv ==
  ASSUME AccountsInv, NEW r \in AccountRequests, DeactivateOthers(r)
  PROVE  AccountsInv'
<1> DEFINE p == accountRequest[r]
           q == [at |-> "add", user |-> p.user, language |-> p.language, old |-> ActiveOf(pairs[p.user]),
                 active |-> TRUE]
<1>1. AccountFits(p) /\ p.at = "make room"
  BY DEF AccountsInv, RequestsFit, DeactivateOthers
<1>2. AccountFits(q)
  BY <1>1 DEF AccountFits, AccountSteps
<1>3. /\ accountRequest' = [accountRequest EXCEPT ![r] = q]
      /\ UNCHANGED <<users, retired, bound, pairs, merges, accountRequests>>
  BY DEF DeactivateOthers
<1> HIDE DEF q
<1>4. RequestsFit(accountRequest')
  BY <1>2, <1>3, RequestGoesOn DEF AccountsInv
<1>5. AccountsTypeOK'
  BY <1>3, <1>4 DEF AccountsInv, AccountsTypeOK, RequestsFit, AccountFits, AccountSteps
<1> QED BY <1>3, <1>4, <1>5 DEF AccountsInv, TwoMerge

LEMMA FindActiveKeepsInv ==
  ASSUME AccountsInv, NEW r \in AccountRequests, FindActive(r)
  PROVE  AccountsInv'
<1> DEFINE p == accountRequest[r]
           q == [at |-> "activate", user |-> p.user, language |-> p.language, old |-> ActiveOf(pairs[p.user])]
<1>1. AccountFits(p) /\ p.at = "deactivate"
  BY DEF AccountsInv, RequestsFit, FindActive
<1>2. AccountFits(q)
  BY <1>1 DEF AccountFits, AccountSteps
<1>3. /\ accountRequest' = [accountRequest EXCEPT ![r] = q]
      /\ UNCHANGED <<users, retired, bound, pairs, merges, accountRequests>>
  BY DEF FindActive
<1> HIDE DEF q
<1>4. RequestsFit(accountRequest')
  BY <1>2, <1>3, RequestGoesOn DEF AccountsInv
<1>5. AccountsTypeOK'
  BY <1>3, <1>4 DEF AccountsInv, AccountsTypeOK, RequestsFit, AccountFits, AccountSteps
<1> QED BY <1>3, <1>4, <1>5 DEF AccountsInv, TwoMerge

(* The default pair of a user who has none. *)
LEMMA DefaultPair ==
  OnlyActive(NoPairs, DefaultTarget) \in PairRows /\ NeverTwo(OnlyActive(NoPairs, DefaultTarget))
<1> DEFINE rows == OnlyActive(NoPairs, DefaultTarget)
<1>1. rows \in [{DefaultTarget} -> BOOLEAN]
  BY NoPairsFit DEF OnlyActive
<1>2. {DefaultTarget} \in SUBSET TargetLanguages
  BY AccountsAssumption
<1> HIDE DEF rows
<1>3. rows \in PairRows
  BY <1>1, <1>2, MakesPairRows
<1>4. NeverTwo(rows)
  BY <1>1 DEF NeverTwo
<1> QED BY <1>3, <1>4 DEF rows

LEMMA SyncUserKeepsInv ==
  ASSUME AccountsInv, NEW r \in AccountRequests, SyncUser(r)
  PROVE  AccountsInv'
<1> DEFINE q == accountRequest[r]
           default == OnlyActive(NoPairs, DefaultTarget)
           withPair(u) == IF pairs[u] = NoPairs THEN [pairs EXCEPT ![u] = default] ELSE pairs
<1>1. AccountFits(q) /\ q.at = "sync" /\ q.subject \in Subjects
  BY DEF AccountsInv, RequestsFit, AccountFits, SyncUser
<1>2. EndRequest(r) /\ UNCHANGED <<retired, merges>>
  BY DEF SyncUser
<1>3. RequestsFit(accountRequest') /\ accountRequests' \in 0 .. MaxAccountRequests
  BY <1>2, RequestEnds
<1>4. default \in PairRows /\ NeverTwo(default)
  BY DefaultPair
<1> HIDE DEF default
<1>5. CASE q.user = "none" /\ bound[q.subject] = "none"
  <2>1. PICK u \in UserIds \ (users \cup retired) :
             users' = users \cup {u} /\ bound' = [bound EXCEPT ![q.subject] = u] /\ pairs' = withPair(u)
    BY <1>5 DEF SyncUser, default
  <2>2. pairs' = [pairs EXCEPT ![u] = default]
    BY <2>1 DEF AccountsInv, PairsFit
  <2>3. PairsFit(pairs', users')
    BY <2>1, <2>2, <1>4 DEF AccountsInv, PairsFit
  <2>4. /\ users' \subseteq UserIds /\ retired' \subseteq UserIds \ users'
        /\ bound' \in [Subjects -> users' \cup {"none"}]
        /\ merges' \subseteq [source : users', target : users']
    BY <2>1, <1>1, <1>2 DEF AccountsInv, AccountsTypeOK
  <2>5. AccountsTypeOK'
    BY <2>3, <2>4, <1>3, PairRowsType
       DEF AccountsTypeOK, PairsFit, RequestsFit, AccountFits, AccountSteps
  <2> QED BY <2>3, <2>5, <1>2, <1>3 DEF AccountsInv, TwoMerge
<1>6. CASE ~(q.user = "none" /\ bound[q.subject] = "none")
  <2>1. /\ pairs' = IF q.user \in users THEN withPair(q.user) ELSE pairs
        /\ UNCHANGED <<users, bound>>
    BY <1>6 DEF SyncUser, default
  <2>2. CASE q.user \in users /\ pairs[q.user] = NoPairs
    <3>1. pairs' = [pairs EXCEPT ![q.user] = default] /\ q.user \in UserIds
      BY <2>1, <2>2 DEF AccountsInv, AccountsTypeOK
    <3> QED BY <3>1, <2>1, <2>2, <1>2, <1>4, PairsWritten
  <2>3. CASE ~(q.user \in users /\ pairs[q.user] = NoPairs)
    <3>1. pairs' = pairs
      BY <2>1, <2>3
    <3> QED BY <3>1, <2>1, <1>2, PairsKept
  <2> QED BY <2>2, <2>3
<1> QED BY <1>5, <1>6

LEMMA InsertPairKeepsInv ==
  ASSUME AccountsInv, NEW r \in AccountRequests, InsertPair(r)
  PROVE  AccountsInv'
<1> DEFINE q == accountRequest[r]
           rows == pairs[q.user]
           more == [other \in DOMAIN rows \cup {q.language} |->
                      IF other = q.language THEN q.active
                      ELSE rows[other] /\ other \notin q.old]
<1>1. q.user \in UserIds /\ q.language \in TargetLanguages /\ q.active \in BOOLEAN
  BY DEF AccountsInv, RequestsFit, AccountFits, InsertPair
<1>2. EndRequest(r) /\ UNCHANGED <<users, retired, bound, merges>>
  BY DEF InsertPair
<1>3. CASE q.language \in DOMAIN rows
  BY <1>2, <1>3, PairsKept DEF InsertPair
<1>4. CASE q.language \notin DOMAIN rows
  <2>1. rows \in PairRows
    BY <1>1 DEF AccountsInv, PairsFit
  <2>2. DOMAIN rows \subseteq TargetLanguages /\ rows \in [DOMAIN rows -> BOOLEAN]
    BY <2>1, PairRowsType
  <2> DEFINE S == DOMAIN rows \cup {q.language}
  <2>3. S \in SUBSET TargetLanguages /\ more \in [S -> BOOLEAN]
    BY <1>1, <2>2
  <2>4. WritePairs(q.user, more)
    BY <1>4 DEF InsertPair
  <2> HIDE DEF more, S
  <2>5. more \in PairRows
    BY <2>3, MakesPairRows
  <2> QED BY <1>1, <1>2, <2>4, <2>5, WriteKeepsInv
<1> QED BY <1>3, <1>4

LEMMA ActivatePairKeepsInv ==
  ASSUME AccountsInv, NEW r \in AccountRequests, ActivatePair(r)
  PROVE  AccountsInv'
<1> DEFINE q == accountRequest[r]
           rows == pairs[q.user]
           now == [other \in DOMAIN rows |-> other = q.language \/ (rows[other] /\ other \notin q.old)]
<1>1. q.user \in UserIds
  BY DEF AccountsInv, RequestsFit, AccountFits, ActivatePair
<1>2. EndRequest(r) /\ UNCHANGED <<users, retired, bound, merges>> /\ WritePairs(q.user, now)
  BY DEF ActivatePair
<1>3. rows \in PairRows
  BY <1>1 DEF AccountsInv, PairsFit
<1> DEFINE S == DOMAIN rows
<1>4. S \in SUBSET TargetLanguages /\ now \in [S -> BOOLEAN]
  BY <1>3, PairRowsType
<1> HIDE DEF now, S
<1>5. now \in PairRows
  BY <1>4, MakesPairRows
<1> QED BY <1>1, <1>2, <1>5, WriteKeepsInv

LEMMA RenamePairKeepsInv ==
  ASSUME AccountsInv, NEW r \in AccountRequests, RenamePair(r)
  PROVE  AccountsInv'
<1> DEFINE q == accountRequest[r]
           rows == pairs[q.user]
           S == (DOMAIN rows \ {q.old}) \cup {q.new}
           renamed == [other \in S |-> IF other = q.new THEN rows[q.old] ELSE rows[other]]
<1>1. q.user \in UserIds /\ q.new \in TargetLanguages
  BY DEF AccountsInv, RequestsFit, AccountFits, RenamePair
<1>2. EndRequest(r) /\ UNCHANGED <<users, retired, bound, merges>>
  BY DEF RenamePair
<1>3. CASE q.old \notin DOMAIN rows \/ q.new \in DOMAIN rows
  BY <1>2, <1>3, PairsKept DEF RenamePair
<1>4. CASE q.old \in DOMAIN rows /\ q.new \notin DOMAIN rows
  <2>1. rows \in PairRows /\ NeverTwo(rows) /\ (q.user \notin users => rows = NoPairs)
    BY <1>1 DEF AccountsInv, PairsFit
  <2>2. DOMAIN rows \subseteq TargetLanguages /\ rows \in [DOMAIN rows -> BOOLEAN]
    BY <2>1, PairRowsType
  <2>3. S \in SUBSET TargetLanguages /\ renamed \in [S -> BOOLEAN]
    BY <1>1, <1>4, <2>2
  <2>4. NeverTwo(renamed)
    BY <1>4, <2>1 DEF NeverTwo
  <2>5. q.user \in users
    BY <1>4, <2>1, NoPairsFit
  <2>6. pairs' = [pairs EXCEPT ![q.user] = renamed]
    BY <1>4 DEF RenamePair
  <2> HIDE DEF renamed, S
  <2>7. renamed \in PairRows
    BY <2>3, MakesPairRows
  <2> QED BY <1>1, <1>2, <2>4, <2>5, <2>6, <2>7, PairsWritten
<1> QED BY <1>3, <1>4

LEMMA DeletePairKeepsInv ==
  ASSUME AccountsInv, NEW r \in AccountRequests, DeletePair(r)
  PROVE  AccountsInv'
<1> DEFINE q == accountRequest[r]
           rows == pairs[q.user]
           S == DOMAIN rows \ {q.language}
           rest == [other \in S |-> rows[other]]
<1>1. q.user \in UserIds
  BY DEF AccountsInv, RequestsFit, AccountFits, DeletePair
<1>2. EndRequest(r) /\ UNCHANGED <<users, retired, bound, merges>>
  BY DEF DeletePair
<1>3. rows \in PairRows /\ NeverTwo(rows) /\ (q.user \notin users => rows = NoPairs)
  BY <1>1 DEF AccountsInv, PairsFit
<1>4. S \in SUBSET TargetLanguages /\ rest \in [S -> BOOLEAN]
  BY <1>3, PairRowsType
<1>5. NeverTwo(rest)
  BY <1>3 DEF NeverTwo
<1>6. q.user \notin users => rest = NoPairs
  BY <1>3, NoPairsFit DEF NoPairs
<1>7. IF q.wasActive /\ rest # NoPairs
      THEN \E next \in DOMAIN rest : WritePairs(q.user, [rest EXCEPT ![next] = TRUE])
      ELSE pairs' = [pairs EXCEPT ![q.user] = rest]
  BY DEF DeletePair
<1> HIDE DEF rest, S
<1>8. rest \in PairRows /\ DOMAIN rest = S
  BY <1>4, MakesPairRows
<1>9. CASE q.wasActive /\ rest # NoPairs
  <2>1. PICK next \in DOMAIN rest : WritePairs(q.user, [rest EXCEPT ![next] = TRUE])
    BY <1>7, <1>9
  <2> DEFINE then == [rest EXCEPT ![next] = TRUE]
  <2>2. then \in [S -> BOOLEAN]
    BY <1>4, <1>8
  <2>3. WritePairs(q.user, then)
    BY <2>1
  <2> HIDE DEF then
  <2>4. then \in PairRows
    BY <1>4, <2>2, MakesPairRows
  <2> QED BY <1>1, <1>2, <2>3, <2>4, WriteKeepsInv
<1>10. CASE ~(q.wasActive /\ rest # NoPairs)
  BY <1>1, <1>2, <1>5, <1>6, <1>7, <1>8, <1>10, PairsWritten
<1> QED BY <1>9, <1>10

LEMMA CreateMergeRequestKeepsInv ==
  ASSUME AccountsInv, NEW source \in UserIds, NEW target \in UserIds, CreateMergeRequest(source, target)
  PROVE  AccountsInv'
<1>1. /\ source \in users /\ target \in users /\ source # target
      /\ merges' = merges \cup {[source |-> source, target |-> target]}
      /\ UNCHANGED <<users, retired, bound, pairs, accountRequest>>
  BY DEF CreateMergeRequest
<1>2. accountRequests' \in 0 .. MaxAccountRequests
  BY CountGoesOn DEF CreateMergeRequest
<1>3. merges' \subseteq [source : users', target : users'] /\ TwoMerge'
  <2>1. merges \subseteq [source : users, target : users] /\ TwoMerge
    BY DEF AccountsInv, AccountsTypeOK
  <2> QED BY <1>1, <2>1 DEF TwoMerge
<1>4. AccountsTypeOK'
  BY <1>1, <1>2, <1>3 DEF AccountsInv, AccountsTypeOK
<1> QED BY <1>1, <1>3, <1>4 DEF AccountsInv

(* The rows of the two, where the index lets them become one's; the other  *)
(* and everything that named it is gone.                                   *)
LEMMA MergeUsersKeepsInv ==
  ASSUME AccountsInv, NEW r \in AccountRequests, MergeUsers(r)
  PROVE  AccountsInv'
<1> DEFINE m == accountRequest[r].merge
           mine == pairs[m.target]
           theirs == pairs[m.source]
           S == DOMAIN mine \cup DOMAIN theirs
           moved == [other \in S |-> IF other \in DOMAIN mine THEN mine[other] ELSE theirs[other]]
           keepsIdentity == \A x \in Subjects : bound[x] # m.target
<1>1. EndRequest(r)
  BY DEF MergeUsers
<1>2. RequestsFit(accountRequest') /\ accountRequests' \in 0 .. MaxAccountRequests
  BY <1>1, RequestEnds
<1>3. CASE UNCHANGED <<users, retired, bound, pairs, merges>>
  BY <1>1, <1>3, PairsKept
<1>4. CASE /\ m \in merges /\ ActiveIndex(moved)
           /\ users' = users \ {m.source} /\ retired' = retired \cup {m.source}
           /\ bound' = [x \in Subjects |-> IF bound[x] # m.source THEN bound[x]
                                           ELSE IF keepsIdentity THEN m.target ELSE "none"]
           /\ pairs' = [pairs EXCEPT ![m.target] = moved, ![m.source] = NoPairs]
           /\ merges' = {other \in merges : m.source \notin {other.source, other.target}}
  <2>1. m.source \in users /\ m.target \in users /\ m.source # m.target /\ users \subseteq UserIds
    BY <1>4 DEF AccountsInv, AccountsTypeOK, TwoMerge
  <2>2. mine \in PairRows /\ theirs \in PairRows
    BY <2>1 DEF AccountsInv, PairsFit
  <2>3. S \in SUBSET TargetLanguages /\ moved \in [S -> BOOLEAN]
    BY <2>2, PairRowsType
  <2>4. ActiveIndex(moved) /\ pairs' = [pairs EXCEPT ![m.target] = moved, ![m.source] = NoPairs]
    BY <1>4
  <2>5. /\ users' = users \ {m.source} /\ retired' = retired \cup {m.source}
        /\ merges' = {other \in merges : m.source \notin {other.source, other.target}}
    BY <1>4
  <2>6. bound' \in [Subjects -> users' \cup {"none"}]
    BY <1>4, <2>1, <2>5 DEF AccountsInv, AccountsTypeOK
  <2> HIDE DEF moved, S
  <2>7. moved \in PairRows /\ NeverTwo(moved)
    BY <2>3, <2>4, MakesPairRows, IndexMeansOne
  <2> HIDE DEF m
  <2>8. PairsFit(pairs', users')
    BY <2>1, <2>4, <2>5, <2>7, NoPairsFit DEF AccountsInv, PairsFit
  <2>9. /\ users' \subseteq UserIds /\ retired' \subseteq UserIds \ users'
        /\ merges' \subseteq [source : users', target : users'] /\ TwoMerge'
    BY <2>1, <2>5 DEF AccountsInv, AccountsTypeOK, TwoMerge
  <2>10. AccountsTypeOK'
    BY <1>2, <2>6, <2>8, <2>9, PairRowsType
       DEF AccountsTypeOK, PairsFit, RequestsFit, AccountFits, AccountSteps
  <2> QED BY <1>2, <2>8, <2>9, <2>10 DEF AccountsInv
<1> QED BY <1>3, <1>4 DEF MergeUsers

LEMMA AccountsInvStep ==
  AccountsInv /\ [AccountsNext]_accountVars => AccountsInv'
<1> SUFFICES ASSUME AccountsInv, [AccountsNext]_accountVars PROVE AccountsInv'
  OBVIOUS
<1>1. CASE UNCHANGED accountVars
  BY <1>1 DEF accountVars, AccountsInv, AccountsTypeOK, TwoMerge
<1>2. CASE AccountsNext
  BY <1>2, AccountsReads, SyncUserKeepsInv, DeactivateOthersKeepsInv, InsertPairKeepsInv, FindActiveKeepsInv, ActivatePairKeepsInv,
     RenamePairKeepsInv, DeletePairKeepsInv, MergeUsersKeepsInv, CreateMergeRequestKeepsInv
     DEF AccountsNext
<1> QED BY <1>1, <1>2

LEMMA AccountsInvAlways == AccountsSpec => []AccountsInv
  BY AccountsInvInit, AccountsInvStep, PTL DEF AccountsSpec

(* No user has two active learning pairs, and nothing is left of a user who  *)
(* was deleted, whatever is added, renamed, removed and merged at once: the  *)
(* index that setActiveUserLanguage and mergeUsersTx rely on refuses what    *)
(* they read too early to see (auth/service.go, auth/merge.go).              *)
THEOREM NeverTwoActivePairs == AccountsSpec => [](\A u \in users : NeverTwo(pairs[u]))
<1>1. AccountsInv => \A u \in users : NeverTwo(pairs[u])
  BY DEF AccountsInv, AccountsTypeOK, PairsFit
<1> QED BY <1>1, AccountsInvAlways, PTL

THEOREM DeletedUsersLeaveNothing == AccountsSpec => []AccountsTypeOK
<1>1. AccountsInv => AccountsTypeOK
  BY DEF AccountsInv
<1> QED BY <1>1, AccountsInvAlways, PTL

(* "Exactly one active learning pair per user", where requests do not       *)
(* overlap: what a request read is then still so when it writes.            *)
HasActive(rows) == rows = NoPairs \/ \E language \in DOMAIN rows : rows[language]

ReadFits(q, ps) ==
  /\ q.at = "make room" => q.active
  /\ q.at = "add" => q.active \/ (ps[q.user] # NoPairs /\ q.old = {})
  /\ q.at \in {"deactivate", "activate"} => q.language \in DOMAIN ps[q.user]
  /\ q.at = "remove" =>
       q.language \in DOMAIN ps[q.user] /\ q.wasActive = ps[q.user][q.language]

OneAtATime == \A r, s \in AccountRequests : r = s

ReadsFit == \A r \in AccountRequests : ReadFits(accountRequest[r], pairs)
AllActive == \A u \in users : HasActive(pairs[u])
ApartInv == AccountsInv /\ AllActive /\ ReadsFit

LEMMA ReadStays ==
  ASSUME OneAtATime, ApartInv, NEW r \in AccountRequests, NEW q, ReadFits(q, pairs),
         accountRequest' = [accountRequest EXCEPT ![r] = q], UNCHANGED <<users, pairs>>
  PROVE  AllActive' /\ ReadsFit'
<1>1. \A s \in AccountRequests : accountRequest'[s] = q
  BY DEF OneAtATime, ApartInv, AccountsInv, RequestsFit
<1> QED BY <1>1 DEF ApartInv, AllActive, ReadsFit

LEMMA NothingRead ==
  ASSUME OneAtATime, AccountsInv, NEW r \in AccountRequests, EndRequest(r)
  PROVE  ReadsFit'
<1>1. \A s \in AccountRequests : accountRequest'[s] = NoAccountRequest
  BY DEF OneAtATime, AccountsInv, RequestsFit, EndRequest
<1>2. \A ps : ReadFits(NoAccountRequest, ps)
  BY DEF ReadFits, NoAccountRequest
<1> QED BY <1>1, <1>2 DEF ReadsFit

(* The rows of one user are written, or none. *)
LEMMA ActiveWritten ==
  ASSUME OneAtATime, ApartInv, NEW r \in AccountRequests, EndRequest(r), users' = users,
         NEW u \in UserIds, NEW rows, u \in users => HasActive(rows),
         pairs' = pairs \/ pairs' = [pairs EXCEPT ![u] = rows]
  PROVE  AllActive' /\ ReadsFit'
<1>1. ReadsFit'
  BY NothingRead DEF ApartInv
<1>2. users \subseteq UserIds /\ DOMAIN pairs = UserIds
  BY DEF ApartInv, AccountsInv, AccountsTypeOK
<1>3. AllActive'
  BY <1>2 DEF ApartInv, AllActive
<1> QED BY <1>1, <1>3

LEMMA ReadsApart ==
  ASSUME OneAtATime, ApartInv, NEW r \in AccountRequests,
         \/ \E x \in Subjects : LookUpIdentity(r, x)
         \/ \E u \in UserIds, language \in TargetLanguages :
              \/ \E setActive \in BOOLEAN : AddUserLanguage(r, u, language, setActive)
              \/ \E new \in TargetLanguages : UpdateUserLanguage(r, u, language, new)
              \/ SetActiveUserLanguage(r, u, language) \/ RemoveUserLanguage(r, u, language)
         \/ \E m \in merges : ConfirmMergeRequest(r, m)
         \/ DeactivateOthers(r) \/ FindActive(r)
  PROVE  AllActive' /\ ReadsFit'
<1>1. UNCHANGED <<users, pairs>>
  BY DEF LookUpIdentity, AddUserLanguage, UpdateUserLanguage, SetActiveUserLanguage,
         RemoveUserLanguage, ConfirmMergeRequest, DeactivateOthers, FindActive
<1>2. \E q : ReadFits(q, pairs) /\ accountRequest' = [accountRequest EXCEPT ![r] = q]
  <2>1. ASSUME NEW x \in Subjects, LookUpIdentity(r, x)
        PROVE  \E q : ReadFits(q, pairs) /\ accountRequest' = [accountRequest EXCEPT ![r] = q]
    <3>1. ReadFits([at |-> "sync", subject |-> x, user |-> bound[x]], pairs)
      BY DEF ReadFits
    <3> QED BY <2>1, <3>1 DEF LookUpIdentity, BeginRequest
  <2>2. ASSUME NEW u \in UserIds, NEW language \in TargetLanguages, NEW setActive \in BOOLEAN,
               AddUserLanguage(r, u, language, setActive)
        PROVE  \E q : ReadFits(q, pairs) /\ accountRequest' = [accountRequest EXCEPT ![r] = q]
    <3> DEFINE active == setActive \/ pairs[u] = NoPairs
    <3>1. ReadFits([at |-> IF active THEN "make room" ELSE "add", user |-> u, language |-> language,
                    old |-> {}, active |-> active], pairs)
      BY DEF ReadFits
    <3> QED BY <2>2, <3>1 DEF AddUserLanguage, BeginRequest
  <2>3. ASSUME NEW u \in UserIds, NEW language \in TargetLanguages, NEW new \in TargetLanguages,
               UpdateUserLanguage(r, u, language, new)
        PROVE  \E q : ReadFits(q, pairs) /\ accountRequest' = [accountRequest EXCEPT ![r] = q]
    <3>1. ReadFits([at |-> "rename", user |-> u, old |-> language, new |-> new], pairs)
      BY DEF ReadFits
    <3> QED BY <2>3, <3>1 DEF UpdateUserLanguage, BeginRequest
  <2>4. ASSUME NEW u \in UserIds, NEW language \in TargetLanguages, SetActiveUserLanguage(r, u, language)
        PROVE  \E q : ReadFits(q, pairs) /\ accountRequest' = [accountRequest EXCEPT ![r] = q]
    <3>1. ReadFits([at |-> "deactivate", user |-> u, language |-> language], pairs)
      BY <2>4 DEF ReadFits, SetActiveUserLanguage
    <3> QED BY <2>4, <3>1 DEF SetActiveUserLanguage, BeginRequest
  <2>5. ASSUME NEW u \in UserIds, NEW language \in TargetLanguages, RemoveUserLanguage(r, u, language)
        PROVE  \E q : ReadFits(q, pairs) /\ accountRequest' = [accountRequest EXCEPT ![r] = q]
    <3>1. ReadFits([at |-> "remove", user |-> u, language |-> language,
                    wasActive |-> pairs[u][language]], pairs)
      BY <2>5 DEF ReadFits, RemoveUserLanguage
    <3> QED BY <2>5, <3>1 DEF RemoveUserLanguage, BeginRequest
  <2>6. ASSUME NEW m \in merges, ConfirmMergeRequest(r, m)
        PROVE  \E q : ReadFits(q, pairs) /\ accountRequest' = [accountRequest EXCEPT ![r] = q]
    <3>1. ReadFits([at |-> "merge", merge |-> m], pairs)
      BY DEF ReadFits
    <3> QED BY <2>6, <3>1 DEF ConfirmMergeRequest, BeginRequest
  <2>7. ASSUME FindActive(r)
        PROVE  \E q : ReadFits(q, pairs) /\ accountRequest' = [accountRequest EXCEPT ![r] = q]
    <3> DEFINE p == accountRequest[r]
    <3>1. p.language \in DOMAIN pairs[p.user]
      BY <2>7 DEF FindActive, ApartInv, ReadsFit, ReadFits
    <3>2. ReadFits([at |-> "activate", user |-> p.user, language |-> p.language,
                    old |-> ActiveOf(pairs[p.user])], pairs)
      BY <3>1 DEF ReadFits
    <3> QED BY <2>7, <3>2 DEF FindActive
  <2>8. ASSUME DeactivateOthers(r)
        PROVE  \E q : ReadFits(q, pairs) /\ accountRequest' = [accountRequest EXCEPT ![r] = q]
    <3> DEFINE p == accountRequest[r]
    <3>1. ReadFits([at |-> "add", user |-> p.user, language |-> p.language,
                    old |-> ActiveOf(pairs[p.user]), active |-> TRUE], pairs)
      BY DEF ReadFits
    <3> QED BY <2>8, <3>1 DEF DeactivateOthers
  <2> QED BY <2>1, <2>2, <2>3, <2>4, <2>5, <2>6, <2>7, <2>8
<1> QED BY <1>1, <1>2, ReadStays

LEMMA SyncApart ==
  ASSUME OneAtATime, ApartInv, NEW r \in AccountRequests, SyncUser(r)
  PROVE  AllActive' /\ ReadsFit'
<1> DEFINE default == OnlyActive(NoPairs, DefaultTarget)
<1>1. ReadsFit'
  BY NothingRead DEF SyncUser, ApartInv
<1>2. HasActive(default)
  BY NoPairsFit DEF HasActive, OnlyActive
<1> HIDE DEF default
<1>3. DOMAIN pairs = UserIds /\ users \subseteq UserIds /\ \A u \in UserIds \ users : pairs[u] = NoPairs
  BY DEF ApartInv, AccountsInv, PairsFit, AccountsTypeOK
<1>4. \/ \E u \in UserIds \ users : users' = users \cup {u} /\ pairs' = [pairs EXCEPT ![u] = default]
      \/ users' = users /\ (pairs' = pairs \/ \E u \in users : pairs' = [pairs EXCEPT ![u] = default])
  BY <1>3 DEF SyncUser, default
<1>5. AllActive'
  BY <1>2, <1>3, <1>4 DEF ApartInv, AllActive
<1> QED BY <1>1, <1>5

LEMMA InsertApart ==
  ASSUME OneAtATime, ApartInv, NEW r \in AccountRequests, InsertPair(r)
  PROVE  AllActive' /\ ReadsFit'
<1> DEFINE q == accountRequest[r]
           rows == pairs[q.user]
           more == [other \in DOMAIN rows \cup {q.language} |->
                      IF other = q.language THEN q.active
                      ELSE rows[other] /\ other \notin q.old]
<1>1. /\ q.user \in UserIds /\ q.active \in BOOLEAN
      /\ q.active \/ (rows # NoPairs /\ q.old = {})
  BY DEF ApartInv, AccountsInv, RequestsFit, AccountFits, InsertPair, ReadsFit, ReadFits
<1>2. EndRequest(r) /\ users' = users
  BY DEF InsertPair
<1>3. q.user \in users => HasActive(rows)
  BY DEF ApartInv, AllActive
<1>4. q.language \notin DOMAIN rows /\ q.user \in users => HasActive(more)
  BY <1>1, <1>3 DEF HasActive
<1>5. pairs' = pairs \/ (q.language \notin DOMAIN rows /\ pairs' = [pairs EXCEPT ![q.user] = more])
  BY DEF InsertPair, WritePairs
<1> HIDE DEF more
<1> QED BY <1>1, <1>2, <1>3, <1>4, <1>5, ActiveWritten

LEMMA ActivateApart ==
  ASSUME OneAtATime, ApartInv, NEW r \in AccountRequests, ActivatePair(r)
  PROVE  AllActive' /\ ReadsFit'
<1> DEFINE q == accountRequest[r]
           rows == pairs[q.user]
           now == [other \in DOMAIN rows |-> other = q.language \/ (rows[other] /\ other \notin q.old)]
<1>1. q.user \in UserIds /\ q.language \in DOMAIN rows
  BY DEF ApartInv, AccountsInv, RequestsFit, AccountFits, ActivatePair, ReadsFit, ReadFits
<1>2. EndRequest(r) /\ users' = users
  BY DEF ActivatePair
<1>3. HasActive(now)
  BY <1>1 DEF HasActive
<1>4. pairs' = pairs \/ pairs' = [pairs EXCEPT ![q.user] = now]
  BY DEF ActivatePair, WritePairs
<1> HIDE DEF now
<1> QED BY <1>1, <1>2, <1>3, <1>4, ActiveWritten

LEMMA RenameApart ==
  ASSUME OneAtATime, ApartInv, NEW r \in AccountRequests, RenamePair(r)
  PROVE  AllActive' /\ ReadsFit'
<1> DEFINE q == accountRequest[r]
           rows == pairs[q.user]
           S == (DOMAIN rows \ {q.old}) \cup {q.new}
           renamed == [other \in S |-> IF other = q.new THEN rows[q.old] ELSE rows[other]]
<1>1. q.user \in UserIds
  BY DEF ApartInv, AccountsInv, RequestsFit, AccountFits, RenamePair
<1>2. EndRequest(r) /\ users' = users
  BY DEF RenamePair
<1>3. \/ pairs' = pairs
      \/ q.old \in DOMAIN rows /\ q.new \notin DOMAIN rows /\ pairs' = [pairs EXCEPT ![q.user] = renamed]
  BY DEF RenamePair
<1>4. ASSUME q.old \in DOMAIN rows, q.new \notin DOMAIN rows, q.user \in users PROVE HasActive(renamed)
  <2>1. PICK language \in DOMAIN rows : rows[language]
    BY <1>4, NoPairsFit DEF ApartInv, AllActive, HasActive
  <2>2. CASE language = q.old
    <3>1. q.new \in DOMAIN renamed /\ renamed[q.new]
      BY <2>1, <2>2
    <3> QED BY <3>1 DEF HasActive
  <2>3. CASE language # q.old
    <3>1. language \in DOMAIN renamed /\ renamed[language]
      BY <1>4, <2>1, <2>3
    <3> QED BY <3>1 DEF HasActive
  <2> QED BY <2>2, <2>3
<1> HIDE DEF renamed, S
<1>5. CASE pairs' = pairs
  <2>1. q.user \in users => HasActive(rows)
    BY DEF ApartInv, AllActive
  <2> QED BY <1>1, <1>2, <1>5, <2>1, ActiveWritten
<1>6. CASE pairs' # pairs
  BY <1>1, <1>2, <1>3, <1>4, <1>6, ActiveWritten
<1> QED BY <1>5, <1>6

LEMMA DeleteApart ==
  ASSUME OneAtATime, ApartInv, NEW r \in AccountRequests, DeletePair(r)
  PROVE  AllActive' /\ ReadsFit'
<1> DEFINE q == accountRequest[r]
           rows == pairs[q.user]
           rest == [other \in DOMAIN rows \ {q.language} |-> rows[other]]
<1>1. q.user \in UserIds /\ q.language \in DOMAIN rows /\ q.wasActive = rows[q.language]
  BY DEF ApartInv, AccountsInv, RequestsFit, AccountFits, DeletePair, ReadsFit, ReadFits
<1>2. EndRequest(r) /\ users' = users
  BY DEF DeletePair
<1>3. CASE q.wasActive /\ rest # NoPairs
  <2>1. PICK next \in DOMAIN rest : WritePairs(q.user, [rest EXCEPT ![next] = TRUE])
    BY <1>3 DEF DeletePair
  <2> DEFINE then == [rest EXCEPT ![next] = TRUE]
  <2>2. next \in DOMAIN then /\ then[next]
    OBVIOUS
  <2>3. HasActive(then)
    BY <2>2 DEF HasActive
  <2>4. pairs' = pairs \/ pairs' = [pairs EXCEPT ![q.user] = then]
    BY <2>1 DEF WritePairs
  <2> HIDE DEF then
  <2> QED BY <1>1, <1>2, <2>3, <2>4, ActiveWritten
<1>4. CASE ~(q.wasActive /\ rest # NoPairs)
  <2>1. pairs' = [pairs EXCEPT ![q.user] = rest]
    BY <1>4 DEF DeletePair
  <2>2. q.user \in users => HasActive(rest)
    <3>1. CASE rest = NoPairs
      BY <3>1 DEF HasActive
    <3>2. CASE ~q.wasActive /\ q.user \in users
      <4>1. PICK language \in DOMAIN rows : rows[language]
        BY <1>1, <3>2, NoPairsFit DEF ApartInv, AllActive, HasActive
      <4>2. language \in DOMAIN rest /\ rest[language]
        BY <1>1, <3>2, <4>1
      <4> QED BY <4>2 DEF HasActive
    <3> QED BY <1>4, <3>1, <3>2
  <2> HIDE DEF rest
  <2> QED BY <1>1, <1>2, <2>1, <2>2, ActiveWritten
<1> QED BY <1>3, <1>4

LEMMA MergeApart ==
  ASSUME OneAtATime, ApartInv, NEW r \in AccountRequests, MergeUsers(r)
  PROVE  AllActive' /\ ReadsFit'
<1> DEFINE m == accountRequest[r].merge
           mine == pairs[m.target]
           theirs == pairs[m.source]
           moved == [other \in DOMAIN mine \cup DOMAIN theirs |->
                       IF other \in DOMAIN mine THEN mine[other] ELSE theirs[other]]
<1>1. ReadsFit'
  BY NothingRead DEF MergeUsers, ApartInv
<1>2. CASE UNCHANGED <<users, retired, bound, pairs, merges>>
  BY <1>1, <1>2 DEF ApartInv, AllActive
<1>3. CASE /\ m \in merges /\ users' = users \ {m.source}
           /\ pairs' = [pairs EXCEPT ![m.target] = moved, ![m.source] = NoPairs]
  <2>1. m.source \in users /\ m.target \in users /\ users \subseteq UserIds /\ DOMAIN pairs = UserIds
    BY <1>3 DEF ApartInv, AccountsInv, AccountsTypeOK
  <2>2. HasActive(mine) /\ HasActive(theirs)
    BY <2>1 DEF ApartInv, AllActive
  <2>3. HasActive(moved)
    <3>1. CASE \E language \in DOMAIN mine : mine[language]
      <4>1. PICK language \in DOMAIN mine : mine[language]
        BY <3>1
      <4>2. language \in DOMAIN moved /\ moved[language]
        BY <4>1
      <4> QED BY <4>2 DEF HasActive
    <3>2. CASE mine = NoPairs
      <4>1. DOMAIN mine = {} /\ moved = [other \in DOMAIN theirs |-> theirs[other]]
        BY <3>2, NoPairsFit
      <4>2. CASE theirs = NoPairs
        BY <4>1, <4>2, NoPairsFit DEF HasActive, NoPairs
      <4>3. CASE \E language \in DOMAIN theirs : theirs[language]
        BY <4>1, <4>3 DEF HasActive
      <4> QED BY <2>2, <4>2, <4>3 DEF HasActive
    <3> QED BY <2>2, <3>1, <3>2 DEF HasActive
  <2> HIDE DEF moved
  <2>4. AllActive'
    BY <1>3, <2>1, <2>3 DEF ApartInv, AllActive
  <2> QED BY <1>1, <2>4
<1> QED BY <1>2, <1>3 DEF MergeUsers

(* One request at a time keeps every learner who has pairs at one active    *)
(* pair exactly, as the migration that adds the index says; that requests   *)
(* overlap is all that the run active_pair needs to refute it.              *)
THEOREM OneActivePairApart ==
  ASSUME OneAtATime
  PROVE  AccountsSpec => [](SomePairActive /\ \A u \in users : NeverTwo(pairs[u]))
<1>1. AccountsInit => ApartInv
  <2> SUFFICES ASSUME AccountsInit PROVE ApartInv
    OBVIOUS
  <2>1. ReadsFit
    BY DEF AccountsInit, ReadsFit, ReadFits, NoAccountRequest
  <2> DEFINE first == [language \in {DefaultTarget} |-> TRUE]
  <2>2. HasActive(first)
    BY DEF HasActive
  <2> HIDE DEF first
  <2>3. pairs = [u \in UserIds |-> IF u \in SeededUsers THEN first ELSE NoPairs] /\ users = SeededUsers
    BY DEF AccountsInit, first
  <2>4. AllActive
    BY <2>2, <2>3, AccountsAssumption DEF AllActive
  <2> QED BY <2>1, <2>4, AccountsInvInit DEF ApartInv
<1>2. ApartInv /\ [AccountsNext]_accountVars => ApartInv'
  <2> SUFFICES ASSUME ApartInv, [AccountsNext]_accountVars PROVE ApartInv'
    OBVIOUS
  <2>1. AccountsInv'
    BY AccountsInvStep DEF ApartInv
  <2>2. CASE UNCHANGED accountVars
    BY <2>1, <2>2 DEF accountVars, ApartInv, AllActive, ReadsFit
  <2>3. CASE \E source, target \in UserIds : CreateMergeRequest(source, target)
    BY <2>1, <2>3 DEF CreateMergeRequest, ApartInv, AllActive, ReadsFit
  <2>4. CASE AccountsNext /\ ~\E source, target \in UserIds : CreateMergeRequest(source, target)
    <3>1. PICK r \in AccountRequests :
            \/ \E x \in Subjects : LookUpIdentity(r, x)
            \/ \E u \in UserIds, language \in TargetLanguages :
                 \/ \E setActive \in BOOLEAN : AddUserLanguage(r, u, language, setActive)
                 \/ \E new \in TargetLanguages : UpdateUserLanguage(r, u, language, new)
                 \/ SetActiveUserLanguage(r, u, language) \/ RemoveUserLanguage(r, u, language)
            \/ \E m \in merges : ConfirmMergeRequest(r, m)
            \/ SyncUser(r) \/ DeactivateOthers(r) \/ InsertPair(r) \/ FindActive(r) \/ ActivatePair(r)
            \/ RenamePair(r) \/ DeletePair(r) \/ MergeUsers(r)
      BY <2>4 DEF AccountsNext
    <3>2. AllActive' /\ ReadsFit'
      BY <3>1, ReadsApart, SyncApart, InsertApart, ActivateApart, RenameApart, DeleteApart, MergeApart
    <3> QED BY <2>1, <3>2 DEF ApartInv
  <2> QED BY <2>2, <2>3, <2>4
<1>3. ApartInv => SomePairActive /\ \A u \in users : NeverTwo(pairs[u])
  BY DEF ApartInv, AllActive, HasActive, SomePairActive, ActiveOf, AccountsInv, AccountsTypeOK, PairsFit
<1> QED BY <1>1, <1>2, <1>3, PTL DEF AccountsSpec

-------------------------------------------------------------------------------
(* The client's copy of the language pairs.                                *)

(* Each tick starts one load, and none is of a tick to come; a load brings  *)
(* a list the server had.                                                   *)
LoadsOfTicks ==
  /\ \A l \in loads : l.tick <= listTick /\ \A n \in l.answer : n <= serverList
  /\ \A l, m \in loads : l.tick = m.tick => l = m

GivenUpIsUnconfirmed == \A c \in PairChanges : change[c].at = "given up" => unconfirmed

(* With no change in doubt, a current load that was answered brings the     *)
(* list as it is, and what is shown differs from it only under an error or  *)
(* until a current load ends.                                               *)
DoubtfulChanges == unconfirmed \/ \E c \in PairChanges : change[c].at = "applied"
CurrentIsFresh == DoubtfulChanges \/ \A l \in loads : Current(l) /\ l.answer # {} => serverList \in l.answer
FreshOrLoading == DoubtfulChanges \/ shownList = serverList \/ listError \/ \E l \in loads : Current(l)

LanguagesInv ==
  /\ LanguagesTypeOK /\ LoadsOfTicks /\ GivenUpIsUnconfirmed /\ CurrentIsFresh /\ FreshOrLoading

LEMMA NewLoad ==
  ASSUME NEW n \in 0 .. MaxTicks
  PROVE  [tick |-> n, answer |-> {}] \in Load
<1>1. {} \in {{}} \cup {{m} : m \in 0 .. MaxListChanges}
  OBVIOUS
<1> QED BY <1>1 DEF Load

LEMMA TickType == LanguagesTypeOK /\ listTick < MaxTicks => listTick + 1 \in 0 .. MaxTicks
  BY LanguagesAssumption DEF LanguagesTypeOK

(* The numbers of a load are natural, and its row may be answered. *)
LEMMA NumbersAreNatural ==
  ASSUME LanguagesTypeOK
  PROVE  /\ serverList \in Nat /\ shownList \in Nat /\ listTick \in Nat
         /\ \A l \in loads : l.tick \in Nat /\ \A n \in l.answer : n \in Nat
<1>1. serverList \in 0 .. MaxListChanges /\ shownList \in 0 .. MaxListChanges /\ listTick \in 0 .. MaxTicks
  BY DEF LanguagesTypeOK
<1>2. \A l \in loads : l.tick \in 0 .. MaxTicks /\ \A n \in l.answer : n \in 0 .. MaxListChanges
  BY DEF LanguagesTypeOK, Load
<1> QED BY <1>1, <1>2, LanguagesAssumption

LEMMA LanguagesInvInit == LanguagesInit => LanguagesInv
<1> SUFFICES ASSUME LanguagesInit PROVE LanguagesInv
  OBVIOUS
<1>1. [tick |-> 0, answer |-> {}] \in Load
  BY NewLoad, LanguagesAssumption
<1>2. LanguagesTypeOK
  <2>1. change \in [PairChanges -> ChangeRow]
    BY DEF LanguagesInit, IdleChange, ChangeRow
  <2>2. serverList = 0 /\ shownList = 0 /\ listTick = 0 /\ 0 \in 0 .. MaxTicks /\ 0 \in 0 .. MaxListChanges
    BY LanguagesAssumption DEF LanguagesInit
  <2>3. shownList <= serverList
    BY <2>2
  <2>4. loads \subseteq Load /\ listError \in BOOLEAN /\ unconfirmed \in BOOLEAN
    BY <1>1 DEF LanguagesInit
  <2> QED BY <2>1, <2>2, <2>3, <2>4 DEF LanguagesTypeOK
<1>3. LoadsOfTicks
  <2>1. serverList = 0 /\ listTick = 0 /\ loads = {[tick |-> 0, answer |-> {}]}
    BY DEF LanguagesInit
  <2> QED BY <2>1 DEF LoadsOfTicks
<1>4. GivenUpIsUnconfirmed
  BY DEF LanguagesInit, GivenUpIsUnconfirmed, IdleChange
<1>5. CurrentIsFresh /\ FreshOrLoading
  <2>1. shownList = serverList /\ loads = {[tick |-> 0, answer |-> {}]}
    BY DEF LanguagesInit
  <2> QED BY <2>1 DEF CurrentIsFresh, FreshOrLoading
<1> QED BY <1>2, <1>3, <1>4, <1>5 DEF LanguagesInv

(* The row of a load: its tick, and nothing or one number. *)
LEMMA LoadRow ==
  ASSUME LanguagesTypeOK, NEW l \in loads
  PROVE  /\ l.tick \in 0 .. MaxTicks
         /\ l.answer = {} \/ \E n \in 0 .. MaxListChanges : l.answer = {n}
         /\ [l EXCEPT !.answer = {serverList}] \in Load
         /\ [l EXCEPT !.answer = {serverList}].tick = l.tick
         /\ [l EXCEPT !.answer = {serverList}].answer = {serverList}
<1>1. l \in Load
  BY DEF LanguagesTypeOK
<1>2. serverList \in 0 .. MaxListChanges
  BY DEF LanguagesTypeOK
<1> QED BY <1>1, <1>2 DEF Load

LEMMA ServedKeepsInv == ASSUME LanguagesInv, NEW l \in loads, ListServed(l) PROVE LanguagesInv'
<1> USE DEF LanguagesInv
<1> DEFINE m == [l EXCEPT !.answer = {serverList}]
<1>1. m \in Load /\ m.tick = l.tick /\ m.answer = {serverList}
  BY LoadRow
<1>2. /\ loads' = (loads \ {l}) \cup {m}
      /\ UNCHANGED <<serverList, shownList, listTick, listError, change, unconfirmed>>
  BY DEF ListServed
<1> HIDE DEF m
<1>3. LanguagesTypeOK'
  BY <1>1, <1>2 DEF LanguagesTypeOK
<1>4. LoadsOfTicks'
  BY <1>1, <1>2 DEF LoadsOfTicks, LanguagesTypeOK
<1>5. GivenUpIsUnconfirmed' /\ CurrentIsFresh'
  BY <1>1, <1>2 DEF GivenUpIsUnconfirmed, CurrentIsFresh, DoubtfulChanges, Current
<1>6. FreshOrLoading'
  BY <1>1, <1>2 DEF FreshOrLoading, DoubtfulChanges, Current
<1> QED BY <1>3, <1>4, <1>5, <1>6

LEMMA LoadedKeepsInv == ASSUME LanguagesInv, NEW l \in loads, ListLoaded(l) PROVE LanguagesInv'
<1> USE DEF LanguagesInv
<1>1. CASE ~Current(l)
  BY <1>1 DEF ListLoaded, LanguagesTypeOK, LoadsOfTicks, GivenUpIsUnconfirmed, CurrentIsFresh,
              FreshOrLoading, DoubtfulChanges, Current
<1>2. CASE Current(l)
  <2>1. PICK n \in 0 .. MaxListChanges : l.answer = {n}
    BY LoadRow DEF ListLoaded
  <2>2. /\ loads' = loads \ {l} /\ shownList' = n /\ listError' = FALSE
        /\ unconfirmed' = \/ n # serverList /\ unconfirmed
                          \/ \E c \in PairChanges : change[c].at = "given up"
        /\ UNCHANGED <<serverList, listTick, change>>
    BY <1>2, <2>1 DEF ListLoaded
  <2>3. n <= serverList
    BY <2>1 DEF LoadsOfTicks
  <2>4. LanguagesTypeOK'
    BY <2>2, <2>3 DEF LanguagesTypeOK
  <2>5. LoadsOfTicks' /\ GivenUpIsUnconfirmed'
    BY <2>2 DEF LoadsOfTicks, GivenUpIsUnconfirmed
  <2>6. \A m \in loads' : ~(m.tick = listTick')
    BY <1>2, <2>2 DEF LoadsOfTicks, Current
  <2>7. CurrentIsFresh'
    BY <2>6 DEF CurrentIsFresh, Current
  <2>8. FreshOrLoading'
    <3>1. CASE n = serverList
      BY <2>2, <3>1 DEF FreshOrLoading
    <3>2. CASE n # serverList
      BY <1>2, <2>1, <2>2, <3>2 DEF FreshOrLoading, CurrentIsFresh, DoubtfulChanges
    <3> QED BY <3>1, <3>2
  <2> QED BY <2>4, <2>5, <2>7, <2>8
<1> QED BY <1>1, <1>2

LEMMA FailedKeepsInv == ASSUME LanguagesInv, NEW l \in loads, ListFails(l) PROVE LanguagesInv'
  BY DEF ListFails, LanguagesInv, LanguagesTypeOK, LoadsOfTicks, GivenUpIsUnconfirmed, CurrentIsFresh,
         FreshOrLoading, DoubtfulChanges, Current

(* The next tick is new. *)
LEMMA TicksBelow ==
  ASSUME LanguagesTypeOK, LoadsOfTicks
  PROVE  /\ listTick + 1 <= listTick + 1
         /\ \A l \in loads : l.tick # listTick + 1 /\ l.tick <= listTick + 1
<1>1. listTick \in Nat /\ \A l \in loads : l.tick \in Nat /\ l.tick <= listTick
  BY NumbersAreNatural DEF LoadsOfTicks
<1> QED BY <1>1

(* A new tick starts a load of its own, and no load answered before it      *)
(* counts any more.                                                         *)
LEMMA TickStartsLoad ==
  ASSUME LanguagesInv, listTick < MaxTicks, listTick' = listTick + 1, loads' = Refreshed,
         UNCHANGED <<serverList, shownList, listError, unconfirmed>>,
         change' \in [PairChanges -> ChangeRow],
         \A c \in PairChanges : change'[c].at = "given up" => change[c].at = "given up"
  PROVE  LanguagesInv'
<1> USE DEF LanguagesInv
<1> DEFINE new == [tick |-> listTick + 1, answer |-> {}]
<1>1. new \in Load /\ new.tick = listTick + 1 /\ new.answer = {}
  BY NewLoad, TickType
<1>2. loads' = loads \cup {new}
  BY DEF Refreshed
<1> HIDE DEF new
<1>3. LanguagesTypeOK'
  BY <1>1, <1>2, TickType DEF LanguagesTypeOK
<1>5. LoadsOfTicks'
  <2>1. \A l \in loads' : l \in loads \/ l = new
    BY <1>2
  <2>2. \A l \in loads : l.tick <= listTick' /\ l.tick # new.tick
    BY <1>1, TicksBelow
  <2>3. new.tick <= listTick'
    BY <1>1, TicksBelow
  <2>4. \A l \in loads' : l.tick <= listTick' /\ \A n \in l.answer : n <= serverList'
    BY <1>1, <2>1, <2>2, <2>3 DEF LoadsOfTicks
  <2>5. \A l, m \in loads' : l.tick = m.tick => l = m
    BY <2>1, <2>2 DEF LoadsOfTicks
  <2> QED BY <2>4, <2>5 DEF LoadsOfTicks
<1>6. GivenUpIsUnconfirmed'
  BY DEF GivenUpIsUnconfirmed
<1>7. \A l \in loads' : l.tick = listTick' => l = new
  <2>1. \A l \in loads : l.tick # listTick + 1
    BY TicksBelow
  <2> QED BY <1>1, <1>2, <2>1
<1>8. CurrentIsFresh'
  BY <1>1, <1>7 DEF CurrentIsFresh, Current
<1>9. FreshOrLoading'
  BY <1>1, <1>2 DEF FreshOrLoading, Current
<1> QED BY <1>3, <1>5, <1>6, <1>8, <1>9

LEMMA ChangeKeepsInv ==
  ASSUME LanguagesInv, NEW c \in PairChanges,
         \/ \E from \in ChangeScreens : SendChange(c, from)
         \/ ApplyChange(c) \/ ChangeFails(c) \/ ChangeLost(c)
  PROVE  LanguagesInv'
<1> USE DEF LanguagesInv
<1>1. ASSUME NEW from \in ChangeScreens, SendChange(c, from) PROVE LanguagesInv'
  <2>1. LanguagesTypeOK' /\ LoadsOfTicks' /\ GivenUpIsUnconfirmed'
    BY <1>1 DEF SendChange, LanguagesTypeOK, LoadsOfTicks, GivenUpIsUnconfirmed, ChangeRow
  <2>2. DoubtfulChanges' <=> DoubtfulChanges
    BY <1>1 DEF SendChange, DoubtfulChanges, LanguagesTypeOK
  <2> QED BY <1>1, <2>1, <2>2 DEF SendChange, CurrentIsFresh, FreshOrLoading, Current
<1>2. CASE ApplyChange(c)
  <2>1. DoubtfulChanges'
    BY <1>2 DEF ApplyChange, DoubtfulChanges, LanguagesTypeOK, GivenUpIsUnconfirmed, ChangeRow
  <2>2. LanguagesTypeOK'
    <3>1. change' \in [PairChanges -> ChangeRow]
      BY <1>2 DEF ApplyChange, LanguagesTypeOK, IdleChange, ChangeRow
    <3>2. serverList' \in 0 .. MaxListChanges /\ shownList' <= serverList'
      <4>1. serverList' = serverList + 1 /\ serverList < MaxListChanges /\ shownList' = shownList
        BY <1>2 DEF ApplyChange
      <4>2. serverList \in Nat /\ shownList \in Nat /\ shownList <= serverList
        BY NumbersAreNatural DEF LanguagesTypeOK
      <4> QED BY <4>1, <4>2, LanguagesAssumption
    <3> QED BY <1>2, <3>1, <3>2 DEF ApplyChange, LanguagesTypeOK
  <2>3. LoadsOfTicks'
    <3>1. \A l \in loads : \A n \in l.answer : n \in Nat
      BY NumbersAreNatural
    <3>2. serverList' = serverList + 1 /\ UNCHANGED <<listTick, loads>> /\ serverList \in Nat
      BY <1>2, NumbersAreNatural DEF ApplyChange
    <3> QED BY <3>1, <3>2 DEF LoadsOfTicks
  <2>4. GivenUpIsUnconfirmed'
    BY <1>2 DEF ApplyChange, GivenUpIsUnconfirmed, LanguagesTypeOK, IdleChange, ChangeRow
  <2> QED BY <2>1, <2>2, <2>3, <2>4 DEF CurrentIsFresh, FreshOrLoading
<1>3. CASE ChangeFails(c)
  <2>1. PICK refused \in BOOLEAN :
          /\ refused => change[c].at = "sent"
          /\ change' = [change EXCEPT ![c] =
               IF refused \/ change[c].at = "applied" THEN IdleChange ELSE [@ EXCEPT !.at = "given up"]]
          /\ unconfirmed' = (unconfirmed \/ ~refused)
    BY <1>3 DEF ChangeFails
  <2>2. /\ listError' = (listError \/ change[c].screen = "set active")
        /\ UNCHANGED <<serverList, shownList, listTick, loads>>
    BY <1>3 DEF ChangeFails
  <2>3. LanguagesTypeOK' /\ LoadsOfTicks' /\ GivenUpIsUnconfirmed'
    BY <2>1, <2>2 DEF LanguagesTypeOK, LoadsOfTicks, GivenUpIsUnconfirmed, IdleChange, ChangeRow
  <2>4. DoubtfulChanges => DoubtfulChanges'
    BY <2>1 DEF DoubtfulChanges, LanguagesTypeOK, IdleChange, ChangeRow
  <2> QED BY <2>2, <2>3, <2>4 DEF CurrentIsFresh, FreshOrLoading, Current
<1>4. CASE ChangeLost(c)
  <2>1. LanguagesTypeOK' /\ LoadsOfTicks' /\ GivenUpIsUnconfirmed'
    BY <1>4 DEF ChangeLost, LanguagesTypeOK, LoadsOfTicks, GivenUpIsUnconfirmed, IdleChange, ChangeRow
  <2>2. DoubtfulChanges'
    BY <1>4 DEF ChangeLost, DoubtfulChanges, GivenUpIsUnconfirmed
  <2> QED BY <2>1, <2>2 DEF CurrentIsFresh, FreshOrLoading
<1> QED BY <1>1, <1>2, <1>3, <1>4

LEMMA LanguagesStep == LanguagesInv /\ [LanguagesNext]_languagesVars => LanguagesInv'
<1> SUFFICES ASSUME LanguagesInv, [LanguagesNext]_languagesVars PROVE LanguagesInv'
  OBVIOUS
<1>1. CASE RefreshLanguage
  BY <1>1, TickStartsLoad DEF RefreshLanguage, LanguagesInv, LanguagesTypeOK
<1>2. ASSUME NEW c \in PairChanges, ChangeConfirmed(c) PROVE LanguagesInv'
  BY <1>2, TickStartsLoad DEF ChangeConfirmed, LanguagesInv, LanguagesTypeOK, IdleChange, ChangeRow
<1>3. CASE UNCHANGED languagesVars
  BY <1>3 DEF languagesVars, LanguagesInv, LanguagesTypeOK, LoadsOfTicks, GivenUpIsUnconfirmed,
              CurrentIsFresh, FreshOrLoading, DoubtfulChanges, Current
<1> QED
  BY <1>1, <1>2, <1>3, ServedKeepsInv, LoadedKeepsInv, FailedKeepsInv, ChangeKeepsInv DEF LanguagesNext

(* A client at rest shows the pairs the server has: an answer of an older   *)
(* tick is dropped, and one of the current tick is older than no change     *)
(* that a screen heard of (LanguageContext.tsx).                            *)
THEOREM PairsStayFresh == LanguagesSpec => []LanguagesFresh
<1>1. LanguagesInv => LanguagesFresh
  BY DEF LanguagesInv, FreshOrLoading, DoubtfulChanges, LanguagesFresh
<1> QED BY <1>1, LanguagesInvInit, LanguagesStep, PTL DEF LanguagesSpec

-------------------------------------------------------------------------------
(* The settings screen, for any patches under way together.                *)

Active(p, f) == patch[p].at # "idle" /\ patch[p].field = f

(* Of a field that no lost answer or crossing made unsure, one patch at     *)
(* most is under way, the screen waits for it, and it will put back or show *)
(* what the server has.                                                     *)
PatchFits(p, f) ==
  /\ patch[p].heard
  /\ opening.at # "sent" /\ opening.at # "answered"
  /\ opening.at = "loaded" /\ (patch[p].at = "sent" \/ patch[p].at = "ensured") => patch[p].back = settings[f]
  /\ opening.at = "loaded" /\ patch[p].at = "answered" => patch[p].read[f] = settings[f]

FieldFits(f) ==
  /\ \A p, q \in Patches : Active(p, f) /\ Active(q, f) => p = q
  /\ \A p \in Patches : Active(p, f) => PatchFits(p, f)
  /\ opening.at = "answered" => opening.read[f] = settings[f]
  /\ opening.at = "loaded" => displayed[f] = settings[f] \/ \E p \in Patches : Active(p, f)

FieldsFit == \A f \in Fields : f \in unsure \/ FieldFits(f)

SettingsInv == SettingsTypeOK /\ FieldsFit

LEMMA DefaultIsChoice == DefaultChoice \in AnyChoice /\ [f \in Fields |-> DefaultChoice] \in Values
  BY SettingsAssumption DEF AnyChoice, Values

LEMMA IdlePatchType == IdlePatch \in PatchRow /\ IdlePatch.at = "idle" /\ IdlePatch.read \in Values
<1>1. IdlePatch.read = [f \in Fields |-> DefaultChoice]
  BY DEF IdlePatch
<1>2. IdlePatch \in PatchRow
  BY DefaultIsChoice DEF IdlePatch, PatchRow, PatchSteps, Fields
<1> QED BY <1>1, <1>2, DefaultIsChoice DEF IdlePatch

LEMMA SettingsInvInit == SettingsInit => SettingsInv
<1> SUFFICES ASSUME SettingsInit PROVE SettingsInv
  OBVIOUS
<1>1. SettingsTypeOK
  BY DefaultIsChoice, IdlePatchType DEF SettingsInit, SettingsTypeOK, OpeningRow
<1>2. opening.at = "sent"
  BY DEF SettingsInit
<1>3. \A p \in Patches : patch[p].at = "idle"
  BY IdlePatchType DEF SettingsInit
<1> QED BY <1>1, <1>2, <1>3 DEF SettingsInv, FieldsFit, FieldFits, Active

(* What the server stores is in the range of what it offers to store. *)
LEMMA ClampedType == ASSUME NEW v \in AnyChoice PROVE Clamped(v) \in AnyChoice
<1>1. v \in Nat
  BY SettingsAssumption DEF AnyChoice
<1>2. Clamped(v) \in MinStored .. MaxStored
  BY <1>1, SettingsAssumption DEF Clamped
<1> QED BY <1>2 DEF AnyChoice

LEMMA UnheardType ==
  ASSUME SettingsTypeOK, NEW p \in Patches
  PROVE  /\ Unheard(p) \in PatchRow
         /\ Unheard(p).at # "idle" =>
              /\ patch[p].at = "sent" \/ patch[p].at = "ensured"
              /\ Unheard(p).field = patch[p].field
<1>1. patch[p] \in PatchRow
  BY DEF SettingsTypeOK
<1> DEFINE row == [patch[p] EXCEPT !.heard = FALSE, !.back = DefaultChoice]
<1>2. row \in PatchRow /\ row.field = patch[p].field
  BY <1>1, DefaultIsChoice DEF PatchRow
<1> HIDE DEF row
<1>3. Unheard(p) = IF patch[p].at \in {"sent", "ensured"} THEN row ELSE IdlePatch
  BY DEF Unheard, row
<1> QED BY <1>2, <1>3, IdlePatchType

(* The screen's load. *)
LEMMA OpeningKeepsInv ==
  ASSUME SettingsInv, OpenScreen \/ GetReviewSettings \/ ScreenLoaded \/ ScreenFails
  PROVE  SettingsInv'
<1> USE DEF SettingsInv
<1>1. CASE OpenScreen
  <2>1. SettingsTypeOK'
    <3>1. patch' \in [Patches -> PatchRow]
      BY <1>1, UnheardType DEF OpenScreen
    <3>2. opening' \in OpeningRow /\ displayed' \in Values
      BY <1>1, DefaultIsChoice DEF OpenScreen, OpeningRow
    <3>3. unsure' \subseteq Fields /\ settings' = settings
      BY <1>1 DEF OpenScreen
    <3> QED BY <3>1, <3>2, <3>3 DEF SettingsTypeOK
  <2>2. ASSUME NEW f \in Fields, f \notin unsure' PROVE FieldFits(f)'
    <3>1. \A p \in Patches : ~Active(p, f)'
      <4>1. \A p \in Patches : patch'[p] = Unheard(p)
        BY <1>1 DEF OpenScreen
      <4>2. \A p \in Patches : patch[p].field = f => ~(patch[p].at = "sent" \/ patch[p].at = "ensured")
        BY <1>1, <2>2 DEF OpenScreen, UnderWay
      <4> QED BY <4>1, <4>2, UnheardType DEF Active
    <3>2. opening'.at = "sent"
      BY <1>1 DEF OpenScreen
    <3> QED BY <3>1, <3>2 DEF FieldFits
  <2> QED BY <2>1, <2>2 DEF FieldsFit
<1>2. CASE GetReviewSettings
  <2>1. SettingsTypeOK' /\ opening'.at = "answered" /\ opening'.read = settings'
    BY <1>2 DEF GetReviewSettings, SettingsTypeOK, OpeningRow
  <2>2. ASSUME NEW f \in Fields, f \notin unsure' PROVE FieldFits(f)'
    <3>1. \A p \in Patches : ~Active(p, f)
      BY <1>2, <2>2 DEF GetReviewSettings, FieldsFit, FieldFits, PatchFits
    <3> QED BY <1>2, <2>1, <3>1 DEF GetReviewSettings, FieldFits, Active
  <2> QED BY <2>1, <2>2 DEF FieldsFit
<1>3. CASE ScreenLoaded
  <2>1. SettingsTypeOK' /\ opening'.at = "loaded"
    BY <1>3, IdlePatchType DEF ScreenLoaded, SettingsTypeOK, OpeningRow
  <2>2. ASSUME NEW f \in Fields, f \notin unsure' PROVE FieldFits(f)'
    <3>1. FieldFits(f)
      BY <1>3, <2>2 DEF ScreenLoaded, FieldsFit
    <3>2. \A p \in Patches : ~Active(p, f)
      BY <1>3, <3>1 DEF ScreenLoaded, FieldFits, PatchFits
    <3>3. displayed'[f] = settings'[f]
      BY <1>3, <3>1 DEF ScreenLoaded, FieldFits
    <3> QED BY <1>3, <2>1, <3>2, <3>3 DEF ScreenLoaded, FieldFits, Active
  <2> QED BY <2>1, <2>2 DEF FieldsFit
<1>4. CASE ScreenFails
  <2>1. SettingsTypeOK' /\ opening'.at = "failed"
    BY <1>4, IdlePatchType DEF ScreenFails, SettingsTypeOK, OpeningRow
  <2>2. ASSUME NEW f \in Fields, f \notin unsure' PROVE FieldFits(f)'
    <3>1. FieldFits(f)
      BY <1>4, <2>2 DEF ScreenFails, FieldsFit
    <3>2. \A p \in Patches : ~Active(p, f)
      BY <1>4, <3>1 DEF ScreenFails, FieldFits, PatchFits
    <3> QED BY <1>4, <2>1, <3>2 DEF ScreenFails, FieldFits, Active
  <2> QED BY <2>1, <2>2 DEF FieldsFit
<1> QED BY <1>1, <1>2, <1>3, <1>4

(* A patch that goes on or ends leaves the other patches, and of another    *)
(* field all that was said of it.                                           *)
LEMMA OtherFieldsFit ==
  ASSUME SettingsInv, NEW p \in Patches, NEW to \in PatchRow, patch' = [patch EXCEPT ![p] = to],
         NEW f \in Fields, f \notin unsure, to.at # "idle" => to.field # f,
         patch[p].at # "idle" => patch[p].field # f,
         settings'[f] = settings[f], displayed'[f] = displayed[f], opening' = opening
  PROVE  FieldFits(f)'
<1>1. FieldFits(f)
  BY DEF SettingsInv, FieldsFit
<1>2. patch'[p] = to /\ \A q \in Patches \ {p} : patch'[q] = patch[q]
  BY DEF SettingsInv, SettingsTypeOK
<1>3. \A q \in Patches : Active(q, f)' => q # p /\ Active(q, f) /\ patch'[q] = patch[q]
  BY <1>2 DEF Active
<1>4. \A q \in Patches : Active(q, f) => Active(q, f)'
  BY <1>2 DEF Active
<1> QED BY <1>1, <1>3, <1>4 DEF FieldFits, PatchFits

(* The patch's own field: it is the only one under way before.              *)
LEMMA OwnFieldFits ==
  ASSUME SettingsInv, NEW p \in Patches, NEW to \in PatchRow, patch' = [patch EXCEPT ![p] = to],
         NEW f \in Fields, f \notin unsure, patch[p].at # "idle", patch[p].field = f, opening' = opening,
         \/ to.at # "idle" /\ to.field = f /\ PatchFits(p, f)'
         \/ to.at = "idle" /\ (opening.at = "loaded" => displayed'[f] = settings'[f])
  PROVE  FieldFits(f)'
<1>1. FieldFits(f)
  BY DEF SettingsInv, FieldsFit
<1>2. patch'[p] = to /\ \A q \in Patches \ {p} : patch'[q] = patch[q]
  BY DEF SettingsInv, SettingsTypeOK
<1>3. \A q \in Patches \ {p} : ~Active(q, f)'
  BY <1>1, <1>2 DEF FieldFits, Active
<1>4. opening.at # "answered"
  BY <1>1 DEF FieldFits, PatchFits, Active
<1> QED BY <1>2, <1>3, <1>4 DEF FieldFits, Active

LEMMA ChooseKeepsInv ==
  ASSUME SettingsInv, NEW p \in Patches, NEW f \in Fields, NEW v \in OfferedChoices[f], Choose(p, f, v)
  PROVE  SettingsInv'
<1> USE DEF SettingsInv
<1> DEFINE to == SentPatch(f, v)
<1>1. v \in AnyChoice /\ displayed[f] \in AnyChoice
  BY DEF AnyChoice, SettingsTypeOK, Values
<1>2. to \in PatchRow /\ to.at = "sent" /\ to.field = f /\ to.heard /\ to.back = displayed[f]
  BY <1>1, IdlePatchType DEF SentPatch, PatchRow, PatchSteps
<1>3. /\ patch' = [patch EXCEPT ![p] = to] /\ displayed' = [displayed EXCEPT ![f] = v]
      /\ patch[p].at = "idle" /\ UNCHANGED <<settings, opening>>
      /\ unsure \subseteq unsure' /\ unsure' \subseteq unsure \cup {f}
  BY DEF Choose
<1>4. f \notin unsure' => opening.at # "sent" /\ opening.at # "answered" /\ UnderWay(f) = {}
  BY DEF Choose
<1> HIDE DEF to
<1>5. SettingsTypeOK'
  BY <1>1, <1>2, <1>3 DEF SettingsTypeOK, Values
<1>6. ASSUME NEW g \in Fields \ {f}, g \notin unsure' PROVE FieldFits(g)'
  <2>1. displayed'[g] = displayed[g] /\ g \notin unsure
    BY <1>3, <1>6 DEF SettingsTypeOK, Values
  <2> QED BY <1>2, <1>3, <2>1, OtherFieldsFit
<1>7. ASSUME f \notin unsure' PROVE FieldFits(f)'
  <2>1. \A q \in Patches : ~Active(q, f)
    BY <1>4, <1>7 DEF UnderWay, Active
  <2>2. patch'[p] = to /\ \A q \in Patches \ {p} : patch'[q] = patch[q]
    BY <1>3 DEF SettingsTypeOK
  <2>3. opening.at = "loaded" => to.back = settings[f]
    BY <1>2, <1>3, <1>7, <2>1 DEF FieldsFit, FieldFits
  <2>4. \A q \in Patches : Active(q, f)' <=> q = p
    BY <1>2, <2>1, <2>2 DEF Active
  <2>5. PatchFits(p, f)'
    BY <1>2, <1>3, <1>4, <1>7, <2>2, <2>3 DEF PatchFits
  <2> QED BY <1>3, <1>4, <1>7, <2>4, <2>5 DEF FieldFits
<1> QED BY <1>5, <1>6, <1>7 DEF FieldsFit

(* A patch on the server: the settings are read, written and read again.    *)
LEMMA ServedPatchKeepsInv ==
  ASSUME SettingsInv, NEW p \in Patches, EnsureSettings(p) \/ UpdateReviewSettings(p) \/ AnswerPatch(p)
  PROVE  SettingsInv'
<1> USE DEF SettingsInv
<1> DEFINE own == patch[p].field
<1>1. patch[p] \in PatchRow /\ own \in Fields /\ settings \in Values
  BY DEF SettingsTypeOK, PatchRow
<1>2. /\ UNCHANGED <<displayed, opening, unsure>> /\ patch[p].at # "idle"
  BY DEF EnsureSettings, UpdateReviewSettings, AnswerPatch
<1>3. CASE EnsureSettings(p)
  <2> DEFINE to == EnsuredPatch(p)
  <2>1. /\ to \in PatchRow /\ to.at = "ensured" /\ to.field = own
        /\ to.heard = patch[p].heard /\ to.back = patch[p].back
    BY <1>1 DEF EnsuredPatch, PatchRow, PatchSteps
  <2>2. patch' = [patch EXCEPT ![p] = to] /\ settings' = settings /\ patch[p].at = "sent"
    BY <1>3 DEF EnsureSettings
  <2> HIDE DEF to
  <2>3. SettingsTypeOK'
    BY <1>2, <2>1, <2>2 DEF SettingsTypeOK
  <2>4. ASSUME NEW f \in Fields, f \notin unsure' PROVE FieldFits(f)'
    <3>1. CASE f = own
      <4>1. PatchFits(p, f)
        BY <1>2, <2>4, <3>1 DEF FieldsFit, FieldFits, Active
      <4>2. PatchFits(p, f)'
        BY <1>2, <2>1, <2>2, <4>1 DEF PatchFits, SettingsTypeOK
      <4> QED BY <1>2, <2>1, <2>2, <2>4, <3>1, <4>2, OwnFieldFits
    <3>2. CASE f # own
      BY <1>2, <2>1, <2>2, <2>4, <3>2, OtherFieldsFit
    <3> QED BY <3>1, <3>2
  <2> QED BY <2>3, <2>4 DEF FieldsFit
<1>4. CASE UpdateReviewSettings(p)
  <2> DEFINE to == CommittedPatch(p)
  <2>1. /\ to \in PatchRow
        /\ patch[p].heard => to.at = "updated" /\ to.field = own /\ to.heard
        /\ ~patch[p].heard => to.at = "idle"
    BY <1>1, IdlePatchType, DefaultIsChoice DEF CommittedPatch, PatchRow, PatchSteps
  <2>2. patch' = [patch EXCEPT ![p] = to] /\ settings' = Updated(p)
    BY <1>4 DEF UpdateReviewSettings
  <2> HIDE DEF to
  <2>3. settings' \in Values /\ \A f \in Fields : f # own => settings'[f] = settings[f]
    <3>1. Clamped(patch[p].to) \in AnyChoice
      BY <1>1, ClampedType DEF PatchRow
    <3> QED BY <1>1, <2>2, <3>1 DEF Updated, Values
  <2>4. SettingsTypeOK'
    BY <1>2, <2>1, <2>2, <2>3 DEF SettingsTypeOK
  <2>5. ASSUME NEW f \in Fields, f \notin unsure' PROVE FieldFits(f)'
    <3>1. CASE f = own
      <4>1. PatchFits(p, f)
        BY <1>2, <2>5, <3>1 DEF FieldsFit, FieldFits, Active
      <4>2. patch'[p] = to
        BY <2>2 DEF SettingsTypeOK
      <4>3. to.at = "updated" /\ to.field = f /\ PatchFits(p, f)'
        BY <1>2, <2>1, <3>1, <4>1, <4>2 DEF PatchFits
      <4> QED BY <1>2, <2>1, <2>2, <2>5, <3>1, <4>3, OwnFieldFits
    <3>2. CASE f # own
      <4>1. to.at # "idle" => to.field # f
        BY <2>1, <3>2
      <4> QED BY <1>2, <2>1, <2>2, <2>3, <2>5, <3>2, <4>1, OtherFieldsFit
    <3> QED BY <3>1, <3>2
  <2> QED BY <2>4, <2>5 DEF FieldsFit
<1>5. CASE AnswerPatch(p)
  <2> DEFINE to == RereadPatch(p)
  <2>1. /\ to \in PatchRow /\ to.at = "answered" /\ to.field = own /\ to.heard = patch[p].heard
        /\ to.read[own] = settings[own]
    BY <1>1 DEF RereadPatch, PatchRow, PatchSteps, Values
  <2>2. patch' = [patch EXCEPT ![p] = to] /\ settings' = settings /\ patch[p].at = "updated"
    BY <1>5 DEF AnswerPatch
  <2> HIDE DEF to
  <2>3. SettingsTypeOK'
    BY <1>2, <2>1, <2>2 DEF SettingsTypeOK
  <2>4. ASSUME NEW f \in Fields, f \notin unsure' PROVE FieldFits(f)'
    <3>1. CASE f = own
      <4>1. PatchFits(p, f)
        BY <1>2, <2>4, <3>1 DEF FieldsFit, FieldFits, Active
      <4>2. PatchFits(p, f)'
        BY <1>2, <2>1, <2>2, <3>1, <4>1 DEF PatchFits, SettingsTypeOK
      <4> QED BY <1>2, <2>1, <2>2, <2>4, <3>1, <4>2, OwnFieldFits
    <3>2. CASE f # own
      BY <1>2, <2>1, <2>2, <2>4, <3>2, OtherFieldsFit
    <3> QED BY <3>1, <3>2
  <2> QED BY <2>3, <2>4 DEF FieldsFit
<1> QED BY <1>3, <1>4, <1>5

(* A patch ends on the screen: it is confirmed, put back, or given up.      *)
LEMMA EndedPatchKeepsInv ==
  ASSUME SettingsInv, NEW p \in Patches, PatchConfirmed(p) \/ PatchRefused(p) \/ PatchLost(p)
  PROVE  SettingsInv'
<1> USE DEF SettingsInv
<1> DEFINE own == patch[p].field
<1>1. patch[p] \in PatchRow /\ own \in Fields /\ displayed \in Values
  BY DEF SettingsTypeOK, PatchRow
<1>2. UNCHANGED <<settings, opening>> /\ patch[p].at # "idle"
  BY DEF PatchConfirmed, PatchRefused, PatchLost
<1>3. displayed' \in Values /\ \A f \in Fields : f # own => displayed'[f] = displayed[f]
  BY <1>1 DEF PatchConfirmed, PatchRefused, PatchLost, Values, PatchRow
<1>4. CASE PatchConfirmed(p) \/ PatchRefused(p)
  <2>1. patch' = [patch EXCEPT ![p] = IdlePatch] /\ unsure' = unsure
    BY <1>4 DEF PatchConfirmed, PatchRefused
  <2>2. SettingsTypeOK'
    BY <1>2, <1>3, <2>1, IdlePatchType DEF SettingsTypeOK
  <2>3. ASSUME NEW f \in Fields, f \notin unsure' PROVE FieldFits(f)'
    <3>1. CASE f = own
      <4>1. PatchFits(p, f)
        BY <1>2, <2>1, <2>3, <3>1 DEF FieldsFit, FieldFits, Active
      <4>2. opening.at = "loaded" => displayed'[f] = settings'[f]
        <5>1. CASE PatchConfirmed(p)
          BY <1>2, <3>1, <4>1, <5>1 DEF PatchConfirmed, PatchFits
        <5>2. CASE PatchRefused(p)
          BY <1>1, <1>2, <3>1, <4>1, <5>2 DEF PatchRefused, PatchFits, Values
        <5> QED BY <1>4, <5>1, <5>2
      <4> QED BY <1>2, <2>1, <2>3, <3>1, <4>2, IdlePatchType, OwnFieldFits
    <3>2. CASE f # own
      BY <1>2, <1>3, <2>1, <2>3, <3>2, IdlePatchType, OtherFieldsFit
    <3> QED BY <3>1, <3>2
  <2> QED BY <2>2, <2>3 DEF FieldsFit
<1>5. CASE PatchLost(p)
  <2>1. PICK to \in {IdlePatch, Unheard(p)} : patch' = [patch EXCEPT ![p] = to]
    BY <1>5 DEF PatchLost
  <2>2. to \in PatchRow /\ (to.at # "idle" => to.field = own)
    BY <2>1, IdlePatchType, UnheardType
  <2>3. unsure' = unsure \cup {own}
    BY <1>5 DEF PatchLost
  <2>4. SettingsTypeOK'
    BY <1>1, <1>2, <1>3, <2>1, <2>2, <2>3 DEF SettingsTypeOK
  <2>5. ASSUME NEW f \in Fields, f \notin unsure' PROVE FieldFits(f)'
    <3>1. f # own /\ f \notin unsure
      BY <2>3, <2>5
    <3>2. to.at # "idle" => to.field # f
      BY <2>2, <3>1
    <3> QED BY <1>2, <1>3, <2>1, <2>2, <3>1, <3>2, OtherFieldsFit
  <2> QED BY <2>4, <2>5 DEF FieldsFit
<1> QED BY <1>4, <1>5

LEMMA SettingsStep == SettingsInv /\ [SettingsNext]_settingsVars => SettingsInv'
<1> SUFFICES ASSUME SettingsInv, [SettingsNext]_settingsVars PROVE SettingsInv'
  OBVIOUS
<1>1. CASE UNCHANGED settingsVars
  BY <1>1 DEF settingsVars, SettingsInv, SettingsTypeOK, FieldsFit, FieldFits, PatchFits, Active
<1> QED
  BY <1>1, OpeningKeepsInv, ChooseKeepsInv, ServedPatchKeepsInv, EndedPatchKeepsInv DEF SettingsNext

(* A screen that has loaded shows, of each field with no patch under way,   *)
(* what the server stored, clamped as it was: confirmations bring the       *)
(* server's value, and a refusal puts back what was stored before.          *)
THEOREM ScreenTellsStored == SettingsSpec => []ShownIsStored
<1>1. SettingsInv => ShownIsStored
  BY DEF SettingsInv, FieldsFit, FieldFits, Active, ShownIsStored, UnderWay
<1> QED BY <1>1, SettingsInvInit, SettingsStep, PTL DEF SettingsSpec

-------------------------------------------------------------------------------
(* The weights, for any requests to fit them.                               *)

(* A request under way counted enough attempts, and no more than there are. *)
EnoughCounted == \A f \in FitRequests : fit[f].at # "idle" => fit[f].count >= MinReviews

OptimiserInv == OptimiserTypeOK /\ EnoughCounted

LEMMA OptimiserInvInit == OptimiserInit => OptimiserInv
  BY OptimiserAssumption DEF OptimiserInit, OptimiserInv, OptimiserTypeOK, EnoughCounted, IdleFit

(* A step of one request that leaves attempts and weights.                 *)
LEMMA FitMoves ==
  ASSUME OptimiserInv, NEW f \in FitRequests,
         NEW q \in [at : {"idle", "counted", "loaded", "fitted"}, count : 0 .. attempts, base : 0 .. MaxFits],
         q.at # "idle" => q.count >= MinReviews,
         fit' = [fit EXCEPT ![f] = q]
  PROVE  /\ fit' \in [FitRequests -> [at : {"idle", "counted", "loaded", "fitted"}, count : 0 .. attempts,
                                      base : 0 .. MaxFits]]
         /\ EnoughCounted'
  BY DEF OptimiserInv, OptimiserTypeOK, EnoughCounted

LEMMA OptimiserInvStep == OptimiserInv /\ [OptimiserNext]_optimiserVars => OptimiserInv'
<1> SUFFICES ASSUME OptimiserInv, [OptimiserNext]_optimiserVars PROVE OptimiserInv'
  OBVIOUS
<1> DEFINE Row == [at : {"idle", "counted", "loaded", "fitted"}, count : 0 .. attempts, base : 0 .. MaxFits]
<1>1. /\ attempts \in 0 .. MaxReviews /\ attempts \in Nat /\ MinReviews \in Nat /\ MaxFits \in Nat
      /\ fit \in [FitRequests -> Row] /\ IdleFit \in Row /\ IdleFit.at = "idle"
  BY OptimiserAssumption DEF OptimiserInv, OptimiserTypeOK, IdleFit
<1>2. CASE RecordAttempt
  <2>1. attempts' \in 0 .. MaxReviews /\ 0 .. attempts \subseteq 0 .. attempts'
    BY <1>1, <1>2, OptimiserAssumption DEF RecordAttempt
  <2>2. weights' \in [fits : 0 .. MaxFits, count : 0 .. attempts'] /\ (weights'.fits > 0 => weights'.count >= MinReviews)
    BY <1>2, <2>1 DEF RecordAttempt, OptimiserInv, OptimiserTypeOK
  <2>3. fit' \in [FitRequests -> [at : {"idle", "counted", "loaded", "fitted"}, count : 0 .. attempts',
                       base : 0 .. MaxFits]]
    BY <1>1, <1>2, <2>1 DEF RecordAttempt
  <2>4. EnoughCounted'
    BY <1>2 DEF RecordAttempt, OptimiserInv, EnoughCounted
  <2> QED BY <2>1, <2>2, <2>3, <2>4 DEF OptimiserInv, OptimiserTypeOK
<1>3. ASSUME NEW f \in FitRequests, CountReviews(f) \/ LoadHistory(f) \/ FitWeights(f) \/ FitFails(f)
      PROVE  OptimiserInv'
  <2>1. fit[f] \in Row /\ (fit[f].at # "idle" => fit[f].count >= MinReviews)
    BY <1>1 DEF OptimiserInv, EnoughCounted
  <2>2. \E q \in Row : (q.at # "idle" => q.count >= MinReviews) /\ fit' = [fit EXCEPT ![f] = q]
    <3>1. CASE CountReviews(f)
      <4> DEFINE q == [IdleFit EXCEPT !.at = "counted", !.count = attempts]
      <4>1. attempts \in 0 .. attempts /\ 0 \in 0 .. MaxFits /\ attempts >= MinReviews
        BY <1>1, <3>1 DEF CountReviews
      <4>2. q \in Row /\ q.count = attempts
        BY <1>1, <4>1
      <4>3. fit' = [fit EXCEPT ![f] = q]
        BY <3>1 DEF CountReviews
      <4> HIDE DEF q, Row
      <4> QED BY <4>1, <4>2, <4>3
    <3>2. CASE LoadHistory(f)
      <4> DEFINE q == [fit[f] EXCEPT !.at = "loaded"]
      <4>1. q \in Row /\ q.count = fit[f].count
        BY <2>1
      <4> HIDE DEF q, Row
      <4>2. fit' = [fit EXCEPT ![f] = IdleFit] \/ fit' = [fit EXCEPT ![f] = q]
        BY <1>1, <3>2 DEF LoadHistory, q
      <4>3. fit[f].at # "idle"
        BY <3>2 DEF LoadHistory
      <4> QED BY <1>1, <2>1, <4>1, <4>2, <4>3
    <3>3. CASE FitWeights(f)
      <4> DEFINE q == [fit[f] EXCEPT !.at = "fitted", !.base = weights.fits]
      <4>1. weights.fits \in 0 .. MaxFits
        BY DEF OptimiserInv, OptimiserTypeOK
      <4>2. q \in Row /\ q.count = fit[f].count
        BY <2>1, <4>1
      <4>3. fit' = [fit EXCEPT ![f] = q] /\ fit[f].at # "idle"
        BY <1>1, <3>3 DEF FitWeights
      <4> HIDE DEF q, Row
      <4> QED BY <2>1, <4>2, <4>3
    <3>4. CASE FitFails(f)
      BY <1>1, <3>4 DEF FitFails
    <3> QED BY <1>3, <3>1, <3>2, <3>3, <3>4
  <2>3. UNCHANGED <<attempts, weights>>
    BY <1>3 DEF CountReviews, LoadHistory, FitWeights, FitFails
  <2>4. fit' \in [FitRequests -> Row] /\ EnoughCounted'
    BY <2>2, FitMoves
  <2> QED BY <2>3, <2>4 DEF OptimiserInv, OptimiserTypeOK
<1>4. ASSUME NEW f \in FitRequests, SaveWeights(f) PROVE OptimiserInv'
  <2>1. /\ fit[f] \in Row /\ fit[f].count >= MinReviews
        /\ weights' = [fits |-> fit[f].base + 1, count |-> fit[f].count]
        /\ fit' = [fit EXCEPT ![f] = IdleFit] /\ attempts' = attempts /\ fit[f].base < MaxFits
    BY <1>1, <1>4 DEF SaveWeights, OptimiserInv, EnoughCounted
  <2>2. fit[f].base + 1 \in 0 .. MaxFits /\ fit[f].count \in 0 .. attempts
    BY <1>1, <2>1
  <2>3. weights' \in [fits : 0 .. MaxFits, count : 0 .. attempts'] /\ weights'.count >= MinReviews
    BY <2>1, <2>2
  <2>4. fit' \in [FitRequests -> Row] /\ EnoughCounted'
    BY <1>1, <2>1, FitMoves
  <2> QED BY <1>1, <2>1, <2>3, <2>4 DEF OptimiserInv, OptimiserTypeOK
<1>5. CASE UNCHANGED optimiserVars
  BY <1>5 DEF optimiserVars, OptimiserInv, OptimiserTypeOK, EnoughCounted
<1> QED BY <1>2, <1>3, <1>4, <1>5 DEF OptimiserNext

LEMMA OptimiserInvAlways == OptimiserSpec => []OptimiserInv
  BY OptimiserInvInit, OptimiserInvStep, PTL DEF OptimiserSpec

(* Weights that were fitted rest on enough attempts and on no more than     *)
(* there are, however late a request saves what it read (OptimizeWeights).  *)
THEOREM WeightsRestOnReviews == OptimiserSpec => []OptimiserTypeOK
<1>1. OptimiserInv => OptimiserTypeOK
  BY DEF OptimiserInv
<1> QED BY <1>1, OptimiserInvAlways, PTL

===============================================================================
