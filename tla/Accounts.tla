------------------------------- MODULE Accounts -------------------------------
(***************************************************************************)
(* Local users, the identities they sign in with, their learning pairs and *)
(* the merging of two accounts (backend/internal/auth).  A request reads   *)
(* first and writes at its commit; what it read may be stale by then, and  *)
(* the unique indexes and foreign keys decide.  A pair is known by its     *)
(* target language; its display language tells no property apart.          *)
(***************************************************************************)
EXTENDS Integers, FiniteSets

CONSTANTS
  UserIds,
  Subjects,        \* identities at the platform; the issuer is one
  TargetLanguages,
  DefaultTarget,   \* the pair a new user starts with
  AccountRequests, \* requests that may run together
  MaxAccountRequests, \* bound: requests begun
  SeededUsers      \* users that exist at the start, each with its own subject

ASSUME AccountsAssumption ==
  /\ SeededUsers \subseteq UserIds
  /\ IsFiniteSet(TargetLanguages) /\ DefaultTarget \in TargetLanguages
  /\ MaxAccountRequests \in Nat

VARIABLES
  users,      \* rows of users
  retired,    \* keys of deleted users, which are not used again
  bound,      \* rows of user_identities: the user of each subject, or "none"
  pairs,      \* rows of user_languages: pairs[u] maps a language to is_active
  merges,     \* pending account_merge_requests
  accountRequest, \* each request: the statement it is before, and what it read
  accountRequests \* for the bound

accountVars == <<users, retired, bound, pairs, merges, accountRequest, accountRequests>>

NoAccountRequest == [at |-> "idle"]
NoPairs == [language \in {} |-> FALSE]

(* No identity and no pair of a user that was deleted is left behind.      *)
AccountsTypeOK ==
  /\ users \subseteq UserIds /\ retired \subseteq UserIds \ users
  /\ bound \in [Subjects -> users \cup {"none"}]
  /\ DOMAIN pairs = UserIds
  /\ \A u \in UserIds : /\ DOMAIN pairs[u] \subseteq TargetLanguages
                        /\ \A language \in DOMAIN pairs[u] : pairs[u][language] \in BOOLEAN
                        /\ u \notin users => pairs[u] = NoPairs
  /\ merges \subseteq [source : users, target : users]
  /\ \A r \in AccountRequests :
       accountRequest[r].at \in
         {"idle", "sync", "make room", "add", "deactivate", "activate", "rename", "remove", "merge"}
  /\ accountRequests \in 0 .. MaxAccountRequests

ActiveOf(rows) == {language \in DOMAIN rows : rows[language]}
OnlyActive(rows, language) == [other \in DOMAIN rows \cup {language} |-> other = language]

BeginRequest(r, state) ==
  /\ accountRequest[r] = NoAccountRequest /\ accountRequests < MaxAccountRequests
  /\ accountRequests' = accountRequests + 1
  /\ accountRequest' = [accountRequest EXCEPT ![r] = state]
EndRequest(r) ==
  /\ accountRequest' = [accountRequest EXCEPT ![r] = NoAccountRequest]
  /\ UNCHANGED accountRequests

(* The partial unique index: a user has one active row at most. *)
ActiveIndex(rows) == Cardinality(ActiveOf(rows)) <= 1

(* The commit of the rows of one user, or the error of an index.           *)
WritePairs(u, rows) ==
  pairs' = IF u \in users /\ ActiveIndex(rows) THEN [pairs EXCEPT ![u] = rows] ELSE pairs
-----------------------------------------------------------------------------
AccountsInit ==
  /\ users = SeededUsers /\ retired = {}
  /\ bound \in {f \in [Subjects -> SeededUsers \cup {"none"}] :
                  \A u \in SeededUsers : \E x \in Subjects : f[x] = u}
  /\ pairs = [u \in UserIds |-> IF u \in SeededUsers THEN [language \in {DefaultTarget} |-> TRUE] ELSE NoPairs]
  /\ merges = {}
  /\ accountRequest = [r \in AccountRequests |-> NoAccountRequest]
  /\ accountRequests = 0

(* EnsurePlatformUser, at each sign-in and at each request with a token:   *)
(* the identity is looked up; if it is new, a user and the identity are    *)
(* inserted.  A second insert of one identity fails.                       *)
LookUpIdentity(r, x) ==
  /\ BeginRequest(r, [at |-> "sync", subject |-> x, user |-> bound[x]])
  /\ UNCHANGED <<users, retired, bound, pairs, merges>>

(* A new user, and a user who removed every pair, gets the default pair.   *)
SyncUser(r) ==
  LET q == accountRequest[r]
      withPair(u) == IF pairs[u] = NoPairs THEN [pairs EXCEPT ![u] = OnlyActive(NoPairs, DefaultTarget)]
                     ELSE pairs IN
  /\ q.at = "sync" /\ EndRequest(r)
  /\ IF q.user = "none" /\ bound[q.subject] = "none"
     THEN \E u \in UserIds \ (users \cup retired) :
            users' = users \cup {u} /\ bound' = [bound EXCEPT ![q.subject] = u] /\ pairs' = withPair(u)
     ELSE /\ pairs' = IF q.user \in users THEN withPair(q.user) ELSE pairs
          /\ UNCHANGED <<users, bound>>
  /\ UNCHANGED <<retired, merges>>
-----------------------------------------------------------------------------
(* AddUserLanguage counts the pairs; if the new one is to be active it     *)
(* deactivates the one that is by then; it inserts the new one.            *)
AddUserLanguage(r, u, language, setActive) ==
  LET active == setActive \/ pairs[u] = NoPairs IN
  /\ u \in users
  /\ BeginRequest(r, [at |-> IF active THEN "make room" ELSE "add", user |-> u, language |-> language,
                      old |-> {}, active |-> active])
  /\ UNCHANGED <<users, retired, bound, pairs, merges>>

DeactivateOthers(r) ==
  LET q == accountRequest[r] IN
  /\ q.at = "make room"
  /\ accountRequest' = [accountRequest EXCEPT
                          ![r] = [at |-> "add", user |-> q.user, language |-> q.language,
                                  old |-> ActiveOf(pairs[q.user]), active |-> TRUE]]
  /\ UNCHANGED <<users, retired, bound, pairs, merges, accountRequests>>

InsertPair(r) ==
  LET q == accountRequest[r]
      rows == pairs[q.user] IN
  /\ q.at = "add" /\ EndRequest(r)
  /\ IF q.language \in DOMAIN rows THEN UNCHANGED pairs
     ELSE WritePairs(q.user, [other \in DOMAIN rows \cup {q.language} |->
                                IF other = q.language THEN q.active
                                ELSE rows[other] /\ other \notin q.old])
  /\ UNCHANGED <<users, retired, bound, merges>>

(* SetActiveUserLanguage checks that the pair exists, deactivates the pair *)
(* that is active, and activates this one if it is still there.            *)
SetActiveUserLanguage(r, u, language) ==
  /\ u \in users /\ language \in DOMAIN pairs[u]
  /\ BeginRequest(r, [at |-> "deactivate", user |-> u, language |-> language])
  /\ UNCHANGED <<users, retired, bound, pairs, merges>>

FindActive(r) ==
  LET q == accountRequest[r] IN
  /\ q.at = "deactivate"
  /\ accountRequest' = [accountRequest EXCEPT
                          ![r] = [at |-> "activate", user |-> q.user, language |-> q.language,
                                  old |-> ActiveOf(pairs[q.user])]]
  /\ UNCHANGED <<users, retired, bound, pairs, merges, accountRequests>>

ActivatePair(r) ==
  LET q == accountRequest[r]
      rows == pairs[q.user] IN
  /\ q.at = "activate" /\ EndRequest(r)
  /\ WritePairs(q.user, [other \in DOMAIN rows |->
                           other = q.language \/ (rows[other] /\ other \notin q.old)])
  /\ UNCHANGED <<users, retired, bound, merges>>

(* UpdateUserLanguage to another target language: both are looked for, and *)
(* the row is renamed if the old one is there and the new one is not.      *)
UpdateUserLanguage(r, u, old, new) ==
  /\ u \in users /\ old \in DOMAIN pairs[u] /\ new \notin DOMAIN pairs[u]
  /\ BeginRequest(r, [at |-> "rename", user |-> u, old |-> old, new |-> new])
  /\ UNCHANGED <<users, retired, bound, pairs, merges>>

RenamePair(r) ==
  LET q == accountRequest[r]
      rows == pairs[q.user] IN
  /\ q.at = "rename" /\ EndRequest(r)
  /\ IF q.old \notin DOMAIN rows \/ q.new \in DOMAIN rows THEN UNCHANGED pairs
     ELSE pairs' = [pairs EXCEPT ![q.user] =
                      [other \in (DOMAIN rows \ {q.old}) \cup {q.new} |->
                         IF other = q.new THEN rows[q.old] ELSE rows[other]]]
  /\ UNCHANGED <<users, retired, bound, merges>>

(* RemoveUserLanguage reads whether the pair is active, deletes it, and    *)
(* activates the oldest of the rest if it was; which is oldest is open.    *)
RemoveUserLanguage(r, u, language) ==
  /\ u \in users /\ language \in DOMAIN pairs[u]
  /\ BeginRequest(r, [at |-> "remove", user |-> u, language |-> language, wasActive |-> pairs[u][language]])
  /\ UNCHANGED <<users, retired, bound, pairs, merges>>

DeletePair(r) ==
  LET q == accountRequest[r]
      rest == [other \in DOMAIN pairs[q.user] \ {q.language} |-> pairs[q.user][other]] IN
  /\ q.at = "remove" /\ EndRequest(r)
  /\ IF q.wasActive /\ rest # NoPairs
     THEN \E next \in DOMAIN rest : WritePairs(q.user, [rest EXCEPT ![next] = TRUE])
     ELSE pairs' = [pairs EXCEPT ![q.user] = rest]
  /\ UNCHANGED <<users, retired, bound, merges>>
-----------------------------------------------------------------------------
CreateMergeRequest(source, target) ==
  /\ {source, target} \subseteq users /\ source # target
  /\ accountRequests < MaxAccountRequests /\ accountRequests' = accountRequests + 1
  /\ merges' = merges \cup {[source |-> source, target |-> target]}
  /\ UNCHANGED <<users, retired, bound, pairs, accountRequest>>

ConfirmMergeRequest(r, m) ==
  /\ m \in merges
  /\ BeginRequest(r, [at |-> "merge", merge |-> m])
  /\ UNCHANGED <<users, retired, bound, pairs, merges>>

(* mergeUsersTx: the source's rows move to the target, those the target    *)
(* has too are deleted, and an index may refuse the move.  An identity     *)
(* moves only to a target that has none of its provider.  The source's row *)
(* goes last, and every merge request that names it cascades away, the one *)
(* that is then marked completed among them.                               *)
MergeUsers(r) ==
  LET m == accountRequest[r].merge
      mine == pairs[m.target]
      moved == [other \in DOMAIN mine \cup DOMAIN pairs[m.source] |->
                  IF other \in DOMAIN mine THEN mine[other] ELSE pairs[m.source][other]]
      keepsIdentity == \A x \in Subjects : bound[x] # m.target IN
  /\ accountRequest[r].at = "merge" /\ EndRequest(r)
  /\ \/ UNCHANGED <<users, retired, bound, pairs, merges>>
     \/ /\ m \in merges /\ ActiveIndex(moved)
        /\ users' = users \ {m.source} /\ retired' = retired \cup {m.source}
        /\ bound' = [x \in Subjects |-> IF bound[x] # m.source THEN bound[x]
                                        ELSE IF keepsIdentity THEN m.target ELSE "none"]
        /\ pairs' = [pairs EXCEPT ![m.target] = moved, ![m.source] = NoPairs]
        /\ merges' = {other \in merges : m.source \notin {other.source, other.target}}

AccountsNext ==
  \/ \E r \in AccountRequests :
       \/ \E x \in Subjects : LookUpIdentity(r, x)
       \/ \E u \in UserIds, language \in TargetLanguages :
            \/ \E setActive \in BOOLEAN : AddUserLanguage(r, u, language, setActive)
            \/ \E new \in TargetLanguages : UpdateUserLanguage(r, u, language, new)
            \/ SetActiveUserLanguage(r, u, language) \/ RemoveUserLanguage(r, u, language)
       \/ \E m \in merges : ConfirmMergeRequest(r, m)
       \/ SyncUser(r) \/ DeactivateOthers(r) \/ InsertPair(r) \/ FindActive(r) \/ ActivatePair(r)
       \/ RenamePair(r) \/ DeletePair(r) \/ MergeUsers(r)
  \/ \E source, target \in UserIds : CreateMergeRequest(source, target)

AccountsSpec == AccountsInit /\ [][AccountsNext]_accountVars
-----------------------------------------------------------------------------
(* "Exactly one active learning pair per user": a learner who has pairs    *)
(* has one that is active.                                                 *)
SomePairActive == \A u \in users : pairs[u] # NoPairs => ActiveOf(pairs[u]) # {}
=============================================================================
