-------------------------------- MODULE Verifier --------------------------------
(***************************************************************************)
(* The API's check of access tokens against the issuer's keys              *)
(* (backend/internal/auth/jwt_verifier.go).  The key set is cached for the *)
(* life of the process and fetched again only for a key it lacks; it is    *)
(* read and replaced under a lock, which is not held during the fetch, and *)
(* several requests may fetch at once.  Only tokens that are good but for  *)
(* their key are modelled: their outcome depends on the key set alone.     *)
(***************************************************************************)
EXTENDS Naturals, FiniteSets

CONSTANTS
  SigningKeys,      \* the key ids of the issuer
  TokenChecks,      \* requests with a token to verify
  MaxRotations      \* bound: changes of the published set

ASSUME VerifierAssumption == MaxRotations \in Nat

VARIABLES
  published,    \* the keys the issuer publishes
  rotations,    \* how often that set changed
  cachedKeys,   \* jwksSet, {} before the first fetch
  check         \* each request: where it is, its token's key, the set it fetched,
                \* and the keys published ever since it began

verifierVars == <<published, rotations, cachedKeys, check>>

CheckSteps == {"idle", "fetch", "answered", "decide", "accepted", "refused", "unavailable"}
IdleCheck == [at |-> "idle", kid |-> {}, fetched |-> {}, steady |-> {}]

VerifierTypeOK ==
  /\ published \subseteq SigningKeys /\ published # {}
  /\ rotations \in 0 .. MaxRotations
  /\ cachedKeys \subseteq SigningKeys
  /\ check \in [TokenChecks -> [at : CheckSteps, kid : SUBSET SigningKeys,
                  fetched : SUBSET SigningKeys, steady : SUBSET SigningKeys]]

(* Mutant: after its fetch a request goes back to the shared set. *)
SharedSet(fetched) == cachedKeys

(* FetchJWKS returns the set this request fetched. *)
TrustedSet(fetched) == fetched
-----------------------------------------------------------------------------
VerifierInit ==
  /\ published \in (SUBSET SigningKeys) \ {{}}
  /\ rotations = 0
  /\ cachedKeys = {}
  /\ check = [r \in TokenChecks |-> IdleCheck]

(* The issuer adds and withdraws keys; the published set is the JWKS URL's.*)
Rotate ==
  /\ rotations < MaxRotations
  /\ rotations' = rotations + 1
  /\ published' \in (SUBSET SigningKeys) \ {{}, published}
  /\ check' = [r \in TokenChecks |-> [check[r] EXCEPT !.steady = @ \cap published']]
  /\ UNCHANGED cachedKeys

(* A token whose key is cached is accepted without asking the issuer.      *)
Verify(r, k) ==
  /\ check[r].at \in {"idle", "accepted", "refused", "unavailable"}
  /\ check' = [check EXCEPT ![r] =
       [at |-> IF k \in cachedKeys THEN "accepted" ELSE "fetch",
        kid |-> {k}, fetched |-> {}, steady |-> published]]
  /\ UNCHANGED <<published, rotations, cachedKeys>>

(* The issuer answers; the answer travels. *)
KeysServed(r) ==
  /\ check[r].at = "fetch"
  /\ check' = [check EXCEPT ![r].at = "answered", ![r].fetched = published]
  /\ UNCHANGED <<published, rotations, cachedKeys>>

FetchFails(r) ==
  /\ check[r].at \in {"fetch", "answered"}
  /\ check' = [check EXCEPT ![r] = [IdleCheck EXCEPT !.at = "unavailable", !.kid = check[r].kid]]
  /\ UNCHANGED <<published, rotations, cachedKeys>>

(* FetchJWKS: the answer replaces the set, a newer one too. *)
FetchJWKS(r) ==
  /\ check[r].at = "answered"
  /\ cachedKeys' = check[r].fetched
  /\ check' = [check EXCEPT ![r].at = "decide"]
  /\ UNCHANGED <<published, rotations>>

Decide(r) ==
  /\ check[r].at = "decide"
  /\ check' = [check EXCEPT ![r].at =
       IF check[r].kid \subseteq TrustedSet(check[r].fetched) THEN "accepted" ELSE "refused"]
  /\ UNCHANGED <<published, rotations, cachedKeys>>

RestartApi ==
  /\ cachedKeys # {}
  /\ cachedKeys' = {}
  /\ check' = [r \in TokenChecks |-> IdleCheck]
  /\ UNCHANGED <<published, rotations>>

VerifierNext ==
  \/ Rotate \/ RestartApi
  \/ \E r \in TokenChecks :
       \/ \E k \in SigningKeys : Verify(r, k)
       \/ KeysServed(r) \/ FetchFails(r) \/ FetchJWKS(r) \/ Decide(r)

VerifierSpec == VerifierInit /\ [][VerifierNext]_verifierVars
-----------------------------------------------------------------------------
(* A token whose key the issuer published all the time it was being        *)
(* checked is not refused, whatever older answer another request put into  *)
(* the shared set in between; it may only find the issuer unreachable.     *)
KnownKeyAccepted ==
  \A r \in TokenChecks : check[r].at = "refused" => ~(check[r].kid \subseteq check[r].steady)
===============================================================================
