-------------------------------- MODULE Optimiser --------------------------------
(***************************************************************************)
(* The optimiser that fits the scheduler's weights to the learner's review *)
(* history (words/fsrs_optimizer.go).  It counts the attempts, reads the   *)
(* usable ones, reads the weights, fits them and saves both weights and    *)
(* count, in statements of their own and without a lock.  What the fit     *)
(* yields is left out: weights are known by how many fits they build on.   *)
(***************************************************************************)
EXTENDS Naturals

CONSTANTS
  FitRequests,             \* requests to optimise, in the order they may be under way
  MinReviews,       \* MinReviewsForOptimization
  MaxReviews,       \* bound: review attempts
  MaxFits           \* bound: saved weights

ASSUME OptimiserAssumption == MinReviews \in Nat \ {0} /\ MaxReviews \in Nat /\ MaxFits \in Nat

VARIABLES
  attempts,    \* rows of review_attempts
  weights,     \* fsrs_weights as the number of fits they build on, weights_review_count
  fit          \* each request: where it is, its count and the weights it read

optimiserVars == <<attempts, weights, fit>>

IdleFit == [at |-> "idle", count |-> 0, base |-> 0]

(* Weights that are not the default ones come with the number of attempts  *)
(* they are fitted to: enough of them, and no more than there are.         *)
OptimiserTypeOK ==
  /\ attempts \in 0 .. MaxReviews
  /\ weights \in [fits : 0 .. MaxFits, count : 0 .. attempts]
  /\ weights.fits > 0 => weights.count >= MinReviews
  /\ fit \in [FitRequests -> [at : {"idle", "counted", "loaded", "fitted"}, count : 0 .. attempts,
                       base : 0 .. MaxFits]]
-----------------------------------------------------------------------------
OptimiserInit ==
  /\ attempts = 0
  /\ weights = [fits |-> 0, count |-> 0]
  /\ fit = [f \in FitRequests |-> IdleFit]

RecordAttempt ==
  /\ attempts < MaxReviews
  /\ attempts' = attempts + 1
  /\ UNCHANGED <<weights, fit>>

CountReviews(f) ==
  /\ fit[f].at = "idle" /\ attempts >= MinReviews
  /\ fit' = [fit EXCEPT ![f] = [IdleFit EXCEPT !.at = "counted", !.count = attempts]]
  /\ UNCHANGED <<attempts, weights>>

(* Only attempts on cards with a memory state are usable. *)
LoadHistory(f) ==
  /\ fit[f].at = "counted"
  /\ \E usable \in 0 .. attempts :
       fit' = [fit EXCEPT ![f] = IF usable < MinReviews THEN IdleFit ELSE [@ EXCEPT !.at = "loaded"]]
  /\ UNCHANGED <<attempts, weights>>

FitWeights(f) ==
  /\ fit[f].at = "loaded"
  /\ fit' = [fit EXCEPT ![f].at = "fitted", ![f].base = weights.fits]
  /\ UNCHANGED <<attempts, weights>>

SaveWeights(f) ==
  /\ fit[f].at = "fitted" /\ fit[f].base < MaxFits
  /\ weights' = [fits |-> fit[f].base + 1, count |-> fit[f].count]
  /\ fit' = [fit EXCEPT ![f] = IdleFit]
  /\ UNCHANGED attempts

FitFails(f) ==
  /\ fit[f].at # "idle"
  /\ fit' = [fit EXCEPT ![f] = IdleFit]
  /\ UNCHANGED <<attempts, weights>>

OptimiserNext ==
  \/ RecordAttempt
  \/ \E f \in FitRequests : CountReviews(f) \/ LoadHistory(f) \/ FitWeights(f) \/ SaveWeights(f) \/ FitFails(f)

OptimiserSpec == OptimiserInit /\ [][OptimiserNext]_optimiserVars
===============================================================================
