----------------------------- MODULE Scheduler -----------------------------
(***************************************************************************)
(* The step progression of the FSRS scheduler                              *)
(* (backend/internal/words/scheduler.go): which state a card is in, how    *)
(* many learning steps it has left, how often it was reviewed and how      *)
(* often it lapsed.  Stability, difficulty and the length of a day-level   *)
(* interval are data nothing here depends on and are left out.             *)
(***************************************************************************)
EXTENDS Integers

CONSTANTS
  LearningSteps,    \* len(cfg.LearningSteps)
  RelearningSteps,  \* len(cfg.RelearningSteps)
  LeechThreshold,   \* review_settings.leech_threshold
  LeechAction       \* review_settings.leech_action

(* SchedulerConfigFromSettings never leaves a step list empty, and the     *)
(* schema checks the threshold and the action.                             *)
ASSUME SchedulerAssumption ==
  /\ LearningSteps \in Nat \ {0}
  /\ RelearningSteps \in Nat \ {0}
  /\ LeechThreshold \in Nat \ {0}
  /\ LeechAction \in {"tag", "suspend"}

Ratings == {"again", "hard", "good", "easy"}

StepStates == {"Learning", "Relearning"}

(* The scheduling columns of a review_states row. *)
Memory ==
  [state : {"New", "Review"} \cup StepStates,
   remaining : Nat, reviews : Nat, lapses : Nat]

FreshMemory == [state |-> "New", remaining |-> 0, reviews |-> 0, lapses |-> 0]

(* A row reviewed before the FSRS columns existed has no memory state and  *)
(* is scheduled as a Review card.  A row this scheduler wrote is never New *)
(* again, so such a row is one that is New with reviews.                   *)
Migrated(m) ==
  IF m.state = "New" /\ m.reviews > 0 THEN [m EXCEPT !.state = "Review"] ELSE m

StepsOf(state) == IF state = "Relearning" THEN RelearningSteps ELSE LearningSteps

(* Mutant: a card leaves its steps one answer late. *)
StaysInStepsLonger(m, rating) ==
  /\ m.state \in StepStates
  /\ rating = "again" \/ m.remaining >= 0

StaysInSteps(m, rating) ==
  /\ m.state \in StepStates
  /\ rating = "again" \/ m.remaining > 1

NextState(m, rating) ==
  CASE m.state = "New" /\ rating \in {"again", "hard"} -> "Learning"
    [] m.state = "Review" /\ rating = "again" -> "Relearning"
    [] StaysInSteps(m, rating) -> m.state
    [] OTHER -> "Review"

NextRemaining(m, rating) ==
  CASE NextState(m, rating) = "Review" -> 0
    [] StaysInSteps(m, rating) /\ rating # "again" -> m.remaining - 1
    [] OTHER -> StepsOf(NextState(m, rating)) - 1

(* CalculateNextFSRSState. *)
NextMemory(m, rating) ==
  [state |-> NextState(m, rating),
   remaining |-> NextRemaining(m, rating),
   reviews |-> m.reviews + 1,
   lapses |-> m.lapses + (IF m.state = "Review" /\ rating = "again" THEN 1 ELSE 0)]

(* MapToLearningStage. *)
StageFor(reviews, rating) ==
  CASE rating = "again" -> "learning"
    [] rating # "again" /\ reviews <= 2 -> "recognized"
    [] rating # "again" /\ reviews \in 3 .. 4 -> "recalled"
    [] rating # "again" /\ reviews \in 5 .. 6 -> "usable"
    [] OTHER -> "mastered"

Stages ==
  {"new", "learning", "recognized", "recalled", "usable", "mastered", "archived"}

IsLeech(m) == m.lapses >= LeechThreshold

SuspendsCard(m) == IsLeech(m) /\ LeechAction = "suspend"

(* The rows the scheduler can have written, or the schema default. *)
StepsInRange(m) ==
  IF m.state \in StepStates THEN m.remaining < StepsOf(m.state) ELSE m.remaining = 0
=============================================================================
