--------------------------- MODULE SchedulerProofs ---------------------------
(* What the scheduler's operators return, for any number of steps and any   *)
(* leech threshold.                                                        *)
EXTENDS Scheduler, TLAPS

LEMMA MigratedType == \A m \in Memory : Migrated(m) \in Memory /\ Migrated(m).reviews = m.reviews
  BY DEF Migrated, Memory, StepStates

LEMMA StepsType == \A s \in STRING : StepsOf(s) \in Nat \ {0}
  BY SchedulerAssumption DEF StepsOf

LEMMA NextStateType ==
  ASSUME NEW m \in Memory, NEW rating \in Ratings
  PROVE  NextState(m, rating) \in {"Review"} \cup StepStates
  BY DEF NextState, Memory, Ratings, StepStates, StaysInSteps

LEMMA NextRemainingType ==
  ASSUME NEW m \in Memory, NEW rating \in Ratings
  PROVE  /\ NextRemaining(m, rating) \in Nat
         /\ NextState(m, rating) = "Review" => NextRemaining(m, rating) = 0
<1>1. StaysInSteps(m, rating) => NextState(m, rating) # "Review"
  BY DEF NextState, StaysInSteps, StepStates, Memory, Ratings
<1>2. CASE NextState(m, rating) = "Review"
  <2>1. ~StaysInSteps(m, rating)
    BY <1>1, <1>2
  <2>2. NextRemaining(m, rating) = 0
    BY <1>2, <2>1 DEF NextRemaining
  <2> QED BY <2>2
<1>3. CASE NextState(m, rating) # "Review" /\ StaysInSteps(m, rating) /\ rating # "again"
  <2>1. NextRemaining(m, rating) = m.remaining - 1
    BY <1>3 DEF NextRemaining
  <2>2. m.remaining \in Nat /\ m.remaining > 1
    BY <1>3 DEF StaysInSteps, Memory
  <2> QED BY <1>3, <2>1, <2>2
<1>4. CASE NextState(m, rating) # "Review" /\ ~(StaysInSteps(m, rating) /\ rating # "again")
  <2>1. NextRemaining(m, rating) = StepsOf(NextState(m, rating)) - 1
    BY <1>4 DEF NextRemaining
  <2>2. StepsOf(NextState(m, rating)) \in Nat \ {0}
    BY SchedulerAssumption DEF StepsOf
  <2> QED BY <1>4, <2>1, <2>2
<1> QED BY <1>2, <1>3, <1>4

(* A review keeps a card's row within the schema (remaining_steps >= 0) and *)
(* counts exactly one review.                                              *)
THEOREM NextMemoryType ==
  ASSUME NEW m \in Memory, NEW rating \in Ratings
  PROVE  NextMemory(m, rating) \in Memory /\ NextMemory(m, rating).reviews = m.reviews + 1
  BY NextStateType, NextRemainingType DEF NextMemory, Memory

THEOREM StageForType ==
  \A n \in Nat, rating \in Ratings : StageFor(n, rating) \in Stages
<1> SUFFICES ASSUME NEW n \in Nat, NEW rating \in Ratings
             PROVE  StageFor(n, rating) \in Stages
  OBVIOUS
<1>1. CASE rating = "again"
  BY <1>1 DEF StageFor, Stages
<1>2. CASE rating # "again" /\ n <= 2
  BY <1>2 DEF StageFor, Stages
<1>3. CASE rating # "again" /\ n \in 3 .. 4
  BY <1>3 DEF StageFor, Stages
<1>4. CASE rating # "again" /\ n \in 5 .. 6
  BY <1>4 DEF StageFor, Stages
<1>5. CASE rating # "again" /\ n > 6
  BY <1>5 DEF StageFor, Stages
<1> QED BY <1>1, <1>2, <1>3, <1>4, <1>5

=============================================================================
