---------------------------- MODULE ReviewLedger ----------------------------
(***************************************************************************)
(* What POST /api/reviews/batch promises: a batch is applied once and as a *)
(* whole, as if batches ran one after the other, or not at all.  A card's  *)
(* scheduling memory is then a function of the answers in the ledger.      *)
(***************************************************************************)
EXTENDS Scheduler, Sequences

CONSTANTS
  Cards, Batches, BatchInputs,
  StartMemory   \* [Cards -> Memory]: the cards' memory at the start

VARIABLES
  memory,   \* [Cards -> Memory]
  log,      \* [Cards -> Nat]: attempts recorded of each card
  status,   \* [Batches -> ...]: what the client knows of each batch
  input     \* [Batches -> attempts]

vars == <<memory, log, status, input>>

Init ==
  /\ memory = StartMemory
  /\ log = [c \in Cards |-> StartMemory[c].reviews]
  /\ status = [b \in Batches |-> "idle"]
  /\ input = [b \in Batches |-> <<>>]

(* The cards' memory and attempts after one more answer. *)
Answered(cards, t) ==
  [memory |-> [cards.memory EXCEPT ![t.card] = NextMemory(Migrated(@), t.rating)],
   log |-> [cards.log EXCEPT ![t.card] = @ + 1]]

(* The cards after the first n of a list of answers. *)
Run(cards, answers) ==
  LET run[n \in 0 .. Len(answers)] ==
        IF n = 0 THEN cards ELSE Answered(run[n - 1], answers[n])
  IN  run

Submit(b) ==
  /\ status[b] = "idle"
  /\ \E attempts \in BatchInputs : input' = [input EXCEPT ![b] = attempts]
  /\ status' = [status EXCEPT ![b] = "pending"]
  /\ UNCHANGED <<memory, log>>

Apply(b) ==
  LET after == Run([memory |-> memory, log |-> log], input[b])[Len(input[b])] IN
  /\ status[b] = "pending"
  /\ status' = [status EXCEPT ![b] = "done"]
  /\ memory' = after.memory
  /\ log' = after.log
  /\ UNCHANGED input

Refuse(b) ==
  /\ status[b] = "pending"
  /\ \E s \in {"rejected", "failed", "cancelled"} : status' = [status EXCEPT ![b] = s]
  /\ UNCHANGED <<memory, log, input>>

Resubmit(b) ==
  /\ status[b] = "failed"
  /\ status' = [status EXCEPT ![b] = "pending"]
  /\ UNCHANGED <<memory, log, input>>

Next == \E b \in Batches : Submit(b) \/ Apply(b) \/ Refuse(b) \/ Resubmit(b)

Spec == Init /\ [][Next]_vars
=============================================================================
