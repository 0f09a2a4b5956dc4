---------------------------- MODULE ReviewStoreMC ----------------------------
(* Instances of ReviewStore for TLC.  Cards c1 and c2 are two senses of one *)
(* word, c3 is a card of another word.                                     *)
EXTENDS ReviewStore

CONSTANTS c1, c2, c3

MCWordOf == [c \in Cards |-> IF c = c3 THEN "run" ELSE "bank"]

Row(status, stage, memory, suspended) ==
  [sense |-> [status |-> status, stage |-> stage],
   review |-> [memory |-> memory, suspended |-> suspended, buried |-> FALSE]]

Lapsing == [state |-> "Review", remaining |-> 0, reviews |-> 2, lapses |-> LeechThreshold - 1]

(* c1 is one lapse short of a leech, c2 was never reviewed. *)
MCSeeded ==
  [c \in Cards |->
     IF c = c1 THEN Row("active", "recalled", Lapsing, FALSE)
               ELSE Row("active", "new", FreshMemory, FALSE)]

(* c1 is a suspended leech, c2 was reviewed before the migration, c3 is a   *)
(* word the user does not have yet.                                        *)
MCSeededMixed ==
  [c \in Cards |->
     CASE c = c1 -> Row("archived", "learning",
                        [Lapsing EXCEPT !.state = "Relearning", !.lapses = LeechThreshold], TRUE)
       [] c = c2 -> Row("active", "recognized", [FreshMemory EXCEPT !.reviews = 1], FALSE)
       [] OTHER  -> Row("absent", "new", FreshMemory, FALSE)]

Answer(c, rating) == [card |-> c, rating |-> rating]

MCInputs ==
  {<<Answer(c1, "again"), Answer(c2, "good")>>,
   <<Answer(c2, "again"), Answer(c1, "good")>>,
   <<Answer(c1, "again"), Answer(c1, "good")>>,
   <<Answer(c2, "good"), Answer(c2, "good")>>}

MCInputsShort == {<<Answer(c2, "again"), Answer(c1, "again")>>}

MCInputsMixed ==
  {<<Answer(c2, "again"), Answer(c2, "hard")>>,
   <<Answer(c3, "good"), Answer(c1, "easy")>>,
   <<Answer(c2, "good"), Answer(c3, "again")>>}
=============================================================================
