------------------------------- MODULE WordListMC -------------------------------
(* The list of words with a small deck.                                    *)
EXTENDS WordList

(* Every other word lies in the deck. *)
MCDeckWords == [f \in {"all", "deck"} |-> IF f = "all" THEN Words ELSE {w \in Words : w % 2 = 0}]
=============================================================================
