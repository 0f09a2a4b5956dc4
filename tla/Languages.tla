-------------------------------- MODULE Languages --------------------------------
(***************************************************************************)
(* The client's copy of the learner's language pairs                       *)
(* (contexts/LanguageContext.tsx) and the screens that change them.  Every *)
(* change bumps a tick, which starts a load and drops the answers of older *)
(* ones.  The pairs themselves are those of Accounts; here the server's    *)
(* list is a number that grows with every change.                          *)
(***************************************************************************)
EXTENDS Integers, FiniteSets

CONSTANTS
  PairChanges,      \* changes of pairs the client sends
  MaxListChanges,   \* bound: changes the server applies
  MaxTicks          \* bound: refreshes

ASSUME LanguagesAssumption == MaxListChanges \in Nat /\ MaxTicks \in Nat

VARIABLES
  serverList,   \* the pairs the server has, as a number of changes
  shownList,    \* languages
  listTick,     \* tick
  loads,        \* loads under way: their tick, and what the server answered
  listError,    \* error: the screen offers only to refresh
  change,       \* each change: where it is and which screen sent it
  unconfirmed   \* history: a change may have been applied after its screen gave up

languagesVars == <<serverList, shownList, listTick, loads, listError, change, unconfirmed>>

Load == [tick : 0 .. MaxTicks, answer : {{}} \cup {{n} : n \in 0 .. MaxListChanges}]
ChangeScreens == {"set active", "remove", "add or edit"}
ChangeRow == [at : {"idle", "sent", "applied", "given up"}, screen : ChangeScreens \cup {"none"}]
IdleChange == [at |-> "idle", screen |-> "none"]

LanguagesTypeOK ==
  /\ serverList \in 0 .. MaxListChanges
  /\ shownList \in 0 .. MaxListChanges /\ shownList <= serverList
  /\ listTick \in 0 .. MaxTicks
  /\ loads \subseteq Load
  /\ listError \in BOOLEAN /\ unconfirmed \in BOOLEAN
  /\ change \in [PairChanges -> ChangeRow]

(* Mutant: the cleanup of the effect does not drop older answers. *)
AnyTick(l) == TRUE

(* The effect that sent the load is the current one: active. *)
Current(l) == l.tick = listTick

Refreshed == loads \cup {[tick |-> listTick + 1, answer |-> {}]}
-----------------------------------------------------------------------------
LanguagesInit ==
  /\ serverList = 0 /\ shownList = 0
  /\ listTick = 0
  /\ loads = {[tick |-> 0, answer |-> {}]}
  /\ listError = FALSE
  /\ change = [c \in PairChanges |-> IdleChange]
  /\ unconfirmed = FALSE

ListServed(l) ==
  /\ l.answer = {}
  /\ loads' = (loads \ {l}) \cup {[l EXCEPT !.answer = {serverList}]}
  /\ UNCHANGED <<serverList, shownList, listTick, listError, change, unconfirmed>>

(* What a load shows ends the doubt about changes the server has made. *)
ListLoaded(l) ==
  /\ l.answer # {} /\ loads' = loads \ {l}
  /\ IF Current(l)
     THEN /\ shownList' \in l.answer
          /\ listError' = FALSE
          /\ unconfirmed' = \/ serverList \notin l.answer /\ unconfirmed
                            \/ \E c \in PairChanges : change[c].at = "given up"
     ELSE UNCHANGED <<shownList, listError, unconfirmed>>
  /\ UNCHANGED <<serverList, listTick, change>>

ListFails(l) ==
  /\ loads' = loads \ {l}
  /\ listError' = (Current(l) \/ listError)
  /\ UNCHANGED <<serverList, shownList, listTick, change, unconfirmed>>

(* A screen with the words gains focus, or "retry" is pressed after an error. *)
RefreshLanguage ==
  /\ listTick < MaxTicks
  /\ listTick' = listTick + 1 /\ loads' = Refreshed
  /\ UNCHANGED <<serverList, shownList, listError, change, unconfirmed>>

(* The list's buttons are gone while an error is shown; the screens to add *)
(* and to edit a pair stay open.                                           *)
SendChange(c, screen) ==
  /\ change[c].at = "idle" /\ (listError => screen = "add or edit")
  /\ change' = [change EXCEPT ![c] = [at |-> "sent", screen |-> screen]]
  /\ UNCHANGED <<serverList, shownList, listTick, loads, listError, unconfirmed>>

(* The server applies the change; nobody may be waiting any more. *)
ApplyChange(c) ==
  /\ change[c].at \in {"sent", "given up"} /\ serverList < MaxListChanges
  /\ serverList' = serverList + 1
  /\ change' = [change EXCEPT ![c] =
       IF change[c].at = "sent" THEN [@ EXCEPT !.at = "applied"] ELSE IdleChange]
  /\ UNCHANGED <<shownList, listTick, loads, listError, unconfirmed>>

(* Every screen refreshes once its change is confirmed. *)
ChangeConfirmed(c) ==
  /\ change[c].at = "applied" /\ listTick < MaxTicks
  /\ change' = [change EXCEPT ![c] = IdleChange]
  /\ listTick' = listTick + 1 /\ loads' = Refreshed
  /\ UNCHANGED <<serverList, shownList, listError, unconfirmed>>

(* The server refuses, or the request or its answer is lost: setActive     *)
(* shows an error in place of the list, the other screens only a message.  *)
ChangeFails(c) ==
  /\ change[c].at \in {"sent", "applied"}
  /\ \E refused \in BOOLEAN :
       /\ refused => change[c].at = "sent"
       /\ change' = [change EXCEPT ![c] =
            IF refused \/ change[c].at = "applied" THEN IdleChange ELSE [@ EXCEPT !.at = "given up"]]
       /\ unconfirmed' = (unconfirmed \/ ~refused)
  /\ listError' = (listError \/ change[c].screen = "set active")
  /\ UNCHANGED <<serverList, shownList, listTick, loads>>

(* A change the server never got. *)
ChangeLost(c) ==
  /\ change[c].at = "given up"
  /\ change' = [change EXCEPT ![c] = IdleChange]
  /\ UNCHANGED <<serverList, shownList, listTick, loads, listError, unconfirmed>>

LanguagesNext ==
  \/ RefreshLanguage
  \/ \E l \in loads : ListServed(l) \/ ListLoaded(l) \/ ListFails(l)
  \/ \E c \in PairChanges :
       \/ \E screen \in ChangeScreens : SendChange(c, screen)
       \/ ApplyChange(c) \/ ChangeConfirmed(c) \/ ChangeFails(c) \/ ChangeLost(c)

LanguagesSpec == LanguagesInit /\ [][LanguagesNext]_languagesVars
-----------------------------------------------------------------------------
(* Once the loads have ended, the client shows the pairs the server has,   *)
(* unless it shows an error or a change was given up on: an answer that    *)
(* was overtaken by a later change never stays.                            *)
LanguagesFresh ==
  \/ loads # {} \/ listError \/ unconfirmed
  \/ \E c \in PairChanges : change[c].at = "applied"
  \/ shownList = serverList
===============================================================================
