-------------------------------- MODULE Settings --------------------------------
(***************************************************************************)
(* The daily goal and the desired retention: the learner's row of          *)
(* review_settings, the requests that read and patch it (words/service.go, *)
(* review_settings_handler.go), and the settings screen, which shows a     *)
(* choice before the server has confirmed it (ProfileScreen.tsx).  No      *)
(* control is disabled while a patch or the first load is under way.       *)
(***************************************************************************)
EXTENDS Integers, FiniteSets

CONSTANTS
  OfferedChoices,   \* the values the screen offers for the daily goal and the retention
  MinStored, MaxStored, \* what clampDesiredRetention, clampDailyGoalXP leave
  DefaultChoice,    \* of the row and of the screen before it has loaded
  Patches           \* requests of the screen that may be under way at once

Fields == {"goal", "retention"}

ASSUME SettingsAssumption ==
  /\ OfferedChoices \in [Fields -> SUBSET Nat]
  /\ MinStored \in Nat /\ MaxStored \in Nat
  /\ DefaultChoice \in MinStored .. MaxStored

VARIABLES
  settings,    \* the row's two fields
  displayed,   \* selectedGoalXp, retentionPercent
  opening,     \* the screen's load
  patch,       \* each patch: where its request is, and what the screen will do with it
  unsure       \* history: fields whose last choice the server and the screen may disagree on

settingsVars == <<settings, displayed, opening, patch, unsure>>

AnyChoice == (UNION {OfferedChoices[f] : f \in Fields}) \cup (MinStored .. MaxStored)
Values == [Fields -> AnyChoice]
PatchSteps == {"idle", "sent", "ensured", "updated", "answered"}
IdlePatch == [at |-> "idle", field |-> "goal", to |-> DefaultChoice, back |-> DefaultChoice,
              read |-> [f \in Fields |-> DefaultChoice], heard |-> FALSE]

PatchRow == [at : PatchSteps, field : Fields, to : AnyChoice, back : AnyChoice, read : Values,
             heard : BOOLEAN]
OpeningRow == [at : {"sent", "answered", "failed", "loaded"}, read : Values]

SettingsTypeOK ==
  /\ settings \in Values
  /\ displayed \in Values
  /\ opening \in OpeningRow
  /\ patch \in [Patches -> PatchRow]
  /\ unsure \subseteq Fields

Clamped(v) == IF v < MinStored THEN MinStored ELSE IF v > MaxStored THEN MaxStored ELSE v

(* Mutant: the whole row as it was read is written back. *)
WholeRow(p) == [patch[p].read EXCEPT ![patch[p].field] = Clamped(patch[p].to)]

Updated(p) == [settings EXCEPT ![patch[p].field] = Clamped(patch[p].to)]

(* The request goes on until it has written, but no screen waits for it. *)
Unheard(p) == IF patch[p].at \in {"sent", "ensured"}
              THEN [patch[p] EXCEPT !.heard = FALSE, !.back = DefaultChoice] ELSE IdlePatch

(* What becomes of a patch's record as it goes on. *)
SentPatch(f, v) == [at |-> "sent", field |-> f, to |-> v, back |-> displayed[f],
                    read |-> IdlePatch.read, heard |-> TRUE]
EnsuredPatch(p) == [patch[p] EXCEPT !.at = "ensured", !.read = settings]
CommittedPatch(p) ==
  IF patch[p].heard
  THEN [patch[p] EXCEPT !.at = "updated", !.to = DefaultChoice, !.read = IdlePatch.read] ELSE IdlePatch
RereadPatch(p) ==
  [patch[p] EXCEPT !.at = "answered", !.read = [@ EXCEPT ![patch[p].field] = settings[patch[p].field]]]

UnderWay(f) == {p \in Patches : patch[p].at # "idle" /\ patch[p].field = f}
-----------------------------------------------------------------------------
SettingsInit ==
  /\ settings = [f \in Fields |-> DefaultChoice]
  /\ displayed = [f \in Fields |-> DefaultChoice]
  /\ opening = [at |-> "sent", read |-> [f \in Fields |-> DefaultChoice]]
  /\ patch = [p \in Patches |-> IdlePatch]
  /\ unsure = {}

(* The screen is mounted again; requests of the old one go on without it.  *)
OpenScreen ==
  /\ opening.at \in {"loaded", "failed"}
  /\ opening' = [at |-> "sent", read |-> [f \in Fields |-> DefaultChoice]]
  /\ displayed' = [f \in Fields |-> DefaultChoice]
  /\ patch' = [p \in Patches |-> Unheard(p)]
  /\ unsure' = {f \in Fields : \E p \in UnderWay(f) : patch[p].at \in {"sent", "ensured"}}
  /\ UNCHANGED settings

GetReviewSettings ==
  /\ opening.at = "sent"
  /\ opening' = [at |-> "answered", read |-> settings]
  /\ UNCHANGED <<settings, displayed, patch, unsure>>

ScreenLoaded ==
  /\ opening.at = "answered"
  /\ opening' = [at |-> "loaded", read |-> IdlePatch.read]
  /\ displayed' = opening.read
  /\ UNCHANGED <<settings, patch, unsure>>

(* The defaults stay on the screen, as if they were the learner's. *)
ScreenFails ==
  /\ opening.at \in {"sent", "answered"}
  /\ opening' = [at |-> "failed", read |-> IdlePatch.read]
  /\ UNCHANGED <<settings, displayed, patch, unsure>>

(* handleSelectDailyGoal ignores the goal it shows; commitRetentionPercent *)
(* sends whatever the slider says.                                         *)
Choose(p, f, v) ==
  /\ patch[p].at = "idle" /\ (f = "goal" => v # displayed[f])
  /\ unsure' = IF opening.at \in {"sent", "answered"} \/ UnderWay(f) # {}
               THEN unsure \cup {f} ELSE unsure
  /\ patch' = [patch EXCEPT ![p] = SentPatch(f, v)]
  /\ displayed' = [displayed EXCEPT ![f] = v]
  /\ UNCHANGED <<settings, opening>>

EnsureSettings(p) ==
  /\ patch[p].at = "sent"
  /\ patch' = [patch EXCEPT ![p] = EnsuredPatch(p)]
  /\ UNCHANGED <<settings, displayed, opening, unsure>>

UpdateReviewSettings(p) ==
  /\ patch[p].at = "ensured"
  /\ settings' = Updated(p)
  /\ patch' = [patch EXCEPT ![p] = CommittedPatch(p)]
  /\ UNCHANGED <<displayed, opening, unsure>>

(* The row is read once more for the answer. *)
AnswerPatch(p) ==
  /\ patch[p].at = "updated"
  /\ patch' = [patch EXCEPT ![p] = RereadPatch(p)]
  /\ UNCHANGED <<settings, displayed, opening, unsure>>

(* The screen shows what the server committed. *)
PatchConfirmed(p) ==
  /\ patch[p].at = "answered"
  /\ displayed' = [f \in Fields |-> IF f = patch[p].field THEN patch[p].read[f] ELSE displayed[f]]
  /\ patch' = [patch EXCEPT ![p] = IdlePatch]
  /\ UNCHANGED <<settings, opening, unsure>>

(* The server refuses or fails; the screen goes back to what it showed.    *)
PatchRefused(p) ==
  /\ patch[p].at \in {"sent", "ensured"} /\ patch[p].heard
  /\ displayed' = [displayed EXCEPT ![patch[p].field] = patch[p].back]
  /\ patch' = [patch EXCEPT ![p] = IdlePatch]
  /\ UNCHANGED <<settings, opening, unsure>>

(* The answer is lost, or the request, or the screen gives up: it goes     *)
(* back as well, and the server may still commit.                          *)
PatchLost(p) ==
  /\ patch[p].at # "idle"
  /\ displayed' = IF patch[p].heard THEN [displayed EXCEPT ![patch[p].field] = patch[p].back] ELSE displayed
  /\ unsure' = unsure \cup {patch[p].field}
  /\ patch' \in {[patch EXCEPT ![p] = IdlePatch], [patch EXCEPT ![p] = Unheard(p)]}
  /\ UNCHANGED <<settings, opening>>

SettingsNext ==
  \/ OpenScreen \/ GetReviewSettings \/ ScreenLoaded \/ ScreenFails
  \/ \E p \in Patches :
       \/ \E f \in Fields : \E v \in OfferedChoices[f] : Choose(p, f, v)
       \/ EnsureSettings(p) \/ UpdateReviewSettings(p) \/ AnswerPatch(p)
       \/ PatchConfirmed(p) \/ PatchRefused(p) \/ PatchLost(p)

SettingsSpec == SettingsInit /\ [][SettingsNext]_settingsVars
-----------------------------------------------------------------------------
(* Once the screen has loaded and no patch of a field is under way, it     *)
(* shows what the server has, clamped as it was stored, whatever happened  *)
(* to the other field at the same time.  Not so after two patches of one   *)
(* field crossed, after a patch was sent before the load was answered, or  *)
(* after an answer was lost.                                               *)
ShownIsStored ==
  \A f \in Fields :
    \/ opening.at # "loaded" \/ f \in unsure \/ UnderWay(f) # {}
    \/ displayed[f] = settings[f]
===============================================================================
