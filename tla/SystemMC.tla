-------------------------------- MODULE SystemMC --------------------------------
(***************************************************************************)
(* One run for the parts of the system that share no state in the models:  *)
(* a behaviour runs one of them and leaves the others as they begin, so    *)
(* that the run's states are the sum of the parts' states, not their       *)
(* product.                                                                *)
(***************************************************************************)
EXTENDS DueQueue, Streak, Notify, CentralAuth, SignIn, ApiSession, Accounts,
        Catalogue, Library, AddQueue, WordListMC, Verifier, Settings, Optimiser, Languages

CONSTANTS s1, s2, s3, e1, j1, d1, d2, k1, g1, g2, l1

VARIABLE part

MCLemmaOf == [c \in DueCards |-> IF c = s3 THEN "run" ELSE "bank"]

MCDueCard(state, reviews, lapses, due) ==
  [memory |-> [state |-> state, remaining |-> 0, reviews |-> reviews, lapses |-> lapses],
   due |-> due, buried |-> 0, active |-> TRUE]

(* s1 is one lapse away from being a leech; s2, a sense of the same word,  *)
(* is left over from the old scheduler; s3 is new.                         *)
MCSeededCards ==
  {[c \in DueCards |->
      CASE c = s1 -> MCDueCard("Review", 2, LeechThreshold - 1, 1)
        [] c = s2 -> MCDueCard("New", 1, 0, 1)
        [] OTHER  -> MCDueCard("New", 0, 0, 1)]}

(* Medians 2 and 1. *)
MCReviewHours == {<<3, 1>>, <<23, 1, 0>>}

(* Two senses of an English word and one of a Japanese word; the learner   *)
(* has an English deck beside the default one, and an archived card in it. *)
MCWordOfSense == [s \in Senses |-> IF s = j1 THEN "hashi" ELSE "bank"]
MCLanguageOf == [w \in {"hashi", "bank"} |-> IF w = "hashi" THEN "ja" ELSE "en"]
MCSeededDecks ==
  [d \in {d1, d2} |-> IF d = d1 THEN [language |-> "en", name |-> "default", default |-> TRUE]
                      ELSE [language |-> "en", name |-> "custom", default |-> FALSE]]
MCSeededDeckCards == [k \in {k1} |-> [sense |-> e1, deck |-> d2, archived |-> TRUE, note |-> "none"]]

(* A word nobody looked up yet, and one of which the learner has both      *)
(* senses.                                                                 *)
MCCatalogueSeeds ==
  {[meanings |-> <<>>, owned |-> <<>>],
   [meanings |-> <<[gloss |-> g1, by |-> "import"], [gloss |-> g2, by |-> "force"]>>,
    owned |-> [c \in {<<l1, 1>>, <<l1, 2>>} |-> [reviews |-> 2 - c[2], archived |-> FALSE]]]}

(* The goal segments are all storable; the slider goes below the smallest  *)
(* retention the server stores, which then stores its smallest.            *)
MCChoices == [goal |-> {1, 2}, retention |-> {0}]
-----------------------------------------------------------------------------
SystemInit ==
  /\ part \in {"due", "streak", "notify", "central", "sign in", "session", "accounts", "catalogue",
               "library", "queue", "picker", "list", "verifier", "settings", "optimiser", "languages"}
  /\ DueInit /\ StreakInit /\ NotifyInit /\ CentralInit /\ SignInInit /\ SessionInit
  /\ AccountsInit /\ CatalogueInit /\ LibraryInit /\ AddInit /\ WordListInit
  /\ VerifierInit /\ SettingsInit /\ OptimiserInit /\ LanguagesInit
  /\ part # "streak" => reviewDays = {}
  /\ part # "due" => card = CHOOSE k \in SeededCards : TRUE
  /\ part # "notify" => hours = CHOOSE h \in [NotifyUsers -> ReviewHours] : TRUE
  /\ part # "catalogue" => meanings = <<>>
  /\ part # "accounts" => bound = CHOOSE f \in [Subjects -> SeededUsers] : TRUE
  /\ part # "list" => filter = "all"
  /\ part # "verifier" => published = SigningKeys

(* One part runs, the others stay where they started. *)
Idle ==
  /\ part # "due" => UNCHANGED dueVars
  /\ part # "streak" => UNCHANGED streakVars
  /\ part # "notify" => UNCHANGED notifyVars
  /\ part # "central" => UNCHANGED centralVars
  /\ part # "sign in" => UNCHANGED signInVars
  /\ part # "session" => UNCHANGED sessionVars
  /\ part # "accounts" => UNCHANGED accountVars
  /\ part # "catalogue" => UNCHANGED catalogueVars
  /\ part # "library" => UNCHANGED libraryVars
  /\ part \notin {"queue", "picker"} => UNCHANGED addVars
  /\ part # "list" => UNCHANGED listVars
  /\ part # "verifier" => UNCHANGED verifierVars
  /\ part # "settings" => UNCHANGED settingsVars
  /\ part # "optimiser" => UNCHANGED optimiserVars
  /\ part # "languages" => UNCHANGED languagesVars

SystemNext ==
  /\ UNCHANGED part
  /\ \/ part = "due" /\ DueNext /\ Idle
     \/ part = "streak" /\ StreakNext /\ Idle
     \/ part = "notify" /\ NotifyNext /\ Idle
     \/ part = "central" /\ CentralNext /\ Idle
     \/ part = "sign in" /\ SignInNext /\ Idle
     \/ part = "session" /\ SessionNext /\ Idle
     \/ part = "accounts" /\ AccountsNext /\ Idle
     \/ part = "catalogue" /\ CatalogueNext /\ Idle
     \/ part = "library" /\ LibraryNext /\ Idle
     \/ part = "queue" /\ QueueNext /\ Idle
     \/ part = "picker" /\ PickerNext /\ Idle
     \/ part = "list" /\ WordListNext /\ Idle
     \/ part = "verifier" /\ VerifierNext /\ Idle
     \/ part = "settings" /\ SettingsNext /\ Idle
     \/ part = "optimiser" /\ OptimiserNext /\ Idle
     \/ part = "languages" /\ LanguagesNext /\ Idle

systemVars ==
  <<part, dueVars, streakVars, notifyVars, centralVars, signInVars, sessionVars, accountVars,
    catalogueVars, libraryVars, addVars, listVars, verifierVars, settingsVars, optimiserVars,
    languagesVars>>

SystemSpec == SystemInit /\ [][SystemNext]_systemVars

(* Every row, list and request in memory has its type in every part: no    *)
(* quota below zero, no more freezes than are given, no card on a sense    *)
(* that was deleted, no identity or pair of a deleted user.                *)
SystemTypeOK ==
  /\ part = "due" => DueTypeOK
  /\ part = "streak" => StreakTypeOK
  /\ part = "notify" => NotifyTypeOK
  /\ part = "central" => CentralTypeOK
  /\ part = "sign in" => SignInTypeOK
  /\ part = "session" => SessionTypeOK
  /\ part = "accounts" => AccountsTypeOK
  /\ part = "catalogue" => CatalogueTypeOK
  /\ part = "library" => LibraryTypeOK
  /\ part \in {"queue", "picker"} => AddTypeOK
  /\ part = "list" => WordListTypeOK
  /\ part = "verifier" => VerifierTypeOK
  /\ part = "settings" => SettingsTypeOK
  /\ part = "optimiser" => OptimiserTypeOK
  /\ part = "languages" => LanguagesTypeOK
===============================================================================
