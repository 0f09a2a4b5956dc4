----------------------------- MODULE SystemProofs -----------------------------
(* The parts of the system side by side: what is proved of each part alone  *)
(* holds of the composition that the run system checks.                     *)
EXTENDS SystemMC, DayProofs, AccountProofs, LibraryProofs, TLAPS

-------------------------------------------------------------------------------
(* The composition begins each part as the part begins, and a step of it is *)
(* a step of one part, or of none.                                          *)

LEMMA DuePart == SystemSpec => DueSpec
<1>1. SystemInit => DueInit
  BY DEF SystemInit
<1>2. [SystemNext]_systemVars => [DueNext]_dueVars
  BY DEF SystemNext, Idle, systemVars
<1> QED BY <1>1, <1>2, PTL DEF SystemSpec, DueSpec

LEMMA StreakPart == SystemSpec => StreakSpec
<1>1. SystemInit => StreakInit
  BY DEF SystemInit
<1>2. [SystemNext]_systemVars => [StreakNext]_streakVars
  BY DEF SystemNext, Idle, systemVars
<1> QED BY <1>1, <1>2, PTL DEF SystemSpec, StreakSpec

LEMMA NotifyPart == SystemSpec => NotifySpec
<1>1. SystemInit => NotifyInit
  BY DEF SystemInit
<1>2. [SystemNext]_systemVars => [NotifyNext]_notifyVars
  BY DEF SystemNext, Idle, systemVars
<1> QED BY <1>1, <1>2, PTL DEF SystemSpec, NotifySpec

LEMMA CentralPart == SystemSpec => CentralSpec
<1>1. SystemInit => CentralInit
  BY DEF SystemInit
<1>2. [SystemNext]_systemVars => [CentralNext]_centralVars
  BY DEF SystemNext, Idle, systemVars
<1> QED BY <1>1, <1>2, PTL DEF SystemSpec, CentralSpec

LEMMA SignInPart == SystemSpec => SignInSpec
<1>1. SystemInit => SignInInit
  BY DEF SystemInit
<1>2. [SystemNext]_systemVars => [SignInNext]_signInVars
  BY DEF SystemNext, Idle, systemVars
<1> QED BY <1>1, <1>2, PTL DEF SystemSpec, SignInSpec

LEMMA SessionPart == SystemSpec => SessionSpec
<1>1. SystemInit => SessionInit
  BY DEF SystemInit
<1>2. [SystemNext]_systemVars => [SessionNext]_sessionVars
  BY DEF SystemNext, Idle, systemVars
<1> QED BY <1>1, <1>2, PTL DEF SystemSpec, SessionSpec

LEMMA AccountsPart == SystemSpec => AccountsSpec
<1>1. SystemInit => AccountsInit
  BY DEF SystemInit
<1>2. [SystemNext]_systemVars => [AccountsNext]_accountVars
  BY DEF SystemNext, Idle, systemVars
<1> QED BY <1>1, <1>2, PTL DEF SystemSpec, AccountsSpec

LEMMA CataloguePart == SystemSpec => CatalogueSpec
<1>1. SystemInit => CatalogueInit
  BY DEF SystemInit
<1>2. [SystemNext]_systemVars => [CatalogueNext]_catalogueVars
  BY DEF SystemNext, Idle, systemVars
<1> QED BY <1>1, <1>2, PTL DEF SystemSpec, CatalogueSpec

LEMMA LibraryPart == SystemSpec => LibrarySpec
<1>1. SystemInit => LibraryInit
  BY DEF SystemInit
<1>2. [SystemNext]_systemVars => [LibraryNext]_libraryVars
  BY DEF SystemNext, Idle, systemVars
<1> QED BY <1>1, <1>2, PTL DEF SystemSpec, LibrarySpec

LEMMA AddPart == SystemSpec => AddSpec
<1>1. SystemInit => AddInit
  BY DEF SystemInit
<1>2. [SystemNext]_systemVars => [AddNext]_addVars
  BY DEF SystemNext, Idle, systemVars, AddNext
<1> QED BY <1>1, <1>2, PTL DEF SystemSpec, AddSpec

LEMMA WordListPart == SystemSpec => WordListSpec
<1>1. SystemInit => WordListInit
  BY DEF SystemInit
<1>2. [SystemNext]_systemVars => [WordListNext]_listVars
  BY DEF SystemNext, Idle, systemVars
<1> QED BY <1>1, <1>2, PTL DEF SystemSpec, WordListSpec

LEMMA VerifierPart == SystemSpec => VerifierSpec
<1>1. SystemInit => VerifierInit
  BY DEF SystemInit
<1>2. [SystemNext]_systemVars => [VerifierNext]_verifierVars
  BY DEF SystemNext, Idle, systemVars
<1> QED BY <1>1, <1>2, PTL DEF SystemSpec, VerifierSpec

LEMMA SettingsPart == SystemSpec => SettingsSpec
<1>1. SystemInit => SettingsInit
  BY DEF SystemInit
<1>2. [SystemNext]_systemVars => [SettingsNext]_settingsVars
  BY DEF SystemNext, Idle, systemVars
<1> QED BY <1>1, <1>2, PTL DEF SystemSpec, SettingsSpec

LEMMA OptimiserPart == SystemSpec => OptimiserSpec
<1>1. SystemInit => OptimiserInit
  BY DEF SystemInit
<1>2. [SystemNext]_systemVars => [OptimiserNext]_optimiserVars
  BY DEF SystemNext, Idle, systemVars
<1> QED BY <1>1, <1>2, PTL DEF SystemSpec, OptimiserSpec

LEMMA LanguagesPart == SystemSpec => LanguagesSpec
<1>1. SystemInit => LanguagesInit
  BY DEF SystemInit
<1>2. [SystemNext]_systemVars => [LanguagesNext]_languagesVars
  BY DEF SystemNext, Idle, systemVars
<1> QED BY <1>1, <1>2, PTL DEF SystemSpec, LanguagesSpec

-------------------------------------------------------------------------------
(* The types of the parts, each from its inductive invariant.               *)

LEMMA DueTypes == DueSpec => []DueTypeOK
<1>1. DueInv => DueTypeOK
  BY DEF DueInv
<1> QED BY DueInvAlways, <1>1, PTL

LEMMA StreakTypes == StreakSpec => []StreakTypeOK
<1>1. StreakInv => StreakTypeOK
  BY DEF StreakInv
<1> QED BY StreakInvAlways, <1>1, PTL

LEMMA NotifyTypes == NotifySpec => []NotifyTypeOK
<1>1. NotifyInv => NotifyTypeOK
  BY DEF NotifyInv
<1> QED BY NotifyInvInit, NotifyInvStep, <1>1, PTL DEF NotifySpec

LEMMA CentralTypes == CentralSpec => []CentralTypeOK
<1>1. CentralInv => CentralTypeOK
  BY DEF CentralInv
<1> QED BY CentralInvAlways, <1>1, PTL

LEMMA SignInTypes == SignInSpec => []SignInTypeOK
<1>1. SignInInv => SignInTypeOK
  BY DEF SignInInv
<1> QED BY SignInInvInit, SignInInvStep, <1>1, PTL DEF SignInSpec

LEMMA SessionTypes == SessionSpec => []SessionTypeOK
<1>1. SessionInv => SessionTypeOK
  BY DEF SessionInv
<1> QED BY SessionInvInit, SessionInvStep, <1>1, PTL DEF SessionSpec

LEMMA AccountsTypes == AccountsSpec => []AccountsTypeOK
<1>1. AccountsInv => AccountsTypeOK
  BY DEF AccountsInv
<1> QED BY AccountsInvAlways, <1>1, PTL

LEMMA CatalogueTypes == CatalogueSpec => []CatalogueTypeOK
<1>1. CatalogueInv => CatalogueTypeOK
  BY DEF CatalogueInv
<1> QED BY CatalogueAlways, <1>1, PTL

LEMMA WordListTypes == WordListSpec => []WordListTypeOK
<1>1. WordListInv => WordListTypeOK
  BY DEF WordListInv
<1> QED BY WordListInvAlways, <1>1, PTL

LEMMA VerifierTypes == VerifierSpec => []VerifierTypeOK
<1>1. VerifierInv => VerifierTypeOK
  BY DEF VerifierInv
<1> QED BY VerifierInvInit, VerifierInvStep, <1>1, PTL DEF VerifierSpec

LEMMA SettingsTypes == SettingsSpec => []SettingsTypeOK
<1>1. SettingsInv => SettingsTypeOK
  BY DEF SettingsInv
<1> QED BY SettingsInvInit, SettingsStep, <1>1, PTL DEF SettingsSpec

LEMMA OptimiserTypes == OptimiserSpec => []OptimiserTypeOK
<1>1. OptimiserInv => OptimiserTypeOK
  BY DEF OptimiserInv
<1> QED BY OptimiserInvAlways, <1>1, PTL

LEMMA LanguagesTypes == LanguagesSpec => []LanguagesTypeOK
<1>1. LanguagesInv => LanguagesTypeOK
  BY DEF LanguagesInv
<1> QED BY LanguagesInvInit, LanguagesStep, <1>1, PTL DEF LanguagesSpec

(* Every row, list and request in memory has its type in every part at      *)
(* once: no quota below zero, no more freezes than are given, no card on a  *)
(* sense that was deleted, no identity or pair of a deleted user.           *)
THEOREM SystemTypes == SystemSpec => []SystemTypeOK
<1>1. /\ DueTypeOK
      /\ StreakTypeOK
      /\ NotifyTypeOK
      /\ CentralTypeOK
      /\ SignInTypeOK
      /\ SessionTypeOK
      /\ AccountsTypeOK
      /\ CatalogueTypeOK
      /\ LibraryTypeOK
      /\ AddTypeOK
      /\ WordListTypeOK
      /\ VerifierTypeOK
      /\ SettingsTypeOK
      /\ OptimiserTypeOK
      /\ LanguagesTypeOK
      => SystemTypeOK
  BY DEF SystemTypeOK
<1>2. SystemSpec => []DueTypeOK
  BY DuePart, DueTypes
<1>3. SystemSpec => []StreakTypeOK
  BY StreakPart, StreakTypes
<1>4. SystemSpec => []NotifyTypeOK
  BY NotifyPart, NotifyTypes
<1>5. SystemSpec => []CentralTypeOK
  BY CentralPart, CentralTypes
<1>6. SystemSpec => []SignInTypeOK
  BY SignInPart, SignInTypes
<1>7. SystemSpec => []SessionTypeOK
  BY SessionPart, SessionTypes
<1>8. SystemSpec => []AccountsTypeOK
  BY AccountsPart, AccountsTypes
<1>9. SystemSpec => []CatalogueTypeOK
  BY CataloguePart, CatalogueTypes
<1>10. SystemSpec => []LibraryTypeOK
  BY LibraryPart, LibraryTypesHold
<1>11. SystemSpec => []AddTypeOK
  BY AddPart, AddTypesHold
<1>12. SystemSpec => []WordListTypeOK
  BY WordListPart, WordListTypes
<1>13. SystemSpec => []VerifierTypeOK
  BY VerifierPart, VerifierTypes
<1>14. SystemSpec => []SettingsTypeOK
  BY SettingsPart, SettingsTypes
<1>15. SystemSpec => []OptimiserTypeOK
  BY OptimiserPart, OptimiserTypes
<1>16. SystemSpec => []LanguagesTypeOK
  BY LanguagesPart, LanguagesTypes
<1> QED
  BY <1>1, <1>2, <1>3, <1>4, <1>5, <1>6, <1>7, <1>8, <1>9, <1>10, <1>11, <1>12, <1>13, <1>14, <1>15, <1>16, PTL

(* What the run checks of the composition is what is proved of the parts.   *)
THEOREM PartsKeepPromises ==
  SystemSpec =>
    /\ []NoCardTwice /\ []RetriesListed /\ []BuriedUntilTomorrow /\ []SensesApart
    /\ []StreakEarned /\ ReviewKeepsVacation /\ RemindersSpaced
    /\ []OneSessionPerState /\ RevokedStaysRevoked /\ []KnownKeyAccepted
    /\ []PickedUpOnceInTime /\ []SignedOutMeansEnded /\ []RefreshIsShared /\ []SignedOutForgets
    /\ []CardsInLanguage /\ []NoSenseTwice /\ CardsCarriedOver
    /\ []FilterHonoured /\ []PagesFollow /\ []LookedUpOnce
    /\ []ShownIsStored /\ []LanguagesFresh
<1>1. DueSpec => []NoCardTwice /\ []RetriesListed /\ []BuriedUntilTomorrow /\ []SensesApart
  BY ListHoldsCardOnce, RetriesGetListed, BuriedStaysOut, SensesStayApart
<1>2. StreakSpec => []StreakEarned /\ ReviewKeepsVacation
  BY StreakWasEarned, VacationStays
<1>3. CentralSpec => []OneSessionPerState /\ RevokedStaysRevoked
  BY OneSignInPerState, RevocationIsFinal
<1>4. SignInSpec => []PickedUpOnceInTime /\ []SignedOutMeansEnded
  BY CodesAreSingleUse, SignOutIsFinal
<1>5. SessionSpec => []RefreshIsShared /\ []SignedOutForgets
  BY OneRefreshForAll, RestForgets
<1>6. CatalogueSpec => []NoSenseTwice /\ CardsCarriedOver
  BY LookupsStoreOnce, HistoryIsCarried
<1>7. WordListSpec => []FilterHonoured /\ []PagesFollow
  BY DeckHonoured, PagesLeaveNoGap
<1> QED
  BY <1>1, <1>2, <1>3, <1>4, <1>5, <1>6, <1>7, DuePart, StreakPart, CentralPart, SignInPart, SessionPart,
     CataloguePart, WordListPart, NotifyPart, ReminderDistance, VerifierPart, GoodTokensPass,
     LibraryPart, CardsStayInLanguage, AddPart, EachJobLookedUpOnce, SettingsPart, ScreenTellsStored,
     LanguagesPart, PairsStayFresh

===============================================================================
