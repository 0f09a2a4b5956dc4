SPECIFICATION SystemSpec
CONSTANTS
  s1 = s1
  s2 = s2
  s3 = s3
  e1 = e1
  j1 = j1
  d1 = d1
  d2 = d2
  k1 = k1
  g1 = g1
  g2 = g2
  l1 = l1
  \* the due queue
  DueCards = {s1, s2, s3}
  LemmaOf <- MCLemmaOf
  SeededCards <- MCSeededCards
  NewPerDay = 1
  ReviewsPerDay = 1
  ListLimits = {3}
  EditedCards = {s2}
  GivenRatings = {"again", "good"}
  MaxAnswers = 2
  MaxDate = 2
  LearningSteps = 1
  RelearningSteps = 1
  LeechThreshold = 2
  LeechAction = "suspend"
  \* streaks
  StreakBatches = {b1, b2}
  StreakReads = {r1}
  LastDay = 3
  FreezeTokens = 1
  VacationDays = 1
  \* notifications
  NotifyUsers = {u1, u2}
  ReviewHours <- MCReviewHours
  Backoff = 3
  FirstHour = 22
  LastHour = 28
  \* central auth
  OAuthStates = {o1, o2}
  Callbacks = {k1, k2}
  Refreshers = {q1}
  MaxSessions = 2
  OAuthStateTTL = 2
  AccessTTL = 1
  RefreshTTL = 2
  IdleTimeout = 2
  MaxAge = 2
  LastTick = 3
  \* the sign-in hand-over
  Logins = {n1, n2}
  NoLogin = none
  Tabs = {t1, t2}
  PickupTTL = 1
  LastSecond = 2
  \* the client's session
  Sealed = {h1, h2}
  NoToken = none
  Calls = {k1, k2}
  MaxOutages = 2
  \* accounts
  UserIds = {u1, u2, u3}
  Subjects = {x1, x2}
  TargetLanguages = {"en", "ja"}
  DefaultTarget = "en"
  AccountRequests = {q1, q2}
  MaxAccountRequests = 4
  SeededUsers = {u1}
  \* the catalogue
  Glosses = {g1, g2}
  Learners = {l1}
  CatalogueJobs = {r1, r2}
  MaxOrder = 4
  MaxJobs = 3
  CatalogueSeeds <- MCCatalogueSeeds
  \* decks and cards
  DeckIds = {d1, d2, d3}
  CardIds = {k1, k2}
  Senses = {e1, e2, j1}
  WordOfSense <- MCWordOfSense
  LanguageOf <- MCLanguageOf
  Learned = {"en", "ja"}
  DeckRequests = {r1, r2}
  MaxStarted = 4
  SeededDecks <- MCSeededDecks
  SeededDeckCards <- MCSeededDeckCards
  \* the add queue and the picker
  JobIds = {p1, p2, p3}
  SeekWords = {w1, w2}
  MaxSeeks = 3
  \* the word list
  Words = {1, 2, 3, 4}
  DeckWords <- MCDeckWords
  PageSize = 1
  Restarts = 4
  Pages = 3
  \* token verification
  SigningKeys = {v1, v2}
  TokenChecks = {r1, r2}
  MaxRotations = 2
  \* settings
  OfferedChoices <- MCChoices
  MinStored = 1
  MaxStored = 2
  DefaultChoice = 2
  Patches = {z1, z2}
  \* the optimiser
  FitRequests = {f1, f2}
  MinReviews = 2
  MaxReviews = 3
  MaxFits = 3
  \* the client's languages
  PairChanges = {c1, c2}
  MaxListChanges = 2
  MaxTicks = 2
INVARIANTS
  SystemTypeOK
  NoCardTwice
  RetriesListed
  BuriedUntilTomorrow
  SensesApart
  StreakEarned
  PickedUpOnceInTime
  SignedOutMeansEnded
  OneSessionPerState
  RefreshIsShared
  SignedOutForgets
  FilterHonoured
  PagesFollow
  CardsInLanguage
  NoSenseTwice
  LookedUpOnce
  KnownKeyAccepted
  ShownIsStored
  LanguagesFresh
PROPERTIES
  ReviewKeepsVacation
  RemindersSpaced
  RevokedStaysRevoked
  CardsCarriedOver
CHECK_DEADLOCK FALSE
