# Verification of Project PN

Project PN is a vocabulary trainer: a Go backend on PostgreSQL (`backend/`), an Expo/React client for phones, desktop
and web (`frontend/`, with the shared client in `packages/api`), a session service (`central-auth/`) and a browser
extension. A learner adds senses of words, the backend schedules them with FSRS, and the client runs practice sessions
whose answers are posted in batches.

The centre of the model is what the rest exists for: an answer's way from the learner's finger to the schedule, and
what concurrent requests, lost replies, retries, reloads and refusals can do to it. Around it stand the parts that
answer in several statements or messages: due lists, streaks, reminders, decks, the catalogue of senses, accounts,
sessions, and the client's own state. TLC checks small instances, TLAPS proves the most important properties for every
instance.

    tlc -config ReviewStore.cfg ReviewStoreMC        # a run: the configuration, then its module
    tlc -config System.cfg SystemMC                  # the longest one, some three minutes
    tlapm PracticeSessionProofs.tla                  # the proofs of a module, some minutes for the larger ones

`PROJECT.json` lists the runs, the mutants that show each property can fail, the source lines behind every
definition, the hazards and the theorems.

## 1. The system

| Component | State it keeps | Operations | What is hard |
|---|---|---|---|
| Scheduler (`words/scheduler.go`) | none; a function of a card's row | next state after a rating, intervals, learning stage | step counting across lapses, migration of old rows |
| Review batches (`words/batch_reviews.go`) | `review_states`, `user_word_senses`, `review_attempts`, `daily_review_counts`, the settings row | `RecordBatchReviewAttempts` | values computed in Go between a select and an update; rejection half-way; lock cycles |
| Learning items (`words/service.go` 285-870) | the same rows | add / re-add, change sense, archive, note, paged list | a reactivation or archive in the middle of a batch |
| Due queue (`words/service.go` 1661-1900, `due_queue.go`) | none; reads counts, settings and cards in several statements | `GetDueReviewItems` | snapshots of different moments, quotas, buried siblings |
| Review settings (`service.go` 1917-2005, `fsrs_optimizer.go`) | `review_settings` | read, update, optimise weights | read-compute-write; the row is also the batches' lock |
| Streaks (`streak.go`, `stats.go`) | `user_streaks` | count a review, reconcile missed days on read, freeze, vacation | blind overwrites, a second connection inside a transaction |
| Decks (`deck.go`) | `decks`, a card's deck | create, rename, delete, move | deletion against adds, partial moves |
| Words (`service.go` 100-280, 972-1590, `retranslate.go`) | `words`, `word_senses`, translations | look up, enrich, persist, append, re-translate | slow calls to a language model between a read and a write |
| Import (`import_service.go`) | none of its own | look up and add card by card | a failure in the middle |
| Notifications (`notifications.go`, `notify/worker.go`) | push tokens, what was sent | pick, send, record | send and record are not atomic |
| Practice session (`PracticeScreen.tsx`, `practiceItemState.ts`) | queue, index, attempts, unsent answers, request under way | answer, flush, retry, finish, repeat, end | everything arrives later than the learner goes on |
| API client (`packages/api/src/client.ts`) | the refresh under way | requests with a timeout, refresh after a 401 | a timed-out request may still be served |
| Add queue (`useAddQueue.tsx`) | jobs, one worker | enqueue, work, dismiss | a ref that React fills later |
| Session renewal (`useSessionRenewal.ts`, `sessionStorage.ts`) | tokens in three keys | timer, keep-alive, 401 | two refreshers of one token |
| Central auth (`central-auth/internal/session`) | `sessions` | create, validate, slide, refresh, revoke | check and rotation are separate statements |
| Accounts (`internal/auth`) | `users`, identities, languages | first sign-in, languages, merge | simultaneous first requests; exactly one active language |
| Sign-in hand-over (`internal/http/auth_handler.go`) | pickup codes, the cookie, handles at the gateway | login, callback, pick up, sign out | codes opened twice, ambiguous answers to a sign-out |
| Token verification (`auth/jwt_verifier.go`) | the issuer's key set | fetch, verify | several unlocked fetches, an older answer last |
| Word list (`useLearningItems.ts`, `MyWordsScreen.tsx`) | the list, its cursor, a request id | choose a deck, refresh, load more | pages that outlive the list they belong to |
| Client languages (`LanguageContext.tsx` and three screens) | the learner's pairs, a tick | load, change | overtaken loads, lost replies |
| Settings screen (`ProfileScreen.tsx`) | what it shows before the server has it | load, choose, roll back | nothing is disabled while a request is under way |
| Rate limiter (`internal/http/ratelimit.go`) | windows in memory | allow | nothing: one mutex |

How they meet: the practice session asks the due queue for cards and posts batches through the API client; the HTTP
layer decides whether an error is retryable (`409` is not, a failed transaction's `500` is); a batch changes the
cards' rows, today's counts and the streak in one transaction; adding, archiving and re-translating change the same
rows from other requests. Shared state is the database only. There is no message queue; each client has one saver.

What makes each part correct: a review is applied once, in order and completely (scheduler, batches); an active card
can be scheduled (items); a day shows no more new cards than allowed and no card twice (due queue); one streak
day for each day with a review (streaks); every card is in a deck of its language (decks); a card never loses its
history when its word's senses are replaced (words); nobody is reminded twice (notifications); no answer is lost and no
session is stuck (practice); who was told to be signed out is (sessions); what the screen shows is what the server has,
once it is at rest (lists, languages, settings).

## 2. Modules

| Module | Models | Kind |
|---|---|---|
| `Scheduler` | the discrete part of `scheduler.go` | operators |
| `DataLemmas` | induction over numbers and finite sets, for the proof modules | proofs |
| `SchedulerProofs` | the range of the scheduler's operators | proofs |
| `ReviewLedger` | batches applied one after the other, or refused as a whole | abstract specification |
| `ReviewStore` | the SQL statements of batches, adds and archives of one user | detailed specification |
| `ReviewStoreMC` | its instances for TLC | model |
| `ReviewStoreProofs` | types, no lost review, no suspended active card, the day's counts, the refinement to the ledger | proofs |
| `PracticeSession` | the client's session and its saver, with an atomic server | specification |
| `PracticeSessionProofs` | the saver loses nothing, keeps the order and repeats only after failures; the queue forgets no card | proofs |
| `DueQueue` | the four statements of `GetDueReviewItems` among answers, archives and midnight | specification |
| `Streak` | `user_streaks` under batches, reads and changes of vacation and freezes | specification |
| `Notify` | the worker's ticks: evaluate, send, record | specification |
| `Library` | decks and the cards in them | specification |
| `Catalogue` | the senses of one word, the cards on them, and the jobs that enrich and replace them | specification |
| `Accounts` | users, identities, learning pairs, merging | specification |
| `CentralAuth` | OAuth states, users and sessions of the session authority | specification |
| `SignIn` | the hand-over of a session handle to the tabs of a browser, and signing out | specification |
| `ApiSession` | the native app's stored keys, requests and the refresh after a 401 | specification |
| `Verifier` | the cached key set and the requests that fetch it | specification |
| `AddQueue` | the queue of words to add, and the sense picker | specification |
| `WordList`, `WordListMC` | the paged word list and its decks | specification, model |
| `Settings` | the review settings, their patches and the screen | specification |
| `Optimiser` | the statements of `OptimizeWeights` | specification |
| `Languages` | the client's copy of the learning pairs | specification |
| `DayProofs` | the promises of `Notify`, `Streak` and `DueQueue` | proofs |
| `LibraryProofs` | those of `Library`, `Catalogue`, `WordList` and `AddQueue` | proofs |
| `AccountProofs` | those of `Verifier`, `SignIn`, `ApiSession`, `CentralAuth`, `Accounts`, `Languages`, `Settings` and `Optimiser` | proofs |
| `SystemMC` | the specifications from `DueQueue` to `Languages` in one run | model |
| `SystemProofs` | what is proved of the parts holds of the system of parts | proofs |

`ReviewStore` shows that a batch is atomic and serial whatever else runs, so `PracticeSession` may use one action,
`Serve`, for a batch. The two are not composed in one state space: the product would only repeat the first. For the
same reason `DueQueue` answers a card in one step, with the scheduler's `NextMemory`.

`SystemMC` puts the parts that share no variable into one run. Its variable `part` picks one of them, and only that one
moves: the states are the sum of the parts' states, not their product, and an invariant of a part is checked in all of
its states. Where parts do share a table (`review_states` in `ReviewStore` and `DueQueue`, pairs in `Accounts` and
`Languages`), each module says what it takes from the other.

### Scheduler

A card's memory is its state, its remaining learning steps and its two counters. `NextMemory` is
`CalculateNextFSRSState` without stability, difficulty and day counts. `Migrated` is the conversion of a row that was
reviewed before FSRS (no stability yet): it is scheduled as a Review card. `StageFor` is `MapToLearningStage`.

### ReviewStore

State: committed rows (`sense`, `review`, `log`, `daily`), the version of a row its lock holder wrote (`senseNew`,
`reviewNew`), locks, and where each request is (`pc`, `input`, `pos`, `read`, `wrote`, `target`). One action is one SQL
statement of a READ COMMITTED transaction:

| Action | Code |
|---|---|
| `EnsureSettings` | `ensureReviewSettingsTx`: the upsert that locks the user's settings row |
| `SelectCard`, `RejectBatch` | the select of the card, or `ErrReviewItemUnavailable` and the rollback |
| `UpdateState` | the update of `review_states` with values computed from what was *read* |
| `UpdateSense`, `KeepSense` | archive a suspended leech, or a new stage, or neither |
| `LogAttempt` | the attempt row, the day's counts, the burying of sibling senses |
| `CommitBatch` | the commit |
| `UpsertSense`, `UpsertReview`, `CommitAdd` | `AddLearningItem`'s transaction, re-adding included |
| `CheckArchive`, `ArchiveRow`, `SkipRow`, `CommitArchive` | `ArchiveLearningItems`: an unlocked check, then one update, row by row |
| `AbortDeadlocked`, `Cancel`, `Retry` | PostgreSQL's deadlock detector, a cancelled context or a crash, the client's retry |

`LogAttempt` merges three statements: the first two touch rows no other request waits for while the settings row is
held. The burying update takes its row locks at once; that it would hold some of them while it waits for another is left
out, since only an add can hold that other row, and then it has nothing left to do but commit.

### PracticeSession

One action is one task of the event loop. `Grade` is the whole of `confirmGrade`: the answer is recorded and pushed,
`flushPending` runs up to its `await`, a failed card is shuffled back in, a repeat session goes round. `BatchSaved`,
`BatchRefused`, `BatchFails` are the three continuations of that `await` with its `finally` block. `FlushLater` is a
retry timer, or one poll of `waitForPendingFlushes`. `NoticeEnd` and `WaiterDone` are the effect that notices the end
of the queue and the waiter it starts. `Focus`, `StartRepeat`, `ReadList`, `ListArrives`, `ListFails` request
the cards; nothing ties a reply to the latest request, as in the code. `Reload` clears what a reload clears, and the
requests it leaves behind may still be served. A suspended card comes from `Serve`, a card archived from another
device from `ArchiveElsewhere`. `Without` filters by index, as `applyDueItemUpdatesToList` does: the slots already
shown stay, so that the index keeps its meaning.

What is simplified, and why nothing depends on it:

- rendering is atomic with the event that causes it;
- several waiters of one session are one flag: each ends with the same `setStatus('success')`, in the same state;
- whether a card is one lapse from a leech is a constant set, and a passed card is not due again in the same run: the
  schedule itself belongs to the other module;
- one base URL: the fallback addresses exist in development builds only (`frontend/src/config.ts`);
- the 401 path is left out here; it is `ApiSession`'s;
- the screen's `error` state is left out: `waitForPendingFlushes` never rejects, so only list errors could reach it.

### The parts of `SystemMC`

- `DueQueue`: `list` goes through `ReadCounts`, `FetchRetries`, `FetchReviews`, `FetchNew`, `ListSent`, each reading the
  rows of its moment. `RecordAnswer` is a committed batch with one answer: memory, counts, attempts and the burying of
  the other senses. `Shuffles` leaves the shuffle open and `Interleaved` is the greedy pass of `due_queue.go`.
  `list.rows` holds the rows selected so far with their group, `list.cards` the answer made of them.
- `Streak`: a batch takes the settings lock, selects the row or builds it from the history, and writes three columns; a
  read reconciles missed days and writes all columns; freezes and vacation do the same after their own read. `reviewDays`
  and `paidDays` are history: the days with a committed review, and those a freeze or a vacation paid for.
- `Notify`: `worker` holds the tick's start, the users still to be evaluated, those chosen and the one just sent to.
- `Library`: a request stops between its statements; foreign keys and unique indexes decide at each write (`InsertCard`,
  `DropDeck`, `MoveCards`, `SwapSense`, `SetNote`).
- `Catalogue`: `meanings` is indexed by `meaning_order`, unique in the word; `LosesNumber` is the insert that meets a
  number taken meanwhile. `RemapCards` is `RetranslateWord`'s last transaction, with `Winner` choosing the card that keeps
  a sense two cards map to: among those whose senses became one (`RemapPool`), the one with the most reviews as the job
  read them (`RemapCounts`). An import takes the sense that matches the card's back (`Matching`), at its own lookup or at the
  second one of `createWordAndSenseFromAnki`, and appends one only when neither finds it.
- `Accounts`: adding a language counts (`AddUserLanguage`), clears the active pair (`DeactivateOthers`) and inserts (`InsertPair`)
  in three statements; `WritePairs` is a commit under the partial unique index of `user_languages`. A merge moves the rows in the
  code's order, and any index it meets rolls it back.
- `CentralAuth`: `ConsumeState` decides and deletes in one statement, as the code does; sliding and refreshing do not.
- `SignIn`: `live` is what the gateway still takes, `farewell` what users were told has ended.
- `ApiSession`: a call keeps the token it was built with; `refresh` is the one shared promise. The server answers 410 to
  every refresh, so a refresh only ever ends a session. A session is stored in two steps, its token (`OpenURL`) and its refresh
  token (`SessionStored`); `overtaken` is history: the sessions between the two when the keys were cleared. Clearing is one
  step with the change of screen that follows it (`App.tsx:157-161`, `client.ts:53-58`): the code awaits the deletions,
  and the model assumes that no answer from the network comes while they run.
- `Verifier`: `steady` of a request holds the keys published ever since it began.
- `AddQueue`: `updates` are what React applies at the next render; `enqueue`'s updater may run at once or then. `coming` is the list they
  will make.
- `WordList`: a load carries the request id and cursor it was built with. A page is the set of its words: the newest
  `PageSize + 1` that the query finds (`AskedFor`), cut off at `PageSize` with the oldest one kept as the cursor (`CutOff`).
- `Settings`: `patch` is one choice of the learner on its way through the server's statements and back to the screen;
  `unsure` marks the fields on which a lost answer or crossing patches leave screen and server apart. The slider offers
  retentions that the server clamps.
- `Optimiser`: count, history, weights and save are statements of their own; a fit is known by the fits it builds on.
- `Languages`: the server's list is a number that grows with each change, and a load brings the number of its moment.
  The words screen starts one whenever it gets the focus (`RefreshLanguage`).

## 3. Runs

| Run | Configuration | Question | Verdict |
|---|---|---|---|
| `review_store` | `ReviewStore.cfg` | do two batches, an add and an archive keep types, counters, active cards, the day's counts, and do they implement the ledger? | holds |
| `review_store_mixed` | `ReviewStoreMixed.cfg` | the same for a re-added leech, a row from before the migration and a word not yet added | holds |
| `review_store_live` | `ReviewStoreLive.cfg` | is every request answered, lock cycles included? | holds |
| `practice_session` | `PracticeSession.cfg` | are answers accounted for, ordered and always about to be sent; is no card forgotten, and does the summary wait for the saver? | holds |
| `practice_live` | `PracticeLive.cfg` | is every answer settled, and does a finished session end? | holds |
| `practice_rows` | `PracticeRows.cfg` | is there one row for every answer? | violated |
| `practice_reveal` | `PracticeReveal.cfg` | is the rated card the one revealed? | violated |
| `practice_syncing` | `PracticeSyncing.cfg` | does "Syncing" always end? | violated |
| `practice_progress` | `PracticeProgress.cfg` | does progress never go back during a session? | violated |
| `system` | `System.cfg` | do the other parts keep what is listed below? | holds |
| `active_pair` | `ActivePair.cfg` | has a learner with pairs an active one? | violated |
| `list_pages` | `ListPages.cfg` | when nothing is left to fetch, is every word shown? | violated |

What the properties say, beyond their comments in the modules:

- `CountersMatchHistory` is the lost-update property. It depends on one statement that looks like housekeeping: with a
  plain select of the settings instead of the upsert, two batches lose a review (the mutant `EnsureSettingsUnlocked`).
- `ImplementsLedger` is a refinement: `memory` maps to the committed rows, and a batch's many places to idle, pending
  or ended. A batch that was rolled back leaves no trace, and two batches never mix.
- `SuspendedIsArchived`: a suspended active card would be in no list and no batch could reach it.
- `FirstHeardInOrder` and `EveryAnswerAccountedFor` say together that the saver is a queue that may repeat itself but
  neither loses nor swaps answers. The answers of a refused batch or lost by a reload are named in `dropped`.
- `NoCardForgotten` ties the queue, its index, the answers and the replies: a due card is answered well, declared gone,
  or still ahead.

### Bounds

Two batches show every pairwise race; the settings row admits one at a time, so a third batch only waits. Batches have two
answers, enough for a rejection after a success and for a card answered twice. Two senses of one word and one of
another are what burying distinguishes. The leech threshold is 2, with a card one lapse short of it, so a single
answer suspends; two learning steps and one relearning step show staying in, and leaving, the steps.

A session has two cards (three in `practice_reveal`, so that one slides under the learner's hand; one in `practice_syncing`,
with one answer and no failure, so that nothing but the refusal can empty its queue), three answers (four in
`practice_reveal`), one failure, two lists and, where reloads matter, one reload. Three answers are the first number
with a batch in flight, a batch to be sent and an answer to one of their cards. Failures are bounded because answers
settle only if the network recovers. A card of `NearLeech` is suspended by its first failed answer; a card of
`ArchivedElsewhere` may disappear at any time. `PracticeLive.cfg` has one list, so that the graph stays small, and a
reload; `PracticeSession.cfg` has two lists and no reload. The proofs cover every combination.

In `System.cfg` every part has two of whatever races (two batches and a read for the streak, two users to remind, two tabs,
two callbacks and a refresh, two calls, two account requests, two catalogue jobs, two deck requests, two patches, two
fits) and the shortest times that expire. The due queue has three cards, two of them senses of one word, one of these a
lapse away from a leech, quotas of one, two answers a day, over two dates; the streak three days; reminders the hours from
22 to 28, so that midnight lies in between and the backoff of three hours fits twice and into one send window; the catalogue two glosses and four
numbers; the word list four words in pages of one. `MaxStarted`, `MaxJobs`, `MaxAccountRequests`, `MaxSeeks`, `MaxTicks`,
`MaxListChanges`, `MaxRotations`, `MaxFits`, `Restarts` and `Pages` end the behaviours; each is large enough
for every mutant of `PROJECT.json` to be found.

Deadlock checking is off: all requests may have ended, and a learner may stop.

### Fairness

`ReviewStore`: strong fairness of a request's next statement, since PostgreSQL serves the waiters of a row in turn, so
that a lock that is free again and again is granted; weak fairness of the deadlock detector. Submitting,
cancelling and retrying are not fair. `PracticeSession`: weak fairness of timers, continuations, effects and of the
server, since the event loop runs each of them once it is due and `fetchWithTimeout` ends every request. The learner
is never assumed to act, and no failure is assumed to happen. `system` checks safety only and assumes no fairness.

## 4. Where the code and its documents part

- **An answer may be recorded twice** (`practice_rows`). `learning-review-model.md:172` promises one row per answer. A
  batch that timed out is posted again, and the request has no key that the server could recognise. `review_count`,
  the steps and the day's counts then advance twice.
- **A rating may go to a card that was never shown** (`practice_reveal`). A reply that removes the revealed card lets the
  next one take its place, still turned over (`PracticeScreen.tsx:310`, `:533`).
- **"Syncing" may never end** (`practice_syncing`). In the run two requests for due cards bring the same single card. The
  first reply starts a session, the card is archived from another device and then rated, and the batch is refused with
  409. Before the refusal is handled the second reply replaces the session, and the refusal then removes the card from
  the new queue at index 0 (`PracticeScreen.tsx:533`). An empty queue with index 0 does not count as finished (`:571`).
  Leaving the session with "End session" and starting another one gets there too. The property speaks of normal
  sessions: the effect that ends a session returns at once in a repeat session (`:568`), so that one whose own
  reply suspends its only card shows the same screen, and there the test of the 409 has nothing to say.
- **A session may start over** (`practice_progress`). Two requests for due cards can be under way, and the second
  reply replaces the session begun on the first.
- **A learner may have pairs and none active** (`active_pair`). The migration says "exactly one active learning pair per
  user"; its index forbids two. `AddUserLanguage` counts before a removal of the only pair commits and inserts after it.
- **The word list may have a gap** (`list_pages`). The web fetches all remaining pages, but a page asked for during a
  refresh carries the old cursor and the new request id: it is appended after the first page, and what lies between is
  never fetched.

## 5. Proofs

Every safety invariant and action property of the passing runs is a theorem. What the bounds of the configurations limit
(cards, batches, requests, tabs, keys, days, words, failures) is arbitrary in the theorems. They assume what each module
states about its constants: bounds are numbers, sets that are counted are finite, stand-ins such as "no token" are no
member of what they stand in for, and rows the database starts with fit its tables (`StoreAssumption`,
`LibraryAssumption`, `AccountsAssumption`). TLC evaluates these assumptions in the runs.

`DataLemmas` supplies what the provers have no rule for. Induction cannot be cited as a scheme, since it takes the
proposition as a parameter; but the library proves that the strict subsets of a finite set are well founded, and from
that follow, for a *set* instead of a proposition, a smallest member of a family of finite sets (`SmallestSubset`), a
least number (`LeastNumber`), counting up to a number (`CountUp`), growing up to a finite set (`GrowSet`) and a greatest of
finitely many (`GreatestOf`). What a recursive function computes is shown with them: `CountUp` gives a function that
satisfies the recursion (`RunExists`, `SieveExists`), and once more the fact about each of its values. `AtMostOne` turns
a cardinality of one into an equality.

`SchedulerProofs`: `NextMemoryType`, `MigratedType` and `StageForType` give the range of the scheduler's operators for
any number of steps. They are pure case analyses, cited by the store's proofs.

### ReviewStoreProofs

From `SchedulerAssumption` and `StoreAssumption` (the seeded rows are ones the code could have written, and request names
do not clash):

- `TypeCorrect`: `Spec => []TypeOK`. `TypeOK` alone is not inductive: `BatchCard(b)` is only a card while the position
  lies in the list. `TypeInv` adds `PositionOK`.
- `NoReviewLost`: `Spec => []CountersMatchHistory`. The strengthening speaks of uncommitted state: the batch inside its
  transaction holds the settings lock, so at most one batch has written anything; each row it locked has its
  committed count plus the attempts it wrote; what it read last is what the row still holds. An add, the only
  other writer of a row, keeps its memory.
- `ActiveIsSchedulable`: `Spec => []SuspendedIsArchived`. The strengthening says of every row version, committed or
  not, when a request may leave a card suspended: only between the two updates of a batch that will archive it. It
  holds because both a batch and an add keep their two row locks until they commit.
- `BatchesAreSerial`: `Spec => ImplementsLedger`, the refinement. What a batch has written so far is what the ledger's
  function `Run` yields after as many of its answers, started from the committed rows (`RanUpTo`); nothing
  disturbs those, for nobody else is inside a transaction that changes a memory (`UndisturbedRun`). So `CommitBatch` is
  the ledger's `Apply`, a rollback is `Refuse`, and the other statements are stutters.
- `CountsTellAttempts`: `Spec => []DailyCountsMatchHistory`. The counts a batch *would* commit match the attempts it
  *would* commit (`Tallied`), and a card without a review is New, so that the state a batch read tells whether an attempt
  is the card's first.

### PracticeSessionProofs

From `PracticeAssumption`, for any number of cards, answers, failures, lists and reloads:

- `NoAnswerSlipsAway`, `OrderSurvives`, `SenderAlways`, `SummaryTellsTruth` state `EveryAnswerAccountedFor`,
  `FirstHeardInOrder`, `AnswersHaveASender` and the action property `SummaryMeansSettled`.
- The invariant is `SaverInv(answers, pending)`, `Numbered` and `AnswersHaveASender`. `SaverInv` has six parts: `Rows`
  (types), `Accounted`, `Recorded` (an applied request's answers are rows), `InOrder` (unsent answers, the batch in
  flight and every batch sent are in the order given), `Complete` (a batch that was sent lacks no earlier answer but
  those recorded or dropped) and `Heard` (every earlier answer has a row before it, the dropped ones aside).
  `Complete` is the heart: a client that goes on while an old request is still travelling may have it served at any time, so
  order must follow from what the batch contains and not from when it arrives.
- `SaverInv` takes the unsent answers as a parameter, so that `Grade` can be split into the push (`PushKeeps`) and the
  flush that follows in the same task (`FlushKeeps`).
- `SessionStaysWellFormed`, `EveryDueCardComes` and `FailedCardComesLater` state `TypeOK`, `NoCardForgotten` and the action
  property `FailedCardWaits`. They speak of the part of the queue still ahead of the index. `AheadInv` says of an active
  session that the index is inside the queue, that every due card not done with is ahead, and that in a normal session no
  card is ahead twice. The last is what `FailedCardWaits` needs: the gap of `insertRetryCard` keeps *this* copy of
  the card back, so another one must not stand in front. Lemmas say what shuffling (`ShuffleFacts`), putting a card back
  (`RetryFacts`) and filtering by index (`WithoutFacts`) do to that part.
- `RowsFollowFailures`: an answer has one row more than there were failed requests at most. `OneRowUntilAFailure`: without a failure
  `OneRowPerAnswer` holds, the docs' "one row for every answer" that `practice_rows` refutes with one. The invariant
  `CountInv` counts instead of comparing: the requests that ever held an answer, and one more if it waits to be sent,
  are one more than the failures at most; its rows are no more than those of its requests that were applied. A flush turns
  the waiting answer into a request, a failure raises the bound as the answer waits again, and a recorded batch adds
  one row because a batch holds an answer once (`InOrder`).

### DayProofs

- `ReminderDistance` states the action property `RemindersSpaced`. Who is in the worker's list is past the backoff when
  his turn comes (`ChosenAreDue`): the only row written meanwhile is that of the user just reminded, who has left the
  list; and a recorded push has a row no older than itself (`RecordedHasRow`).
- `StreakWasEarned` and `VacationStays` state `StreakEarned` and `ReviewKeepsVacation`. Requests write back whole rows they
  read earlier, so the invariant claims of every *copy* that it was earned, with the days its own freeze or vacation
  will have paid for (`JobEarns`).
- `ListHoldsCardOnce`, `RetriesGetListed` and `BuriedStaysOut` state `NoCardTwice`, `RetriesListed` and
  `BuriedUntilTomorrow`. `DueInv` relates what the list's statements selected to what was answered, buried and re-added
  since: a card that left one group cannot enter another before the list is sent.
- `SensesStayApart` states `SensesApart` for the greedy pass: two senses of a word stand together only in a group's
  tail that holds no other word.

### LibraryProofs

- `CardsStayInLanguage` states `CardsInLanguage`. The invariant says of each request between two statements that what it
  read still fits (`RequestFits`). Four facts about all statements carry it (`DecksEvolve`, `CardsEvolve`): no key is used
  again, no deck changes its language or role, no default deck or card is deleted, no card gets a sense of another word.
- `LookupsStoreOnce` and `HistoryIsCarried` state `NoSenseTwice` and the action property `CardsCarriedOver`. Of each job
  the invariant says what it may still rely on (`TaskFits`), and that one at most is replacing (`OneReplaces`: the
  command takes one word after the other). Others go on writing meanwhile, but they only add: `CatalogueGrows` is what
  all steps but the remap guarantee, and the counts a remap read are never more than the cards have.
- `LibraryTypesHold` states `LibraryTypeOK` from the same invariant, for any seeded rows that fit the tables.
- `DeckHonoured` and `PagesLeaveNoGap` state `FilterHonoured` and `PagesFollow`. Requests with the id of the moment are for
  the deck shown (`CurrentFits`); as long as the list was not started over, there is one of them, and it asks from the
  cursor (`FirstLoad`). It is exactly where a second one with the same id appears that `list_pages` finds its gap.
- `EachJobLookedUpOnce` states `LookedUpOnce`. Neither the list the worker sees nor the one the next render makes shows a job
  as queued that was looked up already (`QueueInv`). `AddTypesHold` states `AddTypeOK`; with the list of jobs and the sense
  picker (`PickerInv`) the invariant becomes `AddInv`.

### AccountProofs

- `GoodTokensPass` states `KnownKeyAccepted`. A request's own answer holds every key published all the time
  (`SteadyFetched`); of the shared set nothing is claimed, because a late answer may have put an older set there.
- `CodesAreSingleUse` and `SignOutIsFinal` state `PickedUpOnceInTime` and `SignedOutMeansEnded`. One tab at most is
  between a ticket and its code (`OneConfirms`), since the gateway exchanges a ticket once; a code in the map was not handed
  over (`CodesFresh`); live and ended handles both come from used tickets.
- `OneRefreshForAll` and `RestForgets` state `RefreshIsShared` and `SignedOutForgets`. A token behind the sign-in screen is
  always being tried (`TokenIsTried`): by a session being stored or by `checkAuth`, whose end opens the app or drops it. A
  refresh token there without its token is that of a session whose storing a clearing overtook (`OvertakenKeys`). This
  happens: `setSession` goes on with its second key (`sessionStorage.ts:56-60`), `checkAuth` finds no token and ends without
  clearing, and the key left behind holds the handle the gateway accepts (`auth_handler.go:277-280`). The property
  therefore does not say that a signed-out client stores nothing; it says that this is the only thing it may store.
- `OneSignInPerState` and `RevocationIsFinal` state `OneSessionPerState` and the action property `RevokedStaysRevoked`. A
  state is held by one callback at most and is gone from the table while it is held (`StateHeldOnce`).
- `DeletedUsersLeaveNothing` states `AccountsTypeOK`, and `NeverTwoActivePairs` that no user has two active pairs. Both rest
  on `AccountsInv`: the pairs fit their users (`PairsFit`), a request holds what its next statement needs
  (`RequestsFit`) and no user is merged into itself (`TwoMerge`). Nothing is claimed of how fresh a request's reads are: the
  index and the keys refuse what was read too early.
- `OneActivePairApart` assumes that there is one request slot (`OneAtATime`) and shows that a user with pairs has exactly one
  active. It is the migration's sentence, which `active_pair` refutes for overlapping requests: what is missing is only that
  what a request read still holds when it writes (`ReadsFit`).
- `PairsStayFresh` states `LanguagesFresh`: with no change in doubt, the current load, once answered, brings the list as it
  is, and the screen differs from it only under an error or until that load ends.
- `ScreenTellsStored` states `ShownIsStored`. Of a field nobody made unsure one patch at most is under way, and it will put
  back or show what the server has (`FieldFits`).
- `WeightsRestOnReviews` states `OptimiserTypeOK`: stored weights were fitted to enough reviews and to no more than there are.
  Every optimisation under way counted enough (`EnoughCounted`), and attempts are never deleted.

### SystemProofs

- `SystemTypes` states `SystemTypeOK`, and `PartsKeepPromises` every other property of the run `system`, of the composition
  itself. For each part, a step of `SystemSpec` is a step of that part or leaves its variables alone, so every behaviour of
  the system is one of the part (`DuePart` to `LanguagesPart`), and what was proved of the part carries over.

### Only model-checked

The liveness properties `EveryRequestEnds`, `AnswersSettle` and `FinishedSessionEnds` are beyond the prover, which has no
rule for fairness and ENABLED. Of what the runs that find a violation ask, two have a theorem that says when it does
hold: `OneRowUntilAFailure` and `OneActivePairApart`.

## 6. Not modelled, and what is left

Left out for good: calls of language models and dictionaries, CSV and HTML parsing, text similarity, floating-point
scheduling and the optimiser's descent, rendering, analytics, metrics, migrations, Google's side of OAuth, claims and
signature checks. They are stateless, numerical, or somebody else's. The rate limiter is sequential under one mutex. The
renewal timer of the native app posts a refresh that the API has answered with 410 since sessions moved to central auth.
The gateway may answer a request with a renewed handle, which `auth_middleware.go:64-66` passes on in a header that no client
here reads, or sets as the new cookie (`:82-92`). `SignIn` and `ApiSession` keep one handle from sign-in to sign-out.

Simplified in the parts of `SystemMC`: one learner's decks, one word's catalogue, one worker that reminds; pairs are known
by the language learned; study data that a merge reassigns is reduced to the indexes that may stop it; one settings
screen at a time. The pool of connections is not modelled, so the wait of a user's first review for a second connection
(`streak.go:234`) is a hazard without a property.

Next: liveness of the add queue and of the client's loads, which need React's renders as fair actions; two devices on one
settings row; a merge with the study data it moves.
