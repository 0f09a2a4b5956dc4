---------------------------- MODULE ReviewStore ----------------------------
(***************************************************************************)
(* One user's cards in the database and the requests that change them      *)
(* concurrently: POST /api/reviews/batch, adding (or re-adding) a learning *)
(* item, and archiving items.  Each action is one SQL statement of a       *)
(* READ COMMITTED transaction, so the steps of different requests          *)
(* interleave exactly where PostgreSQL lets them:                          *)
(*   - a statement reads committed rows and the rows its own transaction   *)
(*     wrote;                                                              *)
(*   - a written row stays locked until its transaction ends, and another  *)
(*     writer waits for it;                                                *)
(*   - when two transactions wait for each other one of them is aborted.   *)
(* A batch upserts the user's review_settings row first, and that row's    *)
(* lock is what keeps two batches of a user from overlapping.              *)
(***************************************************************************)
EXTENDS Scheduler, Sequences, FiniteSets

CONSTANTS
  Cards,        \* user_word_senses ids of the user
  WordOf,       \* [Cards -> word]: the word a card's sense belongs to
  Batches,      \* batch requests
  Adds,         \* add requests
  Archives,     \* archive requests
  BatchInputs,  \* attempt lists a batch may carry
  Seeded,       \* [Cards -> [sense, review]]: the rows at the start
  NoReq

Attempts == [card : Cards, rating : Ratings]

(* A user_word_senses row: "absent" before the first add. *)
Senses == [status : {"absent", "active", "archived"}, stage : Stages]

(* A review_states row. *)
Reviews == [memory : Memory, suspended : BOOLEAN, buried : BOOLEAN]

Requests == Batches \cup Adds \cup Archives

ASSUME StoreAssumption ==
  /\ IsFiniteSet(Cards)
  /\ BatchInputs \subseteq Seq(Attempts) \ {<<>>}
  /\ Seeded \in [Cards -> [sense : Senses, review : Reviews]]
  /\ \A c \in Cards :
       /\ StepsInRange(Seeded[c].review.memory)
       /\ Seeded[c].review.memory.reviews = 0 => Seeded[c].review.memory = FreshMemory
       /\ Seeded[c].review.suspended =>
            Seeded[c].sense.status = "archived" /\ SuspendsCard(Seeded[c].review.memory)
       /\ Seeded[c].sense.status = "absent" =>
            Seeded[c].review = [memory |-> FreshMemory, suspended |-> FALSE, buried |-> FALSE]
  /\ Batches \cap Adds = {} /\ Batches \cap Archives = {} /\ Adds \cap Archives = {}
  /\ NoReq \notin Requests

VARIABLES
  sense, review,        \* committed rows
  senseNew, reviewNew,  \* the lock holder's version of each row
  senseLock, reviewLock, settingsLock,
  log,                  \* committed review_attempts rows of each card
  daily,                \* today's committed daily_review_counts row
  pc,                   \* where each request is
  input, pos,           \* a batch's attempts and the one it is at
  read,                 \* the row a batch's select returned
  wrote,                \* a batch's uncommitted attempt rows and counts
  target                \* an add's card, an archive's cards

rows == <<sense, review, log, daily>>
locks == <<senseLock, reviewLock, settingsLock>>
vars == <<rows, senseNew, reviewNew, locks, pc, input, pos, read, wrote, target>>

NothingWrote == [log |-> [c \in Cards |-> 0], new |-> 0, reviews |-> 0]

Init ==
  /\ sense = [c \in Cards |-> Seeded[c].sense]
  /\ review = [c \in Cards |-> Seeded[c].review]
  /\ senseNew = sense /\ reviewNew = review
  /\ senseLock = [c \in Cards |-> NoReq]
  /\ reviewLock = [c \in Cards |-> NoReq]
  /\ settingsLock = NoReq
  /\ log = [c \in Cards |-> Seeded[c].review.memory.reviews]
  /\ daily = [new |-> 0, reviews |-> 0]
  /\ pc = [r \in Requests |-> "idle"]
  /\ input = [b \in Batches |-> <<>>]
  /\ pos = [b \in Batches |-> 1]
  /\ read = [b \in Batches |-> [memory |-> FreshMemory, stage |-> "new"]]
  /\ wrote = [b \in Batches |-> NothingWrote]
  /\ target = [r \in Adds \cup Archives |-> {}]

---------------------------------------------------------------------------
(* Rows as a transaction sees them, and the end of a transaction. *)

SenseSeen(r, c) == IF senseLock[c] = r THEN senseNew[c] ELSE sense[c]
ReviewSeen(r, c) == IF reviewLock[c] = r THEN reviewNew[c] ELSE review[c]

SenseFree(r, c) == senseLock[c] \in {r, NoReq}
ReviewFree(r, c) == reviewLock[c] \in {r, NoReq}

Goto(r, label) == pc' = [pc EXCEPT ![r] = label]

ReleaseLocks(r) ==
  /\ senseLock' = [c \in Cards |-> IF senseLock[c] = r THEN NoReq ELSE senseLock[c]]
  /\ reviewLock' = [c \in Cards |-> IF reviewLock[c] = r THEN NoReq ELSE reviewLock[c]]
  /\ settingsLock' = IF settingsLock = r THEN NoReq ELSE settingsLock

CommitRows(r) ==
  /\ sense' = [c \in Cards |-> SenseSeen(r, c)]
  /\ review' = [c \in Cards |-> ReviewSeen(r, c)]
  /\ UNCHANGED <<senseNew, reviewNew>>

DiscardRows(r) ==
  /\ senseNew' = [c \in Cards |-> IF senseLock[c] = r THEN sense[c] ELSE senseNew[c]]
  /\ reviewNew' = [c \in Cards |-> IF reviewLock[c] = r THEN review[c] ELSE reviewNew[c]]
  /\ UNCHANGED <<sense, review>>

Rollback(r, label) ==
  /\ DiscardRows(r)
  /\ ReleaseLocks(r)
  /\ Goto(r, label)
  /\ UNCHANGED <<log, daily, input, pos, read, wrote, target>>

---------------------------------------------------------------------------
(* RecordBatchReviewAttempts. *)

Current(b) == input[b][pos[b]]
BatchCard(b) == Current(b).card
(* Mutant: the daily count looks at the stored state. *)
BeforeUnmigrated(b) == read[b].memory

Before(b) == Migrated(read[b].memory)
After(b) == NextMemory(Before(b), Current(b).rating)
NextStage(b) == StageFor(After(b).reviews, Current(b).rating)

Submit(b) ==
  /\ pc[b] = "idle"
  /\ \E attempts \in BatchInputs : input' = [input EXCEPT ![b] = attempts]
  /\ Goto(b, "queued")
  /\ UNCHANGED <<rows, senseNew, reviewNew, locks, pos, read, wrote, target>>

(* Mutant: the settings are read with a plain select. *)
EnsureSettingsUnlocked(b) ==
  /\ pc[b] = "queued"
  /\ pos' = [pos EXCEPT ![b] = 1]
  /\ wrote' = [wrote EXCEPT ![b] = NothingWrote]
  /\ Goto(b, "select")
  /\ UNCHANGED <<rows, senseNew, reviewNew, locks, input, read, target>>

(* ensureReviewSettingsTx: the upsert of the user's settings row. *)
EnsureSettings(b) ==
  /\ pc[b] = "queued"
  /\ settingsLock = NoReq
  /\ settingsLock' = b
  /\ pos' = [pos EXCEPT ![b] = 1]
  /\ wrote' = [wrote EXCEPT ![b] = NothingWrote]
  /\ Goto(b, "select")
  /\ UNCHANGED <<rows, senseNew, reviewNew, senseLock, reviewLock, input, read, target>>

Reviewable(b, c) ==
  SenseSeen(b, c).status = "active" /\ ~ReviewSeen(b, c).suspended

SelectCard(b) ==
  /\ pc[b] = "select"
  /\ Reviewable(b, BatchCard(b))
  /\ read' = [read EXCEPT ![b] = [memory |-> ReviewSeen(b, BatchCard(b)).memory,
                                   stage |-> SenseSeen(b, BatchCard(b)).stage]]
  /\ Goto(b, "state")
  /\ UNCHANGED <<rows, senseNew, reviewNew, locks, input, pos, wrote, target>>

(* Mutants: the answers before the unavailable one are committed; the      *)
(* transaction is never rolled back.                                       *)
RejectBatchPartly(b) ==
  /\ pc[b] = "select"
  /\ ~Reviewable(b, BatchCard(b))
  /\ CommitRows(b)
  /\ ReleaseLocks(b)
  /\ log' = [c \in Cards |-> log[c] + wrote[b].log[c]]
  /\ daily' = [new |-> daily.new + wrote[b].new, reviews |-> daily.reviews + wrote[b].reviews]
  /\ Goto(b, "rejected")
  /\ UNCHANGED <<input, pos, read, wrote, target>>

RejectBatchLeaking(b) ==
  /\ pc[b] = "select"
  /\ ~Reviewable(b, BatchCard(b))
  /\ Goto(b, "rejected")
  /\ UNCHANGED <<rows, senseNew, reviewNew, locks, input, pos, read, wrote, target>>

(* ErrReviewItemUnavailable: the whole batch is rolled back. *)
RejectBatch(b) ==
  /\ pc[b] = "select"
  /\ ~Reviewable(b, BatchCard(b))
  /\ Rollback(b, "rejected")

(* update review_states: every scheduling column, and is_suspended. *)
UpdateState(b) ==
  LET c == BatchCard(b) IN
  /\ pc[b] = "state"
  /\ ReviewFree(b, c)
  /\ reviewLock' = [reviewLock EXCEPT ![c] = b]
  /\ reviewNew' = [reviewNew EXCEPT
       ![c] = [memory |-> After(b), suspended |-> SuspendsCard(After(b)), buried |-> @.buried]]
  /\ Goto(b, "sense")
  /\ UNCHANGED <<rows, senseNew, senseLock, settingsLock, input, pos, read, wrote, target>>

TouchesSense(b) == SuspendsCard(After(b)) \/ NextStage(b) # read[b].stage

(* Mutant: a suspended leech only gets its new stage. *)
UpdateSenseStageOnly(b) ==
  LET c == BatchCard(b) IN
  /\ pc[b] = "sense"
  /\ TouchesSense(b)
  /\ SenseFree(b, c)
  /\ senseLock' = [senseLock EXCEPT ![c] = b]
  /\ senseNew' = [senseNew EXCEPT ![c].stage = NextStage(b)]
  /\ Goto(b, "log")
  /\ UNCHANGED <<rows, reviewNew, reviewLock, settingsLock, input, pos, read, wrote, target>>

(* update user_word_senses: archive a suspended leech, else its new stage. *)
UpdateSense(b) ==
  LET c == BatchCard(b) IN
  /\ pc[b] = "sense"
  /\ TouchesSense(b)
  /\ SenseFree(b, c)
  /\ senseLock' = [senseLock EXCEPT ![c] = b]
  /\ senseNew' = [senseNew EXCEPT
       ![c] = IF SuspendsCard(After(b)) THEN [@ EXCEPT !.status = "archived"]
                                        ELSE [@ EXCEPT !.stage = NextStage(b)]]
  /\ Goto(b, "log")
  /\ UNCHANGED <<rows, reviewNew, reviewLock, settingsLock, input, pos, read, wrote, target>>

KeepSense(b) ==
  /\ pc[b] = "sense"
  /\ ~TouchesSense(b)
  /\ Goto(b, "log")
  /\ UNCHANGED <<rows, senseNew, reviewNew, locks, input, pos, read, wrote, target>>

Siblings(b) ==
  {c \in Cards : /\ c # BatchCard(b)
                 /\ WordOf[c] = WordOf[BatchCard(b)]
                 /\ SenseSeen(b, c).status = "active"}

(* The batch's attempt rows and its part of today's counts, one more of    *)
(* each.                                                                   *)
Tally(b) ==
  LET w == wrote[b]
      new == IF Before(b).state = "New" THEN 1 ELSE 0
  IN  [log |-> [w.log EXCEPT ![BatchCard(b)] = @ + 1],
       new |-> w.new + new,
       reviews |-> w.reviews + (1 - new)]

(* insert the attempt, bump today's counts, bury the other senses. *)
LogAttempt(b) ==
  /\ pc[b] = "log"
  /\ \A c \in Siblings(b) : ReviewFree(b, c)
  /\ wrote' = [wrote EXCEPT ![b] = Tally(b)]
  /\ reviewLock' = [c \in Cards |-> IF c \in Siblings(b) THEN b ELSE reviewLock[c]]
  /\ reviewNew' = [c \in Cards |->
       IF c \in Siblings(b) THEN [reviewNew[c] EXCEPT !.buried = TRUE] ELSE reviewNew[c]]
  /\ pos' = [pos EXCEPT ![b] = @ + 1]
  /\ Goto(b, IF pos[b] = Len(input[b]) THEN "commit" ELSE "select")
  /\ UNCHANGED <<rows, senseNew, senseLock, settingsLock, input, read, target>>

(* Mutant: a batch counts as one review. *)
CommitBatchCountingOnce(b) ==
  /\ pc[b] = "commit"
  /\ CommitRows(b)
  /\ ReleaseLocks(b)
  /\ log' = [c \in Cards |-> log[c] + wrote[b].log[c]]
  /\ daily' = [new |-> daily.new + wrote[b].new, reviews |-> daily.reviews + 1]
  /\ Goto(b, "done")
  /\ UNCHANGED <<input, pos, read, wrote, target>>

CommitBatch(b) ==
  /\ pc[b] = "commit"
  /\ CommitRows(b)
  /\ ReleaseLocks(b)
  /\ log' = [c \in Cards |-> log[c] + wrote[b].log[c]]
  /\ daily' = [new |-> daily.new + wrote[b].new, reviews |-> daily.reviews + wrote[b].reviews]
  /\ Goto(b, "done")
  /\ UNCHANGED <<input, pos, read, wrote, target>>

---------------------------------------------------------------------------
(* AddLearningItem's transaction. *)

UpsertSense(a, c) ==
  /\ pc[a] = "idle"
  /\ SenseFree(a, c)
  /\ senseLock' = [senseLock EXCEPT ![c] = a]
  /\ senseNew' = [senseNew EXCEPT
       ![c] = [status |-> "active",
               stage |-> IF @.status = "active" THEN @.stage ELSE "new"]]
  /\ target' = [target EXCEPT ![a] = {c}]
  /\ Goto(a, "state")
  /\ UNCHANGED <<rows, reviewNew, reviewLock, settingsLock, input, pos, read, wrote>>

(* Mutant: on conflict do nothing. *)
UpsertReviewKeeping(a) ==
  \E c \in target[a] :
    /\ pc[a] = "state"
    /\ ReviewFree(a, c)
    /\ reviewLock' = [reviewLock EXCEPT ![c] = a]
    /\ Goto(a, "commit")
    /\ UNCHANGED <<rows, senseNew, reviewNew, senseLock, settingsLock, input, pos, read, wrote, target>>

UpsertReview(a) ==
  \E c \in target[a] :
    /\ pc[a] = "state"
    /\ ReviewFree(a, c)
    /\ reviewLock' = [reviewLock EXCEPT ![c] = a]
    /\ reviewNew' = [reviewNew EXCEPT ![c] = [@ EXCEPT !.suspended = FALSE, !.buried = FALSE]]
    /\ Goto(a, "commit")
    /\ UNCHANGED <<rows, senseNew, senseLock, settingsLock, input, pos, read, wrote, target>>

CommitAdd(a) ==
  /\ pc[a] = "commit"
  /\ CommitRows(a)
  /\ ReleaseLocks(a)
  /\ Goto(a, "done")
  /\ UNCHANGED <<log, daily, input, pos, read, wrote, target>>

---------------------------------------------------------------------------
(* ArchiveLearningItems: an unlocked check, then a transaction with one    *)
(* update, whose rows are locked one after the other.                      *)

CheckArchive(x, ids) ==
  LET known == \A c \in ids : sense[c].status # "absent"
      active == {c \in ids : sense[c].status = "active"}
  IN  /\ pc[x] = "idle"
      /\ target' = [target EXCEPT ![x] = IF known THEN active ELSE {}]
      /\ Goto(x, IF ~known THEN "rejected" ELSE IF active = {} THEN "done" ELSE "archive")
      /\ UNCHANGED <<rows, senseNew, reviewNew, locks, input, pos, read, wrote>>

ArchiveRow(x) ==
  \E c \in target[x] :
    /\ pc[x] = "archive"
    /\ SenseFree(x, c)
    /\ sense[c].status = "active"
    /\ senseLock' = [senseLock EXCEPT ![c] = x]
    /\ senseNew' = [senseNew EXCEPT ![c] = [status |-> "archived", stage |-> "archived"]]
    /\ target' = [target EXCEPT ![x] = @ \ {c}]
    /\ UNCHANGED <<rows, reviewNew, reviewLock, settingsLock, pc, input, pos, read, wrote>>

(* "and archived_at is null": archived by another request in between. *)
SkipRow(x) ==
  \E c \in target[x] :
    /\ pc[x] = "archive"
    /\ SenseFree(x, c)
    /\ sense[c].status # "active"
    /\ target' = [target EXCEPT ![x] = @ \ {c}]
    /\ UNCHANGED <<rows, senseNew, reviewNew, locks, pc, input, pos, read, wrote>>

CommitArchive(x) ==
  /\ pc[x] = "archive"
  /\ target[x] = {}
  /\ CommitRows(x)
  /\ ReleaseLocks(x)
  /\ Goto(x, "done")
  /\ UNCHANGED <<log, daily, input, pos, read, wrote, target>>

---------------------------------------------------------------------------
(* What PostgreSQL, the network and the client add. *)

InTransaction(r) ==
  pc[r] \in {"select", "state", "sense", "log", "commit", "archive"}

(* The requests whose row locks r's next statement waits for.  A request   *)
(* that holds no lock yet is left out: it is in no cycle.                  *)
WaitsFor(r) ==
  {q \in Requests \ {r} :
     \/ r \in Batches /\ pc[r] = "state" /\ reviewLock[BatchCard(r)] = q
     \/ r \in Batches /\ pc[r] = "sense" /\ TouchesSense(r) /\ senseLock[BatchCard(r)] = q
     \/ r \in Batches /\ pc[r] = "log" /\ \E c \in Siblings(r) : reviewLock[c] = q
     \/ r \in Adds /\ pc[r] = "state" /\ \E c \in target[r] : reviewLock[c] = q
     \/ r \in Archives /\ pc[r] = "archive" /\ \E c \in target[r] : senseLock[c] = q}

Deadlocked(r) ==
  \E cycle \in SUBSET Requests :
    /\ r \in cycle
    /\ \A q \in cycle : /\ WaitsFor(q) \cap cycle # {}
                        /\ \E p \in cycle : q \in WaitsFor(p)

(* deadlock_timeout: PostgreSQL aborts one transaction of the cycle; the   *)
(* handler answers 500 with retryable = true.                              *)
AbortDeadlocked(r) ==
  /\ InTransaction(r)
  /\ Deadlocked(r)
  /\ Rollback(r, "failed")

(* The request's context is cancelled, or the process dies, before the     *)
(* transaction commits.                                                    *)
Cancel(r) ==
  /\ InTransaction(r)
  /\ Rollback(r, "cancelled")

(* The client sends a request again that failed in a retryable way. *)
Retry(r) ==
  /\ pc[r] = "failed"
  /\ Goto(r, IF r \in Batches THEN "queued" ELSE "idle")
  /\ UNCHANGED <<rows, senseNew, reviewNew, locks, input, pos, read, wrote, target>>

BatchStep(b) ==
  \/ EnsureSettings(b) \/ SelectCard(b) \/ RejectBatch(b) \/ UpdateState(b)
  \/ UpdateSense(b) \/ KeepSense(b) \/ LogAttempt(b) \/ CommitBatch(b)

AddStep(a) == UpsertReview(a) \/ CommitAdd(a)

ArchiveStep(x) == ArchiveRow(x) \/ SkipRow(x) \/ CommitArchive(x)

Next ==
  \/ \E b \in Batches : Submit(b) \/ BatchStep(b)
  \/ \E a \in Adds : (\E c \in Cards : UpsertSense(a, c)) \/ AddStep(a)
  \/ \E x \in Archives :
       (\E ids \in (SUBSET Cards) \ {{}} : CheckArchive(x, ids)) \/ ArchiveStep(x)
  \/ \E r \in Requests : AbortDeadlocked(r) \/ Cancel(r) \/ Retry(r)

Spec == Init /\ [][Next]_vars

(* A started request keeps running, PostgreSQL grants a lock in the order  *)
(* it was asked for, and its deadlock detector runs.  When a user submits, *)
(* retries or gives up is nobody's promise.                                *)
Fairness ==
  /\ \A b \in Batches : SF_vars(BatchStep(b))
  /\ \A a \in Adds : SF_vars(AddStep(a))
  /\ \A x \in Archives : SF_vars(ArchiveStep(x))
  /\ \A r \in Requests : WF_vars(AbortDeadlocked(r))

FairSpec == Spec /\ Fairness

---------------------------------------------------------------------------
(* Properties. *)

Labels ==
  {"idle", "queued", "select", "state", "sense", "log", "commit", "archive",
   "done", "rejected", "failed", "cancelled"}

(* The rows, the locks and every request's place are what the schema and   *)
(* the handlers' code allow, remaining_steps >= 0 (its CHECK) included.    *)
TypeOK ==
  /\ sense \in [Cards -> Senses] /\ senseNew \in [Cards -> Senses]
  /\ review \in [Cards -> Reviews] /\ reviewNew \in [Cards -> Reviews]
  /\ senseLock \in [Cards -> Requests \cup {NoReq}]
  /\ reviewLock \in [Cards -> Requests \cup {NoReq}]
  /\ settingsLock \in Batches \cup {NoReq}
  /\ log \in [Cards -> Nat]
  /\ daily \in [new : Nat, reviews : Nat]
  /\ pc \in [Requests -> Labels]
  /\ input \in [Batches -> Seq(Attempts)]
  /\ pos \in [Batches -> Nat]
  /\ read \in [Batches -> [memory : Memory, stage : Stages]]
  /\ wrote \in [Batches -> [log : [Cards -> Nat], new : Nat, reviews : Nat]]
  /\ target \in [Adds \cup Archives -> SUBSET Cards]

(* review_count and the append-only review_attempts agree on every card:   *)
(* no review of a batch is lost to another batch that read the card's      *)
(* state before it (batch_reviews.go: the values are computed in Go        *)
(* between the select and the update).                                     *)
CountersMatchHistory ==
  \A c \in Cards : review[c].memory.reviews = log[c]

(* A card in the user's list can be scheduled: a suspended card is archived *)
(* as well, whatever adds, archives and batches overlap (service.go        *)
(* 369-370: batch, due list and list all require is_suspended = false).    *)
SuspendedIsArchived ==
  \A c \in Cards : sense[c].status = "active" => ~review[c].suspended

StartedAt(c) == Seeded[c].review.memory.reviews

FirstReviewed(counts) == {c \in Cards : StartedAt(c) = 0 /\ counts[c] > 0}

AttemptsSince(counts) == UNION {{c} \X (StartedAt(c) + 1 .. counts[c]) : c \in Cards}

(* Today's counts: a card is counted as new once in its life, on its first *)
(* review, and not again after a lapse, a re-add or the migration from the *)
(* old scheduler; every other attempt counts as a review.                  *)
DailyCountsMatchHistory ==
  /\ daily.new = Cardinality(FirstReviewed(log))
  /\ daily.new + daily.reviews = Cardinality(AttemptsSince(log))

(* Every interleaving of batches leaves the cards, the ledger and the      *)
(* clients as if the batches had run one after the other, each applied as  *)
(* a whole when it commits or not at all.                                  *)
StatusOf(b) ==
  IF pc[b] \in {"idle", "done", "rejected", "failed", "cancelled"} THEN pc[b] ELSE "pending"

Ledger == INSTANCE ReviewLedger WITH
  StartMemory <- [c \in Cards |-> Seeded[c].review.memory],
  memory <- [c \in Cards |-> review[c].memory],
  status <- [b \in Batches |-> StatusOf(b)]

ImplementsLedger == Ledger!Spec

(* A batch that reached the server ends with an answer to its client, even *)
(* when requests wait for each other in a circle.                          *)
Ended(r) == pc[r] \in {"done", "rejected", "failed", "cancelled"}

EveryRequestEnds ==
  /\ \A b \in Batches : pc[b] = "queued" ~> Ended(b)
  /\ \A r \in Adds \cup Archives : InTransaction(r) ~> Ended(r)
=============================================================================
