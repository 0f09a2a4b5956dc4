-------------------------- MODULE ReviewStoreProofs --------------------------
(***************************************************************************)
(* Proofs about ReviewStore for any number of cards and of concurrent      *)
(* batches, adds and archives.                                             *)
(***************************************************************************)
EXTENDS ReviewStore, SchedulerProofs, DataLemmas, TLAPS

---------------------------------------------------------------------------
(* Type correctness.  TypeOK is not inductive alone: a batch's position    *)
(* must lie in its list of attempts while it works on one.                 *)

AtAttempt == {"select", "state", "sense", "log"}

PositionOK ==
  \A b \in Batches :
    /\ pc[b] # "idle" => input[b] \in BatchInputs
    /\ pc[b] \in AtAttempt => pos[b] \in 1 .. Len(input[b])

TypeInv == TypeOK /\ PositionOK

LEMMA CurrentType ==
  ASSUME TypeInv, NEW b \in Batches, pc[b] \in AtAttempt
  PROVE  /\ Current(b) \in Attempts
         /\ BatchCard(b) \in Cards
         /\ Current(b).rating \in Ratings
<1>1. input[b] \in Seq(Attempts) /\ pos[b] \in 1 .. Len(input[b])
  BY StoreAssumption DEF TypeInv, TypeOK, PositionOK, AtAttempt
<1>2. Current(b) \in Attempts
  BY <1>1 DEF Current
<1> QED BY <1>2 DEF BatchCard, Attempts

LEMMA AfterType ==
  ASSUME TypeInv, NEW b \in Batches, pc[b] \in AtAttempt
  PROVE  /\ Before(b) \in Memory
         /\ After(b) \in Memory
         /\ After(b).reviews = read[b].memory.reviews + 1
         /\ NextStage(b) \in Stages
<1>1. read[b].memory \in Memory
  BY DEF TypeInv, TypeOK
<1>2. Before(b) \in Memory /\ Before(b).reviews = read[b].memory.reviews
  BY <1>1, MigratedType DEF Before
<1>3. After(b) \in Memory /\ After(b).reviews = Before(b).reviews + 1
  BY <1>2, CurrentType, NextMemoryType DEF After
<1>4. NextStage(b) \in Stages
  BY <1>3, CurrentType, StageForType DEF NextStage, Memory
<1> QED BY <1>2, <1>3, <1>4

LEMMA SeenType ==
  ASSUME TypeOK, NEW r \in Requests, NEW c \in Cards
  PROVE  SenseSeen(r, c) \in Senses /\ ReviewSeen(r, c) \in Reviews
BY DEF TypeOK, SenseSeen, ReviewSeen

(* A row or a batch's tally with some columns changed is one again. *)

LEMMA SenseUpdated ==
  ASSUME NEW s \in Senses, NEW stage \in Stages
  PROVE  /\ [s EXCEPT !.stage = stage] \in Senses
         /\ [s EXCEPT !.status = "archived"] \in Senses
BY DEF Senses

LEMMA ReviewUpdated ==
  ASSUME NEW rv \in Reviews
  PROVE  /\ [rv EXCEPT !.buried = TRUE] \in Reviews
         /\ [rv EXCEPT !.suspended = FALSE, !.buried = FALSE] \in Reviews
         /\ [rv EXCEPT !.buried = TRUE].memory = rv.memory
         /\ [rv EXCEPT !.buried = TRUE].suspended = rv.suspended
         /\ [rv EXCEPT !.suspended = FALSE, !.buried = FALSE].memory = rv.memory
         /\ ~[rv EXCEPT !.suspended = FALSE, !.buried = FALSE].suspended
BY DEF Reviews

Tallies == [log : [Cards -> Nat], new : Nat, reviews : Nat]

LEMMA TallyUpdated ==
  ASSUME NEW w \in Tallies, NEW c \in Cards, NEW m \in Nat, NEW n \in Nat
  PROVE  [log |-> [w.log EXCEPT ![c] = @ + 1], new |-> w.new + m, reviews |-> w.reviews + n]
           \in Tallies
BY DEF Tallies

LEMMA RequestTypes ==
  /\ Batches \subseteq Requests /\ Adds \subseteq Requests /\ Archives \subseteq Requests
  /\ \A b \in Batches : b \notin Adds /\ b \notin Archives
  /\ \A a \in Adds : a \notin Archives
  /\ NoReq \notin Requests
BY StoreAssumption DEF Requests

(* The parts of a step several actions share. *)

LEMMA ReleaseType ==
  ASSUME TypeOK, NEW r \in Requests, ReleaseLocks(r)
  PROVE  /\ senseLock' \in [Cards -> Requests \cup {NoReq}]
         /\ reviewLock' \in [Cards -> Requests \cup {NoReq}]
         /\ settingsLock' \in Batches \cup {NoReq}
BY DEF TypeOK, ReleaseLocks

LEMMA CommitType ==
  ASSUME TypeOK, NEW r \in Requests, CommitRows(r)
  PROVE  /\ sense' \in [Cards -> Senses] /\ senseNew' \in [Cards -> Senses]
         /\ review' \in [Cards -> Reviews] /\ reviewNew' \in [Cards -> Reviews]
BY SeenType DEF TypeOK, CommitRows

LEMMA GotoType ==
  ASSUME TypeOK, NEW r \in Requests, NEW label \in Labels, Goto(r, label)
  PROVE  pc' \in [Requests -> Labels]
BY DEF TypeOK, Goto

LEMMA RollbackType ==
  ASSUME TypeInv, NEW r \in Requests,
         NEW label \in {"rejected", "failed", "cancelled"}, pc[r] # "idle", Rollback(r, label)
  PROVE  TypeInv'
<1> USE DEF TypeInv
<1>1. label \in Labels
  BY DEF Labels
<1>2. /\ senseNew' \in [Cards -> Senses] /\ sense' \in [Cards -> Senses]
      /\ reviewNew' \in [Cards -> Reviews] /\ review' \in [Cards -> Reviews]
  BY DEF Rollback, DiscardRows, TypeOK
<1>3. TypeOK'
  BY <1>1, <1>2, ReleaseType, GotoType DEF Rollback, TypeOK
<1>4. PositionOK'
  BY DEF Rollback, Goto, PositionOK, TypeOK, AtAttempt
<1> QED BY <1>3, <1>4

LEMMA BatchTypeStep ==
  ASSUME TypeInv, NEW b \in Batches, Submit(b) \/ BatchStep(b)
  PROVE  TypeInv'
<1> USE RequestTypes DEF TypeInv
<1>1. CASE Submit(b)
  <2>1. TypeOK'
    BY <1>1, StoreAssumption, GotoType DEF Submit, TypeOK, rows, locks, Labels
  <2>2. PositionOK'
    BY <1>1 DEF Submit, Goto, PositionOK, TypeOK, AtAttempt, rows, locks
  <2> QED BY <2>1, <2>2
<1>2. CASE EnsureSettings(b)
  <2>1. NothingWrote \in [log : [Cards -> Nat], new : Nat, reviews : Nat]
    BY DEF NothingWrote
  <2>2. TypeOK'
    BY <1>2, <2>1, GotoType DEF EnsureSettings, TypeOK, rows, locks, Labels
  <2>3. \A d \in Batches : input[d] \in BatchInputs => Len(input[d]) \in Nat \ {0}
    BY StoreAssumption
  <2>4. PositionOK'
    BY <1>2, <2>3 DEF EnsureSettings, Goto, PositionOK, TypeOK, AtAttempt, rows, locks
  <2> QED BY <2>2, <2>4
<1>3. CASE SelectCard(b)
  <2>1. BatchCard(b) \in Cards
    BY <1>3, CurrentType DEF SelectCard, AtAttempt
  <2>2. TypeOK'
    BY <1>3, <2>1, SeenType, GotoType
       DEF SelectCard, TypeOK, rows, locks, Labels, Senses, Reviews
  <2>3. PositionOK'
    BY <1>3 DEF SelectCard, Goto, PositionOK, TypeOK, AtAttempt, rows, locks
  <2> QED BY <2>2, <2>3
<1>4. CASE RejectBatch(b)
  BY <1>4, RollbackType DEF RejectBatch
<1>5. CASE UpdateState(b)
  <2>1. BatchCard(b) \in Cards /\ After(b) \in Memory
    BY <1>5, CurrentType, AfterType DEF UpdateState, AtAttempt
  <2>2. SuspendsCard(After(b)) \in BOOLEAN
    BY DEF SuspendsCard, IsLeech
  <2>3. TypeOK'
    BY <1>5, <2>1, <2>2, GotoType DEF UpdateState, TypeOK, rows, locks, Labels, Reviews
  <2>4. PositionOK'
    BY <1>5 DEF UpdateState, Goto, PositionOK, TypeOK, AtAttempt, rows, locks
  <2> QED BY <2>3, <2>4
<1>6. CASE UpdateSense(b)
  <2>1. BatchCard(b) \in Cards /\ NextStage(b) \in Stages
    BY <1>6, CurrentType, AfterType DEF UpdateSense, AtAttempt
  <2> DEFINE old == senseNew[BatchCard(b)]
             new == IF SuspendsCard(After(b)) THEN [old EXCEPT !.status = "archived"]
                                              ELSE [old EXCEPT !.stage = NextStage(b)]
  <2>2. new \in Senses
    BY <2>1, SenseUpdated DEF TypeOK
  <2>3. senseNew' = [senseNew EXCEPT ![BatchCard(b)] = new]
    BY <1>6 DEF UpdateSense
  <2>4. senseNew' \in [Cards -> Senses]
    BY <2>2, <2>3 DEF TypeOK
  <2>5. senseLock' \in [Cards -> Requests \cup {NoReq}] /\ pc' \in [Requests -> Labels]
    BY <1>6, <2>1, GotoType DEF UpdateSense, TypeOK, Labels
  <2>6. TypeOK'
    BY <1>6, <2>4, <2>5 DEF UpdateSense, TypeOK, rows, locks
  <2>7. PositionOK'
    BY <1>6 DEF UpdateSense, Goto, PositionOK, TypeOK, AtAttempt, rows, locks
  <2> QED BY <2>6, <2>7
<1>7. CASE KeepSense(b)
  <2>1. TypeOK'
    BY <1>7, GotoType DEF KeepSense, TypeOK, rows, locks, Labels
  <2>2. PositionOK'
    BY <1>7 DEF KeepSense, Goto, PositionOK, TypeOK, AtAttempt, rows, locks
  <2> QED BY <2>1, <2>2
<1>8. CASE LogAttempt(b)
  <2>1. BatchCard(b) \in Cards
    BY <1>8, CurrentType DEF LogAttempt, AtAttempt
  <2>2. wrote' \in [Batches -> [log : [Cards -> Nat], new : Nat, reviews : Nat]]
    <3>1. wrote[b] \in Tallies
      BY DEF TypeOK, Tallies
    <3>2. Tally(b) \in Tallies
      BY <2>1, <3>1, TallyUpdated DEF Tally
    <3> QED BY <1>8, <3>2 DEF LogAttempt, TypeOK, Tallies
  <2>3. reviewLock' \in [Cards -> Requests \cup {NoReq}] /\ reviewNew' \in [Cards -> Reviews]
    <3>1. \A c \in Cards : [reviewNew[c] EXCEPT !.buried = TRUE] \in Reviews
      BY ReviewUpdated DEF TypeOK
    <3> QED BY <1>8, <3>1 DEF LogAttempt, TypeOK
  <2>4. pos' \in [Batches -> Nat] /\ pc' \in [Requests -> Labels]
    BY <1>8, GotoType DEF LogAttempt, TypeOK, Labels
  <2>5. TypeOK'
    BY <1>8, <2>2, <2>3, <2>4 DEF LogAttempt, TypeOK, rows, locks
  <2>6. pos[b] \in 1 .. Len(input[b]) /\ Len(input[b]) \in Nat
    BY <1>8 DEF LogAttempt, PositionOK, AtAttempt, TypeOK
  <2>7. PositionOK'
    BY <1>8, <2>6 DEF LogAttempt, Goto, PositionOK, TypeOK, AtAttempt, rows, locks
  <2> QED BY <2>5, <2>7
<1>9. CASE CommitBatch(b)
  <2>1. log' \in [Cards -> Nat] /\ daily' \in [new : Nat, reviews : Nat]
    BY <1>9 DEF CommitBatch, TypeOK
  <2>2. TypeOK'
    BY <1>9, <2>1, CommitType, ReleaseType, GotoType DEF CommitBatch, TypeOK, Labels
  <2>3. PositionOK'
    BY <1>9 DEF CommitBatch, Goto, PositionOK, TypeOK, AtAttempt
  <2> QED BY <2>2, <2>3
<1> QED BY <1>1, <1>2, <1>3, <1>4, <1>5, <1>6, <1>7, <1>8, <1>9 DEF BatchStep

LEMMA AddTypeStep ==
  ASSUME TypeInv, NEW a \in Adds, (\E c \in Cards : UpsertSense(a, c)) \/ AddStep(a)
  PROVE  TypeInv'
<1> USE RequestTypes DEF TypeInv
<1>1. ASSUME NEW c \in Cards, UpsertSense(a, c)
      PROVE  TypeInv'
  <2>1. TypeOK'
    BY <1>1, GotoType DEF UpsertSense, TypeOK, rows, locks, Labels, Senses, Stages
  <2>2. PositionOK'
    BY <1>1 DEF UpsertSense, Goto, PositionOK, TypeOK, AtAttempt, rows, locks
  <2> QED BY <2>1, <2>2
<1>2. CASE UpsertReview(a)
  <2>1. PICK c \in Cards :
          /\ reviewLock' = [reviewLock EXCEPT ![c] = a]
          /\ reviewNew' = [reviewNew EXCEPT ![c] = [@ EXCEPT !.suspended = FALSE, !.buried = FALSE]]
          /\ Goto(a, "commit")
          /\ UNCHANGED <<rows, senseNew, senseLock, settingsLock, input, pos, read, wrote, target>>
    BY <1>2 DEF UpsertReview, TypeOK
  <2>2. [reviewNew[c] EXCEPT !.suspended = FALSE, !.buried = FALSE] \in Reviews
    BY ReviewUpdated DEF TypeOK
  <2>3. reviewNew' \in [Cards -> Reviews]
    BY <2>1, <2>2 DEF TypeOK
  <2>4. TypeOK'
    BY <2>1, <2>3, GotoType DEF TypeOK, rows, Labels
  <2>5. PositionOK'
    BY <1>2 DEF UpsertReview, Goto, PositionOK, TypeOK, AtAttempt, rows, locks
  <2> QED BY <2>4, <2>5
<1>3. CASE CommitAdd(a)
  <2>1. TypeOK'
    BY <1>3, CommitType, ReleaseType, GotoType DEF CommitAdd, TypeOK, Labels
  <2>2. PositionOK'
    BY <1>3 DEF CommitAdd, Goto, PositionOK, TypeOK, AtAttempt
  <2> QED BY <2>1, <2>2
<1> QED BY <1>1, <1>2, <1>3 DEF AddStep

LEMMA ArchiveTypeStep ==
  ASSUME TypeInv, NEW x \in Archives,
         (\E ids \in (SUBSET Cards) \ {{}} : CheckArchive(x, ids)) \/ ArchiveStep(x)
  PROVE  TypeInv'
<1> USE RequestTypes DEF TypeInv
<1>1. ASSUME NEW ids \in SUBSET Cards, CheckArchive(x, ids)
      PROVE  TypeInv'
  <2>1. target' \in [Adds \cup Archives -> SUBSET Cards]
    BY <1>1 DEF CheckArchive, TypeOK
  <2>2. pc' \in [Requests -> Labels]
    BY <1>1, GotoType DEF CheckArchive, Labels
  <2>3. TypeOK'
    BY <1>1, <2>1, <2>2 DEF CheckArchive, TypeOK, rows, locks
  <2>4. PositionOK'
    BY <1>1 DEF CheckArchive, Goto, PositionOK, TypeOK, AtAttempt, rows, locks
  <2> QED BY <2>3, <2>4
<1>2. CASE ArchiveRow(x)
  <2>1. TypeOK'
    BY <1>2 DEF ArchiveRow, TypeOK, rows, locks, Senses, Stages
  <2>2. PositionOK'
    BY <1>2 DEF ArchiveRow, PositionOK, TypeOK, AtAttempt, rows, locks
  <2> QED BY <2>1, <2>2
<1>3. CASE SkipRow(x)
  BY <1>3 DEF SkipRow, TypeOK, PositionOK, AtAttempt, rows, locks
<1>4. CASE CommitArchive(x)
  <2>1. TypeOK'
    BY <1>4, CommitType, ReleaseType, GotoType DEF CommitArchive, TypeOK, Labels
  <2>2. PositionOK'
    BY <1>4 DEF CommitArchive, Goto, PositionOK, TypeOK, AtAttempt
  <2> QED BY <2>1, <2>2
<1> QED BY <1>1, <1>2, <1>3, <1>4 DEF ArchiveStep

LEMMA RetryTypeStep ==
  ASSUME TypeInv, NEW r \in Requests, Retry(r)
  PROVE  TypeInv'
<1> USE RequestTypes DEF TypeInv
<1>1. TypeOK'
  BY GotoType DEF Retry, TypeOK, rows, locks, Labels
<1>2. PositionOK'
  BY DEF Retry, Goto, PositionOK, TypeOK, AtAttempt, rows, locks
<1> QED BY <1>1, <1>2

LEMMA InitType == Init => TypeInv
<1> SUFFICES ASSUME Init PROVE TypeInv
  OBVIOUS
<1> USE RequestTypes, StoreAssumption DEF Init
<1>1. \A c \in Cards : Seeded[c].sense \in Senses /\ Seeded[c].review \in Reviews
  OBVIOUS
<1>2. FreshMemory \in Memory /\ "new" \in Stages
  BY DEF FreshMemory, Memory, Stages
<1>3. NothingWrote \in [log : [Cards -> Nat], new : Nat, reviews : Nat]
  BY DEF NothingWrote
<1>4. \A c \in Cards : Seeded[c].review.memory.reviews \in Nat
  BY <1>1 DEF Reviews, Memory
<1>5. /\ sense \in [Cards -> Senses] /\ senseNew \in [Cards -> Senses]
      /\ review \in [Cards -> Reviews] /\ reviewNew \in [Cards -> Reviews]
      /\ log \in [Cards -> Nat]
  BY <1>1, <1>4
<1>6. read \in [Batches -> [memory : Memory, stage : Stages]]
  BY <1>2
<1>7. TypeOK
  BY <1>3, <1>5, <1>6 DEF TypeOK, Labels
<1>8. PositionOK
  BY DEF PositionOK, AtAttempt
<1> QED BY <1>7, <1>8 DEF TypeInv

LEMMA TypeStep == TypeInv /\ [Next]_vars => TypeInv'
<1> SUFFICES ASSUME TypeInv, [Next]_vars PROVE TypeInv'
  OBVIOUS
<1>1. CASE UNCHANGED vars
  BY <1>1 DEF TypeInv, TypeOK, PositionOK, vars, rows, locks
<1>2. ASSUME NEW r \in Requests, AbortDeadlocked(r) \/ Cancel(r)
      PROVE  TypeInv'
  BY <1>2, RollbackType DEF AbortDeadlocked, Cancel, InTransaction
<1> QED
  BY <1>1, <1>2, BatchTypeStep, AddTypeStep, ArchiveTypeStep, RetryTypeStep DEF Next

(* The rows, locks and requests keep the shape the schema gives them.      *)
THEOREM TypeCorrect == Spec => []TypeOK
<1>1. TypeInv => TypeOK
  BY DEF TypeInv
<1> QED BY <1>1, InitType, TypeStep, PTL DEF Spec

---------------------------------------------------------------------------
(* No review is lost.  The settings lock keeps the user's batches apart,   *)
(* so what a batch read of a card is still what it sees when it writes:    *)
(* nobody but a batch changes a card's memory, and while one runs the      *)
(* reviews it sees are the committed ones plus its own.                    *)

Counting == {"sense", "log"}

Pending(b, c) ==
  wrote[b].log[c] + (IF pc[b] \in Counting /\ BatchCard(b) = c THEN 1 ELSE 0)

LockInv ==
  /\ \A c \in Cards : reviewLock[c] = NoReq => reviewNew[c] = review[c]
  /\ \A c \in Cards, b \in Batches : reviewLock[c] = b => InTransaction(b)
  /\ \A b \in Batches : InTransaction(b) <=> settingsLock = b
  /\ \A c \in Cards : reviewLock[c] \notin Archives

CountInv ==
  /\ CountersMatchHistory
  /\ \A c \in Cards : reviewLock[c] \in Adds => reviewNew[c].memory = review[c].memory
  /\ \A b \in Batches, c \in Cards :
       InTransaction(b) => ReviewSeen(b, c).memory.reviews = log[c] + Pending(b, c)
  /\ \A b \in Batches :
       pc[b] = "state" => read[b].memory.reviews = ReviewSeen(b, BatchCard(b)).memory.reviews

HistoryInv == TypeInv /\ LockInv /\ CountInv

LEMMA LogType ==
  ASSUME TypeOK, NEW c \in Cards
  PROVE  /\ log[c] \in Nat
         /\ review[c].memory.reviews \in Nat /\ reviewNew[c].memory.reviews \in Nat
         /\ \A b \in Batches : wrote[b].log[c] \in Nat
BY DEF TypeOK, Reviews, Memory

LEMMA InitHistory == Init => HistoryInv
<1> SUFFICES ASSUME Init PROVE HistoryInv
  OBVIOUS
<1>1. TypeInv
  BY InitType
<1>2. LockInv
  BY RequestTypes DEF Init, LockInv, InTransaction
<1>3. CountInv
  BY RequestTypes DEF Init, CountInv, CountersMatchHistory, InTransaction
<1> QED BY <1>1, <1>2, <1>3 DEF HistoryInv

(* Steps that touch neither a review row, its lock nor the ledger: only    *)
(* r's place changes, and r does not get into or out of a transaction.     *)
LEMMA QuietHistory ==
  ASSUME HistoryInv, TypeInv', NEW r \in Requests,
         UNCHANGED <<review, reviewNew, reviewLock, settingsLock, log, wrote>>,
         \A q \in Requests \ {r} : pc'[q] = pc[q],
         \A b \in Batches : InTransaction(b) => UNCHANGED <<input[b], pos[b]>>,
         InTransaction(r)' <=> InTransaction(r),
         r \in Batches => (pc'[r] \in Counting <=> pc[r] \in Counting),
         \A b \in Batches : pc'[b] = "state" =>
           read'[b].memory.reviews = ReviewSeen(b, BatchCard(b)').memory.reviews
  PROVE  HistoryInv'
<1> USE RequestTypes DEF HistoryInv
<1>1. \A q \in Requests : InTransaction(q)' <=> InTransaction(q)
  BY DEF InTransaction
<1>2. LockInv'
  BY <1>1 DEF LockInv
<1>3. \A b \in Batches, c \in Cards : ReviewSeen(b, c)' = ReviewSeen(b, c)
  BY DEF ReviewSeen
<1>4. \A b \in Batches, c \in Cards : InTransaction(b) => Pending(b, c)' = Pending(b, c)
  BY DEF Pending, BatchCard, Current
<1>5. \A b \in Batches : pc'[b] = "state" =>
        read'[b].memory.reviews = (ReviewSeen(b, BatchCard(b)).memory.reviews)'
  BY DEF ReviewSeen
<1>6. CountInv'
  BY <1>1, <1>3, <1>4, <1>5 DEF CountInv, CountersMatchHistory
<1> QED BY <1>2, <1>6

LEMMA OneBatch ==
  ASSUME LockInv, NEW b \in Batches, NEW d \in Batches, InTransaction(b), InTransaction(d)
  PROVE  b = d
BY DEF LockInv

(* A transaction that ends without a trace. *)
LEMMA RollbackHistory ==
  ASSUME HistoryInv, TypeInv', NEW r \in Requests,
         NEW label \in {"rejected", "failed", "cancelled"},
         r \in Batches => InTransaction(r), Rollback(r, label)
  PROVE  HistoryInv'
<1> USE RequestTypes DEF HistoryInv
<1>1. pc' = [pc EXCEPT ![r] = label]
  BY DEF Rollback, Goto
<1>2. ~InTransaction(r)' /\ \A q \in Requests \ {r} : InTransaction(q)' <=> InTransaction(q)
  BY <1>1 DEF InTransaction, TypeInv, TypeOK
<1>3. \A c \in Cards :
        /\ reviewLock'[c] = IF reviewLock[c] = r THEN NoReq ELSE reviewLock[c]
        /\ reviewNew'[c] = IF reviewLock[c] = r THEN review[c] ELSE reviewNew[c]
  BY DEF Rollback, DiscardRows, ReleaseLocks, TypeInv, TypeOK
<1>4. UNCHANGED <<review, log, wrote, input, pos, read>>
  BY DEF Rollback, DiscardRows
<1>5. settingsLock' = IF settingsLock = r THEN NoReq ELSE settingsLock
  BY DEF Rollback, ReleaseLocks
<1>6. LockInv'
  BY <1>2, <1>3, <1>4, <1>5 DEF LockInv
<1>7. ASSUME NEW b \in Batches \ {r}, NEW c \in Cards
      PROVE  ReviewSeen(b, c)' = ReviewSeen(b, c) /\ Pending(b, c)' = Pending(b, c)
  <2>1. ReviewSeen(b, c)' = ReviewSeen(b, c)
    BY <1>3, <1>4 DEF ReviewSeen
  <2>2. Pending(b, c)' = Pending(b, c)
    BY <1>1, <1>4 DEF Pending, BatchCard, Current, TypeInv, TypeOK
  <2> QED BY <2>1, <2>2
<1>8. \A b \in Batches : pc'[b] = "state" => /\ b # r /\ pc[b] = "state" /\ BatchCard(b)' = BatchCard(b)
                                            /\ pc[b] \in AtAttempt
  BY <1>1, <1>4 DEF BatchCard, Current, TypeInv, TypeOK, AtAttempt
<1>9. \A b \in Batches : pc'[b] = "state" =>
        read'[b].memory.reviews = (ReviewSeen(b, BatchCard(b)).memory.reviews)'
  <2> SUFFICES ASSUME NEW b \in Batches, pc'[b] = "state"
               PROVE  read'[b].memory.reviews = (ReviewSeen(b, BatchCard(b)).memory.reviews)'
    OBVIOUS
  <2>1. PICK c \in Cards : c = BatchCard(b)
    BY <1>8, CurrentType
  <2>2. ReviewSeen(b, c)' = ReviewSeen(b, c) /\ c = BatchCard(b)'
    BY <1>7, <1>8, <2>1
  <2>3. read'[b].memory.reviews = ReviewSeen(b, c).memory.reviews
    BY <1>4, <1>8, <2>1 DEF CountInv
  <2>4. read'[b].memory.reviews = (ReviewSeen(b, c).memory.reviews)'
    BY <2>2, <2>3
  <2> QED BY <2>2, <2>4 DEF ReviewSeen
<1>10. CountInv'
  <2>1. CountersMatchHistory'
    BY <1>4 DEF CountInv, CountersMatchHistory
  <2>2. \A c \in Cards : reviewLock'[c] \in Adds => reviewNew'[c].memory = review'[c].memory
    BY <1>3, <1>4 DEF CountInv
  <2>3. \A b \in Batches, c \in Cards :
          InTransaction(b)' => ReviewSeen(b, c)'.memory.reviews = log'[c] + Pending(b, c)'
    BY <1>2, <1>4, <1>7 DEF CountInv
  <2> QED BY <1>9, <2>1, <2>2, <2>3 DEF CountInv
<1> QED BY <1>6, <1>10

LEMMA EnsureSettingsHistory ==
  ASSUME HistoryInv, TypeInv', NEW b \in Batches, EnsureSettings(b)
  PROVE  HistoryInv'
<1> USE RequestTypes DEF HistoryInv
<1>1. \A d \in Batches : ~InTransaction(d)
  BY DEF EnsureSettings, LockInv
<1>2. pc' = [pc EXCEPT ![b] = "select"]
  BY DEF EnsureSettings, Goto
<1>3. \A d \in Batches : InTransaction(d)' <=> d = b
  BY <1>1, <1>2 DEF InTransaction, TypeInv, TypeOK
<1>4. \A c \in Cards : reviewLock[c] \notin Batches
  BY <1>1 DEF LockInv
<1>5. LockInv'
  BY <1>3, <1>4 DEF EnsureSettings, LockInv, rows
<1>6. \A c \in Cards : ReviewSeen(b, c)' = review[c] /\ Pending(b, c)' = 0
  BY <1>2, <1>4 DEF EnsureSettings, ReviewSeen, Pending, NothingWrote, Counting, rows, TypeInv, TypeOK
<1>7. \A d \in Batches : pc'[d] # "state"
  BY <1>1, <1>2 DEF InTransaction, TypeInv, TypeOK
<1>8. CountInv'
  BY <1>3, <1>6, <1>7, LogType DEF EnsureSettings, CountInv, CountersMatchHistory, rows, TypeInv
<1> QED BY <1>5, <1>8

LEMMA UpdateStateHistory ==
  ASSUME HistoryInv, TypeInv', NEW b \in Batches, UpdateState(b)
  PROVE  HistoryInv'
<1> USE RequestTypes DEF HistoryInv
<1>0. PICK c \in Cards : c = BatchCard(b)
  BY CurrentType DEF UpdateState, AtAttempt
<1>1. After(b).reviews = read[b].memory.reviews + 1
  BY AfterType DEF UpdateState, AtAttempt
<1>2. pc[b] = "state" /\ pc' = [pc EXCEPT ![b] = "sense"] /\ InTransaction(b)
  BY DEF UpdateState, Goto, InTransaction
<1>3. \A q \in Requests : InTransaction(q)' <=> InTransaction(q)
  BY <1>2 DEF InTransaction, TypeInv, TypeOK
<1>4. /\ reviewLock'[c] = b /\ reviewNew'[c].memory = After(b)
      /\ \A d \in Cards \ {c} : UNCHANGED <<reviewLock[d], reviewNew[d]>>
  BY <1>0 DEF UpdateState, TypeInv, TypeOK
<1>5. UNCHANGED <<review, log, wrote, input, pos, read, settingsLock>>
  BY DEF UpdateState, rows
<1>6. LockInv'
  BY <1>2, <1>3, <1>4, <1>5 DEF LockInv
<1>7. \A d \in Batches : InTransaction(d) => d = b
  BY <1>2, OneBatch
<1>8. \A d \in Cards : ReviewSeen(b, d)'.memory.reviews = log[d] + Pending(b, d)'
  <2> SUFFICES ASSUME NEW d \in Cards
               PROVE  ReviewSeen(b, d)'.memory.reviews = log[d] + Pending(b, d)'
    OBVIOUS
  <2>1. ReviewSeen(b, d).memory.reviews = log[d] + wrote[b].log[d]
    BY <1>2, LogType DEF CountInv, Pending, Counting, TypeInv
  <2>2. CASE d = c
    <3>1. ReviewSeen(b, c)'.memory.reviews = read[b].memory.reviews + 1
      BY <1>1, <1>4 DEF ReviewSeen
    <3>2. Pending(b, c)' = wrote[b].log[c] + 1
      BY <1>0, <1>2, <1>5 DEF Pending, Counting, BatchCard, Current, TypeInv, TypeOK
    <3>3. read[b].memory.reviews = log[c] + wrote[b].log[c]
      BY <1>0, <1>2, <2>1, <2>2 DEF CountInv
    <3> QED BY <2>2, <3>1, <3>2, <3>3, LogType DEF TypeInv
  <2>3. CASE d # c
    <3>1. ReviewSeen(b, d)' = ReviewSeen(b, d)
      BY <1>4, <1>5, <2>3 DEF ReviewSeen
    <3>2. Pending(b, d)' = wrote[b].log[d]
      BY <1>0, <1>2, <1>5, <2>3, LogType DEF Pending, BatchCard, Current, TypeInv, TypeOK
    <3> QED BY <2>1, <3>1, <3>2
  <2> QED BY <2>2, <2>3
<1>9. \A d \in Batches : pc'[d] # "state"
  BY <1>2, <1>7 DEF InTransaction, TypeInv, TypeOK
<1>10. CountInv'
  BY <1>3, <1>4, <1>5, <1>7, <1>8, <1>9 DEF CountInv, CountersMatchHistory
<1> QED BY <1>6, <1>10

LEMMA LogAttemptHistory ==
  ASSUME HistoryInv, TypeInv', NEW b \in Batches, LogAttempt(b)
  PROVE  HistoryInv'
<1> USE RequestTypes DEF HistoryInv
<1>1. PICK c \in Cards : c = BatchCard(b)
  BY CurrentType DEF LogAttempt, AtAttempt
<1>2. PICK label \in {"commit", "select"} : pc' = [pc EXCEPT ![b] = label]
  BY DEF LogAttempt, Goto
<1>3. pc[b] = "log" /\ InTransaction(b)
  BY DEF LogAttempt, InTransaction
<1>4. \A q \in Requests : InTransaction(q)' <=> InTransaction(q)
  BY <1>2, <1>3 DEF InTransaction, TypeInv, TypeOK
<1>5. UNCHANGED <<review, log, input, read, settingsLock>>
  BY DEF LogAttempt, rows
<1>6. \A d \in Cards :
        /\ reviewLock'[d] = IF d \in Siblings(b) THEN b ELSE reviewLock[d]
        /\ reviewNew'[d].memory = reviewNew[d].memory
        /\ d \notin Siblings(b) => reviewNew'[d] = reviewNew[d]
        /\ d \in Siblings(b) => reviewLock[d] \in {b, NoReq}
  BY ReviewUpdated DEF LogAttempt, ReviewFree, Siblings, TypeInv, TypeOK
<1>7. LockInv'
  BY <1>3, <1>4, <1>5, <1>6 DEF LockInv
<1>8. \A d \in Batches : InTransaction(d) => d = b
  BY <1>3, OneBatch
<1>9. \A d \in Cards : wrote'[b].log[d] = wrote[b].log[d] + (IF d = c THEN 1 ELSE 0)
  <2>1. wrote'[b].log = Tally(b).log
    BY DEF LogAttempt, TypeInv, TypeOK
  <2>2. Tally(b).log = [wrote[b].log EXCEPT ![c] = @ + 1]
    BY <1>1 DEF Tally
  <2>3. wrote[b].log \in [Cards -> Nat]
    BY DEF TypeInv, TypeOK
  <2> QED BY <2>1, <2>2, <2>3
<1>10. \A d \in Cards : ReviewSeen(b, d)'.memory = ReviewSeen(b, d).memory
  BY <1>5, <1>6 DEF ReviewSeen, LockInv
<1>11. \A d \in Cards : Pending(b, d)' = wrote'[b].log[d]
  <2>1. \A d \in Cards : wrote'[b].log[d] \in Nat
    BY DEF TypeInv, TypeOK
  <2>2. pc'[b] \notin Counting
    BY <1>2 DEF Counting, TypeInv, TypeOK
  <2> QED BY <2>1, <2>2 DEF Pending
<1>12. \A d \in Cards : Pending(b, d) = wrote[b].log[d] + (IF d = c THEN 1 ELSE 0)
  BY <1>1, <1>3 DEF Pending, Counting
<1>13. \A d \in Batches : pc'[d] # "state"
  BY <1>2, <1>3, <1>8 DEF InTransaction, TypeInv, TypeOK
<1>14. CountInv'
  <2>1. CountersMatchHistory'
    BY <1>5 DEF CountInv, CountersMatchHistory
  <2>2. \A d \in Cards : reviewLock'[d] \in Adds => reviewNew'[d].memory = review'[d].memory
    BY <1>5, <1>6 DEF CountInv
  <2>3. \A d \in Cards : ReviewSeen(b, d)'.memory.reviews = log'[d] + Pending(b, d)'
    BY <1>3, <1>5, <1>9, <1>10, <1>11, <1>12 DEF CountInv
  <2> QED BY <1>4, <1>8, <1>13, <2>1, <2>2, <2>3 DEF CountInv
<1> QED BY <1>7, <1>14

(* A commit makes what the transaction saw the committed rows. *)
LEMMA CommitRowsSeen ==
  ASSUME TypeOK, NEW r \in Requests, CommitRows(r), ReleaseLocks(r)
  PROVE  /\ \A c \in Cards :
              /\ reviewLock'[c] = IF reviewLock[c] = r THEN NoReq ELSE reviewLock[c]
              /\ review'[c] = IF reviewLock[c] = r THEN reviewNew[c] ELSE review[c]
              /\ reviewNew'[c] = reviewNew[c]
         /\ settingsLock' = IF settingsLock = r THEN NoReq ELSE settingsLock
BY DEF CommitRows, ReleaseLocks, ReviewSeen, TypeOK

LEMMA CommitBatchHistory ==
  ASSUME HistoryInv, TypeInv', NEW b \in Batches, CommitBatch(b)
  PROVE  HistoryInv'
<1> USE RequestTypes DEF HistoryInv
<1>1. pc[b] = "commit" /\ pc' = [pc EXCEPT ![b] = "done"] /\ InTransaction(b)
  BY DEF CommitBatch, Goto, InTransaction
<1>2. ~InTransaction(b)' /\ \A q \in Requests \ {b} : InTransaction(q)' <=> InTransaction(q)
  BY <1>1 DEF InTransaction, TypeInv, TypeOK
<1>3. \A d \in Batches : ~InTransaction(d)'
  BY <1>1, <1>2, OneBatch
<1>4. /\ \A c \in Cards :
            /\ reviewLock'[c] = IF reviewLock[c] = b THEN NoReq ELSE reviewLock[c]
            /\ review'[c] = IF reviewLock[c] = b THEN reviewNew[c] ELSE review[c]
            /\ reviewNew'[c] = reviewNew[c]
      /\ settingsLock' = IF settingsLock = b THEN NoReq ELSE settingsLock
  BY CommitRowsSeen DEF CommitBatch, TypeInv
<1>5. \A c \in Cards : log'[c] = log[c] + wrote[b].log[c]
  BY DEF CommitBatch, TypeInv, TypeOK
<1>6. settingsLock = b /\ settingsLock' = NoReq
  BY <1>1, <1>4 DEF LockInv
<1>7. LockInv'
  <2>1. \A c \in Cards, d \in Batches : reviewLock'[c] # d
    BY <1>1, <1>4, OneBatch DEF LockInv
  <2> QED BY <1>3, <1>4, <1>6, <2>1 DEF LockInv
<1>8. CountInv'
  <2>1. \A c \in Cards : review'[c].memory.reviews = log[c] + wrote[b].log[c]
    BY <1>1, <1>4, LogType DEF CountInv, ReviewSeen, Pending, Counting, TypeInv
  <2>2. CountersMatchHistory'
    BY <1>5, <2>1 DEF CountersMatchHistory
  <2>3. \A c \in Cards : reviewLock'[c] \in Adds => reviewNew'[c].memory = review'[c].memory
    BY <1>4 DEF CountInv
  <2>4. \A d \in Batches : pc'[d] # "state"
    BY <1>3 DEF InTransaction
  <2> QED BY <1>3, <2>2, <2>3, <2>4 DEF CountInv
<1> QED BY <1>7, <1>8

LEMMA UpsertReviewHistory ==
  ASSUME HistoryInv, TypeInv', NEW a \in Adds, UpsertReview(a)
  PROVE  HistoryInv'
<1> USE RequestTypes DEF HistoryInv
<1>1. PICK c \in Cards :
        /\ ReviewFree(a, c)
        /\ reviewLock' = [reviewLock EXCEPT ![c] = a]
        /\ reviewNew' = [reviewNew EXCEPT ![c] = [@ EXCEPT !.suspended = FALSE, !.buried = FALSE]]
  BY DEF UpsertReview, TypeInv, TypeOK
<1>2. pc' = [pc EXCEPT ![a] = "commit"]
  BY DEF UpsertReview, Goto
<1>3. UNCHANGED <<review, log, wrote, input, pos, read, settingsLock>>
  BY DEF UpsertReview, rows
<1>4. \A d \in Cards :
        /\ reviewLock'[d] = IF d = c THEN a ELSE reviewLock[d]
        /\ reviewNew'[d].memory = reviewNew[d].memory
        /\ d # c => reviewNew'[d] = reviewNew[d]
        /\ d = c => reviewLock[d] \in {a, NoReq}
  BY <1>1, ReviewUpdated DEF ReviewFree, TypeInv, TypeOK
<1>5. \A b \in Batches : pc'[b] = pc[b] /\ (InTransaction(b)' <=> InTransaction(b))
  BY <1>2 DEF InTransaction, TypeInv, TypeOK
<1>6. LockInv'
  BY <1>3, <1>4, <1>5 DEF LockInv
<1>7. \A b \in Batches, d \in Cards : ReviewSeen(b, d)'.memory = ReviewSeen(b, d).memory
  BY <1>3, <1>4 DEF ReviewSeen, LockInv
<1>8. \A b \in Batches, d \in Cards : Pending(b, d)' = Pending(b, d)
  BY <1>3, <1>5 DEF Pending, BatchCard, Current
<1>9. ASSUME NEW b \in Batches, pc'[b] = "state"
      PROVE  read'[b].memory.reviews = (ReviewSeen(b, BatchCard(b)).memory.reviews)'
  <2>1. PICK d \in Cards : d = BatchCard(b)
    BY <1>5, <1>9, CurrentType DEF AtAttempt
  <2>2. d = BatchCard(b)'
    BY <1>3, <2>1 DEF BatchCard, Current
  <2>3. read'[b].memory.reviews = (ReviewSeen(b, d).memory.reviews)'
    BY <1>3, <1>5, <1>7, <1>9, <2>1 DEF CountInv
  <2> QED BY <2>2, <2>3 DEF ReviewSeen
<1>10. CountInv'
  <2>1. CountersMatchHistory'
    BY <1>3 DEF CountInv, CountersMatchHistory
  <2>2. \A d \in Cards : reviewLock'[d] \in Adds => reviewNew'[d].memory = review'[d].memory
    BY <1>3, <1>4 DEF CountInv, LockInv
  <2>3. \A b \in Batches, d \in Cards :
          InTransaction(b)' => ReviewSeen(b, d)'.memory.reviews = log'[d] + Pending(b, d)'
    BY <1>3, <1>5, <1>7, <1>8 DEF CountInv
  <2> QED BY <1>9, <2>1, <2>2, <2>3 DEF CountInv
<1> QED BY <1>6, <1>10

(* An add or an archive commits: no card's memory changes. *)
LEMMA CommitOtherHistory ==
  ASSUME HistoryInv, TypeInv', NEW r \in Adds \cup Archives,
         CommitRows(r), ReleaseLocks(r), Goto(r, "done"),
         UNCHANGED <<log, wrote, input, pos, read>>
  PROVE  HistoryInv'
<1> USE RequestTypes DEF HistoryInv
<1>1. /\ \A c \in Cards :
            /\ reviewLock'[c] = IF reviewLock[c] = r THEN NoReq ELSE reviewLock[c]
            /\ review'[c] = IF reviewLock[c] = r THEN reviewNew[c] ELSE review[c]
            /\ reviewNew'[c] = reviewNew[c]
      /\ settingsLock' = IF settingsLock = r THEN NoReq ELSE settingsLock
  BY CommitRowsSeen DEF TypeInv
<1>2. settingsLock' = settingsLock
  BY <1>1 DEF TypeInv, TypeOK
<1>3. \A b \in Batches : pc'[b] = pc[b] /\ (InTransaction(b)' <=> InTransaction(b))
  BY DEF Goto, InTransaction, TypeInv, TypeOK
<1>4. \A c \in Cards : review'[c].memory = review[c].memory
  BY <1>1 DEF CountInv, LockInv
<1>5. LockInv'
  BY <1>1, <1>2, <1>3 DEF LockInv
<1>6. \A b \in Batches, d \in Cards : ReviewSeen(b, d)'.memory = ReviewSeen(b, d).memory
  BY <1>1, <1>4 DEF ReviewSeen
<1>7. \A b \in Batches, d \in Cards : Pending(b, d)' = Pending(b, d)
  BY <1>3 DEF Pending, BatchCard, Current
<1>8. ASSUME NEW b \in Batches, pc'[b] = "state"
      PROVE  read'[b].memory.reviews = (ReviewSeen(b, BatchCard(b)).memory.reviews)'
  <2>1. PICK d \in Cards : d = BatchCard(b)
    BY <1>3, <1>8, CurrentType DEF AtAttempt
  <2>2. d = BatchCard(b)'
    BY <2>1 DEF BatchCard, Current
  <2>3. read'[b].memory.reviews = (ReviewSeen(b, d).memory.reviews)'
    BY <1>3, <1>6, <1>8, <2>1 DEF CountInv
  <2> QED BY <2>2, <2>3 DEF ReviewSeen
<1>9. CountInv'
  <2>1. CountersMatchHistory'
    BY <1>4 DEF CountInv, CountersMatchHistory
  <2>2. \A d \in Cards : reviewLock'[d] \in Adds => reviewNew'[d].memory = review'[d].memory
    BY <1>1, <1>4 DEF CountInv
  <2>3. \A b \in Batches, d \in Cards :
          InTransaction(b)' => ReviewSeen(b, d)'.memory.reviews = log'[d] + Pending(b, d)'
    BY <1>3, <1>6, <1>7 DEF CountInv
  <2> QED BY <1>8, <2>1, <2>2, <2>3 DEF CountInv
<1> QED BY <1>5, <1>9

(* A batch that is not about to write a state, and a card's state that is  *)
(* not written by this step: what the batch read is still what it sees.    *)
LEMMA ReadKept ==
  ASSUME HistoryInv, UNCHANGED <<review, reviewNew, reviewLock, input, pos, read>>,
         NEW b \in Batches, pc[b] = "state"
  PROVE  read'[b].memory.reviews = ReviewSeen(b, BatchCard(b)').memory.reviews
BY DEF HistoryInv, CountInv, BatchCard, Current

LEMMA SelectCardHistory ==
  ASSUME HistoryInv, TypeInv', NEW b \in Batches, SelectCard(b)
  PROVE  HistoryInv'
<1> USE RequestTypes
<1>1. pc[b] = "select" /\ pc' = [pc EXCEPT ![b] = "state"]
  BY DEF SelectCard, Goto
<1>2. UNCHANGED <<review, reviewNew, reviewLock, settingsLock, log, wrote, input, pos>>
  BY DEF SelectCard, rows, locks
<1>3. InTransaction(b) /\ InTransaction(b)'
  BY <1>1 DEF InTransaction, HistoryInv, TypeInv, TypeOK
<1>4. ASSUME NEW d \in Batches, pc'[d] = "state"
      PROVE  read'[d].memory.reviews = ReviewSeen(d, BatchCard(d)').memory.reviews
  <2>1. BatchCard(d)' = BatchCard(d)
    BY <1>2 DEF BatchCard, Current
  <2>2. d = b
    <3>1. d # b => InTransaction(d)
      BY <1>1, <1>4 DEF InTransaction, HistoryInv, TypeInv, TypeOK
    <3> QED BY <1>3, <3>1, OneBatch DEF HistoryInv
  <2>3. read'[b].memory = ReviewSeen(b, BatchCard(b)).memory
    BY DEF SelectCard, HistoryInv, TypeInv, TypeOK
  <2> QED BY <2>1, <2>2, <2>3
<1>5. pc'[b] \in Counting <=> pc[b] \in Counting
  BY <1>1 DEF Counting, HistoryInv, TypeInv, TypeOK
<1>6. \A q \in Requests \ {b} : pc'[q] = pc[q]
  BY <1>1 DEF HistoryInv, TypeInv, TypeOK
<1> QED BY <1>2, <1>3, <1>4, <1>5, <1>6, QuietHistory

LEMMA BatchHistoryStep ==
  ASSUME HistoryInv, TypeInv', NEW b \in Batches, Submit(b) \/ BatchStep(b)
  PROVE  HistoryInv'
<1> USE RequestTypes
<1>1. CASE Submit(b)
  <2>1. pc[b] = "idle" /\ pc' = [pc EXCEPT ![b] = "queued"]
    BY <1>1 DEF Submit, Goto
  <2>2. /\ UNCHANGED <<review, reviewNew, reviewLock, settingsLock, log, wrote, pos, read>>
        /\ \A d \in Batches \ {b} : input'[d] = input[d]
    BY <1>1 DEF Submit, rows, locks, HistoryInv, TypeInv, TypeOK
  <2>3. /\ \A q \in Requests \ {b} : pc'[q] = pc[q]
        /\ pc'[b] = "queued"
    BY <2>1 DEF HistoryInv, TypeInv, TypeOK
  <2>4. ~InTransaction(b) /\ ~InTransaction(b)' /\ pc[b] \notin Counting /\ pc'[b] \notin Counting
    BY <2>1, <2>3 DEF InTransaction, Counting
  <2>5. ASSUME NEW d \in Batches, pc'[d] = "state"
        PROVE  read'[d].memory.reviews = ReviewSeen(d, BatchCard(d)').memory.reviews
    <3>1. d # b /\ pc[d] = "state" /\ BatchCard(d)' = BatchCard(d)
      BY <2>2, <2>3, <2>5 DEF BatchCard, Current
    <3> QED BY <2>2, <3>1 DEF HistoryInv, CountInv
  <2> QED BY <2>2, <2>3, <2>4, <2>5, QuietHistory
<1>2. CASE EnsureSettings(b)
  BY <1>2, EnsureSettingsHistory
<1>3. CASE SelectCard(b)
  BY <1>3, SelectCardHistory
<1>4. CASE RejectBatch(b)
  BY <1>4, RollbackHistory DEF RejectBatch, InTransaction
<1>5. CASE UpdateState(b)
  BY <1>5, UpdateStateHistory
<1>6. CASE UpdateSense(b) \/ KeepSense(b)
  <2>1. pc[b] = "sense" /\ pc' = [pc EXCEPT ![b] = "log"]
    BY <1>6 DEF UpdateSense, KeepSense, Goto
  <2>2. UNCHANGED <<review, reviewNew, reviewLock, settingsLock, log, wrote, input, pos, read>>
    BY <1>6 DEF UpdateSense, KeepSense, rows, locks
  <2>3. /\ \A q \in Requests \ {b} : pc'[q] = pc[q]
        /\ pc'[b] = "log"
    BY <2>1 DEF HistoryInv, TypeInv, TypeOK
  <2>4. InTransaction(b) /\ InTransaction(b)' /\ pc[b] \in Counting /\ pc'[b] \in Counting
    BY <2>1, <2>3 DEF InTransaction, Counting
  <2>5. \A d \in Batches : pc'[d] = "state" => pc[d] = "state"
    BY <2>3
  <2> QED BY <2>2, <2>3, <2>4, <2>5, ReadKept, QuietHistory
<1>7. CASE LogAttempt(b)
  BY <1>7, LogAttemptHistory
<1>8. CASE CommitBatch(b)
  BY <1>8, CommitBatchHistory
<1> QED BY <1>1, <1>2, <1>3, <1>4, <1>5, <1>6, <1>7, <1>8 DEF BatchStep

(* Steps of adds, archives and retries that write no review row. *)
LEMMA OtherQuietHistory ==
  ASSUME HistoryInv, TypeInv', NEW r \in Requests,
         UNCHANGED <<review, reviewNew, reviewLock, settingsLock, log, wrote, input, pos, read>>,
         \/ pc' = pc
         \/ \E label \in Labels : Goto(r, label) /\ (r \in Batches => label # "state"),
         r \in Batches => ~InTransaction(r) /\ ~InTransaction(r)'
  PROVE  HistoryInv'
<1> USE RequestTypes
<1>1. \A q \in Requests \ {r} : pc'[q] = pc[q]
  BY DEF Goto, HistoryInv, TypeInv, TypeOK
<1>2. \A d \in Batches : /\ InTransaction(d)' <=> InTransaction(d)
                         /\ pc'[d] \in Counting <=> pc[d] \in Counting
                         /\ pc'[d] = "state" => pc[d] = "state"
  BY <1>1 DEF InTransaction, Counting
<1>3. \A d \in Batches : pc'[d] = "state" =>
        read'[d].memory.reviews = ReviewSeen(d, BatchCard(d)').memory.reviews
  BY <1>2, ReadKept
<1> USE DEF HistoryInv
<1>4. LockInv'
  BY <1>2 DEF LockInv
<1>5. \A b \in Batches, c \in Cards :
        ReviewSeen(b, c)' = ReviewSeen(b, c) /\ Pending(b, c)' = Pending(b, c)
  BY <1>2 DEF ReviewSeen, Pending, BatchCard, Current
<1>6. \A b \in Batches : pc'[b] = "state" =>
        read'[b].memory.reviews = (ReviewSeen(b, BatchCard(b)).memory.reviews)'
  BY <1>3 DEF ReviewSeen
<1>7. CountInv'
  BY <1>2, <1>5, <1>6 DEF CountInv, CountersMatchHistory
<1> QED BY <1>4, <1>7

LEMMA HistoryStep == HistoryInv /\ [Next]_vars => HistoryInv'
<1> SUFFICES ASSUME HistoryInv, [Next]_vars PROVE HistoryInv'
  OBVIOUS
<1> USE RequestTypes
<1>1. TypeInv'
  BY TypeStep DEF HistoryInv
<1>2. CASE UNCHANGED vars
  BY <1>2 DEF HistoryInv, LockInv, CountInv, CountersMatchHistory, InTransaction, ReviewSeen,
              Pending, BatchCard, Current, TypeInv, TypeOK, PositionOK, vars, rows, locks
<1>3. ASSUME NEW b \in Batches, Submit(b) \/ BatchStep(b)
      PROVE  HistoryInv'
  BY <1>1, <1>3, BatchHistoryStep
<1>4. ASSUME NEW a \in Adds, NEW c \in Cards, UpsertSense(a, c)
      PROVE  HistoryInv'
  <2>1. /\ a \notin Batches
        /\ \E label \in Labels : Goto(a, label)
        /\ UNCHANGED <<review, reviewNew, reviewLock, settingsLock, log, wrote, input, pos, read>>
    BY <1>4 DEF UpsertSense, rows, Labels
  <2> QED BY <1>1, <2>1, OtherQuietHistory
<1>5. ASSUME NEW a \in Adds, AddStep(a)
      PROVE  HistoryInv'
  BY <1>1, <1>5, UpsertReviewHistory, CommitOtherHistory DEF AddStep, CommitAdd
<1>6. ASSUME NEW x \in Archives, (\E ids \in SUBSET Cards : CheckArchive(x, ids))
                                 \/ ArchiveRow(x) \/ SkipRow(x)
      PROVE  HistoryInv'
  <2>1. /\ x \notin Batches
        /\ UNCHANGED <<review, reviewNew, reviewLock, settingsLock, log, wrote, input, pos, read>>
        /\ pc' = pc \/ \E label \in Labels : Goto(x, label)
    BY <1>6 DEF CheckArchive, ArchiveRow, SkipRow, rows, locks, Labels
  <2> QED BY <1>1, <2>1, OtherQuietHistory
<1>7. ASSUME NEW x \in Archives, CommitArchive(x)
      PROVE  HistoryInv'
  BY <1>1, <1>7, CommitOtherHistory DEF CommitArchive
<1>8. ASSUME NEW r \in Requests, AbortDeadlocked(r) \/ Cancel(r)
      PROVE  HistoryInv'
  BY <1>1, <1>8, RollbackHistory DEF AbortDeadlocked, Cancel
<1>9. ASSUME NEW r \in Requests, Retry(r)
      PROVE  HistoryInv'
  <2>1. \E label \in Labels : Goto(r, label) /\ label # "state"
    BY <1>9 DEF Retry, Labels
  <2>2. ~InTransaction(r) /\ ~InTransaction(r)'
    BY <1>9 DEF Retry, Goto, InTransaction, HistoryInv, TypeInv, TypeOK
  <2>3. UNCHANGED <<review, reviewNew, reviewLock, settingsLock, log, wrote, input, pos, read>>
    BY <1>9 DEF Retry, rows, locks
  <2> QED BY <1>1, <2>1, <2>2, <2>3, OtherQuietHistory
<1> QED BY <1>2, <1>3, <1>4, <1>5, <1>6, <1>7, <1>8, <1>9 DEF Next, ArchiveStep

(* However many batches run at once, a card's review_count is the number   *)
(* of its committed review_attempts: no batch overwrites another's review. *)
THEOREM NoReviewLost == Spec => []CountersMatchHistory
<1>1. HistoryInv => CountersMatchHistory
  BY DEF HistoryInv, CountInv
<1> QED BY <1>1, InitHistory, HistoryStep, PTL DEF Spec

---------------------------------------------------------------------------
(* No active card is suspended.  A batch that suspends a card holds the    *)
(* row of its sense, archived, from its next statement on; an add that     *)
(* makes a sense active holds its review row, cleared, before it commits;  *)
(* and whoever locks a row saw what the last transaction committed.        *)

SenseIdle == \A c \in Cards : senseLock[c] = NoReq => senseNew[c] = sense[c]

BatchRows ==
  \A b \in Batches, c \in Cards :
    /\ senseLock[c] = b => reviewLock[c] = b
    /\ reviewLock[c] = b /\ reviewNew[c].suspended =>
         \/ pc[b] = "sense" /\ c = BatchCard(b)
         \/ senseLock[c] = b /\ senseNew[c].status = "archived"

BatchAtSense ==
  \A b \in Batches : pc[b] = "sense" =>
    /\ reviewLock[BatchCard(b)] = b
    /\ reviewNew[BatchCard(b)].suspended = SuspendsCard(After(b))

AddRows ==
  \A a \in Adds :
    /\ pc[a] = "state" => \A c \in target[a] : senseLock[c] = a
    /\ \A c \in Cards :
         /\ senseLock[c] = a => pc[a] \in {"state", "commit"} /\ target[a] = {c}
         /\ reviewLock[c] = a => pc[a] = "commit" /\ senseLock[c] = a /\ ~reviewNew[c].suspended
         /\ pc[a] = "commit" /\ senseLock[c] = a => reviewLock[c] = a

ArchiveRows ==
  \A x \in Archives, c \in Cards :
    senseLock[c] = x => pc[x] = "archive" /\ senseNew[c].status = "archived"

SuspendInv ==
  SuspendedIsArchived /\ SenseIdle /\ BatchRows /\ BatchAtSense /\ AddRows /\ ArchiveRows

RowsInv == TypeInv /\ LockInv /\ SuspendInv

LEMMA InitRows == Init => SuspendInv
<1> SUFFICES ASSUME Init PROVE SuspendInv
  OBVIOUS
<1> USE RequestTypes DEF Init
<1>1. SuspendedIsArchived
  BY StoreAssumption DEF SuspendedIsArchived
<1>2. SenseIdle /\ BatchRows /\ BatchAtSense /\ AddRows /\ ArchiveRows
  BY DEF SenseIdle, BatchRows, BatchAtSense, AddRows, ArchiveRows
<1> QED BY <1>1, <1>2 DEF SuspendInv

LEMMA RollbackRows ==
  ASSUME RowsInv, NEW r \in Requests,
         NEW label \in {"rejected", "failed", "cancelled"}, Rollback(r, label)
  PROVE  SuspendInv'
<1> USE RequestTypes DEF RowsInv
<1>1. pc' = [pc EXCEPT ![r] = label]
  BY DEF Rollback, Goto
<1>2. \A c \in Cards :
        /\ senseLock'[c] = IF senseLock[c] = r THEN NoReq ELSE senseLock[c]
        /\ senseNew'[c] = IF senseLock[c] = r THEN sense[c] ELSE senseNew[c]
        /\ reviewLock'[c] = IF reviewLock[c] = r THEN NoReq ELSE reviewLock[c]
        /\ reviewNew'[c] = IF reviewLock[c] = r THEN review[c] ELSE reviewNew[c]
  BY DEF Rollback, DiscardRows, ReleaseLocks, TypeInv, TypeOK
<1>3. UNCHANGED <<sense, review, input, pos, read, target>>
  BY DEF Rollback, DiscardRows
<1>4. \A q \in Requests : pc'[q] = IF q = r THEN label ELSE pc[q]
  BY <1>1 DEF TypeInv, TypeOK
<1>5. SuspendedIsArchived'
  BY <1>3 DEF SuspendInv, SuspendedIsArchived
<1>6. SenseIdle'
  BY <1>2, <1>3 DEF SuspendInv, SenseIdle
<1>7. BatchRows'
  BY <1>2, <1>3, <1>4 DEF SuspendInv, BatchRows, BatchCard, Current
<1>8. BatchAtSense'
  <2> SUFFICES ASSUME NEW b \in Batches, pc'[b] = "sense"
               PROVE  /\ (reviewLock[BatchCard(b)])' = b
                      /\ (reviewNew[BatchCard(b)].suspended)' = SuspendsCard(After(b))'
    BY DEF BatchAtSense
  <2>1. b # r /\ pc[b] = "sense"
    BY <1>4
  <2>2. PICK c \in Cards : c = BatchCard(b)
    BY <2>1, CurrentType DEF AtAttempt
  <2>3. c = BatchCard(b)' /\ SuspendsCard(After(b))' = SuspendsCard(After(b))
    BY <1>3, <2>2 DEF BatchCard, Current, After, Before
  <2>4. reviewLock[c] = b /\ reviewNew[c].suspended = SuspendsCard(After(b))
    BY <2>1, <2>2 DEF SuspendInv, BatchAtSense
  <2>5. reviewLock'[c] = b /\ reviewNew'[c].suspended = SuspendsCard(After(b))
    BY <1>2, <2>1, <2>4
  <2> QED BY <2>3, <2>5
<1>9. AddRows'
  <2>1. \A a \in Adds : target[a] \subseteq Cards
    BY DEF TypeInv, TypeOK
  <2> QED BY <1>2, <1>3, <1>4, <2>1 DEF SuspendInv, AddRows
<1>10. ArchiveRows'
  BY <1>2, <1>4 DEF SuspendInv, ArchiveRows
<1> QED BY <1>5, <1>6, <1>7, <1>8, <1>9, <1>10 DEF SuspendInv

LEMMA CommitRowsArchived ==
  ASSUME RowsInv, NEW r \in Requests, pc[r] \in {"commit", "archive"},
         CommitRows(r), ReleaseLocks(r), Goto(r, "done"),
         UNCHANGED <<input, pos, read, target>>
  PROVE  SuspendInv'
<1> USE RequestTypes DEF RowsInv
<1>1. \A c \in Cards :
        /\ senseLock'[c] = IF senseLock[c] = r THEN NoReq ELSE senseLock[c]
        /\ sense'[c] = IF senseLock[c] = r THEN senseNew[c] ELSE sense[c]
        /\ reviewLock'[c] = IF reviewLock[c] = r THEN NoReq ELSE reviewLock[c]
        /\ review'[c] = IF reviewLock[c] = r THEN reviewNew[c] ELSE review[c]
        /\ senseNew'[c] = senseNew[c] /\ reviewNew'[c] = reviewNew[c]
  BY DEF CommitRows, ReleaseLocks, SenseSeen, ReviewSeen, TypeInv, TypeOK
<1>2. \A q \in Requests : pc'[q] = IF q = r THEN "done" ELSE pc[q]
  BY DEF Goto, TypeInv, TypeOK
<1>3. SuspendedIsArchived'
  <2> SUFFICES ASSUME NEW c \in Cards, sense'[c].status = "active"
               PROVE  ~review'[c].suspended
    BY DEF SuspendedIsArchived
  <2>1. CASE r \in Batches
    <3>1. pc[r] # "sense"
      OBVIOUS
    <3>2. CASE reviewLock[c] = r
      BY <1>1, <2>1, <3>1, <3>2 DEF SuspendInv, BatchRows
    <3>3. CASE reviewLock[c] # r
      BY <1>1, <2>1, <3>3 DEF SuspendInv, BatchRows, SuspendedIsArchived
    <3> QED BY <3>2, <3>3
  <2>2. CASE r \in Adds
    <3>1. CASE senseLock[c] = r
      BY <1>1, <2>2, <3>1 DEF SuspendInv, AddRows
    <3>2. CASE senseLock[c] # r
      BY <1>1, <2>2, <3>2 DEF SuspendInv, AddRows, SuspendedIsArchived
    <3> QED BY <3>1, <3>2
  <2>3. CASE r \in Archives
    BY <1>1, <2>3 DEF SuspendInv, ArchiveRows, LockInv, SuspendedIsArchived
  <2> QED BY <2>1, <2>2, <2>3 DEF Requests
<1>4. SenseIdle'
  BY <1>1 DEF SuspendInv, SenseIdle
<1>5. BatchRows'
  BY <1>1, <1>2 DEF SuspendInv, BatchRows, BatchCard, Current
<1>6. BatchAtSense'
  <2> SUFFICES ASSUME NEW b \in Batches, pc'[b] = "sense"
               PROVE  /\ (reviewLock[BatchCard(b)])' = b
                      /\ (reviewNew[BatchCard(b)].suspended)' = SuspendsCard(After(b))'
    BY DEF BatchAtSense
  <2>1. b # r /\ pc[b] = "sense"
    BY <1>2
  <2>2. PICK c \in Cards : c = BatchCard(b)
    BY <2>1, CurrentType DEF AtAttempt
  <2>3. c = BatchCard(b)' /\ SuspendsCard(After(b))' = SuspendsCard(After(b))
    BY <2>2 DEF BatchCard, Current, After, Before
  <2>4. reviewLock[c] = b /\ reviewNew[c].suspended = SuspendsCard(After(b))
    BY <2>1, <2>2 DEF SuspendInv, BatchAtSense
  <2>5. reviewLock'[c] = b /\ reviewNew'[c].suspended = SuspendsCard(After(b))
    BY <1>1, <2>1, <2>4
  <2> QED BY <2>3, <2>5
<1>7. AddRows'
  <2>1. \A a \in Adds : target[a] \subseteq Cards
    BY DEF TypeInv, TypeOK
  <2> QED BY <1>1, <1>2, <2>1 DEF SuspendInv, AddRows
<1>8. ArchiveRows'
  BY <1>1, <1>2 DEF SuspendInv, ArchiveRows
<1> QED BY <1>3, <1>4, <1>5, <1>6, <1>7, <1>8 DEF SuspendInv

LEMMA UpdateStateRows ==
  ASSUME RowsInv, NEW b \in Batches, UpdateState(b)
  PROVE  SuspendInv'
<1> USE RequestTypes DEF RowsInv
<1>1. PICK c \in Cards : c = BatchCard(b)
  BY CurrentType DEF UpdateState, AtAttempt
<1>2. pc[b] = "state" /\ \A q \in Requests : pc'[q] = IF q = b THEN "sense" ELSE pc[q]
  BY DEF UpdateState, Goto, TypeInv, TypeOK
<1>3. UNCHANGED <<sense, review, senseNew, senseLock, input, pos, read, target>>
  BY DEF UpdateState, rows
<1>4. /\ reviewLock[c] \in {b, NoReq} /\ reviewLock'[c] = b
      /\ reviewNew'[c].suspended = SuspendsCard(After(b))
      /\ \A d \in Cards \ {c} : reviewLock'[d] = reviewLock[d] /\ reviewNew'[d] = reviewNew[d]
  BY <1>1 DEF UpdateState, ReviewFree, TypeInv, TypeOK
<1>5. \A d \in Batches : /\ BatchCard(d)' = BatchCard(d)
                         /\ SuspendsCard(After(d))' = SuspendsCard(After(d))
  BY <1>3 DEF BatchCard, Current, After, Before
<1>6. SuspendedIsArchived' /\ SenseIdle' /\ ArchiveRows'
  BY <1>2, <1>3 DEF SuspendInv, SuspendedIsArchived, SenseIdle, ArchiveRows
<1>7. BatchRows'
  BY <1>1, <1>2, <1>3, <1>4, <1>5 DEF SuspendInv, BatchRows
<1>8. BatchAtSense'
  <2>1. \A d \in Batches \ {b} : pc[d] # "sense"
    <3>1. InTransaction(b)
      BY <1>2 DEF InTransaction
    <3> QED BY <3>1, OneBatch DEF InTransaction
  <2>2. c = BatchCard(b)' /\ SuspendsCard(After(b))' = SuspendsCard(After(b))
    BY <1>1, <1>5
  <2>3. reviewLock'[c] = b /\ reviewNew'[c].suspended = SuspendsCard(After(b))'
    BY <1>4, <2>2
  <2> QED BY <1>2, <2>1, <2>2, <2>3 DEF BatchAtSense
<1>9. AddRows'
  <2>1. \A a \in Adds : reviewLock[c] # a
    BY <1>4
  <2> QED BY <1>2, <1>3, <1>4, <2>1 DEF SuspendInv, AddRows
<1> QED BY <1>6, <1>7, <1>8, <1>9 DEF SuspendInv

LEMMA UpdateSenseRows ==
  ASSUME RowsInv, NEW b \in Batches, UpdateSense(b) \/ KeepSense(b)
  PROVE  SuspendInv'
<1> USE RequestTypes DEF RowsInv
<1>0. pc[b] = "sense"
  BY DEF UpdateSense, KeepSense
<1>1. PICK c \in Cards : c = BatchCard(b)
  BY <1>0, CurrentType DEF AtAttempt
<1>2. \A q \in Requests : pc'[q] = IF q = b THEN "log" ELSE pc[q]
  BY DEF UpdateSense, KeepSense, Goto, TypeInv, TypeOK
<1>3. UNCHANGED <<sense, review, reviewNew, reviewLock, input, pos, read, target>>
  BY DEF UpdateSense, KeepSense, rows, locks
<1>4. reviewLock[c] = b /\ reviewNew[c].suspended = SuspendsCard(After(b))
  BY <1>0, <1>1 DEF SuspendInv, BatchAtSense
<1>5. /\ \A d \in Cards \ {c} : senseLock'[d] = senseLock[d] /\ senseNew'[d] = senseNew[d]
      /\ \/ /\ senseLock[c] \in {b, NoReq} /\ senseLock'[c] = b
            /\ SuspendsCard(After(b)) => senseNew'[c].status = "archived"
         \/ /\ senseLock'[c] = senseLock[c] /\ senseNew'[c] = senseNew[c]
            /\ ~SuspendsCard(After(b))
  <2>1. CASE UpdateSense(b)
    <3>1. SuspendsCard(After(b)) => senseNew'[c] = [senseNew[c] EXCEPT !.status = "archived"]
      BY <1>1, <2>1 DEF UpdateSense, TypeInv, TypeOK
    <3>2. [senseNew[c] EXCEPT !.status = "archived"].status = "archived"
      BY DEF TypeInv, TypeOK, Senses
    <3>3. /\ senseLock[c] \in {b, NoReq} /\ senseLock'[c] = b
          /\ \A d \in Cards \ {c} : senseLock'[d] = senseLock[d] /\ senseNew'[d] = senseNew[d]
      BY <1>1, <2>1 DEF UpdateSense, SenseFree, TypeInv, TypeOK
    <3> QED BY <3>1, <3>2, <3>3
  <2>2. CASE KeepSense(b)
    BY <2>2 DEF KeepSense, TouchesSense, locks
  <2> QED BY <2>1, <2>2
<1>6. \A d \in Batches : /\ BatchCard(d)' = BatchCard(d)
                         /\ SuspendsCard(After(d))' = SuspendsCard(After(d))
  BY <1>3 DEF BatchCard, Current, After, Before
<1>7. SuspendedIsArchived'
  BY <1>3 DEF SuspendInv, SuspendedIsArchived
<1>8. SenseIdle' /\ ArchiveRows'
  BY <1>2, <1>3, <1>5 DEF SuspendInv, SenseIdle, ArchiveRows
<1>9. BatchRows'
  BY <1>1, <1>2, <1>3, <1>4, <1>5, <1>6 DEF SuspendInv, BatchRows
<1>10. BatchAtSense'
  BY <1>2, <1>3, <1>6 DEF SuspendInv, BatchAtSense
<1>11. AddRows'
  <2>1. \A a \in Adds : target[a] \subseteq Cards
    BY DEF TypeInv, TypeOK
  <2>2. \A a \in Adds, d \in Cards : senseLock'[d] = a <=> senseLock[d] = a
    BY <1>5
  <2> QED BY <1>2, <1>3, <2>1, <2>2 DEF SuspendInv, AddRows
<1> QED BY <1>7, <1>8, <1>9, <1>10, <1>11 DEF SuspendInv

LEMMA LogAttemptRows ==
  ASSUME RowsInv, NEW b \in Batches, LogAttempt(b)
  PROVE  SuspendInv'
<1> USE RequestTypes DEF RowsInv
<1>1. pc[b] = "log"
  BY DEF LogAttempt
<1>2. PICK label \in {"commit", "select"} :
        \A q \in Requests : pc'[q] = IF q = b THEN label ELSE pc[q]
  BY DEF LogAttempt, Goto, TypeInv, TypeOK
<1>3. UNCHANGED <<sense, review, senseNew, senseLock, input, read, target>>
  BY DEF LogAttempt, rows
<1>4. \A d \in Cards :
        /\ reviewLock'[d] = IF d \in Siblings(b) THEN b ELSE reviewLock[d]
        /\ reviewNew'[d].suspended = reviewNew[d].suspended
        /\ d \in Siblings(b) => reviewLock[d] \in {b, NoReq}
  BY ReviewUpdated DEF LogAttempt, ReviewFree, Siblings, TypeInv, TypeOK
<1>5. \A d \in Siblings(b) : d \in Cards /\ SenseSeen(b, d).status = "active"
  BY DEF Siblings
<1>6. \A d \in Siblings(b) : ~reviewNew[d].suspended
  <2> SUFFICES ASSUME NEW d \in Cards, SenseSeen(b, d).status = "active", reviewLock[d] \in {b, NoReq}
               PROVE  ~reviewNew[d].suspended
    BY <1>4, <1>5
  <2>1. CASE reviewLock[d] = b
    <3>1. CASE senseLock[d] = b
      BY <1>1, <2>1, <3>1 DEF SuspendInv, BatchRows, SenseSeen
    <3>2. CASE senseLock[d] # b
      BY <1>1, <2>1, <3>2 DEF SuspendInv, BatchRows
    <3> QED BY <3>1, <3>2
  <2>2. CASE reviewLock[d] = NoReq
    <3>1. senseLock[d] # b
      BY <2>2 DEF SuspendInv, BatchRows
    <3>2. reviewNew[d] = review[d] /\ sense[d].status = "active"
      BY <2>2, <3>1 DEF LockInv, SenseSeen
    <3> QED BY <3>2 DEF SuspendInv, SuspendedIsArchived
  <2> QED BY <2>1, <2>2
<1>7. SuspendedIsArchived' /\ SenseIdle' /\ ArchiveRows'
  BY <1>2, <1>3 DEF SuspendInv, SuspendedIsArchived, SenseIdle, ArchiveRows
<1>8. \A d \in Batches \ {b} : pc[d] # "sense" /\ ~InTransaction(d)
  <2>1. InTransaction(b)
    BY <1>1 DEF InTransaction
  <2> QED BY <2>1, OneBatch DEF InTransaction
<1>9. BatchRows'
  <2> SUFFICES ASSUME NEW d \in Batches, NEW c \in Cards
               PROVE  /\ senseLock'[c] = d => reviewLock'[c] = d
                      /\ reviewLock'[c] = d /\ reviewNew'[c].suspended =>
                           senseLock'[c] = d /\ senseNew'[c].status = "archived"
    BY DEF BatchRows
  <2>1. CASE d = b
    BY <1>1, <1>3, <1>4, <1>6, <2>1 DEF SuspendInv, BatchRows
  <2>2. CASE d # b
    BY <1>3, <1>4, <1>8, <2>2 DEF SuspendInv, BatchRows, LockInv
  <2> QED BY <2>1, <2>2
<1>10. BatchAtSense'
  BY <1>2, <1>8 DEF BatchAtSense
<1>11. AddRows'
  <2>1. \A a \in Adds : target[a] \subseteq Cards
    BY DEF TypeInv, TypeOK
  <2>2. \A a \in Adds, d \in Cards : reviewLock'[d] = a <=> reviewLock[d] = a
    BY <1>4
  <2> QED BY <1>2, <1>3, <1>4, <2>1, <2>2 DEF SuspendInv, AddRows
<1> QED BY <1>7, <1>9, <1>10, <1>11 DEF SuspendInv

(* A step of r that writes no row and locks none. *)
LEMMA QuietRows ==
  ASSUME RowsInv, NEW r \in Requests,
         UNCHANGED <<sense, review, senseNew, reviewNew, senseLock, reviewLock>>,
         \A q \in Requests \ {r} : pc'[q] = pc[q],
         \A b \in Batches : pc[b] = "sense" \/ pc'[b] = "sense" =>
           pc'[b] = pc[b] /\ input'[b] = input[b] /\ pos'[b] = pos[b] /\ read'[b] = read[b],
         \A a \in Adds : target'[a] = target[a],
         r \in Adds => pc[r] \notin {"state", "commit"} /\ pc'[r] \notin {"state", "commit"},
         r \in Archives /\ pc[r] = "archive" => pc'[r] = "archive"
  PROVE  SuspendInv'
<1> USE RequestTypes DEF RowsInv
<1>1. \A b \in Batches : pc[b] = "sense" =>
        BatchCard(b)' = BatchCard(b) /\ SuspendsCard(After(b))' = SuspendsCard(After(b))
  BY DEF BatchCard, Current, After, Before
<1>2. SuspendedIsArchived' /\ SenseIdle'
  BY DEF SuspendInv, SuspendedIsArchived, SenseIdle
<1>3. BatchRows'
  BY <1>1 DEF SuspendInv, BatchRows
<1>4. BatchAtSense'
  BY <1>1 DEF SuspendInv, BatchAtSense
<1>5. AddRows'
  <2> SUFFICES ASSUME NEW a \in Adds
               PROVE  /\ pc'[a] = "state" => \A c \in target'[a] : senseLock'[c] = a
                      /\ \A c \in Cards :
                           /\ senseLock'[c] = a => pc'[a] \in {"state", "commit"} /\ target'[a] = {c}
                           /\ reviewLock'[c] = a => /\ pc'[a] = "commit" /\ senseLock'[c] = a
                                                    /\ ~reviewNew'[c].suspended
                           /\ pc'[a] = "commit" /\ senseLock'[c] = a => reviewLock'[c] = a
    BY DEF AddRows
  <2>1. CASE a = r
    BY <2>1 DEF SuspendInv, AddRows
  <2>2. CASE a # r
    BY <2>2 DEF SuspendInv, AddRows
  <2> QED BY <2>1, <2>2
<1>6. ArchiveRows'
  BY DEF SuspendInv, ArchiveRows
<1> QED BY <1>2, <1>3, <1>4, <1>5, <1>6 DEF SuspendInv

LEMMA UpsertSenseRows ==
  ASSUME RowsInv, NEW a \in Adds, NEW c \in Cards, UpsertSense(a, c)
  PROVE  SuspendInv'
<1> USE RequestTypes DEF RowsInv
<1>1. pc[a] = "idle" /\ \A q \in Requests : pc'[q] = IF q = a THEN "state" ELSE pc[q]
  BY DEF UpsertSense, Goto, TypeInv, TypeOK
<1>2. UNCHANGED <<sense, review, reviewNew, reviewLock, input, pos, read>>
  BY DEF UpsertSense, rows
<1>3. /\ \A d \in Cards : /\ senseLock'[d] = IF d = c THEN a ELSE senseLock[d]
                          /\ d # c => senseNew'[d] = senseNew[d]
      /\ senseLock[c] \in {a, NoReq}
      /\ \A q \in Adds : target'[q] = IF q = a THEN {c} ELSE target[q]
      /\ \A q \in Adds : target[q] \subseteq Cards
  BY DEF UpsertSense, SenseFree, TypeInv, TypeOK
<1>4. \A b \in Batches : /\ BatchCard(b)' = BatchCard(b)
                         /\ SuspendsCard(After(b))' = SuspendsCard(After(b))
  BY <1>2 DEF BatchCard, Current, After, Before
<1>5. \A d \in Cards : senseLock[d] # a /\ reviewLock[d] # a
  BY <1>1 DEF SuspendInv, AddRows
<1>6. SuspendedIsArchived' /\ SenseIdle' /\ ArchiveRows'
  BY <1>1, <1>2, <1>3 DEF SuspendInv, SuspendedIsArchived, SenseIdle, ArchiveRows
<1>7. BatchRows'
  BY <1>1, <1>2, <1>3, <1>4 DEF SuspendInv, BatchRows
<1>8. BatchAtSense'
  BY <1>1, <1>2, <1>4 DEF SuspendInv, BatchAtSense
<1>9. AddRows'
  BY <1>1, <1>2, <1>3, <1>5 DEF SuspendInv, AddRows
<1> QED BY <1>6, <1>7, <1>8, <1>9 DEF SuspendInv

LEMMA UpsertReviewRows ==
  ASSUME RowsInv, NEW a \in Adds, UpsertReview(a)
  PROVE  SuspendInv'
<1> USE RequestTypes DEF RowsInv
<1>1. PICK c \in target[a] :
        /\ pc[a] = "state" /\ ReviewFree(a, c)
        /\ reviewLock' = [reviewLock EXCEPT ![c] = a]
        /\ reviewNew' = [reviewNew EXCEPT ![c] = [@ EXCEPT !.suspended = FALSE, !.buried = FALSE]]
  BY DEF UpsertReview
<1>2. c \in Cards /\ senseLock[c] = a /\ target[a] = {c}
  BY <1>1 DEF SuspendInv, AddRows, TypeInv, TypeOK
<1>3. \A q \in Requests : pc'[q] = IF q = a THEN "commit" ELSE pc[q]
  BY DEF UpsertReview, Goto, TypeInv, TypeOK
<1>4. UNCHANGED <<sense, review, senseNew, senseLock, input, pos, read, target>>
  BY DEF UpsertReview, rows
<1>5. /\ \A d \in Cards : /\ reviewLock'[d] = IF d = c THEN a ELSE reviewLock[d]
                          /\ d # c => reviewNew'[d] = reviewNew[d]
      /\ ~reviewNew'[c].suspended /\ reviewLock[c] \in {a, NoReq}
  <2> DEFINE cleared == [reviewNew[c] EXCEPT !.suspended = FALSE, !.buried = FALSE]
  <2>1. ~cleared.suspended
    BY <1>2, ReviewUpdated DEF TypeInv, TypeOK
  <2>2. reviewNew'[c] = cleared
    BY <1>1, <1>2 DEF TypeInv, TypeOK
  <2> HIDE DEF cleared
  <2> QED BY <1>1, <1>2, <2>1, <2>2 DEF ReviewFree, TypeInv, TypeOK
<1>6. \A b \in Batches : /\ BatchCard(b)' = BatchCard(b)
                         /\ SuspendsCard(After(b))' = SuspendsCard(After(b))
  BY <1>4 DEF BatchCard, Current, After, Before
<1>7. SuspendedIsArchived' /\ SenseIdle' /\ ArchiveRows'
  BY <1>3, <1>4 DEF SuspendInv, SuspendedIsArchived, SenseIdle, ArchiveRows
<1>8. BatchRows'
  BY <1>2, <1>3, <1>4, <1>5, <1>6 DEF SuspendInv, BatchRows
<1>9. BatchAtSense'
  <2> SUFFICES ASSUME NEW b \in Batches, pc'[b] = "sense"
               PROVE  /\ (reviewLock[BatchCard(b)])' = b
                      /\ (reviewNew[BatchCard(b)].suspended)' = SuspendsCard(After(b))'
    BY DEF BatchAtSense
  <2>1. PICK d \in Cards : d = BatchCard(b)
    BY <1>3, CurrentType DEF AtAttempt
  <2>2. reviewLock[d] = b /\ reviewNew[d].suspended = SuspendsCard(After(b))
    BY <1>3, <2>1 DEF SuspendInv, BatchAtSense
  <2>3. d = BatchCard(b)' /\ d # c
    BY <1>5, <1>6, <2>1, <2>2
  <2>4. reviewLock'[d] = b /\ reviewNew'[d].suspended = SuspendsCard(After(b))'
    BY <1>5, <1>6, <2>2, <2>3
  <2> QED BY <2>3, <2>4
<1>10. AddRows'
  BY <1>2, <1>3, <1>4, <1>5 DEF SuspendInv, AddRows
<1> QED BY <1>7, <1>8, <1>9, <1>10 DEF SuspendInv

LEMMA ArchiveRowRows ==
  ASSUME RowsInv, NEW x \in Archives, ArchiveRow(x)
  PROVE  SuspendInv'
<1> USE RequestTypes DEF RowsInv
<1>1. PICK c \in target[x] :
        /\ pc[x] = "archive" /\ SenseFree(x, c)
        /\ senseLock' = [senseLock EXCEPT ![c] = x]
        /\ senseNew' = [senseNew EXCEPT ![c] = [status |-> "archived", stage |-> "archived"]]
  BY DEF ArchiveRow
<1>2. /\ UNCHANGED <<sense, review, reviewNew, reviewLock, pc, input, pos, read>>
      /\ \A a \in Adds : target'[a] = target[a]
      /\ \A a \in Adds : target[a] \subseteq Cards
      /\ c \in Cards
  BY <1>1 DEF ArchiveRow, rows, TypeInv, TypeOK
<1>3. /\ \A d \in Cards : /\ senseLock'[d] = IF d = c THEN x ELSE senseLock[d]
                          /\ d # c => senseNew'[d] = senseNew[d]
      /\ senseNew'[c].status = "archived" /\ senseLock[c] \in {x, NoReq}
  BY <1>1, <1>2 DEF SenseFree, TypeInv, TypeOK
<1>4. \A b \in Batches : /\ BatchCard(b)' = BatchCard(b)
                         /\ SuspendsCard(After(b))' = SuspendsCard(After(b))
  BY <1>2 DEF BatchCard, Current, After, Before
<1>5. SuspendedIsArchived' /\ SenseIdle' /\ ArchiveRows'
  BY <1>1, <1>2, <1>3 DEF SuspendInv, SuspendedIsArchived, SenseIdle, ArchiveRows
<1>6. BatchRows'
  BY <1>2, <1>3, <1>4 DEF SuspendInv, BatchRows
<1>7. BatchAtSense'
  BY <1>2, <1>4 DEF SuspendInv, BatchAtSense
<1>8. AddRows'
  BY <1>2, <1>3 DEF SuspendInv, AddRows
<1> QED BY <1>5, <1>6, <1>7, <1>8 DEF SuspendInv

LEMMA RowsStep == RowsInv /\ TypeInv' /\ LockInv' /\ [Next]_vars => RowsInv'
<1> SUFFICES ASSUME RowsInv, [Next]_vars PROVE SuspendInv'
  BY DEF RowsInv
<1> USE RequestTypes
<1> USE DEF RowsInv
<1>1. CASE UNCHANGED vars
  BY <1>1 DEF SuspendInv, SuspendedIsArchived, SenseIdle, BatchRows, BatchAtSense, AddRows,
              ArchiveRows, BatchCard, Current, After, Before, vars, rows, locks
<1>2. ASSUME NEW b \in Batches, Submit(b) \/ EnsureSettings(b) \/ SelectCard(b)
      PROVE  SuspendInv'
  <2>1. UNCHANGED <<sense, review, senseNew, reviewNew, senseLock, reviewLock, target>>
    BY <1>2 DEF Submit, EnsureSettings, SelectCard, rows, locks
  <2>2. /\ \A q \in Requests \ {b} : pc'[q] = pc[q]
        /\ pc[b] # "sense" /\ pc'[b] # "sense"
    BY <1>2 DEF Submit, EnsureSettings, SelectCard, Goto, TypeInv, TypeOK
  <2>3. \A d \in Batches \ {b} : input'[d] = input[d] /\ pos'[d] = pos[d] /\ read'[d] = read[d]
    BY <1>2 DEF Submit, EnsureSettings, SelectCard, TypeInv, TypeOK
  <2> QED BY <2>1, <2>2, <2>3, QuietRows
<1>3. ASSUME NEW b \in Batches, RejectBatch(b) \/ CommitBatch(b)
      PROVE  SuspendInv'
  BY <1>3, RollbackRows, CommitRowsArchived DEF RejectBatch, CommitBatch
<1>4. ASSUME NEW b \in Batches, UpdateState(b) \/ UpdateSense(b) \/ KeepSense(b) \/ LogAttempt(b)
      PROVE  SuspendInv'
  BY <1>4, UpdateStateRows, UpdateSenseRows, LogAttemptRows
<1>5. ASSUME NEW a \in Adds, (\E c \in Cards : UpsertSense(a, c)) \/ UpsertReview(a)
      PROVE  SuspendInv'
  BY <1>5, UpsertSenseRows, UpsertReviewRows
<1>6. ASSUME NEW r \in Requests, CommitAdd(r) \/ CommitArchive(r)
      PROVE  SuspendInv'
  BY <1>6, CommitRowsArchived DEF CommitAdd, CommitArchive
<1>7. ASSUME NEW x \in Archives, (\E ids \in SUBSET Cards : CheckArchive(x, ids)) \/ SkipRow(x)
      PROVE  SuspendInv'
  <2>1. UNCHANGED <<sense, review, senseNew, reviewNew, senseLock, reviewLock, input, pos, read>>
    BY <1>7 DEF CheckArchive, SkipRow, rows, locks
  <2>2. /\ \A q \in Requests \ {x} : pc'[q] = pc[q]
        /\ pc[x] = "archive" => pc'[x] = "archive"
        /\ \A a \in Adds : target'[a] = target[a]
    BY <1>7 DEF CheckArchive, SkipRow, Goto, TypeInv, TypeOK
  <2> QED BY <2>1, <2>2, QuietRows
<1>8. ASSUME NEW x \in Archives, ArchiveRow(x)
      PROVE  SuspendInv'
  BY <1>8, ArchiveRowRows
<1>9. ASSUME NEW r \in Requests, AbortDeadlocked(r) \/ Cancel(r)
      PROVE  SuspendInv'
  BY <1>9, RollbackRows DEF AbortDeadlocked, Cancel
<1>10. ASSUME NEW r \in Requests, Retry(r)
       PROVE  SuspendInv'
  <2>1. UNCHANGED <<sense, review, senseNew, reviewNew, senseLock, reviewLock,
                    input, pos, read, target>>
    BY <1>10 DEF Retry, rows, locks
  <2>2. /\ \A q \in Requests \ {r} : pc'[q] = pc[q]
        /\ pc[r] = "failed" /\ pc'[r] \in {"queued", "idle"}
    BY <1>10 DEF Retry, Goto, TypeInv, TypeOK
  <2> QED BY <2>1, <2>2, QuietRows
<1> QED BY <1>1, <1>2, <1>3, <1>4, <1>5, <1>6, <1>7, <1>8, <1>9, <1>10
        DEF Next, BatchStep, AddStep, ArchiveStep

(* Whatever batches, adds and archives overlap, deadlock or are cut off, a *)
(* card in the user's list is never suspended.                             *)
THEOREM ActiveIsSchedulable == Spec => []SuspendedIsArchived
<1> DEFINE Inv == HistoryInv /\ SuspendInv
<1>1. Init => Inv
  BY InitHistory, InitRows
<1>2. Inv /\ [Next]_vars => Inv'
  BY HistoryStep, RowsStep DEF HistoryInv, RowsInv
<1>3. Inv => SuspendedIsArchived
  BY DEF SuspendInv
<1> QED BY <1>1, <1>2, <1>3, PTL DEF Spec

---------------------------------------------------------------------------
(* Batches are applied one after the other.  While a batch runs, what it   *)
(* sees of the cards' memory, and the attempts it wrote on top of the      *)
(* committed ones, are what the ledger holds after as many of its answers. *)

IsRun(run, cards, answers, n) ==
  run = [i \in 0 .. n |-> IF i = 0 THEN cards ELSE Ledger!Answered(run[i - 1], answers[i])]

LEMMA RunExists ==
  ASSUME NEW cards, NEW answers, NEW n \in Nat
  PROVE  \E run : IsRun(run, cards, answers, n)
<1> DEFINE RunTo(run, m) == run = [i \in 0 .. m |->
             IF i = 0 THEN cards ELSE Ledger!Answered(run[i - 1], answers[i])]
           T == {m \in 0 .. n : \E run : RunTo(run, m)}
<1>1. 0 \in T
  <2> DEFINE run == [i \in 0 .. 0 |-> cards]
  <2>1. \A i \in 0 .. 0 : i = 0
    OBVIOUS
  <2>2. \A i \in 0 .. 0 :
          run[i] = IF i = 0 THEN cards ELSE Ledger!Answered(run[i - 1], answers[i])
    BY <2>1
  <2>3. run = [i \in 0 .. 0 |-> run[i]]
    OBVIOUS
  <2> HIDE DEF run
  <2>4. RunTo(run, 0)
    BY <2>2, <2>3
  <2>5. 0 \in 0 .. n
    OBVIOUS
  <2> HIDE DEF RunTo
  <2> QED BY <2>4, <2>5
<1>2. ASSUME NEW m \in 0 .. n, m < n, m \in T PROVE m + 1 \in T
  <2>1. PICK run : RunTo(run, m)
    BY <1>2
  <2> DEFINE last == Ledger!Answered(run[m], answers[m + 1])
             longer == [i \in 0 .. m + 1 |-> IF i = m + 1 THEN last ELSE run[i]]
  <2>2. \A i \in 0 .. m : run[i] = IF i = 0 THEN cards ELSE Ledger!Answered(run[i - 1], answers[i])
    BY <2>1
  <2>3. \A i \in 0 .. m + 1 :
          longer[i] = IF i = 0 THEN cards ELSE Ledger!Answered(longer[i - 1], answers[i])
    <3> SUFFICES ASSUME NEW i \in 0 .. m + 1
                 PROVE  longer[i] = IF i = 0 THEN cards ELSE Ledger!Answered(longer[i - 1], answers[i])
      OBVIOUS
    <3>1. CASE i = 0
      BY <2>2, <3>1
    <3>2. CASE i \in 1 .. m
      <4>1. i \in 0 .. m + 1 /\ i - 1 \in 0 .. m + 1 /\ i # m + 1 /\ i - 1 # m + 1 /\ i # 0 /\ i \in 0 .. m
        BY <3>2
      <4>2. longer[i] = run[i] /\ longer[i - 1] = run[i - 1]
        BY <4>1
      <4> HIDE DEF longer
      <4> QED BY <2>2, <4>1, <4>2
    <3>3. CASE i = m + 1
      <4>1. m \in 0 .. m + 1 /\ m # m + 1 /\ i - 1 = m /\ i # 0
        BY <3>3
      <4>2. longer[m] = run[m] /\ longer[i] = last
        BY <3>3, <4>1
      <4> HIDE DEF longer
      <4> QED BY <3>3, <4>1, <4>2
    <3> QED BY <3>1, <3>2, <3>3
  <2>4. longer = [i \in 0 .. m + 1 |-> longer[i]]
    OBVIOUS
  <2> HIDE DEF longer
  <2>5. RunTo(longer, m + 1)
    BY <2>3, <2>4
  <2>6. m + 1 \in 0 .. n
    BY <1>2
  <2> HIDE DEF RunTo
  <2> QED BY <2>5, <2>6
<1> HIDE DEF T, RunTo
<1>3. \A m \in 0 .. n : m < n /\ m \in T => m + 1 \in T
  BY <1>2
<1>4. n \in T
  BY <1>1, <1>3, CountUp
<1> QED BY <1>4 DEF T, RunTo, IsRun

LEMMA RunSteps ==
  ASSUME NEW cards, NEW answers, Len(answers) \in Nat
  PROVE  /\ Ledger!Run(cards, answers)[0] = cards
         /\ \A i \in 1 .. Len(answers) : Ledger!Run(cards, answers)[i] =
              Ledger!Answered(Ledger!Run(cards, answers)[i - 1], answers[i])
<1> DEFINE run == Ledger!Run(cards, answers)
           n == Len(answers)
<1>1. n \in Nat
  OBVIOUS
<1>2. run = CHOOSE f : IsRun(f, cards, answers, n)
  BY Zenon DEF Ledger!Run, IsRun
<1> HIDE DEF run, n
<1>3. IsRun(run, cards, answers, n)
  BY <1>1, <1>2, RunExists, Zenon
<1>4. \A i \in 0 .. n : run[i] = IF i = 0 THEN cards ELSE Ledger!Answered(run[i - 1], answers[i])
  BY <1>3 DEF IsRun
<1> QED BY <1>1, <1>4 DEF run, n

LEMMA LedgerMemory ==
  \A m, rating : Ledger!NextMemory(Ledger!Migrated(m), rating) = NextMemory(Migrated(m), rating)
<1>1. \A m : Ledger!Migrated(m) = Migrated(m)
  BY DEF Ledger!Migrated, Migrated
<1>2. \A m, rating : Ledger!StaysInSteps(m, rating) <=> StaysInSteps(m, rating)
  BY DEF Ledger!StaysInSteps, StaysInSteps, Ledger!StepStates, StepStates
<1>3. \A m, rating : Ledger!NextState(m, rating) = NextState(m, rating)
  BY <1>2 DEF Ledger!NextState, NextState
<1>4. \A state : Ledger!StepsOf(state) = StepsOf(state)
  BY DEF Ledger!StepsOf, StepsOf
<1>5. \A m, rating : Ledger!NextRemaining(m, rating) = NextRemaining(m, rating)
  BY <1>2, <1>3, <1>4 DEF Ledger!NextRemaining, NextRemaining
<1>6. \A m, rating : Ledger!NextMemory(m, rating) = NextMemory(m, rating)
  BY <1>3, <1>5 DEF Ledger!NextMemory, NextMemory
<1> QED BY <1>1, <1>6

---------------------------------------------------------------------------
(* What a step that is not one of its own leaves of a batch.               *)

MemoryKept ==
  /\ log' = log /\ daily' = daily
  /\ \A c \in Cards : review'[c].memory = review[c].memory

Undisturbed(b) ==
  /\ InTransaction(b) /\ pc'[b] = pc[b]
  /\ input'[b] = input[b] /\ pos'[b] = pos[b] /\ read'[b] = read[b] /\ wrote'[b] = wrote[b]
  /\ \A c \in Cards : ReviewSeen(b, c)'.memory = ReviewSeen(b, c).memory

Unseen == MemoryKept /\ \A b \in Batches : InTransaction(b)' => Undisturbed(b)

(* A step that writes no review row and locks none. *)
LEMMA QuietUnseen ==
  ASSUME HistoryInv, NEW r \in Requests,
         UNCHANGED <<review, reviewNew, reviewLock, log, daily, pos, read, wrote>>,
         \A q \in Requests \ {r} : pc'[q] = pc[q],
         \A b \in Batches \ {r} : input'[b] = input[b],
         r \in Batches => ~InTransaction(r)'
  PROVE  Unseen
<1>1. \A b \in Batches : InTransaction(b)' => b # r /\ pc'[b] = pc[b] /\ InTransaction(b)
  BY RequestTypes DEF InTransaction
<1>2. \A b \in Batches, c \in Cards : ReviewSeen(b, c)' = ReviewSeen(b, c)
  BY DEF ReviewSeen
<1> QED BY <1>1, <1>2 DEF Unseen, MemoryKept, Undisturbed

LEMMA RollbackUnseen ==
  ASSUME HistoryInv, NEW r \in Requests,
         NEW label \in {"rejected", "failed", "cancelled"}, Rollback(r, label)
  PROVE  Unseen
<1> USE RequestTypes DEF HistoryInv
<1>1. \A q \in Requests : pc'[q] = IF q = r THEN label ELSE pc[q]
  BY DEF Rollback, Goto, TypeInv, TypeOK
<1>2. \A b \in Batches : InTransaction(b)' => b # r /\ pc'[b] = pc[b] /\ InTransaction(b)
  BY <1>1 DEF InTransaction
<1>3. UNCHANGED <<review, log, daily, input, pos, read, wrote>>
  BY DEF Rollback, DiscardRows
<1>4. \A c \in Cards :
        /\ reviewLock'[c] = IF reviewLock[c] = r THEN NoReq ELSE reviewLock[c]
        /\ reviewNew'[c] = IF reviewLock[c] = r THEN review[c] ELSE reviewNew[c]
  BY DEF Rollback, DiscardRows, ReleaseLocks, TypeInv, TypeOK
<1>5. \A b \in Batches \ {r}, c \in Cards : ReviewSeen(b, c)' = ReviewSeen(b, c)
  BY <1>3, <1>4 DEF ReviewSeen
<1> QED BY <1>2, <1>3, <1>5 DEF Unseen, MemoryKept, Undisturbed

LEMMA UpsertReviewUnseen ==
  ASSUME HistoryInv, NEW a \in Adds, UpsertReview(a)
  PROVE  Unseen
<1> USE RequestTypes DEF HistoryInv
<1>1. PICK c \in Cards :
        /\ ReviewFree(a, c)
        /\ reviewLock' = [reviewLock EXCEPT ![c] = a]
        /\ reviewNew' = [reviewNew EXCEPT ![c] = [@ EXCEPT !.suspended = FALSE, !.buried = FALSE]]
  BY DEF UpsertReview, TypeInv, TypeOK
<1>2. UNCHANGED <<review, log, daily, wrote, input, pos, read>>
  BY DEF UpsertReview, rows
<1>3. \A d \in Cards :
        /\ reviewLock'[d] = IF d = c THEN a ELSE reviewLock[d]
        /\ reviewNew'[d].memory = reviewNew[d].memory
        /\ d = c => reviewLock[d] \in {a, NoReq}
  BY <1>1, ReviewUpdated DEF ReviewFree, TypeInv, TypeOK
<1>4. \A b \in Batches : pc'[b] = pc[b] /\ (InTransaction(b)' <=> InTransaction(b))
  BY DEF UpsertReview, Goto, InTransaction, TypeInv, TypeOK
<1>5. \A b \in Batches, d \in Cards : ReviewSeen(b, d)'.memory = ReviewSeen(b, d).memory
  BY <1>2, <1>3 DEF ReviewSeen, LockInv
<1> QED BY <1>2, <1>4, <1>5 DEF Unseen, MemoryKept, Undisturbed

LEMMA CommitOtherUnseen ==
  ASSUME HistoryInv, NEW r \in Adds \cup Archives,
         CommitRows(r), ReleaseLocks(r), Goto(r, "done"),
         UNCHANGED <<log, daily, wrote, input, pos, read>>
  PROVE  Unseen
<1> USE RequestTypes DEF HistoryInv
<1>1. \A c \in Cards :
        /\ reviewLock'[c] = IF reviewLock[c] = r THEN NoReq ELSE reviewLock[c]
        /\ review'[c] = IF reviewLock[c] = r THEN reviewNew[c] ELSE review[c]
        /\ reviewNew'[c] = reviewNew[c]
  BY CommitRowsSeen DEF TypeInv
<1>2. \A b \in Batches : pc'[b] = pc[b] /\ (InTransaction(b)' <=> InTransaction(b))
  BY DEF Goto, InTransaction, TypeInv, TypeOK
<1>3. \A c \in Cards : review'[c].memory = review[c].memory
  BY <1>1 DEF CountInv, LockInv
<1>4. \A b \in Batches, d \in Cards : ReviewSeen(b, d)'.memory = ReviewSeen(b, d).memory
  BY <1>1, <1>3 DEF ReviewSeen
<1> QED BY <1>2, <1>3, <1>4 DEF Unseen, MemoryKept, Undisturbed

OwnStep(b) ==
  \/ EnsureSettings(b) \/ SelectCard(b) \/ UpdateState(b) \/ UpdateSense(b)
  \/ KeepSense(b) \/ LogAttempt(b) \/ CommitBatch(b)

LEMMA OtherStepsUnseen ==
  ASSUME HistoryInv, [Next]_vars, \A b \in Batches : ~OwnStep(b)
  PROVE  Unseen
<1> USE RequestTypes
<1>1. CASE UNCHANGED vars
  BY <1>1 DEF vars, rows, locks, Unseen, MemoryKept, Undisturbed, InTransaction, ReviewSeen
<1>2. ASSUME NEW b \in Batches, Submit(b) PROVE Unseen
  <2>1. /\ UNCHANGED <<review, reviewNew, reviewLock, log, daily, pos, read, wrote>>
        /\ \A d \in Batches \ {b} : input'[d] = input[d]
        /\ \A q \in Requests \ {b} : pc'[q] = pc[q]
        /\ pc'[b] = "queued"
    BY <1>2 DEF Submit, Goto, rows, locks, HistoryInv, TypeInv, TypeOK
  <2>2. ~InTransaction(b)'
    BY <2>1 DEF InTransaction
  <2> QED BY <2>1, <2>2, QuietUnseen
<1>3. ASSUME NEW r \in Requests, RejectBatch(r) \/ AbortDeadlocked(r) \/ Cancel(r) PROVE Unseen
  BY <1>3, RollbackUnseen DEF RejectBatch, AbortDeadlocked, Cancel
<1>4. ASSUME NEW r \in Requests, Retry(r) PROVE Unseen
  <2>1. /\ UNCHANGED <<review, reviewNew, reviewLock, log, daily, input, pos, read, wrote>>
        /\ \A q \in Requests \ {r} : pc'[q] = pc[q]
        /\ pc'[r] \in {"queued", "idle"}
    BY <1>4 DEF Retry, Goto, rows, locks, HistoryInv, TypeInv, TypeOK
  <2>2. ~InTransaction(r)'
    BY <2>1 DEF InTransaction
  <2> QED BY <2>1, <2>2, QuietUnseen
<1>5. ASSUME NEW a \in Adds, NEW c \in Cards, UpsertSense(a, c) PROVE Unseen
  <2>1. /\ UNCHANGED <<review, reviewNew, reviewLock, log, daily, input, pos, read, wrote>>
        /\ \A q \in Requests \ {a} : pc'[q] = pc[q]
    BY <1>5 DEF UpsertSense, Goto, rows, HistoryInv, TypeInv, TypeOK
  <2> QED BY <2>1, QuietUnseen
<1>6. ASSUME NEW a \in Adds, UpsertReview(a) \/ CommitAdd(a) PROVE Unseen
  BY <1>6, UpsertReviewUnseen, CommitOtherUnseen DEF CommitAdd
<1>7. ASSUME NEW x \in Archives, NEW ids \in SUBSET Cards, CheckArchive(x, ids) PROVE Unseen
  <2>1. /\ UNCHANGED <<review, reviewNew, reviewLock, log, daily, input, pos, read, wrote>>
        /\ \A q \in Requests \ {x} : pc'[q] = pc[q]
    BY <1>7 DEF CheckArchive, Goto, rows, locks, HistoryInv, TypeInv, TypeOK
  <2> QED BY <2>1, QuietUnseen
<1>8. ASSUME NEW x \in Archives, ArchiveRow(x) \/ SkipRow(x) PROVE Unseen
  <2>1. UNCHANGED <<review, reviewNew, reviewLock, log, daily, input, pos, read, wrote, pc>>
    BY <1>8 DEF ArchiveRow, SkipRow, rows, locks
  <2> QED BY <2>1, QuietUnseen
<1>9. ASSUME NEW x \in Archives, CommitArchive(x) PROVE Unseen
  BY <1>9, CommitOtherUnseen DEF CommitArchive
<1> QED BY <1>1, <1>2, <1>3, <1>4, <1>5, <1>6, <1>7, <1>8, <1>9
        DEF Next, BatchStep, AddStep, ArchiveStep, OwnStep

---------------------------------------------------------------------------
Committed == [memory |-> [c \in Cards |-> review[c].memory], log |-> log]
SeenMemory(b) == [c \in Cards |-> ReviewSeen(b, c).memory]
SeenLog(b) == [c \in Cards |-> log[c] + wrote[b].log[c]]

(* How many of its answers a batch has written to the cards. *)
Written(b) == IF pc[b] \in Counting THEN pos[b] ELSE pos[b] - 1

RanUpTo(b) ==
  LET run == Ledger!Run(Committed, input[b]) IN
  /\ SeenMemory(b) = run[Written(b)].memory
  /\ SeenLog(b) = run[pos[b] - 1].log
  /\ pc[b] = "commit" => pos[b] = Len(input[b]) + 1
  /\ pc[b] = "state" => read[b].memory = SeenMemory(b)[BatchCard(b)]

LedgerInv == \A b \in Batches : InTransaction(b) => RanUpTo(b)

LEMMA UndisturbedRun ==
  ASSUME HistoryInv, MemoryKept, NEW b \in Batches, Undisturbed(b), RanUpTo(b)
  PROVE  RanUpTo(b)'
<1>1. Committed' = Committed
  BY DEF Committed, MemoryKept
<1>2. SeenMemory(b)' = SeenMemory(b) /\ SeenLog(b)' = SeenLog(b)
  BY DEF SeenMemory, SeenLog, MemoryKept, Undisturbed
<1>3. Written(b)' = Written(b) /\ BatchCard(b)' = BatchCard(b)
  BY DEF Written, BatchCard, Current, Undisturbed
<1> QED BY <1>1, <1>2, <1>3 DEF RanUpTo, Undisturbed

LEMMA LoggedIsSeen ==
  ASSUME HistoryInv, NEW b \in Batches, LogAttempt(b)
  PROVE  SeenMemory(b)' = SeenMemory(b) /\ SeenLog(b)' = [SeenLog(b) EXCEPT ![BatchCard(b)] = @ + 1]
<1> USE DEF HistoryInv
<1> DEFINE c == BatchCard(b)
           counts == wrote[b].log
           more == wrote'[b].log
<1>1. c \in Cards /\ UNCHANGED <<review, log>>
  BY CurrentType DEF LogAttempt, AtAttempt, rows
<1>2. counts \in [Cards -> Nat] /\ log \in [Cards -> Nat] /\ more = [counts EXCEPT ![c] = @ + 1]
  BY DEF LogAttempt, Tally, TypeInv, TypeOK
<1>3. \A d \in Cards : ReviewSeen(b, d)'.memory = ReviewSeen(b, d).memory
  <2>1. \A d \in Cards :
          /\ reviewLock'[d] = IF d \in Siblings(b) THEN b ELSE reviewLock[d]
          /\ reviewNew'[d].memory = reviewNew[d].memory
          /\ d \in Siblings(b) => reviewLock[d] \in {b, NoReq}
    BY ReviewUpdated DEF LogAttempt, ReviewFree, Siblings, TypeInv, TypeOK
  <2> QED BY <1>1, <2>1 DEF ReviewSeen, LockInv
<1>4. SeenMemory(b)' = SeenMemory(b)
  BY <1>3 DEF SeenMemory
<1>5. SeenLog(b)' = [d \in Cards |-> log[d] + more[d]] /\ SeenLog(b) = [d \in Cards |-> log[d] + counts[d]]
  BY <1>1 DEF SeenLog
<1> HIDE DEF c, counts, more
<1>6. \A d \in Cards : log[d] + more[d] = IF d = c THEN (log[d] + counts[d]) + 1 ELSE log[d] + counts[d]
  BY <1>1, <1>2
<1> QED BY <1>1, <1>4, <1>5, <1>6 DEF c

(* The own steps of a batch, the only one in a transaction. *)
LEMMA OwnStepsLedger ==
  ASSUME HistoryInv, HistoryInv', LedgerInv, NEW b \in Batches, OwnStep(b), ~CommitBatch(b)
  PROVE  LedgerInv'
<1> USE RequestTypes DEF HistoryInv
<1>1. \A d \in Batches : InTransaction(d)' => d = b
  <2>1. InTransaction(b)'
    BY DEF OwnStep, EnsureSettings, SelectCard, UpdateState, UpdateSense, KeepSense, LogAttempt, Goto,
           InTransaction, TypeInv, TypeOK
  <2> QED BY <2>1 DEF LockInv
<1> SUFFICES RanUpTo(b)'
  BY <1>1 DEF LedgerInv
<1>2. UNCHANGED <<review, log, input>>
  BY DEF OwnStep, EnsureSettings, SelectCard, UpdateState, UpdateSense, KeepSense, LogAttempt, rows
<1>3. Committed' = Committed /\ input'[b] = input[b] /\ log \in [Cards -> Nat]
  BY <1>2 DEF Committed, TypeInv, TypeOK
<1> DEFINE run == Ledger!Run(Committed, input[b])
<1>4. Ledger!Run(Committed, input[b])' = run
  BY <1>3 DEF Ledger!Run, Ledger!Answered
<1>5. ASSUME SeenMemory(b)' = run[Written(b)'].memory, SeenLog(b)' = run[pos'[b] - 1].log,
             pc'[b] = "commit" => pos'[b] = Len(input[b]) + 1,
             pc'[b] = "state" => read'[b].memory = SeenMemory(b)'[BatchCard(b)']
      PROVE  RanUpTo(b)'
  BY <1>3, <1>4, <1>5 DEF RanUpTo
<1>6. pc[b] # "queued" => InTransaction(b) /\ RanUpTo(b)
  BY DEF OwnStep, EnsureSettings, SelectCard, UpdateState, UpdateSense, KeepSense, LogAttempt, LedgerInv,
         CommitBatch, InTransaction
<1>7. pc[b] \in AtAttempt => pos[b] \in 1 .. Len(input[b]) /\ BatchCard(b) \in Cards
  BY CurrentType DEF PositionOK, TypeInv
<1>8. pc[b] # "queued" => /\ SeenMemory(b) = run[Written(b)].memory /\ SeenLog(b) = run[pos[b] - 1].log
                          /\ pc[b] = "state" => read[b].memory = SeenMemory(b)[BatchCard(b)]
  BY <1>6 DEF RanUpTo
<1>9. input[b] \in Seq(Attempts) /\ Len(input[b]) \in Nat /\ b \in DOMAIN pc
  BY DEF TypeInv, TypeOK
<1>10. /\ run[0] = Committed
       /\ \A i \in 1 .. Len(input[b]) : run[i] = Ledger!Answered(run[i - 1], input[b][i])
  BY <1>9, RunSteps
<1> HIDE DEF run
<1>11. CASE EnsureSettings(b)
  <2>1. /\ pc'[b] = "select" /\ pos'[b] = 1 /\ wrote'[b] = NothingWrote
        /\ reviewLock' = reviewLock /\ reviewNew' = reviewNew
    BY <1>11 DEF EnsureSettings, Goto, rows, TypeInv, TypeOK
  <2>2. \A c \in Cards : reviewLock[c] # b
    BY <1>11 DEF EnsureSettings, LockInv
  <2>3. \A c \in Cards : ReviewSeen(b, c)' = review[c] /\ log'[c] + wrote'[b].log[c] = log[c]
    BY <1>2, <1>3, <2>1, <2>2 DEF ReviewSeen, NothingWrote
  <2>4. SeenMemory(b)' = [c \in Cards |-> review[c].memory]
    BY <2>3 DEF SeenMemory
  <2>5. SeenLog(b)' = [c \in Cards |-> log[c]]
    BY <2>3 DEF SeenLog
  <2>6. Written(b)' = 0 /\ pos'[b] - 1 = 0
    BY <2>1 DEF Written, Counting
  <2>7. run[0].memory = [c \in Cards |-> review[c].memory] /\ run[0].log = log
    BY <1>10 DEF Committed
  <2>8. log = [c \in Cards |-> log[c]]
    BY <1>3
  <2> QED BY <1>5, <2>1, <2>4, <2>5, <2>6, <2>7, <2>8
<1>12. CASE SelectCard(b)
  <2>1. /\ pc[b] = "select" /\ pc'[b] = "state" /\ UNCHANGED <<pos, wrote, reviewLock, reviewNew, input>>
        /\ read'[b].memory = ReviewSeen(b, BatchCard(b)).memory
    BY <1>12 DEF SelectCard, Goto, rows, locks, TypeInv, TypeOK
  <2>2. SeenMemory(b)' = SeenMemory(b) /\ SeenLog(b)' = SeenLog(b)
    BY <1>2, <2>1 DEF SeenMemory, SeenLog, ReviewSeen
  <2>3. Written(b)' = Written(b) /\ BatchCard(b)' = BatchCard(b)
    BY <2>1 DEF Written, Counting, BatchCard, Current
  <2>4. SeenMemory(b)[BatchCard(b)] = ReviewSeen(b, BatchCard(b)).memory
    BY <1>7, <2>1 DEF SeenMemory, AtAttempt
  <2> QED BY <1>5, <1>8, <2>1, <2>2, <2>3, <2>4
<1>13. CASE UpdateState(b)
  <2> DEFINE c == BatchCard(b)
  <2>1. /\ pc[b] = "state" /\ pc'[b] = "sense" /\ UNCHANGED <<pos, wrote, input, read>>
        /\ c \in Cards /\ pos[b] \in 1 .. Len(input[b])
    BY <1>7, <1>13 DEF UpdateState, Goto, rows, TypeInv, TypeOK, AtAttempt
  <2>2. /\ reviewLock' = [reviewLock EXCEPT ![c] = b]
        /\ reviewNew'[c].memory = After(b)
        /\ \A d \in Cards \ {c} : reviewNew'[d] = reviewNew[d]
    BY <1>13, <2>1 DEF UpdateState, TypeInv, TypeOK
  <2>3. \A d \in Cards : ReviewSeen(b, d)'.memory = IF d = c THEN After(b) ELSE SeenMemory(b)[d]
    BY <1>2, <2>1, <2>2 DEF ReviewSeen, SeenMemory, TypeInv, TypeOK
  <2>4. SeenMemory(b)' = [SeenMemory(b) EXCEPT ![c] = After(b)]
    BY <2>1, <2>3 DEF SeenMemory
  <2>5. After(b) = NextMemory(Migrated(SeenMemory(b)[c]), input[b][pos[b]].rating)
    BY <1>8, <2>1 DEF After, Before, Current
  <2>6. /\ Written(b) = pos[b] - 1 /\ Written(b)' = pos[b] /\ SeenLog(b)' = SeenLog(b)
    BY <1>2, <2>1 DEF Written, Counting, SeenLog
  <2>7. run[pos[b]].memory = [run[pos[b] - 1].memory EXCEPT
          ![c] = NextMemory(Migrated(@), input[b][pos[b]].rating)]
    <3>1. run[pos[b]] = Ledger!Answered(run[pos[b] - 1], input[b][pos[b]])
      BY <1>10, <2>1
    <3>2. Ledger!Answered(run[pos[b] - 1], input[b][pos[b]]).memory =
            [run[pos[b] - 1].memory EXCEPT
               ![input[b][pos[b]].card] =
                  Ledger!NextMemory(Ledger!Migrated(@), input[b][pos[b]].rating)]
      BY DEF Ledger!Answered
    <3>3. c = input[b][pos[b]].card
      BY DEF BatchCard, Current
    <3> QED BY <3>1, <3>2, <3>3, LedgerMemory
  <2> QED BY <1>5, <1>8, <2>1, <2>4, <2>5, <2>6, <2>7
<1>14. CASE UpdateSense(b) \/ KeepSense(b)
  <2>1. /\ pc[b] = "sense" /\ pc'[b] = "log" /\ UNCHANGED <<pos, wrote, reviewLock, reviewNew, input, read>>
    BY <1>14 DEF UpdateSense, KeepSense, Goto, rows, locks, TypeInv, TypeOK
  <2>2. SeenMemory(b)' = SeenMemory(b) /\ SeenLog(b)' = SeenLog(b)
    BY <1>2, <2>1 DEF SeenMemory, SeenLog, ReviewSeen
  <2>3. Written(b)' = Written(b)
    BY <2>1 DEF Written, Counting
  <2> QED BY <1>5, <1>8, <2>1, <2>2, <2>3
<1>15. CASE LogAttempt(b)
  <2> DEFINE c == BatchCard(b)
  <2>1. /\ pc[b] = "log" /\ pos'[b] = pos[b] + 1 /\ c \in Cards /\ pos[b] \in 1 .. Len(input[b])
        /\ pc'[b] = IF pos[b] = Len(input[b]) THEN "commit" ELSE "select"
    BY <1>7, <1>15 DEF LogAttempt, Goto, TypeInv, TypeOK, AtAttempt
  <2>4. SeenMemory(b)' = SeenMemory(b) /\ SeenLog(b)' = [SeenLog(b) EXCEPT ![c] = @ + 1]
    BY <1>15, LoggedIsSeen
  <2>5. Written(b) = pos[b] /\ Written(b)' = pos[b] /\ pos'[b] - 1 = pos[b]
    BY <2>1 DEF Written, Counting
  <2>6. run[pos[b]].log = [run[pos[b] - 1].log EXCEPT ![c] = @ + 1]
    <3>1. run[pos[b]] = Ledger!Answered(run[pos[b] - 1], input[b][pos[b]])
      BY <1>10, <2>1
    <3>2. Ledger!Answered(run[pos[b] - 1], input[b][pos[b]]).log =
            [run[pos[b] - 1].log EXCEPT ![input[b][pos[b]].card] = @ + 1]
      BY DEF Ledger!Answered
    <3>3. c = input[b][pos[b]].card
      BY DEF BatchCard, Current
    <3> QED BY <3>1, <3>2, <3>3
  <2>7. pc'[b] # "state" /\ (pc'[b] = "commit" => pos'[b] = Len(input[b]) + 1)
    BY <2>1
  <2> QED BY <1>5, <1>8, <2>1, <2>4, <2>5, <2>6, <2>7
<1> QED BY <1>11, <1>12, <1>13, <1>14, <1>15 DEF OwnStep

LEMMA LedgerStep == HistoryInv /\ LedgerInv /\ [Next]_vars => LedgerInv'
<1> SUFFICES ASSUME HistoryInv, LedgerInv, [Next]_vars PROVE LedgerInv'
  OBVIOUS
<1>1. HistoryInv'
  BY HistoryStep
<1>2. CASE \A b \in Batches : ~OwnStep(b)
  BY <1>2, OtherStepsUnseen, UndisturbedRun DEF Unseen, Undisturbed, LedgerInv
<1>3. ASSUME NEW b \in Batches, OwnStep(b), ~CommitBatch(b) PROVE LedgerInv'
  BY <1>1, <1>3, OwnStepsLedger
<1>4. ASSUME NEW b \in Batches, CommitBatch(b) PROVE LedgerInv'
  <2>1. \A d \in Batches : d # b => ~InTransaction(d)
    BY <1>4, OneBatch DEF CommitBatch, InTransaction, HistoryInv
  <2>2. \A d \in Batches : ~InTransaction(d)'
    BY <1>4, <2>1, RequestTypes DEF CommitBatch, Goto, InTransaction, HistoryInv, TypeInv, TypeOK
  <2> QED BY <2>2 DEF LedgerInv
<1> QED BY <1>2, <1>3, <1>4

---------------------------------------------------------------------------
(* Every step of the requests is a step of the ledger, or leaves it alone. *)

LEMMA QuietLedger ==
  ASSUME HistoryInv, MemoryKept, input' = input, \A b \in Batches : StatusOf(b)' = StatusOf(b)
  PROVE  UNCHANGED Ledger!vars
  BY DEF Ledger!vars, MemoryKept

LEMMA CommitIsApply ==
  ASSUME HistoryInv, LedgerInv, NEW b \in Batches, CommitBatch(b)
  PROVE  Ledger!Apply(b)
<1> USE RequestTypes DEF HistoryInv
<1> DEFINE run == Ledger!Run(Committed, input[b])
<1>1. pc[b] = "commit" /\ InTransaction(b) /\ pos[b] - 1 = Len(input[b])
      /\ SeenMemory(b) = run[pos[b] - 1].memory /\ SeenLog(b) = run[pos[b] - 1].log
  <2>1. pc[b] = "commit" /\ InTransaction(b)
    BY DEF CommitBatch, InTransaction
  <2>2. RanUpTo(b) /\ Written(b) = pos[b] - 1
    BY <2>1 DEF LedgerInv, Written, Counting
  <2>3. Len(input[b]) \in Nat
    BY DEF TypeInv, TypeOK
  <2> QED BY <2>1, <2>2, <2>3 DEF RanUpTo
<1>2. [c \in Cards |-> review[c].memory]' = SeenMemory(b)
  BY DEF CommitBatch, CommitRows, SeenMemory
<1>3. log' = SeenLog(b)
  BY DEF CommitBatch, SeenLog
<1>4. \A q \in Requests : pc'[q] = IF q = b THEN "done" ELSE pc[q]
  BY DEF CommitBatch, Goto, TypeInv, TypeOK
<1>5. /\ StatusOf(b) = "pending" /\ StatusOf(b)' = "done"
      /\ \A d \in Batches \ {b} : StatusOf(d)' = StatusOf(d)
  BY <1>1, <1>4 DEF StatusOf
<1>6. [d \in Batches |-> StatusOf(d)]' = [[d \in Batches |-> StatusOf(d)] EXCEPT ![b] = "done"]
  BY <1>5
<1>7. input' = input
  BY DEF CommitBatch
<1> QED BY <1>1, <1>2, <1>3, <1>5, <1>6, <1>7 DEF Ledger!Apply, Committed

LEMMA RefuseIsRefuse ==
  ASSUME HistoryInv, NEW r \in Requests, InTransaction(r),
         NEW label \in {"rejected", "failed", "cancelled"}, Rollback(r, label)
  PROVE  [Ledger!Next]_(Ledger!vars)
<1> USE RequestTypes DEF HistoryInv
<1>1. \A q \in Requests : pc'[q] = IF q = r THEN label ELSE pc[q]
  BY DEF Rollback, Goto, TypeInv, TypeOK
<1>2. input' = input /\ MemoryKept
  BY RollbackUnseen DEF Rollback, Unseen
<1>3. \A b \in Batches \ {r} : StatusOf(b)' = StatusOf(b)
  BY <1>1 DEF StatusOf
<1>4. CASE r \in Batches
  <2>1. StatusOf(r) = "pending" /\ StatusOf(r)' = label
    BY <1>1 DEF StatusOf, InTransaction
  <2>2. [b \in Batches |-> StatusOf(b)]' = [[b \in Batches |-> StatusOf(b)] EXCEPT ![r] = label]
    BY <1>3, <2>1
  <2>3. Ledger!Refuse(r)
    BY <1>2, <1>4, <2>1, <2>2 DEF Ledger!Refuse, MemoryKept
  <2> QED BY <1>4, <2>3 DEF Ledger!Next
<1>5. CASE r \notin Batches
  BY <1>2, <1>3, <1>5, QuietLedger
<1> QED BY <1>4, <1>5

LEMMA SubmitIsSubmit ==
  ASSUME HistoryInv, NEW b \in Batches, Submit(b) \/ Retry(b)
  PROVE  Ledger!Submit(b) \/ Ledger!Resubmit(b)
<1> USE RequestTypes DEF HistoryInv
<1>1. \A q \in Requests : pc'[q] = IF q = b THEN "queued" ELSE pc[q]
  BY DEF Submit, Retry, Goto, TypeInv, TypeOK
<1>2. /\ StatusOf(b)' = "pending" /\ StatusOf(b) = pc[b] /\ pc[b] \in {"idle", "failed"}
      /\ \A d \in Batches \ {b} : StatusOf(d)' = StatusOf(d)
  BY <1>1 DEF Submit, Retry, StatusOf
<1>3. [d \in Batches |-> StatusOf(d)]' = [[d \in Batches |-> StatusOf(d)] EXCEPT ![b] = "pending"]
  BY <1>2
<1>4. UNCHANGED <<review, log>>
  BY DEF Submit, Retry, rows
<1>5. CASE Submit(b)
  BY <1>2, <1>3, <1>4, <1>5 DEF Submit, Ledger!Submit
<1>6. CASE Retry(b)
  BY <1>2, <1>3, <1>4, <1>6 DEF Retry, Ledger!Resubmit
<1> QED BY <1>5, <1>6

(* A batch that goes on, or a step of an add or an archive. *)
LEMMA PendingStays ==
  ASSUME HistoryInv, NEW r \in Requests, MemoryKept, input' = input,
         \A q \in Requests \ {r} : pc'[q] = pc[q],
         r \in Batches => StatusOf(r) = "pending" /\ StatusOf(r)' = "pending"
  PROVE  UNCHANGED Ledger!vars
<1>1. \A b \in Batches : StatusOf(b)' = StatusOf(b)
  BY RequestTypes DEF StatusOf
<1> QED BY <1>1, QuietLedger

LEMMA LedgerNext ==
  ASSUME HistoryInv, LedgerInv, [Next]_vars
  PROVE  [Ledger!Next]_(Ledger!vars)
<1> USE RequestTypes
<1>1. CASE UNCHANGED vars
  BY <1>1 DEF vars, rows, StatusOf, Ledger!vars
<1>2. ASSUME NEW b \in Batches, Submit(b) \/ Retry(b) PROVE Ledger!Next
  BY <1>2, SubmitIsSubmit DEF Ledger!Next
<1>3. ASSUME NEW b \in Batches, CommitBatch(b) PROVE Ledger!Next
  BY <1>3, CommitIsApply DEF Ledger!Next
<1>4. ASSUME NEW r \in Requests, AbortDeadlocked(r) \/ Cancel(r) PROVE [Ledger!Next]_(Ledger!vars)
  BY <1>4, RefuseIsRefuse DEF AbortDeadlocked, Cancel
<1>5. ASSUME NEW b \in Batches, RejectBatch(b) PROVE [Ledger!Next]_(Ledger!vars)
  BY <1>5, RefuseIsRefuse DEF RejectBatch, InTransaction
<1>6. ASSUME NEW b \in Batches, OwnStep(b), ~CommitBatch(b) PROVE UNCHANGED Ledger!vars
  <2>1. MemoryKept /\ input' = input
    BY <1>6 DEF OwnStep, EnsureSettings, SelectCard, UpdateState, UpdateSense, KeepSense, LogAttempt,
                rows, MemoryKept
  <2>2. \A q \in Requests \ {b} : pc'[q] = pc[q]
    BY <1>6 DEF OwnStep, EnsureSettings, SelectCard, UpdateState, UpdateSense, KeepSense, LogAttempt,
                Goto, HistoryInv, TypeInv, TypeOK
  <2>3. /\ pc[b] \in {"queued", "select", "state", "sense", "log"}
        /\ pc'[b] \in {"select", "state", "sense", "log", "commit"}
    BY <1>6 DEF OwnStep, EnsureSettings, SelectCard, UpdateState, UpdateSense, KeepSense, LogAttempt,
                Goto, HistoryInv, TypeInv, TypeOK
  <2>4. StatusOf(b) = "pending" /\ StatusOf(b)' = "pending"
    BY <2>3 DEF StatusOf
  <2> QED BY <2>1, <2>2, <2>4, PendingStays
<1>7. ASSUME NEW r \in Adds \cup Archives, Next, \A b \in Batches : ~OwnStep(b), input' = input,
             \A q \in Requests \ {r} : pc'[q] = pc[q]
      PROVE  UNCHANGED Ledger!vars
  BY <1>7, OtherStepsUnseen, PendingStays DEF Unseen
<1>8. ASSUME NEW r \in Adds \cup Archives,
             \/ \E c \in Cards : UpsertSense(r, c)
             \/ AddStep(r) \/ Retry(r) \/ ArchiveStep(r)
             \/ \E ids \in (SUBSET Cards) \ {{}} : CheckArchive(r, ids)
      PROVE  input' = input /\ \A q \in Requests \ {r} : pc'[q] = pc[q]
  BY <1>8 DEF UpsertSense, AddStep, UpsertReview, CommitAdd, Retry, ArchiveStep, ArchiveRow, SkipRow,
              CommitArchive, CheckArchive, Goto, HistoryInv, TypeInv, TypeOK
<1>9. CASE \E b \in Batches : OwnStep(b)
  BY <1>3, <1>6, <1>9
<1>10. CASE Next /\ ~\E b \in Batches : OwnStep(b)
  BY <1>2, <1>4, <1>5, <1>7, <1>8, <1>10 DEF Next, BatchStep, OwnStep, Requests
<1> QED BY <1>1, <1>9, <1>10

(* Every interleaving of batches with adds, archives, deadlocks and lost   *)
(* requests leaves cards, attempts and answers as if the batches had run   *)
(* one after the other, each as a whole or not at all.                     *)
THEOREM BatchesAreSerial == Spec => ImplementsLedger
<1>1. Init => HistoryInv /\ LedgerInv
  BY InitHistory, RequestTypes DEF Init, LedgerInv, InTransaction
<1>2. Init => Ledger!Init
  <2> SUFFICES ASSUME Init PROVE Ledger!Init
    OBVIOUS
  <2>1. [c \in Cards |-> review[c].memory] = [c \in Cards |-> Seeded[c].review.memory]
    BY DEF Init
  <2>2. [b \in Batches |-> StatusOf(b)] = [b \in Batches |-> "idle"]
    BY RequestTypes DEF Init, StatusOf
  <2> QED BY <2>1, <2>2 DEF Init, Ledger!Init
<1>3. HistoryInv /\ LedgerInv /\ [Next]_vars => (HistoryInv /\ LedgerInv)'
  BY HistoryStep, LedgerStep
<1>4. HistoryInv /\ LedgerInv /\ [Next]_vars => [Ledger!Next]_(Ledger!vars)
  BY LedgerNext
<1> QED BY <1>1, <1>2, <1>3, <1>4, PTL DEF Spec, ImplementsLedger, Ledger!Spec

---------------------------------------------------------------------------
(* Today's counts.  The counts a batch would commit match the attempts it  *)
(* would commit; a card that was never reviewed is New, so that the state  *)
(* a batch read tells whether the attempt is the card's first.             *)

CountedBy(counts, new, reviews) ==
  /\ new = Cardinality(FirstReviewed(counts))
  /\ IsFiniteSet(AttemptsSince(counts)) /\ new + reviews = Cardinality(AttemptsSince(counts))

Unreviewed(m) == m.reviews = 0 => m.state = "New"

Tallied(b) ==
  /\ CountedBy(SeenLog(b), daily.new + wrote[b].new, daily.reviews + wrote[b].reviews)
  /\ \A c \in Cards : Unreviewed(SeenMemory(b)[c])
  /\ pc[b] \in {"state", "sense", "log"} =>
       read[b].memory.reviews = SeenLog(b)[BatchCard(b)] /\ Unreviewed(read[b].memory)

DailyInv ==
  /\ CountedBy(log, daily.new, daily.reviews)
  /\ \A c \in Cards : log[c] >= StartedAt(c) /\ Unreviewed(review[c].memory)
  /\ \A b \in Batches : InTransaction(b) => Tallied(b)

LEMMA StartedType == ASSUME NEW c \in Cards
                     PROVE  StartedAt(c) \in Nat /\ Unreviewed(Seeded[c].review.memory)
<1>1. Seeded[c].review \in Reviews
  BY StoreAssumption
<1>2. Seeded[c].review.memory.reviews = 0 => Seeded[c].review.memory = FreshMemory
  BY StoreAssumption
<1> QED BY <1>1, <1>2 DEF StartedAt, Reviews, Memory, Unreviewed, FreshMemory

LEMMA DailyInit == Init => DailyInv
<1> SUFFICES ASSUME Init PROVE DailyInv
  OBVIOUS
<1>1. log = [c \in Cards |-> StartedAt(c)] /\ daily = [new |-> 0, reviews |-> 0]
  BY DEF Init, StartedAt
<1>2. FirstReviewed(log) = {}
  BY <1>1, StartedType DEF FirstReviewed
<1>3. AttemptsSince(log) = {}
  <2>1. \A c \in Cards : StartedAt(c) + 1 .. log[c] = {}
    <3> SUFFICES ASSUME NEW c \in Cards PROVE StartedAt(c) + 1 .. StartedAt(c) = {}
      BY <1>1
    <3> QED BY StartedType
  <2> QED BY <2>1 DEF AttemptsSince
<1>4. CountedBy(log, daily.new, daily.reviews)
  BY <1>1, <1>2, <1>3, FS_EmptySet DEF CountedBy
<1>5. \A c \in Cards : log[c] >= StartedAt(c) /\ Unreviewed(review[c].memory)
  BY <1>1, StartedType DEF Init
<1>6. \A b \in Batches : ~InTransaction(b)
  BY RequestTypes DEF Init, InTransaction
<1> QED BY <1>4, <1>5, <1>6 DEF DailyInv

(* One attempt more. *)
LEMMA OneMoreCounted ==
  ASSUME NEW counts \in [Cards -> Nat], NEW new \in Nat, NEW reviews \in Nat,
         CountedBy(counts, new, reviews), NEW c \in Cards, counts[c] >= StartedAt(c),
         NEW m \in Nat, NEW n \in Nat, m + n = 1, m = 1 <=> counts[c] = 0
  PROVE  CountedBy([counts EXCEPT ![c] = @ + 1], new + m, reviews + n)
<1> DEFINE more == [counts EXCEPT ![c] = @ + 1]
<1>1. more \in [Cards -> Nat] /\ more[c] = counts[c] + 1 /\ \A d \in Cards \ {c} : more[d] = counts[d]
  OBVIOUS
<1>2. StartedAt(c) \in Nat /\ counts[c] \in Nat
  BY StartedType
<1> HIDE DEF more
<1>3. AttemptsSince(more) = AttemptsSince(counts) \cup {<<c, more[c]>>}
  <2>1. StartedAt(c) + 1 .. more[c] = (StartedAt(c) + 1 .. counts[c]) \cup {more[c]}
    BY <1>1, <1>2
  <2>2. \A d \in Cards \ {c} : {d} \X (StartedAt(d) + 1 .. more[d]) = {d} \X (StartedAt(d) + 1 .. counts[d])
    BY <1>1
  <2>3. {c} \X (StartedAt(c) + 1 .. more[c]) = ({c} \X (StartedAt(c) + 1 .. counts[c])) \cup {<<c, more[c]>>}
    BY <2>1
  <2> QED BY <2>2, <2>3 DEF AttemptsSince
<1>4. <<c, more[c]>> \notin AttemptsSince(counts)
  <2>1. more[c] \notin StartedAt(c) + 1 .. counts[c]
    BY <1>1, <1>2
  <2> QED BY <2>1 DEF AttemptsSince
<1>5. /\ IsFiniteSet(AttemptsSince(more))
      /\ Cardinality(AttemptsSince(more)) = Cardinality(AttemptsSince(counts)) + 1
  <2>1. IsFiniteSet(AttemptsSince(counts))
    BY DEF CountedBy
  <2> DEFINE S == AttemptsSince(counts)
  <2>2. IsFiniteSet(S) /\ <<c, more[c]>> \notin S /\ AttemptsSince(more) = S \cup {<<c, more[c]>>}
    BY <1>3, <1>4, <2>1
  <2> HIDE DEF S
  <2>3. /\ IsFiniteSet(S \cup {<<c, more[c]>>})
        /\ Cardinality(S \cup {<<c, more[c]>>}) = Cardinality(S) + 1
    BY <2>2, FS_AddElement
  <2> QED BY <2>2, <2>3 DEF S
<1>6. (new + m) + (reviews + n) = Cardinality(AttemptsSince(more))
  BY <1>5 DEF CountedBy
<1>7. new + m = Cardinality(FirstReviewed(more))
  <2>1. IsFiniteSet(FirstReviewed(counts))
    BY StoreAssumption, FS_Subset DEF FirstReviewed
  <2>2. CASE counts[c] = 0
    <3>1. StartedAt(c) = 0 /\ more[c] > 0 /\ ~(counts[c] > 0)
      BY <1>1, <1>2, <2>2
    <3>2. FirstReviewed(more) = FirstReviewed(counts) \cup {c} /\ c \notin FirstReviewed(counts)
      BY <1>1, <3>1 DEF FirstReviewed
    <3>3. Cardinality(FirstReviewed(more)) = Cardinality(FirstReviewed(counts)) + 1
      BY <2>1, <3>2, FS_AddElement
    <3> QED BY <2>2, <3>3 DEF CountedBy
  <2>3. CASE counts[c] # 0
    <3>1. more[c] > 0 /\ counts[c] > 0 /\ m = 0
      BY <1>1, <1>2, <2>3
    <3>2. FirstReviewed(more) = FirstReviewed(counts)
      BY <1>1, <3>1 DEF FirstReviewed
    <3> QED BY <3>1, <3>2 DEF CountedBy
  <2> QED BY <2>2, <2>3
<1> QED BY <1>5, <1>6, <1>7 DEF CountedBy, more

LEMMA MigratedNew ==
  ASSUME NEW memory \in Memory, Unreviewed(memory)
  PROVE  Migrated(memory).state = "New" <=> memory.reviews = 0
<1>1. memory.reviews \in Nat /\ DOMAIN memory = {"state", "remaining", "reviews", "lapses"}
  BY DEF Memory
<1>2. CASE memory.reviews = 0
  <2>1. Migrated(memory) = memory
    BY <1>2 DEF Migrated
  <2> QED BY <1>2, <2>1 DEF Unreviewed
<1>3. CASE memory.reviews # 0 /\ memory.state = "New"
  <2>1. memory.reviews > 0
    BY <1>1, <1>3
  <2>2. Migrated(memory) = [memory EXCEPT !.state = "Review"]
    BY <1>3, <2>1 DEF Migrated
  <2>3. Migrated(memory).state = "Review"
    BY <1>1, <2>2
  <2> QED BY <1>3, <2>3
<1>4. CASE memory.reviews # 0 /\ memory.state # "New"
  BY <1>4 DEF Migrated
<1> QED BY <1>2, <1>3, <1>4

LEMMA SeenTypes ==
  ASSUME HistoryInv, NEW b \in Batches
  PROVE  /\ SeenLog(b) \in [Cards -> Nat] /\ log \in [Cards -> Nat]
         /\ \A c \in Cards : /\ SeenMemory(b)[c] \in Memory /\ SeenMemory(b)[c] = ReviewSeen(b, c).memory
                             /\ SeenLog(b)[c] >= log[c]
         /\ wrote[b].new \in Nat /\ wrote[b].reviews \in Nat
         /\ daily.new \in Nat /\ daily.reviews \in Nat
<1>1. \A c \in Cards : wrote[b].log[c] \in Nat /\ log[c] \in Nat
  BY DEF HistoryInv, TypeInv, TypeOK
<1>2. \A c \in Cards : ReviewSeen(b, c) \in Reviews
  BY DEF HistoryInv, TypeInv, TypeOK, ReviewSeen
<1> QED BY <1>1, <1>2 DEF HistoryInv, TypeInv, TypeOK, SeenLog, SeenMemory, Reviews

LEMMA UndisturbedTally ==
  ASSUME HistoryInv, MemoryKept, NEW b \in Batches, Undisturbed(b), Tallied(b)
  PROVE  Tallied(b)'
<1>1. SeenMemory(b)' = SeenMemory(b) /\ SeenLog(b)' = SeenLog(b)
  BY DEF SeenMemory, SeenLog, MemoryKept, Undisturbed
<1>2. BatchCard(b)' = BatchCard(b)
  BY DEF BatchCard, Current, Undisturbed
<1>3. CountedBy(SeenLog(b), daily.new + wrote[b].new, daily.reviews + wrote[b].reviews)'
  BY <1>1 DEF Tallied, MemoryKept, Undisturbed, CountedBy, FirstReviewed, AttemptsSince
<1> QED BY <1>1, <1>2, <1>3 DEF Tallied, Undisturbed, Unreviewed

LEMMA OwnStepsDaily ==
  ASSUME HistoryInv, HistoryInv', DailyInv, NEW b \in Batches, OwnStep(b), ~CommitBatch(b)
  PROVE  DailyInv'
<1> USE RequestTypes
<1>1. /\ \A d \in Batches : InTransaction(d)' => d = b
      /\ pc[b] # "queued" => InTransaction(b)
  <2>1. InTransaction(b)' /\ (pc[b] # "queued" => InTransaction(b))
    BY DEF OwnStep, EnsureSettings, SelectCard, UpdateState, UpdateSense, KeepSense, LogAttempt,
           CommitBatch, Goto, InTransaction, HistoryInv, TypeInv, TypeOK
  <2> QED BY <2>1 DEF HistoryInv, LockInv
<1>2. UNCHANGED <<review, log, daily, input>>
  BY DEF OwnStep, EnsureSettings, SelectCard, UpdateState, UpdateSense, KeepSense, LogAttempt, rows
<1> SUFFICES Tallied(b)'
  BY <1>1, <1>2 DEF DailyInv, CountedBy, FirstReviewed, AttemptsSince
<1>3. pc[b] # "queued" => Tallied(b)
  BY <1>1 DEF DailyInv
<1> DEFINE new == daily.new + wrote[b].new
           reviews == daily.reviews + wrote[b].reviews
           c == BatchCard(b)
<1>4. ASSUME CountedBy(SeenLog(b)', daily.new + wrote'[b].new, daily.reviews + wrote'[b].reviews),
             \A d \in Cards : Unreviewed(SeenMemory(b)'[d]),
             pc'[b] \in {"state", "sense", "log"} =>
               read'[b].memory.reviews = SeenLog(b)'[BatchCard(b)'] /\ Unreviewed(read'[b].memory)
      PROVE  Tallied(b)'
  BY <1>2, <1>4 DEF Tallied
<1>5. pc[b] \in AtAttempt => c \in Cards
  BY CurrentType DEF HistoryInv
<1>6. CASE EnsureSettings(b)
  <2>1. /\ pc'[b] = "select" /\ wrote'[b] = NothingWrote /\ reviewLock' = reviewLock /\ reviewNew' = reviewNew
    BY <1>6 DEF EnsureSettings, Goto, rows, HistoryInv, TypeInv, TypeOK
  <2>2. \A d \in Cards : reviewLock[d] # b
    BY <1>6 DEF EnsureSettings, HistoryInv, LockInv
  <2>3. \A d \in Cards : ReviewSeen(b, d)' = review[d] /\ log[d] + wrote'[b].log[d] = log[d]
    BY <1>2, <2>1, <2>2, SeenTypes DEF ReviewSeen, NothingWrote
  <2>4. \A d \in Cards : SeenMemory(b)'[d] = review[d].memory
    BY <2>3 DEF SeenMemory
  <2>5. SeenLog(b)' = [d \in Cards |-> log[d]]
    BY <1>2, <2>3 DEF SeenLog
  <2>6. SeenLog(b)' = log
    BY <2>5, SeenTypes
  <2>7. daily.new + wrote'[b].new = daily.new /\ daily.reviews + wrote'[b].reviews = daily.reviews
    BY <2>1, SeenTypes DEF NothingWrote
  <2> QED BY <1>4, <2>1, <2>4, <2>6, <2>7 DEF DailyInv
<1>7. CASE SelectCard(b)
  <2>1. /\ pc[b] = "select" /\ pc'[b] = "state" /\ UNCHANGED <<pos, wrote, reviewLock, reviewNew, input>>
        /\ read'[b].memory = ReviewSeen(b, c).memory
    BY <1>7 DEF SelectCard, Goto, rows, locks, HistoryInv, TypeInv, TypeOK
  <2>2. SeenMemory(b)' = SeenMemory(b) /\ SeenLog(b)' = SeenLog(b) /\ BatchCard(b)' = c
    BY <1>2, <2>1 DEF SeenMemory, SeenLog, ReviewSeen, BatchCard, Current
  <2>3. c \in Cards /\ InTransaction(b)
    BY <1>1, <1>5, <2>1 DEF AtAttempt
  <2>4. ReviewSeen(b, c).memory.reviews = SeenLog(b)[c]
    <3>1. ReviewSeen(b, c).memory.reviews = log[c] + Pending(b, c)
      BY <2>3 DEF HistoryInv, CountInv
    <3>2. Pending(b, c) = wrote[b].log[c]
      BY <2>1, <2>3, LogType DEF Pending, Counting, HistoryInv, TypeInv
    <3> QED BY <2>3, <3>1, <3>2 DEF SeenLog
  <2> QED BY <1>3, <1>4, <2>1, <2>2, <2>3, <2>4, SeenTypes DEF Tallied
<1>8. CASE UpdateState(b)
  <2>1. /\ pc[b] = "state" /\ pc'[b] = "sense" /\ UNCHANGED <<pos, wrote, input, read>> /\ c \in Cards
    BY <1>5, <1>8 DEF UpdateState, Goto, rows, HistoryInv, TypeInv, TypeOK, AtAttempt
  <2>2. /\ reviewLock' = [reviewLock EXCEPT ![c] = b]
        /\ reviewNew'[c].memory = After(b)
        /\ \A d \in Cards \ {c} : reviewNew'[d] = reviewNew[d]
    BY <1>8, <2>1 DEF UpdateState, HistoryInv, TypeInv, TypeOK
  <2>3. \A d \in Cards : SeenMemory(b)'[d] = IF d = c THEN After(b) ELSE SeenMemory(b)[d]
    BY <1>2, <2>1, <2>2 DEF ReviewSeen, SeenMemory, HistoryInv, TypeInv, TypeOK
  <2>4. Unreviewed(After(b))
    <3>1. After(b).reviews = read[b].memory.reviews + 1 /\ read[b].memory \in Memory
      BY <2>1, AfterType DEF HistoryInv, TypeInv, TypeOK, AtAttempt
    <3>2. read[b].memory.reviews \in Nat
      BY <3>1 DEF Memory
    <3> QED BY <3>1, <3>2 DEF Unreviewed
  <2>5. SeenLog(b)' = SeenLog(b) /\ BatchCard(b)' = c
    BY <1>2, <2>1 DEF SeenLog, BatchCard, Current
  <2> QED BY <1>3, <1>4, <2>1, <2>3, <2>4, <2>5 DEF Tallied
<1>9. CASE UpdateSense(b) \/ KeepSense(b)
  <2>1. /\ pc[b] = "sense" /\ pc'[b] = "log" /\ UNCHANGED <<pos, wrote, reviewLock, reviewNew, input, read>>
    BY <1>9 DEF UpdateSense, KeepSense, Goto, rows, locks, HistoryInv, TypeInv, TypeOK
  <2>2. SeenMemory(b)' = SeenMemory(b) /\ SeenLog(b)' = SeenLog(b) /\ BatchCard(b)' = c
    BY <1>2, <2>1 DEF SeenMemory, SeenLog, ReviewSeen, BatchCard, Current
  <2> QED BY <1>3, <1>4, <2>1, <2>2 DEF Tallied
<1>10. CASE LogAttempt(b)
  <2> DEFINE m == IF Before(b).state = "New" THEN 1 ELSE 0
             n == 1 - m
  <2>1. /\ pc[b] = "log" /\ pc'[b] \in {"select", "commit"} /\ c \in Cards
    BY <1>5, <1>10 DEF LogAttempt, Goto, HistoryInv, TypeInv, TypeOK, AtAttempt
  <2>2. wrote'[b].new = wrote[b].new + m /\ wrote'[b].reviews = wrote[b].reviews + n
    BY <1>10 DEF LogAttempt, Tally, HistoryInv, TypeInv, TypeOK
  <2>3. SeenMemory(b)' = SeenMemory(b) /\ SeenLog(b)' = [SeenLog(b) EXCEPT ![c] = @ + 1]
    BY <1>10, LoggedIsSeen
  <2>4. Before(b).state = "New" <=> SeenLog(b)[c] = 0
    <3>1. read[b].memory.reviews = SeenLog(b)[c] /\ Unreviewed(read[b].memory)
      BY <1>3, <2>1 DEF Tallied
    <3>2. SeenLog(b)[c] \in Nat
      BY <2>1, SeenTypes
    <3>3. read[b].memory \in Memory
      BY DEF HistoryInv, TypeInv, TypeOK
    <3> QED BY <3>1, <3>3, MigratedNew DEF Before
  <2>5. m \in Nat /\ n \in Nat /\ m + n = 1 /\ (m = 1 <=> SeenLog(b)[c] = 0)
    BY <2>4
  <2>6. SeenLog(b)[c] >= StartedAt(c) /\ SeenLog(b) \in [Cards -> Nat] /\ new \in Nat /\ reviews \in Nat
    <3>1. SeenLog(b)[c] >= log[c] /\ log[c] >= StartedAt(c)
      BY <2>1, SeenTypes DEF DailyInv
    <3> QED BY <2>1, <3>1, SeenTypes, StartedType
  <2>7. CountedBy(SeenLog(b), new, reviews)
    BY <1>3, <2>1 DEF Tallied
  <2> HIDE DEF m, n, new, reviews
  <2>8. CountedBy(SeenLog(b)', new + m, reviews + n)
    <3> DEFINE seen == SeenLog(b)
    <3>1. /\ c \in Cards /\ SeenLog(b)' = [seen EXCEPT ![c] = @ + 1] /\ (m = 1 <=> seen[c] = 0)
          /\ seen[c] >= StartedAt(c) /\ seen \in [Cards -> Nat] /\ CountedBy(seen, new, reviews)
      BY <2>1, <2>3, <2>5, <2>6, <2>7
    <3> HIDE DEF seen, c
    <3>2. CountedBy([seen EXCEPT ![c] = @ + 1], new + m, reviews + n)
      BY <2>5, <2>6, <3>1, OneMoreCounted
    <3> QED BY <3>1, <3>2
  <2>9. daily.new + wrote'[b].new = new + m /\ daily.reviews + wrote'[b].reviews = reviews + n
    BY <2>2, <2>5, SeenTypes DEF new, reviews
  <2> QED BY <1>3, <1>4, <2>1, <2>3, <2>8, <2>9 DEF Tallied
<1> QED BY <1>6, <1>7, <1>8, <1>9, <1>10 DEF OwnStep

LEMMA CommitDaily ==
  ASSUME HistoryInv, DailyInv, NEW b \in Batches, CommitBatch(b)
  PROVE  DailyInv'
<1> USE RequestTypes
<1>1. pc[b] = "commit" /\ InTransaction(b)
  BY DEF CommitBatch, InTransaction
<1>2. \A d \in Batches : ~InTransaction(d)'
  <2>1. \A d \in Batches : d # b => ~InTransaction(d)
    BY <1>1, OneBatch DEF HistoryInv
  <2> QED BY <2>1 DEF CommitBatch, Goto, InTransaction, HistoryInv, TypeInv, TypeOK
<1>3. log' = SeenLog(b) /\ \A c \in Cards : review'[c].memory = SeenMemory(b)[c]
  BY DEF CommitBatch, CommitRows, SeenLog, SeenMemory
<1>4. daily'.new = daily.new + wrote[b].new /\ daily'.reviews = daily.reviews + wrote[b].reviews
  BY DEF CommitBatch
<1>5. Tallied(b)
  BY <1>1 DEF DailyInv
<1>6. CountedBy(log', daily'.new, daily'.reviews)
  BY <1>3, <1>4, <1>5 DEF Tallied
<1>7. \A c \in Cards : log'[c] >= StartedAt(c)
  <2> SUFFICES ASSUME NEW c \in Cards PROVE log'[c] >= StartedAt(c)
    OBVIOUS
  <2>1. SeenLog(b)[c] >= log[c] /\ log[c] >= StartedAt(c) /\ SeenLog(b)[c] \in Nat /\ log[c] \in Nat
    BY SeenTypes DEF DailyInv
  <2> QED BY <1>3, <2>1, StartedType
<1> QED BY <1>2, <1>3, <1>5, <1>6, <1>7 DEF DailyInv, Tallied

LEMMA DailyStep == HistoryInv /\ DailyInv /\ [Next]_vars => DailyInv'
<1> SUFFICES ASSUME HistoryInv, DailyInv, [Next]_vars PROVE DailyInv'
  OBVIOUS
<1>1. HistoryInv'
  BY HistoryStep
<1>2. CASE \A b \in Batches : ~OwnStep(b)
  <2>1. MemoryKept /\ \A b \in Batches : InTransaction(b)' => Undisturbed(b)
    BY <1>2, OtherStepsUnseen DEF Unseen
  <2>2. \A b \in Batches : InTransaction(b)' => Tallied(b)'
    BY <2>1, UndisturbedTally DEF DailyInv, Undisturbed
  <2> QED BY <2>1, <2>2 DEF DailyInv, MemoryKept, CountedBy, FirstReviewed, AttemptsSince
<1>3. ASSUME NEW b \in Batches, OwnStep(b) PROVE DailyInv'
  BY <1>1, <1>3, OwnStepsDaily, CommitDaily
<1> QED BY <1>2, <1>3

(* Today's counts tell the attempts recorded: one of them is a first review *)
(* for each card that had none, and the others are reviews.                *)
THEOREM CountsTellAttempts == Spec => []DailyCountsMatchHistory
<1>1. HistoryInv /\ DailyInv => DailyCountsMatchHistory
  BY DEF DailyInv, CountedBy, DailyCountsMatchHistory
<1>2. Init => HistoryInv /\ DailyInv
  BY InitHistory, DailyInit
<1>3. HistoryInv /\ DailyInv /\ [Next]_vars => (HistoryInv /\ DailyInv)'
  BY HistoryStep, DailyStep
<1> QED BY <1>1, <1>2, <1>3, PTL DEF Spec
===============================================================================
