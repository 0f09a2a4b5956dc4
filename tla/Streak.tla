-------------------------------- MODULE Streak --------------------------------
(***************************************************************************)
(* A user's review streak (backend/internal/words/streak.go): the row of   *)
(* user_streaks, written by review batches, by every read of statistics    *)
(* and by changes of vacation mode or streak freezes.  Each of them reads  *)
(* the row, computes in Go and writes it back in a later statement; only   *)
(* batches exclude each other, by the lock on the user's settings row.     *)
(***************************************************************************)
EXTENDS Integers, FiniteSets

CONSTANTS
  StreakBatches,   \* requests that record reviews
  StreakReads,     \* requests that read or change the streak's settings
  LastDay,         \* bound: the days the clock runs through
  FreezeTokens,    \* defaultStreakFreezeTokens
  VacationDays     \* the longest vacation a user asks for

ASSUME StreakAssumption ==
  /\ LastDay \in Nat \ {0, 1}
  /\ FreezeTokens \in Nat
  /\ VacationDays \in Nat
  /\ StreakBatches \cap StreakReads = {}

VARIABLES
  today,       \* the UTC day
  reviewDays,  \* days with a committed review attempt
  paidDays,    \* history: missed days a freeze or a vacation paid for
  stored,      \* the user has a row in user_streaks
  streak,      \* that row; day 0 stands for null
  job          \* each request: where it is and what it read

streakVars == <<today, reviewDays, paidDays, stored, streak, job>>

Days == 1 .. LastDay
StreakRequests == StreakBatches \cup StreakReads
Wishes == {"vacation", "freeze"}

(* UserStreak. *)
StreakRow ==
  [current : Nat, longest : Nat, last : Nat, tokens : 0 .. FreezeTokens, until : Nat]

NewStreak == [current |-> 0, longest |-> 0, last |-> 0, tokens |-> FreezeTokens, until |-> 0]

StreakSteps ==
  {"idle", "lock", "select", "bootstrap", "write", "persist", "change", "save"}

StreakJob ==
  [at : StreakSteps, day : Nat, mine : StreakRow, create : BOOLEAN, wish : SUBSET Wishes]
IdleJob == [at |-> "idle", day |-> 0, mine |-> NewStreak, create |-> FALSE, wish |-> {}]

StreakTypeOK ==
  /\ today \in Days
  /\ reviewDays \subseteq Days
  /\ paidDays \subseteq Days
  /\ stored \in BOOLEAN
  /\ streak \in StreakRow
  /\ job \in [StreakRequests -> StreakJob]

Latest(days) == IF days = {} THEN 0 ELSE CHOOSE d \in days : \A e \in days : e <= d

(* computeReviewStreakDays: the days reviewed in a row, up to today or     *)
(* yesterday.                                                              *)
RunOfDays(days, day) ==
  {d \in days : Latest(days) >= day - 1 /\ d .. Latest(days) \subseteq days}

Bootstrapped(days, day) ==
  LET run == Cardinality(RunOfDays(days, day)) IN
  [NewStreak EXCEPT !.current = run, !.longest = run, !.last = Latest(days)]

OnVacation(s, day) == s.until >= day

(* reconcileMissedDays. *)
Reconciled(s, day) ==
  IF s.last = 0 \/ (~OnVacation(s, day) /\ day > s.last + 2)
  THEN [s EXCEPT !.current = 0] ELSE s

BuysMissedDay(s, day) == s.last > 0 /\ day = s.last + 2 /\ s.tokens > 0

KeepsStreak(s, day) ==
  /\ s.last > 0
  /\ \/ day = s.last + 1
     \/ BuysMissedDay(s, day)
     \/ day >= s.last + 2 /\ OnVacation(s, day)

(* Mutant: a batch dated before the last review counts as one day more.    *)
AfterReviewLate(s, day) ==
  IF day = s.last THEN s
  ELSE [s EXCEPT !.current = IF KeepsStreak(s, day) \/ day < s.last THEN @ + 1 ELSE 1, !.last = day]

(* applyReviewToStreak; a batch dated before the last review changes nothing. *)
AfterReview(s, day) ==
  LET days == IF KeepsStreak(s, day) THEN s.current + 1 ELSE 1 IN
  IF s.last > 0 /\ day <= s.last THEN s
  ELSE [s EXCEPT !.current = days,
                 !.longest = IF days > @ THEN days ELSE @,
                 !.last = day,
                 !.tokens = IF BuysMissedDay(s, day) THEN @ - 1 ELSE @]

(* applyStreakFreeze. *)
MayFreeze(s, day) ==
  s.tokens > 0 /\ s.last > 0 /\ ~OnVacation(s, day) /\ day = s.last + 2

Frozen(s, day) == [s EXCEPT !.tokens = @ - 1, !.last = day - 1]
-----------------------------------------------------------------------------
StreakInit ==
  /\ today = 2
  /\ reviewDays \in SUBSET {1, 2}      \* reviews from before the table existed
  /\ paidDays = {}
  /\ stored = FALSE
  /\ streak = NewStreak
  /\ job = [q \in StreakRequests |-> IdleJob]

At(q, step) == job[q].at = step
JobAt(q, step) == [job[q] EXCEPT !.at = step]
Goto(q, step) == job' = [job EXCEPT ![q] = JobAt(q, step)]
End(q) == job' = [job EXCEPT ![q] = IdleJob]

(* A batch takes its date before it waits for the settings row. *)
StartBatch(q) ==
  /\ At(q, "idle")
  /\ job' = [job EXCEPT ![q] = [JobAt(q, "lock") EXCEPT !.day = today]]
  /\ UNCHANGED <<today, reviewDays, paidDays, stored, streak>>

Locked(q) == ~(job[q].at \in {"idle", "lock"})

TakeLock(q) ==
  /\ At(q, "lock")
  /\ \A b \in StreakBatches : ~Locked(b)
  /\ Goto(q, "select")
  /\ UNCHANGED <<today, reviewDays, paidDays, stored, streak>>

StartRead(q) ==
  /\ At(q, "idle")
  /\ \E wish \in SUBSET Wishes :
       job' = [job EXCEPT ![q] = [JobAt(q, "select") EXCEPT !.day = today, !.wish = wish]]
  /\ UNCHANGED <<today, reviewDays, paidDays, stored, streak>>

(* Where reconcileUserStreak goes with the row it has. *)
Reconcile(q, s) ==
  LET r == Reconciled(s, today) IN
  [job[q] EXCEPT !.mine = r,
                 !.at = IF r # s THEN "persist"
                        ELSE IF job[q].wish # {} THEN "change" ELSE "idle"]

Settled(j) == IF j.at = "idle" THEN IdleJob ELSE j

(* ensureUserStreak, ensureUserStreakTx: the select. *)
SelectStreak(q) ==
  /\ At(q, "select")
  /\ job' = [job EXCEPT ![q] =
       IF ~stored THEN JobAt(q, "bootstrap")
       ELSE IF q \in StreakBatches THEN [JobAt(q, "write") EXCEPT !.mine = streak]
       ELSE Settled(Reconcile(q, streak))]
  /\ UNCHANGED <<today, reviewDays, paidDays, stored, streak>>

(* bootstrapUserStreakFromHistory, on a connection of its own: it sees     *)
(* committed attempts only, also inside a batch.                           *)
BootstrapStreak(q) ==
  /\ At(q, "bootstrap")
  /\ job' = [job EXCEPT ![q] =
       [JobAt(q, "write") EXCEPT !.mine = Bootstrapped(reviewDays, today), !.create = TRUE]]
  /\ UNCHANGED <<today, reviewDays, paidDays, stored, streak>>

(* The insert of a read; a row that came in between is a unique violation. *)
InsertStreak(q) ==
  /\ At(q, "write")
  /\ IF stored
     THEN End(q) /\ UNCHANGED <<stored, streak>>
     ELSE /\ stored' = TRUE
          /\ streak' = job[q].mine
          /\ job' = [job EXCEPT ![q] = Settled(Reconcile(q, job[q].mine))]
  /\ UNCHANGED <<today, reviewDays, paidDays>>

(* Mutant: the batch also writes the vacation it read. *)
ReviewUpdateAll(q, next) == IF next.last = job[q].mine.last THEN streak ELSE next

(* applyStreakReview and the commit.  An insert that fails rolls the whole *)
(* batch back.                                                             *)
ReviewUpdate(q, next) ==
  IF next.last = job[q].mine.last THEN streak
  ELSE [next EXCEPT !.until = IF stored THEN streak.until ELSE 0]

CommitStreakReview(q) ==
  LET day  == job[q].day
      read == Reconciled(job[q].mine, day)
      next == AfterReview(read, day) IN
  /\ At(q, "write")
  /\ ~(job[q].create /\ stored)
  /\ reviewDays' = reviewDays \cup {day}
  /\ paidDays' = paidDays \cup
       (IF KeepsStreak(read, day) /\ next # read THEN read.last + 1 .. day - 1 ELSE {})
  /\ stored' = TRUE
  /\ streak' = IF job[q].create /\ next.last = read.last THEN job[q].mine
               ELSE ReviewUpdate(q, next)
  /\ End(q)
  /\ UNCHANGED today

(* A batch that fails, in the insert or elsewhere, leaves no trace. *)
RollBackStreak(q) ==
  /\ ~At(q, "idle")
  /\ End(q)
  /\ UNCHANGED <<today, reviewDays, paidDays, stored, streak>>

(* persistUserStreak from reconcileUserStreak: every column is written.    *)
PersistReconciled(q) ==
  /\ At(q, "persist")
  /\ streak' = job[q].mine
  /\ IF job[q].wish = {} THEN End(q) ELSE Goto(q, "change")
  /\ UNCHANGED <<today, reviewDays, paidDays, stored>>

(* UpdateStreakSettings on the row in memory, or its validation errors.    *)
ChangeStreak(q) ==
  /\ At(q, "change")
  /\ \E until \in IF "vacation" \in job[q].wish
                  THEN {0} \cup (today .. today + VacationDays) ELSE {job[q].mine.until} :
       LET s == [job[q].mine EXCEPT !.until = until] IN
       IF "freeze" \notin job[q].wish
       THEN job' = [job EXCEPT ![q] = [JobAt(q, "save") EXCEPT !.mine = s]]
       ELSE IF MayFreeze(s, today)
       THEN job' = [job EXCEPT ![q] = [JobAt(q, "save") EXCEPT !.mine = Frozen(s, today)]]
       ELSE End(q)
  /\ UNCHANGED <<today, reviewDays, paidDays, stored, streak>>

(* Its persistUserStreak, and the GetStreakSettings that answers.          *)
SaveStreak(q) ==
  /\ At(q, "save")
  /\ streak' = job[q].mine
  /\ paidDays' = paidDays \cup (IF "freeze" \in job[q].wish THEN {job[q].mine.last} ELSE {})
  /\ job' = [job EXCEPT ![q] = [IdleJob EXCEPT !.at = "select", !.day = job[q].day]]
  /\ UNCHANGED <<today, reviewDays, stored>>

(* Bound: a request is over before the second midnight after it began.     *)
Midnight ==
  /\ today < LastDay
  /\ \A q \in StreakRequests : At(q, "idle") \/ job[q].day = today
  /\ today' = today + 1
  /\ UNCHANGED <<reviewDays, paidDays, stored, streak, job>>

StreakNext ==
  \/ Midnight
  \/ \E q \in StreakBatches :
       StartBatch(q) \/ TakeLock(q) \/ CommitStreakReview(q) \/ RollBackStreak(q)
  \/ \E q \in StreakReads :
       StartRead(q) \/ InsertStreak(q) \/ PersistReconciled(q) \/ ChangeStreak(q) \/ SaveStreak(q)
  \/ \E q \in StreakRequests : SelectStreak(q) \/ BootstrapStreak(q)

StreakSpec == StreakInit /\ [][StreakNext]_streakVars
-----------------------------------------------------------------------------
(* Whatever the requests overwrite of each other, the streak shown was     *)
(* earned: it never exceeds the number of days with a review that lead up  *)
(* to its last day with no day missed but those a freeze or a vacation     *)
(* paid for.                                                               *)
EarnedDays(s) == {d \in reviewDays : d <= s.last /\ d .. s.last \subseteq reviewDays \cup paidDays}

StreakEarned == streak.current <= Cardinality(EarnedDays(streak))

(* A review never takes back a vacation the user has set while the batch   *)
(* was under way: the batch's update leaves that column out.               *)
ReviewKeepsVacation ==
  [][reviewDays' # reviewDays /\ stored => streak'.until = streak.until]_streakVars
=============================================================================
