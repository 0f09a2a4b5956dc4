------------------------------ MODULE DayProofs -------------------------------
(* What the server does once a day or about a day: reminders, streaks and  *)
(* the list of due cards.                                                  *)
EXTENDS Notify, Streak, DueQueue, SchedulerProofs, DataLemmas, TLAPS

-------------------------------------------------------------------------------
(* Reminders keep their distance, for any users, devices, review hours and *)
(* backoff.                                                                *)

(* The tick's time is not ahead of the clock, nor is any push. *)
TimesPassed ==
  /\ worker.now <= clock
  /\ \A u \in NotifyUsers : pushed[u].hour <= clock

(* A recorded push has a row no earlier than the push itself. *)
RecordedHasRow ==
  \A u \in NotifyUsers : pushed[u].recorded => sentAt[u] # 0 /\ pushed[u].hour <= sentAt[u]

(* Who is chosen is still past the backoff when his turn comes: rows are    *)
(* written only for the user whose push was just sent, who has left the     *)
(* list by then.                                                            *)
ChosenAreDue ==
  /\ \A u \in worker.chosen : BackoffOver(u, worker.now)
  /\ worker.user \cap worker.chosen = {}
  /\ worker.at # "record" => worker.user = {}

NotifyInv == NotifyTypeOK /\ TimesPassed /\ RecordedHasRow /\ ChosenAreDue

LEMMA NotifyInvInit == NotifyInit => NotifyInv
<1> SUFFICES ASSUME NotifyInit PROVE NotifyInv
  OBVIOUS
<1>1. NotifyTypeOK
  BY NotifyAssumption DEF NotifyInit, NotifyTypeOK, IdleWorker, NeverPushed, WorkerSteps
<1>2. TimesPassed /\ RecordedHasRow /\ ChosenAreDue
  BY NotifyAssumption
     DEF NotifyInit, TimesPassed, RecordedHasRow, ChosenAreDue, IdleWorker, NeverPushed
<1> QED BY <1>1, <1>2 DEF NotifyInv

(* Steps that touch neither a push nor a row of notification_sends: the     *)
(* worker's own, which start, build or end a tick.                          *)
LEMMA QuietStep ==
  ASSUME NotifyInv, UNCHANGED <<clock, sentAt, pushed>>,
         hours' = hours, devices' \subseteq NotifyUsers, waiting' = waiting,
         worker' \in [at : WorkerSteps, now : 0 .. LastHour, left : SUBSET NotifyUsers,
                      chosen : SUBSET NotifyUsers, user : SUBSET NotifyUsers],
         worker'.now <= clock, ChosenAreDue'
  PROVE  NotifyInv'
<1>1. NotifyTypeOK'
  BY DEF NotifyInv, NotifyTypeOK
<1> QED BY <1>1 DEF NotifyInv, TimesPassed, RecordedHasRow

LEMMA WorkerKeepsInv ==
  ASSUME NotifyInv, StartTick \/ AllEvaluated \/ EndTick \/ RecordFails
  PROVE  NotifyInv'
<1> USE DEF NotifyInv, NotifyTypeOK, WorkerSteps
<1>1. clock \in 0 .. LastHour
  BY NotifyAssumption
<1>2. CASE StartTick
  <2>1. worker' = [at |-> "build", now |-> clock, left |-> devices, chosen |-> {}, user |-> {}]
    BY <1>2 DEF StartTick
  <2>2. ChosenAreDue' /\ worker'.now <= clock
    BY <2>1, <1>1 DEF ChosenAreDue
  <2> QED BY <1>1, <1>2, <2>1, <2>2, QuietStep DEF StartTick
<1>3. CASE AllEvaluated
  BY <1>3, QuietStep DEF AllEvaluated, TimesPassed, ChosenAreDue, BackoffOver
<1>4. CASE EndTick
  <2>1. worker' = [at |-> "idle", now |-> 0, left |-> {}, chosen |-> {}, user |-> {}]
    BY <1>4 DEF EndTick, IdleWorker
  <2>2. ChosenAreDue' /\ worker'.now <= clock
    BY <2>1, <1>1 DEF ChosenAreDue
  <2> QED BY <1>1, <1>4, <2>1, <2>2, QuietStep, NotifyAssumption DEF EndTick
<1>5. CASE RecordFails
  BY <1>5, QuietStep DEF RecordFails, TimesPassed, ChosenAreDue, BackoffOver
<1> QED BY <1>2, <1>3, <1>4, <1>5

LEMMA EvaluateKeepsInv ==
  ASSUME NotifyInv, NEW u \in NotifyUsers, Evaluate(u)
  PROVE  NotifyInv'
<1> USE DEF NotifyInv, NotifyTypeOK, WorkerSteps
<1>1. PICK more \in {{}, {u}} :
        /\ worker' = [worker EXCEPT !.left = @ \ {u}, !.chosen = @ \cup more]
        /\ more # {} => BackoffOver(u, worker.now)
  <2> DEFINE reminds == /\ BackoffOver(u, worker.now)
                        /\ WithinPreferredSendWindow(worker.now, PreferredReviewHourUTC(hours[u]))
                        /\ u \in waiting
  <2>1. worker' = [worker EXCEPT !.left = @ \ {u},
                                 !.chosen = IF reminds THEN @ \cup {u} ELSE @]
    BY Zenon DEF Evaluate
  <2>2. worker.chosen \cup {} = worker.chosen
    OBVIOUS
  <2>3. reminds => BackoffOver(u, worker.now)
    OBVIOUS
  <2> QED BY <2>1, <2>2, <2>3
<1>2. /\ worker'.at = "build" /\ worker'.now = worker.now /\ worker'.user = {}
      /\ worker'.chosen = worker.chosen \cup more
  BY <1>1 DEF Evaluate, ChosenAreDue
<1>3. ChosenAreDue'
  BY <1>1, <1>2 DEF Evaluate, ChosenAreDue, BackoffOver
<1> QED BY <1>1, <1>2, <1>3, QuietStep DEF Evaluate, TimesPassed

(* A push is sent, or may have been: it is not recorded yet, and its user   *)
(* has left the list.                                                       *)
LEMMA PushKeepsInv ==
  ASSUME NotifyInv, NEW u \in NotifyUsers, SendPush(u) \/ SendFails(u)
  PROVE  NotifyInv'
<1> USE DEF NotifyInv, NotifyTypeOK, WorkerSteps
<1>1. clock \in 0 .. LastHour
  BY NotifyAssumption
<1>2. pushed' \in {pushed, [pushed EXCEPT ![u] = [hour |-> clock, recorded |-> FALSE]]}
  BY DEF SendPush, SendFails
<1>3. /\ worker'.chosen = worker.chosen \ {u} /\ worker'.now = worker.now
      /\ worker'.user \in {{}, {u}}
      /\ UNCHANGED <<clock, hours, devices, waiting, sentAt>>
  BY DEF SendPush, SendFails, ChosenAreDue
<1>4. worker' \in [at : WorkerSteps, now : 0 .. LastHour, left : SUBSET NotifyUsers,
                   chosen : SUBSET NotifyUsers, user : SUBSET NotifyUsers]
  <2>1. CASE SendPush(u)
    BY <2>1 DEF SendPush
  <2>2. CASE SendFails(u)
    BY <2>2 DEF SendFails
  <2> QED BY <2>1, <2>2
<1>5. pushed' \in [NotifyUsers -> [hour : 0 .. LastHour, recorded : BOOLEAN]]
  <2>1. [hour |-> clock, recorded |-> FALSE] \in [hour : 0 .. LastHour, recorded : BOOLEAN]
    BY <1>1
  <2> QED BY <1>2, <2>1
<1>6. NotifyTypeOK'
  BY <1>3, <1>4, <1>5
<1>7. \A v \in NotifyUsers :
        pushed'[v] = pushed[v] \/ (pushed'[v].hour = clock /\ pushed'[v].recorded = FALSE)
  BY <1>2
<1>8. TimesPassed' /\ RecordedHasRow'
  BY <1>1, <1>3, <1>7 DEF TimesPassed, RecordedHasRow
<1>9. worker'.at # "record" => worker'.user = {}
  BY DEF SendPush, SendFails, ChosenAreDue
<1>10. ChosenAreDue'
  BY <1>3, <1>9 DEF ChosenAreDue, BackoffOver
<1> QED BY <1>6, <1>8, <1>10

LEMMA RecordKeepsInv == ASSUME NotifyInv, RecordNotificationSend PROVE NotifyInv'
<1> USE DEF NotifyInv, NotifyTypeOK, WorkerSteps
<1>1. PICK u \in worker.user :
        /\ sentAt' = [sentAt EXCEPT ![u] = clock]
        /\ pushed' = [pushed EXCEPT ![u].recorded = TRUE]
  BY DEF RecordNotificationSend
<1>2. u \in NotifyUsers /\ clock \in 1 .. LastHour
  BY NotifyAssumption
<1>3. /\ worker' = [worker EXCEPT !.at = "send", !.user = {}]
      /\ UNCHANGED <<clock, hours, devices, waiting>>
  BY DEF RecordNotificationSend
<1>4. NotifyTypeOK'
  <2>1. worker' \in [at : WorkerSteps, now : 0 .. LastHour, left : SUBSET NotifyUsers,
                     chosen : SUBSET NotifyUsers, user : SUBSET NotifyUsers]
    BY <1>3
  <2>2. pushed' \in [NotifyUsers -> [hour : 0 .. LastHour, recorded : BOOLEAN]]
    BY <1>1, <1>2
  <2> QED BY <1>1, <1>2, <1>3, <2>1, <2>2
<1>5. TimesPassed' /\ RecordedHasRow'
  BY <1>1, <1>2, <1>3 DEF TimesPassed, RecordedHasRow
<1>6. ChosenAreDue'
  BY <1>1, <1>3 DEF ChosenAreDue, BackoffOver
<1> QED BY <1>4, <1>5, <1>6

LEMMA WorldKeepsInv ==
  ASSUME NotifyInv, NextHour \/ \E u \in NotifyUsers : RegisterPushToken(u)
  PROVE  NotifyInv'
<1> USE DEF NotifyInv, NotifyTypeOK
<1>1. CASE NextHour
  BY <1>1, NotifyAssumption
     DEF NextHour, TimesPassed, RecordedHasRow, ChosenAreDue, BackoffOver, WorkerSteps
<1>2. CASE \E u \in NotifyUsers : RegisterPushToken(u)
  BY <1>2, QuietStep DEF RegisterPushToken, TimesPassed, ChosenAreDue, BackoffOver
<1> QED BY <1>1, <1>2

LEMMA NotifyInvStep == NotifyInv /\ [NotifyNext]_notifyVars => NotifyInv'
<1>1. NotifyInv /\ NotifyNext => NotifyInv'
  BY WorkerKeepsInv, EvaluateKeepsInv, PushKeepsInv, RecordKeepsInv, WorldKeepsInv DEF NotifyNext
<1>2. NotifyInv /\ UNCHANGED notifyVars => NotifyInv'
  BY DEF notifyVars, NotifyInv, NotifyTypeOK, TimesPassed, RecordedHasRow, ChosenAreDue, BackoffOver
<1> QED BY <1>1, <1>2

(* Only a send gives a user a new push, and only to one who is chosen.      *)
LEMMA PushesSpaced ==
  ASSUME NotifyInv, [NotifyNext]_notifyVars, NEW u \in NotifyUsers,
         pushed'[u] # pushed[u], pushed[u].recorded
  PROVE  pushed'[u].hour - pushed[u].hour >= Backoff
<1> USE DEF NotifyInv, NotifyTypeOK
<1>1. pushed' # pushed
  OBVIOUS
<1>2. CASE RecordNotificationSend
  <2>1. PICK v \in worker.user : pushed' = [pushed EXCEPT ![v].recorded = TRUE]
    BY <1>2 DEF RecordNotificationSend
  <2> QED BY <2>1
<1>3. ASSUME NEW v \in NotifyUsers, SendPush(v) \/ SendFails(v)
      PROVE  pushed'[u].hour - pushed[u].hour >= Backoff
  <2>1. pushed' = [pushed EXCEPT ![v] = [hour |-> clock, recorded |-> FALSE]] /\ v \in worker.chosen
    BY <1>1, <1>3 DEF SendPush, SendFails
  <2>2. u = v /\ pushed'[u].hour = clock /\ BackoffOver(u, worker.now)
    BY <2>1 DEF ChosenAreDue
  <2>3. sentAt[u] # 0 /\ pushed[u].hour <= sentAt[u] /\ worker.now <= clock
    BY DEF RecordedHasRow, TimesPassed
  <2> QED BY <2>2, <2>3, NotifyAssumption DEF BackoffOver
<1>4. RecordNotificationSend \/ \E v \in NotifyUsers : SendPush(v) \/ SendFails(v)
  BY <1>1 DEF NotifyNext, notifyVars, StartTick, AllEvaluated, EndTick, RecordFails, NextHour,
              RegisterPushToken, Evaluate
<1> QED BY <1>2, <1>3, <1>4

(* Two reminders of a user are a backoff apart whenever the first one was   *)
(* recorded, whatever ticks, errors and crashes of the worker come between. *)
THEOREM ReminderDistance == NotifySpec => RemindersSpaced
<1>1. NotifyInv /\ [NotifyNext]_notifyVars =>
        [\A u \in NotifyUsers :
           pushed'[u] # pushed[u] /\ pushed[u].recorded
             => pushed'[u].hour - pushed[u].hour >= Backoff]_notifyVars
  BY PushesSpaced
<1> QED BY NotifyInvInit, NotifyInvStep, <1>1, PTL DEF NotifySpec, RemindersSpaced

-------------------------------------------------------------------------------
(* The streak of a user, for any days, requests, freezes and vacations.    *)

Earned(s, days, paid) == {d \in days : d <= s.last /\ d .. s.last \subseteq days \cup paid}
Earns(s, days, paid) == s.current <= Cardinality(Earned(s, days, paid))

(* The day a request is about to pay for. *)
PaidBy(j) == IF j.at = "save" /\ "freeze" \in j.wish THEN {j.mine.last} ELSE {}

(* Not only the row, every copy of it that a request may write back was     *)
(* earned.                                                                 *)
JobEarns(j, days, paid) ==
  /\ Earns(j.mine, days, paid \cup PaidBy(j))
  /\ PaidBy(j) \subseteq Days
  /\ j.at # "idle" => j.day \in Days

StreakInv ==
  /\ StreakTypeOK
  /\ Earns(streak, reviewDays, paidDays)
  /\ \A q \in StreakRequests : JobEarns(job[q], reviewDays, paidDays)

LEMMA SetsOfDays ==
  ASSUME NEW days \in SUBSET Days
  PROVE  IsFiniteSet(days) /\ Cardinality(days) \in Nat /\ \A d \in days : d \in Nat
<1>1. 1 \in Int /\ LastDay \in Int
  BY StreakAssumption
<1>2. IsFiniteSet(Days)
  BY <1>1, FS_Interval DEF Days
<1>3. IsFiniteSet(days)
  BY <1>2, FS_Subset
<1> QED BY <1>1, <1>3, FS_CardinalityType DEF Days

LEMMA EarnedFinite ==
  ASSUME NEW s, NEW days \in SUBSET Days, NEW paid
  PROVE  /\ IsFiniteSet(Earned(s, days, paid))
         /\ Cardinality(Earned(s, days, paid)) \in Nat
<1>1. Earned(s, days, paid) \in SUBSET Days
  BY DEF Earned
<1> QED BY <1>1, SetsOfDays

(* What was earned stays earned, by any row that shows no more and ends on  *)
(* the same day.                                                           *)
LEMMA EarnedStays ==
  ASSUME NEW s, NEW t, s.current \in Nat, t.current \in Nat,
         NEW days, NEW more \in SUBSET Days, days \subseteq more, NEW paid, NEW topay, paid \subseteq topay,
         Earns(s, days, paid), t.current <= s.current, t.last = s.last
  PROVE  Earns(t, more, topay)
<1> DEFINE small == Earned(s, days, paid)
           large == Earned(t, more, topay)
<1>1. small \subseteq large
  BY DEF Earned
<1>2. IsFiniteSet(large) /\ Cardinality(large) \in Nat /\ Cardinality(small) \in Nat
  BY EarnedFinite
<1> HIDE DEF small, large
<1>3. Cardinality(small) <= Cardinality(large)
  BY <1>1, <1>2, FS_Subset
<1> QED BY <1>2, <1>3 DEF small, large, Earns

LEMMA MoreDaysEarn ==
  ASSUME NEW s, s.current \in Nat, NEW days, NEW more \in SUBSET Days, days \subseteq more,
         NEW paid, NEW topay, paid \subseteq topay, Earns(s, days, paid)
  PROVE  Earns(s, more, topay)
<1>1. s.current <= s.current /\ s.last = s.last
  OBVIOUS
<1> QED BY <1>1, EarnedStays

LEMMA NothingEarned ==
  ASSUME NEW s, s.current = 0, NEW days \in SUBSET Days, NEW paid
  PROVE  Earns(s, days, paid)
  BY EarnedFinite DEF Earns

LEMMA RowFields ==
  ASSUME NEW s \in StreakRow
  PROVE  /\ s.current \in Nat /\ s.longest \in Nat /\ s.last \in Nat /\ s.until \in Nat
         /\ s.tokens \in 0 .. FreezeTokens
  BY DEF StreakRow

LEMMA NewStreakType == NewStreak \in StreakRow
  BY StreakAssumption DEF NewStreak, StreakRow

LEMMA ReconciledEarns ==
  ASSUME NEW s \in StreakRow, NEW day \in Nat
  PROVE  LET r == Reconciled(s, day) IN
         /\ r \in StreakRow /\ r.last = s.last /\ r.current <= s.current
  BY RowFields DEF Reconciled, StreakRow

(* computeReviewStreakDays: the run of days it counts ends on the last one. *)
LEMMA LatestIsLast ==
  ASSUME NEW days \in SUBSET Days
  PROVE  /\ Latest(days) \in Nat
         /\ days # {} => Latest(days) \in days /\ \A d \in days : d <= Latest(days)
         /\ days = {} => Latest(days) = 0
<1>1. CASE days = {}
  BY <1>1 DEF Latest
<1>2. CASE days # {}
  <2> DEFINE f == [d \in days |-> d]
  <2>1. IsFiniteSet(days)
    BY SetsOfDays
  <2>2. f \in [days -> Nat]
    BY DEF Days
  <2>3. \E d \in days : \A e \in days : f[e] <= f[d]
    <3> HIDE DEF f
    <3> QED BY <1>2, <2>1, <2>2, GreatestOf
  <2>4. \E d \in days : \A e \in days : e <= d
    BY <2>3
  <2>5. Latest(days) \in days /\ \A d \in days : d <= Latest(days)
    BY <1>2, <2>4 DEF Latest
  <2> QED BY <1>2, <2>5, SetsOfDays
<1> QED BY <1>1, <1>2

LEMMA BootstrappedEarns ==
  ASSUME NEW days \in SUBSET Days, NEW day, NEW paid
  PROVE  Bootstrapped(days, day) \in StreakRow /\ Earns(Bootstrapped(days, day), days, paid)
<1> DEFINE run == RunOfDays(days, day)
           b == Bootstrapped(days, day)
<1>1. run \in SUBSET Days
  BY DEF RunOfDays
<1>2. IsFiniteSet(run) /\ Cardinality(run) \in Nat
  BY <1>1, SetsOfDays
<1>3. /\ b.current = Cardinality(run) /\ b.longest = Cardinality(run) /\ b.last = Latest(days)
      /\ b = [NewStreak EXCEPT !.current = Cardinality(run), !.longest = Cardinality(run),
                               !.last = Latest(days)]
  BY DEF Bootstrapped, NewStreak
<1>4. b \in StreakRow
  BY <1>2, <1>3, NewStreakType, LatestIsLast DEF StreakRow
<1>5. run \subseteq Earned(b, days, paid)
  BY <1>3, LatestIsLast DEF RunOfDays, Earned
<1>6. Cardinality(run) <= Cardinality(Earned(b, days, paid))
  <2> HIDE DEF run, b
  <2> QED BY <1>5, EarnedFinite, FS_Subset
<1> QED BY <1>3, <1>4, <1>6 DEF Earns

(* The missed days a review pays for. *)
Bought(s, day) == IF KeepsStreak(s, day) /\ AfterReview(s, day) # s THEN s.last + 1 .. day - 1 ELSE {}

LEMMA ReviewEarns ==
  ASSUME NEW s \in StreakRow, NEW day \in Days, NEW days \in SUBSET Days, NEW paid, Earns(s, days, paid)
  PROVE  LET t == AfterReview(s, day) IN
         /\ t \in StreakRow /\ t.until = s.until
         /\ Earns(t, days \cup {day}, paid \cup Bought(s, day))
         /\ Bought(s, day) \subseteq Days
<1> DEFINE t == AfterReview(s, day)
           more == days \cup {day}
           topay == paid \cup Bought(s, day)
           shown == IF KeepsStreak(s, day) THEN s.current + 1 ELSE 1
<1>1. /\ s.current \in Nat /\ s.longest \in Nat /\ s.last \in Nat /\ s.until \in Nat
      /\ s.tokens \in 0 .. FreezeTokens /\ day \in Nat /\ 1 <= day /\ day <= LastDay /\ more \in SUBSET Days
  BY RowFields, StreakAssumption DEF Days
<1>2. Bought(s, day) \subseteq Days
  BY <1>1, StreakAssumption DEF Bought, Days
<1>3. CASE s.last > 0 /\ day <= s.last
  <2>1. t = s
    BY <1>3 DEF AfterReview
  <2> QED BY <1>1, <1>2, <2>1, EarnedStays
<1>4. CASE ~(s.last > 0 /\ day <= s.last)
  <2>1. /\ t = [s EXCEPT !.current = shown, !.longest = IF shown > @ THEN shown ELSE @, !.last = day,
                         !.tokens = IF BuysMissedDay(s, day) THEN @ - 1 ELSE @]
    BY <1>4 DEF AfterReview
  <2>2. shown \in Nat
    BY <1>1
  <2>3. (IF BuysMissedDay(s, day) THEN s.tokens - 1 ELSE s.tokens) \in 0 .. FreezeTokens
    BY <1>1, StreakAssumption DEF BuysMissedDay
  <2>4. /\ t \in StreakRow /\ t.until = s.until /\ t.current = shown /\ t.last = day
    <3> HIDE DEF shown
    <3> QED BY <1>1, <2>1, <2>2, <2>3 DEF StreakRow
  <2>5. day \in Earned(t, more, topay)
    BY <1>1, <2>4 DEF Earned
  <2>6. IsFiniteSet(Earned(t, more, topay)) /\ Cardinality(Earned(t, more, topay)) \in Nat
    BY <1>1, EarnedFinite
  <2>7. CASE ~KeepsStreak(s, day)
    <3>1. Cardinality(Earned(t, more, topay)) # 0
      BY <2>5, <2>6, FS_EmptySet
    <3> QED BY <1>2, <2>4, <2>6, <2>7, <3>1 DEF Earns
  <2>8. CASE KeepsStreak(s, day)
    <3> DEFINE before == Earned(s, days, paid)
               after == Earned(t, more, topay)
    <3>1. s.last > 0 /\ s.last < day /\ t # s
      BY <1>1, <1>4, <2>4, <2>8 DEF KeepsStreak
    <3>2. Bought(s, day) = s.last + 1 .. day - 1
      BY <2>8, <3>1 DEF Bought
    <3>3. ASSUME NEW d \in before PROVE d \in after
      <4>1. d \in Nat /\ d \in days /\ d <= s.last /\ d .. s.last \subseteq days \cup paid
        BY <3>3 DEF Earned, Days
      <4>2. ASSUME NEW e \in d .. day PROVE e \in more \cup topay
        <5>1. e \in d .. s.last \/ e \in s.last + 1 .. day - 1 \/ e = day
          BY <1>1, <3>1, <4>1
        <5> QED BY <3>2, <4>1, <5>1
      <4> QED BY <1>1, <2>4, <3>1, <4>1, <4>2 DEF Earned
    <3>4. day \notin before
      BY <1>1, <3>1 DEF Earned
    <3>5. IsFiniteSet(before) /\ Cardinality(before) \in Nat
      BY EarnedFinite
    <3> HIDE DEF before, after, more, topay, t
    <3>6. Cardinality(before \cup {day}) = Cardinality(before) + 1
      BY <3>4, <3>5, FS_AddElement
    <3>7. before \cup {day} \subseteq after
      BY <2>5, <3>3 DEF after
    <3>8. Cardinality(before) + 1 <= Cardinality(after)
      BY <2>6, <3>6, <3>7, FS_Subset DEF after
    <3>9. s.current <= Cardinality(before)
      BY DEF Earns, before
    <3>10. t.current <= Cardinality(after)
      BY <1>1, <2>4, <2>6, <2>8, <3>5, <3>8, <3>9 DEF after
    <3> QED BY <1>2, <2>4, <3>10 DEF Earns, after, t, more, topay
  <2> QED BY <2>7, <2>8
<1> QED BY <1>3, <1>4

LEMMA JobFields ==
  ASSUME NEW j \in StreakJob
  PROVE  /\ j.at \in StreakSteps /\ j.day \in Nat /\ j.mine \in StreakRow
         /\ j.create \in BOOLEAN /\ j.wish \subseteq Wishes
  BY DEF StreakJob

LEMMA IdleEarns ==
  ASSUME NEW days \in SUBSET Days, NEW paid
  PROVE  IdleJob \in StreakJob /\ JobEarns(IdleJob, days, paid)
<1>1. IdleJob \in StreakJob
  BY NewStreakType DEF IdleJob, StreakJob, StreakSteps
<1>2. IdleJob.at = "idle" /\ IdleJob.mine = NewStreak /\ NewStreak.current = 0
  BY DEF IdleJob, NewStreak
<1> QED BY <1>1, <1>2, NothingEarned DEF JobEarns, PaidBy

(* A step of one request that loses no day leaves the others' copies        *)
(* earned.                                                                 *)
LEMMA RequestSteps ==
  ASSUME StreakInv, NEW q \in StreakRequests, NEW j \in StreakJob, job' = [job EXCEPT ![q] = j],
         JobEarns(j, reviewDays', paidDays'), today' = today, stored' \in BOOLEAN,
         streak' \in StreakRow, Earns(streak', reviewDays', paidDays'),
         reviewDays \subseteq reviewDays', reviewDays' \in SUBSET Days,
         paidDays \subseteq paidDays', paidDays' \in SUBSET Days
  PROVE  StreakInv'
<1>1. StreakTypeOK'
  BY DEF StreakInv, StreakTypeOK
<1>2. ASSUME NEW r \in StreakRequests PROVE JobEarns(job[r], reviewDays, paidDays)'
  <2>1. CASE r = q
    BY <2>1 DEF StreakInv, StreakTypeOK
  <2>2. CASE r # q
    <3> DEFINE k == job[r]
    <3>1. k \in StreakJob /\ job'[r] = k /\ JobEarns(k, reviewDays, paidDays)
      BY <2>2 DEF StreakInv, StreakTypeOK
    <3> HIDE DEF k
    <3>2. k.mine.current \in Nat /\ paidDays \cup PaidBy(k) \subseteq paidDays' \cup PaidBy(k)
      BY <3>1, JobFields, RowFields
    <3>3. Earns(k.mine, reviewDays', paidDays' \cup PaidBy(k))
      BY <3>1, <3>2, EarnedStays DEF JobEarns
    <3> QED BY <3>1, <3>3 DEF JobEarns
  <2> QED BY <2>1, <2>2
<1> QED BY <1>1, <1>2 DEF StreakInv

LEMMA QuietRequest ==
  ASSUME StreakInv, NEW q \in StreakRequests, NEW j \in StreakJob, job' = [job EXCEPT ![q] = j],
         JobEarns(j, reviewDays, paidDays),
         UNCHANGED <<today, reviewDays, paidDays, stored, streak>>
  PROVE  StreakInv'
<1>1. JobEarns(j, reviewDays', paidDays') /\ Earns(streak', reviewDays', paidDays')
  BY DEF StreakInv
<1> QED BY <1>1, RequestSteps DEF StreakInv, StreakTypeOK

(* What a request knows may be taken along, unless it is a day to pay for. *)
LEMMA SameCopy ==
  ASSUME StreakInv, NEW q \in StreakRequests, NEW j \in StreakJob, j.mine = job[q].mine,
         job[q].at # "save", j.at # "save", j.day \in Days
  PROVE  JobEarns(j, reviewDays, paidDays)
<1>1. PaidBy(j) = {} /\ PaidBy(job[q]) = {} /\ JobEarns(job[q], reviewDays, paidDays)
  BY DEF PaidBy, StreakInv
<1> QED BY <1>1 DEF JobEarns

LEMMA JobChanges ==
  ASSUME NEW j \in StreakJob, NEW at \in StreakSteps, NEW day \in Nat, NEW wish \in SUBSET Wishes,
         NEW mine \in StreakRow, NEW create \in BOOLEAN
  PROVE  /\ [j EXCEPT !.at = at] \in StreakJob
         /\ [[j EXCEPT !.at = at] EXCEPT !.day = day] \in StreakJob
         /\ [[j EXCEPT !.at = at] EXCEPT !.day = day, !.wish = wish] \in StreakJob
         /\ [[j EXCEPT !.at = at] EXCEPT !.mine = mine] \in StreakJob
         /\ [[j EXCEPT !.at = at] EXCEPT !.mine = mine, !.create = create] \in StreakJob
         /\ [j EXCEPT !.mine = mine, !.at = at] \in StreakJob
  BY DEF StreakJob

LEMMA MovesKeepStreakInv ==
  ASSUME StreakInv, NEW q \in StreakRequests,
         \/ StartBatch(q) \/ TakeLock(q) \/ StartRead(q) \/ BootstrapStreak(q) \/ RollBackStreak(q)
  PROVE  StreakInv'
<1> USE DEF StreakInv, StreakTypeOK
<1>0. /\ job[q] \in StreakJob /\ job[q].mine \in StreakRow /\ today \in Days /\ today \in Nat
      /\ {"lock", "select", "write"} \subseteq StreakSteps
  BY JobFields, SetsOfDays DEF StreakSteps
<1>1. CASE StartBatch(q)
  <2> DEFINE j == [JobAt(q, "lock") EXCEPT !.day = today]
  <2>1. j \in StreakJob
    BY <1>0, JobChanges DEF JobAt
  <2>2. j.mine = job[q].mine /\ j.at = "lock" /\ j.day = today
    BY <1>0 DEF JobAt, StreakJob
  <2>3. job[q].at = "idle" /\ job' = [job EXCEPT ![q] = j] /\ UNCHANGED <<today, reviewDays, paidDays, stored, streak>>
    BY <1>1 DEF StartBatch, At
  <2> HIDE DEF j, StreakInv, StreakTypeOK
  <2>4. JobEarns(j, reviewDays, paidDays)
    BY <1>0, <2>1, <2>2, <2>3, SameCopy
  <2> QED BY <2>1, <2>3, <2>4, QuietRequest
<1>2. CASE TakeLock(q)
  <2> DEFINE j == JobAt(q, "select")
  <2>1. j \in StreakJob
    BY <1>0, JobChanges DEF JobAt
  <2>2. j.mine = job[q].mine /\ j.at = "select" /\ j.day = job[q].day
    BY <1>0 DEF JobAt, StreakJob
  <2>3. job[q].at = "lock" /\ job' = [job EXCEPT ![q] = j] /\ UNCHANGED <<today, reviewDays, paidDays, stored, streak>>
    BY <1>2 DEF TakeLock, At, Goto
  <2>4. job[q].day \in Days
    BY <2>3 DEF JobEarns
  <2> HIDE DEF j, StreakInv, StreakTypeOK
  <2>5. JobEarns(j, reviewDays, paidDays)
    BY <1>0, <2>1, <2>2, <2>3, <2>4, SameCopy
  <2> QED BY <2>1, <2>3, <2>5, QuietRequest
<1>3. CASE StartRead(q)
  <2>1. PICK wish \in SUBSET Wishes :
          job' = [job EXCEPT ![q] = [JobAt(q, "select") EXCEPT !.day = today, !.wish = wish]]
    BY <1>3 DEF StartRead
  <2> DEFINE j == [JobAt(q, "select") EXCEPT !.day = today, !.wish = wish]
  <2>2. j \in StreakJob
    BY <1>0, JobChanges DEF JobAt
  <2>3. j.mine = job[q].mine /\ j.at = "select" /\ j.day = today
    BY <1>0 DEF JobAt, StreakJob
  <2>4. job[q].at = "idle" /\ job' = [job EXCEPT ![q] = j] /\ UNCHANGED <<today, reviewDays, paidDays, stored, streak>>
    BY <1>3, <2>1 DEF StartRead, At
  <2> HIDE DEF j, StreakInv, StreakTypeOK
  <2>5. JobEarns(j, reviewDays, paidDays)
    BY <1>0, <2>2, <2>3, <2>4, SameCopy
  <2> QED BY <2>2, <2>4, <2>5, QuietRequest
<1>4. CASE BootstrapStreak(q)
  <2> DEFINE b == Bootstrapped(reviewDays, today)
             j == [JobAt(q, "write") EXCEPT !.mine = b, !.create = TRUE]
  <2>1. b \in StreakRow /\ Earns(b, reviewDays, paidDays)
    BY BootstrappedEarns
  <2>2. job[q].at = "bootstrap" /\ job' = [job EXCEPT ![q] = j] /\ UNCHANGED <<today, reviewDays, paidDays, stored, streak>>
    BY <1>4 DEF BootstrapStreak, At
  <2>3. job[q].day \in Days
    BY <2>2 DEF JobEarns
  <2> HIDE DEF b
  <2>4. j \in StreakJob
    BY <1>0, <2>1, JobChanges DEF JobAt
  <2>5. j.mine = b /\ j.at = "write" /\ j.day = job[q].day
    BY <1>0 DEF JobAt, StreakJob
  <2> HIDE DEF j, StreakInv, StreakTypeOK
  <2>6. JobEarns(j, reviewDays, paidDays)
    BY <2>1, <2>3, <2>5 DEF JobEarns, PaidBy
  <2> QED BY <2>2, <2>4, <2>6, QuietRequest
<1>5. CASE RollBackStreak(q)
  <2>1. job' = [job EXCEPT ![q] = IdleJob] /\ UNCHANGED <<today, reviewDays, paidDays, stored, streak>>
    BY <1>5 DEF RollBackStreak, End
  <2>2. reviewDays \in SUBSET Days
    OBVIOUS
  <2> HIDE DEF StreakInv, StreakTypeOK
  <2> QED BY <2>1, <2>2, IdleEarns, QuietRequest
<1> QED BY <1>1, <1>2, <1>3, <1>4, <1>5

(* reconcileUserStreak with a row that was earned. *)
LEMMA ReconcileEarns ==
  ASSUME StreakInv, NEW q \in StreakRequests, job[q].day \in Days,
         NEW s \in StreakRow, Earns(s, reviewDays, paidDays)
  PROVE  LET j == Settled(Reconcile(q, s)) IN
         j \in StreakJob /\ JobEarns(j, reviewDays, paidDays)
<1> DEFINE r == Reconciled(s, today)
           step == IF r # s THEN "persist" ELSE IF job[q].wish # {} THEN "change" ELSE "idle"
           k == [job[q] EXCEPT !.mine = r, !.at = step]
<1>1. today \in Nat /\ job[q] \in StreakJob /\ reviewDays \in SUBSET Days
  BY SetsOfDays DEF StreakInv, StreakTypeOK
<1>2. r \in StreakRow /\ r.last = s.last /\ r.current <= s.current
  BY <1>1, ReconciledEarns
<1>3. Earns(r, reviewDays, paidDays)
  <2> HIDE DEF r
  <2> QED BY <1>1, <1>2, RowFields, EarnedStays
<1>4. Reconcile(q, s) = k
  BY DEF Reconcile
<1>5. step \in StreakSteps /\ step # "save"
  BY DEF StreakSteps
<1> HIDE DEF r, step
<1>6. k \in StreakJob /\ k.mine = r /\ k.at = step /\ k.day = job[q].day
  BY <1>1, <1>2, <1>5, JobChanges DEF StreakJob
<1> HIDE DEF k
<1>7. JobEarns(k, reviewDays, paidDays)
  BY <1>3, <1>5, <1>6 DEF JobEarns, PaidBy
<1> QED BY <1>1, <1>4, <1>6, <1>7, IdleEarns DEF Settled

LEMMA SelectKeepsStreakInv ==
  ASSUME StreakInv, NEW q \in StreakRequests, SelectStreak(q) PROVE StreakInv'
<1> DEFINE j == IF ~stored THEN JobAt(q, "bootstrap")
                ELSE IF q \in StreakBatches THEN [JobAt(q, "write") EXCEPT !.mine = streak]
                ELSE Settled(Reconcile(q, streak))
<1>1. /\ job[q].at = "select" /\ job' = [job EXCEPT ![q] = j]
      /\ UNCHANGED <<today, reviewDays, paidDays, stored, streak>>
  BY DEF SelectStreak, At
<1>2. /\ job[q] \in StreakJob /\ job[q].day \in Days /\ job[q].mine \in StreakRow
      /\ streak \in StreakRow /\ Earns(streak, reviewDays, paidDays)
      /\ {"bootstrap", "write"} \subseteq StreakSteps
  BY <1>1, JobFields DEF StreakInv, StreakTypeOK, JobEarns, StreakSteps
<1>3. CASE ~stored
  <2>1. j \in StreakJob /\ j.mine = job[q].mine /\ j.at = "bootstrap" /\ j.day = job[q].day
    BY <1>2, <1>3, JobChanges DEF JobAt, StreakJob
  <2> HIDE DEF j
  <2>2. JobEarns(j, reviewDays, paidDays)
    BY <1>1, <1>2, <2>1, SameCopy
  <2> QED BY <1>1, <2>1, <2>2, QuietRequest
<1>4. CASE stored /\ q \in StreakBatches
  <2>1. j \in StreakJob /\ j.mine = streak /\ j.at = "write" /\ j.day = job[q].day
    BY <1>2, <1>4, JobChanges DEF JobAt, StreakJob
  <2> HIDE DEF j
  <2>2. JobEarns(j, reviewDays, paidDays)
    BY <1>2, <2>1 DEF JobEarns, PaidBy
  <2> QED BY <1>1, <2>1, <2>2, QuietRequest
<1>5. CASE stored /\ q \notin StreakBatches
  <2>1. j = Settled(Reconcile(q, streak))
    BY <1>5
  <2> HIDE DEF j
  <2>2. j \in StreakJob /\ JobEarns(j, reviewDays, paidDays)
    BY <1>2, <2>1, ReconcileEarns
  <2> QED BY <1>1, <2>2, QuietRequest
<1> QED BY <1>3, <1>4, <1>5

LEMMA InsertKeepsStreakInv ==
  ASSUME StreakInv, NEW q \in StreakRequests, InsertStreak(q) PROVE StreakInv'
<1>1. /\ job[q].at = "write" /\ UNCHANGED <<today, reviewDays, paidDays>>
      /\ job[q] \in StreakJob /\ job[q].mine \in StreakRow /\ job[q].day \in Days
      /\ reviewDays \in SUBSET Days /\ paidDays \in SUBSET Days
  BY JobFields DEF InsertStreak, At, StreakInv, StreakTypeOK, JobEarns
<1>2. Earns(job[q].mine, reviewDays, paidDays)
  BY <1>1 DEF StreakInv, JobEarns, PaidBy
<1>3. CASE stored
  <2>1. job' = [job EXCEPT ![q] = IdleJob] /\ UNCHANGED <<today, reviewDays, paidDays, stored, streak>>
    BY <1>1, <1>3 DEF InsertStreak, End
  <2> QED BY <1>1, <2>1, IdleEarns, QuietRequest
<1>4. CASE ~stored
  <2> DEFINE j == Settled(Reconcile(q, job[q].mine))
  <2>1. stored' = TRUE /\ streak' = job[q].mine /\ job' = [job EXCEPT ![q] = j]
    BY <1>4 DEF InsertStreak
  <2>2. j \in StreakJob /\ JobEarns(j, reviewDays, paidDays)
    BY <1>1, <1>2, ReconcileEarns
  <2> HIDE DEF j
  <2>3. JobEarns(j, reviewDays', paidDays') /\ Earns(streak', reviewDays', paidDays')
    BY <1>1, <1>2, <2>1, <2>2
  <2> QED BY <1>1, <2>1, <2>2, <2>3, RequestSteps
<1> QED BY <1>3, <1>4

LEMMA CommitKeepsStreakInv ==
  ASSUME StreakInv, NEW q \in StreakRequests, CommitStreakReview(q) PROVE StreakInv'
<1> DEFINE day == job[q].day
           mine == job[q].mine
           read == Reconciled(mine, day)
           next == AfterReview(read, day)
           paid == paidDays \cup Bought(read, day)
           days == reviewDays \cup {day}
<1>1. /\ job[q].at = "write" /\ job[q] \in StreakJob /\ mine \in StreakRow /\ day \in Days /\ day \in Nat
      /\ reviewDays \in SUBSET Days /\ paidDays \in SUBSET Days /\ streak \in StreakRow
      /\ Earns(streak, reviewDays, paidDays)
  BY JobFields DEF CommitStreakReview, At, StreakInv, StreakTypeOK, JobEarns
<1>2. Earns(mine, reviewDays, paidDays)
  BY <1>1 DEF StreakInv, JobEarns, PaidBy
<1>3. /\ reviewDays' = days /\ paidDays' = paid /\ stored' = TRUE /\ today' = today
      /\ job' = [job EXCEPT ![q] = IdleJob]
      /\ \/ streak' = mine
         \/ streak' = streak
         \/ \E until \in {streak.until, 0} : streak' = [next EXCEPT !.until = until]
  BY DEF CommitStreakReview, Bought, ReviewUpdate, End
<1> HIDE DEF mine, day
<1>4. read \in StreakRow /\ read.last = mine.last /\ read.current <= mine.current
  BY <1>1, ReconciledEarns
<1> HIDE DEF read
<1>5. Earns(read, reviewDays, paidDays)
  BY <1>1, <1>2, <1>4, RowFields, EarnedStays
<1>6. next \in StreakRow /\ Earns(next, days, paid) /\ Bought(read, day) \subseteq Days
  BY <1>1, <1>4, <1>5, ReviewEarns
<1> HIDE DEF next
<1>7. /\ days \in SUBSET Days /\ paid \in SUBSET Days
      /\ reviewDays \subseteq days /\ paidDays \subseteq paid
  BY <1>1, <1>6
<1> HIDE DEF days, paid
<1>8. streak' \in StreakRow /\ Earns(streak', days, paid)
  <2>0. mine.current \in Nat /\ streak.current \in Nat
    BY <1>1, RowFields
  <2>1. CASE streak' = mine
    <3>1. Earns(mine, days, paid)
      BY <1>2, <1>7, <2>0, MoreDaysEarn
    <3> QED BY <1>1, <2>1, <3>1
  <2>2. CASE streak' = streak
    <3>1. Earns(streak, days, paid)
      BY <1>1, <1>7, <2>0, MoreDaysEarn
    <3> QED BY <1>1, <2>2, <3>1
  <2>3. ASSUME NEW until \in {streak.until, 0}, streak' = [next EXCEPT !.until = until]
        PROVE  streak' \in StreakRow /\ Earns(streak', days, paid)
    <3>1. until \in Nat
      BY <1>1, RowFields
    <3>2. streak' \in StreakRow /\ streak'.current = next.current /\ streak'.last = next.last
      BY <1>6, <2>3, <3>1 DEF StreakRow
    <3> QED BY <1>6, <1>7, <3>2, RowFields, EarnedStays
  <2> QED BY <1>3, <2>1, <2>2, <2>3
<1>9. IdleJob \in StreakJob /\ JobEarns(IdleJob, reviewDays', paidDays')
  BY <1>3, <1>7, IdleEarns
<1> QED BY <1>3, <1>7, <1>8, <1>9, RequestSteps

LEMMA PersistKeepsStreakInv ==
  ASSUME StreakInv, NEW q \in StreakRequests, PersistReconciled(q) PROVE StreakInv'
<1> DEFINE j == IF job[q].wish = {} THEN IdleJob ELSE JobAt(q, "change")
<1>1. /\ job[q].at = "persist" /\ UNCHANGED <<today, reviewDays, paidDays, stored>>
      /\ streak' = job[q].mine /\ job' = [job EXCEPT ![q] = j]
  BY DEF PersistReconciled, At, End, Goto
<1>2. /\ job[q] \in StreakJob /\ job[q].mine \in StreakRow /\ job[q].day \in Days
      /\ reviewDays \in SUBSET Days /\ paidDays \in SUBSET Days /\ stored \in BOOLEAN
  BY <1>1, JobFields DEF StreakInv, StreakTypeOK, JobEarns
<1>3. Earns(job[q].mine, reviewDays, paidDays)
  BY <1>1 DEF StreakInv, JobEarns, PaidBy
<1>4. j \in StreakJob /\ JobEarns(j, reviewDays, paidDays)
  <2>1. CASE job[q].wish = {}
    BY <1>2, <2>1, IdleEarns
  <2>2. CASE job[q].wish # {}
    <3>1. j \in StreakJob /\ j.mine = job[q].mine /\ j.at = "change" /\ j.day = job[q].day
      BY <1>2, <2>2, JobChanges DEF JobAt, StreakJob, StreakSteps
    <3> HIDE DEF j
    <3> QED BY <1>1, <1>2, <3>1, SameCopy
  <2> QED BY <2>1, <2>2
<1> HIDE DEF j
<1>5. JobEarns(j, reviewDays', paidDays') /\ Earns(streak', reviewDays', paidDays')
  BY <1>1, <1>3, <1>4
<1> QED BY <1>1, <1>2, <1>4, <1>5, RequestSteps

(* UpdateStreakSettings: a freeze moves the last day on, over the day it   *)
(* will have paid for.                                                     *)
LEMMA ChangeKeepsStreakInv ==
  ASSUME StreakInv, NEW q \in StreakRequests, ChangeStreak(q) PROVE StreakInv'
<1> DEFINE mine == job[q].mine
<1>1. /\ job[q].at = "change" /\ UNCHANGED <<today, reviewDays, paidDays, stored, streak>>
      /\ job[q] \in StreakJob /\ mine \in StreakRow /\ job[q].day \in Days
      /\ reviewDays \in SUBSET Days /\ paidDays \in SUBSET Days /\ today \in Days /\ today \in Nat
  BY JobFields, SetsOfDays DEF ChangeStreak, At, StreakInv, StreakTypeOK, JobEarns
<1>2. Earns(mine, reviewDays, paidDays)
  BY <1>1 DEF StreakInv, JobEarns, PaidBy
<1>3. PICK until \in IF "vacation" \in job[q].wish
                    THEN {0} \cup (today .. today + VacationDays) ELSE {mine.until} :
        LET s == [mine EXCEPT !.until = until] IN
        IF "freeze" \notin job[q].wish
        THEN job' = [job EXCEPT ![q] = [JobAt(q, "save") EXCEPT !.mine = s]]
        ELSE IF MayFreeze(s, today)
        THEN job' = [job EXCEPT ![q] = [JobAt(q, "save") EXCEPT !.mine = Frozen(s, today)]]
        ELSE End(q)
  BY DEF ChangeStreak
<1> DEFINE s == [mine EXCEPT !.until = until]
<1>4. until \in Nat
  BY <1>1, <1>3, RowFields, StreakAssumption
<1> HIDE DEF mine
<1>5. /\ s \in StreakRow /\ s.current = mine.current /\ s.last = mine.last
  BY <1>1, <1>4 DEF StreakRow
<1>6. Earns(s, reviewDays, paidDays)
  <2> HIDE DEF s
  <2>1. s.current \in Nat /\ mine.current \in Nat /\ s.current <= mine.current
    BY <1>1, <1>5, RowFields
  <2> QED BY <1>1, <1>2, <1>5, <2>1, EarnedStays
<1>7. CASE "freeze" \notin job[q].wish
  <2> DEFINE j == [JobAt(q, "save") EXCEPT !.mine = s]
  <2>1. job' = [job EXCEPT ![q] = j]
    BY <1>3, <1>7
  <2> HIDE DEF s
  <2>2. /\ "save" \in StreakSteps /\ j \in StreakJob
    BY <1>1, <1>5, JobChanges DEF JobAt, StreakSteps
  <2>10. j.mine = s /\ j.at = "save" /\ j.day = job[q].day /\ j.wish = job[q].wish
    BY <1>1 DEF JobAt, StreakJob
  <2> HIDE DEF j
  <2>3. PaidBy(j) = {}
    BY <1>7, <2>10 DEF PaidBy
  <2>4. JobEarns(j, reviewDays, paidDays)
    BY <1>1, <1>6, <2>10, <2>3 DEF JobEarns
  <2> QED BY <1>1, <2>1, <2>2, <2>4, QuietRequest
<1>8. CASE "freeze" \in job[q].wish /\ MayFreeze(s, today)
  <2> DEFINE f == Frozen(s, today)
             j == [JobAt(q, "save") EXCEPT !.mine = f]
  <2>1. job' = [job EXCEPT ![q] = j]
    BY <1>3, <1>8
  <2> HIDE DEF s
  <2>2. /\ s.tokens - 1 \in 0 .. FreezeTokens /\ s.last \in Nat /\ today - 1 = s.last + 1
        /\ today - 1 \in Nat /\ s.current \in Nat
    BY <1>1, <1>5, <1>8, RowFields, StreakAssumption DEF MayFreeze
  <2>3. f \in StreakRow /\ f.current = s.current /\ f.last = today - 1
    BY <1>5, <2>2 DEF Frozen, StreakRow
  <2>4. today - 1 \in Days
    <3>1. today <= LastDay /\ 1 <= today - 1
      BY <1>1, <2>2, StreakAssumption DEF Days
    <3> QED BY <1>1, <3>1, StreakAssumption DEF Days
  <2> HIDE DEF f
  <2>5. Earned(s, reviewDays, paidDays) \subseteq Earned(f, reviewDays, paidDays \cup {f.last})
    <3> SUFFICES ASSUME NEW d \in Earned(s, reviewDays, paidDays)
                 PROVE  d \in Earned(f, reviewDays, paidDays \cup {f.last})
      OBVIOUS
    <3>1. d \in Nat /\ d \in reviewDays /\ d <= s.last /\ d .. s.last \subseteq reviewDays \cup paidDays
      BY <1>1, SetsOfDays DEF Earned
    <3>2. \A e \in d .. f.last : e \in d .. s.last \/ e = f.last
      BY <2>2, <2>3, <3>1
    <3> QED BY <2>2, <2>3, <3>1, <3>2 DEF Earned
  <2>6. Cardinality(Earned(s, reviewDays, paidDays))
          <= Cardinality(Earned(f, reviewDays, paidDays \cup {f.last}))
    BY <1>1, <2>5, EarnedFinite, FS_Subset
  <2>7. Earns(f, reviewDays, paidDays \cup {f.last})
    BY <1>1, <1>6, <2>2, <2>3, <2>6, EarnedFinite DEF Earns
  <2>8. "save" \in StreakSteps /\ j \in StreakJob
    BY <1>1, <2>3, JobChanges DEF JobAt, StreakSteps
  <2>9. j.mine = f /\ j.at = "save" /\ j.day = job[q].day /\ j.wish = job[q].wish
    BY <1>1 DEF JobAt, StreakJob
  <2> HIDE DEF j
  <2>10. PaidBy(j) = {f.last}
    BY <1>8, <2>9 DEF PaidBy
  <2>11. JobEarns(j, reviewDays, paidDays)
    BY <1>1, <2>3, <2>4, <2>7, <2>9, <2>10 DEF JobEarns
  <2> QED BY <1>1, <2>1, <2>8, <2>11, QuietRequest
<1>9. CASE "freeze" \in job[q].wish /\ ~MayFreeze(s, today)
  <2>1. job' = [job EXCEPT ![q] = IdleJob]
    BY <1>3, <1>9 DEF End
  <2> QED BY <1>1, <2>1, IdleEarns, QuietRequest
<1> QED BY <1>7, <1>8, <1>9

LEMMA SaveKeepsStreakInv ==
  ASSUME StreakInv, NEW q \in StreakRequests, SaveStreak(q) PROVE StreakInv'
<1> DEFINE j == [IdleJob EXCEPT !.at = "select", !.day = job[q].day]
           paid == paidDays \cup PaidBy(job[q])
<1>1. /\ job[q].at = "save" /\ UNCHANGED <<today, reviewDays, stored>>
      /\ streak' = job[q].mine /\ paidDays' = paid /\ job' = [job EXCEPT ![q] = j]
  BY DEF SaveStreak, At, PaidBy
<1>2. /\ job[q] \in StreakJob /\ job[q].mine \in StreakRow /\ job[q].day \in Days /\ job[q].day \in Nat
      /\ reviewDays \in SUBSET Days /\ paid \in SUBSET Days /\ stored \in BOOLEAN
      /\ Earns(job[q].mine, reviewDays, paid)
  BY <1>1, JobFields DEF StreakInv, StreakTypeOK, JobEarns
<1>3. j \in StreakJob
  BY <1>2, NewStreakType DEF IdleJob, StreakJob, StreakSteps
<1>4. j.mine = NewStreak /\ NewStreak.current = 0 /\ j.at = "select" /\ j.day = job[q].day
  BY DEF IdleJob, NewStreak
<1> HIDE DEF j, paid
<1>5. JobEarns(j, reviewDays', paidDays')
  BY <1>1, <1>2, <1>4, NothingEarned DEF JobEarns, PaidBy
<1>6. paidDays \subseteq paidDays' /\ Earns(streak', reviewDays', paidDays')
  BY <1>1, <1>2 DEF paid
<1> QED BY <1>1, <1>2, <1>3, <1>5, <1>6, RequestSteps

LEMMA StreakInvInit == StreakInit => StreakInv
<1> SUFFICES ASSUME StreakInit PROVE StreakInv
  OBVIOUS
<1>1. Days \in SUBSET Days
  OBVIOUS
<1>2. reviewDays \in SUBSET Days /\ today \in Days
  BY StreakAssumption DEF StreakInit, Days
<1>3. Earns(streak, reviewDays, paidDays)
  BY <1>2, NothingEarned DEF StreakInit, NewStreak
<1> QED BY <1>2, <1>3, IdleEarns, NewStreakType DEF StreakInit, StreakInv, StreakTypeOK

LEMMA MidnightKeepsStreakInv == ASSUME StreakInv, Midnight PROVE StreakInv'
<1>1. today' \in Days /\ UNCHANGED <<reviewDays, paidDays, stored, streak, job>>
  BY StreakAssumption DEF Midnight, StreakInv, StreakTypeOK, Days
<1> QED BY <1>1 DEF StreakInv, StreakTypeOK

LEMMA StreakInvStep == StreakInv /\ [StreakNext]_streakVars => StreakInv'
<1> SUFFICES ASSUME StreakInv, [StreakNext]_streakVars PROVE StreakInv'
  OBVIOUS
<1>1. CASE Midnight
  BY <1>1, MidnightKeepsStreakInv
<1>2. CASE UNCHANGED streakVars
  BY <1>2 DEF streakVars, StreakInv, StreakTypeOK
<1>3. ASSUME NEW q \in StreakRequests,
             \/ StartBatch(q) \/ TakeLock(q) \/ CommitStreakReview(q) \/ RollBackStreak(q)
             \/ StartRead(q) \/ InsertStreak(q) \/ PersistReconciled(q) \/ ChangeStreak(q) \/ SaveStreak(q)
             \/ SelectStreak(q) \/ BootstrapStreak(q)
      PROVE  StreakInv'
  BY <1>3, MovesKeepStreakInv, SelectKeepsStreakInv, InsertKeepsStreakInv, CommitKeepsStreakInv,
     PersistKeepsStreakInv, ChangeKeepsStreakInv, SaveKeepsStreakInv
<1> QED BY <1>1, <1>2, <1>3 DEF StreakNext, StreakRequests

LEMMA StreakInvAlways == StreakSpec => []StreakInv
  BY StreakInvInit, StreakInvStep, PTL DEF StreakSpec

(* Whatever batches, reads and settings overwrite of each other, the streak *)
(* shown never exceeds the days that earned it.                            *)
THEOREM StreakWasEarned == StreakSpec => []StreakEarned
<1>1. StreakInv => StreakEarned
  BY DEF StreakInv, StreakEarned, Earns, Earned, EarnedDays
<1> QED BY StreakInvAlways, <1>1, PTL

(* A review never takes back a vacation set while its batch was under way. *)
THEOREM VacationStays == StreakSpec => ReviewKeepsVacation
<1>1. StreakInv /\ [StreakNext]_streakVars
        => [reviewDays' # reviewDays /\ stored => streak'.until = streak.until]_streakVars
  <2> SUFFICES ASSUME StreakInv, StreakNext, reviewDays' # reviewDays, stored
               PROVE  streak'.until = streak.until
    BY DEF streakVars
  <2>1. PICK q \in StreakBatches : CommitStreakReview(q)
    BY DEF StreakNext, Midnight, StartBatch, TakeLock, RollBackStreak, StartRead, InsertStreak,
           PersistReconciled, ChangeStreak, SaveStreak, SelectStreak, BootstrapStreak
  <2>2. ~job[q].create
    BY <2>1 DEF CommitStreakReview, StreakInv, StreakTypeOK, StreakRequests, StreakJob
  <2> DEFINE mine == job[q].mine
             read == Reconciled(mine, job[q].day)
             next == AfterReview(read, job[q].day)
  <2>3. streak' = streak \/ streak' = [next EXCEPT !.until = streak.until]
    BY <2>1, <2>2 DEF CommitStreakReview, ReviewUpdate
  <2>4. "until" \in DOMAIN next
    <3>1. mine \in StreakRow
      BY DEF StreakInv, StreakTypeOK, StreakRequests, StreakJob
    <3>2. read \in StreakRow
      BY <3>1, ReconciledEarns DEF Reconciled, StreakRow
    <3> HIDE DEF read
    <3> QED BY <3>2 DEF AfterReview, StreakRow
  <2> QED BY <2>3, <2>4
<1> QED BY <1>1, StreakInvAlways, PTL DEF StreakSpec, ReviewKeepsVacation

-------------------------------------------------------------------------------
(* The list of due cards, for any cards, words, quotas and limits.         *)

-----------------------------------------------------------------------------
(* Shuffles of the rows of a group. *)

LEMMA ShuffleCovers ==
  ASSUME NEW rows, IsFiniteSet(rows), NEW t \in Shuffles(rows)
  PROVE  /\ t \in Seq(rows) /\ Len(t) = Cardinality(rows) /\ Cardinality(rows) \in Nat
         /\ \A r \in rows : \E i \in DOMAIN t : t[i] = r
<1> DEFINE n == Cardinality(rows)
<1>1. n \in Nat
  BY FS_CardinalityType
<1>2. t \in [1 .. n -> rows] /\ \A i, j \in DOMAIN t : i # j => t[i] # t[j]
  BY DEF Shuffles
<1>3. t \in Injection(1 .. n, rows)
  BY <1>2 DEF Injection, IsInjective
<1>4. IsFiniteSet(1 .. n) /\ Cardinality(1 .. n) = n
  BY <1>1, FS_Interval
<1>5. t \in Surjection(1 .. n, rows)
  BY <1>3, <1>4, FS_Injection
<1>6. \A r \in rows : \E i \in DOMAIN t : t[i] = r
  BY <1>2, <1>5 DEF Surjection
<1> HIDE DEF n
<1> QED BY <1>1, <1>2, <1>6 DEF n

LEMMA MixedCovers ==
  ASSUME NEW rows \in SUBSET ListRow, IsFiniteSet(rows), NEW c \in Mixed(rows)
  PROVE  /\ c \in Seq(DueCards) /\ Len(c) = Cardinality(rows) /\ Interleaved(c)
         /\ ToSet(c) = {r[1] : r \in rows}
<1>1. PICK t \in Shuffles(rows) : c = CardsOf(t)
  BY DEF Mixed
<1>2. /\ t \in Seq(rows) /\ Len(t) = Cardinality(rows)
      /\ \A r \in rows : \E i \in DOMAIN t : t[i] = r
  BY ShuffleCovers
<1>3. /\ DOMAIN c = DOMAIN t /\ DOMAIN t = 1 .. Len(t) /\ Len(t) \in Nat
      /\ \A i \in DOMAIN t : c[i] = t[i][1] /\ t[i] \in rows /\ c[i] \in DueCards
      /\ c = [i \in DOMAIN t |-> c[i]]
  BY <1>1, <1>2 DEF CardsOf, ListRow
<1>4. c \in [1 .. Len(t) -> DueCards]
  BY <1>3
<1>5. c \in Seq(DueCards) /\ Len(c) = Len(t)
  BY <1>3, <1>4
<1>6. ToSet(c) = {r[1] : r \in rows}
  BY <1>2, <1>3 DEF ToSet
<1> QED BY <1>2, <1>5, <1>6 DEF Mixed

LEMMA JoinedLists ==
  ASSUME NEW s \in Seq(DueCards), NEW t \in Seq(DueCards)
  PROVE  /\ s \o t \in Seq(DueCards) /\ Len(s \o t) = Len(s) + Len(t)
         /\ ToSet(s \o t) = ToSet(s) \cup ToSet(t)
<1> DEFINE u == s \o t
<1>1. u \in Seq(DueCards) /\ Len(u) = Len(s) + Len(t) /\ Len(s) \in Nat /\ Len(t) \in Nat
  OBVIOUS
<1>2. \A i \in 1 .. Len(s) : i \in DOMAIN u /\ u[i] = s[i]
  OBVIOUS
<1>3. \A i \in 1 .. Len(t) : Len(s) + i \in DOMAIN u /\ u[Len(s) + i] = t[i]
  OBVIOUS
<1>4. ASSUME NEW i \in DOMAIN u PROVE i \in 1 .. Len(s) \/ (i - Len(s) \in 1 .. Len(t) /\ u[i] = t[i - Len(s)])
  <2>1. i \in 1 .. Len(s) + Len(t)
    OBVIOUS
  <2>2. i > Len(s) => u[i] = t[i - Len(s)]
    BY <1>1, <2>1
  <2> HIDE DEF u
  <2> QED BY <1>1, <2>1, <2>2
<1>5. DOMAIN s = 1 .. Len(s) /\ DOMAIN t = 1 .. Len(t)
  OBVIOUS
<1> HIDE DEF u
<1>6. ToSet(s) \subseteq ToSet(u) /\ ToSet(t) \subseteq ToSet(u)
  BY <1>2, <1>3, <1>5 DEF ToSet
<1>7. ToSet(u) \subseteq ToSet(s) \cup ToSet(t)
  BY <1>2, <1>4, <1>5 DEF ToSet
<1> QED BY <1>1, <1>6, <1>7 DEF u

-----------------------------------------------------------------------------
(* The rows of a list while its statements run. *)

(* A row fetched by one statement is not fetched by a later one: a retry is *)
(* no due review any more before tomorrow, and what was reviewed is never  *)
(* new again.                                                              *)
RowsPassed ==
  list.at \in {"retries", "reviews", "new"} =>
    \A r \in list.rows :
      /\ card[r[1]].memory.state # "New" /\ r[2] # "new"
      /\ list.at = "reviews" => r[2] = "retries"
      /\ r[2] = "retries" => ~(card[r[1]].memory.state = "Review" /\ card[r[1]].due <= date)

RowsApart == \A r, s \in list.rows : r[1] = s[1] => r = s

(* The cards that wait for a retry are among the rows, or the rows fill the *)
(* list.                                                                   *)
RetriesKept ==
  /\ list.at = "retries" => list.retries \subseteq {c \in DueCards : IsRetry(c)}
  /\ list.at \in {"reviews", "new", "answered"} =>
       \/ \A c \in list.retries : \E r \in list.rows : r[1] = c
       \/ list.limit <= Cardinality(list.rows)

(* A card whose word was answered today is buried or not active, unless it  *)
(* was added again; the rows hold none that was so when the list began.    *)
BuriedToday ==
  /\ \A c \in DueCards \ readded :
       SameWord(c) \cap ToSet(answered) # {} => ~card[c].active \/ card[c].buried >= date
  /\ list.at # "idle" => \A c \in list.hidden : SameWord(c) \cap ToSet(answered) # {}
  /\ \A r \in list.rows : r[1] \notin list.hidden \ readded

ListAnswered ==
  IF list.at = "answered"
  THEN Len(list.cards) = Cardinality(list.rows) /\ Listed = {r[1] : r \in list.rows}
  ELSE list.cards = <<>>

DueInv ==
  /\ DueTypeOK /\ newDone + reviewsDone = Len(answered)
  /\ IsFiniteSet(list.rows)
  /\ list.at \in {"idle", "retries"} => list.rows = {}
  /\ RowsPassed /\ RowsApart /\ RetriesKept /\ BuriedToday /\ ListAnswered

LEMMA ListFields ==
  ASSUME NEW l \in DueList
  PROVE  /\ l.at \in ListSteps /\ l.limit \in Nat /\ l.newQuota \in Nat /\ l.reviewQuota \in Nat
         /\ l.rows \subseteq ListRow /\ l.cards \in Seq(DueCards) /\ l.split \in Nat
         /\ l.retries \subseteq DueCards /\ l.hidden \subseteq DueCards
<1>1. ListLimits \cup {0} \subseteq Nat
  BY DueQueueAssumption
<1>2. l.limit \in ListLimits \cup {0}
  BY DEF DueList
<1> QED BY <1>1, <1>2 DEF DueList

LEMMA NoListType ==
  /\ NoList \in DueList /\ NoList.at = "idle" /\ NoList.rows = {} /\ NoList.cards = <<>>
  BY DEF NoList, DueList, ListSteps

LEMMA RowsFinite ==
  ASSUME NEW rows, IsFiniteSet(rows), NEW s \in SUBSET DueCards, NEW g
  PROVE  IsFiniteSet(s \X {g}) /\ IsFiniteSet(rows \cup (s \X {g}))
<1>1. IsFiniteSet(s)
  BY DueQueueAssumption, FS_Subset
<1>2. IsFiniteSet(s \X {g})
  BY <1>1, FS_Singleton, FS_Product
<1> QED BY <1>2, FS_Union

LEMMA DueInvInit == DueInit => DueInv
<1> SUFFICES ASSUME DueInit PROVE DueInv
  OBVIOUS
<1>1. /\ date \in 1 .. MaxDate /\ card \in [DueCards -> DueRow] /\ answered \in Seq(DueCards)
      /\ newDone \in 0 .. MaxAnswers /\ reviewsDone \in 0 .. MaxAnswers /\ Len(answered) = 0
      /\ newDone + reviewsDone = 0
  BY DueQueueAssumption DEF DueInit
<1>2. DueTypeOK
  BY <1>1, NoListType DEF DueInit, DueTypeOK
<1>3. ToSet(answered) = {}
  BY DEF DueInit, ToSet
<1>4. IsFiniteSet(list.rows)
  BY NoListType, FS_EmptySet DEF DueInit
<1>5. RowsPassed /\ RowsApart /\ RetriesKept /\ BuriedToday /\ ListAnswered
  BY <1>3, NoListType DEF DueInit, RowsPassed, RowsApart, RetriesKept, BuriedToday, ListAnswered
<1> QED BY <1>1, <1>2, <1>4, <1>5, NoListType DEF DueInit, DueInv

(* A list of which a statement has been run. *)
LEMMA ListMoves ==
  ASSUME DueInv, list' \in DueList, IsFiniteSet(list'.rows), received' \in SUBSET DueCards,
         list'.at \in {"idle", "retries"} => list'.rows = {},
         RowsPassed', RowsApart', RetriesKept', BuriedToday', ListAnswered',
         UNCHANGED <<date, card, newDone, reviewsDone, answered, readded>>
  PROVE  DueInv'
  BY DEF DueInv, DueTypeOK

LEMMA ReadCountsKeepsInv == ASSUME DueInv, NEW limit \in ListLimits, ReadCounts(limit) PROVE DueInv'
<1> DEFINE retries == {c \in DueCards : IsRetry(c)}
           hidden == {c \in DueCards : SameWord(c) \cap ToSet(answered) # {}} \ readded
           a == LeftOf(NewPerDay, newDone)
           b == LeftOf(ReviewsPerDay, reviewsDone)
           l == [at |-> "retries", limit |-> limit, newQuota |-> a, reviewQuota |-> b, rows |-> {},
                 cards |-> <<>>, split |-> 0, retries |-> retries, hidden |-> hidden]
<1>1. list' = l /\ UNCHANGED <<date, card, newDone, reviewsDone, answered, readded, received>>
  BY DEF ReadCounts
<1>2. a \in Nat /\ b \in Nat
  BY DueQueueAssumption DEF DueInv, DueTypeOK, LeftOf
<1>3. retries \subseteq DueCards /\ hidden \subseteq DueCards /\ \A c \in hidden : SameWord(c) \cap ToSet(answered) # {}
  OBVIOUS
<1> HIDE DEF hidden, a, b
<1>4. /\ l \in DueList /\ l.at = "retries" /\ l.rows = {} /\ l.cards = <<>>
      /\ l.retries = retries /\ l.hidden = hidden
  <2> HIDE DEF retries
  <2>1. limit \in ListLimits \cup {0} /\ <<>> \in Seq(DueCards) /\ "retries" \in ListSteps
    BY DEF ListSteps
  <2> QED BY <1>2, <1>3, <2>1 DEF DueList
<1> HIDE DEF l
<1>5. RetriesKept'
  BY <1>1, <1>4 DEF RetriesKept, IsRetry, Listable
<1> HIDE DEF retries
<1>6. BuriedToday'
  BY <1>1, <1>3, <1>4 DEF BuriedToday, DueInv, SameWord
<1>7. RowsPassed' /\ RowsApart' /\ ListAnswered' /\ IsFiniteSet(list'.rows)
  BY <1>1, <1>4, FS_EmptySet DEF RowsPassed, RowsApart, ListAnswered
<1> QED BY <1>1, <1>4, <1>5, <1>6, <1>7, ListMoves DEF DueInv, DueTypeOK

(* A card that a statement returns is none that was buried today.          *)
LEMMA ListedNotHidden ==
  ASSUME DueInv, list.at # "idle", NEW c \in DueCards, Listable(c)
  PROVE  c \notin list.hidden \ readded
<1>1. card[c].buried \in Nat /\ date \in Nat /\ card[c].active /\ card[c].buried < date
  BY DueQueueAssumption DEF DueInv, DueTypeOK, DueRow, Listable
<1>2. SameWord(c) \cap ToSet(answered) = {} \/ c \in readded
  BY <1>1 DEF DueInv, BuriedToday
<1> QED BY <1>2 DEF DueInv, BuriedToday

LEMMA FetchRetriesKeepsInv == ASSUME DueInv, FetchRetries PROVE DueInv'
<1> DEFINE set == {c \in DueCards : IsRetry(c)}
<1>1. PICK s \in FirstDue(set, list.limit) :
        list' = [list EXCEPT !.at = "reviews", !.rows = s \X {"retries"}]
  BY DEF FetchRetries, RetryLimit
<1> DEFINE rows == s \X {"retries"}
<1>2. s \subseteq set /\ s \in SUBSET DueCards /\ Cardinality(s) = Less(Cardinality(set), list.limit)
  BY <1>1 DEF FirstDue
<1>3. list.at = "retries" /\ UNCHANGED <<date, card, newDone, reviewsDone, answered, readded, received>>
  BY DEF FetchRetries
<1>4. list \in DueList /\ list.rows = {} /\ list.cards = <<>> /\ list.limit \in Nat
  BY <1>3, ListFields DEF DueInv, DueTypeOK, ListAnswered
<1>5. IsFiniteSet(rows)
  BY <1>2, RowsFinite, FS_EmptySet
<1>6. /\ \A r \in rows : r[1] \in s /\ r[2] = "retries" /\ r = <<r[1], "retries">>
      /\ \A c \in s : <<c, "retries">> \in rows /\ <<c, "retries">>[1] = c
      /\ rows \subseteq ListRow
  BY <1>2 DEF ListRow
<1>7. s = set \/ list.limit <= Cardinality(rows)
  <2>1. IsFiniteSet(set) /\ Cardinality(set) \in Nat /\ IsFiniteSet(s) /\ Cardinality(s) \in Nat
    BY <1>2, DueQueueAssumption, FS_Subset, FS_CardinalityType
  <2>2. Cardinality(rows) = Cardinality(s)
    <3>1. Cardinality({"retries"}) = 1 /\ IsFiniteSet({"retries"})
      BY FS_Singleton
    <3>2. Cardinality(rows) = Cardinality(s) * 1
      BY <2>1, <3>1, FS_Product
    <3> QED BY <2>1, <3>2
  <2>3. Cardinality(s) = Cardinality(set) => s = set
    BY <1>2, <2>1, FS_Subset
  <2> HIDE DEF set, rows
  <2> QED BY <1>2, <1>4, <2>1, <2>2, <2>3 DEF Less
<1> HIDE DEF rows
<1>8. /\ list' \in DueList /\ list'.at = "reviews" /\ list'.rows = rows /\ list'.cards = <<>>
      /\ list'.retries = list.retries /\ list'.hidden = list.hidden /\ list'.limit = list.limit
  BY <1>1, <1>4, <1>6 DEF rows, DueList, ListSteps
<1>9. RowsPassed'
  <2>1. \A c \in s : card[c].memory.state \in StepStates
    BY <1>2 DEF IsRetry
  <2> QED BY <1>3, <1>6, <1>8, <2>1 DEF RowsPassed, StepStates
<1>10. RowsApart'
  BY <1>6, <1>8 DEF RowsApart
<1>11. RetriesKept'
  <2>1. list.retries \subseteq set
    BY <1>3 DEF DueInv, RetriesKept
  <2> HIDE DEF set
  <2> QED BY <1>6, <1>7, <1>8, <2>1 DEF RetriesKept
<1>12. BuriedToday'
  <2>1. \A c \in s : c \notin list.hidden \ readded
    BY <1>2, <1>3, ListedNotHidden DEF IsRetry
  <2> QED BY <1>3, <1>6, <1>8, <2>1 DEF BuriedToday, DueInv, SameWord
<1>13. ListAnswered'
  BY <1>8 DEF ListAnswered
<1> HIDE DEF set
<1> QED BY <1>3, <1>5, <1>8, <1>9, <1>10, <1>11, <1>12, <1>13, ListMoves DEF DueInv, DueTypeOK

LEMMA FetchReviewsKeepsInv == ASSUME DueInv, FetchReviews PROVE DueInv'
<1> DEFINE set == {c \in DueCards : IsDueReview(c)}
<1>1. PICK s \in FirstDue(set, Less(list.reviewQuota, list.limit - Cardinality(list.rows))) :
        list' = [list EXCEPT !.at = "new", !.rows = @ \cup (s \X {"reviews"})]
  BY DEF FetchReviews
<1> DEFINE more == s \X {"reviews"}
           rows == list.rows \cup more
<1>2. s \subseteq set /\ s \in SUBSET DueCards
  BY <1>1 DEF FirstDue
<1>3. list.at = "reviews" /\ UNCHANGED <<date, card, newDone, reviewsDone, answered, readded, received>>
  BY DEF FetchReviews
<1>4. /\ list \in DueList /\ list.rows \subseteq ListRow /\ list.cards = <<>> /\ list.limit \in Nat
      /\ IsFiniteSet(list.rows)
  BY <1>3, ListFields DEF DueInv, DueTypeOK, ListAnswered
<1>5. IsFiniteSet(rows)
  BY <1>2, <1>4, RowsFinite
<1>6. /\ \A r \in more : r[1] \in s /\ r[2] = "reviews" /\ r = <<r[1], "reviews">>
      /\ more \subseteq ListRow
  BY <1>2 DEF ListRow
<1>7. Cardinality(list.rows) <= Cardinality(rows) /\ Cardinality(list.rows) \in Nat /\ Cardinality(rows) \in Nat
  <2>1. list.rows \in SUBSET rows
    OBVIOUS
  <2> HIDE DEF rows
  <2> QED BY <1>4, <1>5, <2>1, FS_Subset, FS_CardinalityType
<1> HIDE DEF more
<1>8. /\ list' \in DueList /\ list'.at = "new" /\ list'.rows = rows /\ list'.cards = <<>>
      /\ list'.retries = list.retries /\ list'.hidden = list.hidden /\ list'.limit = list.limit
  BY <1>1, <1>4, <1>6 DEF more, DueList, ListSteps
<1>9. \A c \in s : card[c].memory.state = "Review" /\ card[c].due <= date /\ Listable(c)
  BY <1>2 DEF IsDueReview
<1>10. RowsPassed'
  BY <1>3, <1>6, <1>8, <1>9 DEF RowsPassed, DueInv
<1>11. RowsApart'
  <2>1. \A r \in list.rows, q \in more : r[1] # q[1]
    <3> SUFFICES ASSUME NEW r \in list.rows, NEW q \in more, r[1] = q[1] PROVE FALSE
      OBVIOUS
    <3>1. r[2] = "retries"
      BY <1>3 DEF DueInv, RowsPassed
    <3> QED BY <1>3, <1>6, <1>9, <3>1 DEF DueInv, RowsPassed
  <2> QED BY <1>6, <1>8, <2>1 DEF RowsApart, DueInv
<1>12. RetriesKept'
  BY <1>3, <1>4, <1>7, <1>8 DEF RetriesKept, DueInv
<1>13. BuriedToday'
  <2>1. \A c \in s : c \notin list.hidden \ readded
    BY <1>2, <1>3, <1>9, ListedNotHidden
  <2> QED BY <1>3, <1>6, <1>8, <2>1 DEF BuriedToday, DueInv, SameWord
<1>14. ListAnswered'
  BY <1>8 DEF ListAnswered
<1> HIDE DEF set, rows
<1> QED BY <1>3, <1>5, <1>8, <1>10, <1>11, <1>12, <1>13, <1>14, ListMoves DEF DueInv, DueTypeOK

LEMMA FetchNewKeepsInv == ASSUME DueInv, FetchNew PROVE DueInv'
<1> DEFINE set == {c \in DueCards : IsDueNew(c)}
<1>1. PICK s \in SUBSET set :
        \E head \in Mixed(list.rows), tail \in Mixed(s \X {"new"}) :
          list' = [list EXCEPT !.at = "answered", !.rows = @ \cup (s \X {"new"}),
                               !.cards = head \o tail, !.split = Len(head)]
  BY DEF FetchNew
<1> DEFINE more == s \X {"new"}
           rows == list.rows \cup more
<1>2. PICK head \in Mixed(list.rows), tail \in Mixed(more) :
        list' = [list EXCEPT !.at = "answered", !.rows = rows,
                             !.cards = head \o tail, !.split = Len(head)]
  BY <1>1
<1>3. list.at = "new" /\ UNCHANGED <<date, card, newDone, reviewsDone, answered, readded, received>>
  BY DEF FetchNew
<1>4. /\ list \in DueList /\ list.rows \subseteq ListRow /\ list.limit \in Nat
      /\ IsFiniteSet(list.rows)
  BY <1>3, ListFields DEF DueInv, DueTypeOK
<1>5. IsFiniteSet(rows) /\ IsFiniteSet(more) /\ s \in SUBSET DueCards
  BY <1>4, RowsFinite
<1>6. /\ \A r \in more : r[1] \in s /\ r[2] = "new" /\ r = <<r[1], "new">>
      /\ more \subseteq ListRow
  BY <1>5 DEF ListRow
<1>7. \A c \in s : card[c].memory.state = "New" /\ Listable(c)
  BY DEF IsDueNew
<1> HIDE DEF more
<1>8. \A r \in list.rows, q \in more : r[1] # q[1]
  BY <1>3, <1>6, <1>7 DEF DueInv, RowsPassed
<1>9. /\ head \in Seq(DueCards) /\ Len(head) = Cardinality(list.rows)
      /\ ToSet(head) = {r[1] : r \in list.rows}
      /\ tail \in Seq(DueCards) /\ Len(tail) = Cardinality(more)
      /\ ToSet(tail) = {r[1] : r \in more}
  BY <1>4, <1>5, <1>6, MixedCovers
<1>10. /\ head \o tail \in Seq(DueCards) /\ Len(head \o tail) = Cardinality(list.rows) + Cardinality(more)
       /\ ToSet(head \o tail) = {r[1] : r \in rows}
  BY <1>9, JoinedLists
<1>11. /\ Cardinality(rows) = Cardinality(list.rows) + Cardinality(more)
       /\ Cardinality(list.rows) \in Nat /\ Cardinality(more) \in Nat
  <2>1. list.rows \cap more = {}
    BY <1>8
  <2>2. Cardinality(list.rows \cap more) = 0
    BY <2>1, FS_EmptySet
  <2>3. /\ Cardinality(list.rows \cup more)
           = Cardinality(list.rows) + Cardinality(more) - Cardinality(list.rows \cap more)
        /\ Cardinality(list.rows) \in Nat /\ Cardinality(more) \in Nat
    BY <1>4, <1>5, FS_Union, FS_CardinalityType
  <2> QED BY <2>2, <2>3
<1>12. /\ list' \in DueList /\ list'.at = "answered" /\ list'.rows = rows /\ list'.cards = head \o tail
       /\ list'.retries = list.retries /\ list'.hidden = list.hidden /\ list'.limit = list.limit
  <2>1. rows \subseteq ListRow /\ Len(head) \in Nat
    BY <1>4, <1>6, <1>9
  <2> HIDE DEF rows
  <2> QED BY <1>2, <1>4, <1>10, <2>1 DEF DueList, ListSteps
<1>13. RowsPassed'
  BY <1>12 DEF RowsPassed
<1>14. RowsApart'
  BY <1>6, <1>8, <1>12 DEF RowsApart, DueInv
<1>15. RetriesKept'
  BY <1>3, <1>4, <1>11, <1>12 DEF RetriesKept, DueInv
<1>16. BuriedToday'
  <2>1. \A c \in s : c \notin list.hidden \ readded
    BY <1>3, <1>5, <1>7, ListedNotHidden
  <2> QED BY <1>3, <1>6, <1>12, <2>1 DEF BuriedToday, DueInv, SameWord
<1>17. ListAnswered'
  BY <1>10, <1>11, <1>12 DEF ListAnswered, Listed
<1> HIDE DEF set, rows
<1> QED BY <1>3, <1>5, <1>12, <1>13, <1>14, <1>15, <1>16, <1>17, ListMoves DEF DueInv, DueTypeOK

LEMMA ListSentKeepsInv == ASSUME DueInv, ListSent PROVE DueInv'
<1>1. /\ list' = NoList /\ UNCHANGED <<date, card, newDone, reviewsDone, answered, readded>>
      /\ received' = received \cup ToSet(list.cards) /\ list.cards \in Seq(DueCards)
  BY ListFields DEF ListSent, DueInv, DueTypeOK
<1>2. received' \in SUBSET DueCards
  BY <1>1 DEF DueInv, DueTypeOK, ToSet
<1>3. list' \in DueList /\ list'.at = "idle" /\ list'.rows = {} /\ list'.cards = <<>>
  BY <1>1, NoListType
<1>4. IsFiniteSet(list'.rows)
  BY <1>3, FS_EmptySet
<1>5. BuriedToday'
  BY <1>1, <1>3 DEF BuriedToday, DueInv, SameWord
<1>6. RowsPassed' /\ RowsApart' /\ RetriesKept' /\ ListAnswered'
  BY <1>3 DEF RowsPassed, RowsApart, RetriesKept, ListAnswered
<1> QED BY <1>1, <1>2, <1>3, <1>4, <1>5, <1>6, ListMoves

(* Batches, archiving and re-adding, which run between two statements.     *)

NotDue(row, d) == ~(row.memory.state = "Review" /\ row.due <= d)

LEMMA CardsMove ==
  ASSUME DueInv, card' \in [DueCards -> DueRow], TrackRetries,
         newDone' \in 0 .. MaxAnswers, reviewsDone' \in 0 .. MaxAnswers,
         answered' \in Seq(DueCards), newDone' + reviewsDone' = Len(answered'),
         ToSet(answered) \subseteq ToSet(answered'),
         readded \subseteq readded', readded' \subseteq DueCards,
         \A c \in DueCards : card[c].memory.state # "New" => card'[c].memory.state # "New",
         \A c \in DueCards : NotDue(card[c], date) => NotDue(card'[c], date),
         \A c \in DueCards \ readded' :
           SameWord(c) \cap ToSet(answered') # {} => ~card'[c].active \/ card'[c].buried >= date,
         UNCHANGED <<date, received>>
  PROVE  DueInv'
<1> DEFINE left == {c \in list.retries : IsRetry(c)'}
<1>1. list' = [list EXCEPT !.retries = left] /\ list \in DueList
  BY DEF TrackRetries, DueInv, DueTypeOK
<1>2. /\ left \subseteq list.retries /\ list.rows \subseteq ListRow /\ list.hidden \subseteq DueCards
      /\ list.retries \subseteq DueCards
      /\ \A c \in left : IsRetry(c)'
  BY <1>1, ListFields
<1> HIDE DEF left
<1>3. /\ list' \in DueList /\ list'.at = list.at /\ list'.rows = list.rows /\ list'.cards = list.cards
      /\ list'.retries = left /\ list'.hidden = list.hidden /\ list'.limit = list.limit
  BY <1>1, <1>2 DEF DueList
<1>4. DueTypeOK'
  BY <1>3 DEF DueTypeOK, DueInv
<1>5. RowsPassed'
  <2>1. \A r \in list.rows : r[1] \in DueCards
    BY <1>2 DEF ListRow
  <2> QED BY <1>3, <2>1 DEF RowsPassed, DueInv, NotDue
<1>6. RowsApart' /\ ListAnswered'
  BY <1>3 DEF RowsApart, ListAnswered, Listed, DueInv
<1>7. RetriesKept'
  <2>1. list'.at = "retries" => list'.retries \subseteq {c \in DueCards : IsRetry(c)'}
    BY <1>2, <1>3
  <2>2. list'.at \in {"reviews", "new", "answered"} =>
          \/ \A c \in list'.retries : \E r \in list'.rows : r[1] = c
          \/ list'.limit <= Cardinality(list'.rows)
    BY <1>2, <1>3 DEF RetriesKept, DueInv
  <2> QED BY <2>1, <2>2 DEF RetriesKept
<1>8. BuriedToday'
  <2>1. \A c \in list.hidden : list.at # "idle" => SameWord(c) \cap ToSet(answered') # {}
    BY DEF BuriedToday, DueInv
  <2>2. \A r \in list.rows : r[1] \notin list.hidden \ readded'
    BY DEF BuriedToday, DueInv
  <2> QED BY <1>3, <2>1, <2>2 DEF BuriedToday, SameWord
<1> QED BY <1>3, <1>4, <1>5, <1>6, <1>7, <1>8 DEF DueInv

LEMMA SameWordType == ASSUME NEW c \in DueCards, NEW d \in DueCards
                      PROVE  c \in SameWord(d) => d \in SameWord(c) /\ c # d
  BY DEF SameWord

LEMMA AppendedAnswer ==
  ASSUME NEW s \in Seq(DueCards), NEW c \in DueCards
  PROVE  /\ Append(s, c) \in Seq(DueCards) /\ Len(Append(s, c)) = Len(s) + 1 /\ Len(s) \in Nat
         /\ ToSet(Append(s, c)) = ToSet(s) \cup {c}
<1>1. /\ Append(s, c) \in Seq(DueCards) /\ Len(Append(s, c)) = Len(s) + 1 /\ Len(s) \in Nat
      /\ DOMAIN Append(s, c) = 1 .. Len(s) + 1 /\ DOMAIN s = 1 .. Len(s)
  OBVIOUS
<1>2. /\ \A i \in 1 .. Len(s) : Append(s, c)[i] = s[i]
      /\ Append(s, c)[Len(s) + 1] = c
  OBVIOUS
<1>3. ToSet(Append(s, c)) = {Append(s, c)[i] : i \in 1 .. Len(s) + 1} /\ ToSet(s) = {s[i] : i \in 1 .. Len(s)}
  BY <1>1 DEF ToSet
<1> DEFINE t == Append(s, c)
<1>4. {t[i] : i \in 1 .. Len(s) + 1} = {s[i] : i \in 1 .. Len(s)} \cup {c}
  <2> HIDE DEF t
  <2>1. \A i \in 1 .. Len(s) : t[i] = s[i]
    BY <1>2 DEF t
  <2>2. t[Len(s) + 1] = c
    BY <1>2 DEF t
  <2>3. \A i \in 1 .. Len(s) + 1 : i \in 1 .. Len(s) \/ i = Len(s) + 1
    BY <1>1
  <2>4. 1 .. Len(s) \subseteq 1 .. Len(s) + 1 /\ Len(s) + 1 \in 1 .. Len(s) + 1
    BY <1>1
  <2> QED BY <2>1, <2>2, <2>3, <2>4
<1> QED BY <1>1, <1>3, <1>4

LEMMA RecordAnswerKeepsInv ==
  ASSUME DueInv, NEW c \in DueCards, NEW rating \in GivenRatings, RecordAnswer(c, rating)
  PROVE  DueInv'
<1> DEFINE before == Migrated(card[c].memory)
           after == NextMemory(before, rating)
           due == IF after.state \in StepStates THEN date ELSE date + 1
           kept == ~SuspendsCard(after)
<1>1. /\ card \in [DueCards -> DueRow] /\ date \in Nat /\ answered \in Seq(DueCards)
      /\ newDone \in 0 .. MaxAnswers /\ reviewsDone \in 0 .. MaxAnswers /\ MaxAnswers \in Nat
      /\ newDone + reviewsDone = Len(answered) /\ Len(answered) < MaxAnswers
  <2>1. Len(answered) < MaxAnswers
    BY DEF RecordAnswer
  <2>2. MaxDate \in Nat /\ MaxAnswers \in Nat
    BY DueQueueAssumption
  <2> QED BY <2>1, <2>2 DEF DueInv, DueTypeOK
<1>2. \A d \in DueCards : /\ card[d] \in DueRow /\ card[d].memory \in Memory /\ card[d].due \in Nat
                          /\ card[d].buried \in Nat /\ card[d].active \in BOOLEAN
  BY <1>1 DEF DueRow
<1>3. after \in Memory /\ after.state \in {"Review"} \cup StepStates
  <2>1. before \in Memory /\ rating \in Ratings
    BY <1>2, MigratedType, DueQueueAssumption
  <2> HIDE DEF before
  <2>2. NextMemory(before, rating) \in Memory
    BY <2>1, NextMemoryType
  <2>3. NextMemory(before, rating).state = NextState(before, rating)
    BY DEF NextMemory
  <2> QED BY <2>1, <2>2, <2>3, NextStateType
<1>4. due \in Nat /\ kept \in BOOLEAN /\ (after.state = "Review" => ~(due <= date))
  BY <1>1, <1>3 DEF StepStates, SuspendsCard
<1> DEFINE New(d) == CASE d = c -> [card[d] EXCEPT !.memory = after, !.due = due, !.active = kept]
                      [] d \in SameWord(c) /\ card[d].active -> [card[d] EXCEPT !.buried = date]
                      [] OTHER -> card[d]
<1>5. card' = [d \in DueCards |-> New(d)]
  BY DEF RecordAnswer
<1> HIDE DEF before, after, due, kept, New
<1>6. card' = [d \in DueCards |-> card'[d]] /\ \A d \in DueCards : card'[d] = New(d)
  BY <1>5
<1>7. /\ card'[c] \in DueRow /\ card'[c].memory = after /\ card'[c].due = due
      /\ card'[c].buried = card[c].buried /\ card'[c].active = kept
  <2>1. card'[c] = [card[c] EXCEPT !.memory = after, !.due = due, !.active = kept]
    BY <1>6 DEF New, SameWord
  <2> QED BY <1>2, <1>3, <1>4, <2>1 DEF DueRow
<1>8. ASSUME NEW d \in DueCards, d # c
      PROVE  /\ card'[d] \in DueRow /\ card'[d].memory = card[d].memory /\ card'[d].due = card[d].due
             /\ card'[d].active = card[d].active
             /\ card'[d].buried = IF d \in SameWord(c) /\ card[d].active THEN date ELSE card[d].buried
  <2>1. card'[d] = IF d \in SameWord(c) /\ card[d].active THEN [card[d] EXCEPT !.buried = date] ELSE card[d]
    BY <1>6, <1>8 DEF New
  <2>2. CASE d \in SameWord(c) /\ card[d].active
    BY <1>1, <1>2, <2>1, <2>2 DEF DueRow
  <2>3. CASE ~(d \in SameWord(c) /\ card[d].active)
    BY <1>2, <2>1, <2>3
  <2> QED BY <2>2, <2>3
<1>9. card' \in [DueCards -> DueRow]
  BY <1>6, <1>7, <1>8
<1>10. /\ answered' \in Seq(DueCards) /\ Len(answered') = Len(answered) + 1 /\ Len(answered) \in Nat
       /\ ToSet(answered') = ToSet(answered) \cup {c}
  BY <1>1, AppendedAnswer DEF RecordAnswer
<1>11. /\ newDone' \in 0 .. MaxAnswers /\ reviewsDone' \in 0 .. MaxAnswers
       /\ newDone' + reviewsDone' = Len(answered')
  <2>1. \/ newDone' = newDone + 1 /\ reviewsDone' = reviewsDone + 0
        \/ newDone' = newDone + 0 /\ reviewsDone' = reviewsDone + 1
    BY DEF RecordAnswer
  <2> QED BY <1>1, <1>10, <2>1
<1>12. \A d \in DueCards : card[d].memory.state # "New" => card'[d].memory.state # "New"
  BY <1>3, <1>7, <1>8 DEF StepStates
<1>13. \A d \in DueCards : NotDue(card[d], date) => NotDue(card'[d], date)
  BY <1>4, <1>7, <1>8 DEF NotDue
<1>14. ASSUME NEW d \in DueCards \ readded, SameWord(d) \cap ToSet(answered') # {}
       PROVE  ~card'[d].active \/ card'[d].buried >= date
  <2>1. CASE d = c
    <3>1. SameWord(d) \cap ToSet(answered) # {}
      BY <1>10, <1>14, <2>1 DEF SameWord
    <3>2. card[c].active
      BY DEF RecordAnswer
    <3> QED BY <1>7, <2>1, <3>1, <3>2 DEF DueInv, BuriedToday
  <2>2. CASE d # c /\ d \in SameWord(c)
    BY <1>1, <1>8, <2>2
  <2>3. CASE d # c /\ d \notin SameWord(c)
    <3>1. SameWord(d) \cap ToSet(answered) # {}
      BY <1>10, <1>14, <2>3 DEF SameWord
    <3> QED BY <1>8, <2>3, <3>1 DEF DueInv, BuriedToday
  <2> QED BY <2>1, <2>2, <2>3
<1>15. TrackRetries /\ UNCHANGED <<date, readded, received>> /\ readded \subseteq DueCards
  BY DEF RecordAnswer, DueInv, DueTypeOK
<1> QED BY <1>9, <1>10, <1>11, <1>12, <1>13, <1>14, <1>15, CardsMove

LEMMA ArchiveCardKeepsInv ==
  ASSUME DueInv, NEW c \in DueCards, ArchiveCard(c)
  PROVE  DueInv'
<1>1. card' = [card EXCEPT ![c] = [card[c] EXCEPT !.active = FALSE]] /\ card \in [DueCards -> DueRow]
  BY DEF ArchiveCard, DueInv, DueTypeOK
<1>2. /\ [card[c] EXCEPT !.active = FALSE] \in DueRow
      /\ [card[c] EXCEPT !.active = FALSE].memory = card[c].memory
      /\ [card[c] EXCEPT !.active = FALSE].due = card[c].due
      /\ [card[c] EXCEPT !.active = FALSE].active = FALSE
  BY <1>1 DEF DueRow
<1>3. /\ card' \in [DueCards -> DueRow]
      /\ \A d \in DueCards : /\ card'[d].memory = card[d].memory /\ card'[d].due = card[d].due
                             /\ card'[d] = card[d] \/ ~card'[d].active
  BY <1>1, <1>2
<1>4. UNCHANGED <<date, newDone, reviewsDone, answered, readded, received>> /\ TrackRetries
  BY DEF ArchiveCard
<1>5. \A d \in DueCards \ readded' :
        SameWord(d) \cap ToSet(answered') # {} => ~card'[d].active \/ card'[d].buried >= date
  BY <1>3, <1>4 DEF DueInv, BuriedToday
<1>6. \A d \in DueCards : NotDue(card[d], date) => NotDue(card'[d], date)
  BY <1>3 DEF NotDue
<1>7. /\ newDone' \in 0 .. MaxAnswers /\ reviewsDone' \in 0 .. MaxAnswers /\ answered' \in Seq(DueCards)
      /\ newDone' + reviewsDone' = Len(answered') /\ readded' \subseteq DueCards
  BY <1>4 DEF DueInv, DueTypeOK
<1> QED BY <1>3, <1>4, <1>5, <1>6, <1>7, CardsMove

LEMMA ReaddCardKeepsInv ==
  ASSUME DueInv, NEW c \in DueCards, ReaddCard(c)
  PROVE  DueInv'
<1> DEFINE row == [card[c] EXCEPT !.active = TRUE, !.buried = 0]
<1>1. card' = [card EXCEPT ![c] = row] /\ card \in [DueCards -> DueRow]
  BY DEF ReaddCard, DueInv, DueTypeOK
<1>2. row \in DueRow /\ row.memory = card[c].memory /\ row.due = card[c].due
  BY <1>1 DEF DueRow
<1> HIDE DEF row
<1>3. /\ card' \in [DueCards -> DueRow]
      /\ \A d \in DueCards : /\ card'[d].memory = card[d].memory /\ card'[d].due = card[d].due
                             /\ d # c => card'[d] = card[d]
  BY <1>1, <1>2
<1>4. /\ UNCHANGED <<date, newDone, reviewsDone, answered, received>> /\ TrackRetries
      /\ readded' = readded \cup {c}
  BY DEF ReaddCard
<1>5. \A d \in DueCards \ readded' :
        SameWord(d) \cap ToSet(answered') # {} => ~card'[d].active \/ card'[d].buried >= date
  BY <1>3, <1>4 DEF DueInv, BuriedToday
<1>6. \A d \in DueCards : NotDue(card[d], date) => NotDue(card'[d], date)
  BY <1>3 DEF NotDue
<1>7. /\ newDone' \in 0 .. MaxAnswers /\ reviewsDone' \in 0 .. MaxAnswers /\ answered' \in Seq(DueCards)
      /\ newDone' + reviewsDone' = Len(answered') /\ readded' \subseteq DueCards
  BY <1>4 DEF DueInv, DueTypeOK
<1> QED BY <1>3, <1>4, <1>5, <1>6, <1>7, CardsMove

LEMMA NextDateKeepsInv == ASSUME DueInv, NextDate PROVE DueInv'
<1>1. /\ list' = list /\ list.at = "idle" /\ UNCHANGED <<card, received>> /\ answered' = <<>> /\ readded' = {}
      /\ newDone' = 0 /\ reviewsDone' = 0 /\ date' = date + 1 /\ date < MaxDate
  BY DEF NextDate
<1>2. date' \in 1 .. MaxDate
  BY <1>1, DueQueueAssumption DEF DueInv, DueTypeOK
<1>3. newDone' \in 0 .. MaxAnswers /\ reviewsDone' \in 0 .. MaxAnswers /\ newDone' + reviewsDone' = Len(answered')
  BY <1>1, DueQueueAssumption
<1>4. DueTypeOK'
  BY <1>1, <1>2, <1>3 DEF DueTypeOK, DueInv
<1>5. ToSet(answered') = {} /\ list.rows = {}
  BY <1>1 DEF ToSet, DueInv
<1>6. RowsPassed' /\ RowsApart' /\ RetriesKept' /\ BuriedToday' /\ ListAnswered'
  BY <1>1, <1>5 DEF RowsPassed, RowsApart, RetriesKept, BuriedToday, ListAnswered, DueInv
<1> QED BY <1>1, <1>3, <1>4, <1>6 DEF DueInv

LEMMA DueInvStep == DueInv /\ [DueNext]_dueVars => DueInv'
<1> SUFFICES ASSUME DueInv, [DueNext]_dueVars PROVE DueInv'
  OBVIOUS
<1>1. CASE \E limit \in ListLimits : ReadCounts(limit)
  BY <1>1, ReadCountsKeepsInv
<1>2. CASE FetchRetries \/ FetchReviews \/ FetchNew \/ ListSent
  BY <1>2, FetchRetriesKeepsInv, FetchReviewsKeepsInv, FetchNewKeepsInv, ListSentKeepsInv
<1>3. CASE \E c \in EditedCards : ArchiveCard(c) \/ ReaddCard(c)
  BY <1>3, DueQueueAssumption, ArchiveCardKeepsInv, ReaddCardKeepsInv
<1>4. CASE \E c \in DueCards, rating \in GivenRatings : RecordAnswer(c, rating)
  BY <1>4, RecordAnswerKeepsInv
<1>5. CASE NextDate
  BY <1>5, NextDateKeepsInv
<1>6. CASE UNCHANGED dueVars
  BY <1>6 DEF dueVars, DueInv, DueTypeOK, RowsPassed, RowsApart, RetriesKept, BuriedToday, ListAnswered,
     SameWord, IsRetry, Listable, Listed
<1> QED BY <1>1, <1>2, <1>3, <1>4, <1>5, <1>6 DEF DueNext

LEMMA DueInvAlways == DueSpec => []DueInv
  BY DueInvInit, DueInvStep, PTL DEF DueSpec

-----------------------------------------------------------------------------
(* No list holds a card twice: no two rows of the four statements are of    *)
(* one card, and shuffling keeps the rows.                                 *)
THEOREM ListHoldsCardOnce == DueSpec => []NoCardTwice
<1>1. DueInv => NoCardTwice
  <2> SUFFICES ASSUME DueInv PROVE NoCardTwice
    OBVIOUS
  <2>1. CASE list.at = "answered"
    <3> DEFINE Card == [r \in list.rows |-> r[1]]
    <3>1. /\ Listed = {r[1] : r \in list.rows} /\ Len(list.cards) = Cardinality(list.rows)
          /\ IsFiniteSet(list.rows)
      BY <2>1 DEF DueInv, ListAnswered
    <3>2. Card \in Bijection(list.rows, Listed)
      BY <3>1 DEF DueInv, RowsApart, Bijection, Injection, Surjection, IsInjective
    <3> HIDE DEF Card
    <3>3. Cardinality(list.rows) = Cardinality(Listed)
      BY <3>1, <3>2, FS_Bijection DEF ExistsBijection
    <3> QED BY <3>1, <3>3 DEF NoCardTwice
  <2>2. CASE list.at # "answered"
    <3>1. list.cards = <<>>
      BY <2>2 DEF DueInv, ListAnswered
    <3>2. Listed = {} /\ Len(list.cards) = 0
      BY <3>1 DEF Listed, ToSet
    <3> QED BY <3>2, FS_EmptySet DEF NoCardTwice
  <2> QED BY <2>1, <2>2
<1> QED BY <1>1, DueInvAlways, PTL

(* A card that waits for its retry while the list is put together is in it, *)
(* whatever the quotas say, unless retries alone fill the list.            *)
THEOREM RetriesGetListed == DueSpec => []RetriesListed
<1>1. DueInv => RetriesListed
  <2> SUFFICES ASSUME DueInv, list.at = "answered", Len(list.cards) < list.limit
               PROVE  list.retries \subseteq Listed
    BY DEF RetriesListed
  <2>1. /\ Listed = {r[1] : r \in list.rows} /\ Len(list.cards) = Cardinality(list.rows)
        /\ IsFiniteSet(list.rows)
    BY DEF DueInv, ListAnswered
  <2>2. Cardinality(list.rows) \in Nat /\ list.limit \in Nat
    BY <2>1, FS_CardinalityType, ListFields DEF DueInv, DueTypeOK
  <2>3. \A c \in list.retries : \E r \in list.rows : r[1] = c
    BY <2>1, <2>2 DEF DueInv, RetriesKept
  <2> QED BY <2>1, <2>3
<1> QED BY <1>1, DueInvAlways, PTL

(* A card is not listed on a day another sense of its word was answered     *)
(* before the list was asked for, unless it was added again.               *)
THEOREM BuriedStaysOut == DueSpec => []BuriedUntilTomorrow
<1>1. DueInv => BuriedUntilTomorrow
  BY DEF DueInv, ListAnswered, BuriedToday, BuriedUntilTomorrow
<1> QED BY <1>1, DueInvAlways, PTL

-----------------------------------------------------------------------------
(* What interleaving does to the senses of one word. *)

SensesUpTo(t, w, y) == Cardinality({j \in 1 .. y : LemmaOf[t[j]] = w})

LEMMA RoundsCountUp ==
  ASSUME NEW t, NEW w, NEW x \in Nat
  PROVE  /\ SensesUpTo(t, w, x) \in Nat
         /\ SensesUpTo(t, w, x + 1) = SensesUpTo(t, w, x) + (IF LemmaOf[t[x + 1]] = w THEN 1 ELSE 0)
<1> DEFINE Set(y) == {j \in 1 .. y : LemmaOf[t[j]] = w}
<1>1. 1 .. x + 1 = (1 .. x) \cup {x + 1} /\ x + 1 \notin 1 .. x
  OBVIOUS
<1>2. IsFiniteSet(1 .. x)
  BY FS_Interval
<1>3. IsFiniteSet(Set(x))
  BY <1>2, FS_Subset
<1>4. Cardinality(Set(x)) \in Nat
  BY <1>3, FS_CardinalityType
<1>5. CASE LemmaOf[t[x + 1]] = w
  <2>1. Set(x + 1) = Set(x) \cup {x + 1} /\ x + 1 \notin Set(x)
    BY <1>1, <1>5
  <2>2. Cardinality(Set(x + 1)) = Cardinality(Set(x)) + 1
    BY <1>3, <2>1, FS_AddElement
  <2> QED BY <1>4, <1>5, <2>2 DEF SensesUpTo
<1>6. CASE LemmaOf[t[x + 1]] # w
  <2>1. Set(x + 1) = Set(x)
    BY <1>1, <1>6
  <2>2. SensesUpTo(t, w, x + 1) = SensesUpTo(t, w, x)
    BY <2>1 DEF SensesUpTo
  <2>3. SensesUpTo(t, w, x) \in Nat
    BY <1>4 DEF SensesUpTo
  <2> QED BY <1>6, <2>2, <2>3
<1> QED BY <1>5, <1>6

LEMMA RoundIsCount ==
  ASSUME NEW t \in Seq(DueCards), NEW k \in DOMAIN t
  PROVE  Round(t, k) = SensesUpTo(t, LemmaOf[t[k]], k) /\ Round(t, k) \in Nat \ {0}
<1>1. k - 1 \in Nat /\ (k - 1) + 1 = k
  OBVIOUS
<1>2. Round(t, k) = SensesUpTo(t, LemmaOf[t[k]], k)
  BY DEF Round, SensesUpTo
<1>3. /\ SensesUpTo(t, LemmaOf[t[k]], k - 1) \in Nat
      /\ SensesUpTo(t, LemmaOf[t[k]], (k - 1) + 1) = SensesUpTo(t, LemmaOf[t[k]], k - 1) + 1
  BY <1>1, RoundsCountUp
<1> QED BY <1>1, <1>2, <1>3

(* The senses of a word that a list holds are in every round up to the     *)
(* last one's.                                                             *)
LEMMA RoundReached ==
  ASSUME NEW t \in Seq(DueCards), NEW k \in DOMAIN t, NEW r \in Nat \ {0}, r <= Round(t, k)
  PROVE  \E j \in DOMAIN t : LemmaOf[t[j]] = LemmaOf[t[k]] /\ Round(t, j) = r
<1> DEFINE w == LemmaOf[t[k]]
           N(y) == SensesUpTo(t, w, y)
           T == {y \in 0 .. k : r <= N(y)}
<1>1. k \in Nat \ {0} /\ k <= Len(t) /\ DOMAIN t = 1 .. Len(t) /\ Len(t) \in Nat
  OBVIOUS
<1>2. N(0) = 0
  <2>1. {j \in 1 .. 0 : LemmaOf[t[j]] = w} = {}
    OBVIOUS
  <2> QED BY <2>1, FS_EmptySet DEF SensesUpTo
<1>3. T \in SUBSET Nat /\ k \in T
  BY <1>1, RoundIsCount
<1>4. PICK x \in T : \A y \in T : x <= y
  BY <1>3, LeastNumber
<1>5. x \in Nat \ {0} /\ x <= k /\ r <= N(x)
  BY <1>1, <1>2, <1>4
<1>6. x - 1 \in Nat /\ (x - 1) + 1 = x /\ x - 1 \in 0 .. k /\ x - 1 \notin T
  BY <1>1, <1>4, <1>5
<1>7. ~(r <= N(x - 1))
  BY <1>6
<1>8. /\ N(x - 1) \in Nat
      /\ N(x) = N(x - 1) + (IF LemmaOf[t[x]] = w THEN 1 ELSE 0)
  <2> DEFINE y == x - 1
  <2>1. y \in Nat /\ x = y + 1
    BY <1>6
  <2> HIDE DEF y
  <2>2. /\ SensesUpTo(t, w, y) \in Nat
        /\ SensesUpTo(t, w, y + 1) = SensesUpTo(t, w, y) + (IF LemmaOf[t[y + 1]] = w THEN 1 ELSE 0)
    BY <2>1, RoundsCountUp
  <2>3. /\ SensesUpTo(t, w, y) \in Nat
        /\ SensesUpTo(t, w, x) = SensesUpTo(t, w, y) + (IF LemmaOf[t[x]] = w THEN 1 ELSE 0)
    BY <2>1, <2>2
  <2> QED BY <2>3 DEF y
<1> HIDE DEF N
<1>9. N(x) = r /\ LemmaOf[t[x]] = w
  <2>1. CASE LemmaOf[t[x]] = w
    BY <1>5, <1>7, <1>8, <2>1
  <2>2. CASE LemmaOf[t[x]] # w
    BY <1>5, <1>7, <1>8, <2>2
  <2> QED BY <2>1, <2>2
<1>10. x \in DOMAIN t
  BY <1>1, <1>5
<1>11. Round(t, x) = r
  BY <1>9, <1>10, RoundIsCount DEF N
<1> QED BY <1>9, <1>10, <1>11 DEF w

(* Where two senses of a word follow each other in a group, only senses of  *)
(* that word follow: another word would have sent a sense in between.      *)
LEMMA OnlyWordLeft ==
  ASSUME NEW t \in Seq(DueCards), Interleaved(t), NEW i \in DOMAIN t, i + 1 \in DOMAIN t,
         LemmaOf[t[i]] = LemmaOf[t[i + 1]], NEW k \in DOMAIN t, i <= k
  PROVE  LemmaOf[t[k]] = LemmaOf[t[i]]
<1> SUFFICES ASSUME LemmaOf[t[k]] # LemmaOf[t[i]] PROVE FALSE
  OBVIOUS
<1>1. DOMAIN t \subseteq Nat \ {0} /\ k > i + 1
  OBVIOUS
<1>2. \A x \in DOMAIN t : Round(t, x) \in Nat \ {0}
  BY RoundIsCount
<1>3. Round(t, i + 1) = Round(t, i) + 1
  <2>1. /\ Round(t, i + 1) = SensesUpTo(t, LemmaOf[t[i]], i + 1)
        /\ Round(t, i) = SensesUpTo(t, LemmaOf[t[i]], i)
    BY RoundIsCount
  <2>2. SensesUpTo(t, LemmaOf[t[i]], i + 1) = SensesUpTo(t, LemmaOf[t[i]], i) + 1
    BY <1>1, RoundsCountUp
  <2> QED BY <2>1, <2>2
<1>4. \A x, y \in DOMAIN t : x < y =>
        Round(t, x) < Round(t, y) \/ (Round(t, x) = Round(t, y) /\ CameUpFirst(t, x, y))
  BY DEF Interleaved
<1>5. Round(t, i + 1) <= Round(t, k)
  BY <1>1, <1>2, <1>4
<1>6. PICK j \in DOMAIN t : LemmaOf[t[j]] = LemmaOf[t[k]] /\ Round(t, j) = Round(t, i)
  <2>1. Round(t, i) \in Nat \ {0} /\ Round(t, i) <= Round(t, k)
    BY <1>2, <1>3, <1>5
  <2> QED BY <2>1, RoundReached
<1>7. PICK l \in DOMAIN t : LemmaOf[t[l]] = LemmaOf[t[k]] /\ Round(t, l) = Round(t, i + 1)
  <2>1. Round(t, i + 1) \in Nat \ {0}
    BY <1>2
  <2> QED BY <1>5, <2>1, RoundReached
<1>8. j # i /\ j # i + 1 /\ l # i /\ l # i + 1
  BY <1>6, <1>7
<1>9. j < i
  <2>1. ~(i + 1 < j)
    BY <1>2, <1>3, <1>4, <1>6
  <2> QED BY <1>1, <1>8, <2>1
<1>10. CameUpFirst(t, j, i)
  BY <1>2, <1>4, <1>6, <1>9
<1>11. CASE l < i
  BY <1>2, <1>3, <1>4, <1>7, <1>11
<1>12. CASE i + 1 < l
  <2>1. CameUpFirst(t, i + 1, l)
    BY <1>2, <1>4, <1>7, <1>12
  <2>2. PICK x \in DOMAIN t :
          LemmaOf[t[x]] = LemmaOf[t[j]] /\ \A y \in DOMAIN t : LemmaOf[t[y]] = LemmaOf[t[i]] => x < y
    BY <1>10 DEF CameUpFirst
  <2>3. PICK z \in DOMAIN t :
          LemmaOf[t[z]] = LemmaOf[t[i + 1]] /\ \A y \in DOMAIN t : LemmaOf[t[y]] = LemmaOf[t[l]] => z < y
    BY <2>1 DEF CameUpFirst
  <2>4. x < z /\ z < x
    BY <1>6, <1>7, <2>2, <2>3
  <2> QED BY <1>1, <2>4
<1> QED BY <1>1, <1>8, <1>11, <1>12

-----------------------------------------------------------------------------
(* A list is two groups, each of them interleaved. *)
Grouped(cards, split) ==
  \E head \in Seq(DueCards), tail \in Seq(DueCards) :
    /\ cards = head \o tail /\ split = Len(head)
    /\ Interleaved(head) /\ Interleaved(tail)

TwoGroups == list.at = "answered" => Grouped(list.cards, list.split)

LEMMA TwoGroupsStep == DueInv /\ TwoGroups /\ [DueNext]_dueVars => TwoGroups'
<1> SUFFICES ASSUME DueInv, TwoGroups, [DueNext]_dueVars, list'.at = "answered" PROVE TwoGroups'
  BY DEF TwoGroups
<1>1. list \in DueList
  BY DEF DueInv, DueTypeOK
<1>2. CASE list' = list
  BY <1>2 DEF TwoGroups
<1>3. CASE TrackRetries
  <2>1. list'.at = list.at /\ list'.cards = list.cards /\ list'.split = list.split
    BY <1>1, <1>3 DEF TrackRetries, DueList
  <2> QED BY <2>1 DEF TwoGroups
<1>4. CASE FetchNew
  <2> DEFINE set == {c \in DueCards : IsDueNew(c)}
  <2>1. PICK s \in SUBSET set :
          \E head \in Mixed(list.rows), tail \in Mixed(s \X {"new"}) :
            list' = [list EXCEPT !.at = "answered", !.rows = @ \cup (s \X {"new"}),
                                 !.cards = head \o tail, !.split = Len(head)]
    BY <1>4 DEF FetchNew
  <2>2. PICK head \in Mixed(list.rows), tail \in Mixed(s \X {"new"}) :
          list'.cards = head \o tail /\ list'.split = Len(head)
    BY <1>1, <2>1 DEF DueList
  <2>3. s \X {"new"} \in SUBSET ListRow /\ IsFiniteSet(s \X {"new"}) /\ s \in SUBSET DueCards
    BY RowsFinite, FS_EmptySet DEF ListRow
  <2>4. list.rows \in SUBSET ListRow /\ IsFiniteSet(list.rows)
    BY <1>1, ListFields DEF DueInv
  <2>5. /\ head \in Seq(DueCards) /\ Interleaved(head)
        /\ tail \in Seq(DueCards) /\ Interleaved(tail)
    BY <2>3, <2>4, MixedCovers
  <2>6. Grouped(list'.cards, list'.split)
    BY <2>2, <2>5 DEF Grouped
  <2> QED BY <2>6 DEF TwoGroups
<1>5. CASE \E limit \in ListLimits : ReadCounts(limit)
  BY <1>5 DEF ReadCounts
<1>6. CASE FetchRetries \/ FetchReviews \/ ListSent
  BY <1>1, <1>6, NoListType DEF FetchRetries, FetchReviews, ListSent, DueList
<1>7. /\ \A c \in EditedCards : ArchiveCard(c) \/ ReaddCard(c) => TrackRetries
      /\ \A c \in DueCards, rating \in GivenRatings : RecordAnswer(c, rating) => TrackRetries
      /\ NextDate => list' = list
  BY DEF ArchiveCard, ReaddCard, RecordAnswer, NextDate
<1> QED BY <1>2, <1>3, <1>4, <1>5, <1>6, <1>7 DEF DueNext, dueVars

Joined(all, head, tail, h, g) ==
  /\ head \in Seq(DueCards) /\ Interleaved(head) /\ DOMAIN head = 1 .. h /\ h \in Nat
  /\ tail \in Seq(DueCards) /\ Interleaved(tail) /\ DOMAIN tail = 1 .. g /\ g \in Nat
  /\ \A x \in 1 .. h : all[x] = head[x]
  /\ \A x \in 1 .. g : all[h + x] = tail[x]

LEMMA OnlyWordLeftOfGroup ==
  ASSUME NEW all, NEW head, NEW tail, NEW h, NEW g, Joined(all, head, tail, h, g),
         NEW i \in Nat \ {0}, i < h + g, i # h, LemmaOf[all[i]] = LemmaOf[all[i + 1]],
         NEW k \in Nat, i <= k, k <= h + g, i < h => k <= h
  PROVE  LemmaOf[all[k]] = LemmaOf[all[i]]
<1> USE DEF Joined
<1>1. CASE i < h
  <2>1. i \in 1 .. h /\ i + 1 \in 1 .. h /\ k \in 1 .. h
    BY <1>1
  <2>2. LemmaOf[head[i]] = LemmaOf[head[i + 1]]
    BY <2>1
  <2>3. i \in DOMAIN head /\ i + 1 \in DOMAIN head /\ k \in DOMAIN head /\ all[k] = head[k] /\ all[i] = head[i]
    BY <2>1
  <2>4. LemmaOf[head[k]] = LemmaOf[head[i]]
    BY <2>2, <2>3, OnlyWordLeft
  <2> QED BY <2>3, <2>4
<1>2. CASE i > h
  <2>1. PICK m \in Nat : i = h + m
    <3>1. i - h \in Nat /\ i = h + (i - h)
      BY <1>2
    <3> QED BY <3>1
  <2>2. PICK n \in Nat : k = h + n
    <3>1. k - h \in Nat /\ k = h + (k - h)
      BY <1>2
    <3> QED BY <3>1
  <2>3. m \in 1 .. g /\ m + 1 \in 1 .. g /\ n \in 1 .. g /\ m <= n
    BY <1>2, <2>1, <2>2
  <2>4. i + 1 = h + (m + 1)
    BY <2>1
  <2>5. all[i] = tail[m] /\ all[i + 1] = tail[m + 1] /\ all[k] = tail[n]
    BY <2>1, <2>2, <2>3, <2>4
  <2>6. m \in DOMAIN tail /\ m + 1 \in DOMAIN tail /\ n \in DOMAIN tail /\ LemmaOf[tail[m]] = LemmaOf[tail[m + 1]]
    BY <2>3, <2>5
  <2>7. LemmaOf[tail[n]] = LemmaOf[tail[m]]
    BY <2>3, <2>6, OnlyWordLeft
  <2> QED BY <2>5, <2>7
<1> QED BY <1>1, <1>2

LEMMA LemmasOfRun ==
  ASSUME NEW from \in Nat, NEW to \in Nat, from <= to,
         \A k \in from .. to : LemmaOf[list.cards[k]] = LemmaOf[list.cards[from]]
  PROVE  Cardinality(Lemmas(from, to)) = 1
<1>1. from \in from .. to
  OBVIOUS
<1>2. Lemmas(from, to) = {LemmaOf[list.cards[from]]}
  BY <1>1 DEF Lemmas
<1> QED BY <1>2, FS_Singleton

(* Two senses of a word follow each other only where nothing else is left   *)
(* of their group, for any order that the shuffles lead to.                *)
THEOREM SensesStayApart == DueSpec => []SensesApart
<1>1. DueInit => TwoGroups
  BY NoListType DEF DueInit, TwoGroups
<1>2. DueInv /\ TwoGroups => SensesApart
  <2> SUFFICES ASSUME DueInv, TwoGroups, list.at = "answered", NEW i \in 1 .. Len(list.cards) - 1,
                      LemmaOf[list.cards[i]] = LemmaOf[list.cards[i + 1]], i # list.split
               PROVE  Cardinality(Lemmas(i, IF i < list.split THEN list.split ELSE Len(list.cards))) = 1
    BY DEF SensesApart
  <2> DEFINE all == list.cards
  <2>1. PICK head \in Seq(DueCards), tail \in Seq(DueCards) :
          /\ all = head \o tail /\ list.split = Len(head)
          /\ Interleaved(head) /\ Interleaved(tail)
    BY DEF TwoGroups, Grouped
  <2> DEFINE end == IF i < list.split THEN list.split ELSE Len(all)
  <2>2. /\ Len(head) \in Nat /\ Len(all) \in Nat /\ Len(head) <= Len(all)
        /\ i \in Nat \ {0} /\ i < Len(all)
    BY <2>1
  <2>3. end \in Nat /\ i <= end /\ end <= Len(all) /\ (i < Len(head) => end <= Len(head))
    BY <2>1, <2>2
  <2> HIDE DEF end, all
  <2>4. ASSUME NEW k \in i .. end PROVE LemmaOf[all[k]] = LemmaOf[all[i]]
    <3>1. k \in Nat /\ i <= k /\ k <= Len(all) /\ (i < Len(head) => k <= Len(head))
      BY <2>2, <2>3
    <3>2. LemmaOf[all[i]] = LemmaOf[all[i + 1]] /\ i # Len(head)
      BY <2>1 DEF all
    <3>3. /\ DOMAIN head = 1 .. Len(head) /\ DOMAIN tail = 1 .. Len(tail)
          /\ Len(head) \in Nat /\ Len(tail) \in Nat /\ Len(all) = Len(head) + Len(tail)
          /\ \A x \in 1 .. Len(head) : all[x] = head[x]
          /\ \A x \in 1 .. Len(tail) : all[Len(head) + x] = tail[x]
      BY <2>1 DEF all
    <3> DEFINE h == Len(head)
               g == Len(tail)
    <3>4. i \in Nat \ {0} /\ i < h + g /\ i # h /\ k \in Nat /\ i <= k /\ k <= h + g /\ (i < h => k <= h)
      BY <2>2, <3>1, <3>2, <3>3
    <3>5. Joined(all, head, tail, h, g)
      BY <2>1, <3>3 DEF Joined
    <3> HIDE DEF h, g
    <3> QED BY <3>2, <3>4, <3>5, OnlyWordLeftOfGroup
  <2> QED BY <2>2, <2>3, <2>4, LemmasOfRun DEF end, all
<1> QED BY <1>1, <1>2, TwoGroupsStep, DueInvAlways, PTL DEF DueSpec

===============================================================================
