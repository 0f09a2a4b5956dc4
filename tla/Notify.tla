-------------------------------- MODULE Notify --------------------------------
(***************************************************************************)
(* The notification worker (backend/internal/notify/worker.go) and what it *)
(* asks of words/notifications.go.  A tick first builds the list of all    *)
(* users to remind and then sends and records, one user after the other.   *)
(* The clock counts hours; several ticks may fall into one hour.           *)
(***************************************************************************)
EXTENDS Integers, FiniteSets, Sequences

CONSTANTS
  NotifyUsers,      \* users
  ReviewHours,      \* the hours of recent reviews users may have, sequences of 0 .. 23
  Backoff,          \* notificationBackoff, in hours
  FirstHour,        \* bound: the hours the run goes through
  LastHour

ASSUME NotifyAssumption ==
  /\ ReviewHours \subseteq Seq(0 .. 23)
  /\ Backoff \in Nat
  /\ FirstHour \in Nat \ {0} /\ LastHour \in Nat /\ FirstHour <= LastHour

VARIABLES
  clock,      \* the hour
  hours,      \* hours of each user's recent review attempts
  devices,    \* users with a row in device_push_tokens
  waiting,    \* users with cards due or slipping
  sentAt,     \* latest row of notification_sends per user, 0 for none
  worker,     \* the tick under way
  pushed      \* history: the last push a user received, and whether it was recorded

notifyVars == <<clock, hours, devices, waiting, sentAt, worker, pushed>>

WorkerSteps == {"idle", "build", "send", "record"}
IdleWorker == [at |-> "idle", now |-> 0, left |-> {}, chosen |-> {}, user |-> {}]
NeverPushed == [hour |-> 0, recorded |-> FALSE]

NotifyTypeOK ==
  /\ clock \in FirstHour .. LastHour
  /\ hours \in [NotifyUsers -> ReviewHours]
  /\ devices \subseteq NotifyUsers
  /\ waiting \subseteq NotifyUsers
  /\ sentAt \in [NotifyUsers -> 0 .. LastHour]
  /\ worker \in [at : WorkerSteps, now : 0 .. LastHour, left : SUBSET NotifyUsers,
                 chosen : SUBSET NotifyUsers, user : SUBSET NotifyUsers]
  /\ pushed \in [NotifyUsers -> [hour : 0 .. LastHour, recorded : BOOLEAN]]

(* The k-th smallest member of a sequence of numbers. *)
KthHour(s, k) ==
  CHOOSE h \in 0 .. 23 :
    /\ Cardinality({i \in DOMAIN s : s[i] < h}) < k
    /\ Cardinality({i \in DOMAIN s : s[i] <= h}) >= k
    /\ \E i \in DOMAIN s : s[i] = h

(* The median, on a line from 0 to 23, and 9 without reviews. *)
PreferredReviewHourUTC(s) ==
  LET half == Len(s) \div 2 IN
  IF s = <<>> THEN 9
  ELSE IF Len(s) % 2 = 0 THEN (KthHour(s, half) + KthHour(s, half + 1)) \div 2
  ELSE KthHour(s, half + 1)

Distance(a, b) == IF a < b THEN b - a ELSE a - b

WithinPreferredSendWindow(now, hour) ==
  \/ Distance(now % 24, hour) <= 1
  \/ hour <= 1 /\ now % 24 >= 23
  \/ hour >= 23 /\ now % 24 <= 1

(* Mutant: the first hours after a send are not counted. *)
BackoffIgnoresLast(u, now) == sentAt[u] = 0 \/ now - sentAt[u] + 1 >= Backoff

BackoffOver(u, now) == sentAt[u] = 0 \/ now - sentAt[u] >= Backoff
-----------------------------------------------------------------------------
NotifyInit ==
  /\ clock = FirstHour
  /\ hours \in [NotifyUsers -> ReviewHours]
  /\ devices = {}
  /\ waiting = NotifyUsers
  /\ sentAt = [u \in NotifyUsers |-> 0]
  /\ worker = IdleWorker
  /\ pushed = [u \in NotifyUsers |-> NeverPushed]

RegisterPushToken(u) ==
  /\ devices' = devices \cup {u}
  /\ UNCHANGED <<clock, hours, waiting, sentAt, worker, pushed>>

StartTick ==
  /\ worker.at = "idle"
  /\ worker' = [at |-> "build", now |-> clock, left |-> devices, chosen |-> {}, user |-> {}]
  /\ UNCHANGED <<clock, hours, devices, waiting, sentAt, pushed>>

(* buildUserNotificationCandidate; the time is that of the tick's start.   *)
Evaluate(u) ==
  /\ worker.at = "build" /\ u \in worker.left
  /\ worker' = [worker EXCEPT !.left = @ \ {u}, !.chosen =
       IF /\ BackoffOver(u, worker.now)
          /\ WithinPreferredSendWindow(worker.now, PreferredReviewHourUTC(hours[u]))
          /\ u \in waiting
       THEN @ \cup {u} ELSE @]
  /\ UNCHANGED <<clock, hours, devices, waiting, sentAt, pushed>>

AllEvaluated ==
  /\ worker.at = "build" /\ worker.left = {}
  /\ worker' = [worker EXCEPT !.at = "send"]
  /\ UNCHANGED <<clock, hours, devices, waiting, sentAt, pushed>>

(* One error ends the whole tick, whoever else was to be reminded; so does *)
(* a crash, after which a new worker ticks at once.                        *)
EndTick ==
  /\ worker.at # "idle"
  /\ worker' = IdleWorker
  /\ UNCHANGED <<clock, hours, devices, waiting, sentAt, pushed>>

(* The push is delivered and the answer arrives. *)
SendPush(u) ==
  /\ worker.at = "send" /\ u \in worker.chosen
  /\ pushed' = [pushed EXCEPT ![u] = [hour |-> clock, recorded |-> FALSE]]
  /\ worker' = [worker EXCEPT !.at = "record", !.chosen = @ \ {u}, !.user = {u}]
  /\ UNCHANGED <<clock, hours, devices, waiting, sentAt>>

(* An error from the push service, which may have delivered all the same.  *)
SendFails(u) ==
  /\ worker.at = "send" /\ u \in worker.chosen
  /\ pushed' \in {pushed, [pushed EXCEPT ![u] = [hour |-> clock, recorded |-> FALSE]]}
  /\ worker' = [worker EXCEPT !.chosen = @ \ {u}]
  /\ UNCHANGED <<clock, hours, devices, waiting, sentAt>>

RecordNotificationSend ==
  /\ worker.at = "record"
  /\ \E u \in worker.user :
       /\ sentAt' = [sentAt EXCEPT ![u] = clock]
       /\ pushed' = [pushed EXCEPT ![u].recorded = TRUE]
  /\ worker' = [worker EXCEPT !.at = "send", !.user = {}]
  /\ UNCHANGED <<clock, hours, devices, waiting>>

RecordFails ==
  /\ worker.at = "record"
  /\ worker' = [worker EXCEPT !.at = "send", !.user = {}]
  /\ UNCHANGED <<clock, hours, devices, waiting, sentAt, pushed>>

(* Bound: a tick does not outlast an hour's end by more than one. *)
NextHour ==
  /\ clock < LastHour
  /\ worker.at = "idle" \/ worker.now = clock
  /\ clock' = clock + 1
  /\ waiting' \in SUBSET NotifyUsers
  /\ UNCHANGED <<hours, devices, sentAt, worker, pushed>>

NotifyNext ==
  \/ StartTick \/ AllEvaluated \/ EndTick \/ RecordNotificationSend \/ RecordFails \/ NextHour
  \/ \E u \in NotifyUsers : RegisterPushToken(u) \/ Evaluate(u) \/ SendPush(u) \/ SendFails(u)

NotifySpec == NotifyInit /\ [][NotifyNext]_notifyVars
-----------------------------------------------------------------------------
(* A user is reminded again within the backoff only if the last reminder   *)
(* was not recorded: the insert failed, the worker died before it, or the  *)
(* push service reported an error for a push it delivered.                 *)
RemindersSpaced ==
  [][\A u \in NotifyUsers :
       pushed'[u] # pushed[u] /\ pushed[u].recorded
         => pushed'[u].hour - pushed[u].hour >= Backoff]_notifyVars
=============================================================================
