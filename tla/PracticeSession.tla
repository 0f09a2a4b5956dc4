-------------------------- MODULE PracticeSession --------------------------
(***************************************************************************)
(* The client's practice session (frontend/src/features/practice/          *)
(* PracticeScreen.tsx): a queue of due cards, the answers the learner      *)
(* gives, and the background saver that posts them in batches over a lossy *)
(* network while the learner goes on.                                      *)
(*                                                                         *)
(* One action is one task of the JavaScript event loop: a handler, a timer *)
(* or the continuation of an awaited request.  The server applies a batch  *)
(* atomically (ReviewStore) and is reduced here to the rows it recorded    *)
(* and the cards that take no review any more.                             *)
(***************************************************************************)
EXTENDS Integers, FiniteSets, Sequences, SequencesExt, Functions

CONSTANTS
  Cards,         \* user_word_sense ids the learner practises
  NearLeech,     \* those one lapse from being suspended as leeches
  ArchivedElsewhere, \* those another device may archive during the session
  MaxAnswers,    \* bound: answers given
  MaxFailures,   \* bound: batch requests that time out or fail
  MaxLists,      \* bound: requests for a list of cards
  MaxReloads     \* bound: reloads of the app

ASSUME PracticeAssumption ==
  /\ IsFiniteSet(Cards)
  /\ NearLeech \subseteq Cards /\ ArchivedElsewhere \subseteq Cards
  /\ MaxAnswers \in Nat /\ MaxFailures \in Nat /\ MaxLists \in Nat /\ MaxReloads \in Nat

VARIABLES
  status,      \* what the screen shows
  mode,        \* sessionMode: the due cards, or a repeat of all of them
  dueItems,    \* the cards the session started with
  queue, index,\* the cards to show; queue[index + 1] is the current one
  attempts,    \* the answers of this session
  face,        \* isFlipped, and the card the learner turned when he did
  pending,     \* pendingRef: answers not yet sent
  call,        \* flushingRef: the batch request being awaited, 0 for none
  timer,       \* a setTimeout(flushPending) is scheduled
  finishing,   \* a waitForPendingFlushes().then(success) is running
  lists,       \* the requests for cards not yet answered
  calls,       \* every batch request made, and what the server did with it
  log,         \* server: the review_attempts rows
  unavailable, \* server: the archived and suspended cards
  answers,     \* history: every answer the learner gave
  dropped,     \* history: the answers a refusal or a reload threw away
  told,        \* history: the cards this session was told are unavailable
  failures, listed, reloads  \* the bounded counters

screen == <<status, mode, dueItems, queue, index, attempts, face, told>>
saver  == <<pending, call, timer, finishing, dropped>>
server == <<log, unavailable>>
bounds == <<failures, listed, reloads>>
vars   == <<screen, saver, server, bounds, lists, calls, answers>>

None == "none"
Answer == [n : 1..MaxAnswers, card : Cards, passed : BOOLEAN]
Statuses == {"idle", "loading_due", "loading_repeat", "active", "submitting", "success"}

\* A mutant: the graded slots go too.
WithoutAny(q, from, gone) == SelectSeq(q, LAMBDA c : c \notin gone)

\* applyDueItemUpdatesToList filters by index: the cards already shown keep their slots.
Without(q, from, gone) ==
  LET kept[n \in 0..Len(q)] ==
        IF n = 0 THEN <<>>
        ELSE IF n <= from \/ q[n] \notin gone THEN Append(kept[n - 1], q[n])
        ELSE kept[n - 1]
  IN  kept[Len(q)]

Shuffles(q) == {[i \in DOMAIN q |-> q[p[i]]] : p \in Bijection(DOMAIN q, DOMAIN q)}

\* Mutants: put back at any place; not put back.
RetryAnywhere(tail, card) ==
  UNION {{InsertAt(s, k, card) : k \in 1..Len(tail) + 1} : s \in Shuffles(tail)}

RetryNever(tail, card) == {tail}

\* insertRetryCard: shuffled into what is left, at least two cards later if there are two.
RetryPlaces(tail, card) ==
  UNION {{InsertAt(s, k, card) : k \in Min({2, Len(tail)}) + 1..Len(tail) + 1} : s \in Shuffles(tail)}

HasCard == index < Len(queue)
Current == queue[index + 1]

\* A mutant: the last card is overlooked.
QueueOverrun == Len(queue) > 0 /\ index > Len(queue)

QueueFinished ==
  \/ Len(queue) > 0 /\ index >= Len(queue)
  \/ Len(queue) = 0 /\ index > 0 /\ attempts # {}

Saved == pending = <<>> /\ call = 0

InFlight == IF call = 0 THEN {} ELSE Range(calls[call].batch)
Unsaved == Range(pending) \cup InFlight

Passed == {a.card : a \in {b \in attempts : b.passed}}

-----------------------------------------------------------------------------
Init ==
  /\ status = "idle" /\ mode = "normal" /\ dueItems = <<>> /\ queue = <<>> /\ index = 0
  /\ attempts = {} /\ face = None /\ told = {}
  /\ pending = <<>> /\ call = 0 /\ timer = FALSE /\ finishing = FALSE /\ dropped = {}
  /\ lists = {} /\ calls = <<>> /\ log = <<>> /\ unavailable = {} /\ answers = {}
  /\ failures = 0 /\ listed = 0 /\ reloads = 0

\* The screen gains focus, or "refresh" is pressed: the due cards are asked for.
Focus ==
  /\ status \notin {"active", "submitting"}
  /\ listed < MaxLists
  /\ status' = "loading_due" /\ mode' = "normal"
  /\ lists' = lists \cup {[id |-> listed + 1, kind |-> "due", read |-> FALSE, cards |-> {}]}
  /\ listed' = listed + 1
  /\ UNCHANGED <<dueItems, queue, index, attempts, face, told, saver, server, failures, reloads, calls, answers>>

StartRepeat ==
  /\ status = "idle"
  /\ listed < MaxLists
  /\ status' = "loading_repeat"
  /\ lists' = lists \cup {[id |-> listed + 1, kind |-> "repeat", read |-> FALSE, cards |-> {}]}
  /\ listed' = listed + 1
  /\ UNCHANGED <<mode, dueItems, queue, index, attempts, face, told, saver, server, failures, reloads, calls, answers>>

\* Server: a card is due until the last recorded answer to it passes.
DueNow ==
  {c \in Cards \ unavailable :
     LET rows == SelectSeq(log, LAMBDA a : a.card = c)
     IN  rows = <<>> \/ ~Last(rows).passed}

ReadList(l) ==
  /\ ~l.read
  /\ lists' = (lists \ {l}) \cup
       {[l EXCEPT !.read = TRUE, !.cards = IF l.kind = "due" THEN DueNow ELSE Cards \ unavailable]}
  /\ UNCHANGED <<screen, saver, server, bounds, calls, answers>>

StartSession(l) ==
  /\ l.cards # {}
  /\ \E q \in Shuffles(SetToSeq(l.cards)) : dueItems' = q /\ queue' = q
  /\ mode' = IF l.kind = "repeat" THEN "repeat" ELSE mode
  /\ index' = 0 /\ attempts' = {} /\ face' = None /\ told' = {}
  /\ status' = "active"

NothingToPractise(l) ==
  /\ l.cards = {}
  /\ IF l.kind = "due" THEN dueItems' = <<>> /\ queue' = <<>> ELSE UNCHANGED <<dueItems, queue>>
  /\ status' = "idle"
  /\ UNCHANGED <<mode, index, attempts, face, told>>

ListArrives(l) ==
  /\ l.read
  /\ StartSession(l) \/ NothingToPractise(l)
  /\ lists' = lists \ {l}
  /\ UNCHANGED <<saver, server, bounds, calls, answers>>

ListFails(l) ==
  /\ failures < MaxFailures
  /\ status' = "idle"
  /\ lists' = lists \ {l}
  /\ failures' = failures + 1
  /\ UNCHANGED <<mode, dueItems, queue, index, attempts, face, told, saver, server, listed, reloads, calls, answers>>

-----------------------------------------------------------------------------
\* flushPending takes everything unsent into one request, unless one is under way.
Flush(unsent) ==
  IF call # 0 \/ unsent = <<>>
  THEN pending' = unsent /\ UNCHANGED <<call, calls>>
  ELSE /\ calls' = Append(calls, [batch |-> unsent, state |-> "sent", off |-> {}])
       /\ call' = Len(calls) + 1
       /\ pending' = <<>>

Reveal ==
  /\ status = "active" /\ HasCard /\ face = None
  /\ face' = Current
  /\ UNCHANGED <<status, mode, dueItems, queue, index, attempts, told, saver, server, bounds, lists, calls, answers>>

\* confirmGrade: the answer goes to the card now under the index; a failed card is queued
\* again, and a repeat session that runs out goes round once more.
NextQueues(passed) ==
  LET next == index + 1
      kept == IF passed THEN {queue}
              ELSE {SubSeq(queue, 1, next) \o t :
                      t \in RetryPlaces(SubSeq(queue, next + 1, Len(queue)), Current)}
  IN  UNION {IF mode = "repeat" /\ dueItems # <<>> /\ next >= Len(q)
             THEN {q \o more : more \in Shuffles(dueItems)}
             ELSE {q} : q \in kept}

Grade(passed) ==
  /\ status = "active" /\ HasCard /\ face # None
  /\ Cardinality(answers) < MaxAnswers
  /\ LET answer == [n |-> Cardinality(answers) + 1, card |-> Current, passed |-> passed]
     IN  /\ answers' = answers \cup {answer}
         /\ attempts' = attempts \cup {answer}
         /\ Flush(Append(pending, answer))
  /\ queue' \in NextQueues(passed)
  /\ index' = index + 1
  /\ face' = None
  /\ UNCHANGED <<status, mode, dueItems, told, timer, finishing, dropped, server, bounds, lists>>

\* A scheduled retry, or the poll of a waiter, runs flushPending.
FlushLater ==
  /\ timer
  /\ timer' = FALSE
  /\ Flush(pending)
  /\ UNCHANGED <<screen, finishing, dropped, server, bounds, lists, answers>>

\* A mutant: nothing scheduled for what is still unsent.
SettleIdle(unsent) ==
  /\ call' = 0
  /\ pending' = unsent
  /\ UNCHANGED timer

\* The finally block of flushPending.
Settle(unsent) ==
  /\ call' = 0
  /\ pending' = unsent
  /\ timer' = (timer \/ unsent # <<>>)

\* Cards a reply declares gone leave the part of the queue not yet shown.
ForgetCards(gone) ==
  /\ queue' = Without(queue, index, gone)
  /\ told' = told \cup gone

\* 200: the suspended cards leave the session.
BatchSaved ==
  /\ call # 0 /\ calls[call].state = "applied"
  /\ LET off == calls[call].off
     IN ForgetCards(off) /\ dueItems' = Without(dueItems, 0, off)
  /\ Settle(pending)
  /\ UNCHANGED <<status, mode, index, attempts, face, finishing, dropped, server, bounds, lists, calls, answers>>

\* 409, not retryable: the whole batch is thrown away, and all its cards leave the queue.
BatchRefused ==
  /\ call # 0 /\ calls[call].state = "refused"
  /\ LET batch == calls[call].batch
     IN /\ ForgetCards({batch[i].card : i \in DOMAIN batch})
        /\ dropped' = dropped \cup Range(batch)
  /\ Settle(pending)
  /\ UNCHANGED <<status, mode, dueItems, index, attempts, face, finishing, server, bounds, lists, calls, answers>>

\* Mutants: behind the newer answers; not at all.
RequeuedLast(batch) == pending \o batch
RequeuedNever(batch) == pending

Requeued(batch) == batch \o pending

\* Timeout, network error or 5xx: the batch goes back to the front; the server may still
\* receive it.
BatchFails ==
  /\ call # 0 /\ failures < MaxFailures
  /\ failures' = failures + 1
  /\ Settle(Requeued(calls[call].batch))
  /\ UNCHANGED <<screen, finishing, dropped, server, listed, reloads, lists, calls, answers>>

-----------------------------------------------------------------------------
\* The effect that notices the end of the queue starts a waiter.
NoticeEnd ==
  /\ status = "active" /\ mode = "normal" /\ QueueFinished
  /\ ~finishing
  /\ finishing' = TRUE
  /\ Flush(pending)
  /\ UNCHANGED <<screen, timer, dropped, server, bounds, lists, answers>>

\* A mutant: no request under way is taken for everything saved.
WaiterHasty ==
  /\ finishing /\ call = 0
  /\ finishing' = FALSE
  /\ status' = "success"
  /\ UNCHANGED <<mode, dueItems, queue, index, attempts, face, told, pending, call, timer, dropped, server, bounds, lists, calls, answers>>

\* A waiter sees everything saved.
WaiterDone ==
  /\ finishing /\ Saved
  /\ finishing' = FALSE
  /\ status' = "success"
  /\ UNCHANGED <<mode, dueItems, queue, index, attempts, face, told, pending, call, timer, dropped, server, bounds, lists, calls, answers>>

\* "End session" of a normal session: what is unsaved is left to the timers.
EndSession ==
  /\ status = "active" /\ mode = "normal" /\ HasCard
  /\ status' = "idle"
  /\ Flush(pending)
  /\ UNCHANGED <<mode, dueItems, queue, index, attempts, face, told, timer, finishing, dropped, server, bounds, lists, answers>>

FinishRepeat ==
  /\ status = "active" /\ mode = "repeat" /\ HasCard
  /\ IF attempts = {}
     THEN status' = "success" /\ UNCHANGED <<pending, call, calls, finishing>>
     ELSE status' = "submitting" /\ finishing' = TRUE /\ Flush(pending)
  /\ UNCHANGED <<mode, dueItems, queue, index, attempts, face, told, timer, dropped, server, bounds, lists, answers>>

LeaveSummary ==
  /\ status = "success"
  /\ status' = "idle"
  /\ UNCHANGED <<mode, dueItems, queue, index, attempts, face, told, saver, server, bounds, lists, calls, answers>>

\* The page is reloaded or the app killed: the screen's state is gone, requests are not.
Reload ==
  /\ reloads < MaxReloads
  /\ reloads' = reloads + 1
  /\ status' = "idle" /\ mode' = "normal" /\ dueItems' = <<>> /\ queue' = <<>> /\ index' = 0
  /\ attempts' = {} /\ face' = None /\ told' = {}
  /\ pending' = <<>> /\ call' = 0 /\ timer' = FALSE /\ finishing' = FALSE /\ lists' = {}
  /\ dropped' = dropped \cup Unsaved
  /\ UNCHANGED <<server, failures, listed, calls, answers>>

-----------------------------------------------------------------------------
\* Server: a failed answer on a near-leech suspends it; a card unavailable at its turn, one
\* suspended earlier in the batch included, refuses the whole batch.
Suspends(a) == ~a.passed /\ a.card \in NearLeech

Acceptable(batch) ==
  \A i \in DOMAIN batch :
    /\ batch[i].card \notin unavailable
    /\ \A j \in 1..i - 1 : Suspends(batch[j]) => batch[j].card # batch[i].card

SuspendedBy(batch) == {a.card : a \in {b \in Range(batch) : Suspends(b)}}

Record(i) ==
  /\ Acceptable(calls[i].batch)
  /\ log' = log \o calls[i].batch
  /\ unavailable' = unavailable \cup SuspendedBy(calls[i].batch)
  /\ calls' = [calls EXCEPT ![i] =
                 [@ EXCEPT !.state = "applied", !.off = SuspendedBy(calls[i].batch)]]

Refuse(i) ==
  /\ ~Acceptable(calls[i].batch)
  /\ calls' = [calls EXCEPT ![i] = [@ EXCEPT !.state = "refused"]]
  /\ UNCHANGED server

\* The server receives a request, awaited still or not.
Serve(i) ==
  /\ calls[i].state = "sent"
  /\ Record(i) \/ Refuse(i)
  /\ UNCHANGED <<screen, saver, bounds, lists, answers>>

ArchiveElsewhere(c) ==
  /\ c \in ArchivedElsewhere \ unavailable
  /\ unavailable' = unavailable \cup {c}
  /\ UNCHANGED <<screen, saver, bounds, lists, calls, log, answers>>

-----------------------------------------------------------------------------
Learner ==
  \/ Focus \/ StartRepeat \/ Reveal \/ EndSession \/ FinishRepeat \/ LeaveSummary
  \/ \E passed \in BOOLEAN : Grade(passed)

Client ==
  \/ FlushLater \/ BatchSaved \/ BatchRefused \/ NoticeEnd \/ WaiterDone
  \/ \E l \in lists : ListArrives(l)

Server ==
  \/ \E l \in lists : ReadList(l)
  \/ \E i \in DOMAIN calls : Serve(i)

Faults ==
  \/ BatchFails \/ Reload
  \/ \E l \in lists : ListFails(l)
  \/ \E c \in Cards : ArchiveElsewhere(c)

Next == Learner \/ Client \/ Server \/ Faults

Spec == Init /\ [][Next]_vars

\* The event loop runs what is due, the server answers what reaches it.  The learner may
\* stop at any time, and a request may fail a bounded number of times.
FairSpec ==
  /\ Spec
  /\ WF_vars(FlushLater) /\ WF_vars(BatchSaved) /\ WF_vars(BatchRefused)
  /\ WF_vars(NoticeEnd) /\ WF_vars(WaiterDone)
  /\ WF_vars(\E l \in lists : ReadList(l) \/ ListArrives(l))
  /\ WF_vars(\E i \in DOMAIN calls : Serve(i))

-----------------------------------------------------------------------------
\* The state space.  An active session's index stays inside its queue, the end included, or
\* the next answer would go to a card that is not shown ("keep already-graded slots so
\* currentIndex stays valid", practiceItemState.ts:107).
TypeOK ==
  /\ status \in Statuses /\ mode \in {"normal", "repeat"}
  /\ dueItems \in Seq(Cards) /\ queue \in Seq(Cards) /\ index \in Nat
  /\ status = "active" => index <= Len(queue)
  /\ attempts \subseteq answers /\ answers \subseteq Answer /\ dropped \subseteq answers
  /\ face \in Cards \cup {None} /\ told \subseteq Cards
  /\ pending \in Seq(Answer) /\ call \in 0..Len(calls) /\ timer \in BOOLEAN /\ finishing \in BOOLEAN
  /\ log \in Seq(Answer) /\ unavailable \subseteq Cards

\* Until the server has it, an answer is waiting to be sent, being sent, or was thrown
\* away with a refused batch or a reload: flushPending's hand-over of pendingRef loses
\* nothing (PracticeScreen.tsx:478-555).
EveryAnswerAccountedFor ==
  answers \subseteq Range(log) \cup Unsaved \cup dropped

\* The server first hears of the answers in the order they were given, whatever was
\* resent, delayed or repeated (those the client gave up on aside): the schedule depends on
\* the order of a card's answers.
FirstHeardInOrder ==
  \A i, j \in DOMAIN log :
    i < j /\ log[j].n < log[i].n /\ log[j] \notin dropped => \E k \in 1..i - 1 : log[k] = log[j]

\* A due card stays ahead in the queue until it was answered well or declared gone: a
\* session cannot skip a card or forget to bring a failed one back
\* (PracticeScreen.tsx:670-690, specs/005-design-refresh/spec.md:247).
NoCardForgotten ==
  status = "active" =>
    \A c \in Range(dueItems) :
      c \in Passed \cup told \/ \E i \in index + 1..Len(queue) : queue[i] = c

\* An answer never sits in memory with nothing left that would send it.
AnswersHaveASender == pending # <<>> => call # 0 \/ timer

\* The summary "your progress has been saved" (translations.ts:250) appears only once no
\* answer of the session is left to send, over all the ways a session ends.
SummaryMeansSettled ==
  [][status # "success" /\ status' = "success" => attempts \cap Unsaved = {}]_vars

\* A failed card is not the next one shown while others are left (insertRetryCard's gap).
FailedCardWaits ==
  [][\A a \in answers' \ answers :
       ~a.passed /\ mode = "normal" /\ index' < Len(queue) => queue'[index' + 1] # a.card]_vars

\* Every answer is recorded or refused in the end, if the learner stops and failures do.
AnswersSettle == ~Saved ~> Saved

\* A session whose queue is finished reaches its summary (or is replaced by another).
FinishedSessionEnds ==
  (status = "active" /\ mode = "normal" /\ index > 0 /\ ~HasCard)
     ~> ~(status = "active" /\ mode = "normal" /\ index > 0 /\ ~HasCard)

-----------------------------------------------------------------------------
\* "Insert one row for every answer" (backend/docs/learning-review-model.md:172).
OneRowPerAnswer == \A i, j \in DOMAIN log : i # j => log[i] # log[j]

\* "Given a revealed card, when the learner presses 1, 2, 3 or 4, then the card is rated"
\* (specs/005-design-refresh/spec.md:61): the card rated is the one that was revealed.
RatesTheRevealedCard == [][\A a \in answers' \ answers : a.card = face]_vars

\* "exits syncing when batch returns a non-retryable unavailable error"
\* (PracticeScreen.test.tsx:214): the screen of a normal session does not show "Syncing"
\* for ever, whichever session's batch the refusal belongs to.
SyncingEnds ==
  (status = "active" /\ mode = "normal" /\ ~HasCard)
    ~> ~(status = "active" /\ mode = "normal" /\ ~HasCard)

\* "It MUST never decrease during a session" (specs/005-design-refresh/spec.md:177):
\* while a session stays active, no card goes back from completed to open.
ProgressNeverDecreases ==
  [][status = "active" /\ status' = "active" => Passed \subseteq Passed']_vars
=============================================================================
