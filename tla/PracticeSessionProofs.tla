----------------------- MODULE PracticeSessionProofs -----------------------
(* The saver of the practice session loses nothing, keeps the order of the  *)
(* answers and repeats one only after a failure, and its queue forgets no   *)
(* card, for any number of cards, answers, failures and reloads.            *)
EXTENDS PracticeSession, DataLemmas, SequenceTheorems, FiniteSetTheorems, TLAPS

(* The inductive invariant, as a property of the answers A given and the    *)
(* answers u unsent, so that a handler's push can be split from its flush.  *)
Calls(A) == [batch : Seq(A), state : {"sent", "applied", "refused"}, off : SUBSET {a.card : a \in A}]

Rows(A, u) ==
  /\ u \in Seq(A) /\ log \in Seq(A) /\ calls \in Seq(Calls(A)) /\ call \in 0..Len(calls)

Accounted(A, u) == A \subseteq Range(log) \cup Range(u) \cup InFlight \cup dropped

Recorded == \A i \in DOMAIN calls : calls[i].state = "applied" => Range(calls[i].batch) \subseteq Range(log)

Ordered(s) == \A i, j \in DOMAIN s : i < j => s[i].n < s[j].n

InOrder(u) ==
  /\ Ordered(u)
  /\ call # 0 => Ordered(calls[call].batch \o u)
  /\ \A i \in DOMAIN calls : Ordered(calls[i].batch)

\* A batch lacks no earlier answer but those recorded or dropped.
Complete(A) ==
  \A i \in DOMAIN calls : \A a \in Range(calls[i].batch), b \in A :
    b.n < a.n => b \in Range(log) \cup dropped \cup Range(calls[i].batch)

\* A row lacks no earlier answer before it but those dropped.
Heard(A) ==
  \A i \in DOMAIN log, b \in A :
    b.n < log[i].n /\ b \notin dropped => \E k \in 1..i - 1 : log[k] = b

SaverInv(A, u) ==
  Rows(A, u) /\ Accounted(A, u) /\ Recorded /\ InOrder(u) /\ Complete(A) /\ Heard(A)

Numbered == IsFiniteSet(answers) /\ \A a \in answers : a.n \in 1..Cardinality(answers)

IInv == SaverInv(answers, pending) /\ Numbered /\ AnswersHaveASender

-----------------------------------------------------------------------------
LEMMA InitInv == Init => IInv
<1> SUFFICES ASSUME Init PROVE IInv
  OBVIOUS
<1>1. Cardinality({}) = 0 /\ IsFiniteSet({})
  BY FS_EmptySet
<1>2. Numbered /\ AnswersHaveASender
  BY <1>1 DEF Init, Numbered, AnswersHaveASender
<1>3. Rows(answers, pending)
  BY DEF Init, Rows
<1>4. Accounted(answers, pending) /\ Recorded /\ Complete(answers) /\ Heard(answers)
  BY DEF Init, Accounted, Recorded, Complete, Heard
<1>5. InOrder(pending)
  BY DEF Init, InOrder, Ordered
<1> QED BY <1>2, <1>3, <1>4, <1>5 DEF IInv, SaverInv

LEMMA RangeAppend ==
  ASSUME NEW S, NEW s \in Seq(S), NEW x \in S
  PROVE  Range(Append(s, x)) = Range(s) \cup {x}
<1>1. DOMAIN Append(s, x) = 1..Len(s) + 1 /\ DOMAIN s = 1..Len(s) /\ Len(s) \in Nat
  OBVIOUS
<1>2. Append(s, x)[Len(s) + 1] = x /\ \A i \in 1..Len(s) : Append(s, x)[i] = s[i]
  OBVIOUS
<1> QED BY <1>1, <1>2 DEF Range

LEMMA PushConcat ==
  ASSUME NEW S, NEW s \in Seq(S), NEW t \in Seq(S), NEW x \in S
  PROVE  s \o Append(t, x) = Append(s \o t, x)
<1>1. /\ s \o Append(t, x) \in Seq(S) /\ Append(s \o t, x) \in Seq(S)
      /\ Len(s \o Append(t, x)) = Len(Append(s \o t, x))
  OBVIOUS
<1>2. \A i \in 1..Len(s \o Append(t, x)) : (s \o Append(t, x))[i] = Append(s \o t, x)[i]
  OBVIOUS
<1> QED BY <1>1, <1>2, SeqEqual

LEMMA BatchType ==
  ASSUME NEW A, calls \in Seq(Calls(A))
  PROVE  \A i \in DOMAIN calls : calls[i] \in Calls(A) /\ calls[i].batch \in Seq(A)
<1>1. \A i \in DOMAIN calls : calls[i] \in Calls(A)
  OBVIOUS
<1> QED BY <1>1 DEF Calls

\* Numbering: a new answer comes after all others.
LEMMA NewAnswer ==
  ASSUME NEW A, IsFiniteSet(A), \A a \in A : a.n \in 1..Cardinality(A),
         NEW x, x.n = Cardinality(A) + 1
  PROVE  /\ IsFiniteSet(A \cup {x})
         /\ \A a \in A \cup {x} : a.n \in 1..Cardinality(A \cup {x})
         /\ \A a \in A : a.n < x.n
<1>1. Cardinality(A) \in Nat
  BY FS_CardinalityType
<1>2. x \notin A
  BY <1>1
<1>3. IsFiniteSet(A \cup {x}) /\ Cardinality(A \cup {x}) = Cardinality(A) + 1
  BY <1>2, FS_AddElement
<1> QED BY <1>1, <1>3

\* confirmGrade's push keeps the invariant.
LEMMA PushKeeps ==
  ASSUME NEW A, NEW u, SaverInv(A, u), NEW x,
         \A a \in A : a.n \in Nat /\ a.n < x.n, x.n \in Nat
  PROVE  SaverInv(A \cup {x}, Append(u, x))
<1> DEFINE B == A \cup {x}
<1>1. Rows(A, u) /\ Accounted(A, u) /\ Recorded /\ InOrder(u) /\ Complete(A) /\ Heard(A)
  BY DEF SaverInv
<1>2. Seq(A) \subseteq Seq(B) /\ {a.card : a \in A} \subseteq {a.card : a \in B}
  OBVIOUS
<1>3. Calls(A) \subseteq Calls(B)
  BY <1>2 DEF Calls
<1>4. u \in Seq(B) /\ log \in Seq(B) /\ Append(u, x) \in Seq(B)
  BY <1>1, <1>2 DEF Rows
<1>5. Rows(B, Append(u, x))
  <2>1. calls \in Seq(Calls(A)) /\ call \in 0..Len(calls)
    BY <1>1 DEF Rows
  <2>2. calls \in Seq(Calls(B))
    BY <2>1, <1>3, SeqMonotonic
  <2> QED BY <2>1, <2>2, <1>4 DEF Rows
<1>6. Accounted(B, Append(u, x))
  BY <1>1, <1>4, RangeAppend DEF Accounted
<1>7. Ordered(Append(u, x))
  <2>1. \A i \in 1..Len(u) : u[i].n < x.n
    BY <1>1 DEF Rows
  <2>2. DOMAIN Append(u, x) = 1..Len(u) + 1 /\ DOMAIN u = 1..Len(u) /\ Len(u) \in Nat
    BY <1>4
  <2>3. Append(u, x)[Len(u) + 1] = x /\ \A i \in 1..Len(u) : Append(u, x)[i] = u[i]
    BY <1>4
  <2>4. Ordered(u)
    BY <1>1 DEF InOrder
  <2> QED BY <2>1, <2>2, <2>3, <2>4 DEF Ordered
<1>8. ASSUME call # 0
      PROVE  Ordered(calls[call].batch \o Append(u, x))
  <2> DEFINE s == calls[call].batch \o u
  <2>1. calls[call].batch \in Seq(A) /\ u \in Seq(A)
    BY <1>1, <1>8, BatchType DEF Rows
  <2>2. s \in Seq(A) /\ s \in Seq(B)
    BY <2>1
  <2>3. calls[call].batch \o Append(u, x) = Append(s, x)
    <3>1. calls[call].batch \in Seq(B) /\ u \in Seq(B) /\ x \in B
      BY <2>1, <1>2
    <3> DEFINE r == calls[call].batch
    <3>2. \E S : r \in Seq(S) /\ u \in Seq(S) /\ x \in S
      BY <3>1
    <3> HIDE DEF B, r
    <3>3. r \o Append(u, x) = Append(r \o u, x)
      BY <3>2, PushConcat
    <3> QED BY <3>3 DEF r
  <2>4. \A i \in 1..Len(s) : s[i].n < x.n
    BY <2>2
  <2>5. DOMAIN Append(s, x) = 1..Len(s) + 1 /\ DOMAIN s = 1..Len(s) /\ Len(s) \in Nat
    BY <2>2
  <2>6. Append(s, x)[Len(s) + 1] = x /\ \A i \in 1..Len(s) : Append(s, x)[i] = s[i]
    BY <2>2
  <2>7. Ordered(s)
    BY <1>1, <1>8 DEF InOrder
  <2> HIDE DEF s
  <2>8. Ordered(Append(s, x))
    BY <2>4, <2>5, <2>6, <2>7 DEF Ordered
  <2> QED BY <2>3, <2>8
<1>9. InOrder(Append(u, x))
  BY <1>1, <1>7, <1>8 DEF InOrder
<1>10. Complete(B)
  <2> SUFFICES ASSUME NEW i \in DOMAIN calls, NEW a \in Range(calls[i].batch), NEW b \in B, b.n < a.n
               PROVE  b \in Range(log) \cup dropped \cup Range(calls[i].batch)
    BY DEF Complete
  <2>1. a \in A
    BY <1>1, BatchType DEF Rows, Range
  <2>2. b # x
    BY <2>1
  <2> QED BY <1>1, <2>2 DEF Complete
<1>11. Heard(B)
  <2> SUFFICES ASSUME NEW i \in DOMAIN log, NEW b \in B, b.n < log[i].n, b \notin dropped
               PROVE  \E k \in 1..i - 1 : log[k] = b
    BY DEF Heard
  <2>1. log[i] \in A
    BY <1>1 DEF Rows
  <2>2. b # x
    BY <2>1
  <2> QED BY <1>1, <2>2 DEF Heard
<1> QED BY <1>1, <1>5, <1>6, <1>9, <1>10, <1>11 DEF SaverInv

\* Taking what is unsent into a request keeps the invariant.
LEMMA FlushKeeps ==
  ASSUME NEW A, NEW u, SaverInv(A, u), \A a \in A : a.n \in Nat,
         Flush(u), UNCHANGED <<log, dropped>>
  PROVE  /\ SaverInv(A, pending)'
         /\ pending' # <<>> => call' # 0
<1>1. Rows(A, u) /\ Accounted(A, u) /\ Recorded /\ InOrder(u) /\ Complete(A) /\ Heard(A)
  BY DEF SaverInv
<1>2. CASE call # 0 \/ u = <<>>
  <2>1. pending' = u /\ call' = call /\ calls' = calls
    BY <1>2 DEF Flush
  <2> QED BY <1>1, <1>2, <2>1 DEF SaverInv, Rows, Accounted, Recorded, InOrder, Complete, Heard, InFlight, Calls, Ordered
<1>3. CASE call = 0 /\ u # <<>>
  <2> DEFINE c == [batch |-> u, state |-> "sent", off |-> {}]
  <2>1. pending' = <<>> /\ call' = Len(calls) + 1 /\ calls' = Append(calls, c)
    BY <1>3 DEF Flush
  <2>2. c \in Calls(A)
    BY <1>1 DEF Rows, Calls
  <2>3. /\ calls' \in Seq(Calls(A)) /\ DOMAIN calls' = 1..Len(calls) + 1 /\ DOMAIN calls = 1..Len(calls)
        /\ Len(calls) \in Nat /\ Len(calls') = Len(calls) + 1
        /\ calls'[Len(calls) + 1] = c /\ \A i \in DOMAIN calls : calls'[i] = calls[i]
    BY <1>1, <2>1, <2>2 DEF Rows
  <2>4. Rows(A, pending)' /\ call' # 0
    BY <1>1, <2>1, <2>3 DEF Rows, Calls
  <2>5. calls'[call'].batch = u
    BY <2>1, <2>3
  <2>6. Accounted(A, pending)'
    BY <1>1, <1>3, <2>4, <2>5 DEF Accounted, InFlight
  <2>7. Recorded'
    BY <1>1, <2>3 DEF Recorded
  <2>8. InOrder(pending)'
    <3>1. Ordered(<<>>)
      BY DEF Ordered
    <3>2. u \in Seq(A) /\ u \o <<>> = u
      BY <1>1 DEF Rows
    <3>3. \A i \in DOMAIN calls' : Ordered(calls'[i].batch)
      BY <1>1, <2>3 DEF InOrder
    <3> QED BY <1>1, <2>1, <2>5, <3>1, <3>2, <3>3 DEF InOrder, Ordered
  <2>9. Complete(A)'
    <3> SUFFICES ASSUME NEW i \in DOMAIN calls', NEW a \in Range(calls'[i].batch), NEW b \in A, b.n < a.n
                 PROVE  b \in Range(log) \cup dropped \cup Range(calls'[i].batch)
      BY DEF Complete
    <3>1. CASE i \in DOMAIN calls
      BY <1>1, <2>3, <3>1 DEF Complete
    <3>2. CASE i = Len(calls) + 1
      BY <1>1, <1>3, <2>3, <3>2 DEF Accounted, InFlight
    <3> QED BY <2>3, <3>1, <3>2
  <2>10. Heard(A)'
    BY <1>1 DEF Heard
  <2> QED BY <2>4, <2>6, <2>7, <2>8, <2>9, <2>10 DEF SaverInv
<1> QED BY <1>2, <1>3

\* The end of a request keeps the invariant when what it carried is recorded, dropped or
\* unsent again, in order.
LEMMA SettleKeeps ==
  ASSUME IInv, NEW u, u \in Seq(answers), Settle(u), Ordered(u),
         InFlight \cup Range(pending) \subseteq Range(log) \cup Range(u) \cup dropped',
         dropped \subseteq dropped', UNCHANGED <<log, calls, answers>>
  PROVE  IInv'
<1>1. /\ Rows(answers, pending) /\ Accounted(answers, pending) /\ Recorded
      /\ InOrder(pending) /\ Complete(answers) /\ Heard(answers)
  BY DEF IInv, SaverInv
<1>2. pending' = u /\ call' = 0 /\ timer' = (timer \/ u # <<>>)
  BY DEF Settle
<1>3. Rows(answers, pending)'
  BY <1>1, <1>2 DEF Rows, Calls
<1>4. Accounted(answers, pending)'
  BY <1>1, <1>2 DEF Accounted, InFlight
<1>5. Recorded' /\ Heard(answers)'
  BY <1>1 DEF Recorded, Heard
<1>6. Complete(answers)'
  BY <1>1 DEF Complete
<1>7. InOrder(pending)'
  BY <1>1, <1>2 DEF InOrder, Ordered
<1>8. Numbered' /\ AnswersHaveASender'
  BY <1>2 DEF IInv, Numbered, AnswersHaveASender
<1> QED BY <1>3, <1>4, <1>5, <1>6, <1>7, <1>8 DEF IInv, SaverInv

\* The server's record of a batch keeps the invariant: the rows it adds come in order, and
\* what they lack is already there.
LEMMA RecordKeeps ==
  ASSUME IInv, NEW i \in DOMAIN calls, calls[i].state = "sent", Record(i),
         UNCHANGED <<pending, call, timer, dropped, answers>>
  PROVE  IInv'
<1> DEFINE b == calls[i].batch
<1> DEFINE c == [calls[i] EXCEPT !.state = "applied", !.off = SuspendedBy(b)]
<1>1. /\ Rows(answers, pending) /\ Accounted(answers, pending) /\ Recorded
      /\ InOrder(pending) /\ Complete(answers) /\ Heard(answers)
  BY DEF IInv, SaverInv
<1>2. log' = log \o b /\ calls' = [calls EXCEPT ![i] = c]
  BY DEF Record
<1>3. log \in Seq(answers) /\ b \in Seq(answers) /\ calls[i] \in Calls(answers)
  BY <1>1, BatchType DEF Rows
<1>4. c \in Calls(answers) /\ c.batch = b /\ c.state = "applied"
  <2>1. SuspendedBy(b) \subseteq {a.card : a \in answers}
    BY <1>3 DEF SuspendedBy, Range
  <2> QED BY <1>3, <2>1 DEF Calls
<1>5. /\ calls' \in Seq(Calls(answers)) /\ Len(calls') = Len(calls) /\ DOMAIN calls' = DOMAIN calls
      /\ \A k \in DOMAIN calls : calls'[k].batch = calls[k].batch
      /\ \A k \in DOMAIN calls : k # i => calls'[k] = calls[k]
      /\ calls'[i].batch = b
  <2> HIDE DEF c
  <2> QED BY <1>1, <1>2, <1>4 DEF Rows
<1>6. /\ log' \in Seq(answers) /\ Range(log') = Range(log) \cup Range(b)
      /\ Len(log') = Len(log) + Len(b) /\ Len(log) \in Nat /\ Len(b) \in Nat
      /\ DOMAIN log = 1..Len(log) /\ DOMAIN log' = 1..Len(log) + Len(b) /\ DOMAIN b = 1..Len(b)
      /\ \A k \in 1..Len(log) : log'[k] = log[k]
      /\ \A k \in 1..Len(b) : log'[Len(log) + k] = b[k]
  <2> HIDE DEF b
  <2>1. Range(log \o b) = Range(log) \cup Range(b)
    BY <1>3, RangeConcatenation
  <2> QED BY <1>2, <1>3, <2>1
<1> HIDE DEF b, c
<1>7. Rows(answers, pending)'
  <2>1. Calls(answers)' = Calls(answers)
    BY DEF Calls
  <2> QED BY <1>1, <1>5, <1>6, <2>1 DEF Rows
<1>8. call \in DOMAIN calls \/ call = 0
  BY <1>1 DEF Rows
<1>9. Accounted(answers, pending)'
  BY <1>1, <1>5, <1>6, <1>8 DEF Accounted, InFlight
<1>10. Recorded'
  BY <1>1, <1>5, <1>6 DEF Recorded
<1>11. InOrder(pending)'
  <2>1. \A k \in DOMAIN calls : Ordered(calls[k].batch)
    BY <1>1 DEF InOrder
  <2>2. call # 0 => Ordered(calls[call].batch \o pending)
    BY <1>1 DEF InOrder
  <2>3. Ordered(pending)
    BY <1>1 DEF InOrder
  <2>4. \A k \in DOMAIN calls' : Ordered(calls'[k].batch)
    BY <2>1, <1>5
  <2>5. call' # 0 => Ordered(calls'[call'].batch \o pending')
    BY <2>2, <1>5, <1>8
  <2> QED BY <2>3, <2>4, <2>5 DEF InOrder, Ordered
<1>12. Complete(answers)'
  BY <1>1, <1>5, <1>6 DEF Complete
<1>13. Heard(answers)'
  <2> SUFFICES ASSUME NEW k \in DOMAIN log', NEW a \in answers, a.n < log'[k].n, a \notin dropped
               PROVE  \E h \in 1..k - 1 : log'[h] = a
    BY DEF Heard
  <2>1. CASE k \in 1..Len(log)
    <3>1. \E h \in 1..k - 1 : log[h] = a
      BY <1>1, <1>6, <2>1 DEF Heard
    <3> QED BY <1>6, <2>1, <3>1
  <2>2. CASE k \in Len(log) + 1..Len(log) + Len(b)
    <3> DEFINE p == k - Len(log)
    <3>1. p \in 1..Len(b) /\ log'[k] = b[p] /\ k = Len(log) + p
      BY <1>6, <2>2
    <3>2. b[p] \in Range(b)
      BY <1>6, <3>1 DEF Range
    <3>3. a \in Range(log) \/ a \in Range(b)
      BY <1>1, <3>1, <3>2 DEF Complete, b
    <3>4. CASE a \in Range(log)
      <4>1. PICK h \in 1..Len(log) : log[h] = a
        BY <1>6, <3>4 DEF Range
      <4> QED BY <1>6, <3>1, <4>1
    <3>5. CASE a \in Range(b)
      <4>1. PICK q \in 1..Len(b) : b[q] = a
        BY <1>6, <3>5 DEF Range
      <4>2. Ordered(b)
        BY <1>1 DEF InOrder, b
      <4>3. b[q].n < b[p].n /\ b[q].n \in Nat /\ b[p].n \in Nat
        <5>1. b[q] \in answers /\ b[p] \in answers
          BY <1>3, <3>1
        <5>2. \A x \in answers : x.n \in Nat
          BY DEF IInv, Numbered
        <5> QED BY <5>1, <5>2, <3>1, <4>1
      <4>4. q < p
        <5>1. p < q => b[p].n < b[q].n
          BY <4>2, <3>1, <1>6 DEF Ordered
        <5>2. p # q
          BY <4>3
        <5> HIDE DEF p
        <5> QED BY <5>1, <5>2, <4>3, <3>1, <1>6
      <4> QED BY <1>6, <3>1, <4>1, <4>4
    <3> QED BY <3>3, <3>4, <3>5
  <2> QED BY <1>6, <2>1, <2>2
<1>14. Numbered' /\ AnswersHaveASender'
  BY DEF IInv, Numbered, AnswersHaveASender
<1> QED BY <1>7, <1>9, <1>10, <1>11, <1>12, <1>13, <1>14 DEF IInv, SaverInv

LEMMA RefuseKeeps ==
  ASSUME IInv, NEW i \in DOMAIN calls, Refuse(i),
         UNCHANGED <<pending, call, timer, dropped, answers>>
  PROVE  IInv'
<1> DEFINE c == [calls[i] EXCEPT !.state = "refused"]
<1>1. /\ Rows(answers, pending) /\ Accounted(answers, pending) /\ Recorded
      /\ InOrder(pending) /\ Complete(answers) /\ Heard(answers)
  BY DEF IInv, SaverInv
<1>2. log' = log /\ calls' = [calls EXCEPT ![i] = c]
  BY DEF Refuse, server
<1>3. calls[i] \in Calls(answers)
  BY <1>1, BatchType DEF Rows
<1>4. c \in Calls(answers) /\ c.batch = calls[i].batch /\ c.state # "applied"
  BY <1>3 DEF Calls
<1> HIDE DEF c
<1>5. /\ calls' \in Seq(Calls(answers)) /\ Len(calls') = Len(calls) /\ DOMAIN calls' = DOMAIN calls
      /\ \A k \in DOMAIN calls : calls'[k].batch = calls[k].batch
      /\ \A k \in DOMAIN calls : k # i => calls'[k] = calls[k]
      /\ calls'[i].state # "applied"
  BY <1>1, <1>2, <1>4 DEF Rows
<1>6. Rows(answers, pending)'
  <2>1. Calls(answers)' = Calls(answers)
    BY DEF Calls
  <2> QED BY <1>1, <1>2, <1>5, <2>1 DEF Rows
<1>7. call \in DOMAIN calls \/ call = 0
  BY <1>1 DEF Rows
<1>8. Accounted(answers, pending)' /\ Recorded' /\ Complete(answers)' /\ Heard(answers)'
  BY <1>1, <1>2, <1>5, <1>7 DEF Accounted, InFlight, Recorded, Complete, Heard
<1>9. InOrder(pending)'
  <2>1. \A k \in DOMAIN calls' : Ordered(calls'[k].batch)
    BY <1>1, <1>5 DEF InOrder
  <2>2. call' # 0 => Ordered(calls'[call'].batch \o pending')
    BY <1>1, <1>5, <1>7 DEF InOrder
  <2>3. Ordered(pending')
    BY <1>1 DEF InOrder
  <2> QED BY <2>1, <2>2, <2>3 DEF InOrder, Ordered
<1>10. Numbered' /\ AnswersHaveASender'
  BY DEF IInv, Numbered, AnswersHaveASender
<1> QED BY <1>6, <1>8, <1>9, <1>10 DEF IInv, SaverInv

\* The saver's variables but for what only the screen and the server see.
untouched == <<pending, call, timer, dropped, calls, log, answers>>

LEMMA UntouchedKeeps == IInv /\ UNCHANGED untouched => IInv'
<1> SUFFICES ASSUME IInv, UNCHANGED untouched PROVE IInv'
  OBVIOUS
<1>1. /\ Rows(answers, pending) /\ Accounted(answers, pending) /\ Recorded
      /\ InOrder(pending) /\ Complete(answers) /\ Heard(answers)
  BY DEF IInv, SaverInv
<1>2. Rows(answers, pending)' /\ Accounted(answers, pending)' /\ Recorded' /\ InOrder(pending)'
  BY <1>1 DEF untouched, Rows, Calls, Accounted, InFlight, Recorded, InOrder, Ordered
<1>3. Complete(answers)' /\ Heard(answers)'
  BY <1>1 DEF untouched, Complete, Heard
<1>4. Numbered' /\ AnswersHaveASender'
  BY DEF IInv, Numbered, AnswersHaveASender, untouched
<1> QED BY <1>2, <1>3, <1>4 DEF IInv, SaverInv

LEMMA NumbersAreNat == IInv => \A a \in answers : a.n \in Nat
  BY DEF IInv, Numbered

\* A handler that only runs flushPending.
LEMMA FlushOnlyKeeps ==
  ASSUME IInv, Flush(pending), UNCHANGED <<log, dropped, answers>>
  PROVE  IInv'
<1>1. SaverInv(answers, pending) /\ \A a \in answers : a.n \in Nat
  BY NumbersAreNat DEF IInv
<1>2. SaverInv(answers, pending)' /\ (pending' # <<>> => call' # 0)
  <2> DEFINE A == answers
  <2>1. SaverInv(A, pending) /\ A' = A
    BY <1>1
  <2> QED BY <1>1, <2>1, FlushKeeps
<1>3. Numbered' /\ AnswersHaveASender'
  BY <1>2 DEF IInv, Numbered, AnswersHaveASender
<1> QED BY <1>2, <1>3 DEF IInv

-----------------------------------------------------------------------------
LEMMA GradeKeeps ==
  ASSUME IInv, NEW passed \in BOOLEAN, Grade(passed)
  PROVE  IInv'
<1> DEFINE x == [n |-> Cardinality(answers) + 1, card |-> Current, passed |-> passed]
<1>1. /\ answers' = answers \cup {x} /\ Flush(Append(pending, x))
      /\ UNCHANGED <<log, dropped, timer>>
  BY DEF Grade, server
<1>2. IsFiniteSet(answers) /\ \A a \in answers : a.n \in 1..Cardinality(answers)
  BY DEF IInv, Numbered
<1>3. x.n = Cardinality(answers) + 1 /\ x.n \in Nat
  BY <1>2, FS_CardinalityType
<1> HIDE DEF x
<1>4. /\ IsFiniteSet(answers')
      /\ \A a \in answers' : a.n \in 1..Cardinality(answers')
      /\ \A a \in answers : a.n < x.n
  <2> DEFINE A == answers
  <2>1. IsFiniteSet(A) /\ \A a \in A : a.n \in 1..Cardinality(A)
    BY <1>2
  <2>2. x.n = Cardinality(A) + 1 /\ answers' = A \cup {x}
    BY <1>1, <1>3
  <2> HIDE DEF A
  <2>3. /\ IsFiniteSet(A \cup {x})
        /\ \A a \in A \cup {x} : a.n \in 1..Cardinality(A \cup {x})
        /\ \A a \in A : a.n < x.n
    BY <2>1, <2>2, NewAnswer
  <2> QED BY <2>2, <2>3 DEF A
<1>5. \A a \in answers : a.n \in Nat /\ a.n < x.n
  BY <1>2, <1>4
<1>6. SaverInv(answers \cup {x}, Append(pending, x))
  BY <1>3, <1>5, PushKeeps DEF IInv
<1>7. \A a \in answers \cup {x} : a.n \in Nat
  BY <1>3, <1>5
<1>8. SaverInv(answers, pending)' /\ (pending' # <<>> => call' # 0)
  <2> DEFINE B == answers \cup {x}
  <2>1. SaverInv(B, Append(pending, x)) /\ (\A a \in B : a.n \in Nat) /\ answers' = B
    BY <1>1, <1>6, <1>7
  <2> QED BY <1>1, <2>1, FlushKeeps
<1>9. Numbered' /\ AnswersHaveASender'
  BY <1>4, <1>8 DEF Numbered, AnswersHaveASender
<1> QED BY <1>8, <1>9 DEF IInv

\* What the invariant says of the request being awaited.
LEMMA AwaitedBatch ==
  ASSUME IInv, call # 0
  PROVE  /\ call \in DOMAIN calls /\ calls[call].batch \in Seq(answers) /\ pending \in Seq(answers)
         /\ InFlight = Range(calls[call].batch)
         /\ Ordered(calls[call].batch \o pending) /\ Ordered(pending)
         /\ calls[call].state = "applied" => InFlight \subseteq Range(log)
<1>1. Rows(answers, pending) /\ Recorded /\ InOrder(pending)
  BY DEF IInv, SaverInv
<1>2. call \in DOMAIN calls
  BY <1>1 DEF Rows
<1> QED BY <1>1, <1>2, BatchType DEF Rows, Recorded, InOrder, InFlight

LEMMA ReplyKeeps ==
  ASSUME IInv, BatchSaved \/ BatchRefused \/ BatchFails
  PROVE  IInv'
<1>1. CASE BatchSaved
  <2>1. call # 0 /\ calls[call].state = "applied" /\ Settle(pending) /\ UNCHANGED <<log, calls, answers, dropped>>
    BY <1>1 DEF BatchSaved, server
  <2>2. InFlight \cup Range(pending) \subseteq Range(log) \cup Range(pending) \cup dropped'
    BY <2>1, AwaitedBatch
  <2>3. pending \in Seq(answers) /\ Ordered(pending)
    BY <2>1, AwaitedBatch
  <2> QED BY <2>1, <2>2, <2>3, SettleKeeps
<1>2. CASE BatchRefused
  <2>1. /\ call # 0 /\ Settle(pending) /\ UNCHANGED <<log, calls, answers>>
        /\ dropped' = dropped \cup Range(calls[call].batch)
    BY <1>2 DEF BatchRefused, server
  <2>2. InFlight \cup Range(pending) \subseteq Range(log) \cup Range(pending) \cup dropped'
    BY <2>1, AwaitedBatch
  <2>3. pending \in Seq(answers) /\ Ordered(pending)
    BY <2>1, AwaitedBatch
  <2> QED BY <2>1, <2>2, <2>3, SettleKeeps
<1>3. CASE BatchFails
  <2> DEFINE u == calls[call].batch \o pending
  <2>1. call # 0 /\ Settle(u) /\ UNCHANGED <<log, calls, answers, dropped>>
    BY <1>3 DEF BatchFails, server, Requeued
  <2>2. u \in Seq(answers) /\ Ordered(u)
    BY <2>1, AwaitedBatch
  <2>3. Range(u) = InFlight \cup Range(pending)
    <3>1. calls[call].batch \in Seq(answers) /\ pending \in Seq(answers) /\ InFlight = Range(calls[call].batch)
      BY <2>1, AwaitedBatch
    <3> QED BY <3>1, RangeConcatenation
  <2> HIDE DEF u
  <2> QED BY <2>1, <2>2, <2>3, SettleKeeps
<1> QED BY <1>1, <1>2, <1>3

LEMMA ReloadKeeps ==
  ASSUME IInv, Reload
  PROVE  IInv'
<1>1. /\ Rows(answers, pending) /\ Accounted(answers, pending) /\ Recorded
      /\ InOrder(pending) /\ Complete(answers) /\ Heard(answers)
  BY DEF IInv, SaverInv
<1>2. /\ pending' = <<>> /\ call' = 0 /\ UNCHANGED <<log, calls, answers>>
      /\ dropped' = dropped \cup Unsaved
  BY DEF Reload, server
<1>3. Rows(answers, pending)'
  BY <1>1, <1>2 DEF Rows, Calls
<1>4. Accounted(answers, pending)'
  BY <1>1, <1>2 DEF Accounted, InFlight, Unsaved
<1>5. Recorded' /\ Heard(answers)' /\ Complete(answers)'
  BY <1>1, <1>2 DEF Recorded, Heard, Complete
<1>6. InOrder(pending)'
  BY <1>1, <1>2 DEF InOrder, Ordered
<1>7. Numbered' /\ AnswersHaveASender'
  BY <1>2 DEF IInv, Numbered, AnswersHaveASender
<1> QED BY <1>3, <1>4, <1>5, <1>6, <1>7 DEF IInv, SaverInv

LEMMA NextInv == IInv /\ [Next]_vars => IInv'
<1> SUFFICES ASSUME IInv, [Next]_vars PROVE IInv'
  OBVIOUS
<1> USE DEF screen, saver, server, bounds
<1>1. CASE Focus \/ StartRepeat \/ Reveal \/ LeaveSummary \/ WaiterDone
  BY <1>1, UntouchedKeeps DEF Focus, StartRepeat, Reveal, LeaveSummary, WaiterDone, untouched
<1>2. CASE \E l \in lists : ListArrives(l) \/ ReadList(l) \/ ListFails(l)
  BY <1>2, UntouchedKeeps DEF ListArrives, ReadList, ListFails, untouched
<1>3. CASE \E c \in Cards : ArchiveElsewhere(c)
  BY <1>3, UntouchedKeeps DEF ArchiveElsewhere, untouched
<1>4. CASE FlushLater \/ NoticeEnd \/ EndSession
  BY <1>4, FlushOnlyKeeps DEF FlushLater, NoticeEnd, EndSession
<1>5. CASE FinishRepeat
  <2>1. CASE attempts = {}
    BY <1>5, <2>1, UntouchedKeeps DEF FinishRepeat, untouched
  <2>2. CASE attempts # {}
    BY <1>5, <2>2, FlushOnlyKeeps DEF FinishRepeat
  <2> QED BY <2>1, <2>2
<1>6. CASE \E passed \in BOOLEAN : Grade(passed)
  BY <1>6, GradeKeeps
<1>7. CASE BatchSaved \/ BatchRefused \/ BatchFails
  BY <1>7, ReplyKeeps
<1>8. CASE Reload
  BY <1>8, ReloadKeeps
<1>9. CASE \E i \in DOMAIN calls : Serve(i)
  <2>1. PICK i \in DOMAIN calls : Serve(i)
    BY <1>9
  <2>2. calls[i].state = "sent" /\ UNCHANGED <<pending, call, timer, dropped, answers>>
    BY <2>1 DEF Serve
  <2>3. Record(i) \/ Refuse(i)
    BY <2>1 DEF Serve
  <2> QED BY <2>2, <2>3, RecordKeeps, RefuseKeeps
<1>10. CASE UNCHANGED vars
  BY <1>10, UntouchedKeeps DEF vars, untouched
<1> QED BY <1>1, <1>2, <1>3, <1>4, <1>5, <1>6, <1>7, <1>8, <1>9, <1>10
         DEF Next, Learner, Client, Server, Faults

LEMMA Saver == Spec => []IInv
<1>1. IInv /\ [Next]_vars => IInv'
  BY NextInv
<1> QED BY InitInv, <1>1, PTL DEF Spec

\* Whatever is sent, lost, refused or reloaded, an answer the server does not have is waiting
\* to be sent, on its way, or was thrown away by a refusal or a reload.
THEOREM NoAnswerSlipsAway == Spec => []EveryAnswerAccountedFor
<1>1. IInv => EveryAnswerAccountedFor
  BY DEF IInv, SaverInv, Accounted, EveryAnswerAccountedFor, Unsaved
<1> QED BY Saver, <1>1, PTL

\* The server first hears of the answers in the order they were given, however often batches
\* are repeated and however late they arrive.
THEOREM OrderSurvives == Spec => []FirstHeardInOrder
<1>1. IInv => FirstHeardInOrder
  <2> SUFFICES ASSUME IInv, NEW i \in DOMAIN log, NEW j \in DOMAIN log, i < j,
                      log[j].n < log[i].n, log[j] \notin dropped
               PROVE  \E k \in 1..i - 1 : log[k] = log[j]
    BY DEF FirstHeardInOrder
  <2>1. Rows(answers, pending) /\ Heard(answers)
    BY DEF IInv, SaverInv
  <2>2. log[j] \in answers
    BY <2>1 DEF Rows
  <2> QED BY <2>1, <2>2 DEF Heard
<1> QED BY Saver, <1>1, PTL

\* Something will always send what is unsent.
THEOREM SenderAlways == Spec => []AnswersHaveASender
<1>1. IInv => AnswersHaveASender
  BY DEF IInv
<1> QED BY Saver, <1>1, PTL

\* The summary never claims saved what is not.
THEOREM SummaryTellsTruth == Spec => SummaryMeansSettled
<1>1. [Next]_vars => [status # "success" /\ status' = "success" => attempts \cap Unsaved = {}]_vars
  <2> SUFFICES ASSUME Next, status # "success", status' = "success"
               PROVE  attempts \cap Unsaved = {}
    OBVIOUS
  <2> USE DEF screen, saver, server, bounds
  <2>1. CASE WaiterDone
    BY <2>1 DEF WaiterDone, Saved, Unsaved, InFlight, Range
  <2>2. CASE FinishRepeat
    BY <2>2 DEF FinishRepeat
  <2>3. CASE \E l \in lists : ListArrives(l) \/ ReadList(l) \/ ListFails(l)
    BY <2>3 DEF ListArrives, StartSession, NothingToPractise, ReadList, ListFails
  <2>4. CASE \/ Focus \/ StartRepeat \/ Reveal \/ EndSession \/ LeaveSummary \/ Reload
    BY <2>4 DEF Focus, StartRepeat, Reveal, EndSession, LeaveSummary, Reload
  <2>5. CASE FlushLater \/ BatchSaved \/ BatchRefused \/ BatchFails \/ NoticeEnd
    BY <2>5 DEF FlushLater, BatchSaved, BatchRefused, BatchFails, NoticeEnd
  <2>6. CASE \/ \E passed \in BOOLEAN : Grade(passed)
             \/ \E c \in Cards : ArchiveElsewhere(c)
             \/ \E i \in DOMAIN calls : Serve(i)
    BY <2>6 DEF Grade, ArchiveElsewhere, Serve
  <2> QED BY <2>1, <2>2, <2>3, <2>4, <2>5, <2>6 DEF Next, Learner, Client, Server, Faults
<1> QED BY <1>1, PTL DEF Spec, SummaryMeansSettled

-----------------------------------------------------------------------------
(* The queue: what shuffling, putting a card back and filtering do to the   *)
(* part of it still to come.                                                *)
\* The part of a queue behind its first n cards.
Ahead(q, n) == {q[i] : i \in n + 1..Len(q)}
AheadOnce(q, n) == \A i, j \in n + 1..Len(q) : q[i] = q[j] => i = j

\* The recursion of Without, one slot at a time.
IsSieve(kept, q, from, gone, m) ==
  kept = [n \in 0..m |->
    IF n = 0 THEN <<>>
    ELSE IF n <= from \/ q[n] \notin gone THEN Append(kept[n - 1], q[n])
    ELSE kept[n - 1]]

LEMMA SieveExists ==
  ASSUME NEW q, NEW from, NEW gone, NEW n \in Nat
  PROVE  \E kept : IsSieve(kept, q, from, gone, n)
<1> DEFINE step(k, before) == IF k <= from \/ q[k] \notin gone THEN Append(before, q[k]) ELSE before
           to(kept, m) == kept = [k \in 0..m |-> IF k = 0 THEN <<>> ELSE step(k, kept[k - 1])]
           T == {m \in 0..n : \E kept : to(kept, m)}
<1>1. 0 \in T
  <2> DEFINE kept == [k \in 0..0 |-> <<>>]
  <2>1. \A k \in 0..0 : kept[k] = IF k = 0 THEN <<>> ELSE step(k, kept[k - 1])
    <3>1. \A k \in 0..0 : k = 0
      OBVIOUS
    <3> QED BY <3>1
  <2>2. kept = [k \in 0..0 |-> kept[k]]
    OBVIOUS
  <2> HIDE DEF kept, step
  <2>3. to(kept, 0)
    BY <2>1, <2>2
  <2>4. 0 \in 0..n
    OBVIOUS
  <2> HIDE DEF to
  <2> QED BY <2>3, <2>4
<1>2. ASSUME NEW m \in 0..n, m < n, m \in T PROVE m + 1 \in T
  <2>1. PICK kept : to(kept, m)
    BY <1>2
  <2> DEFINE last == step(m + 1, kept[m])
             longer == [k \in 0..m + 1 |-> IF k = m + 1 THEN last ELSE kept[k]]
  <2> HIDE DEF step
  <2>2. \A k \in 0..m : kept[k] = IF k = 0 THEN <<>> ELSE step(k, kept[k - 1])
    BY <2>1
  <2>3. \A k \in 0..m + 1 : longer[k] = IF k = 0 THEN <<>> ELSE step(k, longer[k - 1])
    <3> SUFFICES ASSUME NEW k \in 0..m + 1
                 PROVE  longer[k] = IF k = 0 THEN <<>> ELSE step(k, longer[k - 1])
      OBVIOUS
    <3>1. CASE k = 0
      BY <2>2, <3>1
    <3>2. CASE k \in 1..m
      <4>1. k \in 0..m + 1 /\ k - 1 \in 0..m + 1 /\ k # m + 1 /\ k - 1 # m + 1 /\ k # 0 /\ k \in 0..m
        BY <3>2
      <4>2. longer[k] = kept[k] /\ longer[k - 1] = kept[k - 1]
        BY <4>1
      <4> HIDE DEF longer
      <4> QED BY <2>2, <4>1, <4>2
    <3>3. CASE k = m + 1
      <4>1. m \in 0..m + 1 /\ m # m + 1 /\ k - 1 = m /\ k # 0
        BY <3>3
      <4>2. longer[m] = kept[m] /\ longer[k] = last
        BY <3>3, <4>1
      <4> HIDE DEF longer
      <4> QED BY <3>3, <4>1, <4>2
    <3> QED BY <3>1, <3>2, <3>3
  <2>4. longer = [k \in 0..m + 1 |-> longer[k]]
    OBVIOUS
  <2> HIDE DEF longer
  <2>5. to(longer, m + 1)
    BY <2>3, <2>4
  <2>6. m + 1 \in 0..n
    BY <1>2
  <2> HIDE DEF to
  <2> QED BY <2>5, <2>6
<1> HIDE DEF T, to
<1>3. \A m \in 0..n : m < n /\ m \in T => m + 1 \in T
  BY <1>2
<1>4. n \in T
  BY <1>1, <1>3, CountUp
<1> QED BY <1>4 DEF T, to, IsSieve

\* What a sieve has kept of the first n slots.
Kept(s, q, from, gone, n) ==
  /\ Len(s) <= n
  /\ n <= from => Len(s) = n
  /\ n >= from => Len(s) >= from
  /\ \A i \in 1..Len(s) : i <= from => s[i] = q[i]
  /\ \A i \in from + 1..n : q[i] \notin gone => \E k \in from + 1..Len(s) : s[k] = q[i]
  /\ \A k \in from + 1..Len(s) : \E i \in from + 1..n : s[k] = q[i]
  /\ AheadOnce(q, from) => AheadOnce(s, from)

LEMMA KeptGrows ==
  ASSUME NEW S, NEW q \in Seq(S), NEW from \in Nat, NEW gone, NEW n \in 0..Len(q), n < Len(q),
         NEW s \in Seq(S), Kept(s, q, from, gone, n)
  PROVE  /\ n + 1 <= from \/ q[n + 1] \notin gone => Kept(Append(s, q[n + 1]), q, from, gone, n + 1)
         /\ ~(n + 1 <= from \/ q[n + 1] \notin gone) => Kept(s, q, from, gone, n + 1)
<1> DEFINE x == q[n + 1]
           t == Append(s, x)
<1>1. n \in Nat /\ Len(s) \in Nat /\ n + 1 \in 1..Len(q) /\ x \in S
  OBVIOUS
<1>2. t \in Seq(S) /\ Len(t) = Len(s) + 1 /\ t[Len(s) + 1] = x /\ \A i \in 1..Len(s) : t[i] = s[i]
  OBVIOUS
<1>3. x = q[n + 1]
  OBVIOUS
<1> HIDE DEF x, t
<1>4. ASSUME n + 1 <= from \/ x \notin gone PROVE Kept(t, q, from, gone, n + 1)
  <2>1. /\ Len(t) <= n + 1
        /\ n + 1 <= from => Len(t) = n + 1
        /\ n + 1 >= from => Len(t) >= from
    BY <1>1, <1>2 DEF Kept
  <2>2. \A i \in 1..Len(t) : i <= from => t[i] = q[i]
    <3> SUFFICES ASSUME NEW i \in 1..Len(t), i <= from PROVE t[i] = q[i]
      OBVIOUS
    <3>1. CASE i \in 1..Len(s)
      BY <3>1, <1>2 DEF Kept
    <3>2. CASE i = Len(s) + 1
      <4>1. n <= from => Len(s) = n
        BY DEF Kept
      <4>2. n >= from => Len(s) >= from
        BY DEF Kept
      <4>3. i = n + 1
        BY <3>2, <4>1, <4>2, <1>1
      <4> QED BY <4>3, <3>2, <1>2, <1>3
    <3> QED BY <3>1, <3>2, <1>1, <1>2
  <2>3. \A i \in from + 1..n + 1 : q[i] \notin gone => \E k \in from + 1..Len(t) : t[k] = q[i]
    <3> SUFFICES ASSUME NEW i \in from + 1..n + 1, q[i] \notin gone
                 PROVE  \E k \in from + 1..Len(t) : t[k] = q[i]
      OBVIOUS
    <3>1. CASE i \in from + 1..n
      <4>1. PICK k \in from + 1..Len(s) : s[k] = q[i]
        BY <3>1 DEF Kept
      <4>2. k \in from + 1..Len(t) /\ k \in 1..Len(s)
        BY <1>1, <1>2
      <4> QED BY <4>1, <4>2, <1>2
    <3>2. CASE i = n + 1
      <4>1. Len(s) >= from
        BY <3>2, <1>1 DEF Kept
      <4>2. Len(s) + 1 \in from + 1..Len(t)
        BY <4>1, <1>1, <1>2
      <4> QED BY <4>2, <3>2, <1>2, <1>3
    <3> QED BY <3>1, <3>2, <1>1
  <2>4. \A k \in from + 1..Len(t) : \E i \in from + 1..n + 1 : t[k] = q[i]
    <3> SUFFICES ASSUME NEW k \in from + 1..Len(t) PROVE \E i \in from + 1..n + 1 : t[k] = q[i]
      OBVIOUS
    <3>1. CASE k \in from + 1..Len(s)
      <4>1. PICK i \in from + 1..n : s[k] = q[i]
        BY <3>1 DEF Kept
      <4>2. i \in from + 1..n + 1 /\ k \in 1..Len(s)
        BY <1>1, <3>1
      <4> QED BY <4>1, <4>2, <1>2
    <3>2. CASE k = Len(s) + 1
      <4>1. Len(s) <= n
        BY DEF Kept
      <4>2. n + 1 \in from + 1..n + 1
        BY <4>1, <3>2, <1>1, <1>2
      <4> QED BY <4>2, <3>2, <1>2, <1>3
    <3> QED BY <3>1, <3>2, <1>1, <1>2
  <2>5. ASSUME AheadOnce(q, from) PROVE AheadOnce(t, from)
    <3>1. AheadOnce(s, from)
      BY <2>5 DEF Kept
    <3>2. \A k \in from + 1..Len(s) : s[k] # x
      <4> SUFFICES ASSUME NEW k \in from + 1..Len(s), s[k] = x PROVE FALSE
        OBVIOUS
      <4>1. PICK i \in from + 1..n : s[k] = q[i]
        BY DEF Kept
      <4>2. Len(s) <= n
        BY DEF Kept
      <4>3. i \in from + 1..Len(q) /\ n + 1 \in from + 1..Len(q) /\ i # n + 1
        BY <1>1, <4>2
      <4> QED BY <2>5, <4>1, <4>3, <1>3 DEF AheadOnce
    <3>3. \A k \in from + 1..Len(t) : k \in (from + 1..Len(s)) \cap (1..Len(s)) \/ k = Len(s) + 1
      BY <1>1, <1>2
    <3>4. \A k \in from + 1..Len(t) : k \in from + 1..Len(s) \/ k = Len(s) + 1
      BY <3>3
    <3>5. \A k \in from + 1..Len(t) : k \in from + 1..Len(s) => t[k] = s[k]
      BY <1>1, <1>2
    <3>6. SUFFICES ASSUME NEW k \in from + 1..Len(t), NEW l \in from + 1..Len(t), t[k] = t[l] PROVE k = l
      BY DEF AheadOnce
    <3>7. CASE k \in from + 1..Len(s) /\ l \in from + 1..Len(s)
      BY <3>1, <3>5, <3>6, <3>7 DEF AheadOnce
    <3>8. CASE k = Len(s) + 1 /\ l \in from + 1..Len(s)
      BY <1>2, <3>2, <3>5, <3>6, <3>8
    <3>9. CASE l = Len(s) + 1 /\ k \in from + 1..Len(s)
      BY <1>2, <3>2, <3>5, <3>6, <3>9
    <3> QED BY <3>4, <3>7, <3>8, <3>9
  <2> QED BY <2>1, <2>2, <2>3, <2>4, <2>5 DEF Kept
<1>5. ASSUME ~(n + 1 <= from \/ x \notin gone) PROVE Kept(s, q, from, gone, n + 1)
  <2>1. n >= from
    BY <1>1, <1>5
  <2>2. /\ Len(s) <= n + 1
        /\ n + 1 <= from => Len(s) = n + 1
        /\ n + 1 >= from => Len(s) >= from
    BY <1>1, <2>1 DEF Kept
  <2>3. \A i \in 1..Len(s) : i <= from => s[i] = q[i]
    BY DEF Kept
  <2>4. \A i \in from + 1..n + 1 : q[i] \notin gone => \E k \in from + 1..Len(s) : s[k] = q[i]
    <3>1. \A i \in from + 1..n + 1 : i \in from + 1..n \/ i = n + 1
      BY <1>1
    <3> QED BY <3>1, <1>3, <1>5 DEF Kept
  <2>5. \A k \in from + 1..Len(s) : \E i \in from + 1..n + 1 : s[k] = q[i]
    <3>1. from + 1..n \subseteq from + 1..n + 1
      BY <1>1
    <3> QED BY <3>1 DEF Kept
  <2> QED BY <2>2, <2>3, <2>4, <2>5 DEF Kept
<1> QED BY <1>3, <1>4, <1>5 DEF t

LEMMA WithoutSieves ==
  ASSUME NEW S, NEW q \in Seq(S), NEW from \in Nat, NEW gone
  PROVE  Without(q, from, gone) \in Seq(S) /\ Kept(Without(q, from, gone), q, from, gone, Len(q))
<1> DEFINE m == Len(q)
           sieve == CHOOSE kept : IsSieve(kept, q, from, gone, m)
           T == {n \in 0..m : sieve[n] \in Seq(S) /\ Kept(sieve[n], q, from, gone, n)}
<1>1. m \in Nat
  OBVIOUS
<1>2. Without(q, from, gone) = sieve[m]
  BY Zenon DEF Without, IsSieve
<1>3. IsSieve(sieve, q, from, gone, m)
  <2> HIDE DEF m
  <2>1. \E kept : IsSieve(kept, q, from, gone, m)
    BY <1>1, SieveExists
  <2> QED BY <2>1
<1> HIDE DEF sieve
<1>4. \A n \in 0..m : sieve[n] = IF n = 0 THEN <<>>
                                 ELSE IF n <= from \/ q[n] \notin gone THEN Append(sieve[n - 1], q[n])
                                 ELSE sieve[n - 1]
  BY <1>3 DEF IsSieve
<1>5. 0 \in T
  <2>1. sieve[0] = <<>> /\ 0 \in 0..m
    BY <1>1, <1>4
  <2>2. <<>> \in Seq(S) /\ Len(<<>>) = 0
    OBVIOUS
  <2>3. Kept(<<>>, q, from, gone, 0)
    BY <2>2 DEF Kept, AheadOnce
  <2> QED BY <2>1, <2>2, <2>3
<1>6. ASSUME NEW n \in 0..m, n < m, n \in T PROVE n + 1 \in T
  <2> DEFINE s == sieve[n]
  <2>1. s \in Seq(S) /\ Kept(s, q, from, gone, n)
    BY <1>6
  <2>2. n + 1 \in 0..m /\ n + 1 # 0 /\ (n + 1) - 1 = n
    BY <1>1, <1>6
  <2>3. sieve[n + 1] = IF n + 1 <= from \/ q[n + 1] \notin gone THEN Append(s, q[n + 1]) ELSE s
    BY <1>4, <2>2
  <2>4. q[n + 1] \in S
    BY <1>6
  <2> HIDE DEF s, T
  <2>5. Append(s, q[n + 1]) \in Seq(S)
    BY <2>1, <2>4
  <2>6. /\ n + 1 <= from \/ q[n + 1] \notin gone => Kept(Append(s, q[n + 1]), q, from, gone, n + 1)
        /\ ~(n + 1 <= from \/ q[n + 1] \notin gone) => Kept(s, q, from, gone, n + 1)
    BY <1>6, <2>1, KeptGrows
  <2>7. sieve[n + 1] \in Seq(S) /\ Kept(sieve[n + 1], q, from, gone, n + 1)
    BY <2>1, <2>3, <2>5, <2>6
  <2> QED BY <2>2, <2>7 DEF T
<1> HIDE DEF T, m
<1>7. \A n \in 0..m : n < m /\ n \in T => n + 1 \in T
  BY <1>6
<1>8. 0..m \subseteq T
  BY ONLY <1>1, <1>5, <1>7, CountUp
<1>9. m \in T
  BY <1>1, <1>8
<1> QED BY <1>2, <1>9 DEF T, m

\* Taking cards out leaves the slots already shown, and every other card ahead in its order.
LEMMA WithoutFacts ==
  ASSUME NEW S, NEW q \in Seq(S), NEW from \in Nat, NEW gone, from <= Len(q)
  PROVE  /\ Without(q, from, gone) \in Seq(S) /\ from <= Len(Without(q, from, gone))
         /\ Ahead(q, from) \ gone \subseteq Ahead(Without(q, from, gone), from)
         /\ Ahead(Without(q, from, gone), from) \subseteq Ahead(q, from)
         /\ AheadOnce(q, from) => AheadOnce(Without(q, from, gone), from)
<1> DEFINE s == Without(q, from, gone)
<1>1. s \in Seq(S) /\ Kept(s, q, from, gone, Len(q))
  BY WithoutSieves
<1> HIDE DEF s
<1>2. Ahead(q, from) \ gone \subseteq Ahead(s, from)
  BY <1>1 DEF Kept, Ahead
<1>3. Ahead(s, from) \subseteq Ahead(q, from)
  BY <1>1 DEF Kept, Ahead
<1>4. from <= Len(s) /\ (AheadOnce(q, from) => AheadOnce(s, from))
  BY <1>1 DEF Kept
<1> QED BY <1>1, <1>2, <1>3, <1>4 DEF s

LEMMA RangeIsAhead ==
  ASSUME NEW S, NEW q \in Seq(S)
  PROVE  Range(q) = Ahead(q, 0) /\ Range(q) \subseteq S
<1>1. DOMAIN q = 1..Len(q) /\ 0 + 1 = 1
  OBVIOUS
<1> QED BY <1>1 DEF Range, Ahead

LEMMA ShuffleFacts ==
  ASSUME NEW S, NEW q \in Seq(S), NEW s \in Shuffles(q)
  PROVE  /\ s \in Seq(S) /\ Len(s) = Len(q) /\ Range(s) = Range(q)
         /\ AheadOnce(q, 0) => AheadOnce(s, 0)
<1> DEFINE D == DOMAIN q
<1>1. D = 1..Len(q) /\ Len(q) \in Nat
  OBVIOUS
<1>2. PICK p \in Bijection(D, D) : s = [i \in D |-> q[p[i]]]
  BY DEF Shuffles
<1>3. p \in [D -> D] /\ (\A i, j \in D : p[i] = p[j] => i = j) /\ \A j \in D : \E i \in D : p[i] = j
  BY <1>2 DEF Bijection, Injection, Surjection, IsInjective
<1>4. \A i \in D : p[i] \in D /\ q[p[i]] \in S
  BY <1>3
<1>5. s \in [1..Len(q) -> S]
  BY <1>1, <1>2, <1>4
<1>6. s \in Seq(S) /\ Len(s) = Len(q) /\ DOMAIN s = D
  BY <1>1, <1>5
<1>7. \A i \in D : s[i] = q[p[i]]
  BY <1>2
<1> HIDE DEF D
<1>8. Range(s) = Range(q)
  BY <1>3, <1>6, <1>7 DEF Range, D
<1>9. ASSUME AheadOnce(q, 0) PROVE AheadOnce(s, 0)
  <2>1. 0 + 1..Len(q) = D /\ 0 + 1..Len(s) = D
    BY <1>1, <1>6
  <2>2. \A i, j \in D : q[i] = q[j] => i = j
    BY <1>9, <2>1 DEF AheadOnce
  <2>3. \A i, j \in D : s[i] = s[j] => i = j
    BY <2>2, <1>3, <1>7
  <2> QED BY <2>1, <2>3 DEF AheadOnce
<1> QED BY <1>6, <1>8, <1>9

LEMMA SetToSeqFacts ==
  ASSUME NEW S, IsFiniteSet(S)
  PROVE  SetToSeq(S) \in Seq(S) /\ AheadOnce(SetToSeq(S), 0)
<1> DEFINE n == Cardinality(S)
           q == SetToSeq(S)
<1>1. n \in Nat /\ Bijection(1..n, S) # {}
  BY FS_CardinalityType DEF ExistsBijection
<1>2. \E f \in [1..n -> S] : IsInjective(f)
  BY <1>1 DEF Bijection, Injection
<1>3. q \in [1..n -> S] /\ IsInjective(q)
  <2>1. q = CHOOSE f \in [1..n -> S] : IsInjective(f)
    BY DEF SetToSeq
  <2> HIDE DEF q, n
  <2> QED BY <1>2, <2>1
<1> HIDE DEF q, n
<1>4. q \in Seq(S) /\ Len(q) = n /\ DOMAIN q = 1..n
  BY <1>1, <1>3
<1>5. AheadOnce(q, 0)
  BY <1>1, <1>3, <1>4 DEF AheadOnce, IsInjective
<1> QED BY <1>4, <1>5 DEF q

\* A queue's tail as a sequence of its own.
LEMMA TailFacts ==
  ASSUME NEW S, NEW q \in Seq(S), NEW n \in 0..Len(q)
  PROVE  LET t == SubSeq(q, n + 1, Len(q)) IN
         /\ t \in Seq(S) /\ Len(t) = Len(q) - n /\ Range(t) = Ahead(q, n)
         /\ AheadOnce(q, n) => AheadOnce(t, 0)
<1> DEFINE t == SubSeq(q, n + 1, Len(q))
<1>1. n \in Nat /\ Len(q) \in Nat
  OBVIOUS
<1>2. t \in Seq(S) /\ Len(t) = Len(q) - n
  OBVIOUS
<1>3. DOMAIN t = 1..Len(q) - n
  BY <1>2
<1>4. \A i \in 1..Len(q) - n : t[i] = q[n + i]
  OBVIOUS
<1> HIDE DEF t
<1>5. \A i \in n + 1..Len(q) : i - n \in 1..Len(q) - n /\ n + (i - n) = i
  BY <1>1
<1>6. \A i \in 1..Len(q) - n : n + i \in n + 1..Len(q)
  BY <1>1
<1>7. Range(t) = Ahead(q, n)
  <2>1. \A i \in n + 1..Len(q) : i - n \in DOMAIN t /\ t[i - n] = q[i]
    <3> TAKE i \in n + 1..Len(q)
    <3>1. i - n \in 1..Len(q) - n /\ n + (i - n) = i
      BY <1>5
    <3> QED BY <1>3, <1>4, <3>1
  <2>2. Ahead(q, n) \subseteq Range(t)
    BY <2>1 DEF Range, Ahead
  <2>3. Range(t) \subseteq Ahead(q, n)
    BY <1>3, <1>4, <1>6 DEF Range, Ahead
  <2> QED BY <2>2, <2>3
<1>8. ASSUME AheadOnce(q, n) PROVE AheadOnce(t, 0)
  <2> SUFFICES ASSUME NEW i \in 1..Len(q) - n, NEW j \in 1..Len(q) - n, t[i] = t[j] PROVE i = j
    <3>1. 0 + 1..Len(t) = 1..Len(q) - n
      BY <1>2
    <3> QED BY <3>1 DEF AheadOnce
  <2>1. n + i = n + j
    BY <1>4, <1>6, <1>8 DEF AheadOnce
  <2> QED BY <2>1, <1>1
<1> QED BY <1>2, <1>7, <1>8 DEF t

LEMMA BehindConcat ==
  ASSUME NEW S, NEW s \in Seq(S), NEW t \in Seq(S)
  PROVE  /\ s \o t \in Seq(S) /\ Len(s \o t) = Len(s) + Len(t)
         /\ Ahead(s \o t, Len(s)) = Range(t)
         /\ t # <<>> => (s \o t)[Len(s) + 1] = t[1]
         /\ AheadOnce(t, 0) => AheadOnce(s \o t, Len(s))
<1> DEFINE r == s \o t
           n == Len(s)
<1>1. r \in Seq(S) /\ Len(r) = n + Len(t) /\ n \in Nat /\ Len(t) \in Nat /\ DOMAIN t = 1..Len(t)
  OBVIOUS
<1>2. \A i \in 1..Len(t) : r[n + i] = t[i]
  OBVIOUS
<1>3. t # <<>> => r[n + 1] = t[1]
  OBVIOUS
<1> HIDE DEF r, n
<1>4. \A i \in n + 1..Len(r) : i - n \in 1..Len(t) /\ n + (i - n) = i
  BY <1>1
<1>5. \A i \in 1..Len(t) : n + i \in n + 1..Len(r)
  BY <1>1
<1>6. \A i \in n + 1..Len(r) : r[i] = t[i - n]
  <2> TAKE i \in n + 1..Len(r)
  <2>1. i - n \in 1..Len(t) /\ n + (i - n) = i
    BY <1>4
  <2>2. r[n + (i - n)] = t[i - n]
    BY <1>2, <2>1
  <2> QED BY <2>1, <2>2
<1>7. Ahead(r, n) = Range(t)
  <2>1. Ahead(r, n) \subseteq Range(t)
    BY <1>1, <1>4, <1>6 DEF Ahead, Range
  <2>2. Range(t) \subseteq Ahead(r, n)
    BY <1>1, <1>2, <1>5 DEF Ahead, Range
  <2> QED BY <2>1, <2>2
<1>8. ASSUME AheadOnce(t, 0) PROVE AheadOnce(r, n)
  <2> SUFFICES ASSUME NEW i \in n + 1..Len(r), NEW j \in n + 1..Len(r), r[i] = r[j] PROVE i = j
    BY DEF AheadOnce
  <2>1. t[i - n] = t[j - n] /\ i - n \in 1..Len(t) /\ j - n \in 1..Len(t)
    BY <1>4, <1>6
  <2>2. 0 + 1..Len(t) = 1..Len(t)
    OBVIOUS
  <2>3. i - n = j - n
    BY <2>1, <2>2, <1>8 DEF AheadOnce
  <2> QED BY <2>3, <1>1
<1> QED BY <1>1, <1>3, <1>7, <1>8 DEF r, n

LEMMA AheadOfConcat ==
  ASSUME NEW S, NEW s \in Seq(S), NEW t \in Seq(S), NEW n \in Nat
  PROVE  Ahead(s, n) \subseteq Ahead(s \o t, n)
<1>1. \A i \in n + 1..Len(s) : i \in n + 1..Len(s \o t) /\ (s \o t)[i] = s[i]
  OBVIOUS
<1> QED BY <1>1 DEF Ahead

LEMMA InsertFacts ==
  ASSUME NEW S, NEW s \in Seq(S), NEW x \in S, NEW k \in 1..Len(s) + 1
  PROVE  /\ InsertAt(s, k, x) \in Seq(S) /\ Len(InsertAt(s, k, x)) = Len(s) + 1
         /\ Range(InsertAt(s, k, x)) = Range(s) \cup {x}
         /\ k > 1 => InsertAt(s, k, x)[1] \in Range(s)
         /\ AheadOnce(s, 0) /\ x \notin Range(s) => AheadOnce(InsertAt(s, k, x), 0)
<1> DEFINE u == SubSeq(s, 1, k - 1)
           v == SubSeq(s, k, Len(s))
           t == InsertAt(s, k, x)
           n == Len(s)
<1>1. n \in Nat /\ k \in Nat /\ DOMAIN s = 1..n
  OBVIOUS
<1>2. u \in Seq(S) /\ Len(u) = k - 1 /\ \A i \in 1..k - 1 : u[i] = s[i]
  OBVIOUS
<1>3. v \in Seq(S) /\ Len(v) = n + 1 - k /\ \A i \in 1..n + 1 - k : v[i] = s[k + i - 1]
  OBVIOUS
<1>4. t = u \o <<x>> \o v
  BY DEF InsertAt
<1> HIDE DEF u, v, t, n
<1>5. t \in Seq(S) /\ Len(t) = n + 1
  <2>1. u \o <<x>> \in Seq(S) /\ Len(u \o <<x>>) = k
    BY <1>1, <1>2
  <2> DEFINE w == u \o <<x>>
  <2>4. w \in Seq(S) /\ Len(w) = k
    BY <2>1
  <2> HIDE DEF w
  <2>6. v \in Seq(S) /\ Len(v) = n + 1 - k
    BY <1>3
  <2>5. w \o v \in Seq(S) /\ Len(w \o v) = Len(w) + Len(v)
    BY ONLY <2>4, <2>6, ConcatProperties
  <2>2. (u \o <<x>>) \o v \in Seq(S) /\ Len((u \o <<x>>) \o v) = k + (n + 1 - k)
    BY <2>4, <2>5, <2>6 DEF w
  <2>3. k + (n + 1 - k) = n + 1
    BY <1>1
  <2> QED BY <1>4, <2>2, <2>3
<1>6. \A i \in 1..k - 1 : t[i] = s[i]
  BY <1>1, <1>2, <1>3, <1>4
<1>7. t[k] = x
  BY <1>1, <1>2, <1>3, <1>4
<1>8. \A i \in k + 1..n + 1 : t[i] = s[i - 1]
  <2> TAKE i \in k + 1..n + 1
  <2>1. i - k \in 1..n + 1 - k /\ k + (i - k) - 1 = i - 1 /\ i \in Nat
    BY <1>1
  <2>2. t[i] = v[i - k]
    BY <1>1, <1>2, <1>3, <1>4, <2>1
  <2>3. v[i - k] = s[k + (i - k) - 1]
    BY <1>3, <2>1
  <2> QED BY <2>1, <2>2, <2>3
<1>9. \A i \in 1..n + 1 : i = k \/ (i \in 1..k - 1 /\ i \in 1..n) \/ (i \in k + 1..n + 1 /\ i - 1 \in 1..n)
  BY <1>1 DEF n
<1>10. Range(t) = Range(s) \cup {x}
  <2>1. Range(t) \subseteq Range(s) \cup {x}
    <3> SUFFICES ASSUME NEW i \in 1..n + 1 PROVE t[i] \in Range(s) \cup {x}
      BY <1>5 DEF Range
    <3> QED BY <1>1, <1>6, <1>7, <1>8, <1>9 DEF Range
  <2>2. x \in Range(t)
    BY <1>5, <1>7 DEF Range, n
  <2>3. \A i \in 1..n : s[i] \in Range(t)
    <3> TAKE i \in 1..n
    <3>1. CASE i < k
      <4>1. i \in 1..k - 1 /\ i \in DOMAIN t
        BY <1>1, <1>5, <3>1
      <4> QED BY <4>1, <1>6 DEF Range
    <3>2. CASE i >= k
      <4>1. i + 1 \in k + 1..n + 1 /\ i + 1 \in DOMAIN t /\ (i + 1) - 1 = i
        BY <1>1, <1>5, <3>2
      <4> QED BY <4>1, <1>8 DEF Range
    <3> QED BY <3>1, <3>2, <1>1
  <2> QED BY <2>1, <2>2, <2>3, <1>1 DEF Range
<1>11. ASSUME k > 1 PROVE t[1] \in Range(s)
  <2>1. 1 \in 1..k - 1 /\ 1 \in 1..n
    BY <1>1, <1>11 DEF n
  <2> QED BY <2>1, <1>1, <1>6 DEF Range
<1>12. ASSUME AheadOnce(s, 0), x \notin Range(s) PROVE AheadOnce(t, 0)
  <2> DEFINE place(i) == IF i < k THEN i ELSE i - 1
  <2>1. \A i, j \in 1..n : s[i] = s[j] => i = j
    BY <1>1, <1>12 DEF AheadOnce, n
  <2>2. \A i \in 1..n : s[i] # x
    BY <1>1, <1>12 DEF Range
  <2>3. \A i \in 1..n + 1 : i # k => place(i) \in 1..n /\ t[i] = s[place(i)]
    <3> SUFFICES ASSUME NEW i \in 1..n + 1, i # k PROVE place(i) \in 1..n /\ t[i] = s[place(i)]
      OBVIOUS
    <3>1. CASE i < k
      <4>1. i \in 1..k - 1 /\ i \in 1..n
        BY <3>1, <1>1 DEF n
      <4> QED BY <3>1, <4>1, <1>6
    <3>2. CASE i > k
      <4>1. i \in k + 1..n + 1 /\ i - 1 \in 1..n /\ ~(i < k)
        BY <3>2, <1>1 DEF n
      <4> QED BY <4>1, <1>8
    <3> QED BY <3>1, <3>2, <1>1
  <2>4. \A i, j \in 1..n + 1 : i # k /\ j # k /\ place(i) = place(j) => i = j
    BY <1>1
  <2> HIDE DEF place
  <2>5. \A i, j \in 1..n + 1 : t[i] = t[j] => i = j
    <3> SUFFICES ASSUME NEW i \in 1..n + 1, NEW j \in 1..n + 1, t[i] = t[j] PROVE i = j
      OBVIOUS
    <3>1. CASE i # k /\ j # k
      BY <3>1, <2>1, <2>3, <2>4
    <3>2. CASE i = k \/ j = k
      BY <3>2, <2>2, <2>3, <1>7
    <3> QED BY <3>1, <3>2
  <2> QED BY <2>5, <1>5 DEF AheadOnce
<1> QED BY <1>5, <1>10, <1>11, <1>12 DEF t, n

\* insertRetryCard: the failed card is among the others, and not the first of them.
LEMMA RetryFacts ==
  ASSUME NEW S, NEW tail \in Seq(S), NEW x \in S, NEW t \in RetryPlaces(tail, x)
  PROVE  /\ t \in Seq(S) /\ Range(t) = Range(tail) \cup {x}
         /\ Len(t) = Len(tail) + 1
         /\ Len(tail) > 0 => t[1] \in Range(tail)
         /\ AheadOnce(tail, 0) /\ x \notin Range(tail) => AheadOnce(t, 0)
<1> DEFINE least == Min({2, Len(tail)})
<1>1. least \in {2, Len(tail)} /\ Len(tail) \in Nat
  <2>1. least = CHOOSE m \in {2, Len(tail)} : \A y \in {2, Len(tail)} : m <= y
    BY DEF Min
  <2>2. \E m \in {2, Len(tail)} : \A y \in {2, Len(tail)} : m <= y
    OBVIOUS
  <2> HIDE DEF least
  <2> QED BY <2>1, <2>2
<1>2. PICK s \in Shuffles(tail), k \in least + 1..Len(tail) + 1 : t = InsertAt(s, k, x)
  BY DEF RetryPlaces
<1> HIDE DEF least
<1>3. k \in 1..Len(tail) + 1 /\ (Len(tail) > 0 => k > 1)
  BY <1>1
<1>4. /\ s \in Seq(S) /\ Len(s) = Len(tail) /\ Range(s) = Range(tail)
      /\ AheadOnce(tail, 0) => AheadOnce(s, 0)
  BY ShuffleFacts
<1>5. /\ t \in Seq(S) /\ Range(t) = Range(s) \cup {x} /\ Len(t) = Len(s) + 1
      /\ k > 1 => t[1] \in Range(s)
      /\ AheadOnce(s, 0) /\ x \notin Range(s) => AheadOnce(t, 0)
  <2>1. k \in 1..Len(s) + 1 /\ s \in Seq(S)
    BY <1>3, <1>4
  <2>2. /\ InsertAt(s, k, x) \in Seq(S) /\ Len(InsertAt(s, k, x)) = Len(s) + 1
        /\ Range(InsertAt(s, k, x)) = Range(s) \cup {x}
        /\ k > 1 => InsertAt(s, k, x)[1] \in Range(s)
        /\ AheadOnce(s, 0) /\ x \notin Range(s) => AheadOnce(InsertAt(s, k, x), 0)
    BY <2>1, InsertFacts
  <2> QED BY <1>2, <2>2
<1> QED BY <1>3, <1>4, <1>5

\* The queues confirmGrade may leave: nothing ahead is lost, and a failed card comes back,
\* not as the next one while others are left.
LEMMA NextQueueFacts ==
  ASSUME queue \in Seq(Cards), dueItems \in Seq(Cards), index \in Nat, HasCard,
         NEW passed \in BOOLEAN, NEW q \in NextQueues(passed)
  PROVE  /\ q \in Seq(Cards) /\ index + 1 <= Len(q)
         /\ Ahead(queue, index + 1) \subseteq Ahead(q, index + 1)
         /\ ~passed => Current \in Ahead(q, index + 1)
         /\ mode = "normal" /\ AheadOnce(queue, index) =>
              /\ AheadOnce(q, index + 1)
              /\ ~passed /\ index + 1 < Len(queue) => q[index + 2] # Current
<1> DEFINE next == index + 1
           tail == SubSeq(queue, next + 1, Len(queue))
           kept == IF passed THEN {queue}
                   ELSE {SubSeq(queue, 1, next) \o t : t \in RetryPlaces(tail, Current)}
<1>1. /\ next \in 0..Len(queue) /\ next \in Nat /\ Len(queue) \in Nat /\ next + 1 = index + 2
      /\ index + 1 \in 1..Len(queue) /\ index \in 0..Len(queue)
  BY DEF HasCard
<1>2. Current \in Cards
  BY <1>1 DEF Current
<1>3. PICK k \in kept : q \in IF mode = "repeat" /\ dueItems # <<>> /\ next >= Len(k)
                             THEN {k \o more : more \in Shuffles(dueItems)}
                             ELSE {k}
  BY DEF NextQueues
<1>4. /\ k \in Seq(Cards) /\ next <= Len(k)
      /\ Ahead(queue, next) \subseteq Ahead(k, next)
      /\ ~passed => Current \in Ahead(k, next)
      /\ AheadOnce(queue, index) => AheadOnce(k, next) /\ (~passed /\ next < Len(queue) => k[next + 1] # Current)
  <2>1. AheadOnce(queue, index) => AheadOnce(queue, next) /\ Current \notin Ahead(queue, next)
    <3> SUFFICES ASSUME AheadOnce(queue, index)
                 PROVE  AheadOnce(queue, next) /\ Current \notin Ahead(queue, next)
      OBVIOUS
    <3>1. next + 1..Len(queue) \subseteq index + 1..Len(queue) /\ next \in index + 1..Len(queue)
          /\ next \notin next + 1..Len(queue)
      BY <1>1
    <3>2. Current = queue[next]
      BY DEF Current
    <3> HIDE DEF next
    <3> QED BY <3>1, <3>2 DEF AheadOnce, Ahead
  <2>2. CASE passed
    <3>1. k = queue
      BY <1>3, <2>2
    <3> QED BY <1>1, <2>1, <2>2, <3>1
  <2>3. CASE ~passed
    <3>1. PICK t \in RetryPlaces(tail, Current) : k = SubSeq(queue, 1, next) \o t
      BY <1>3, <2>3
    <3>2. /\ tail \in Seq(Cards) /\ Len(tail) = Len(queue) - next /\ Range(tail) = Ahead(queue, next)
          /\ AheadOnce(queue, next) => AheadOnce(tail, 0)
      <4> HIDE DEF next
      <4> QED BY <1>1, TailFacts
    <3>3. /\ t \in Seq(Cards) /\ Range(t) = Range(tail) \cup {Current} /\ Len(t) = Len(tail) + 1
          /\ Len(tail) > 0 => t[1] \in Range(tail)
          /\ AheadOnce(tail, 0) /\ Current \notin Range(tail) => AheadOnce(t, 0)
      <4>1. PICK x \in Cards : x = Current
        BY <1>2
      <4>2. tail \in Seq(Cards) /\ t \in RetryPlaces(tail, x)
        BY <3>1, <3>2, <4>1
      <4> HIDE DEF tail
      <4>3. /\ t \in Seq(Cards) /\ Range(t) = Range(tail) \cup {x} /\ Len(t) = Len(tail) + 1
            /\ Len(tail) > 0 => t[1] \in Range(tail)
            /\ AheadOnce(tail, 0) /\ x \notin Range(tail) => AheadOnce(t, 0)
        BY ONLY <4>2, RetryFacts
      <4> QED BY <4>1, <4>3
    <3> DEFINE shown == SubSeq(queue, 1, next)
    <3>4. shown \in Seq(Cards) /\ Len(shown) = next
      BY <1>1
    <3> HIDE DEF shown, tail, next
    <3>5. /\ shown \o t \in Seq(Cards) /\ Len(shown \o t) = next + Len(t)
          /\ Ahead(shown \o t, next) = Range(t)
          /\ t # <<>> => (shown \o t)[next + 1] = t[1]
          /\ AheadOnce(t, 0) => AheadOnce(shown \o t, next)
      BY <3>3, <3>4, BehindConcat
    <3>6. k = shown \o t
      BY <3>1 DEF shown
    <3>7. Len(t) \in Nat /\ Len(t) > 0 /\ t # <<>> /\ next + Len(t) >= next
      BY <1>1, <3>2, <3>3
    <3>8. AheadOnce(queue, index) => AheadOnce(k, next)
      BY <2>1, <3>2, <3>3, <3>5, <3>6
    <3>9. ASSUME AheadOnce(queue, index), next < Len(queue) PROVE k[next + 1] # Current
      <4>1. Len(tail) > 0
        BY <1>1, <3>2, <3>9
      <4> QED BY <4>1, <2>1, <3>2, <3>3, <3>5, <3>6, <3>7, <3>9
    <3>10. k \in Seq(Cards) /\ next <= Len(k) /\ Ahead(queue, next) \subseteq Ahead(k, next)
           /\ Current \in Ahead(k, next)
      BY <3>2, <3>3, <3>5, <3>6, <3>7
    <3> QED BY <3>8, <3>9, <3>10
  <2> QED BY <2>2, <2>3
<1> HIDE DEF kept, tail
<1>5. CASE q = k
  <2>1. next = index + 1 /\ next + 1 = index + 2
    BY <1>1
  <2> HIDE DEF next
  <2> QED BY <1>4, <1>5, <2>1
<1>6. CASE mode = "repeat" /\ \E more \in Shuffles(dueItems) : q = k \o more
  <2>1. PICK more \in Shuffles(dueItems) : q = k \o more
    BY <1>6
  <2>2. more \in Seq(Cards)
    BY ShuffleFacts
  <2> HIDE DEF next
  <2>3. Ahead(k, next) \subseteq Ahead(q, next)
    BY <1>1, <1>4, <2>1, <2>2, AheadOfConcat
  <2>4. q \in Seq(Cards) /\ Len(q) = Len(k) + Len(more) /\ Len(k) \in Nat /\ Len(more) \in Nat
    BY <1>4, <2>1, <2>2
  <2>5. next <= Len(q)
    BY <1>1, <1>4, <2>4
  <2> QED BY <1>4, <1>6, <2>3, <2>4, <2>5 DEF next
<1> QED BY <1>3, <1>5, <1>6

-----------------------------------------------------------------------------
(* The screen's part of the inductive invariant.                            *)
Requests == [id : Nat, kind : {"due", "repeat"}, read : BOOLEAN, cards : SUBSET Cards]

ScreenTyped ==
  /\ status \in Statuses /\ mode \in {"normal", "repeat"}
  /\ dueItems \in Seq(Cards) /\ queue \in Seq(Cards) /\ index \in Nat
  /\ face \in Cards \cup {None} /\ told \subseteq Cards
  /\ timer \in BOOLEAN /\ finishing \in BOOLEAN
  /\ unavailable \subseteq Cards
  /\ lists \subseteq Requests /\ listed \in Nat

AnswersTyped == attempts \subseteq answers /\ answers \subseteq Answer /\ dropped \subseteq answers

\* What is still to be shown: every due card not done with, once in a normal session.
AheadInv ==
  status = "active" =>
    /\ index <= Len(queue)
    /\ Range(dueItems) \ (Passed \cup told) \subseteq Ahead(queue, index)
    /\ mode = "normal" => AheadOnce(queue, index)

ScreenInv == IInv /\ ScreenTyped /\ AnswersTyped /\ AheadInv

LEMMA ScreenInit == Init => ScreenInv
<1> SUFFICES ASSUME Init PROVE ScreenInv
  OBVIOUS
<1>1. <<>> \in Seq(Cards)
  OBVIOUS
<1>2. ScreenTyped
  BY <1>1 DEF Init, ScreenTyped, Statuses
<1>3. AnswersTyped
  BY DEF Init, AnswersTyped
<1>4. AheadInv
  BY DEF Init, AheadInv
<1> QED BY <1>2, <1>3, <1>4, InitInv DEF ScreenInv

\* What the saver sends was answered, and is about cards.
LEMMA BatchCards ==
  ASSUME IInv, AnswersTyped
  PROVE  /\ \A i \in DOMAIN calls :
              /\ calls[i].batch \in Seq(answers)
              /\ calls[i].off \subseteq Cards
              /\ \A k \in DOMAIN calls[i].batch : calls[i].batch[k].card \in Cards
         /\ call # 0 => call \in DOMAIN calls
         /\ Unsaved \subseteq answers /\ InFlight \subseteq answers
<1>1. Rows(answers, pending) /\ \A a \in answers : a.card \in Cards
  BY DEF IInv, SaverInv, AnswersTyped, Answer
<1>2. {a.card : a \in answers} \subseteq Cards
  BY <1>1
<1>3. calls \in Seq(Calls(answers)) /\ call \in 0..Len(calls) /\ pending \in Seq(answers)
  BY <1>1 DEF Rows
<1>4. call # 0 => call \in DOMAIN calls
  BY <1>3
<1>5. ASSUME NEW i \in DOMAIN calls
      PROVE  /\ calls[i].batch \in Seq(answers)
             /\ calls[i].off \subseteq Cards
             /\ \A k \in DOMAIN calls[i].batch : calls[i].batch[k].card \in Cards
  <2>1. calls[i] \in Calls(answers)
    BY <1>3
  <2>2. calls[i].batch \in Seq(answers) /\ calls[i].off \subseteq {a.card : a \in answers}
    BY <2>1 DEF Calls
  <2>3. \A k \in DOMAIN calls[i].batch : calls[i].batch[k] \in answers
    BY <2>2
  <2> QED BY <1>1, <1>2, <2>2, <2>3
<1>6. Range(pending) \subseteq answers
  BY <1>3, RangeIsAhead
<1>7. InFlight \subseteq answers
  <2>1. CASE call = 0
    BY <2>1 DEF InFlight
  <2>2. CASE call # 0
    <3>1. calls[call].batch \in Seq(answers)
      BY <1>4, <1>5, <2>2
    <3> QED BY <2>2, <3>1, RangeIsAhead DEF InFlight
  <2> QED BY <2>1, <2>2
<1> QED BY <1>4, <1>5, <1>6, <1>7 DEF Unsaved

LEMMA AnswersStep ==
  ASSUME IInv, AnswersTyped, ScreenTyped, [Next]_vars
  PROVE  AnswersTyped'
<1> USE DEF screen, saver, server, bounds
<1>1. CASE UNCHANGED <<attempts, answers, dropped>>
  BY <1>1 DEF AnswersTyped
<1>2. CASE \E passed \in BOOLEAN : Grade(passed)
  <2>1. PICK passed \in BOOLEAN : Grade(passed)
    BY <1>2
  <2> DEFINE x == [n |-> Cardinality(answers) + 1, card |-> Current, passed |-> passed]
  <2>2. /\ answers' = answers \cup {x} /\ attempts' = attempts \cup {x} /\ dropped' = dropped
        /\ HasCard /\ Cardinality(answers) < MaxAnswers
    BY <2>1 DEF Grade
  <2>3. Cardinality(answers) \in Nat
    BY FS_CardinalityType DEF IInv, Numbered
  <2>4. Cardinality(answers) + 1 \in 1..MaxAnswers
    BY <2>2, <2>3, PracticeAssumption
  <2>5. Current \in Cards
    <3>1. index + 1 \in 1..Len(queue)
      BY <2>2 DEF ScreenTyped, HasCard
    <3> QED BY <3>1 DEF ScreenTyped, Current
  <2>6. x \in Answer
    BY <2>4, <2>5 DEF Answer
  <2> HIDE DEF x
  <2> QED BY <2>2, <2>6 DEF AnswersTyped
<1>3. CASE BatchRefused
  <2>1. /\ call # 0 /\ dropped' = dropped \cup Range(calls[call].batch)
        /\ attempts' = attempts /\ answers' = answers
    BY <1>3 DEF BatchRefused
  <2>2. Range(calls[call].batch) \subseteq answers
    BY <2>1, BatchCards DEF InFlight
  <2> QED BY <2>1, <2>2 DEF AnswersTyped
<1>4. CASE Reload
  <2>1. attempts' = {} /\ answers' = answers /\ dropped' = dropped \cup Unsaved
    BY <1>4 DEF Reload
  <2> QED BY <2>1, BatchCards DEF AnswersTyped
<1>5. CASE \E l \in lists : ListArrives(l)
  <2>1. answers' = answers /\ dropped' = dropped /\ (attempts' = {} \/ attempts' = attempts)
    BY <1>5 DEF ListArrives, StartSession, NothingToPractise
  <2> QED BY <2>1 DEF AnswersTyped
<1>6. CASE \/ Focus \/ StartRepeat \/ Reveal \/ LeaveSummary \/ WaiterDone
           \/ FlushLater \/ NoticeEnd \/ EndSession \/ FinishRepeat \/ BatchSaved \/ BatchFails
           \/ \E l \in lists : ReadList(l) \/ ListFails(l)
           \/ \E c \in Cards : ArchiveElsewhere(c)
           \/ \E i \in DOMAIN calls : Serve(i)
           \/ UNCHANGED vars
  <2>1. UNCHANGED <<attempts, answers, dropped>>
    BY <1>6 DEF Focus, StartRepeat, Reveal, LeaveSummary, WaiterDone, FlushLater, NoticeEnd, EndSession,
                FinishRepeat, BatchSaved, BatchFails, ReadList, ListFails, ArchiveElsewhere, Serve, vars
  <2> QED BY <1>1, <2>1
<1> QED BY <1>2, <1>3, <1>4, <1>5, <1>6 DEF Next, Learner, Client, Server, Faults

\* A list that starts a session brings its cards, each once.
LEMMA StartFacts ==
  ASSUME ScreenTyped, NEW l \in lists, StartSession(l)
  PROVE  /\ dueItems' \in Seq(Cards) /\ queue' = dueItems'
         /\ Range(dueItems') = Ahead(queue', 0) /\ AheadOnce(queue', 0)
<1>1. PICK q \in Shuffles(SetToSeq(l.cards)) : dueItems' = q /\ queue' = q
  BY DEF StartSession
<1>2. l.cards \subseteq Cards
  BY DEF ScreenTyped, Requests
<1>3. IsFiniteSet(l.cards)
  BY <1>2, PracticeAssumption, FS_Subset
<1> DEFINE s == SetToSeq(l.cards)
<1>4. s \in Seq(l.cards) /\ AheadOnce(s, 0)
  BY <1>3, SetToSeqFacts
<1> HIDE DEF s
<1>5. s \in Seq(Cards)
  BY <1>2, <1>4, SeqMonotonic
<1>6. q \in Shuffles(s)
  BY <1>1 DEF s
<1>7. q \in Seq(Cards) /\ AheadOnce(q, 0)
  BY <1>4, <1>5, <1>6, ShuffleFacts
<1> QED BY <1>1, <1>7, RangeIsAhead

LEMMA GradeFacts ==
  ASSUME ScreenTyped, NEW passed \in BOOLEAN, Grade(passed)
  PROVE  /\ queue' \in Seq(Cards) /\ index' = index + 1 /\ index' <= Len(queue')
         /\ Ahead(queue, index) \subseteq Ahead(queue', index') \cup {Current}
         /\ ~passed => Current \in Ahead(queue', index')
         /\ mode = "normal" /\ AheadOnce(queue, index) =>
              /\ AheadOnce(queue', index')
              /\ ~passed /\ index + 1 < Len(queue) => queue'[index' + 1] # Current
<1>1. queue \in Seq(Cards) /\ dueItems \in Seq(Cards) /\ index \in Nat /\ HasCard
  BY DEF ScreenTyped, Grade
<1>2. queue' \in NextQueues(passed) /\ index' = index + 1
  BY DEF Grade
<1>3. /\ queue' \in Seq(Cards) /\ index + 1 <= Len(queue')
      /\ Ahead(queue, index + 1) \subseteq Ahead(queue', index + 1)
      /\ ~passed => Current \in Ahead(queue', index + 1)
      /\ mode = "normal" /\ AheadOnce(queue, index) =>
           /\ AheadOnce(queue', index + 1)
           /\ ~passed /\ index + 1 < Len(queue) => queue'[index + 2] # Current
  BY <1>1, <1>2, NextQueueFacts
<1>4. Ahead(queue, index) \subseteq Ahead(queue, index + 1) \cup {Current}
  <2>1. \A i \in index + 1..Len(queue) : i = index + 1 \/ i \in index + 1 + 1..Len(queue)
    BY <1>1
  <2> QED BY <2>1 DEF Ahead, Current
<1>5. index' + 1 = index + 2
  BY <1>1, <1>2
<1> QED BY <1>2, <1>3, <1>4, <1>5

\* A reply that names cards gone, in any state of the screen.
LEMMA ForgetFacts ==
  ASSUME IInv, AnswersTyped, ScreenTyped, BatchSaved \/ BatchRefused
  PROVE  \E gone \in SUBSET Cards :
           /\ ForgetCards(gone)
           /\ dueItems' = dueItems \/ dueItems' = Without(dueItems, 0, gone)
<1>1. CASE BatchSaved
  <2>1. calls[call].off \subseteq Cards
    BY <1>1, BatchCards DEF BatchSaved
  <2> QED BY <1>1, <2>1 DEF BatchSaved
<1>2. CASE BatchRefused
  <2> DEFINE gone == {calls[call].batch[i].card : i \in DOMAIN calls[call].batch}
  <2>1. \A i \in DOMAIN calls[call].batch : calls[call].batch[i].card \in Cards
    BY <1>2, BatchCards DEF BatchRefused
  <2>2. gone \subseteq Cards
    BY <2>1
  <2>3. ForgetCards(gone) /\ dueItems' = dueItems
    BY <1>2 DEF BatchRefused
  <2> QED BY <2>2, <2>3
<1> QED BY <1>1, <1>2

LEMMA TypedStep ==
  ASSUME IInv, AnswersTyped, ScreenTyped, [Next]_vars
  PROVE  ScreenTyped'
<1> USE DEF screen, saver, server, bounds
<1>1. CASE Focus \/ StartRepeat
  <2>1. lists' \subseteq Requests /\ listed' \in Nat
    <3>1. \E k \in {"due", "repeat"} :
            lists' = lists \cup {[id |-> listed + 1, kind |-> k, read |-> FALSE, cards |-> {}]}
      BY <1>1 DEF Focus, StartRepeat
    <3>2. listed' = listed + 1 /\ listed \in Nat /\ listed + 1 \in Nat /\ lists \subseteq Requests
      BY <1>1 DEF Focus, StartRepeat, ScreenTyped
    <3>3. \A k \in {"due", "repeat"} :
            [id |-> listed + 1, kind |-> k, read |-> FALSE, cards |-> {}] \in Requests
      BY <3>2 DEF Requests
    <3> HIDE DEF Requests
    <3> QED BY <3>1, <3>2, <3>3
  <2> QED BY <1>1, <2>1 DEF Focus, StartRepeat, ScreenTyped, Statuses
<1>2. CASE Reveal
  <2>1. index + 1 \in 1..Len(queue)
    BY <1>2 DEF Reveal, HasCard, ScreenTyped
  <2>2. Current \in Cards
    BY <2>1 DEF Current, ScreenTyped
  <2> QED BY <1>2, <2>2 DEF Reveal, ScreenTyped
<1>3. CASE LeaveSummary \/ WaiterDone \/ NoticeEnd \/ EndSession \/ FinishRepeat \/ FlushLater
  BY <1>3 DEF LeaveSummary, WaiterDone, NoticeEnd, EndSession, FinishRepeat, FlushLater, ScreenTyped, Statuses
<1>4. CASE \E l \in lists : ReadList(l)
  <2>1. PICK l \in lists : ReadList(l)
    BY <1>4
  <2>2. DueNow \subseteq Cards
    BY DEF DueNow
  <2>3. \E c \in SUBSET Cards : lists' = (lists \ {l}) \cup {[l EXCEPT !.read = TRUE, !.cards = c]}
    BY <2>1, <2>2 DEF ReadList
  <2>4. lists' \subseteq Requests
    <3>1. l \in Requests /\ lists \subseteq Requests
      BY DEF ScreenTyped
    <3>2. \A c \in SUBSET Cards : [l EXCEPT !.read = TRUE, !.cards = c] \in Requests
      BY <3>1 DEF Requests
    <3> QED BY <2>3, <3>1, <3>2
  <2> QED BY <2>1, <2>4 DEF ReadList, ScreenTyped
<1>5. CASE \E l \in lists : ListFails(l)
  BY <1>5 DEF ListFails, ScreenTyped, Statuses
<1>6. CASE \E l \in lists : ListArrives(l)
  <2>1. PICK l \in lists : ListArrives(l)
    BY <1>6
  <2>2. lists' \subseteq lists /\ UNCHANGED <<timer, finishing, unavailable, listed>>
    BY <2>1 DEF ListArrives
  <2>3. CASE StartSession(l)
    <3>1. dueItems' \in Seq(Cards) /\ queue' \in Seq(Cards)
      BY <2>3, StartFacts
    <3>2. status' = "active" /\ index' = 0 /\ face' = None /\ told' = {} /\ mode' \in {"repeat", mode}
      BY <2>3 DEF StartSession
    <3> QED BY <2>2, <3>1, <3>2 DEF ScreenTyped, Statuses
  <2>4. CASE NothingToPractise(l)
    <3>1. <<>> \in Seq(Cards)
      OBVIOUS
    <3>2. dueItems' \in Seq(Cards) /\ queue' \in Seq(Cards)
      BY <2>4, <3>1 DEF NothingToPractise, ScreenTyped
    <3> QED BY <2>2, <2>4, <3>2 DEF NothingToPractise, ScreenTyped, Statuses
  <2> QED BY <2>1, <2>3, <2>4 DEF ListArrives
<1>7. CASE \E passed \in BOOLEAN : Grade(passed)
  <2>1. PICK passed \in BOOLEAN : Grade(passed)
    BY <1>7
  <2>2. queue' \in Seq(Cards) /\ index' = index + 1
    BY <2>1, GradeFacts
  <2>3. face' = None /\ UNCHANGED <<status, mode, dueItems, told, timer, finishing, unavailable, lists, listed>>
    BY <2>1 DEF Grade
  <2> QED BY <2>2, <2>3 DEF ScreenTyped
<1>8. CASE BatchSaved \/ BatchRefused
  <2>1. PICK gone \in SUBSET Cards :
          ForgetCards(gone) /\ (dueItems' = dueItems \/ dueItems' = Without(dueItems, 0, gone))
    BY <1>8, ForgetFacts
  <2>2. queue' \in Seq(Cards) /\ dueItems' \in Seq(Cards)
    BY <2>1, WithoutSieves DEF ForgetCards, ScreenTyped
  <2>3. told' \subseteq Cards
    BY <2>1 DEF ForgetCards, ScreenTyped
  <2>4. timer' \in BOOLEAN
    BY <1>8 DEF BatchSaved, BatchRefused, Settle, ScreenTyped
  <2>5. UNCHANGED <<status, mode, index, face, finishing, unavailable, lists, listed>>
    BY <1>8 DEF BatchSaved, BatchRefused
  <2> QED BY <2>2, <2>3, <2>4, <2>5 DEF ScreenTyped
<1>9. CASE BatchFails
  <2>1. timer' \in BOOLEAN
    BY <1>9 DEF BatchFails, Settle, ScreenTyped
  <2> QED BY <1>9, <2>1 DEF BatchFails, ScreenTyped
<1>10. CASE Reload
  <2>1. <<>> \in Seq(Cards)
    OBVIOUS
  <2> QED BY <1>10, <2>1 DEF Reload, ScreenTyped, Statuses
<1>11. CASE \E i \in DOMAIN calls : Serve(i)
  <2>1. PICK i \in DOMAIN calls : Serve(i)
    BY <1>11
  <2>2. SuspendedBy(calls[i].batch) \subseteq Cards
    BY BatchCards DEF SuspendedBy, Range
  <2>3. unavailable' \subseteq Cards
    BY <2>1, <2>2 DEF Serve, Record, Refuse, ScreenTyped
  <2> QED BY <2>1, <2>3 DEF Serve, ScreenTyped
<1>12. CASE \E c \in Cards : ArchiveElsewhere(c)
  BY <1>12 DEF ArchiveElsewhere, ScreenTyped
<1>13. CASE UNCHANGED vars
  BY <1>13 DEF vars, ScreenTyped
<1> QED BY <1>1, <1>2, <1>3, <1>4, <1>5, <1>6, <1>7, <1>8, <1>9, <1>10, <1>11, <1>12, <1>13
         DEF Next, Learner, Client, Server, Faults

LEMMA AheadStep ==
  ASSUME IInv, AnswersTyped, ScreenTyped, AheadInv, [Next]_vars
  PROVE  AheadInv'
<1> USE DEF screen, saver, server, bounds
<1>1. CASE status' # "active"
  BY <1>1 DEF AheadInv
<1>2. ASSUME UNCHANGED <<dueItems, queue, index, attempts, told>>,
             status' = "active" => status = "active" /\ mode' = mode
      PROVE  AheadInv'
  BY <1>2 DEF AheadInv, Passed, Ahead, AheadOnce, Range
<1>3. CASE \/ Focus \/ StartRepeat \/ Reveal \/ LeaveSummary \/ WaiterDone
           \/ FlushLater \/ NoticeEnd \/ EndSession \/ FinishRepeat \/ BatchFails
           \/ \E l \in lists : ReadList(l) \/ ListFails(l)
           \/ \E c \in Cards : ArchiveElsewhere(c)
           \/ \E i \in DOMAIN calls : Serve(i)
           \/ UNCHANGED vars
  <2>1. /\ UNCHANGED <<dueItems, queue, index, attempts, told>>
        /\ status' = "active" => status = "active" /\ mode' = mode
    BY <1>3 DEF Focus, StartRepeat, Reveal, LeaveSummary, WaiterDone, FlushLater, NoticeEnd, EndSession,
                FinishRepeat, BatchFails, ReadList, ListFails, ArchiveElsewhere, Serve, vars
  <2> QED BY <1>2, <2>1
<1>4. CASE Reload
  BY <1>1, <1>4 DEF Reload
<1>5. CASE \E l \in lists : ListArrives(l)
  <2>1. PICK l \in lists : ListArrives(l)
    BY <1>5
  <2>2. CASE StartSession(l)
    <3>1. queue' \in Seq(Cards) /\ Range(dueItems') = Ahead(queue', 0) /\ AheadOnce(queue', 0)
      BY <2>2, StartFacts
    <3>2. index' = 0
      BY <2>2 DEF StartSession
    <3> QED BY <3>1, <3>2 DEF AheadInv, Ahead, AheadOnce, Range
  <2>3. CASE NothingToPractise(l)
    BY <1>1, <2>3 DEF NothingToPractise
  <2> QED BY <2>1, <2>2, <2>3 DEF ListArrives
<1>6. CASE \E passed \in BOOLEAN : Grade(passed)
  <2>1. PICK passed \in BOOLEAN : Grade(passed)
    BY <1>6
  <2>2. status = "active" /\ UNCHANGED <<mode, dueItems, told>>
    BY <2>1 DEF Grade
  <2>3. \E x : attempts' = attempts \cup {x} /\ x.card = Current /\ x.passed = passed
    BY <2>1 DEF Grade
  <2>4. Passed \subseteq Passed' /\ (passed => Current \in Passed')
    BY <2>3 DEF Passed
  <2>5. Range(dueItems)' = Range(dueItems)
    BY <2>2 DEF Range
  <2>6. /\ Range(dueItems) \ (Passed \cup told) \subseteq Ahead(queue, index)
        /\ mode = "normal" => AheadOnce(queue, index)
    BY <2>2 DEF AheadInv
  <2>7. /\ index' <= Len(queue')
        /\ Ahead(queue, index) \subseteq Ahead(queue', index') \cup {Current}
        /\ ~passed => Current \in Ahead(queue', index')
        /\ mode = "normal" /\ AheadOnce(queue, index) => AheadOnce(queue', index')
    BY <2>1, GradeFacts
  <2>8. Range(dueItems)' \ (Passed' \cup told') \subseteq Ahead(queue', index')
    BY <2>2, <2>4, <2>5, <2>6, <2>7
  <2>9. Ahead(queue', index') = Ahead(queue, index)' /\ AheadOnce(queue', index') = AheadOnce(queue, index)'
    BY DEF Ahead, AheadOnce
  <2> QED BY <2>2, <2>6, <2>7, <2>8, <2>9 DEF AheadInv
<1>7. CASE BatchSaved \/ BatchRefused
  <2> SUFFICES ASSUME status' = "active" PROVE AheadInv'
    BY <1>1
  <2>1. UNCHANGED <<status, mode, index, attempts>>
    BY <1>7 DEF BatchSaved, BatchRefused
  <2>2. PICK gone \in SUBSET Cards :
          ForgetCards(gone) /\ (dueItems' = dueItems \/ dueItems' = Without(dueItems, 0, gone))
    BY <1>7, ForgetFacts
  <2>3. queue' = Without(queue, index, gone) /\ told' = told \cup gone
    BY <2>2 DEF ForgetCards
  <2>4. /\ index <= Len(queue)
        /\ Range(dueItems) \ (Passed \cup told) \subseteq Ahead(queue, index)
        /\ mode = "normal" => AheadOnce(queue, index)
    BY <2>1 DEF AheadInv
  <2>5. dueItems \in Seq(Cards) /\ queue \in Seq(Cards) /\ index \in Nat
    BY DEF ScreenTyped
  <2>6. /\ index <= Len(queue')
        /\ Ahead(queue, index) \ gone \subseteq Ahead(queue', index)
        /\ AheadOnce(queue, index) => AheadOnce(queue', index)
    BY <2>3, <2>4, <2>5, WithoutFacts
  <2>7. Range(dueItems') \subseteq Range(dueItems)
    <3>1. CASE dueItems' = Without(dueItems, 0, gone)
      <4>1. 0 \in Nat /\ 0 <= Len(dueItems)
        BY <2>5
      <4>2. dueItems' \in Seq(Cards) /\ Ahead(dueItems', 0) \subseteq Ahead(dueItems, 0)
        BY <2>5, <3>1, <4>1, WithoutFacts
      <4> QED BY <2>5, <4>2, RangeIsAhead
    <3> QED BY <2>2, <3>1
  <2>8. Passed' = Passed
    BY <2>1 DEF Passed
  <2>9. Range(dueItems') \ (Passed' \cup told') \subseteq Ahead(queue', index')
    BY <2>1, <2>3, <2>4, <2>6, <2>7, <2>8
  <2>10. Ahead(queue', index') = Ahead(queue, index)' /\ AheadOnce(queue', index') = AheadOnce(queue, index)'
         /\ Range(dueItems') = Range(dueItems)'
    BY DEF Ahead, AheadOnce, Range
  <2> QED BY <2>1, <2>4, <2>6, <2>9, <2>10 DEF AheadInv
<1> QED BY <1>3, <1>4, <1>5, <1>6, <1>7 DEF Next, Learner, Client, Server, Faults

LEMMA Screen == Spec => []ScreenInv
<1>1. ScreenInv /\ [Next]_vars => ScreenInv'
  BY NextInv, AnswersStep, TypedStep, AheadStep DEF ScreenInv
<1> QED BY ScreenInit, <1>1, PTL DEF Spec

\* The index never leaves the queue of an active session, and every part of the session's
\* state stays what its type says.
THEOREM SessionStaysWellFormed == Spec => []TypeOK
<1>1. ScreenInv => TypeOK
  <2> SUFFICES ASSUME ScreenInv PROVE TypeOK
    OBVIOUS
  <2>1. ScreenTyped /\ AnswersTyped /\ AheadInv /\ Rows(answers, pending)
    BY DEF ScreenInv, IInv, SaverInv
  <2>2. pending \in Seq(Answer) /\ log \in Seq(Answer)
    BY <2>1, SeqMonotonic DEF AnswersTyped, Rows
  <2> QED BY <2>1, <2>2 DEF TypeOK, ScreenTyped, AnswersTyped, AheadInv, Rows
<1> QED BY Screen, <1>1, PTL

\* However answers, suspensions, refusals and late lists follow each other, a due card neither
\* answered well nor declared gone is still to come in the queue.
THEOREM EveryDueCardComes == Spec => []NoCardForgotten
<1>1. ScreenInv => NoCardForgotten
  <2> SUFFICES ASSUME ScreenInv, status = "active", NEW c \in Range(dueItems), c \notin Passed \cup told
               PROVE  \E i \in index + 1..Len(queue) : queue[i] = c
    BY DEF NoCardForgotten
  <2>1. c \in Ahead(queue, index)
    BY DEF ScreenInv, AheadInv
  <2> QED BY <2>1 DEF Ahead
<1> QED BY Screen, <1>1, PTL

\* A failed card is never shown again at once while others are left.
THEOREM FailedCardComesLater == Spec => FailedCardWaits
<1>1. ScreenInv /\ [Next]_vars =>
        [\A a \in answers' \ answers :
           ~a.passed /\ mode = "normal" /\ index' < Len(queue) => queue'[index' + 1] # a.card]_vars
  <2> SUFFICES ASSUME ScreenInv, Next, NEW a \in answers' \ answers,
                      ~a.passed, mode = "normal", index' < Len(queue)
               PROVE  queue'[index' + 1] # a.card
    OBVIOUS
  <2>1. \E passed \in BOOLEAN : Grade(passed)
    BY DEF Next, Learner, Client, Server, Faults, Focus, StartRepeat, Reveal, LeaveSummary, WaiterDone, FlushLater,
           NoticeEnd, EndSession, FinishRepeat, BatchSaved, BatchRefused, BatchFails, Reload, ListArrives, ReadList,
           ListFails, ArchiveElsewhere, Serve
  <2>2. PICK passed \in BOOLEAN : Grade(passed)
    BY <2>1
  <2>3. a.card = Current /\ a.passed = passed /\ status = "active"
    BY <2>2 DEF Grade
  <2>4. ScreenTyped /\ AheadOnce(queue, index)
    BY <2>3 DEF ScreenInv, AheadInv
  <2>5. index' = index + 1
    BY <2>2 DEF Grade
  <2>6. ~passed /\ index + 1 < Len(queue)
    BY <2>3, <2>5
  <2> QED BY <2>2, <2>3, <2>4, <2>6, GradeFacts
<1> QED BY Screen, <1>1, PTL DEF Spec, FailedCardWaits

-----------------------------------------------------------------------------
(* How often an answer is recorded.  Each failure may put a batch back that *)
(* the server receives all the same, and nothing else repeats an answer.    *)
Places(s, a) == {k \in DOMAIN s : s[k] = a}
Sends(a) == {i \in DOMAIN calls : a \in Range(calls[i].batch)}
Applied(a) == {i \in Sends(a) : calls[i].state = "applied"}
Waiting(u, a) == IF a \in Range(u) THEN 1 ELSE 0

\* No more sends than failures, but for the first; no more rows than applied sends.
Counted(u, a) ==
  /\ Cardinality(Sends(a)) + Waiting(u, a) <= failures + 1
  /\ Cardinality(Places(log, a)) <= Cardinality(Applied(a))

CountInv(A, u) == failures \in Nat /\ \A a \in A : Counted(u, a)

LEMMA CountInit == Init => CountInv(answers, pending)
  BY DEF Init, CountInv

LEMMA CountsAreFinite ==
  ASSUME NEW A, calls \in Seq(Calls(A)), log \in Seq(A), NEW a
  PROVE  /\ IsFiniteSet(Sends(a)) /\ Cardinality(Sends(a)) \in Nat
         /\ IsFiniteSet(Applied(a)) /\ Cardinality(Applied(a)) \in Nat
         /\ Cardinality(Applied(a)) <= Cardinality(Sends(a))
         /\ IsFiniteSet(Places(log, a)) /\ Cardinality(Places(log, a)) \in Nat
<1>1. DOMAIN calls = 1..Len(calls) /\ Len(calls) \in Nat /\ DOMAIN log = 1..Len(log) /\ Len(log) \in Nat
  OBVIOUS
<1>2. IsFiniteSet(DOMAIN calls) /\ IsFiniteSet(DOMAIN log)
  BY <1>1, FS_Interval
<1>3. Sends(a) \in SUBSET DOMAIN calls /\ Applied(a) \in SUBSET Sends(a) /\ Places(log, a) \in SUBSET DOMAIN log
  BY DEF Sends, Applied, Places
<1>4. IsFiniteSet(Sends(a)) /\ IsFiniteSet(Places(log, a))
  BY <1>2, <1>3, FS_Subset
<1>5. IsFiniteSet(Applied(a)) /\ Cardinality(Applied(a)) <= Cardinality(Sends(a))
  BY <1>3, <1>4, FS_Subset
<1> QED BY <1>4, <1>5, FS_CardinalityType

\* A new answer was in no batch and has no row.
LEMMA CountNew ==
  ASSUME NEW A, NEW u, NEW x, x \notin A, CountInv(A, u), u \in Seq(A),
         calls \in Seq(Calls(A)), log \in Seq(A)
  PROVE  CountInv(A \cup {x}, Append(u, x))
<1>1. Range(Append(u, x)) = Range(u) \cup {x}
  <2>1. u \in Seq(A \cup {x})
    OBVIOUS
  <2> QED BY <2>1, RangeAppend
<1>2. ASSUME NEW a \in A PROVE Counted(Append(u, x), a)
  BY <1>1, <1>2 DEF CountInv, Counted, Waiting
<1>3. Sends(x) = {} /\ Applied(x) = {} /\ Places(log, x) = {}
  <2>1. \A i \in DOMAIN calls : Range(calls[i].batch) \subseteq A
    BY BatchType DEF Range
  <2> QED BY <2>1 DEF Sends, Applied, Places
<1>4. Counted(Append(u, x), x)
  <2>1. Cardinality({}) = 0
    BY FS_EmptySet
  <2> QED BY <1>3, <2>1 DEF Counted, Waiting, CountInv
<1> QED BY <1>2, <1>4 DEF CountInv

\* A flush turns a waiting answer into one sent once more.
LEMMA CountFlush ==
  ASSUME NEW A, NEW u \in Seq(A), CountInv(A, u), calls \in Seq(Calls(A)), log \in Seq(A),
         Flush(u), UNCHANGED <<log, failures>>
  PROVE  CountInv(A, pending)'
<1>1. CASE call # 0 \/ u = <<>>
  <2>1. pending' = u /\ calls' = calls
    BY <1>1 DEF Flush
  <2> QED BY <2>1 DEF CountInv, Counted, Waiting, Sends, Applied, Places
<1>2. CASE call = 0 /\ u # <<>>
  <2> DEFINE c == [batch |-> u, state |-> "sent", off |-> {}]
  <2> DEFINE new == Len(calls) + 1
  <2>1. pending' = <<>> /\ calls' = Append(calls, c)
    BY <1>2 DEF Flush
  <2>2. c \in Calls(A) /\ c.batch = u /\ c.state # "applied"
    BY DEF Calls
  <2> HIDE DEF c
  <2>3. /\ DOMAIN calls' = DOMAIN calls \cup {new} /\ new \notin DOMAIN calls
        /\ calls'[new] = c /\ \A i \in DOMAIN calls : calls'[i] = calls[i]
    BY <2>1, <2>2
  <2> HIDE DEF new
  <2> SUFFICES ASSUME NEW a \in A PROVE Counted(pending, a)'
    BY DEF CountInv
  <2>4. Applied(a)' = Applied(a) /\ Places(log, a)' = Places(log, a)
    BY <2>2, <2>3 DEF Applied, Sends, Places
  <2>5. Sends(a)' = IF a \in Range(u) THEN Sends(a) \cup {new} ELSE Sends(a)
    BY <2>2, <2>3 DEF Sends
  <2>6. IsFiniteSet(Sends(a)) /\ Cardinality(Sends(a)) \in Nat /\ new \notin Sends(a)
    BY <2>3, CountsAreFinite DEF Sends
  <2>7. Cardinality(Sends(a) \cup {new}) = Cardinality(Sends(a)) + 1
    BY <2>6, FS_AddElement
  <2>8. Waiting(pending, a)' = 0
    BY <2>1 DEF Waiting, Range
  <2>9. /\ Cardinality(Sends(a)) + Waiting(u, a) <= failures + 1 /\ failures \in Nat
        /\ Cardinality(Places(log, a)) <= Cardinality(Applied(a))
    BY DEF CountInv, Counted
  <2>10. Cardinality(Sends(a)') <= failures + 1
    <3>1. CASE a \in Range(u)
      BY <2>5, <2>7, <2>9, <3>1 DEF Waiting
    <3>2. CASE a \notin Range(u)
      <4>1. Sends(a)' = Sends(a) /\ Waiting(u, a) = 0
        BY <2>5, <3>2 DEF Waiting
      <4> QED BY <2>6, <2>9, <4>1
    <3> QED BY <3>1, <3>2
  <2>11. Cardinality(Sends(a)') \in Nat
    BY <2>5, <2>6, <2>7
  <2> QED BY <2>4, <2>8, <2>9, <2>10, <2>11 DEF Counted
<1> QED BY <1>1, <1>2 DEF Flush

\* Nothing is sent, and what waits waited before or a failure is counted.
LEMMA CountQuiet ==
  ASSUME IInv, CountInv(answers, pending), UNCHANGED <<calls, log, answers>>,
         \/ failures' = failures /\ Range(pending') \subseteq Range(pending)
         \/ failures' = failures + 1
  PROVE  CountInv(answers, pending)'
<1>1. calls \in Seq(Calls(answers)) /\ log \in Seq(answers) /\ failures \in Nat
  BY DEF IInv, SaverInv, Rows, CountInv
<1> SUFFICES ASSUME NEW a \in answers PROVE Counted(pending, a)'
  BY <1>1 DEF CountInv
<1>2. Sends(a)' = Sends(a) /\ Applied(a)' = Applied(a) /\ Places(log, a)' = Places(log, a)
  BY DEF Sends, Applied, Places
<1>3. Counted(pending, a)
  BY DEF CountInv
<1>4. Cardinality(Sends(a)) \in Nat
  BY <1>1, CountsAreFinite
<1>5. \/ failures' = failures /\ Waiting(pending, a)' <= Waiting(pending, a)
      \/ failures' = failures + 1 /\ Waiting(pending, a)' <= 1
  BY DEF Waiting
<1>6. Waiting(pending, a)' \in 0..1 /\ Waiting(pending, a) \in 0..1
  BY DEF Waiting
<1>7. Cardinality(Sends(a)) + Waiting(pending, a)' <= failures' + 1
  BY <1>1, <1>3, <1>4, <1>5, <1>6 DEF Counted
<1> QED BY <1>2, <1>3, <1>7 DEF Counted

\* A recorded batch adds one row of each answer it holds.
LEMMA CountRecord ==
  ASSUME IInv, CountInv(answers, pending), NEW i \in DOMAIN calls, calls[i].state = "sent", Record(i),
         UNCHANGED <<pending, failures, answers>>
  PROVE  CountInv(answers, pending)'
<1> DEFINE b == calls[i].batch
<1> DEFINE c == [calls[i] EXCEPT !.state = "applied", !.off = SuspendedBy(b)]
<1>1. calls \in Seq(Calls(answers)) /\ log \in Seq(answers)
  BY DEF IInv, SaverInv, Rows
<1>2. log' = log \o b /\ calls' = [calls EXCEPT ![i] = c]
  BY DEF Record
<1>3. b \in Seq(answers) /\ calls[i] \in Calls(answers)
  BY <1>1, BatchType
<1>4. c.batch = b /\ c.state = "applied"
  BY <1>3 DEF Calls
<1> HIDE DEF c
<1>5. /\ DOMAIN calls' = DOMAIN calls
      /\ \A k \in DOMAIN calls : k # i => calls'[k] = calls[k]
      /\ calls'[i].batch = b /\ calls'[i].state = "applied"
  BY <1>1, <1>2, <1>4
<1> SUFFICES ASSUME NEW a \in answers PROVE Counted(pending, a)'
  BY DEF CountInv
<1>6. Counted(pending, a) /\ failures \in Nat
  BY DEF CountInv
<1>7. Sends(a)' = Sends(a)
  BY <1>5 DEF Sends, b
<1>8. i \notin Applied(a) /\ Applied(a)' = IF a \in Range(b) THEN Applied(a) \cup {i} ELSE Applied(a)
  BY <1>5 DEF Applied, Sends, b
<1>9. /\ IsFiniteSet(Applied(a)) /\ Cardinality(Applied(a)) \in Nat
      /\ IsFiniteSet(Places(log, a)) /\ Cardinality(Places(log, a)) \in Nat
  BY <1>1, CountsAreFinite
<1>10. /\ DOMAIN log = 1..Len(log) /\ DOMAIN log' = 1..Len(log) + Len(b) /\ DOMAIN b = 1..Len(b)
       /\ Len(log) \in Nat /\ Len(b) \in Nat
       /\ \A k \in 1..Len(log) : log'[k] = log[k]
       /\ \A k \in 1..Len(b) : log'[Len(log) + k] = b[k]
  <2> HIDE DEF b
  <2> QED BY <1>1, <1>2, <1>3
<1>11. CASE a \notin Range(b)
  <2>1. ASSUME NEW k \in DOMAIN log', k \notin DOMAIN log PROVE log'[k] # a
    <3>1. k - Len(log) \in 1..Len(b) /\ k = Len(log) + (k - Len(log))
      BY <1>10, <2>1
    <3>2. log'[k] = b[k - Len(log)]
      BY <1>10, <3>1
    <3> QED BY <1>10, <1>11, <3>1, <3>2 DEF Range
  <2>2. Places(log, a)' = Places(log, a)
    BY <1>10, <2>1 DEF Places
  <2> QED BY <1>6, <1>7, <1>8, <1>11, <2>2 DEF Counted, Waiting
<1>12. CASE a \in Range(b)
  <2>1. PICK p \in 1..Len(b) : b[p] = a
    BY <1>10, <1>12 DEF Range
  <2>2. ASSUME NEW q \in 1..Len(b), b[q] = a PROVE q = p
    <3>1. Ordered(b)
      BY DEF IInv, SaverInv, InOrder
    <3>2. \A x \in answers : x.n \in Nat
      BY NumbersAreNat
    <3>3. a.n \in Nat
      BY <3>2
    <3>4. ~(q < p) /\ ~(p < q)
      <4> HIDE DEF b
      <4>1. q \in DOMAIN b /\ p \in DOMAIN b /\ b[q].n = a.n /\ b[p].n = a.n
        BY <1>10, <2>1, <2>2
      <4>2. q < p \/ p < q => a.n < a.n
        BY <3>1, <4>1 DEF Ordered
      <4> QED BY <3>3, <4>2
    <3> QED BY <1>10, <3>4
  <2>3. ASSUME NEW k \in DOMAIN log', k \notin DOMAIN log, log'[k] = a PROVE k = Len(log) + p
    <3>1. k - Len(log) \in 1..Len(b) /\ k = Len(log) + (k - Len(log))
      BY <1>10, <2>3
    <3>2. b[k - Len(log)] = a
      BY <1>10, <2>3, <3>1
    <3>3. k - Len(log) = p
      BY <2>2, <3>1, <3>2
    <3> QED BY <3>1, <3>3
  <2>4. Places(log, a)' = Places(log, a) \cup {Len(log) + p}
    <3>1. Len(log) + p \in DOMAIN log' /\ log'[Len(log) + p] = a
      BY <1>10, <2>1
    <3>2. \A k \in DOMAIN log : k \in DOMAIN log' /\ log'[k] = log[k]
      BY <1>10
    <3> QED BY <2>3, <3>1, <3>2 DEF Places
  <2>5. Cardinality(Places(log, a)') <= Cardinality(Places(log, a)) + 1
    <3> DEFINE new == Len(log) + p
    <3> DEFINE S == Places(log, a)
    <3>1. IsFiniteSet(S) /\ Cardinality(S) \in Nat /\ Places(log, a)' = S \cup {new}
      BY <1>9, <2>4
    <3> HIDE DEF new, S
    <3>2. Cardinality(S \cup {new}) = IF new \in S THEN Cardinality(S) ELSE Cardinality(S) + 1
      BY <3>1, FS_AddElement
    <3>3. Cardinality(S \cup {new}) <= Cardinality(S) + 1
      BY <3>1, <3>2
    <3> QED BY <3>1, <3>3 DEF S
  <2>6. Cardinality(Applied(a)') = Cardinality(Applied(a)) + 1
    BY <1>8, <1>9, <1>12, FS_AddElement
  <2>7. Cardinality(Places(log, a)') \in Nat
    <3>1. IsFiniteSet(Places(log, a)')
      BY <1>9, <2>4, FS_AddElement
    <3> QED BY <3>1, FS_CardinalityType
  <2>8. Cardinality(Places(log, a)') <= Cardinality(Applied(a)')
    BY <1>6, <1>9, <2>5, <2>6, <2>7 DEF Counted
  <2> QED BY <1>6, <1>7, <2>8 DEF Counted, Waiting
<1> QED BY <1>11, <1>12

LEMMA CountRefuse ==
  ASSUME IInv, CountInv(answers, pending), NEW i \in DOMAIN calls, calls[i].state = "sent", Refuse(i),
         UNCHANGED <<pending, failures, answers>>
  PROVE  CountInv(answers, pending)'
<1> DEFINE c == [calls[i] EXCEPT !.state = "refused"]
<1>1. calls \in Seq(Calls(answers)) /\ log' = log /\ calls' = [calls EXCEPT ![i] = c]
  BY DEF IInv, SaverInv, Rows, Refuse, server
<1>2. c.batch = calls[i].batch /\ c.state # "applied"
  <2>1. calls[i] \in Calls(answers)
    BY <1>1, BatchType
  <2> QED BY <2>1 DEF Calls
<1> HIDE DEF c
<1>3. /\ DOMAIN calls' = DOMAIN calls
      /\ \A k \in DOMAIN calls : k # i => calls'[k] = calls[k]
      /\ calls'[i].batch = calls[i].batch /\ calls'[i].state # "applied"
  BY <1>1, <1>2
<1> SUFFICES ASSUME NEW a \in answers PROVE Counted(pending, a)'
  BY DEF CountInv
<1>4. Sends(a)' = Sends(a)
  BY <1>3 DEF Sends
<1>5. Applied(a)' = Applied(a)
  BY <1>3 DEF Applied, Sends
<1>6. Counted(pending, a)
  BY DEF CountInv
<1> QED BY <1>1, <1>4, <1>5, <1>6 DEF Counted, Waiting, Places

LEMMA CountGrade ==
  ASSUME IInv, CountInv(answers, pending), NEW passed \in BOOLEAN, Grade(passed)
  PROVE  CountInv(answers, pending)'
<1> DEFINE x == [n |-> Cardinality(answers) + 1, card |-> Current, passed |-> passed]
<1> DEFINE B == answers \cup {x}
<1>1. answers' = B /\ Flush(Append(pending, x)) /\ UNCHANGED <<log, failures>>
  BY DEF Grade, server, bounds
<1>2. pending \in Seq(answers) /\ calls \in Seq(Calls(answers)) /\ log \in Seq(answers)
  BY DEF IInv, SaverInv, Rows
<1>3. x \notin answers
  <2>1. Cardinality(answers) \in Nat
    BY FS_CardinalityType DEF IInv, Numbered
  <2> QED BY <2>1 DEF IInv, Numbered
<1> HIDE DEF x
<1>4. CountInv(B, Append(pending, x))
  BY <1>2, <1>3, CountNew
<1>5. Append(pending, x) \in Seq(B) /\ log \in Seq(B)
  BY <1>2
<1>6. calls \in Seq(Calls(B))
  <2>1. Seq(answers) \subseteq Seq(B) /\ {a.card : a \in answers} \subseteq {a.card : a \in B}
    OBVIOUS
  <2>2. Calls(answers) \subseteq Calls(B)
    BY <2>1 DEF Calls
  <2> QED BY <1>2, <2>2, SeqMonotonic
<1> HIDE DEF B
<1> QED BY <1>1, <1>4, <1>5, <1>6, CountFlush

LEMMA CountStep == IInv /\ CountInv(answers, pending) /\ [Next]_vars => CountInv(answers, pending)'
<1> SUFFICES ASSUME IInv, CountInv(answers, pending), [Next]_vars PROVE CountInv(answers, pending)'
  OBVIOUS
<1> USE DEF screen, saver, server, bounds
<1>0. pending \in Seq(answers) /\ calls \in Seq(Calls(answers)) /\ log \in Seq(answers)
  BY DEF IInv, SaverInv, Rows
<1>1. CASE Focus \/ StartRepeat \/ Reveal \/ LeaveSummary \/ WaiterDone
  BY <1>1, CountQuiet DEF Focus, StartRepeat, Reveal, LeaveSummary, WaiterDone
<1>2. CASE \E l \in lists : ListArrives(l) \/ ReadList(l) \/ ListFails(l)
  BY <1>2, CountQuiet DEF ListArrives, ReadList, ListFails
<1>3. CASE \E c \in Cards : ArchiveElsewhere(c)
  BY <1>3, CountQuiet DEF ArchiveElsewhere
<1>4. CASE FlushLater \/ NoticeEnd \/ EndSession
  <2>1. Flush(pending) /\ UNCHANGED <<log, failures, answers>>
    BY <1>4 DEF FlushLater, NoticeEnd, EndSession
  <2> QED BY <1>0, <2>1, CountFlush DEF CountInv
<1>5. CASE FinishRepeat
  <2>1. CASE attempts = {}
    BY <1>5, <2>1, CountQuiet DEF FinishRepeat
  <2>2. CASE attempts # {}
    <3>1. Flush(pending) /\ UNCHANGED <<log, failures, answers>>
      BY <1>5, <2>2 DEF FinishRepeat
    <3> QED BY <1>0, <3>1, CountFlush DEF CountInv
  <2> QED BY <2>1, <2>2
<1>6. CASE \E passed \in BOOLEAN : Grade(passed)
  BY <1>6, CountGrade
<1>7. CASE BatchSaved \/ BatchRefused
  BY <1>7, CountQuiet DEF BatchSaved, BatchRefused, Settle
<1>8. CASE BatchFails
  BY <1>8, CountQuiet DEF BatchFails
<1>9. CASE Reload
  <2>1. Range(<<>>) = {}
    BY DEF Range
  <2> QED BY <1>9, <2>1, CountQuiet DEF Reload
<1>10. CASE \E i \in DOMAIN calls : Serve(i)
  <2>1. PICK i \in DOMAIN calls : Serve(i)
    BY <1>10
  <2>2. calls[i].state = "sent" /\ UNCHANGED <<pending, failures, answers>>
    BY <2>1 DEF Serve
  <2>3. Record(i) \/ Refuse(i)
    BY <2>1 DEF Serve
  <2> QED BY <2>2, <2>3, CountRecord, CountRefuse
<1>11. CASE UNCHANGED vars
  BY <1>11, CountQuiet DEF vars
<1> QED BY <1>1, <1>2, <1>3, <1>4, <1>5, <1>6, <1>7, <1>8, <1>9, <1>10, <1>11
         DEF Next, Learner, Client, Server, Faults

LEMMA Counts == Spec => [](IInv /\ CountInv(answers, pending))
<1>1. IInv /\ CountInv(answers, pending) /\ [Next]_vars => (IInv /\ CountInv(answers, pending))'
  BY NextInv, CountStep
<1> QED BY InitInv, CountInit, <1>1, PTL DEF Spec

LEMMA RowsCounted ==
  ASSUME IInv, CountInv(answers, pending), NEW a \in answers
  PROVE  /\ IsFiniteSet(Places(log, a)) /\ Cardinality(Places(log, a)) \in Nat
         /\ Cardinality(Places(log, a)) <= failures + 1
<1>1. calls \in Seq(Calls(answers)) /\ log \in Seq(answers)
  BY DEF IInv, SaverInv, Rows
<1>2. Counted(pending, a) /\ failures \in Nat
  BY DEF CountInv
<1>3. Waiting(pending, a) \in 0..1
  BY DEF Waiting
<1> QED BY <1>1, <1>2, <1>3, CountsAreFinite DEF Counted

\* A batch is sent again only when a request failed (PracticeScreen.tsx:529), so an answer
\* has one row more than there were failures at most, however late the server hears.
THEOREM RowsFollowFailures ==
  Spec => [](\A a \in answers : Cardinality({k \in DOMAIN log : log[k] = a}) <= failures + 1)
<1>1. IInv /\ CountInv(answers, pending) =>
        \A a \in answers : Cardinality({k \in DOMAIN log : log[k] = a}) <= failures + 1
  BY RowsCounted DEF Places
<1> QED BY Counts, <1>1, PTL

\* "Insert one row for every answer" (backend/docs/learning-review-model.md:172) holds as long
\* as no request failed; practice_rows shows that one failure is enough to break it.
THEOREM OneRowUntilAFailure == Spec => [](failures = 0 => OneRowPerAnswer)
<1>1. ASSUME IInv, CountInv(answers, pending), failures = 0 PROVE OneRowPerAnswer
  <2> SUFFICES ASSUME NEW i \in DOMAIN log, NEW j \in DOMAIN log, i # j, log[i] = log[j] PROVE FALSE
    BY DEF OneRowPerAnswer
  <2> DEFINE S == Places(log, log[i])
  <2>1. log[i] \in answers
    BY <1>1 DEF IInv, SaverInv, Rows
  <2>2. IsFiniteSet(S) /\ Cardinality(S) \in Nat /\ Cardinality(S) <= 1
    BY <1>1, <2>1, RowsCounted
  <2>3. i \in S /\ j \in S
    BY DEF Places
  <2> HIDE DEF S
  <2> QED BY <2>2, <2>3, AtMostOne
<1> QED BY Counts, <1>1, PTL
=============================================================================
