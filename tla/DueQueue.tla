------------------------------- MODULE DueQueue -------------------------------
(***************************************************************************)
(* Lists of due cards (GetDueReviewItems in backend/internal/words/        *)
(* service.go).  A list is put together by four statements, with no        *)
(* transaction around them: the day's counts, then retries, then reviews,  *)
(* then new cards.  Batches, archiving and re-adding run between them; a   *)
(* batch is one step here, which ReviewStore shows to be right.            *)
(***************************************************************************)
EXTENDS Scheduler, FiniteSets, Sequences, SequencesExt

CONSTANTS
  DueCards,       \* the user's learning items
  LemmaOf,        \* LemmaOf[c]: the word a card is a sense of
  SeededCards,    \* the rows the run starts with
  NewPerDay,      \* review_settings.new_cards_per_day
  ReviewsPerDay,  \* review_settings.reviews_per_day
  ListLimits,     \* values of the limit parameter
  EditedCards,    \* bound: the cards archived and added again
  GivenRatings,   \* bound: the ratings given
  MaxAnswers,     \* bound: answers recorded a day
  MaxDate         \* bound: days

DueRow == [memory : Memory, due : Nat, buried : Nat, active : BOOLEAN]

ASSUME DueQueueAssumption ==
  /\ IsFiniteSet(DueCards) /\ SeededCards \subseteq [DueCards -> DueRow]
  /\ NewPerDay \in Nat
  /\ ReviewsPerDay \in Nat
  /\ EditedCards \subseteq DueCards
  /\ GivenRatings \subseteq Ratings
  /\ ListLimits \subseteq Nat \ {0}
  /\ MaxAnswers \in Nat
  /\ MaxDate \in Nat \ {0}

VARIABLES
  date,         \* the UTC day
  card,         \* user_word_senses and review_states, per card
  newDone,      \* daily_review_counts of the day
  reviewsDone,
  answered,     \* history: the cards answered today, in order
  readded,      \* history: cards re-added today
  list,         \* the request for due cards
  received      \* the cards of the lists the client has received

dueVars == <<date, card, newDone, reviewsDone, answered, readded, list, received>>

ListSteps == {"idle", "retries", "reviews", "new", "answered"}

(* A row that a statement of the list returned.                            *)
ListRow == DueCards \X {"retries", "reviews", "new"}

DueList ==
  [at : ListSteps, limit : ListLimits \cup {0}, newQuota : Nat, reviewQuota : Nat,
   rows : SUBSET ListRow, cards : Seq(DueCards), split : Nat,
   retries : SUBSET DueCards, hidden : SUBSET DueCards]

DueTypeOK ==
  /\ date \in 1 .. MaxDate
  /\ card \in [DueCards -> DueRow]
  /\ newDone \in 0 .. MaxAnswers
  /\ reviewsDone \in 0 .. MaxAnswers
  /\ answered \in Seq(DueCards)
  /\ readded \subseteq DueCards
  /\ list \in DueList
  /\ received \subseteq DueCards

(* Mutant: a buried card is listed. *)
ListableBuried(c) == card[c].active

SameWord(c) == {s \in DueCards : s # c /\ LemmaOf[s] = LemmaOf[c]}

(* The predicates of baseQuery; a card is buried to the end of a day.      *)
Listable(c) == card[c].active /\ card[c].buried < date

(* Mutant: the retry group holds every card that was reviewed today. *)
IsRetryAny(c) == Listable(c) /\ card[c].memory.state # "New" /\ card[c].due <= date

IsRetry(c) == Listable(c) /\ card[c].memory.state \in StepStates
IsDueReview(c) == Listable(c) /\ card[c].memory.state = "Review" /\ card[c].due <= date
IsDueNew(c) == Listable(c) /\ card[c].memory.state = "New" /\ card[c].due <= date

Less(a, b) == IF a < b THEN a ELSE b

(* "order by due_at limit n": any n cards none of which is due after one   *)
(* left out.                                                               *)
FirstDue(set, n) ==
  {s \in SUBSET set :
     /\ Cardinality(s) = Less(Cardinality(set), n)
     /\ \A c \in s, d \in set \ s : card[c].due <= card[d].due}

(* The position of a card among the senses of its word. *)
Round(t, i) == Cardinality({j \in 1 .. i : LemmaOf[t[j]] = LemmaOf[t[i]]})

CameUpFirst(t, i, j) ==
  \E k \in DOMAIN t :
    /\ LemmaOf[t[k]] = LemmaOf[t[i]]
    /\ \A l \in DOMAIN t : LemmaOf[t[l]] = LemmaOf[t[j]] => k < l

(* Mutant: the group stays as it was shuffled. *)
NotInterleaved(t) == TRUE

(* interleaveDueItems: all first senses in the order their words came up,  *)
(* then all second senses in that order, and so on.                        *)
Interleaved(t) ==
  \A i, j \in DOMAIN t : i < j =>
    \/ Round(t, i) < Round(t, j)
    \/ Round(t, i) = Round(t, j) /\ CameUpFirst(t, i, j)

(* shuffleAndInterleaveDueItems: every order that a shuffle may lead to.   *)
Shuffles(rows) ==
  {t \in [1 .. Cardinality(rows) -> rows] : \A i, j \in DOMAIN t : i # j => t[i] # t[j]}
CardsOf(t) == [i \in DOMAIN t |-> t[i][1]]
Mixed(rows) == {c \in {CardsOf(t) : t \in Shuffles(rows)} : Interleaved(c)}
-----------------------------------------------------------------------------
NoList == [at |-> "idle", limit |-> 0, newQuota |-> 0, reviewQuota |-> 0, rows |-> {},
           cards |-> <<>>, split |-> 0, retries |-> {}, hidden |-> {}]

DueInit ==
  /\ date = 1
  /\ card \in SeededCards
  /\ newDone = 0 /\ reviewsDone = 0
  /\ answered = <<>> /\ readded = {}
  /\ list = NoList
  /\ received = {}

(* Mutant: more cards than the quota were answered, and nobody looked. *)
LeftOfUnchecked(perDay, done) == perDay - done

LeftOf(perDay, done) == IF done < perDay THEN perDay - done ELSE 0

(* ensureReviewSettingsPool and the day's counts. *)
ReadCounts(limit) ==
  /\ list.at = "idle"
  /\ list' = [at |-> "retries", limit |-> limit,
              newQuota |-> LeftOf(NewPerDay, newDone),
              reviewQuota |-> LeftOf(ReviewsPerDay, reviewsDone),
              rows |-> {}, cards |-> <<>>, split |-> 0,
              retries |-> {c \in DueCards : IsRetry(c)},
              hidden |-> {c \in DueCards : SameWord(c) \cap ToSet(answered) # {}} \ readded]
  /\ UNCHANGED <<date, card, newDone, reviewsDone, answered, readded, received>>

(* Mutant: retries are held to the quota of reviews. *)
RetryLimitByQuota == Less(list.reviewQuota, list.limit)

RetryLimit == list.limit

FetchRetries ==
  /\ list.at = "retries"
  /\ \E s \in FirstDue({c \in DueCards : IsRetry(c)}, RetryLimit) :
       list' = [list EXCEPT !.at = "reviews", !.rows = s \X {"retries"}]
  /\ UNCHANGED <<date, card, newDone, reviewsDone, answered, readded, received>>

FetchReviews ==
  /\ list.at = "reviews"
  /\ \E s \in FirstDue({c \in DueCards : IsDueReview(c)},
                       Less(list.reviewQuota, list.limit - Cardinality(list.rows))) :
       list' = [list EXCEPT !.at = "new", !.rows = @ \cup (s \X {"reviews"})]
  /\ UNCHANGED <<date, card, newDone, reviewsDone, answered, readded, received>>

(* New cards, oldest added first, which is any order here; then the two    *)
(* groups are shuffled and the list is answered.                           *)
FetchNew ==
  LET new  == {c \in DueCards : IsDueNew(c)}
      room == Less(list.newQuota, list.limit - Cardinality(list.rows)) IN
  /\ list.at = "new"
  /\ \E s \in SUBSET new :
       /\ Cardinality(s) = Less(Cardinality(new), room)
       /\ \E head \in Mixed(list.rows), tail \in Mixed(s \X {"new"}) :
            list' = [list EXCEPT !.at = "answered", !.rows = @ \cup (s \X {"new"}),
                                 !.cards = head \o tail, !.split = Len(head)]
  /\ UNCHANGED <<date, card, newDone, reviewsDone, answered, readded, received>>

ListSent ==
  /\ list.at = "answered"
  /\ list' = NoList
  /\ received' = received \cup ToSet(list.cards)
  /\ UNCHANGED <<date, card, newDone, reviewsDone, answered, readded>>

(* The history of the list: a card no longer waiting for its retry.        *)
TrackRetries == list' = [list EXCEPT !.retries = {c \in @ : IsRetry(c)'}]

(* A batch with one answer, to a card of a list the client has; repeat     *)
(* sessions of cards that are not due are left out.                        *)
RecordAnswer(c, rating) ==
  LET before == Migrated(card[c].memory)
      after  == NextMemory(before, rating)
      counts == before.state = "New" IN
  /\ c \in received /\ card[c].active
  /\ Len(answered) < MaxAnswers
  /\ card' = [d \in DueCards |->
       CASE d = c -> [card[d] EXCEPT
              !.memory = after,
              !.due = IF after.state \in StepStates THEN date ELSE date + 1,
              !.active = ~SuspendsCard(after)]
         [] d \in SameWord(c) /\ card[d].active -> [card[d] EXCEPT !.buried = date]
         [] OTHER -> card[d]]
  /\ newDone' = newDone + (IF counts THEN 1 ELSE 0)
  /\ reviewsDone' = reviewsDone + (IF counts THEN 0 ELSE 1)
  /\ answered' = Append(answered, c)
  /\ UNCHANGED <<date, readded, received>>
  /\ TrackRetries

ArchiveCard(c) ==
  /\ card[c].active
  /\ card' = [card EXCEPT ![c].active = FALSE]
  /\ UNCHANGED <<date, newDone, reviewsDone, answered, readded, received>>
  /\ TrackRetries

(* AddLearningItem on a card the user has: its memory and date are kept.   *)
ReaddCard(c) ==
  /\ card' = [card EXCEPT ![c].active = TRUE, ![c].buried = 0]
  /\ readded' = readded \cup {c}
  /\ UNCHANGED <<date, newDone, reviewsDone, answered, received>>
  /\ TrackRetries

(* Bound: no list is under way at midnight. *)
NextDate ==
  /\ date < MaxDate
  /\ list.at = "idle"
  /\ date' = date + 1
  /\ newDone' = 0 /\ reviewsDone' = 0
  /\ answered' = <<>> /\ readded' = {}
  /\ UNCHANGED <<card, list, received>>

DueNext ==
  \/ \E limit \in ListLimits : ReadCounts(limit)
  \/ FetchRetries \/ FetchReviews \/ FetchNew \/ ListSent
  \/ \E c \in EditedCards : ArchiveCard(c) \/ ReaddCard(c)
  \/ \E c \in DueCards, rating \in GivenRatings : RecordAnswer(c, rating)
  \/ NextDate

DueSpec == DueInit /\ [][DueNext]_dueVars
-----------------------------------------------------------------------------
Listed == ToSet(list.cards)

(* A list never holds a card twice, whatever is answered between its       *)
(* statements: an answer may move a card to a group read earlier, never to *)
(* one read later.                                                         *)
NoCardTwice == Cardinality(Listed) = Len(list.cards)

(* A card that waits for its retry from the first statement to the last is *)
(* in the list, whatever the day's quotas say.                             *)
RetriesListed ==
  list.at = "answered" /\ Cardinality(list.retries) < list.limit /\ Len(list.cards) < list.limit
    => list.retries \subseteq Listed

(* A card is not listed on a day another sense of its word was answered    *)
(* before the list was asked for, unless it was added again since.         *)
BuriedUntilTomorrow == list.at = "answered" => Listed \cap (list.hidden \ readded) = {}

Lemmas(from, to) == {LemmaOf[list.cards[i]] : i \in from .. to}

(* Two senses of one word follow each other only where nothing else is     *)
(* left in their group.                                                    *)
SensesApart ==
  list.at = "answered" =>
    \A i \in 1 .. Len(list.cards) - 1 :
      /\ LemmaOf[list.cards[i]] = LemmaOf[list.cards[i + 1]]
      /\ i # list.split
      => Cardinality(Lemmas(i, IF i < list.split THEN list.split ELSE Len(list.cards))) = 1
=============================================================================
