------------------------------- MODULE WordList -------------------------------
(***************************************************************************)
(* The list of words (frontend useLearningItems.ts, MyWordsScreen.tsx) and *)
(* the pages the server cuts it into (ListLearningItems, by keyset).       *)
(* Pages are read and arrive in any order; the hook drops what it knows to *)
(* be outdated by a request id.  A list and a page are sets of words: in   *)
(* which order they are shown is left out.                                 *)
(***************************************************************************)
EXTENDS Integers, FiniteSets

CONSTANTS
  Words,       \* learning items, numbered in the order they were added
  DeckWords,   \* DeckWords[f]: the words that filter f lets through
  PageSize,
  Restarts,    \* bound: requests that start the list over
  Pages        \* bound: further pages asked for

ASSUME WordListAssumption ==
  /\ Words \subseteq Nat \ {0} /\ IsFiniteSet(Words)
  /\ \A f \in DOMAIN DeckWords : DeckWords[f] \subseteq Words
  /\ PageSize \in Nat \ {0} /\ Restarts \in Nat \ {0, 1} /\ Pages \in Nat

VARIABLES
  rows,        \* items the server holds as active
  filter,      \* the deck shown
  shown,       \* items
  cursor,      \* nextCursorRef: the last word of the last page, 0 for null
  status,
  requestId,   \* requestIdRef
  more,        \* loadingMoreRef
  asked,       \* pages asked for, for the bound
  flight       \* requests under way

listVars == <<rows, filter, shown, cursor, status, requestId, more, asked, flight>>

Filters == DOMAIN DeckWords
Page == [words : SUBSET Words, next : Words \cup {0}]
ListRequest ==
  [id : 1 .. Restarts, kind : {"reload", "refresh", "more"}, filter : Filters, after : Words \cup {0},
   read : BOOLEAN, page : Page]

WordListTypeOK ==
  /\ rows \subseteq Words /\ filter \in Filters
  /\ shown \subseteq Words
  /\ cursor \in Words \cup {0}
  /\ status \in {"loading", "ready", "error"}
  /\ requestId \in 0 .. Restarts
  /\ more \in BOOLEAN /\ asked \in 0 .. Pages
  /\ \A r \in flight : r \in ListRequest

Lesser(m, n) == IF m < n THEN m ELSE n
Newest(set, n) ==
  {s \in SUBSET set : Cardinality(s) = Lesser(n, Cardinality(set)) /\ \A v \in s, w \in set \ s : v > w}

(* Mutant: the cursor is the extra row that tells there is more. *)
CursorsPastPage(page, left) == IF page = left THEN {0} ELSE left \ page

CursorsOf(page, left) == IF page = left THEN {0} ELSE {w \in page : \A v \in page : w <= v}

(* ListLearningItems: one row more than the page shows whether there is    *)
(* another.                                                                *)
AskedFor(f, after) == {w \in rows \cap DeckWords[f] : after = 0 \/ w < after}
CutOff(left) ==
  UNION {{[words |-> p, next |-> c] : c \in CursorsOf(p, left)} : p \in Newest(left, PageSize)}
PagesOf(f, after) == UNION {CutOff(left) : left \in Newest(AskedFor(f, after), PageSize + 1)}

NoPage == [words |-> {}, next |-> 0]
NewRequest(id, kind, f, after) ==
  [id |-> id, kind |-> kind, filter |-> f, after |-> after, read |-> FALSE, page |-> NoPage]
-----------------------------------------------------------------------------
(* The first render: reload, then the focus effect's refresh. *)
WordListInit ==
  /\ rows = Words
  /\ filter \in Filters
  /\ shown = {} /\ cursor = 0 /\ status = "loading"
  /\ requestId = 2 /\ more = FALSE /\ asked = 0
  /\ flight = {NewRequest(1, "reload", filter, 0), NewRequest(2, "refresh", filter, 0)}

(* A deck is chosen: the effects run reload and, as refresh has changed,   *)
(* the focus effect.                                                       *)
ChooseDeck(f) ==
  /\ f # filter /\ requestId + 2 <= Restarts
  /\ filter' = f
  /\ requestId' = requestId + 2
  /\ status' = "loading" /\ cursor' = 0
  /\ flight' = flight \cup {NewRequest(requestId + 1, "reload", f, 0),
                            NewRequest(requestId + 2, "refresh", f, 0)}
  /\ UNCHANGED <<rows, shown, more, asked>>

(* The screen comes into focus, the user pulls, or an operation failed.    *)
Refresh ==
  /\ requestId < Restarts
  /\ requestId' = requestId + 1
  /\ flight' = flight \cup {NewRequest(requestId + 1, "refresh", filter, 0)}
  /\ UNCHANGED <<rows, filter, shown, cursor, status, more, asked>>

(* loadMore, by scrolling or by the web's effect. *)
LoadMore ==
  /\ cursor # 0 /\ ~more /\ status # "loading" /\ asked < Pages
  /\ more' = TRUE /\ asked' = asked + 1
  /\ flight' = flight \cup {NewRequest(requestId, "more", filter, cursor)}
  /\ UNCHANGED <<rows, filter, shown, cursor, status, requestId>>

ReadPage(r) ==
  /\ r \in flight /\ ~r.read
  /\ \E p \in PagesOf(r.filter, r.after) :
       flight' = (flight \ {r}) \cup {[r EXCEPT !.read = TRUE, !.page = p]}
  /\ UNCHANGED <<rows, filter, shown, cursor, status, requestId, more, asked>>

(* Mutant: every answer is taken. *)
NeverOutdated(r) == FALSE

Outdated(r) == r.id # requestId

(* fetchPage after its await, and the finally of loadMore. *)
PageArrives(r) ==
  /\ r \in flight /\ r.read
  /\ flight' = flight \ {r}
  /\ more' = (more /\ r.kind # "more")
  /\ IF Outdated(r) THEN UNCHANGED <<shown, cursor, status>>
     ELSE /\ shown' = IF r.kind = "more" THEN shown \cup r.page.words ELSE r.page.words
          /\ cursor' = r.page.next
          /\ status' = "ready"
  /\ UNCHANGED <<rows, filter, requestId, asked>>

PageFails(r) ==
  /\ r \in flight
  /\ flight' = flight \ {r}
  /\ more' = (more /\ r.kind # "more")
  /\ status' = IF Outdated(r) \/ r.kind = "more" THEN status ELSE "error"
  /\ UNCHANGED <<rows, filter, shown, cursor, requestId, asked>>

(* handleRemoveItems: away at once; a refusal refreshes the list.          *)
RemoveWord(w) ==
  /\ w \in shown /\ w \in rows
  /\ shown' = shown \ {w}
  /\ rows' = rows \ {w}
  /\ UNCHANGED <<filter, cursor, status, requestId, more, asked, flight>>

WordListNext ==
  \/ \E f \in Filters : ChooseDeck(f)
  \/ Refresh \/ LoadMore
  \/ \E r \in flight : ReadPage(r) \/ PageArrives(r) \/ PageFails(r)
  \/ \E w \in Words : RemoveWord(w)

WordListSpec == WordListInit /\ [][WordListNext]_listVars
-----------------------------------------------------------------------------
(* Once the list has loaded under a deck it shows words of no other,       *)
(* however late the answers to earlier choices arrive.                     *)
FilterHonoured == status = "ready" => shown \subseteq DeckWords[filter]

(* Pages that follow each other leave no word out, whatever is removed     *)
(* between them: what was active throughout and newer than the cursor is   *)
(* shown, when the list was not started over in mid-page.                  *)
PagesFollow ==
  status = "ready" /\ requestId = 2 =>
    \A w \in rows \cap DeckWords[filter] : cursor = 0 \/ w >= cursor => w \in shown

(* useLearningItems.ts: the web fetches the remaining pages eagerly.  When *)
(* nothing is left to fetch, every word of the deck is shown.              *)
RemainingPagesFetched ==
  status = "ready" /\ cursor = 0 /\ flight = {} =>
    \A w \in rows \cap DeckWords[filter] : w \in shown
=============================================================================
