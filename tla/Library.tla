-------------------------------- MODULE Library --------------------------------
(***************************************************************************)
(* A learner's decks and the cards in them (words/deck.go and the deck     *)
(* side of words/service.go).  A request that sends several statements     *)
(* stops between them; what was read is kept in the request.  The tables'  *)
(* constraints decide at each write: a card's deck exists, a learner has   *)
(* one card per sense, one default deck per language, and distinct names.  *)
(***************************************************************************)
EXTENDS Integers, FiniteSets

CONSTANTS
  DeckIds,       \* primary keys that inserts may use
  CardIds,
  Senses,
  WordOfSense,   \* WordOfSense[s]: the word, which has a language
  LanguageOf,    \* LanguageOf[w]
  Learned,       \* the learner's languages (user_languages)
  DeckRequests,  \* requests that may run together
  MaxStarted,    \* bound: requests and single statements
  SeededDecks, SeededDeckCards \* rows that are there at the start

Names == {"default", "custom"}
DeckRow == [language : Learned, name : Names, default : BOOLEAN]
CardRow == [sense : Senses, deck : DeckIds, archived : BOOLEAN, note : {"none"} \cup Senses]

(* Rows are functions on the keys in use. *)
ASSUME LibraryAssumption ==
  /\ WordOfSense \in [Senses -> DOMAIN LanguageOf]
  /\ \A s \in Senses : LanguageOf[WordOfSense[s]] \in Learned
  /\ MaxStarted \in Nat
  /\ DOMAIN SeededDecks \subseteq DeckIds /\ DOMAIN SeededDeckCards \subseteq CardIds
  /\ \A d \in DOMAIN SeededDecks : SeededDecks[d] \in DeckRow
  /\ \A k \in DOMAIN SeededDeckCards : LET row == SeededDeckCards[k] IN
       /\ row \in CardRow /\ row.deck \in DOMAIN SeededDecks
       /\ SeededDecks[row.deck].language = LanguageOf[WordOfSense[row.sense]]

VARIABLES
  decks,     \* rows of decks
  dropped,   \* keys of deleted rows, which are not used again
  cards,     \* rows of user_word_senses
  request,   \* each request: the statement it is before, and what it read
  started    \* requests so far, for the bound

libraryVars == <<decks, dropped, cards, request, started>>

Language(s) == LanguageOf[WordOfSense[s]]

Statements == {"insert card", "ensure default", "drop deck", "move cards", "check sense", "swap sense",
               "set note"}
IdleRequest == [at |-> "idle"]

LibraryTypeOK ==
  /\ DOMAIN decks \subseteq DeckIds /\ \A d \in DOMAIN decks : decks[d] \in DeckRow
  /\ dropped \subseteq DeckIds \ DOMAIN decks
  /\ DOMAIN cards \subseteq CardIds /\ \A k \in DOMAIN cards : cards[k] \in CardRow
  /\ DOMAIN request = DeckRequests
  /\ \A r \in DeckRequests : request[r] = IdleRequest \/ request[r].at \in Statements
  /\ started \in 0 .. MaxStarted

With(rows, key, row) == [k \in DOMAIN rows \cup {key} |-> IF k = key THEN row ELSE rows[k]]
Without(rows, key) == [k \in DOMAIN rows \ {key} |-> rows[k]]

Proceed(r, state) == request' = [request EXCEPT ![r] = state]
Begin == started < MaxStarted /\ started' = started + 1
BeginAt(r) == request[r].at = "idle" /\ Begin
Ends(r) == Proceed(r, IdleRequest)

FreshDecks == DeckIds \ (DOMAIN decks \cup dropped)
DefaultDecks(language) == {d \in DOMAIN decks : decks[d].language = language /\ decks[d].default}
NameTaken(language, name) == \E d \in DOMAIN decks : decks[d].language = language /\ decks[d].name = name

(* EnsureDefaultDeck: the default deck d, inserted if there is none.  The  *)
(* insert fails when another deck bears its name.                          *)
EnsureDefaultDeck(language, d) ==
  IF DefaultDecks(language) # {}
  THEN d \in DefaultDecks(language) /\ UNCHANGED decks
  ELSE /\ ~NameTaken(language, "default") /\ d \in FreshDecks
       /\ decks' = With(decks, d, [language |-> language, name |-> "default", default |-> TRUE])

NoDefaultDeck(language) == DefaultDecks(language) = {} /\ NameTaken(language, "default")
-----------------------------------------------------------------------------
LibraryInit ==
  /\ decks = SeededDecks /\ dropped = {} /\ cards = SeededDeckCards
  /\ request = [r \in DeckRequests |-> IdleRequest]
  /\ started = 0

(* ListDecks ensures the default deck of every language by one statement.  *)
(* Bound: one language at a time lacks its default deck.                   *)
ListDecks ==
  /\ Begin
  /\ \E language \in Learned :
       /\ DefaultDecks(language) = {}
       /\ \A other \in Learned \ {language} : DefaultDecks(other) # {}
       /\ \E d \in DeckIds : EnsureDefaultDeck(language, d)
  /\ UNCHANGED <<dropped, cards, request>>

CreateDeck(d, language, name) ==
  /\ Begin
  /\ d \in FreshDecks /\ ~NameTaken(language, name)
  /\ decks' = With(decks, d, [language |-> language, name |-> name, default |-> FALSE])
  /\ UNCHANGED <<dropped, cards, request>>

RenameDeck(d, name) ==
  /\ Begin
  /\ d \in DOMAIN decks /\ ~NameTaken(decks[d].language, name)
  /\ decks' = [decks EXCEPT ![d].name = name]
  /\ UNCHANGED <<dropped, cards, request>>

Resolves(d, language) == d \in DOMAIN decks /\ decks[d].language = language

(* AddLearningItem up to resolveDeckForAdd: the deck asked for, or the     *)
(* default one.                                                            *)
ResolveDeckForAdd(r, s) ==
  /\ BeginAt(r)
  /\ \E d \in DeckIds :
       /\ \/ Resolves(d, Language(s)) /\ UNCHANGED decks
          \/ EnsureDefaultDeck(Language(s), d)
       /\ Proceed(r, [at |-> "insert card", sense |-> s, deck |-> d])
  /\ UNCHANGED <<dropped, cards>>

(* Its upsert: a new card, or the one the learner has or had. *)
InsertCard(r) ==
  LET q == request[r]
      held == {k \in DOMAIN cards : cards[k].sense = q.sense} IN
  /\ q.at = "insert card" /\ Ends(r)
  /\ IF q.deck \notin DOMAIN decks THEN UNCHANGED cards
     ELSE \/ \E k \in held : cards' = [cards EXCEPT ![k].deck = q.deck, ![k].archived = FALSE]
          \/ \E k \in CardIds \ DOMAIN cards, note \in {"none", q.sense} :
               /\ held = {}
               /\ cards' = With(cards, k, [sense |-> q.sense, deck |-> q.deck,
                                           archived |-> FALSE, note |-> note])
  /\ UNCHANGED <<decks, dropped, started>>

(* DeleteDeck: load, ensure the default deck, then one transaction.        *)
LoadDeckToDelete(r, d) ==
  /\ BeginAt(r)
  /\ d \in DOMAIN decks /\ ~decks[d].default
  /\ Proceed(r, [at |-> "ensure default", deck |-> d, language |-> decks[d].language])
  /\ UNCHANGED <<decks, dropped, cards>>

EnsureForDelete(r) ==
  LET q == request[r] IN
  /\ q.at = "ensure default"
  /\ \/ \E d \in DeckIds :
          /\ EnsureDefaultDeck(q.language, d)
          /\ Proceed(r, [at |-> "drop deck", deck |-> q.deck, target |-> d])
     \/ NoDefaultDeck(q.language) /\ Ends(r) /\ UNCHANGED decks
  /\ UNCHANGED <<dropped, cards, started>>

(* The move and the delete; an add that commits between them leaves a card *)
(* that the deck's key still serves, and the whole is rolled back.         *)
DropDeck(r) ==
  LET q == request[r] IN
  /\ q.at = "drop deck" /\ Ends(r)
  /\ \/ /\ decks' = Without(decks, q.deck) /\ dropped' = dropped \cup {q.deck}
        /\ cards' = [k \in DOMAIN cards |->
                       IF cards[k].deck = q.deck THEN [cards[k] EXCEPT !.deck = q.target] ELSE cards[k]]
     \/ UNCHANGED <<decks, dropped, cards>>
  /\ UNCHANGED started

(* MoveItemsToDeck: load, then one update of the cards that fit.  It stays *)
(* when some did not fit and the answer is an error.                       *)
LoadDeckToMove(r, d, items) ==
  /\ BeginAt(r)
  /\ d \in DOMAIN decks /\ items # {}
  /\ Proceed(r, [at |-> "move cards", deck |-> d, language |-> decks[d].language, items |-> items])
  /\ UNCHANGED <<decks, dropped, cards>>

(* Mutant: the words' language is not compared. *)
FitsAlways(k, language) == ~cards[k].archived

Fits(k, language) == ~cards[k].archived /\ Language(cards[k].sense) = language

MoveCards(r) ==
  LET q == request[r]
      fitting == {k \in q.items \cap DOMAIN cards : Fits(k, q.language)} IN
  /\ q.at = "move cards" /\ Ends(r)
  /\ cards' = IF q.deck \notin DOMAIN decks THEN cards
              ELSE [k \in DOMAIN cards |->
                      IF k \in fitting THEN [cards[k] EXCEPT !.deck = q.deck] ELSE cards[k]]
  /\ UNCHANGED <<decks, dropped, started>>

(* ChangeLearningItemSense: read the card, look for another active card of *)
(* the sense, swap.  An archived card of the sense makes the swap fail.    *)
LoadCardToSwap(r, k, s) ==
  /\ BeginAt(r)
  /\ k \in DOMAIN cards /\ cards[k].sense # s /\ WordOfSense[cards[k].sense] = WordOfSense[s]
  /\ Proceed(r, [at |-> "check sense", card |-> k, sense |-> s])
  /\ UNCHANGED <<decks, dropped, cards>>

CheckSense(r) ==
  LET q == request[r] IN
  /\ q.at = "check sense"
  /\ IF \E k \in DOMAIN cards \ {q.card} : cards[k].sense = q.sense /\ ~cards[k].archived
     THEN Ends(r) ELSE Proceed(r, [q EXCEPT !.at = "swap sense"])
  /\ UNCHANGED <<decks, dropped, cards, started>>

SenseFree(k, s) == \A other \in DOMAIN cards \ {k} : cards[other].sense # s

SwapSense(r) ==
  LET q == request[r] IN
  /\ q.at = "swap sense" /\ Ends(r)
  /\ \E note \in {"none", q.sense} :
       cards' = IF SenseFree(q.card, q.sense)
                THEN [cards EXCEPT ![q.card].sense = q.sense, ![q.card].note = note] ELSE cards
  /\ UNCHANGED <<decks, dropped, started>>

(* SetPersonalNote: the card is read, then only the note is written.       *)
LoadCardToNote(r, k) ==
  /\ BeginAt(r)
  /\ k \in DOMAIN cards /\ ~cards[k].archived
  /\ \E note \in {"none", cards[k].sense} \ {cards[k].note} :
       Proceed(r, [at |-> "set note", card |-> k, note |-> note])
  /\ UNCHANGED <<decks, dropped, cards>>

SetNote(r) ==
  LET q == request[r] IN
  /\ q.at = "set note" /\ Ends(r)
  /\ cards' = [cards EXCEPT ![q.card].note = q.note]
  /\ UNCHANGED <<decks, dropped, started>>

(* ArchiveLearningItems: the update names only cards that are active.      *)
ArchiveItem(k) ==
  /\ Begin
  /\ k \in DOMAIN cards /\ ~cards[k].archived
  /\ cards' = [cards EXCEPT ![k].archived = TRUE]
  /\ UNCHANGED <<decks, dropped, request>>

LibraryNext ==
  \/ ListDecks
  \/ \E d \in DeckIds, name \in Names :
       RenameDeck(d, name) \/ \E language \in Learned : CreateDeck(d, language, name)
  \/ \E k \in CardIds : ArchiveItem(k)
  \/ \E r \in DeckRequests :
       \/ \E s \in Senses : ResolveDeckForAdd(r, s) \/ \E k \in CardIds : LoadCardToSwap(r, k, s)
       \/ \E d \in DeckIds : LoadDeckToDelete(r, d)
                             \/ \E items \in SUBSET CardIds : LoadDeckToMove(r, d, items)
       \/ \E k \in CardIds : LoadCardToNote(r, k)
       \/ InsertCard(r) \/ EnsureForDelete(r) \/ DropDeck(r) \/ MoveCards(r)
       \/ CheckSense(r) \/ SwapSense(r) \/ SetNote(r)

LibrarySpec == LibraryInit /\ [][LibraryNext]_libraryVars
-----------------------------------------------------------------------------
(* Every card, archived or not, lies in a deck that exists and is of the   *)
(* language of its word, whatever decks were deleted, chosen or filled     *)
(* while the card was added, moved or given another sense.                 *)
CardsInLanguage ==
  \A k \in DOMAIN cards :
    cards[k].deck \in DOMAIN decks /\ decks[cards[k].deck].language = Language(cards[k].sense)
=============================================================================
