----------------------------- MODULE LibraryProofs -----------------------------
(* Decks and their cards for any number of languages, senses, decks and     *)
(* requests, and the senses of one word with their owners' cards under any  *)
(* number of lookups, imports and replacements, however the statements      *)
(* interleave; and what the client shows of them: the paged list and the    *)
(* queue of words to add.                                                   *)
EXTENDS Library, Catalogue, WordList, AddQueue, DataLemmas, TLAPS

DecksFit(ds, gone) ==
  /\ DOMAIN ds \subseteq DeckIds
  /\ \A d \in DOMAIN ds : ds[d].language \in Learned
  /\ gone \cap DOMAIN ds = {}

CardsFit(cs, ds) ==
  \A k \in DOMAIN cs :
    /\ cs[k].sense \in Senses
    /\ cs[k].deck \in DOMAIN ds
    /\ ds[cs[k].deck].language = Language(cs[k].sense)

(* A key that a request has read names a deck of that language, or a deck   *)
(* deleted since, whose key nobody gets again.                              *)
DeckWas(d, language, ds, gone) ==
  d \in DOMAIN ds \cup gone /\ (d \in DOMAIN ds => ds[d].language = language)

PlainDeck(d, ds) == d \in DOMAIN ds => ~ds[d].default

(* What a request has read still fits when its next statement runs.  The    *)
(* deck a deletion moves its cards to is a default one, which no deletion   *)
(* takes; a card whose sense is to be swapped may get another sense of the  *)
(* same word meanwhile.                                                     *)
RequestFits(q, ds, gone, cs) ==
  /\ q.at = "insert card" =>
       q.sense \in Senses /\ DeckWas(q.deck, Language(q.sense), ds, gone)
  /\ q.at = "ensure default" =>
       q.language \in Learned /\ DeckWas(q.deck, q.language, ds, gone) /\ PlainDeck(q.deck, ds)
  /\ q.at = "drop deck" =>
       /\ q.target \in DOMAIN ds /\ ds[q.target].default
       /\ DeckWas(q.deck, ds[q.target].language, ds, gone) /\ PlainDeck(q.deck, ds)
  /\ q.at = "move cards" => DeckWas(q.deck, q.language, ds, gone)
  /\ q.at \in {"check sense", "swap sense"} =>
       /\ q.card \in DOMAIN cs /\ q.sense \in Senses
       /\ WordOfSense[cs[q.card].sense] = WordOfSense[q.sense]

LibraryInv ==
  /\ DecksFit(decks, dropped)
  /\ CardsFit(cards, decks)
  /\ DOMAIN request = DeckRequests
  /\ \A r \in DeckRequests : RequestFits(request[r], decks, dropped, cards)

(* What no statement does: reuse a key, change a deck's language or role,   *)
(* delete a default deck or a card, or give a card another word.            *)
DecksEvolve(ds, gone, ds2, gone2) ==
  /\ gone \subseteq gone2
  /\ DOMAIN ds \subseteq DOMAIN ds2 \cup gone2
  /\ \A d \in DOMAIN ds \cap DOMAIN ds2 :
       ds2[d].language = ds[d].language /\ ds2[d].default = ds[d].default
  /\ \A d \in DOMAIN ds : ds[d].default => d \in DOMAIN ds2

CardsEvolve(cs, cs2) ==
  /\ DOMAIN cs \subseteq DOMAIN cs2
  /\ \A k \in DOMAIN cs : WordOfSense[cs2[k].sense] = WordOfSense[cs[k].sense]

LEMMA FitsLater ==
  ASSUME NEW q, NEW ds, NEW gone, NEW cs, NEW ds2, NEW gone2, NEW cs2,
         DecksFit(ds2, gone2), DecksEvolve(ds, gone, ds2, gone2), CardsEvolve(cs, cs2),
         RequestFits(q, ds, gone, cs)
  PROVE  RequestFits(q, ds2, gone2, cs2)
<1>1. ASSUME NEW d, NEW language, DeckWas(d, language, ds, gone)
      PROVE  DeckWas(d, language, ds2, gone2)
  BY <1>1 DEF DeckWas, DecksFit, DecksEvolve
<1>2. ASSUME NEW d, d \in DOMAIN ds \cup gone, PlainDeck(d, ds)
      PROVE  PlainDeck(d, ds2)
  BY <1>2 DEF PlainDeck, DecksFit, DecksEvolve
<1>3. CASE q.at = "insert card"
  BY <1>1, <1>3 DEF RequestFits
<1>4. CASE q.at = "ensure default"
  BY <1>1, <1>2, <1>4 DEF RequestFits, DeckWas
<1>5. CASE q.at = "drop deck"
  <2>1. q.target \in DOMAIN ds2 /\ ds2[q.target].default /\ ds2[q.target].language = ds[q.target].language
    BY <1>5 DEF RequestFits, DecksEvolve
  <2>2. DeckWas(q.deck, ds[q.target].language, ds2, gone2) /\ PlainDeck(q.deck, ds2)
    BY <1>1, <1>2, <1>5 DEF RequestFits, DeckWas
  <2> QED BY <1>5, <2>1, <2>2 DEF RequestFits
<1>6. CASE q.at = "move cards"
  BY <1>1, <1>6 DEF RequestFits
<1>7. CASE q.at \in {"check sense", "swap sense"}
  BY <1>7 DEF RequestFits, CardsEvolve
<1>8. CASE q.at \notin {"insert card", "ensure default", "drop deck", "move cards", "check sense",
                        "swap sense"}
  BY <1>8 DEF RequestFits
<1> QED BY <1>3, <1>4, <1>5, <1>6, <1>7, <1>8

(* One request advances, or none. *)
LEMMA RequestAdvances ==
  ASSUME LibraryInv, NEW r \in DeckRequests, NEW q, request' = [request EXCEPT ![r] = q],
         DecksFit(decks', dropped'), DecksEvolve(decks, dropped, decks', dropped'),
         CardsFit(cards', decks'), CardsEvolve(cards, cards'),
         RequestFits(q, decks', dropped', cards')
  PROVE  LibraryInv'
<1>1. \A s \in DeckRequests \ {r} : RequestFits(request[s], decks', dropped', cards')
  BY FitsLater DEF LibraryInv
<1>2. \A s \in DeckRequests : request'[s] = IF s = r THEN q ELSE request[s]
  BY DEF LibraryInv
<1>3. \A s \in DeckRequests : RequestFits(request'[s], decks', dropped', cards')
  BY <1>1, <1>2
<1>4. DOMAIN request' = DeckRequests
  BY DEF LibraryInv
<1> QED BY <1>3, <1>4 DEF LibraryInv

LEMMA RowsAdvance ==
  ASSUME LibraryInv, request' = request,
         DecksFit(decks', dropped'), DecksEvolve(decks, dropped, decks', dropped'),
         CardsFit(cards', decks'), CardsEvolve(cards, cards')
  PROVE  LibraryInv'
<1>1. \A s \in DeckRequests : RequestFits(request[s], decks', dropped', cards')
  BY FitsLater DEF LibraryInv
<1> QED BY <1>1 DEF LibraryInv

LEMMA IdleFits == \A ds, gone, cs : RequestFits(IdleRequest, ds, gone, cs)
  BY DEF RequestFits, IdleRequest

LEMMA Unchanged ==
  /\ LibraryInv => DecksFit(decks, dropped) /\ CardsFit(cards, decks)
  /\ DecksEvolve(decks, dropped, decks, dropped)
  /\ CardsEvolve(cards, cards)
  BY DEF LibraryInv, DecksEvolve, CardsEvolve

(* A deck with a fresh key, or another name. *)
LEMMA DeckAdded ==
  ASSUME LibraryInv, NEW d \in FreshDecks, NEW row, row.language \in Learned,
         decks' = With(decks, d, row), dropped' = dropped
  PROVE  /\ DecksFit(decks', dropped') /\ DecksEvolve(decks, dropped, decks', dropped')
         /\ CardsFit(cards, decks')
         /\ d \in DOMAIN decks' /\ decks'[d] = row
<1>1. /\ DOMAIN decks' = DOMAIN decks \cup {d} /\ decks'[d] = row
      /\ d \notin DOMAIN decks /\ d \notin dropped /\ d \in DeckIds
      /\ \A e \in DOMAIN decks : decks'[e] = decks[e]
  BY DEF With, FreshDecks
<1> QED BY <1>1 DEF LibraryInv, DecksFit, DecksEvolve, CardsFit

LEMMA DefaultEnsured ==
  ASSUME LibraryInv, NEW language \in Learned, NEW d \in DeckIds, EnsureDefaultDeck(language, d),
         dropped' = dropped
  PROVE  /\ DecksFit(decks', dropped') /\ DecksEvolve(decks, dropped, decks', dropped')
         /\ CardsFit(cards, decks')
         /\ d \in DOMAIN decks' /\ decks'[d].language = language /\ decks'[d].default
<1>1. CASE DefaultDecks(language) # {}
  BY <1>1, Unchanged DEF EnsureDefaultDeck, DefaultDecks
<1>2. CASE DefaultDecks(language) = {}
  <2> DEFINE row == [language |-> language, name |-> "default", default |-> TRUE]
  <2>1. d \in FreshDecks /\ decks' = With(decks, d, row)
    BY <1>2 DEF EnsureDefaultDeck
  <2>2. row.language = language /\ row.default
    OBVIOUS
  <2> HIDE DEF row
  <2> QED BY <2>1, <2>2, DeckAdded
<1> QED BY <1>1, <1>2

LEMMA LibraryInvInit == LibraryInit => LibraryInv
<1> SUFFICES ASSUME LibraryInit PROVE LibraryInv
  OBVIOUS
<1>1. DecksFit(decks, dropped) /\ CardsFit(cards, decks)
  BY LibraryAssumption DEF LibraryInit, DecksFit, CardsFit, Language, DeckRow, CardRow
<1>2. /\ DOMAIN request = DeckRequests
      /\ \A r \in DeckRequests : RequestFits(request[r], decks, dropped, cards)
  BY IdleFits DEF LibraryInit
<1> QED BY <1>1, <1>2 DEF LibraryInv

LEMMA LanguageLearned == \A s \in Senses : Language(s) \in Learned
  BY LibraryAssumption DEF Language

LEMMA SameWordSameLanguage ==
  \A s, t \in Senses : WordOfSense[s] = WordOfSense[t] => Language(s) = Language(t)
  BY DEF Language

LEMMA DecksKeepInv ==
  ASSUME LibraryInv,
         \/ ListDecks
         \/ \E d \in DeckIds, name \in Names :
              RenameDeck(d, name) \/ \E language \in Learned : CreateDeck(d, language, name)
         \/ \E k \in CardIds : ArchiveItem(k)
  PROVE  LibraryInv'
<1>1. CASE ListDecks
  <2>1. PICK language \in Learned, d \in DeckIds : EnsureDefaultDeck(language, d)
    BY <1>1 DEF ListDecks
  <2>2. dropped' = dropped /\ cards' = cards /\ request' = request
    BY <1>1 DEF ListDecks
  <2> QED BY <2>1, <2>2, DefaultEnsured, RowsAdvance, Unchanged
<1>2. ASSUME NEW d \in DeckIds, NEW name \in Names, NEW language \in Learned,
             CreateDeck(d, language, name)
      PROVE  LibraryInv'
  <2> DEFINE row == [language |-> language, name |-> name, default |-> FALSE]
  <2>1. d \in FreshDecks /\ decks' = With(decks, d, row)
    BY <1>2 DEF CreateDeck
  <2>2. dropped' = dropped /\ cards' = cards /\ request' = request
    BY <1>2 DEF CreateDeck
  <2>3. row.language \in Learned
    OBVIOUS
  <2> HIDE DEF row
  <2> QED BY <2>1, <2>2, <2>3, DeckAdded, RowsAdvance, Unchanged
<1>3. ASSUME NEW d \in DeckIds, NEW name \in Names, RenameDeck(d, name)
      PROVE  LibraryInv'
  <2>1. /\ DOMAIN decks' = DOMAIN decks
        /\ \A e \in DOMAIN decks : decks'[e].language = decks[e].language
                                   /\ decks'[e].default = decks[e].default
    BY <1>3 DEF RenameDeck
  <2>2. dropped' = dropped /\ cards' = cards /\ request' = request
    BY <1>3 DEF RenameDeck
  <2>3. DecksFit(decks', dropped') /\ DecksEvolve(decks, dropped, decks', dropped')
    BY <2>1, <2>2 DEF LibraryInv, DecksFit, DecksEvolve
  <2>4. CardsFit(cards', decks')
    BY <2>1, <2>2 DEF LibraryInv, CardsFit
  <2> QED BY <2>2, <2>3, <2>4, RowsAdvance, Unchanged
<1>4. ASSUME NEW k \in CardIds, ArchiveItem(k)
      PROVE  LibraryInv'
  <2>1. /\ DOMAIN cards' = DOMAIN cards
        /\ \A c \in DOMAIN cards : cards'[c].sense = cards[c].sense /\ cards'[c].deck = cards[c].deck
    BY <1>4 DEF ArchiveItem
  <2>2. decks' = decks /\ dropped' = dropped /\ request' = request
    BY <1>4 DEF ArchiveItem
  <2>3. CardsFit(cards', decks') /\ CardsEvolve(cards, cards')
    BY <2>1, <2>2 DEF LibraryInv, CardsFit, CardsEvolve
  <2> QED BY <2>2, <2>3, RowsAdvance, Unchanged
<1> QED BY <1>1, <1>2, <1>3, <1>4

(* The first statements, which read what the request keeps. *)
LEMMA ReadsKeepInv ==
  ASSUME LibraryInv, NEW r \in DeckRequests,
         \/ \E d \in DeckIds : LoadDeckToDelete(r, d)
         \/ \E d \in DeckIds, items \in SUBSET CardIds : LoadDeckToMove(r, d, items)
         \/ \E s \in Senses, k \in CardIds : LoadCardToSwap(r, k, s)
         \/ \E k \in CardIds : LoadCardToNote(r, k)
  PROVE  LibraryInv'
<1>1. UNCHANGED <<decks, dropped, cards>>
  BY DEF LoadDeckToDelete, LoadDeckToMove, LoadCardToSwap, LoadCardToNote
<1>2. ASSUME NEW q, request' = [request EXCEPT ![r] = q], RequestFits(q, decks, dropped, cards)
      PROVE  LibraryInv'
  BY <1>1, <1>2, RequestAdvances, Unchanged
<1>3. ASSUME NEW d \in DeckIds, LoadDeckToDelete(r, d) PROVE LibraryInv'
  <2> DEFINE q == [at |-> "ensure default", deck |-> d, language |-> decks[d].language]
  <2>1. request' = [request EXCEPT ![r] = q]
    BY <1>3 DEF LoadDeckToDelete, Proceed
  <2>2. RequestFits(q, decks, dropped, cards)
    BY <1>3 DEF LoadDeckToDelete, RequestFits, DeckWas, PlainDeck, LibraryInv, DecksFit
  <2> QED BY <1>2, <2>1, <2>2
<1>4. ASSUME NEW d \in DeckIds, NEW items \in SUBSET CardIds, LoadDeckToMove(r, d, items)
      PROVE  LibraryInv'
  <2> DEFINE q == [at |-> "move cards", deck |-> d, language |-> decks[d].language, items |-> items]
  <2>1. request' = [request EXCEPT ![r] = q]
    BY <1>4 DEF LoadDeckToMove, Proceed
  <2>2. RequestFits(q, decks, dropped, cards)
    BY <1>4 DEF LoadDeckToMove, RequestFits, DeckWas
  <2> QED BY <1>2, <2>1, <2>2
<1>5. ASSUME NEW s \in Senses, NEW k \in CardIds, LoadCardToSwap(r, k, s) PROVE LibraryInv'
  <2> DEFINE q == [at |-> "check sense", card |-> k, sense |-> s]
  <2>1. request' = [request EXCEPT ![r] = q]
    BY <1>5 DEF LoadCardToSwap, Proceed
  <2>2. RequestFits(q, decks, dropped, cards)
    BY <1>5 DEF LoadCardToSwap, RequestFits
  <2> QED BY <1>2, <2>1, <2>2
<1>6. ASSUME NEW k \in CardIds, LoadCardToNote(r, k) PROVE LibraryInv'
  <2>1. PICK note : request' = [request EXCEPT ![r] = [at |-> "set note", card |-> k, note |-> note]]
    BY <1>6 DEF LoadCardToNote, Proceed
  <2>2. RequestFits([at |-> "set note", card |-> k, note |-> note], decks, dropped, cards)
    BY DEF RequestFits
  <2> QED BY <1>2, <2>1, <2>2
<1> QED BY <1>3, <1>4, <1>5, <1>6

LEMMA ResolveKeepsInv ==
  ASSUME LibraryInv, NEW r \in DeckRequests, NEW s \in Senses, ResolveDeckForAdd(r, s)
  PROVE  LibraryInv'
<1>1. PICK d \in DeckIds :
        /\ \/ Resolves(d, Language(s)) /\ UNCHANGED decks
           \/ EnsureDefaultDeck(Language(s), d)
        /\ request' = [request EXCEPT ![r] = [at |-> "insert card", sense |-> s, deck |-> d]]
  BY DEF ResolveDeckForAdd, Proceed
<1>2. dropped' = dropped /\ cards' = cards
  BY DEF ResolveDeckForAdd
<1>3. /\ DecksFit(decks', dropped') /\ DecksEvolve(decks, dropped, decks', dropped')
      /\ CardsFit(cards, decks')
      /\ d \in DOMAIN decks' /\ decks'[d].language = Language(s)
  <2>1. CASE Resolves(d, Language(s)) /\ UNCHANGED decks
    BY <1>2, <2>1, Unchanged DEF Resolves
  <2>2. CASE EnsureDefaultDeck(Language(s), d)
    BY <1>2, <2>2, DefaultEnsured, LanguageLearned
  <2> QED BY <1>1, <2>1, <2>2
<1>4. RequestFits([at |-> "insert card", sense |-> s, deck |-> d], decks', dropped', cards')
  BY <1>3 DEF RequestFits, DeckWas
<1> QED BY <1>1, <1>2, <1>3, <1>4, RequestAdvances, Unchanged

(* Statements that write cards and end their request. *)
LEMMA CardsWritten ==
  ASSUME LibraryInv, NEW r \in DeckRequests, Ends(r), UNCHANGED <<decks, dropped>>,
         CardsFit(cards', decks), CardsEvolve(cards, cards')
  PROVE  LibraryInv'
  BY RequestAdvances, IdleFits, Unchanged DEF Ends, Proceed

LEMMA InsertKeepsInv ==
  ASSUME LibraryInv, NEW r \in DeckRequests, InsertCard(r)
  PROVE  LibraryInv'
<1> DEFINE q == request[r]
           held == {k \in DOMAIN cards : cards[k].sense = q.sense}
<1>1. Ends(r) /\ UNCHANGED <<decks, dropped>>
  BY DEF InsertCard
<1>2. q.sense \in Senses /\ DeckWas(q.deck, Language(q.sense), decks, dropped)
  BY DEF InsertCard, LibraryInv, RequestFits
<1>3. CASE cards' = cards
  BY <1>1, <1>3, CardsWritten, Unchanged
<1>4. ASSUME q.deck \in DOMAIN decks, NEW k \in held,
             cards' = [cards EXCEPT ![k].deck = q.deck, ![k].archived = FALSE]
      PROVE  LibraryInv'
  <2>1. /\ DOMAIN cards' = DOMAIN cards
        /\ \A c \in DOMAIN cards : cards'[c].sense = cards[c].sense
        /\ \A c \in DOMAIN cards \ {k} : cards'[c].deck = cards[c].deck
        /\ cards'[k].deck = q.deck /\ cards[k].sense = q.sense
    <3> DEFINE row == [cards[k] EXCEPT !.deck = q.deck, !.archived = FALSE]
    <3>1. row.sense = cards[k].sense /\ row.deck = q.deck
      OBVIOUS
    <3>2. cards' = [cards EXCEPT ![k] = row]
      BY <1>4
    <3>3. k \in DOMAIN cards /\ cards[k].sense = q.sense
      BY <1>4
    <3> HIDE DEF row, held
    <3> QED BY <3>1, <3>2, <3>3
  <2>2. CardsFit(cards', decks) /\ CardsEvolve(cards, cards')
    BY <1>2, <1>4, <2>1 DEF LibraryInv, CardsFit, CardsEvolve, DeckWas
  <2> QED BY <1>1, <2>2, CardsWritten
<1>5. ASSUME q.deck \in DOMAIN decks, NEW k \in CardIds \ DOMAIN cards, NEW note,
             cards' = With(cards, k, [sense |-> q.sense, deck |-> q.deck,
                                      archived |-> FALSE, note |-> note])
      PROVE  LibraryInv'
  <2>1. /\ DOMAIN cards' = DOMAIN cards \cup {k}
        /\ \A c \in DOMAIN cards : cards'[c] = cards[c]
        /\ cards'[k].deck = q.deck /\ cards'[k].sense = q.sense
    BY <1>5 DEF With
  <2>2. CardsFit(cards', decks) /\ CardsEvolve(cards, cards')
    BY <1>2, <1>5, <2>1 DEF LibraryInv, CardsFit, CardsEvolve, DeckWas
  <2> QED BY <1>1, <2>2, CardsWritten
<1> QED BY <1>3, <1>4, <1>5 DEF InsertCard

LEMMA EnsureKeepsInv ==
  ASSUME LibraryInv, NEW r \in DeckRequests, EnsureForDelete(r)
  PROVE  LibraryInv'
<1> DEFINE q == request[r]
<1>1. dropped' = dropped /\ cards' = cards
  BY DEF EnsureForDelete
<1>2. q.language \in Learned /\ DeckWas(q.deck, q.language, decks, dropped) /\ PlainDeck(q.deck, decks)
  BY DEF EnsureForDelete, LibraryInv, RequestFits
<1>3. ASSUME NEW d \in DeckIds, EnsureDefaultDeck(q.language, d),
             Proceed(r, [at |-> "drop deck", deck |-> q.deck, target |-> d])
      PROVE  LibraryInv'
  <2> DEFINE p == [at |-> "drop deck", deck |-> q.deck, target |-> d]
  <2>1. /\ DecksFit(decks', dropped') /\ DecksEvolve(decks, dropped, decks', dropped')
        /\ CardsFit(cards, decks')
        /\ d \in DOMAIN decks' /\ decks'[d].language = q.language /\ decks'[d].default
    BY <1>1, <1>2, <1>3, DefaultEnsured
  <2>2. DeckWas(q.deck, q.language, decks', dropped') /\ PlainDeck(q.deck, decks')
    BY <1>2, <2>1 DEF DeckWas, PlainDeck, DecksFit, DecksEvolve
  <2>3. RequestFits(p, decks', dropped', cards')
    BY <2>1, <2>2 DEF RequestFits
  <2>4. request' = [request EXCEPT ![r] = p]
    BY <1>3 DEF Proceed
  <2> HIDE DEF p
  <2> QED BY <1>1, <2>1, <2>3, <2>4, RequestAdvances, Unchanged
<1>4. CASE Ends(r) /\ UNCHANGED decks
  BY <1>1, <1>4, CardsWritten, Unchanged
<1> QED BY <1>3, <1>4 DEF EnsureForDelete

(* The cards of the deck go to a default one of the same language, which is *)
(* still there.                                                             *)
LEMMA DropKeepsInv ==
  ASSUME LibraryInv, NEW r \in DeckRequests, DropDeck(r)
  PROVE  LibraryInv'
<1> DEFINE q == request[r]
<1>1. /\ q.target \in DOMAIN decks /\ decks[q.target].default
      /\ DeckWas(q.deck, decks[q.target].language, decks, dropped) /\ PlainDeck(q.deck, decks)
  BY DEF DropDeck, LibraryInv, RequestFits
<1>2. Ends(r)
  BY DEF DropDeck
<1>3. CASE UNCHANGED <<decks, dropped, cards>>
  BY <1>2, <1>3, CardsWritten, Unchanged
<1>4. CASE /\ decks' = Without(decks, q.deck) /\ dropped' = dropped \cup {q.deck}
           /\ cards' = [k \in DOMAIN cards |->
                          IF cards[k].deck = q.deck THEN [cards[k] EXCEPT !.deck = q.target]
                          ELSE cards[k]]
  <2>1. /\ DOMAIN decks' = DOMAIN decks \ {q.deck} /\ q.target # q.deck
        /\ \A d \in DOMAIN decks' : decks'[d] = decks[d]
    BY <1>1, <1>4 DEF Without, PlainDeck
  <2>2. DecksFit(decks', dropped') /\ DecksEvolve(decks, dropped, decks', dropped')
    BY <1>1, <1>4, <2>1 DEF LibraryInv, DecksFit, DecksEvolve, PlainDeck
  <2>3. /\ DOMAIN cards' = DOMAIN cards
        /\ \A k \in DOMAIN cards :
             /\ cards'[k].sense = cards[k].sense
             /\ cards[k].deck # q.deck => cards'[k].deck = cards[k].deck
             /\ cards[k].deck = q.deck => cards'[k].deck = q.target
    <3>1. \A k \in DOMAIN cards :
            cards[k].deck = q.deck =>
              /\ [cards[k] EXCEPT !.deck = q.target].deck = q.target
              /\ [cards[k] EXCEPT !.deck = q.target].sense = cards[k].sense
      OBVIOUS
    <3> QED BY <1>4, <3>1
  <2>4. CardsFit(cards', decks')
    BY <1>1, <2>1, <2>3 DEF LibraryInv, CardsFit, DeckWas
  <2>5. CardsEvolve(cards, cards')
    BY <2>3 DEF CardsEvolve
  <2>6. request' = [request EXCEPT ![r] = IdleRequest]
    BY <1>2 DEF Ends, Proceed
  <2> QED BY <2>2, <2>4, <2>5, <2>6, RequestAdvances, IdleFits
<1> QED BY <1>3, <1>4 DEF DropDeck

LEMMA MoveKeepsInv ==
  ASSUME LibraryInv, NEW r \in DeckRequests, MoveCards(r)
  PROVE  LibraryInv'
<1> DEFINE q == request[r]
           fitting == {k \in q.items \cap DOMAIN cards : Fits(k, q.language)}
<1>1. Ends(r) /\ UNCHANGED <<decks, dropped>>
  BY DEF MoveCards
<1>2. DeckWas(q.deck, q.language, decks, dropped)
  BY DEF MoveCards, LibraryInv, RequestFits
<1>3. CASE q.deck \notin DOMAIN decks
  BY <1>1, <1>3, CardsWritten, Unchanged DEF MoveCards
<1>4. CASE q.deck \in DOMAIN decks
  <2>1. cards' = [k \in DOMAIN cards |->
                    IF k \in fitting THEN [cards[k] EXCEPT !.deck = q.deck] ELSE cards[k]]
    BY <1>4 DEF MoveCards
  <2>2. \A k \in fitting : Language(cards[k].sense) = q.language
    BY DEF Fits
  <2>3. /\ DOMAIN cards' = DOMAIN cards
        /\ \A k \in DOMAIN cards :
             /\ cards'[k].sense = cards[k].sense
             /\ \/ cards'[k].deck = cards[k].deck
                \/ cards'[k].deck = q.deck /\ Language(cards[k].sense) = q.language
    <3> HIDE DEF fitting
    <3>1. \A k \in DOMAIN cards :
             /\ [cards[k] EXCEPT !.deck = q.deck].sense = cards[k].sense
             /\ \/ [cards[k] EXCEPT !.deck = q.deck].deck = cards[k].deck
                \/ [cards[k] EXCEPT !.deck = q.deck].deck = q.deck
      OBVIOUS
    <3> QED BY <2>1, <2>2, <3>1
  <2>4. CardsFit(cards', decks) /\ CardsEvolve(cards, cards')
    BY <1>2, <1>4, <2>3 DEF LibraryInv, CardsFit, CardsEvolve, DeckWas
  <2> QED BY <1>1, <2>4, CardsWritten
<1> QED BY <1>3, <1>4

LEMMA SenseKeepsInv ==
  ASSUME LibraryInv, NEW r \in DeckRequests, CheckSense(r) \/ SwapSense(r) \/ SetNote(r)
  PROVE  LibraryInv'
<1> DEFINE q == request[r]
<1>1. UNCHANGED <<decks, dropped>>
  BY DEF CheckSense, SwapSense, SetNote
<1>2. CASE CheckSense(r)
  <2>1. cards' = cards
    BY <1>2 DEF CheckSense
  <2>2. CASE Ends(r)
    BY <1>1, <2>1, <2>2, CardsWritten, Unchanged
  <2>3. CASE Proceed(r, [q EXCEPT !.at = "swap sense"])
    <3> DEFINE p == [q EXCEPT !.at = "swap sense"]
    <3>1. /\ q.card \in DOMAIN cards /\ q.sense \in Senses
          /\ WordOfSense[cards[q.card].sense] = WordOfSense[q.sense]
      BY <1>2 DEF CheckSense, LibraryInv, RequestFits
    <3>2. p.card = q.card /\ p.sense = q.sense /\ p.at \in {q.at, "swap sense"}
      OBVIOUS
    <3>3. request' = [request EXCEPT ![r] = p]
      BY <2>3 DEF Proceed
    <3>4. q.at = "check sense"
      BY <1>2 DEF CheckSense
    <3> HIDE DEF p
    <3>5. RequestFits(p, decks, dropped, cards)
      BY <3>1, <3>2, <3>4 DEF RequestFits
    <3> QED BY <1>1, <2>1, <3>3, <3>5, RequestAdvances, Unchanged
  <2> QED BY <1>2, <2>2, <2>3 DEF CheckSense
<1>3. CASE SwapSense(r)
  <2>1. /\ q.card \in DOMAIN cards /\ q.sense \in Senses
        /\ WordOfSense[cards[q.card].sense] = WordOfSense[q.sense]
    BY <1>3 DEF SwapSense, LibraryInv, RequestFits
  <2>2. CASE cards' = cards
    BY <1>1, <1>3, <2>2, CardsWritten, Unchanged DEF SwapSense
  <2>3. CASE \E note : cards' = [cards EXCEPT ![q.card].sense = q.sense, ![q.card].note = note]
    <3>1. /\ DOMAIN cards' = DOMAIN cards
          /\ \A k \in DOMAIN cards : cards'[k].deck = cards[k].deck
          /\ \A k \in DOMAIN cards \ {q.card} : cards'[k].sense = cards[k].sense
          /\ cards'[q.card].sense = q.sense
      <4>1. PICK note : cards' = [cards EXCEPT ![q.card].sense = q.sense, ![q.card].note = note]
        BY <2>3
      <4> DEFINE row == [cards[q.card] EXCEPT !.sense = q.sense, !.note = note]
      <4>2. row.sense = q.sense /\ row.deck = cards[q.card].deck
        OBVIOUS
      <4>3. cards' = [cards EXCEPT ![q.card] = row]
        BY <4>1
      <4> HIDE DEF row
      <4> QED BY <2>1, <4>2, <4>3
    <3>2. Language(q.sense) = Language(cards[q.card].sense)
      BY <2>1, SameWordSameLanguage DEF LibraryInv, CardsFit
    <3>3. CardsFit(cards', decks) /\ CardsEvolve(cards, cards')
      BY <2>1, <3>1, <3>2 DEF LibraryInv, CardsFit, CardsEvolve
    <3> QED BY <1>1, <1>3, <3>3, CardsWritten DEF SwapSense
  <2> QED BY <1>3, <2>2, <2>3 DEF SwapSense
<1>4. CASE SetNote(r)
  <2>1. /\ DOMAIN cards' = DOMAIN cards
        /\ \A k \in DOMAIN cards : cards'[k].deck = cards[k].deck /\ cards'[k].sense = cards[k].sense
    <3> DEFINE row == [cards[q.card] EXCEPT !.note = q.note]
    <3>1. row.sense = cards[q.card].sense /\ row.deck = cards[q.card].deck
      OBVIOUS
    <3>2. cards' = [cards EXCEPT ![q.card] = row]
      BY <1>4 DEF SetNote
    <3> HIDE DEF row
    <3> QED BY <3>1, <3>2
  <2>2. CardsFit(cards', decks) /\ CardsEvolve(cards, cards')
    BY <2>1 DEF LibraryInv, CardsFit, CardsEvolve
  <2> QED BY <1>1, <1>4, <2>2, CardsWritten DEF SetNote
<1> QED BY <1>2, <1>3, <1>4

LEMMA LibraryInvStep == LibraryInv /\ [LibraryNext]_libraryVars => LibraryInv'
<1>1. LibraryInv /\ LibraryNext => LibraryInv'
  BY DecksKeepInv, ReadsKeepInv, ResolveKeepsInv, InsertKeepsInv, EnsureKeepsInv, DropKeepsInv,
     MoveKeepsInv, SenseKeepsInv
     DEF LibraryNext
<1>2. LibraryInv /\ UNCHANGED libraryVars => LibraryInv'
  BY DEF libraryVars, LibraryInv
<1> QED BY <1>1, <1>2

(* No card ever lies in a deck that is gone, or in one of another language, *)
(* whatever add, move, swap and deletion of decks overlap.                  *)
THEOREM CardsStayInLanguage == LibrarySpec => []CardsInLanguage
<1>1. LibraryInv => CardsInLanguage
  BY DEF LibraryInv, CardsFit, CardsInLanguage
<1> QED BY LibraryInvInit, LibraryInvStep, <1>1, PTL DEF LibrarySpec

(* The rows as the tables declare them, and the note a request writes.      *)
DecksTyped(ds) == \A d \in DOMAIN ds : ds[d] \in DeckRow
CardsTyped(cs) == DOMAIN cs \subseteq CardIds /\ \A k \in DOMAIN cs : cs[k] \in CardRow

RequestTyped(q) ==
  /\ q = IdleRequest \/ q.at \in Statements
  /\ q.at = "set note" => q.note \in {"none"} \cup Senses
  /\ q.at \in {"ensure default", "drop deck"} => q.deck \in DeckIds

RequestsTyped(qs) == \A r \in DeckRequests : RequestTyped(qs[r])

LibraryRows ==
  /\ DecksTyped(decks) /\ dropped \subseteq DeckIds /\ CardsTyped(cards)
  /\ RequestsTyped(request) /\ started \in 0 .. MaxStarted

LEMMA IdleTyped == RequestTyped(IdleRequest)
  BY DEF RequestTyped, IdleRequest

LEMMA RequestsStayTyped ==
  ASSUME LibraryInv, LibraryRows, NEW r \in DeckRequests, NEW q, RequestTyped(q), Proceed(r, q)
  PROVE  RequestsTyped(request')
  BY DEF LibraryInv, LibraryRows, RequestsTyped, Proceed

LEMMA RequestsEndTyped ==
  ASSUME LibraryInv, LibraryRows, NEW r \in DeckRequests, Ends(r)
  PROVE  RequestsTyped(request')
  BY IdleTyped, RequestsStayTyped DEF Ends

LEMMA BeginInBound == LibraryRows /\ Begin => started' \in 0 .. MaxStarted
  BY LibraryAssumption DEF LibraryRows, Begin

LEMMA WithTyped ==
  /\ \A ds, d, row : DecksTyped(ds) /\ row \in DeckRow => DecksTyped(With(ds, d, row))
  /\ \A cs, row : \A k \in CardIds : CardsTyped(cs) /\ row \in CardRow => CardsTyped(With(cs, k, row))
  BY DEF DecksTyped, CardsTyped, With

LEMMA EnsureTyped ==
  ASSUME LibraryRows, NEW language \in Learned, NEW d, EnsureDefaultDeck(language, d)
  PROVE  DecksTyped(decks')
<1> DEFINE row == [language |-> language, name |-> "default", default |-> TRUE]
<1>1. row \in DeckRow
  BY DEF DeckRow, Names
<1>2. decks' = decks \/ decks' = With(decks, d, row)
  BY DEF EnsureDefaultDeck
<1> HIDE DEF row
<1> QED BY <1>1, <1>2, WithTyped DEF LibraryRows

LEMMA LibraryRowsInit == LibraryInit => LibraryRows
  BY LibraryAssumption, IdleTyped
     DEF LibraryInit, LibraryRows, DecksTyped, CardsTyped, RequestsTyped

LEMMA DeckRowsStayTyped ==
  ASSUME LibraryInv, LibraryRows,
         \/ ListDecks
         \/ \E d \in DeckIds, name \in Names :
              RenameDeck(d, name) \/ \E language \in Learned : CreateDeck(d, language, name)
         \/ \E k \in CardIds : ArchiveItem(k)
  PROVE  LibraryRows'
<1>1. /\ started' \in 0 .. MaxStarted /\ RequestsTyped(request') /\ dropped' \subseteq DeckIds
  <2>1. Begin /\ request' = request /\ dropped' = dropped
    BY DEF ListDecks, RenameDeck, CreateDeck, ArchiveItem
  <2> QED BY <2>1, BeginInBound DEF LibraryRows
<1>2. CASE ListDecks
  <2>1. PICK language \in Learned, d \in DeckIds : EnsureDefaultDeck(language, d)
    BY <1>2 DEF ListDecks
  <2>2. cards' = cards
    BY <1>2 DEF ListDecks
  <2> QED BY <1>1, <2>1, <2>2, EnsureTyped DEF LibraryRows
<1>3. ASSUME NEW d \in DeckIds, NEW name \in Names, NEW language \in Learned, CreateDeck(d, language, name)
      PROVE  LibraryRows'
  <2> DEFINE row == [language |-> language, name |-> name, default |-> FALSE]
  <2>1. row \in DeckRow
    BY DEF DeckRow
  <2>2. decks' = With(decks, d, row) /\ cards' = cards
    BY <1>3 DEF CreateDeck
  <2> HIDE DEF row
  <2> QED BY <1>1, <2>1, <2>2, WithTyped DEF LibraryRows
<1>4. ASSUME NEW d \in DeckIds, NEW name \in Names, RenameDeck(d, name) PROVE LibraryRows'
  <2> DEFINE row == [decks[d] EXCEPT !.name = name]
  <2>1. d \in DOMAIN decks /\ decks' = [decks EXCEPT ![d] = row] /\ cards' = cards
    BY <1>4 DEF RenameDeck
  <2>2. row \in DeckRow
    BY <2>1 DEF LibraryRows, DecksTyped, DeckRow
  <2> HIDE DEF row
  <2> QED BY <1>1, <2>1, <2>2 DEF LibraryRows, DecksTyped
<1>5. ASSUME NEW k \in CardIds, ArchiveItem(k) PROVE LibraryRows'
  <2> DEFINE row == [cards[k] EXCEPT !.archived = TRUE]
  <2>1. k \in DOMAIN cards /\ cards' = [cards EXCEPT ![k] = row] /\ decks' = decks
    BY <1>5 DEF ArchiveItem
  <2>2. row \in CardRow
    BY <2>1 DEF LibraryRows, CardsTyped, CardRow
  <2> HIDE DEF row
  <2> QED BY <1>1, <2>1, <2>2 DEF LibraryRows, CardsTyped
<1> QED BY <1>2, <1>3, <1>4, <1>5

LEMMA ReadsStayTyped ==
  ASSUME LibraryInv, LibraryRows, NEW r \in DeckRequests,
         \/ \E d \in DeckIds : LoadDeckToDelete(r, d)
         \/ \E d \in DeckIds, items \in SUBSET CardIds : LoadDeckToMove(r, d, items)
         \/ \E s \in Senses, k \in CardIds : LoadCardToSwap(r, k, s)
         \/ \E k \in CardIds : LoadCardToNote(r, k)
  PROVE  LibraryRows'
<1>1. UNCHANGED <<decks, dropped, cards>> /\ Begin
  BY DEF LoadDeckToDelete, LoadDeckToMove, LoadCardToSwap, LoadCardToNote, BeginAt
<1>2. ASSUME NEW q, RequestTyped(q), Proceed(r, q) PROVE LibraryRows'
  BY <1>1, <1>2, RequestsStayTyped, BeginInBound DEF LibraryRows
<1>3. ASSUME NEW d \in DeckIds, LoadDeckToDelete(r, d) PROVE LibraryRows'
  <2> DEFINE q == [at |-> "ensure default", deck |-> d, language |-> decks[d].language]
  <2>1. RequestTyped(q)
    BY DEF RequestTyped, Statements
  <2> QED BY <1>2, <1>3, <2>1 DEF LoadDeckToDelete
<1>4. ASSUME NEW d \in DeckIds, NEW items \in SUBSET CardIds, LoadDeckToMove(r, d, items)
      PROVE  LibraryRows'
  <2> DEFINE q == [at |-> "move cards", deck |-> d, language |-> decks[d].language, items |-> items]
  <2>1. RequestTyped(q)
    BY DEF RequestTyped, Statements
  <2> QED BY <1>2, <1>4, <2>1 DEF LoadDeckToMove
<1>5. ASSUME NEW s \in Senses, NEW k \in CardIds, LoadCardToSwap(r, k, s) PROVE LibraryRows'
  <2> DEFINE q == [at |-> "check sense", card |-> k, sense |-> s]
  <2>1. RequestTyped(q)
    BY DEF RequestTyped, Statements
  <2> QED BY <1>2, <1>5, <2>1 DEF LoadCardToSwap
<1>6. ASSUME NEW k \in CardIds, LoadCardToNote(r, k) PROVE LibraryRows'
  <2>1. PICK note \in {"none", cards[k].sense} : Proceed(r, [at |-> "set note", card |-> k, note |-> note])
    BY <1>6 DEF LoadCardToNote
  <2> DEFINE q == [at |-> "set note", card |-> k, note |-> note]
  <2>2. cards[k].sense \in Senses
    BY <1>6 DEF LoadCardToNote, LibraryInv, CardsFit
  <2>3. RequestTyped(q)
    BY <2>1, <2>2 DEF RequestTyped, Statements
  <2> QED BY <1>2, <2>1, <2>3
<1> QED BY <1>3, <1>4, <1>5, <1>6

LEMMA ResolveStaysTyped ==
  ASSUME LibraryInv, LibraryRows, NEW r \in DeckRequests, NEW s \in Senses, ResolveDeckForAdd(r, s)
  PROVE  LibraryRows'
<1>1. PICK d \in DeckIds :
        /\ \/ Resolves(d, Language(s)) /\ UNCHANGED decks
           \/ EnsureDefaultDeck(Language(s), d)
        /\ Proceed(r, [at |-> "insert card", sense |-> s, deck |-> d])
  BY DEF ResolveDeckForAdd
<1> DEFINE q == [at |-> "insert card", sense |-> s, deck |-> d]
<1>2. RequestTyped(q)
  BY DEF RequestTyped, Statements
<1>3. Proceed(r, q) /\ Begin /\ UNCHANGED <<dropped, cards>>
  BY <1>1 DEF ResolveDeckForAdd, BeginAt
<1> HIDE DEF q
<1>4. RequestsTyped(request') /\ started' \in 0 .. MaxStarted
  BY <1>2, <1>3, RequestsStayTyped, BeginInBound
<1>5. DecksTyped(decks')
  BY <1>1, EnsureTyped, LanguageLearned DEF LibraryRows
<1> QED BY <1>3, <1>4, <1>5 DEF LibraryRows

LEMMA InsertStaysTyped ==
  ASSUME LibraryInv, LibraryRows, NEW r \in DeckRequests, InsertCard(r)
  PROVE  LibraryRows'
<1> DEFINE q == request[r]
           held == {k \in DOMAIN cards : cards[k].sense = q.sense}
<1>1. RequestsTyped(request') /\ UNCHANGED <<decks, dropped, started>>
  BY RequestsEndTyped DEF InsertCard
<1>2. q.sense \in Senses
  BY DEF InsertCard, LibraryInv, RequestFits
<1>3. ASSUME q.deck \in DOMAIN decks, NEW k \in held,
             cards' = [cards EXCEPT ![k].deck = q.deck, ![k].archived = FALSE]
      PROVE  CardsTyped(cards')
  <2> DEFINE row == [cards[k] EXCEPT !.deck = q.deck, !.archived = FALSE]
  <2>1. q.deck \in DeckIds /\ k \in DOMAIN cards
    BY <1>3 DEF LibraryInv, DecksFit
  <2>2. row \in CardRow
    BY <2>1 DEF LibraryRows, CardsTyped, CardRow
  <2>3. cards' = [cards EXCEPT ![k] = row]
    BY <1>3
  <2> HIDE DEF row
  <2> QED BY <2>1, <2>2, <2>3 DEF LibraryRows, CardsTyped
<1>4. ASSUME q.deck \in DOMAIN decks, NEW k \in CardIds \ DOMAIN cards, NEW note \in {"none", q.sense},
             cards' = With(cards, k, [sense |-> q.sense, deck |-> q.deck,
                                      archived |-> FALSE, note |-> note])
      PROVE  CardsTyped(cards')
  <2> DEFINE row == [sense |-> q.sense, deck |-> q.deck, archived |-> FALSE, note |-> note]
  <2>1. q.deck \in DeckIds
    BY <1>4 DEF LibraryInv, DecksFit
  <2>2. row \in CardRow
    BY <1>2, <2>1 DEF CardRow
  <2>3. cards' = With(cards, k, row)
    BY <1>4
  <2> HIDE DEF row
  <2> QED BY <2>2, <2>3, WithTyped DEF LibraryRows
<1>5. CardsTyped(cards')
  BY <1>3, <1>4 DEF InsertCard, LibraryRows
<1> QED BY <1>1, <1>5 DEF LibraryRows

LEMMA EnsureStaysTyped ==
  ASSUME LibraryInv, LibraryRows, NEW r \in DeckRequests, EnsureForDelete(r)
  PROVE  LibraryRows'
<1> DEFINE q == request[r]
<1>1. UNCHANGED <<dropped, cards, started>>
  BY DEF EnsureForDelete
<1>2. q.language \in Learned /\ q.deck \in DeckIds
  BY DEF EnsureForDelete, LibraryInv, RequestFits, LibraryRows, RequestsTyped, RequestTyped
<1>3. ASSUME NEW d \in DeckIds, EnsureDefaultDeck(q.language, d),
             Proceed(r, [at |-> "drop deck", deck |-> q.deck, target |-> d])
      PROVE  LibraryRows'
  <2> DEFINE p == [at |-> "drop deck", deck |-> q.deck, target |-> d]
  <2>1. RequestTyped(p)
    BY <1>2 DEF RequestTyped, Statements
  <2>2. Proceed(r, p)
    BY <1>3
  <2> HIDE DEF p
  <2> QED BY <1>1, <1>2, <1>3, <2>1, <2>2, RequestsStayTyped, EnsureTyped DEF LibraryRows
<1>4. CASE Ends(r) /\ UNCHANGED decks
  BY <1>1, <1>4, RequestsEndTyped DEF LibraryRows
<1> QED BY <1>3, <1>4 DEF EnsureForDelete

LEMMA DropStaysTyped ==
  ASSUME LibraryInv, LibraryRows, NEW r \in DeckRequests, DropDeck(r)
  PROVE  LibraryRows'
<1> DEFINE q == request[r]
<1>1. RequestsTyped(request') /\ started' = started
  BY RequestsEndTyped DEF DropDeck
<1>2. q.deck \in DeckIds /\ q.target \in DeckIds
  BY DEF DropDeck, LibraryInv, RequestFits, DecksFit, LibraryRows, RequestsTyped, RequestTyped
<1>3. CASE UNCHANGED <<decks, dropped, cards>>
  BY <1>1, <1>3 DEF LibraryRows
<1>4. CASE /\ decks' = Without(decks, q.deck) /\ dropped' = dropped \cup {q.deck}
           /\ cards' = [k \in DOMAIN cards |->
                          IF cards[k].deck = q.deck THEN [cards[k] EXCEPT !.deck = q.target]
                          ELSE cards[k]]
  <2>1. DecksTyped(decks') /\ dropped' \subseteq DeckIds
    BY <1>2, <1>4 DEF LibraryRows, DecksTyped, Without
  <2>2. \A k \in DOMAIN cards : [cards[k] EXCEPT !.deck = q.target] \in CardRow
    BY <1>2 DEF LibraryRows, CardsTyped, CardRow
  <2>3. CardsTyped(cards')
    BY <1>4, <2>2 DEF LibraryRows, CardsTyped
  <2> QED BY <1>1, <2>1, <2>3 DEF LibraryRows
<1> QED BY <1>3, <1>4 DEF DropDeck

LEMMA MoveStaysTyped ==
  ASSUME LibraryInv, LibraryRows, NEW r \in DeckRequests, MoveCards(r)
  PROVE  LibraryRows'
<1> DEFINE q == request[r]
           fitting == {k \in q.items \cap DOMAIN cards : Fits(k, q.language)}
<1>1. RequestsTyped(request') /\ UNCHANGED <<decks, dropped, started>>
  BY RequestsEndTyped DEF MoveCards
<1>2. CASE q.deck \notin DOMAIN decks
  BY <1>1, <1>2 DEF MoveCards, LibraryRows
<1>3. CASE q.deck \in DOMAIN decks
  <2>1. cards' = [k \in DOMAIN cards |->
                    IF k \in fitting THEN [cards[k] EXCEPT !.deck = q.deck] ELSE cards[k]]
    BY <1>3 DEF MoveCards
  <2>2. q.deck \in DeckIds
    BY <1>3 DEF LibraryInv, DecksFit
  <2>3. \A k \in DOMAIN cards : [cards[k] EXCEPT !.deck = q.deck] \in CardRow
    BY <2>2 DEF LibraryRows, CardsTyped, CardRow
  <2> HIDE DEF fitting
  <2>4. CardsTyped(cards')
    BY <2>1, <2>3 DEF LibraryRows, CardsTyped
  <2> QED BY <1>1, <2>4 DEF LibraryRows
<1> QED BY <1>2, <1>3

LEMMA SenseStaysTyped ==
  ASSUME LibraryInv, LibraryRows, NEW r \in DeckRequests, CheckSense(r) \/ SwapSense(r) \/ SetNote(r)
  PROVE  LibraryRows'
<1> DEFINE q == request[r]
<1>1. UNCHANGED <<decks, dropped, started>>
  BY DEF CheckSense, SwapSense, SetNote
<1>2. CASE CheckSense(r)
  <2>1. cards' = cards
    BY <1>2 DEF CheckSense
  <2>2. CASE Ends(r)
    BY <1>1, <2>1, <2>2, RequestsEndTyped DEF LibraryRows
  <2>3. CASE Proceed(r, [q EXCEPT !.at = "swap sense"])
    <3> DEFINE p == [q EXCEPT !.at = "swap sense"]
    <3>1. q.at = "check sense"
      BY <1>2 DEF CheckSense
    <3>2. p.at \in {q.at, "swap sense"}
      OBVIOUS
    <3> HIDE DEF p
    <3>3. RequestTyped(p)
      BY <3>1, <3>2 DEF RequestTyped, Statements
    <3> QED BY <1>1, <2>1, <2>3, <3>3, RequestsStayTyped DEF LibraryRows, p
  <2> QED BY <1>2, <2>2, <2>3 DEF CheckSense
<1>3. CASE SwapSense(r)
  <2>1. RequestsTyped(request')
    BY <1>3, RequestsEndTyped DEF SwapSense
  <2>2. q.card \in DOMAIN cards /\ q.sense \in Senses
    BY <1>3 DEF SwapSense, LibraryInv, RequestFits
  <2>3. CASE cards' = cards
    BY <1>1, <2>1, <2>3 DEF LibraryRows
  <2>4. ASSUME NEW note \in {"none", q.sense},
               cards' = [cards EXCEPT ![q.card].sense = q.sense, ![q.card].note = note]
        PROVE  LibraryRows'
    <3> DEFINE row == [cards[q.card] EXCEPT !.sense = q.sense, !.note = note]
    <3>1. row \in CardRow
      BY <2>2 DEF LibraryRows, CardsTyped, CardRow
    <3>2. cards' = [cards EXCEPT ![q.card] = row]
      BY <2>4
    <3> HIDE DEF row
    <3>3. CardsTyped(cards')
      BY <2>2, <3>1, <3>2 DEF LibraryRows, CardsTyped
    <3> QED BY <1>1, <2>1, <3>3 DEF LibraryRows
  <2> QED BY <1>3, <2>3, <2>4 DEF SwapSense
<1>4. CASE SetNote(r)
  <2>1. RequestsTyped(request') /\ q.note \in {"none"} \cup Senses
    BY <1>4, RequestsEndTyped DEF SetNote, LibraryRows, RequestsTyped, RequestTyped
  <2> DEFINE row == [cards[q.card] EXCEPT !.note = q.note]
  <2>2. cards' = [cards EXCEPT ![q.card] = row]
    BY <1>4 DEF SetNote
  <2>3. q.card \in DOMAIN cards => row \in CardRow
    BY <2>1 DEF LibraryRows, CardsTyped, CardRow
  <2> HIDE DEF row
  <2>4. CardsTyped(cards')
    BY <2>2, <2>3 DEF LibraryRows, CardsTyped
  <2> QED BY <1>1, <2>1, <2>4 DEF LibraryRows
<1> QED BY <1>2, <1>3, <1>4

LEMMA LibraryRowsStep == LibraryInv /\ LibraryRows /\ [LibraryNext]_libraryVars => LibraryRows'
<1>1. LibraryInv /\ LibraryRows /\ LibraryNext => LibraryRows'
  BY DeckRowsStayTyped, ReadsStayTyped, ResolveStaysTyped, InsertStaysTyped, EnsureStaysTyped,
     DropStaysTyped, MoveStaysTyped, SenseStaysTyped
     DEF LibraryNext
<1>2. LibraryRows /\ UNCHANGED libraryVars => LibraryRows'
  BY DEF libraryVars, LibraryRows
<1> QED BY <1>1, <1>2

(* Every row of decks and user_word_senses is one the tables allow, and no  *)
(* key of a deleted deck is used again, whatever requests overlap.          *)
THEOREM LibraryTypesHold == LibrarySpec => []LibraryTypeOK
<1>1. LibraryInv /\ LibraryRows => LibraryTypeOK
  BY DEF LibraryInv, LibraryRows, DecksFit, DecksTyped, CardsTyped, RequestsTyped, RequestTyped, LibraryTypeOK
<1> QED
  BY LibraryInvInit, LibraryInvStep, LibraryRowsInit, LibraryRowsStep, <1>1, PTL DEF LibrarySpec

-------------------------------------------------------------------------------
(* The catalogue: the senses stored of a word and the cards on them.       *)

(* What a request that waits has read.  A remap that is under way finds the *)
(* senses and the cards it read, reviewed as often or more.                *)
TaskFits(q, senses, ownCards, stored) ==
  /\ q.at \in {"persist", "append"} => q.found \subseteq Glosses
  /\ q.at \in {"append", "number", "replace", "remap"} => stored
  /\ q.at \in {"import", "number"} => q.back \in Glosses
  /\ q.at = "import" => DOMAIN q.options \subseteq Orders
  /\ q.at \in {"import", "number", "own"} => q.learner \in Learners
  /\ q.at = "number" => q.order \in Nat \ {0}
  /\ q.at = "replace" => q.old \subseteq senses /\ q.last \in Nat /\ \A m \in q.old : m <= q.last
  /\ q.at = "remap" =>
       /\ q.old \subseteq senses /\ DOMAIN q.rows \subseteq Orders \ senses
       /\ \A m \in DOMAIN q.rows : q.rows[m] \in Meaning /\ q.rows[m].by = "retranslate"
       /\ \A m \in q.old : q.match[m] \in (senses \cup DOMAIN q.rows) \ q.old
       /\ DOMAIN q.cards \subseteq DOMAIN ownCards
       /\ \A c \in DOMAIN q.cards :
            c[2] \in q.old /\ q.cards[c] \in Nat /\ q.cards[c] <= ownCards[c].reviews

Replaces(q) == q.at \in {"replace", "remap"}

OneReplaces(tasks) ==
  \A r, s \in CatalogueJobs : Replaces(tasks[r]) /\ Replaces(tasks[s]) => r = s

CatalogueInv ==
  /\ CatalogueTypeOK /\ NoSenseTwice /\ OneReplaces(task)
  /\ \A r \in CatalogueJobs : TaskFits(task[r], DOMAIN meanings, owned, wordStored)

(* Nothing is taken from a waiting remap. *)
CatalogueGrows ==
  /\ DOMAIN meanings \subseteq DOMAIN meanings' /\ (wordStored => wordStored')
  /\ DOMAIN meanings' = DOMAIN meanings \/ ~InRemap
  /\ DOMAIN owned \subseteq DOMAIN owned'
  /\ \A c \in DOMAIN owned : owned'[c] \in OwnedCard /\ owned[c].reviews <= owned'[c].reviews

LEMMA WaitingTaskFits ==
  ASSUME CatalogueTypeOK, CatalogueGrows, NEW r \in CatalogueJobs,
         TaskFits(task[r], DOMAIN meanings, owned, wordStored)
  PROVE  TaskFits(task[r], DOMAIN meanings', owned', wordStored')
<1>1. task[r].at = "remap" => DOMAIN meanings' = DOMAIN meanings
  BY DEF CatalogueGrows, InRemap
<1>2. ASSUME task[r].at = "remap", NEW c \in DOMAIN task[r].cards
      PROVE  task[r].cards[c] <= owned'[c].reviews
  <2>1. /\ c \in DOMAIN owned /\ task[r].cards[c] \in Nat /\ task[r].cards[c] <= owned[c].reviews
        /\ owned[c].reviews \in Nat /\ owned'[c].reviews \in Nat /\ owned[c].reviews <= owned'[c].reviews
    BY <1>2 DEF TaskFits, CatalogueTypeOK, CatalogueGrows, OwnedCard
  <2> QED BY <2>1
<1> QED BY <1>1, <1>2 DEF TaskFits, CatalogueGrows

(* A step of one request, when it takes nothing from the others.           *)
LEMMA TaskMoves ==
  ASSUME CatalogueInv, CatalogueGrows, NEW r \in CatalogueJobs, NEW q, Then(r, q),
         q = NoTask \/ q.at \in JobSteps,
         TaskFits(q, DOMAIN meanings', owned', wordStored'),
         Replaces(q) => \A s \in CatalogueJobs \ {r} : ~Replaces(task[s])
  PROVE  /\ DOMAIN task' = CatalogueJobs /\ OneReplaces(task')
         /\ \A s \in CatalogueJobs :
              /\ task'[s] = NoTask \/ task'[s].at \in JobSteps
              /\ TaskFits(task'[s], DOMAIN meanings', owned', wordStored')
<1> USE DEF CatalogueInv
<1>1. /\ DOMAIN task' = CatalogueJobs /\ task'[r] = q
      /\ \A s \in CatalogueJobs \ {r} : task'[s] = task[s]
  BY DEF Then, CatalogueTypeOK
<1>2. \A s \in CatalogueJobs \ {r} : TaskFits(task'[s], DOMAIN meanings', owned', wordStored')
  BY <1>1, WaitingTaskFits
<1>3. OneReplaces(task')
  BY <1>1 DEF OneReplaces
<1>4. \A s \in CatalogueJobs : task'[s] = NoTask \/ task'[s].at \in JobSteps
  BY <1>1 DEF CatalogueTypeOK
<1> QED BY <1>1, <1>2, <1>3, <1>4

LEMMA IdleTaskFits == ASSUME NEW senses, NEW ownCards, NEW stored
                  PROVE  TaskFits(NoTask, senses, ownCards, stored) /\ ~Replaces(NoTask)
  BY DEF TaskFits, NoTask, Replaces

LEMMA LastOrderLast ==
  ASSUME CatalogueTypeOK
  PROVE  LastOrder \in 0 .. MaxOrder /\ \A m \in DOMAIN meanings : m <= LastOrder
<1> DEFINE Last(n) == n \in DOMAIN meanings \cup {0} /\ \A m \in DOMAIN meanings : m <= n
<1>1. \E n \in 0 .. MaxOrder : Last(n)
  <2> DEFINE S == DOMAIN meanings \cup {0}
             f == [n \in S |-> n]
  <2>1. S \subseteq 0 .. MaxOrder
    BY CatalogueAssumption DEF CatalogueTypeOK, Orders
  <2>2. IsFiniteSet(S) /\ S # {} /\ f \in [S -> Nat]
    <3>1. IsFiniteSet(0 .. MaxOrder)
      BY CatalogueAssumption, FS_Interval
    <3>2. IsFiniteSet(S)
      BY <2>1, <3>1, FS_Subset
    <3>3. S # {} /\ \A n \in S : n \in Nat
      BY <2>1
    <3> HIDE DEF S
    <3> QED BY <3>2, <3>3
  <2>3. PICK x \in S : \A y \in S : f[y] <= f[x]
    <3> HIDE DEF S, f
    <3> QED BY <2>2, GreatestOf
  <2> QED BY <2>1, <2>3
<1>2. LastOrder = CHOOSE n \in 0 .. MaxOrder : Last(n)
  BY DEF LastOrder
<1> QED BY <1>1, <1>2

(* The rows of an append get new numbers, and a gloss each.                *)
LEMMA NewRowsFit ==
  ASSUME CatalogueTypeOK, NEW kept \in SUBSET Glosses, RoomFor(kept), NEW by \in Makers,
         NEW new \in NewRows(kept, by)
  PROVE  /\ DOMAIN new \subseteq Orders \ DOMAIN meanings
         /\ \A m \in DOMAIN new : new[m] \in Meaning /\ new[m].by = by /\ new[m].gloss \in kept
         /\ \A m, n \in DOMAIN new : new[m].gloss = new[n].gloss => m = n
         /\ kept = {} => DOMAIN new = {}
<1> DEFINE n == Cardinality(kept)
           batch == LastOrder + 1 .. LastOrder + n
<1>1. IsFiniteSet(kept) /\ n \in Nat
  BY CatalogueAssumption, FS_Subset, FS_CardinalityType
<1>2. LastOrder \in Nat /\ MaxOrder \in Nat /\ \A m \in DOMAIN meanings : m \in Nat /\ m <= LastOrder
  BY LastOrderLast, CatalogueAssumption DEF CatalogueTypeOK, Orders
<1>3. batch \subseteq Orders \ DOMAIN meanings
  BY <1>1, <1>2 DEF RoomFor, Orders
<1>4. IsFiniteSet(batch) /\ Cardinality(batch) = n
  <2>1. /\ LastOrder + 1 \in Int /\ LastOrder + n \in Int
        /\ (LastOrder + 1 > LastOrder + n <=> n = 0) /\ (LastOrder + n) - (LastOrder + 1) + 1 = n
    BY <1>1, <1>2
  <2> QED BY <2>1, FS_Interval
<1>5. PICK f \in [batch -> kept] : {f[m] : m \in batch} = kept /\ new = [m \in batch |-> [gloss |-> f[m], by |-> by]]
  BY DEF NewRows
<1>6. f \in Injection(batch, kept)
  <2>1. f \in Surjection(batch, kept)
    BY <1>5 DEF Surjection
  <2> HIDE DEF batch
  <2> QED BY <1>4, <2>1, FS_SurjSameCardinalityImpliesInj
<1>7. kept = {} => batch = {}
  BY <1>1, <1>2, FS_EmptySet
<1> HIDE DEF batch, n
<1>8. DOMAIN new = batch /\ \A m \in batch : new[m] = [gloss |-> f[m], by |-> by] /\ f[m] \in kept
  BY <1>5
<1>9. \A l, m \in batch : f[l] = f[m] => l = m
  BY <1>6 DEF Injection, IsInjective
<1>10. \A m \in batch : new[m] \in Meaning
  BY <1>8 DEF Meaning
<1> QED BY <1>3, <1>7, <1>8, <1>9, <1>10

(* Rows with new numbers; a gloss that a lookup found is new as well.      *)
SensesFit(new) ==
  /\ DOMAIN new \subseteq Orders \ DOMAIN meanings
  /\ \A m \in DOMAIN new :
       new[m] \in Meaning /\ (new[m].by = "lookup" => new[m].gloss \notin GlossesOf(meanings))
  /\ \A m, n \in DOMAIN new : new[m].gloss = new[n].gloss => m = n

LEMMA RowsAdded ==
  ASSUME CatalogueInv, NEW new, SensesFit(new),
         meanings' = WithRows(new)
  PROVE  /\ DOMAIN meanings' = DOMAIN meanings \cup DOMAIN new /\ DOMAIN meanings' \subseteq Orders
         /\ \A m \in DOMAIN meanings' : meanings'[m] \in Meaning
         /\ NoSenseTwice'
<1> USE DEF CatalogueInv, CatalogueTypeOK, SensesFit
<1>1. /\ DOMAIN meanings' = DOMAIN meanings \cup DOMAIN new
      /\ \A m \in DOMAIN meanings : meanings'[m] = meanings[m]
      /\ \A m \in DOMAIN new : meanings'[m] = new[m]
  BY DEF WithRows
<1>2. \A m \in DOMAIN meanings : meanings[m].gloss \in GlossesOf(meanings)
  BY DEF GlossesOf
<1>3. NoSenseTwice'
  <2> SUFFICES ASSUME NEW m \in DOMAIN meanings', NEW n \in DOMAIN meanings',
                      meanings'[m].by = "lookup", meanings'[n].by = "lookup",
                      meanings'[m].gloss = meanings'[n].gloss
               PROVE  m = n
    BY DEF NoSenseTwice
  <2>1. CASE m \in DOMAIN meanings /\ n \in DOMAIN meanings
    BY <1>1, <2>1 DEF NoSenseTwice
  <2>2. CASE m \in DOMAIN new /\ n \in DOMAIN new
    BY <1>1, <2>2
  <2>3. CASE m \in DOMAIN meanings /\ n \in DOMAIN new
    BY <1>1, <1>2, <2>3
  <2>4. CASE m \in DOMAIN new /\ n \in DOMAIN meanings
    BY <1>1, <1>2, <2>4
  <2> QED BY <1>1, <2>1, <2>2, <2>3, <2>4
<1> QED BY <1>1, <1>3

RowsFit ==
  /\ wordStored \in BOOLEAN
  /\ DOMAIN meanings \subseteq Orders /\ \A m \in DOMAIN meanings : meanings[m] \in Meaning
  /\ DOMAIN meanings # {} => wordStored
  /\ translated \subseteq DOMAIN meanings
  /\ DOMAIN owned \subseteq Learners \X DOMAIN meanings /\ \A c \in DOMAIN owned : owned[c] \in OwnedCard
  /\ jobsBegun \in 0 .. MaxJobs
  /\ NoSenseTwice

(* A learner keeps, for each card a remap read, one reviewed as often.      *)
CarriedOver ==
  \A r \in CatalogueJobs :
    task[r].at = "remap" /\ meanings' # meanings =>
      \A c \in DOMAIN task[r].cards :
        \E kept \in DOMAIN owned' :
          kept[1] = c[1] /\ owned'[kept].reviews >= task[r].cards[c]

LEMMA GrowthCarries == ASSUME CatalogueInv, CatalogueGrows PROVE CarriedOver
<1> SUFFICES ASSUME NEW r \in CatalogueJobs, task[r].at = "remap", NEW c \in DOMAIN task[r].cards
             PROVE  c \in DOMAIN owned' /\ owned'[c].reviews >= task[r].cards[c]
  BY DEF CarriedOver
<1>1. /\ c \in DOMAIN owned /\ task[r].cards[c] \in Nat /\ task[r].cards[c] <= owned[c].reviews
      /\ owned[c].reviews \in Nat /\ owned'[c].reviews \in Nat /\ owned[c].reviews <= owned'[c].reviews
  BY DEF CatalogueInv, TaskFits, CatalogueTypeOK, CatalogueGrows, OwnedCard
<1> QED BY <1>1 DEF CatalogueGrows

LEMMA TaskSteps ==
  ASSUME CatalogueInv, CatalogueGrows, RowsFit', NEW r \in CatalogueJobs, NEW q, Then(r, q),
         q = NoTask \/ q.at \in JobSteps,
         TaskFits(q, DOMAIN meanings', owned', wordStored'),
         Replaces(q) => \A s \in CatalogueJobs \ {r} : ~Replaces(task[s])
  PROVE  CatalogueInv' /\ CarriedOver
  BY TaskMoves, GrowthCarries DEF RowsFit, CatalogueInv, CatalogueTypeOK

LEMMA QuietTaskSteps ==
  ASSUME CatalogueInv, UNCHANGED <<wordStored, meanings, owned>>,
         translated' \subseteq DOMAIN meanings, jobsBegun' \in 0 .. MaxJobs,
         NEW r \in CatalogueJobs, NEW q, Then(r, q),
         q = NoTask \/ q.at \in JobSteps,
         TaskFits(q, DOMAIN meanings, owned, wordStored),
         Replaces(q) => \A s \in CatalogueJobs \ {r} : ~Replaces(task[s])
  PROVE  CatalogueInv' /\ CarriedOver
<1>1. \A c \in DOMAIN owned : owned[c].reviews <= owned[c].reviews
  BY DEF CatalogueInv, CatalogueTypeOK, OwnedCard
<1>2. CatalogueGrows
  BY <1>1 DEF CatalogueGrows, CatalogueInv, CatalogueTypeOK
<1>3. RowsFit'
  BY DEF RowsFit, CatalogueInv, CatalogueTypeOK, NoSenseTwice
<1>4. TaskFits(q, DOMAIN meanings', owned', wordStored')
  OBVIOUS
<1> QED BY <1>2, <1>3, <1>4, TaskSteps

LEMMA BeginCounts == ASSUME CatalogueTypeOK, BeginJob PROVE jobsBegun' \in 0 .. MaxJobs
  BY CatalogueAssumption DEF CatalogueTypeOK, BeginJob

(* Requests that only read, ask the enricher, or give up. *)
LEMMA ReadingSteps ==
  ASSUME CatalogueInv, NEW r \in CatalogueJobs,
         \/ Lookup(r) \/ CacheTranslations(r) \/ Enrich(r) \/ ForceGenerate(r) \/ LosesNumber(r)
         \/ \E l \in Learners, back \in Glosses : PreviewAnkiImport(r, l, back)
  PROVE  CatalogueInv' /\ CarriedOver
<1> USE DEF JobSteps, TaskFits, Replaces
<1>1. UNCHANGED <<wordStored, meanings, owned>> /\ translated' \subseteq DOMAIN meanings
      /\ jobsBegun' \in 0 .. MaxJobs
  BY BeginCounts DEF Lookup, CacheTranslations, Enrich, ForceGenerate, LosesNumber, PreviewAnkiImport,
                     Starts, CatalogueInv, CatalogueTypeOK
<1>2. ASSUME Finishes(r) PROVE CatalogueInv' /\ CarriedOver
  BY <1>1, <1>2, IdleTaskFits, QuietTaskSteps DEF Finishes
<1>3. ASSUME NEW q, Then(r, q), q.at \in JobSteps, TaskFits(q, DOMAIN meanings, owned, wordStored), ~Replaces(q)
      PROVE  CatalogueInv' /\ CarriedOver
  BY <1>1, <1>3, QuietTaskSteps
<1>4. CASE Lookup(r)
  <2>1. CASE Then(r, [at |-> "translate", missing |-> DOMAIN meanings \ translated])
    BY <1>3, <2>1
  <2>2. CASE Then(r, [at |-> "enrich"])
    BY <1>3, <2>2
  <2> QED BY <1>4, <2>1, <2>2 DEF Lookup
<1>5. CASE Enrich(r)
  <2>1. ASSUME NEW found \in SUBSET Glosses, Then(r, [at |-> "persist", found |-> found])
        PROVE  CatalogueInv' /\ CarriedOver
    BY <1>3, <2>1
  <2> QED BY <1>2, <1>5, <2>1 DEF Enrich
<1>6. CASE ForceGenerate(r)
  <2>1. ASSUME NEW found \in SUBSET Glosses, Then(r, [at |-> "persist", found |-> found])
        PROVE  CatalogueInv' /\ CarriedOver
    BY <1>3, <2>1
  <2>2. ASSUME NEW found \in SUBSET Glosses, wordStored, Then(r, [at |-> "append", found |-> found])
        PROVE  CatalogueInv' /\ CarriedOver
    BY <1>3, <2>2
  <2> QED BY <1>6, <2>1, <2>2 DEF ForceGenerate
<1>7. ASSUME NEW l \in Learners, NEW back \in Glosses, PreviewAnkiImport(r, l, back)
      PROVE  CatalogueInv' /\ CarriedOver
  <2> DEFINE q == [at |-> "import", learner |-> l, back |-> back, options |-> meanings]
  <2>1. Then(r, q)
    BY <1>7 DEF PreviewAnkiImport
  <2>2. TaskFits(q, DOMAIN meanings, owned, wordStored) /\ q.at = "import"
    BY DEF CatalogueInv, CatalogueTypeOK
  <2> HIDE DEF q
  <2> QED BY <1>3, <2>1, <2>2
<1> QED BY <1>2, <1>4, <1>5, <1>6, <1>7 DEF CacheTranslations, LosesNumber

LEMMA RowsKept == ASSUME CatalogueInv PROVE RowsFit /\ \A c \in DOMAIN owned : owned[c].reviews <= owned[c].reviews
  BY DEF RowsFit, CatalogueInv, CatalogueTypeOK, OwnedCard

LEMMA AppendGrows ==
  ASSUME CatalogueInv, ~InRemap, UNCHANGED <<owned, jobsBegun>>,
         NEW new, SensesFit(new), meanings' = WithRows(new),
         translated' \in {translated, translated \cup DOMAIN new},
         wordStored' \in BOOLEAN, wordStored => wordStored', DOMAIN new # {} => wordStored'
  PROVE  RowsFit' /\ CatalogueGrows
<1>1. /\ DOMAIN meanings' = DOMAIN meanings \cup DOMAIN new /\ DOMAIN meanings' \subseteq Orders
      /\ \A m \in DOMAIN meanings' : meanings'[m] \in Meaning
      /\ NoSenseTwice'
  BY RowsAdded
<1>2. RowsFit'
  BY <1>1, RowsKept DEF RowsFit
<1>3. CatalogueGrows
  BY <1>1, RowsKept DEF CatalogueGrows, RowsFit
<1> QED BY <1>2, <1>3

LEMMA TaskEnds ==
  ASSUME CatalogueInv, RowsFit', CatalogueGrows, NEW r \in CatalogueJobs, Finishes(r)
  PROVE  CatalogueInv' /\ CarriedOver
  BY IdleTaskFits, TaskSteps DEF Finishes

LEMMA PersistSteps ==
  ASSUME CatalogueInv, NEW r \in CatalogueJobs, PersistEntries(r) \/ AppendForced(r)
  PROVE  CatalogueInv' /\ CarriedOver
<1>1. CASE PersistEntries(r)
  <2> DEFINE kept == ProperGlosses(task[r].found)
  <2>1. kept \in SUBSET Glosses /\ kept \cap GlossesOf(meanings) = {} /\ RoomFor(kept) /\ CatalogueTypeOK
    BY <1>1 DEF PersistEntries, ProperGlosses, CatalogueInv, TaskFits
  <2>2. PICK new \in NewRows(kept, "lookup") : meanings' = WithRows(new) /\ translated' = translated \cup DOMAIN new
    BY <1>1 DEF PersistEntries
  <2>3. /\ ~InRemap /\ Finishes(r) /\ wordStored' = (wordStored \/ kept # {})
        /\ UNCHANGED <<owned, jobsBegun>>
    BY <1>1 DEF PersistEntries
  <2> HIDE DEF kept
  <2>4. /\ DOMAIN new \subseteq Orders \ DOMAIN meanings
        /\ \A m \in DOMAIN new : new[m] \in Meaning /\ new[m].gloss \in kept
        /\ \A m, n \in DOMAIN new : new[m].gloss = new[n].gloss => m = n
        /\ kept = {} => DOMAIN new = {}
    BY <2>1, NewRowsFit DEF Makers
  <2>5. wordStored \in BOOLEAN
    BY DEF CatalogueInv, CatalogueTypeOK
  <2>6. SensesFit(new)
    BY <2>1, <2>4 DEF SensesFit
  <2>7. /\ wordStored' \in BOOLEAN /\ (wordStored => wordStored') /\ (DOMAIN new # {} => wordStored')
        /\ translated' \in {translated, translated \cup DOMAIN new} /\ meanings' = WithRows(new)
        /\ ~InRemap /\ UNCHANGED <<owned, jobsBegun>>
    BY <2>1, <2>2, <2>3, <2>4, <2>5
  <2>8. RowsFit' /\ CatalogueGrows
    BY <2>6, <2>7, AppendGrows
  <2> QED BY <2>3, <2>8, TaskEnds
<1>2. CASE AppendForced(r)
  <2> DEFINE kept == task[r].found
  <2>1. kept \in SUBSET Glosses /\ RoomFor(kept) /\ CatalogueTypeOK /\ wordStored
    BY <1>2 DEF AppendForced, CatalogueInv, TaskFits
  <2>2. PICK new \in NewRows(kept, "force") : meanings' = WithRows(new) /\ translated' = translated \cup DOMAIN new
    BY <1>2 DEF AppendForced
  <2>3. ~InRemap /\ Finishes(r) /\ UNCHANGED <<wordStored, owned, jobsBegun>>
    BY <1>2 DEF AppendForced
  <2> HIDE DEF kept
  <2>4. /\ DOMAIN new \subseteq Orders \ DOMAIN meanings
        /\ \A m \in DOMAIN new : new[m] \in Meaning /\ new[m].by = "force"
        /\ \A m, n \in DOMAIN new : new[m].gloss = new[n].gloss => m = n
    BY <2>1, NewRowsFit DEF Makers
  <2>5. wordStored \in BOOLEAN
    BY DEF CatalogueInv, CatalogueTypeOK
  <2>6. SensesFit(new)
    BY <2>1, <2>4 DEF SensesFit
  <2>7. /\ wordStored' \in BOOLEAN /\ (wordStored => wordStored') /\ (DOMAIN new # {} => wordStored')
        /\ translated' \in {translated, translated \cup DOMAIN new} /\ meanings' = WithRows(new)
        /\ ~InRemap /\ UNCHANGED <<owned, jobsBegun>>
    BY <2>1, <2>2, <2>3, <2>4, <2>5
  <2>8. RowsFit' /\ CatalogueGrows
    BY <2>6, <2>7, AppendGrows
  <2> QED BY <2>3, <2>8, TaskEnds
<1> QED BY <1>1, <1>2

LEMMA ImportSteps ==
  ASSUME CatalogueInv, NEW r \in CatalogueJobs, ImportCard(r)
  PROVE  CatalogueInv' /\ CarriedOver
<1> DEFINE q == task[r]
<1>1. q.at = "import" /\ q.back \in Glosses /\ q.learner \in Learners /\ UNCHANGED <<translated, owned, jobsBegun>>
  BY DEF ImportCard, CatalogueInv, TaskFits
<1>2. RowsFit /\ \A c \in DOMAIN owned : owned[c].reviews <= owned[c].reviews
  BY RowsKept
<1>3. ASSUME UNCHANGED meanings, wordStored' \in BOOLEAN, wordStored => wordStored', NEW s, Then(r, s),
             s = NoTask \/ s.at \in JobSteps, TaskFits(s, DOMAIN meanings, owned, wordStored'), ~Replaces(s)
      PROVE  CatalogueInv' /\ CarriedOver
  <2>1. CatalogueGrows /\ RowsFit'
    BY <1>1, <1>2, <1>3 DEF CatalogueGrows, RowsFit, NoSenseTwice
  <2>2. TaskFits(s, DOMAIN meanings', owned', wordStored')
    BY <1>1, <1>3
  <2> QED BY <1>3, <2>1, <2>2, TaskSteps
<1>4. ASSUME Finishes(r), UNCHANGED <<wordStored, meanings>> PROVE CatalogueInv' /\ CarriedOver
  BY <1>2, <1>3, <1>4, IdleTaskFits DEF Finishes, RowsFit
<1>5. ASSUME NEW m, Then(r, [at |-> "own", learner |-> q.learner, meaning |-> m]), UNCHANGED <<wordStored, meanings>>
      PROVE  CatalogueInv' /\ CarriedOver
  BY <1>1, <1>2, <1>3, <1>5 DEF RowsFit, TaskFits, Replaces, JobSteps
<1>6. ASSUME NEW m, Then(r, [at |-> "own", learner |-> q.learner, meaning |-> m]), UNCHANGED wordStored,
             meanings' = IF m \notin DOMAIN meanings THEN meanings
                         ELSE [meanings EXCEPT ![m] = [gloss |-> q.back, by |-> "import"]]
      PROVE  CatalogueInv' /\ CarriedOver
  <2> DEFINE row == [gloss |-> q.back, by |-> "import"]
             s == [at |-> "own", learner |-> q.learner, meaning |-> m]
  <2>1. row \in Meaning /\ row.by = "import"
    BY <1>1 DEF Meaning, Makers
  <2>2. /\ TaskFits(s, DOMAIN meanings', owned', wordStored') /\ ~Replaces(s) /\ s.at \in JobSteps
        /\ Then(r, s)
    BY <1>1, <1>6 DEF TaskFits, Replaces, JobSteps
  <2>3. meanings' = IF m \notin DOMAIN meanings THEN meanings ELSE [meanings EXCEPT ![m] = row]
    BY <1>6
  <2> HIDE DEF row, s
  <2>4. /\ DOMAIN meanings' = DOMAIN meanings
        /\ \A n \in DOMAIN meanings : meanings'[n] = meanings[n] \/ meanings'[n] = row
    BY <2>3
  <2>5. NoSenseTwice'
    BY <1>2, <2>1, <2>4 DEF NoSenseTwice, RowsFit
  <2>6. RowsFit' /\ CatalogueGrows
    BY <1>1, <1>2, <1>6, <2>1, <2>4, <2>5 DEF RowsFit, CatalogueGrows
  <2> QED BY <2>2, <2>6, TaskSteps
<1>7. ASSUME wordStored' = TRUE, UNCHANGED meanings,
             Then(r, [at |-> "number", learner |-> q.learner, back |-> q.back, order |-> LastOrder + 1])
      PROVE  CatalogueInv' /\ CarriedOver
  <2> DEFINE s == [at |-> "number", learner |-> q.learner, back |-> q.back, order |-> LastOrder + 1]
  <2>1. LastOrder + 1 \in Nat \ {0}
    BY LastOrderLast, CatalogueAssumption DEF CatalogueInv
  <2>2. TaskFits(s, DOMAIN meanings, owned, wordStored') /\ ~Replaces(s) /\ s.at \in JobSteps
    BY <1>1, <1>7, <2>1 DEF TaskFits, Replaces, JobSteps
  <2> HIDE DEF s
  <2>3. Then(r, s)
    BY <1>7 DEF s
  <2> QED BY <1>3, <1>7, <2>2, <2>3
<1> QED BY <1>4, <1>5, <1>6, <1>7 DEF ImportCard

LEMMA InsertSteps ==
  ASSUME CatalogueInv, NEW r \in CatalogueJobs, InsertImported(r)
  PROVE  CatalogueInv' /\ CarriedOver
<1> DEFINE q == task[r]
<1>1. /\ q.at = "number" /\ q.back \in Glosses /\ q.learner \in Learners /\ q.order \in Nat \ {0}
      /\ wordStored /\ ~InRemap /\ q.order <= MaxOrder /\ UNCHANGED <<wordStored, translated, owned, jobsBegun>>
  BY DEF InsertImported, CatalogueInv, TaskFits
<1>2. wordStored \in BOOLEAN
  BY DEF CatalogueInv, CatalogueTypeOK
<1>3. CASE q.order \in DOMAIN meanings
  <2>1. Finishes(r) /\ UNCHANGED meanings
    BY <1>3 DEF InsertImported
  <2>2. RowsFit' /\ CatalogueGrows
    BY <1>1, <2>1, RowsKept DEF RowsFit, CatalogueGrows, NoSenseTwice
  <2> QED BY <2>1, <2>2, TaskEnds
<1>4. CASE q.order \notin DOMAIN meanings
  <2> DEFINE new == [m \in {q.order} |-> [gloss |-> q.back, by |-> "import"]]
             s == [at |-> "own", learner |-> q.learner, meaning |-> q.order]
  <2>1. meanings' = WithRows(new) /\ Then(r, s)
    BY <1>4 DEF InsertImported
  <2>2. SensesFit(new)
    <3>1. q.order \in Orders \ DOMAIN meanings
      BY <1>1, <1>4, CatalogueAssumption DEF Orders
    <3>2. [gloss |-> q.back, by |-> "import"] \in Meaning
      BY <1>1 DEF Meaning, Makers
    <3> QED BY <3>1, <3>2 DEF SensesFit
  <2>3. /\ s.at \in JobSteps /\ TaskFits(s, DOMAIN meanings', owned', wordStored') /\ ~Replaces(s)
    BY <1>1 DEF TaskFits, Replaces, JobSteps
  <2> HIDE DEF new, s
  <2>4. RowsFit' /\ CatalogueGrows
    BY <1>1, <1>2, <2>1, <2>2, AppendGrows
  <2> QED BY <2>1, <2>3, <2>4, TaskSteps
<1> QED BY <1>3, <1>4

LEMMA OwnedGrows ==
  ASSUME CatalogueInv, NEW l \in Learners, NEW m \in DOMAIN meanings, owned' = OwnedWith(l, m)
  PROVE  /\ DOMAIN owned \subseteq DOMAIN owned' /\ DOMAIN owned' \subseteq Learners \X DOMAIN meanings
         /\ \A c \in DOMAIN owned' : owned'[c] \in OwnedCard
         /\ \A c \in DOMAIN owned : owned[c].reviews <= owned'[c].reviews
<1>1. DOMAIN owned' = DOMAIN owned \cup {<<l, m>>}
  BY DEF OwnedWith
<1>2. \A c \in DOMAIN owned \ {<<l, m>>} : owned'[c] = owned[c]
  BY DEF OwnedWith
<1>3. /\ <<l, m>> \in DOMAIN owned => owned'[<<l, m>>] = [owned[<<l, m>>] EXCEPT !.archived = FALSE]
      /\ <<l, m>> \notin DOMAIN owned => owned'[<<l, m>>] = [reviews |-> 0, archived |-> FALSE]
  BY DEF OwnedWith
<1>4. /\ \A c \in DOMAIN owned : owned[c] \in OwnedCard
      /\ DOMAIN owned \subseteq Learners \X DOMAIN meanings
  BY DEF CatalogueInv, CatalogueTypeOK
<1>5. owned'[<<l, m>>] \in OwnedCard
  <2>1. \A row \in OwnedCard : [row EXCEPT !.archived = FALSE] \in OwnedCard
    BY DEF OwnedCard
  <2>2. [reviews |-> 0, archived |-> FALSE] \in OwnedCard
    BY DEF OwnedCard
  <2> QED BY <1>3, <1>4, <2>1, <2>2
<1>6. <<l, m>> \in DOMAIN owned => owned'[<<l, m>>].reviews = owned[<<l, m>>].reviews
  BY <1>3, <1>4 DEF OwnedCard
<1>7. \A c \in DOMAIN owned : owned[c].reviews <= owned[c].reviews
  BY RowsKept
<1>8. \A c \in DOMAIN owned : owned[c].reviews <= owned'[c].reviews
  <2> SUFFICES ASSUME NEW c \in DOMAIN owned PROVE owned[c].reviews <= owned'[c].reviews
    OBVIOUS
  <2> QED BY <1>2, <1>6, <1>7
<1> QED BY <1>1, <1>2, <1>4, <1>5, <1>8

LEMMA OwnSteps ==
  ASSUME CatalogueInv, NEW r \in CatalogueJobs, OwnImported(r)
  PROVE  CatalogueInv' /\ CarriedOver
<1> DEFINE q == task[r]
<1>1. q.learner \in Learners /\ Finishes(r) /\ UNCHANGED <<wordStored, meanings, translated, jobsBegun>>
  BY DEF OwnImported, CatalogueInv, TaskFits
<1>2. CASE q.meaning \in DOMAIN meanings
  <2>1. owned' = OwnedWith(q.learner, q.meaning)
    BY <1>2 DEF OwnImported
  <2>2. RowsFit' /\ CatalogueGrows
    BY <1>1, <1>2, <2>1, RowsKept, OwnedGrows DEF RowsFit, CatalogueGrows, NoSenseTwice
  <2> QED BY <1>1, <2>2, TaskEnds
<1>3. CASE q.meaning \notin DOMAIN meanings
  <2>1. owned' = owned
    BY <1>3 DEF OwnImported
  <2>2. RowsFit' /\ CatalogueGrows
    BY <1>1, <2>1, RowsKept DEF RowsFit, CatalogueGrows, NoSenseTwice
  <2> QED BY <1>1, <2>2, TaskEnds
<1> QED BY <1>2, <1>3

(* A learner's statement. *)
LEMMA LearnerSteps ==
  ASSUME CatalogueInv, NEW l \in Learners, NEW m \in Orders,
         AddOwned(l, m) \/ ReviewOwned(<<l, m>>) \/ ArchiveOwned(<<l, m>>)
  PROVE  CatalogueInv' /\ CarriedOver
<1> DEFINE c == <<l, m>>
<1>1. jobsBegun' \in 0 .. MaxJobs /\ UNCHANGED <<wordStored, meanings, translated, task>>
  BY BeginCounts DEF CatalogueInv, AddOwned, ReviewOwned, ArchiveOwned
<1>2. RowsFit /\ \A d \in DOMAIN owned : owned[d].reviews <= owned[d].reviews
  BY RowsKept
<1>3. /\ DOMAIN owned \subseteq DOMAIN owned' /\ DOMAIN owned' \subseteq Learners \X DOMAIN meanings
      /\ \A d \in DOMAIN owned' : owned'[d] \in OwnedCard
      /\ \A d \in DOMAIN owned : owned[d].reviews <= owned'[d].reviews
  <2>1. CASE AddOwned(l, m)
    BY <2>1, OwnedGrows DEF AddOwned
  <2>2. CASE ReviewOwned(c) \/ ArchiveOwned(c)
    <3>1. c \in DOMAIN owned /\ owned[c] \in OwnedCard /\ owned[c].reviews \in Nat
      BY <1>2, <2>2 DEF ReviewOwned, ArchiveOwned, RowsFit, OwnedCard
    <3>2. PICK row \in OwnedCard : owned' = [owned EXCEPT ![c] = row] /\ owned[c].reviews <= row.reviews
      <4>1. CASE ReviewOwned(c)
        <5> DEFINE row == [owned[c] EXCEPT !.reviews = @ + 1]
        <5>1. row \in OwnedCard /\ row.reviews = owned[c].reviews + 1
          BY <3>1 DEF OwnedCard
        <5>2. owned' = [owned EXCEPT ![c] = row]
          BY <4>1 DEF ReviewOwned
        <5>3. owned[c].reviews <= row.reviews
          BY <3>1, <5>1
        <5> QED BY <5>1, <5>2, <5>3
      <4>2. CASE ArchiveOwned(c)
        <5> DEFINE row == [owned[c] EXCEPT !.archived = TRUE]
        <5>1. row \in OwnedCard /\ row.reviews = owned[c].reviews
          BY <3>1 DEF OwnedCard
        <5>2. owned' = [owned EXCEPT ![c] = row]
          BY <4>2 DEF ArchiveOwned
        <5> QED BY <1>2, <3>1, <5>1, <5>2
      <4> QED BY <2>2, <4>1, <4>2
    <3>3. /\ DOMAIN owned' = DOMAIN owned /\ owned'[c] = row
          /\ \A d \in DOMAIN owned \ {c} : owned'[d] = owned[d]
      BY <3>1, <3>2
    <3> HIDE DEF c
    <3> QED BY <1>2, <3>1, <3>2, <3>3 DEF RowsFit
  <2> QED BY <2>1, <2>2
<1>4. RowsFit' /\ CatalogueGrows
  BY <1>1, <1>2, <1>3 DEF RowsFit, CatalogueGrows, NoSenseTwice
<1>5. \A r \in CatalogueJobs : TaskFits(task[r], DOMAIN meanings', owned', wordStored')
  BY <1>4, WaitingTaskFits DEF CatalogueInv
<1>6. CatalogueInv'
  BY <1>1, <1>4, <1>5 DEF RowsFit, CatalogueInv, CatalogueTypeOK, OneReplaces
<1> QED BY <1>4, <1>6, GrowthCarries

LEMMA RetranslateSteps ==
  ASSUME CatalogueInv, NEW r \in CatalogueJobs, RetranslateWord(r)
  PROVE  CatalogueInv' /\ CarriedOver
<1> DEFINE q == [at |-> "replace", old |-> DOMAIN meanings, last |-> LastOrder]
<1>1. /\ wordStored /\ \A s \in CatalogueJobs : ~Replaces(task[s])
      /\ UNCHANGED <<wordStored, meanings, translated, owned>> /\ Then(r, q)
  BY DEF RetranslateWord, Replaces
<1>2. translated' \subseteq DOMAIN meanings /\ jobsBegun' \in 0 .. MaxJobs
  BY <1>1, BeginCounts DEF RetranslateWord, Starts, CatalogueInv, CatalogueTypeOK
<1>3. LastOrder \in Nat /\ \A m \in DOMAIN meanings : m <= LastOrder
  BY LastOrderLast, CatalogueAssumption DEF CatalogueInv
<1>4. TaskFits(q, DOMAIN meanings, owned, wordStored) /\ q.at \in JobSteps
  BY <1>1, <1>3 DEF TaskFits, JobSteps
<1> HIDE DEF q
<1> QED BY <1>1, <1>2, <1>4, QuietTaskSteps

LEMMA ReplaceSteps ==
  ASSUME CatalogueInv, NEW r \in CatalogueJobs, AppendRetranslated(r)
  PROVE  CatalogueInv' /\ CarriedOver
<1> DEFINE q == task[r]
<1>1. /\ q.at = "replace" /\ UNCHANGED <<wordStored, meanings, translated, owned, jobsBegun>>
      /\ q.old \subseteq DOMAIN meanings /\ q.last \in Nat /\ (\A m \in q.old : m <= q.last) /\ wordStored
  BY DEF AppendRetranslated, CatalogueInv, TaskFits
<1>2. translated' \subseteq DOMAIN meanings /\ jobsBegun' \in 0 .. MaxJobs
  BY <1>1 DEF CatalogueInv, CatalogueTypeOK
<1>3. \A s \in CatalogueJobs \ {r} : ~Replaces(task[s])
  BY <1>1 DEF CatalogueInv, OneReplaces, Replaces
<1>4. ASSUME Finishes(r) PROVE CatalogueInv' /\ CarriedOver
  BY <1>1, <1>2, <1>4, IdleTaskFits, QuietTaskSteps DEF Finishes
<1>5. ASSUME NEW found \in SUBSET Glosses, RoomFor(found), NEW new \in NewRows(found, "retranslate"),
             NEW match \in [q.old -> {m \in DOMAIN WithRows(new) : m > q.last}],
             Then(r, [at |-> "remap", old |-> q.old, rows |-> new, match |-> match,
                      cards |-> [c \in {o \in DOMAIN owned : o[2] \in q.old} |-> owned[c].reviews]])
      PROVE  CatalogueInv' /\ CarriedOver
  <2> DEFINE ownCards == [c \in {o \in DOMAIN owned : o[2] \in q.old} |-> owned[c].reviews]
             s == [at |-> "remap", old |-> q.old, rows |-> new, match |-> match, cards |-> ownCards]
  <2>1. /\ DOMAIN new \subseteq Orders \ DOMAIN meanings
        /\ \A m \in DOMAIN new : new[m] \in Meaning /\ new[m].by = "retranslate"
    BY <1>5, NewRowsFit DEF Makers, CatalogueInv
  <2>2. \A m \in q.old : match[m] \in (DOMAIN meanings \cup DOMAIN new) \ q.old
    <3> SUFFICES ASSUME NEW m \in q.old PROVE match[m] \in (DOMAIN meanings \cup DOMAIN new) \ q.old
      OBVIOUS
    <3>1. match[m] \in DOMAIN meanings \cup DOMAIN new /\ match[m] > q.last
      BY <1>5 DEF WithRows
    <3>2. \A o \in q.old : o \in Nat /\ o <= q.last
      BY <1>1 DEF CatalogueInv, CatalogueTypeOK, Orders
    <3>3. match[m] \notin q.old
      BY <1>1, <3>1, <3>2
    <3> QED BY <3>1, <3>3
  <2>3. /\ DOMAIN ownCards \subseteq DOMAIN owned
        /\ \A c \in DOMAIN ownCards : c[2] \in q.old /\ ownCards[c] \in Nat /\ ownCards[c] <= owned[c].reviews
    BY DEF CatalogueInv, CatalogueTypeOK, OwnedCard
  <2> HIDE DEF ownCards
  <2>4. TaskFits(s, DOMAIN meanings, owned, wordStored) /\ s.at \in JobSteps
    BY <1>1, <2>1, <2>2, <2>3 DEF TaskFits, JobSteps
  <2>5. Then(r, s)
    BY <1>5 DEF ownCards
  <2> HIDE DEF s
  <2> QED BY <1>1, <1>2, <1>3, <2>4, <2>5, QuietTaskSteps
<1> QED BY <1>4, <1>5 DEF AppendRetranslated

(* The winner of some cards is one of them, and none was reviewed more.    *)
LEMMA WinnerBest ==
  ASSUME NEW pool, IsFiniteSet(pool), pool # {}, NEW count,
         \A c \in pool : count[c] \in Nat /\ c[2] \in Nat
  PROVE  Winner(pool, count) \in pool /\ \A c \in pool : count[c] <= count[Winner(pool, count)]
<1> DEFINE Best(c) == \A o \in pool : count[c] > count[o] \/ (count[c] = count[o] /\ c[2] <= o[2])
<1>1. \E c \in pool : Best(c)
  <2> DEFINE f == [c \in pool |-> count[c]]
  <2>1. f \in [pool -> Nat] /\ \A c \in pool : f[c] = count[c]
    OBVIOUS
  <2> HIDE DEF f
  <2>2. PICK b \in pool : \A c \in pool : f[c] <= f[b]
    BY <2>1, GreatestOf
  <2> DEFINE T == {c[2] : c \in {d \in pool : count[d] = count[b]}}
  <2>3. T \in SUBSET Nat /\ T # {}
    OBVIOUS
  <2>4. PICK k \in T : \A j \in T : k <= j
    <3> HIDE DEF T
    <3> QED BY <2>3, LeastNumber
  <2>5. PICK c \in pool : count[c] = count[b] /\ c[2] = k
    BY <2>4
  <2>6. Best(c)
    <3> SUFFICES ASSUME NEW o \in pool PROVE count[c] > count[o] \/ (count[c] = count[o] /\ c[2] <= o[2])
      OBVIOUS
    <3>1. count[o] <= count[b] /\ count[o] \in Nat /\ count[b] \in Nat
      BY <2>1, <2>2
    <3>2. count[o] = count[b] => k <= o[2]
      BY <2>4
    <3> QED BY <2>5, <3>1, <3>2
  <2> QED BY <2>6
<1>2. Winner(pool, count) \in pool /\ Best(Winner(pool, count))
  <2>1. Winner(pool, count) = CHOOSE c \in pool : Best(c)
    BY DEF Winner
  <2> HIDE DEF Best
  <2> QED BY <1>1, <2>1
<1>3. \A c \in pool : count[c] <= count[Winner(pool, count)]
  <2> DEFINE w == Winner(pool, count)
  <2>1. w \in pool /\ \A c \in pool : count[w] > count[c] \/ count[w] = count[c]
    BY <1>2
  <2> HIDE DEF w
  <2>2. \A c \in pool : count[c] <= count[w]
    BY <2>1
  <2> QED BY <2>2 DEF w
<1> QED BY <1>2, <1>3

LEMMA RemapSteps ==
  ASSUME CatalogueInv, NEW r \in CatalogueJobs, RemapCards(r)
  PROVE  CatalogueInv' /\ CarriedOver
<1> DEFINE q == task[r]
           stay == {c \in DOMAIN owned : c[2] \notin q.old}
           count == RemapCounts(q)
<1>1. q.at = "remap" /\ Finishes(r) /\ UNCHANGED <<wordStored, jobsBegun>>
  BY DEF RemapCards
<1>2. /\ q.old \subseteq DOMAIN meanings /\ DOMAIN q.rows \subseteq Orders \ DOMAIN meanings /\ wordStored
      /\ \A m \in DOMAIN q.rows : q.rows[m] \in Meaning /\ q.rows[m].by = "retranslate"
      /\ \A m \in q.old : q.match[m] \in (DOMAIN meanings \cup DOMAIN q.rows) \ q.old
      /\ DOMAIN q.cards \subseteq DOMAIN owned
      /\ \A c \in DOMAIN q.cards : c[2] \in q.old /\ q.cards[c] \in Nat /\ q.cards[c] <= owned[c].reviews
  BY <1>1 DEF CatalogueInv, TaskFits
<1>3. \A s \in CatalogueJobs \ {r} : ~Replaces(task[s])
  BY <1>1 DEF CatalogueInv, OneReplaces, Replaces
<1>4. RowsFit /\ \A c \in DOMAIN owned : owned[c].reviews \in Nat /\ owned[c].reviews <= owned[c].reviews
  BY RowsKept DEF RowsFit, OwnedCard
<1>5. \A c \in DOMAIN owned : count[c] \in Nat /\ count[c] <= owned[c].reviews
  BY <1>2, <1>4 DEF RemapCounts
<1>6. ASSUME NEW c \in DOMAIN q.cards
      PROVE  LET w == RemapWinner(q, RemapTarget(q, c)) IN
             w \in DOMAIN owned /\ q.cards[c] <= owned[w].reviews
  <2> DEFINE g == RemapTarget(q, c)
             pool == RemapPool(q, g)
             w == Winner(pool, count)
  <2>1. c \in pool /\ pool \subseteq DOMAIN owned /\ DOMAIN owned \subseteq Learners \X Orders
    BY <1>2, <1>4, <1>6 DEF RemapPool, RowsFit
  <2>2. pool \subseteq {g[1]} \X Orders
    <3>1. \A d \in pool : d[1] = g[1]
      BY DEF RemapPool, RemapTarget
    <3> HIDE DEF pool, g
    <3> QED BY <2>1, <3>1
  <2>3. IsFiniteSet(pool)
    <3>1. IsFiniteSet({g[1]})
      BY FS_Singleton
    <3>2. 1 \in Int /\ MaxOrder \in Int
      BY CatalogueAssumption
    <3>3. IsFiniteSet(Orders)
      BY <3>2, FS_Interval DEF Orders
    <3>4. IsFiniteSet({g[1]} \X Orders)
      <4> HIDE DEF pool, g
      <4> QED BY <3>1, <3>3, FS_Product
    <3> HIDE DEF pool, g
    <3> QED BY <2>2, <3>4, FS_Subset
  <2>4. \A d \in pool : count[d] \in Nat /\ d[2] \in Nat
    <3> HIDE DEF pool, count
    <3> QED BY <1>5, <2>1 DEF Orders
  <2>5. w \in pool /\ \A d \in pool : count[d] <= count[w]
    <3> HIDE DEF pool, count
    <3> QED BY <2>1, <2>3, <2>4, WinnerBest
  <2>6. count[c] = q.cards[c]
    BY <1>2, <1>6 DEF RemapCounts
  <2>7. w \in DOMAIN owned /\ count[w] \in Nat /\ owned[w].reviews \in Nat /\ count[w] <= owned[w].reviews
        /\ count[c] <= count[w] /\ count[c] \in Nat
    <3> HIDE DEF pool, count
    <3> QED BY <1>4, <1>5, <2>1, <2>4, <2>5
  <2>8. w = RemapWinner(q, g)
    BY DEF RemapWinner
  <2> HIDE DEF w, count, pool, g
  <2>9. q.cards[c] <= owned[w].reviews
    BY <2>6, <2>7
  <2> QED BY <2>7, <2>8, <2>9 DEF g
<1>7. CASE UNCHANGED <<meanings, translated, owned>>
  <2>1. RowsFit' /\ CatalogueGrows
    BY <1>1, <1>4, <1>7 DEF RowsFit, CatalogueGrows, NoSenseTwice
  <2> QED BY <1>1, <2>1, TaskEnds
<1>8. CASE /\ meanings' = [m \in DOMAIN WithRows(q.rows) \ q.old |-> WithRows(q.rows)[m]]
           /\ \E ready \in SUBSET DOMAIN q.rows : translated' = (translated \ q.old) \cup ready
           /\ owned' = [c \in stay \cup RemapTargets(q) |->
                          owned[IF c \in RemapTargets(q) THEN RemapWinner(q, c) ELSE c]]
  <2>1. /\ DOMAIN meanings' = (DOMAIN meanings \cup DOMAIN q.rows) \ q.old
        /\ \A m \in DOMAIN meanings' :
             meanings'[m] = IF m \in DOMAIN q.rows THEN q.rows[m] ELSE meanings[m]
    BY <1>8 DEF WithRows
  <2>2. \A m \in DOMAIN meanings' : meanings'[m] \in Meaning
    BY <1>2, <1>4, <2>1 DEF RowsFit
  <2>3. NoSenseTwice'
    <3>1. \A m \in DOMAIN meanings' :
            meanings'[m].by = "lookup" => m \in DOMAIN meanings /\ meanings'[m] = meanings[m]
      BY <1>2, <2>1
    <3> QED BY <1>4, <3>1 DEF NoSenseTwice, RowsFit
  <2>4. DOMAIN owned' = stay \cup RemapTargets(q) /\ \A c \in DOMAIN owned' :
          owned'[c] = owned[IF c \in RemapTargets(q) THEN RemapWinner(q, c) ELSE c]
    BY <1>8
  <2>5. \A c \in RemapTargets(q) : RemapWinner(q, c) \in DOMAIN owned
    BY <1>6 DEF RemapTargets
  <2>6. DOMAIN owned' \subseteq Learners \X DOMAIN meanings'
    <3>1. stay \subseteq Learners \X DOMAIN meanings'
      BY <1>4, <2>1 DEF RowsFit
    <3>2. ASSUME NEW c \in DOMAIN q.cards PROVE RemapTarget(q, c) \in Learners \X DOMAIN meanings'
      <4>1. c \in Learners \X DOMAIN meanings /\ c[2] \in q.old
        BY <1>2, <1>4, <3>2 DEF RowsFit
      <4> QED BY <1>2, <2>1, <4>1 DEF RemapTarget
    <3> QED BY <2>4, <3>1, <3>2 DEF RemapTargets
  <2>7. \A c \in DOMAIN owned' : owned'[c] \in OwnedCard
    BY <1>4, <2>4, <2>5 DEF RowsFit
  <2>8. RowsFit'
    BY <1>1, <1>2, <1>4, <1>8, <2>1, <2>2, <2>3, <2>6, <2>7 DEF RowsFit
  <2>9. /\ DOMAIN task' = CatalogueJobs /\ task'[r] = NoTask
        /\ \A s \in CatalogueJobs \ {r} : task'[s] = task[s]
    BY <1>1 DEF Finishes, Then, CatalogueInv, CatalogueTypeOK
  <2>10. ASSUME NEW s \in CatalogueJobs
         PROVE  /\ TaskFits(task'[s], DOMAIN meanings', owned', wordStored') /\ ~Replaces(task'[s])
                /\ task'[s] = NoTask \/ task'[s].at \in JobSteps
    <3>1. CASE s = r
      BY <2>9, <3>1, IdleTaskFits
    <3>2. CASE s # r
      BY <1>1, <1>3, <2>9, <3>2 DEF TaskFits, Replaces, CatalogueInv, CatalogueTypeOK
    <3> QED BY <3>1, <3>2
  <2>11. CatalogueInv'
    BY <2>8, <2>9, <2>10 DEF RowsFit, CatalogueInv, CatalogueTypeOK, OneReplaces
  <2>12. CarriedOver
    <3> SUFFICES ASSUME NEW c \in DOMAIN q.cards
                 PROVE  \E kept \in DOMAIN owned' : kept[1] = c[1] /\ owned'[kept].reviews >= q.cards[c]
      BY <1>3 DEF CarriedOver, Replaces
    <3> DEFINE g == RemapTarget(q, c)
    <3>1. g \in RemapTargets(q) /\ g[1] = c[1]
      BY DEF RemapTargets, RemapTarget
    <3>2. owned'[g] = owned[RemapWinner(q, g)] /\ g \in DOMAIN owned'
      BY <2>4, <3>1
    <3>3. RemapWinner(q, g) \in DOMAIN owned /\ q.cards[c] <= owned[RemapWinner(q, g)].reviews
      BY <1>6
    <3>4. owned[RemapWinner(q, g)].reviews \in Nat /\ q.cards[c] \in Nat
      BY <1>2, <1>4, <3>3
    <3> HIDE DEF g
    <3>5. owned'[g].reviews >= q.cards[c]
      BY <3>2, <3>3, <3>4
    <3> QED BY <3>1, <3>2, <3>5
  <2> QED BY <2>11, <2>12
<1> QED BY <1>7, <1>8 DEF RemapCards

LEMMA CatalogueStep == CatalogueInv /\ CatalogueNext => CatalogueInv' /\ CarriedOver
  BY ReadingSteps, PersistSteps, ImportSteps, InsertSteps, OwnSteps, RetranslateSteps, ReplaceSteps, RemapSteps,
     LearnerSteps DEF CatalogueNext

LEMMA CatalogueAlways == CatalogueSpec => []CatalogueInv
<1>1. CatalogueInit => CatalogueInv
  <2> SUFFICES ASSUME CatalogueInit PROVE CatalogueInv
    OBVIOUS
  <2>1. PICK seed \in CatalogueSeeds :
          meanings = seed.meanings /\ owned = seed.owned /\ wordStored = (DOMAIN seed.meanings # {})
    BY DEF CatalogueInit
  <2>2. /\ DOMAIN task = CatalogueJobs /\ (\A r \in CatalogueJobs : task[r] = NoTask)
        /\ translated = {} /\ jobsBegun \in 0 .. MaxJobs
    BY CatalogueAssumption DEF CatalogueInit
  <2>3. CatalogueTypeOK
    BY <2>1, <2>2, CatalogueAssumption DEF CatalogueTypeOK
  <2>4. NoSenseTwice
    BY <2>1, CatalogueAssumption DEF NoSenseTwice
  <2> QED BY <2>2, <2>3, <2>4, IdleTaskFits DEF CatalogueInv, OneReplaces
<1>2. CatalogueInv /\ UNCHANGED catalogueVars => CatalogueInv'
  BY DEF CatalogueInv, CatalogueTypeOK, NoSenseTwice, OneReplaces, catalogueVars
<1> QED BY <1>1, <1>2, CatalogueStep, PTL DEF CatalogueSpec

(* Whatever lookups, imports, forced senses and replacements overlap, of    *)
(* two senses that lookups stored neither repeats the other.               *)
THEOREM LookupsStoreOnce == CatalogueSpec => []NoSenseTwice
<1>1. CatalogueInv => NoSenseTwice
  BY DEF CatalogueInv
<1> QED BY <1>1, CatalogueAlways, PTL

(* However many cards of a learner are moved to one sense, beside cards    *)
(* that are there already and reviews that go on, a replacement of the     *)
(* senses leaves a card reviewed as often as each it read.                 *)
THEOREM HistoryIsCarried == CatalogueSpec => CardsCarriedOver
<1>1. CatalogueInv /\ [CatalogueNext]_catalogueVars =>
        [\A r \in CatalogueJobs :
           task[r].at = "remap" /\ meanings' # meanings =>
             \A c \in DOMAIN task[r].cards :
               \E kept \in DOMAIN owned' :
                 kept[1] = c[1] /\ owned'[kept].reviews >= task[r].cards[c]]_catalogueVars
  BY CatalogueStep DEF CarriedOver
<1> QED BY <1>1, CatalogueAlways, PTL DEF CatalogueSpec, CardsCarriedOver

-------------------------------------------------------------------------------
(* The paged list, for any words, decks, page size and requests.           *)

(* A page shows words of its deck, and leaves out none that is newer than   *)
(* its cursor and older than the one it was asked for.                      *)
PageFits(p, f, after) ==
  /\ p.words \subseteq DeckWords[f]
  /\ \A w \in rows \cap DeckWords[f] :
       (after = 0 \/ w < after) /\ (p.next = 0 \/ w >= p.next) => w \in p.words

LEMMA PagesFit ==
  ASSUME WordListTypeOK, NEW f \in Filters, NEW after \in Words \cup {0}, NEW p \in PagesOf(f, after)
  PROVE  p \in Page /\ PageFits(p, f, after)
<1> DEFINE set == AskedFor(f, after)
<1>0. PICK left \in Newest(set, PageSize + 1) : p \in CutOff(left)
  BY DEF PagesOf
<1>1. PICK ws \in Newest(left, PageSize) : p \in {[words |-> ws, next |-> d] : d \in CursorsOf(ws, left)}
  BY <1>0 DEF CutOff
<1>2. /\ p = [words |-> ws, next |-> p.next] /\ p.next \in CursorsOf(ws, left)
      /\ p.words \in Newest(left, PageSize) /\ p.next \in CursorsOf(p.words, left)
  BY <1>1
<1>3. left \subseteq set /\ p.words \subseteq left /\ set \subseteq DeckWords[f] /\ set \subseteq Words
  BY <1>2, WordListAssumption DEF Newest, AskedFor, Filters, WordListTypeOK
<1>7. p \in Page
  <2>1. ws \subseteq Words /\ (p.next = 0 \/ p.next \in ws)
    BY <1>2, <1>3 DEF CursorsOf
  <2> QED BY <1>2, <2>1 DEF Page
<1>4. ASSUME p.next = 0 PROVE p.words = set
  <2>1. p.words = left
    BY <1>2, <1>3, <1>4, WordListAssumption DEF CursorsOf
  <2>2. /\ IsFiniteSet(set) /\ IsFiniteSet(left)
        /\ Cardinality(set) \in Nat /\ Cardinality(left) \in Nat
    BY <1>3, WordListAssumption, FS_Subset, FS_CardinalityType
  <2>3. /\ Cardinality(left) = Lesser(PageSize, Cardinality(left))
        /\ Cardinality(left) = Lesser(PageSize + 1, Cardinality(set))
    BY <1>2, <2>1 DEF Newest
  <2>4. Cardinality(left) = Cardinality(set)
    BY <2>2, <2>3, WordListAssumption DEF Lesser
  <2> QED BY <1>3, <2>1, <2>2, <2>4, FS_Subset
<1>5. ASSUME p.next # 0, NEW w \in set, w >= p.next PROVE w \in p.words
  <2>1. p.next \in p.words /\ w \in Nat /\ p.next \in Nat
    BY <1>2, <1>3, <1>5, WordListAssumption DEF CursorsOf
  <2>2. w \notin left => p.next > w
    BY <1>2, <1>3, <2>1 DEF Newest
  <2>3. w \in left /\ w \notin p.words => p.next > w
    BY <1>2, <2>1 DEF Newest
  <2> QED BY <1>5, <2>1, <2>2, <2>3
<1>6. \A w \in rows \cap DeckWords[f] : after = 0 \/ w < after => w \in set
  BY DEF AskedFor
<1> HIDE DEF set
<1> QED BY <1>3, <1>4, <1>5, <1>6, <1>7 DEF PageFits

(* Requests with the id of the moment are of the deck shown, and what they  *)
(* read fits the words of it.                                               *)
CurrentFits ==
  \A r \in flight :
    /\ r.id <= requestId /\ (r.id = requestId => r.filter = filter)
    /\ r.read => PageFits(r.page, r.filter, r.after)

(* What is shown is of the deck shown once the list can be added to.        *)
ShownFits ==
  \/ status = "ready" \/ cursor # 0 \/ \E r \in flight : r.id = requestId /\ r.kind = "more"
  => shown \subseteq DeckWords[filter]

Covered == \A w \in rows \cap DeckWords[filter] : cursor = 0 \/ w >= cursor => w \in shown

(* As long as the list was not started over, one request at most counts:    *)
(* the first one, or the one page asked for from the cursor.                *)
FirstLoad ==
  /\ status = "ready" \/ cursor # 0 => Covered
  /\ \A r \in flight :
       /\ r.id = 2 /\ r.kind = "more" => cursor # 0 /\ r.after = cursor /\ more
       /\ r.id = 2 /\ r.kind # "more" => cursor = 0 /\ r.after = 0
       /\ r.id # 2 => r.kind # "more"
  /\ \A r, s \in flight : r.id = 2 /\ s.id = 2 => r = s

WordListInv ==
  /\ WordListTypeOK /\ requestId >= 2 /\ CurrentFits /\ ShownFits
  /\ requestId = 2 => FirstLoad

LEMMA NewRequestType ==
  ASSUME NEW id \in 1 .. Restarts, NEW kind \in {"reload", "refresh", "more"}, NEW f \in Filters,
         NEW after \in Words \cup {0}
  PROVE  LET r == NewRequest(id, kind, f, after)
         IN /\ r \in ListRequest
            /\ r.id = id /\ r.kind = kind /\ r.filter = f /\ r.after = after /\ ~r.read
  BY DEF NewRequest, NoPage, ListRequest, Page

LEMMA WordListInvInit == WordListInit => WordListInv
<1> SUFFICES ASSUME WordListInit PROVE WordListInv
  OBVIOUS
<1> DEFINE a == NewRequest(1, "reload", filter, 0)
           b == NewRequest(2, "refresh", filter, 0)
<1>1. 1 \in 1 .. Restarts /\ 2 \in 1 .. Restarts /\ filter \in Filters
  BY WordListAssumption DEF WordListInit
<1>2. /\ a \in ListRequest /\ a.id = 1 /\ a.kind = "reload" /\ ~a.read
      /\ b \in ListRequest /\ b.id = 2 /\ b.kind = "refresh" /\ b.filter = filter /\ b.after = 0 /\ ~b.read
  BY <1>1, NewRequestType
<1>3. flight = {a, b}
  BY DEF WordListInit
<1> HIDE DEF a, b
<1>4. WordListTypeOK
  <2>1. \A r \in flight : r \in ListRequest
    BY <1>2, <1>3
  <2>2. requestId \in 0 .. Restarts /\ asked \in 0 .. Pages
    BY <1>1, WordListAssumption DEF WordListInit
  <2> QED BY <1>1, <2>1, <2>2 DEF WordListInit, WordListTypeOK
<1>5. CurrentFits /\ requestId >= 2
  BY <1>2, <1>3 DEF WordListInit, CurrentFits
<1>6. ShownFits
  BY DEF WordListInit, ShownFits
<1>7. FirstLoad
  BY <1>2, <1>3 DEF WordListInit, FirstLoad
<1> QED BY <1>4, <1>5, <1>6, <1>7 DEF WordListInv

(* Requests that start the list over: none under way counts any more.       *)
LEMMA StartOver ==
  ASSUME WordListInv, NEW new, new \subseteq ListRequest, flight' = flight \cup new,
         requestId' \in requestId + 1 .. Restarts, filter' \in Filters,
         \A r \in new : r.id <= requestId' /\ r.filter = filter' /\ ~r.read /\ r.kind # "more",
         \/ filter' = filter /\ cursor' = cursor /\ status' = status
         \/ cursor' = 0 /\ status' = "loading",
         UNCHANGED <<rows, shown, more, asked>>
  PROVE  WordListInv'
<1> USE DEF WordListInv
<1>1. requestId \in Nat /\ requestId' \in Nat /\ requestId' > requestId /\ requestId' <= Restarts
  BY WordListAssumption DEF WordListTypeOK
<1>2. \A r \in flight : r.id \in Nat /\ r.id <= requestId
  BY DEF WordListTypeOK, CurrentFits, ListRequest
<1>3. \A r \in flight : r.id # requestId' /\ r.id <= requestId'
  BY <1>1, <1>2
<1>4. WordListTypeOK'
  <2>1. \A r \in flight' : r \in ListRequest
    BY DEF WordListTypeOK
  <2>2. requestId' \in 0 .. Restarts
    BY <1>1, WordListAssumption
  <2> QED BY <2>1, <2>2 DEF WordListTypeOK
<1>5. CurrentFits'
  BY <1>3 DEF CurrentFits, PageFits
<1>6. ShownFits'
  BY <1>3 DEF ShownFits
<1>7. requestId' >= 2 /\ requestId' # 2
  BY <1>1
<1> QED BY <1>4, <1>5, <1>6, <1>7

LEMMA StartsKeepInv ==
  ASSUME WordListInv, Refresh \/ \E f \in Filters : ChooseDeck(f)
  PROVE  WordListInv'
<1>1. requestId \in Nat /\ requestId >= 2 /\ filter \in Filters
  BY WordListAssumption DEF WordListInv, WordListTypeOK
<1>2. ASSUME NEW f \in Filters, ChooseDeck(f) PROVE WordListInv'
  <2> DEFINE a == NewRequest(requestId + 1, "reload", f, 0)
             b == NewRequest(requestId + 2, "refresh", f, 0)
  <2>1. requestId + 1 \in 1 .. Restarts /\ requestId + 2 \in 1 .. Restarts
    BY <1>1, <1>2, WordListAssumption DEF ChooseDeck
  <2>2. /\ a \in ListRequest /\ a.id = requestId + 1 /\ a.kind = "reload" /\ ~a.read /\ a.filter = f
        /\ b \in ListRequest /\ b.id = requestId + 2 /\ b.kind = "refresh" /\ ~b.read /\ b.filter = f
    BY <2>1, NewRequestType
  <2>3. /\ flight' = flight \cup {a, b} /\ requestId' = requestId + 2 /\ filter' = f
        /\ status' = "loading" /\ cursor' = 0 /\ UNCHANGED <<rows, shown, more, asked>>
    BY <1>2 DEF ChooseDeck
  <2> HIDE DEF a, b
  <2>4. requestId' \in requestId + 1 .. Restarts
    BY <1>1, <2>1, <2>3, WordListAssumption
  <2>5. requestId + 1 <= requestId' /\ requestId + 2 <= requestId'
    BY <1>1, <2>3
  <2>6. \A r \in {a, b} : r.id <= requestId' /\ r.filter = filter' /\ ~r.read /\ r.kind # "more"
    BY <2>2, <2>3, <2>5
  <2>7. {a, b} \subseteq ListRequest
    BY <2>2
  <2>8. filter' \in Filters
    BY <2>3
  <2>9. \/ filter' = filter /\ cursor' = cursor /\ status' = status
        \/ cursor' = 0 /\ status' = "loading"
    BY <2>3
  <2>10. flight' = flight \cup {a, b} /\ UNCHANGED <<rows, shown, more, asked>>
    BY <2>3
  <2> DEFINE new == {a, b}
  <2>11. /\ new \subseteq ListRequest /\ flight' = flight \cup new
         /\ \A r \in new : r.id <= requestId' /\ r.filter = filter' /\ ~r.read /\ r.kind # "more"
    BY <2>6, <2>7, <2>10
  <2> HIDE DEF new
  <2> QED BY <2>4, <2>8, <2>9, <2>10, <2>11, StartOver
<1>3. CASE Refresh
  <2> DEFINE a == NewRequest(requestId + 1, "refresh", filter, 0)
  <2>1. requestId + 1 \in 1 .. Restarts
    BY <1>1, <1>3, WordListAssumption DEF Refresh
  <2>2. a \in ListRequest /\ a.id = requestId + 1 /\ a.kind = "refresh" /\ ~a.read /\ a.filter = filter
    BY <1>1, <2>1, NewRequestType
  <2>3. /\ flight' = flight \cup {a} /\ requestId' = requestId + 1
        /\ UNCHANGED <<rows, filter, shown, cursor, status, more, asked>>
    BY <1>3 DEF Refresh
  <2> HIDE DEF a
  <2>4. requestId' \in requestId + 1 .. Restarts
    BY <1>1, <2>1, <2>3, WordListAssumption
  <2>5. \A r \in {a} : r.id <= requestId' /\ r.filter = filter' /\ ~r.read /\ r.kind # "more"
    BY <1>1, <2>2, <2>3
  <2>6. filter' \in Filters
    BY <1>1, <2>3
  <2>7. \/ filter' = filter /\ cursor' = cursor /\ status' = status
        \/ cursor' = 0 /\ status' = "loading"
    BY <2>3
  <2> DEFINE new == {a}
  <2>8. /\ new \subseteq ListRequest /\ flight' = flight \cup new
        /\ \A r \in new : r.id <= requestId' /\ r.filter = filter' /\ ~r.read /\ r.kind # "more"
    BY <2>2, <2>3, <2>5
  <2> HIDE DEF new
  <2> QED BY <2>3, <2>4, <2>6, <2>7, <2>8, StartOver
<1> QED BY <1>2, <1>3

LEMMA LoadMoreKeepsInv == ASSUME WordListInv, LoadMore PROVE WordListInv'
<1> USE DEF WordListInv
<1> DEFINE r == NewRequest(requestId, "more", filter, cursor)
<1>1. requestId \in 1 .. Restarts /\ filter \in Filters /\ cursor \in Words \cup {0}
  BY WordListAssumption DEF WordListTypeOK
<1>2. /\ r \in ListRequest /\ r.id = requestId /\ r.kind = "more" /\ r.filter = filter
      /\ r.after = cursor /\ ~r.read
  BY <1>1, NewRequestType
<1>3. /\ flight' = flight \cup {r} /\ cursor # 0 /\ ~more /\ more' = TRUE
      /\ UNCHANGED <<rows, filter, shown, cursor, status, requestId>>
  BY DEF LoadMore
<1>4. asked' \in 0 .. Pages
  BY WordListAssumption DEF LoadMore, WordListTypeOK
<1> HIDE DEF r
<1>5. WordListTypeOK'
  BY <1>2, <1>3, <1>4 DEF WordListTypeOK
<1>6. requestId <= requestId
  BY <1>1
<1>7. CurrentFits'
  BY <1>2, <1>3, <1>6 DEF CurrentFits, PageFits
<1>8. ShownFits'
  BY <1>3 DEF ShownFits
<1>9. requestId = 2 => FirstLoad'
  <2> SUFFICES ASSUME requestId = 2 PROVE FirstLoad'
    OBVIOUS
  <2>1. \A s \in flight : s.id # 2
    BY <1>3 DEF FirstLoad
  <2>2. Covered => Covered'
    BY <1>3 DEF Covered
  <2> QED BY <1>2, <1>3, <2>1, <2>2 DEF FirstLoad
<1> QED BY <1>3, <1>5, <1>7, <1>8, <1>9

(* A request under way, as it was read: the words of a page it brings fit.  *)
LEMMA ReadKeepsInv == ASSUME WordListInv, NEW r \in flight, ReadPage(r) PROVE WordListInv'
<1> USE DEF WordListInv
<1>1. r \in ListRequest /\ r.filter \in Filters /\ r.after \in Words \cup {0}
  BY DEF WordListTypeOK, ListRequest
<1>2. PICK p \in PagesOf(r.filter, r.after) :
        flight' = (flight \ {r}) \cup {[r EXCEPT !.read = TRUE, !.page = p]}
  BY DEF ReadPage
<1>3. p \in Page /\ PageFits(p, r.filter, r.after)
  BY <1>1, PagesFit
<1> DEFINE s == [r EXCEPT !.read = TRUE, !.page = p]
<1>4. /\ s \in ListRequest /\ s.id = r.id /\ s.kind = r.kind /\ s.filter = r.filter
      /\ s.after = r.after /\ s.page = p
  BY <1>1, <1>3 DEF ListRequest
<1>5. /\ flight' = (flight \ {r}) \cup {s}
      /\ UNCHANGED <<rows, filter, shown, cursor, status, requestId, more, asked>>
  BY <1>2 DEF ReadPage
<1> HIDE DEF s
<1>6. WordListTypeOK'
  BY <1>4, <1>5 DEF WordListTypeOK
<1>7. CurrentFits'
  <2>1. PageFits(p, r.filter, r.after)'
    BY <1>3, <1>5 DEF PageFits
  <2>2. /\ s.id <= requestId' /\ (s.id = requestId' => s.filter = filter')
        /\ PageFits(s.page, s.filter, s.after)'
    BY <1>4, <1>5, <2>1 DEF CurrentFits, PageFits
  <2> QED BY <1>5, <2>2 DEF CurrentFits, PageFits
<1>8. ShownFits'
  BY <1>4, <1>5 DEF ShownFits
<1>9. requestId = 2 => FirstLoad'
  <2>1. Covered => Covered'
    BY <1>5 DEF Covered
  <2> QED BY <1>4, <1>5, <2>1 DEF FirstLoad
<1> QED BY <1>5, <1>6, <1>7, <1>8, <1>9

LEMMA ArrivalKeepsInv == ASSUME WordListInv, NEW r \in flight, PageArrives(r) PROVE WordListInv'
<1> USE DEF WordListInv
<1>1. r \in ListRequest /\ r.page \in Page
  BY DEF WordListTypeOK, ListRequest
<1>2. /\ flight' = flight \ {r} /\ more' = (more /\ r.kind # "more") /\ r.read
      /\ UNCHANGED <<rows, filter, requestId, asked>>
  BY DEF PageArrives
<1>3. CurrentFits'
  BY <1>2 DEF CurrentFits, PageFits
<1>4. CASE r.id # requestId
  <2>1. UNCHANGED <<shown, cursor, status>>
    BY <1>4 DEF PageArrives, Outdated
  <2>2. WordListTypeOK'
    BY <1>2, <2>1 DEF WordListTypeOK
  <2>3. ShownFits'
    BY <1>2, <2>1 DEF ShownFits
  <2>4. requestId = 2 => FirstLoad'
    BY <1>2, <1>4, <2>1 DEF FirstLoad, Covered
  <2> QED BY <1>2, <1>3, <2>2, <2>3, <2>4
<1>5. CASE r.id = requestId
  <2>1. /\ shown' = IF r.kind = "more" THEN shown \cup r.page.words ELSE r.page.words
        /\ cursor' = r.page.next /\ status' = "ready"
    BY <1>5 DEF PageArrives, Outdated
  <2>2. WordListTypeOK'
    BY <1>1, <1>2, <2>1 DEF WordListTypeOK, Page
  <2>3. r.filter = filter /\ PageFits(r.page, filter, r.after)
    BY <1>2, <1>5 DEF CurrentFits
  <2>4. shown' \subseteq DeckWords[filter']
    BY <1>2, <1>5, <2>1, <2>3 DEF ShownFits, PageFits
  <2>5. ASSUME requestId = 2 PROVE FirstLoad'
    <3>1. \A s \in flight' : s.id # 2
      BY <1>2, <1>5, <2>5 DEF FirstLoad
    <3>2. Covered'
      <4>1. SUFFICES ASSUME NEW w \in rows \cap DeckWords[filter],
                            r.page.next = 0 \/ w >= r.page.next
                     PROVE  w \in shown'
        BY <1>2, <2>1 DEF Covered
      <4>2. CASE r.kind = "more"
        <5>1. cursor # 0 /\ r.after = cursor /\ Covered
          BY <1>5, <2>5, <4>2 DEF FirstLoad
        <5>2. w >= cursor \/ w < cursor
          <6>1. w \in Nat /\ cursor \in Nat
            BY WordListAssumption DEF WordListTypeOK
          <6> QED BY <6>1
        <5> QED BY <2>1, <2>3, <4>1, <4>2, <5>1, <5>2 DEF Covered, PageFits
      <4>3. CASE r.kind # "more"
        <5>1. r.after = 0
          BY <1>5, <2>5, <4>3 DEF FirstLoad
        <5> QED BY <2>1, <2>3, <4>1, <4>3, <5>1 DEF PageFits
      <4> QED BY <4>2, <4>3
    <3>3. \A s \in flight' : s.kind # "more"
      BY <1>2, <2>5, <3>1 DEF FirstLoad
    <3>4. \A s \in flight' : s.id # 2
      BY <3>1
    <3> QED BY <3>2, <3>3, <3>4 DEF FirstLoad
  <2> QED BY <1>2, <1>3, <2>2, <2>4, <2>5 DEF ShownFits
<1> QED BY <1>4, <1>5

LEMMA FailureKeepsInv == ASSUME WordListInv, NEW r \in flight, PageFails(r) PROVE WordListInv'
<1> USE DEF WordListInv
<1>1. /\ flight' = flight \ {r} /\ more' = (more /\ r.kind # "more")
      /\ status' = status \/ status' = "error"
      /\ UNCHANGED <<rows, filter, shown, cursor, requestId, asked>>
  BY DEF PageFails
<1>2. WordListTypeOK' /\ CurrentFits' /\ ShownFits'
  BY <1>1 DEF WordListTypeOK, CurrentFits, PageFits, ShownFits
<1>3. requestId = 2 => FirstLoad'
  <2>1. Covered => Covered'
    BY <1>1 DEF Covered
  <2> QED BY <1>1, <2>1 DEF FirstLoad
<1> QED BY <1>1, <1>2, <1>3

LEMMA RemovalKeepsInv == ASSUME WordListInv, NEW w \in Words, RemoveWord(w) PROVE WordListInv'
<1> USE DEF WordListInv
<1>1. /\ shown' = shown \ {w} /\ rows' = rows \ {w}
      /\ UNCHANGED <<filter, cursor, status, requestId, more, asked, flight>>
  BY DEF RemoveWord
<1>2. WordListTypeOK' /\ CurrentFits' /\ ShownFits'
  BY <1>1 DEF WordListTypeOK, CurrentFits, PageFits, ShownFits
<1>3. requestId = 2 => FirstLoad'
  <2>1. Covered => Covered'
    BY <1>1 DEF Covered
  <2> QED BY <1>1, <2>1 DEF FirstLoad
<1> QED BY <1>1, <1>2, <1>3

LEMMA WordListStep == WordListInv /\ [WordListNext]_listVars => WordListInv'
<1> SUFFICES ASSUME WordListInv, [WordListNext]_listVars PROVE WordListInv'
  OBVIOUS
<1>1. CASE UNCHANGED listVars
  BY <1>1 DEF listVars, WordListInv, WordListTypeOK, CurrentFits, PageFits, ShownFits, FirstLoad, Covered
<1> QED
  BY <1>1, StartsKeepInv, LoadMoreKeepsInv, ReadKeepsInv, ArrivalKeepsInv, FailureKeepsInv, RemovalKeepsInv
     DEF WordListNext

LEMMA WordListInvAlways == WordListSpec => []WordListInv
  BY WordListInvInit, WordListStep, PTL DEF WordListSpec

(* A list that has loaded shows words of the deck chosen last, however late *)
(* the answers to earlier choices arrive (useLearningItems.ts, fetchPage).  *)
THEOREM DeckHonoured == WordListSpec => []FilterHonoured
<1>1. WordListInv => FilterHonoured
  BY DEF WordListInv, ShownFits, FilterHonoured
<1> QED BY <1>1, WordListInvAlways, PTL

(* Pages follow each other without a gap, whatever is removed between them, *)
(* as long as nothing starts the list over (ListLearningItems' keyset).     *)
THEOREM PagesLeaveNoGap == WordListSpec => []PagesFollow
<1>1. WordListInv => PagesFollow
  BY DEF WordListInv, FirstLoad, Covered, PagesFollow
<1> QED BY <1>1, WordListInvAlways, PTL

-------------------------------------------------------------------------------
(* The queue of words to add, for any jobs and lookups.                    *)

(* A list that shows a job as queued only if the job was never looked up.  *)
Unseen(list, seen) ==
  /\ list \in Seq(Job)
  /\ \A i \in DOMAIN list : list[i].status = "queued" => seen[list[i].id] = 0

(* The worker sees as queued, and the next render makes it see as queued,  *)
(* only jobs that were not looked up.                                      *)
QueueInv ==
  /\ updated \in BOOLEAN
  /\ adder = AdderOff \/ adder \in [at : {"lookup", "add"}, job : JobIds]
  /\ lookedUp \in [JobIds -> Nat] /\ \A j \in JobIds : lookedUp[j] <= 1
  /\ Unseen(jobsRef, lookedUp) /\ Unseen(coming, lookedUp)

LEMMA MarkedLists ==
  ASSUME NEW list \in Seq(Job), NEW id, NEW value \in JobStatus
  PROVE  /\ Marked(list, id, value) \in Seq(Job)
         /\ DOMAIN Marked(list, id, value) = DOMAIN list
         /\ \A i \in DOMAIN list :
              LET m == Marked(list, id, value) IN
              /\ m[i].id = list[i].id
              /\ m[i].status = IF list[i].id = id THEN value ELSE list[i].status
<1> DEFINE m == Marked(list, id, value)
<1>1. \A i \in DOMAIN list : list[i] \in Job
  OBVIOUS
<1>2. \A i \in DOMAIN list :
        /\ m[i] \in Job /\ m[i].id = list[i].id
        /\ m[i].status = IF list[i].id = id THEN value ELSE list[i].status
  BY <1>1 DEF Marked, Job
<1>3. /\ DOMAIN m = DOMAIN list /\ DOMAIN list = 1 .. Len(list) /\ Len(list) \in Nat
      /\ m = [i \in DOMAIN list |-> m[i]]
  BY DEF Marked
<1>4. m \in [1 .. Len(list) -> Job]
  BY <1>2, <1>3
<1>5. m \in Seq(Job)
  BY <1>3, <1>4
<1> QED BY <1>2, <1>3, <1>5

LEMMA MarkedUnseen ==
  ASSUME NEW list, NEW seen, Unseen(list, seen), NEW id, NEW value \in JobStatus \ {"queued"}
  PROVE  Unseen(Marked(list, id, value), seen)
<1>1. value \in JobStatus
  OBVIOUS
<1> QED BY <1>1, MarkedLists DEF Unseen

(* The worker takes a job that was not looked up, and no list shows it as  *)
(* queued any added.                                                        *)
LEMMA AdderKeepsInv ==
  ASSUME NEW list, NEW state, Unseen(list, lookedUp), Unseen(state, lookedUp), QueueInv,
         RunWorker(list, state), updated' \in BOOLEAN
  PROVE  QueueInv'
<1>1. CASE Queued(list) = {}
  BY <1>1 DEF QueueInv, RunWorker, Unseen
<1>2. CASE Queued(list) # {}
  <2> DEFINE id == FirstQueued(list)
             m == Marked(list, id, "processing")
  <2>1. \E i \in Queued(list) : \A j \in Queued(list) : i <= j
    <3>1. Queued(list) \in SUBSET Nat
      BY DEF Queued, Unseen
    <3> QED BY <1>2, <3>1, LeastNumber
  <2>2. PICK k \in Queued(list) : id = list[k].id
    BY <2>1 DEF FirstQueued
  <2>3. id \in JobIds /\ lookedUp[id] = 0
    <3>1. k \in DOMAIN list /\ list[k].status = "queued" /\ list[k] \in Job
      BY <2>2 DEF Unseen, Queued
    <3> QED BY <2>2, <3>1 DEF Unseen, Job
  <2>4. /\ adder' = [at |-> "lookup", job |-> id] /\ jobsRef' = m /\ coming' = m
        /\ lookedUp' = [lookedUp EXCEPT ![id] = @ + 1]
    BY <1>2 DEF RunWorker, UpdateJob
  <2>5. list \in Seq(Job) /\ "processing" \in JobStatus
    BY DEF Unseen, JobStatus
  <2>6. Unseen(m, lookedUp')
    <3>1. /\ m \in Seq(Job) /\ DOMAIN m = DOMAIN list
          /\ \A i \in DOMAIN list :
               /\ m[i].id = list[i].id /\ list[i] \in Job
               /\ m[i].status = IF list[i].id = id THEN "processing" ELSE list[i].status
      BY <2>5, MarkedLists
    <3> HIDE DEF m, id
    <3>2. ASSUME NEW i \in DOMAIN list, m[i].status = "queued" PROVE lookedUp'[m[i].id] = 0
      <4>1. list[i].id # id /\ list[i].status = "queued" /\ list[i].id \in JobIds
        BY <3>1, <3>2 DEF Job
      <4> QED BY <2>4, <3>1, <4>1 DEF Unseen, QueueInv
    <3> QED BY <3>1, <3>2 DEF Unseen
  <2>7. /\ lookedUp' \in [JobIds -> Nat] /\ \A j \in JobIds : lookedUp'[j] <= 1
    BY <2>3, <2>4 DEF QueueInv
  <2>8. adder' \in [at : {"lookup", "add"}, job : JobIds]
    BY <2>3, <2>4
  <2> HIDE DEF m, id
  <2> QED BY <2>4, <2>6, <2>7, <2>8 DEF QueueInv
<1> QED BY <1>1, <1>2

LEMMA EnqueueKeepsInv == ASSUME QueueInv, EnqueueSome PROVE QueueInv'
<1>1. PICK batch \in [{1} -> Unused] \cup {f \in [1 .. 2 -> Unused] : f[1] # f[2]} : Enqueue(batch)
  BY DEF EnqueueSome
<1> DEFINE added == [i \in DOMAIN batch |-> [id |-> batch[i], status |-> "queued"]]
           state == coming \o added
<1>2. \E n \in {1, 2} : batch \in [1 .. n -> Unused]
  BY <1>1
<1>3. Unseen(added, lookedUp)
  <2>1. PICK n \in {1, 2} : batch \in [1 .. n -> Unused]
    BY <1>2
  <2>2. \A i \in 1 .. n : batch[i] \in JobIds /\ lookedUp[batch[i]] = 0
    BY <2>1 DEF Unused
  <2>3. added \in [1 .. n -> Job]
    BY <2>1, <2>2 DEF Job, JobStatus
  <2>4. added \in Seq(Job)
    BY <2>3
  <2> QED BY <2>1, <2>2, <2>4 DEF Unseen
<1>4. Unseen(state, lookedUp)
  <2> HIDE DEF added
  <2>1. coming \in Seq(Job) /\ added \in Seq(Job)
    BY <1>3 DEF QueueInv, Unseen
  <2>2. state \in Seq(Job)
    BY <2>1
  <2>3. ASSUME NEW i \in DOMAIN state
        PROVE  \/ i \in DOMAIN coming /\ state[i] = coming[i]
               \/ \E j \in DOMAIN added : state[i] = added[j]
    BY <2>1, <2>3
  <2> HIDE DEF state
  <2> QED BY <1>3, <2>2, <2>3 DEF QueueInv, Unseen
<1>5. /\ updated' = TRUE
      /\ \E ref \in {jobsRef} \cup IF updated THEN {} ELSE {state} :
           IF adder = AdderOff THEN RunWorker(ref, state)
           ELSE jobsRef' = ref /\ coming' = state /\ UNCHANGED <<adder, lookedUp>>
  BY <1>1 DEF Enqueue
<1> HIDE DEF added, state
<1>6. PICK ref \in {jobsRef, state} :
        IF adder = AdderOff THEN RunWorker(ref, state)
        ELSE jobsRef' = ref /\ coming' = state /\ UNCHANGED <<adder, lookedUp>>
  BY <1>5
<1>7. Unseen(ref, lookedUp)
  BY <1>4 DEF QueueInv
<1>8. CASE adder = AdderOff
  BY <1>4, <1>5, <1>6, <1>7, <1>8, AdderKeepsInv
<1>9. CASE adder # AdderOff
  BY <1>4, <1>5, <1>6, <1>7, <1>9 DEF QueueInv
<1> QED BY <1>8, <1>9

LEMMA SettleKeepsInv ==
  ASSUME QueueInv, NEW value \in {"done", "error"}, Settle(value) PROVE QueueInv'
<1> DEFINE m == Marked(jobsRef, adder.job, value)
<1>1. Unseen(m, lookedUp)
  BY MarkedUnseen DEF QueueInv, JobStatus
<1>2. updated' = TRUE /\ RunWorker(m, m)
  BY DEF Settle, UpdateJob
<1> HIDE DEF m
<1> QED BY <1>1, <1>2, AdderKeepsInv

LEMMA QueueInvInit == AddInit => QueueInv
<1> SUFFICES ASSUME AddInit PROVE QueueInv
  OBVIOUS
<1>1. lookedUp \in [JobIds -> Nat] /\ \A j \in JobIds : lookedUp[j] <= 1
  BY DEF AddInit
<1>2. Unseen(<<>>, lookedUp)
  BY DEF Unseen
<1> QED BY <1>1, <1>2 DEF AddInit, QueueInv

LEMMA QueueInvStep == QueueInv /\ [AddNext]_addVars => QueueInv'
<1> SUFFICES ASSUME QueueInv, [AddNext]_addVars PROVE QueueInv'
  OBVIOUS
<1>1. CASE EnqueueSome
  BY <1>1, EnqueueKeepsInv
<1>2. CASE Render
  BY <1>2 DEF Render, QueueInv
<1>3. CASE LookupAnswers
  <2>1. CASE Settle("error")
    BY <2>1, SettleKeepsInv
  <2>2. CASE adder' = [adder EXCEPT !.at = "add"] /\ UNCHANGED <<coming, updated, jobsRef, lookedUp>>
    <3>1. adder \in [at : {"lookup", "add"}, job : JobIds]
      BY <1>3 DEF LookupAnswers, QueueInv, AdderOff
    <3>2. adder' \in [at : {"lookup", "add"}, job : JobIds]
      BY <2>2, <3>1
    <3> QED BY <2>2, <3>2 DEF QueueInv
  <2> QED BY <1>3, <2>1, <2>2 DEF LookupAnswers
<1>4. CASE AddAnswers
  BY <1>4, SettleKeepsInv DEF AddAnswers
<1>5. CASE PickerNext \/ UNCHANGED addVars
  <2>1. UNCHANGED queueVars
    BY <1>5 DEF PickerNext, SeekWord, SeekMore, SeekAnswers, ConfirmSense, ConfirmAnswers,
                ClosePicker, addVars, queueVars
  <2> QED BY <2>1 DEF QueueInv, queueVars
<1> QED BY <1>1, <1>2, <1>3, <1>4, <1>5 DEF AddNext, QueueNext

(* However renders, enqueues and answers interleave, a job is looked up    *)
(* once.                                                                   *)
THEOREM EachJobLookedUpOnce == AddSpec => []LookedUpOnce
<1>1. QueueInv => LookedUpOnce
  BY DEF QueueInv, LookedUpOnce
<1> QED BY QueueInvInit, QueueInvStep, <1>1, PTL DEF AddSpec

(* The picker that is open is open on a word. *)
PickerState ==
  [visible : BOOLEAN, word : SeekWords \cup {"none"}, options : SeekWords \cup {"none"},
   looking : BOOLEAN, confirming : BOOLEAN]

PickerInv ==
  /\ picker \in PickerState /\ (picker.visible => picker.word \in SeekWords)
  /\ seeks \subseteq Seek /\ seeksBegun \in 0 .. MaxSeeks

AddInv == QueueInv /\ jobs \in Seq(Job) /\ PickerInv

LEMMA AddInvInit == AddInit => AddInv
<1> SUFFICES ASSUME AddInit PROVE AddInv
  OBVIOUS
<1>1. picker \in PickerState /\ ~picker.visible
  BY DEF AddInit, PickerState
<1>2. seeks = {} /\ seeksBegun \in 0 .. MaxSeeks /\ jobs \in Seq(Job)
  BY AddAssumption DEF AddInit
<1> QED BY <1>1, <1>2, QueueInvInit DEF AddInv, PickerInv

LEMMA SeekBegun ==
  ASSUME PickerInv, seeksBegun < MaxSeeks, seeksBegun' = seeksBegun + 1
  PROVE  seeksBegun' \in 0 .. MaxSeeks
  BY AddAssumption DEF PickerInv

LEMMA PickerInvStep == PickerInv /\ PickerNext => PickerInv'
<1> SUFFICES ASSUME PickerInv, PickerNext PROVE PickerInv'
  OBVIOUS
<1> USE DEF PickerInv
<1>1. ASSUME NEW w \in SeekWords, SeekWord(w) PROVE PickerInv'
  <2>1. seeksBegun' \in 0 .. MaxSeeks
    BY <1>1, SeekBegun DEF SeekWord
  <2>2. picker' = [picker EXCEPT !.visible = TRUE, !.word = w, !.options = "none", !.looking = TRUE]
    BY <1>1 DEF SeekWord
  <2>3. picker' \in PickerState /\ picker'.word = w
    BY <2>2 DEF PickerState
  <2>4. [word |-> w, forced |-> FALSE] \in Seek
    BY DEF Seek
  <2>5. seeks' \subseteq Seek
    BY <1>1, <2>4 DEF SeekWord
  <2> QED BY <2>1, <2>3, <2>5
<1>2. CASE SeekMore
  <2>1. seeksBegun' \in 0 .. MaxSeeks
    BY <1>2, SeekBegun DEF SeekMore
  <2>2. picker' = [picker EXCEPT !.looking = TRUE] /\ picker.word \in SeekWords
    BY <1>2 DEF SeekMore
  <2>3. picker' \in PickerState /\ picker'.word = picker.word
    BY <2>2 DEF PickerState
  <2>4. [word |-> picker.word, forced |-> TRUE] \in Seek
    BY <2>2 DEF Seek
  <2>5. seeks' \subseteq Seek
    BY <1>2, <2>4 DEF SeekMore
  <2> QED BY <2>1, <2>2, <2>3, <2>5
<1>3. ASSUME NEW f \in seeks, SeekAnswers(f) PROVE PickerInv'
  <2>1. PICK options \in {f.word, picker.options} :
          picker' = [picker EXCEPT !.options = options, !.looking = FALSE]
    BY <1>3 DEF SeekAnswers
  <2>2. options \in SeekWords \cup {"none"}
    BY <2>1 DEF Seek, PickerState
  <2>3. picker' \in PickerState /\ picker'.word = picker.word /\ picker'.visible = picker.visible
    BY <2>1, <2>2 DEF PickerState
  <2> QED BY <1>3, <2>3 DEF SeekAnswers
<1>4. CASE ConfirmSense
  <2>1. picker' = [picker EXCEPT !.confirming = TRUE]
    BY <1>4 DEF ConfirmSense
  <2>2. picker' \in PickerState /\ picker'.word = picker.word /\ picker'.visible = picker.visible
    BY <2>1 DEF PickerState
  <2> QED BY <1>4, <2>2 DEF ConfirmSense
<1>5. CASE ConfirmAnswers
  <2>1. PICK added \in BOOLEAN :
          picker' = [picker EXCEPT !.confirming = FALSE, !.visible = @ /\ ~added]
    BY <1>5 DEF ConfirmAnswers
  <2>2. /\ picker' \in PickerState /\ picker'.word = picker.word
        /\ picker'.visible => picker.visible
    BY <2>1 DEF PickerState
  <2> QED BY <1>5, <2>2 DEF ConfirmAnswers
<1>6. CASE ClosePicker
  <2>1. picker' = [picker EXCEPT !.visible = FALSE, !.looking = FALSE]
    BY <1>6 DEF ClosePicker
  <2>2. picker' \in PickerState /\ ~picker'.visible
    BY <2>1 DEF PickerState
  <2> QED BY <1>6, <2>2 DEF ClosePicker
<1> QED BY <1>1, <1>2, <1>3, <1>4, <1>5, <1>6 DEF PickerNext

LEMMA AddInvStep == AddInv /\ [AddNext]_addVars => AddInv'
<1> SUFFICES ASSUME AddInv, [AddNext]_addVars PROVE AddInv'
  OBVIOUS
<1>1. QueueInv'
  BY QueueInvStep DEF AddInv
<1>2. CASE QueueNext
  <2>1. UNCHANGED pickerVars /\ (jobs' = jobs \/ jobs' = coming)
    BY <1>2 DEF QueueNext, EnqueueSome, Enqueue, Render, LookupAnswers, AddAnswers
  <2> QED BY <1>1, <2>1 DEF AddInv, PickerInv, pickerVars, QueueInv, Unseen
<1>3. CASE PickerNext
  <2>1. jobs' = jobs
    BY <1>3 DEF PickerNext, SeekWord, SeekMore, SeekAnswers, ConfirmSense, ConfirmAnswers,
                ClosePicker, queueVars
  <2> QED BY <1>1, <1>3, <2>1, PickerInvStep DEF AddInv
<1>4. CASE UNCHANGED addVars
  BY <1>1, <1>4 DEF AddInv, PickerInv, addVars
<1> QED BY <1>2, <1>3, <1>4 DEF AddNext

LEMMA AddInvAlways == AddSpec => []AddInv
  BY AddInvInit, AddInvStep, PTL DEF AddSpec

(* The lists, the worker and the picker keep their types: no list holds     *)
(* anything but jobs, and the picker that is open is open on a word.        *)
THEOREM AddTypesHold == AddSpec => []AddTypeOK
<1>1. AddInv => AddTypeOK
  BY DEF AddInv, PickerInv, PickerState, QueueInv, Unseen, AddTypeOK
<1> QED BY <1>1, AddInvAlways, PTL

===============================================================================
