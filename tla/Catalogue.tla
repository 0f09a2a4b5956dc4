------------------------------- MODULE Catalogue -------------------------------
(***************************************************************************)
(* The shared catalogue of one word: its senses, the learners' cards on    *)
(* them, and the requests that enrich, translate, import and replace them  *)
(* (words/service.go, import_service.go, retranslate.go).  A call of the   *)
(* enricher lasts seconds, and what was read before it is used after it.   *)
(* A sense's key is its meaning_order, unique in the word by an index.  A  *)
(* gloss stands for all the texts of a sense that are compared.            *)
(***************************************************************************)
EXTENDS Integers, FiniteSets

CONSTANTS
  Glosses,          \* what an enricher or an imported card may say
  Learners,
  CatalogueJobs,    \* requests that may run together
  MaxOrder,         \* bound: keys given out
  MaxJobs,          \* bound: requests, and statements of learners
  CatalogueSeeds    \* rows that may be there at the start: meanings and owned

VARIABLES
  wordStored,  \* the words row exists
  meanings,    \* rows of word_senses, by meaning_order
  translated,  \* senses that have a row of sense_translations
  owned,       \* rows of user_word_senses, by learner and sense
  task,        \* each request: the statement it is before, and what it read
  jobsBegun    \* for the bound

catalogueVars == <<wordStored, meanings, translated, owned, task, jobsBegun>>

Orders == 1 .. MaxOrder
Makers == {"lookup", "force", "import", "retranslate"}
Meaning == [gloss : Glosses, by : Makers]
OwnedCard == [reviews : Nat, archived : BOOLEAN]

ASSUME CatalogueAssumption ==
  /\ IsFiniteSet(Glosses) /\ MaxOrder \in Nat /\ MaxJobs \in Nat
  /\ \A seed \in CatalogueSeeds :
       /\ DOMAIN seed.meanings \subseteq Orders
       /\ \A m \in DOMAIN seed.meanings : seed.meanings[m] \in Meaning
       /\ \A m, n \in DOMAIN seed.meanings :
            /\ seed.meanings[m].by = "lookup" /\ seed.meanings[n].by = "lookup"
            /\ seed.meanings[m].gloss = seed.meanings[n].gloss
            => m = n
       /\ DOMAIN seed.owned \subseteq Learners \X DOMAIN seed.meanings
       /\ \A c \in DOMAIN seed.owned : seed.owned[c] \in OwnedCard

JobSteps == {"translate", "enrich", "persist", "append", "replace", "remap", "import", "number", "own"}
NoTask == [at |-> "idle"]

(* A card lies on a sense that exists: the foreign key cascades.           *)
CatalogueTypeOK ==
  /\ wordStored \in BOOLEAN
  /\ DOMAIN meanings \subseteq Orders /\ \A m \in DOMAIN meanings : meanings[m] \in Meaning
  /\ DOMAIN meanings # {} => wordStored
  /\ translated \subseteq DOMAIN meanings
  /\ DOMAIN owned \subseteq Learners \X DOMAIN meanings /\ \A c \in DOMAIN owned : owned[c] \in OwnedCard
  /\ DOMAIN task = CatalogueJobs
  /\ \A r \in CatalogueJobs : task[r] = NoTask \/ task[r].at \in JobSteps
  /\ jobsBegun \in 0 .. MaxJobs

GlossesOf(rows) == {rows[m].gloss : m \in DOMAIN rows}
LastOrder == CHOOSE n \in 0 .. MaxOrder :
               n \in DOMAIN meanings \cup {0} /\ \A m \in DOMAIN meanings : m <= n

BeginJob == jobsBegun < MaxJobs /\ jobsBegun' = jobsBegun + 1
Starts(r) == task[r] = NoTask /\ BeginJob
Then(r, state) == task' = [task EXCEPT ![r] = state]
Finishes(r) == Then(r, NoTask)
InRemap == \E r \in CatalogueJobs : task[r].at = "remap"

RoomFor(kept) == LastOrder + Cardinality(kept) <= MaxOrder

(* appendSenses: the senses kept, in any order, are numbered from the one  *)
(* after the last.                                                         *)
NewRows(kept, by) ==
  LET batch == LastOrder + 1 .. LastOrder + Cardinality(kept) IN
  {[m \in batch |-> [gloss |-> f[m], by |-> by]] :
     f \in {g \in [batch -> kept] : {g[m] : m \in batch} = kept}}

WithRows(rows) == [m \in DOMAIN meanings \cup DOMAIN rows |->
                     IF m \in DOMAIN rows THEN rows[m] ELSE meanings[m]]

OwnedWith(l, m) ==
  [c \in DOMAIN owned \cup {<<l, m>>} |->
     IF c = <<l, m>> THEN IF c \in DOMAIN owned THEN [owned[c] EXCEPT !.archived = FALSE]
                          ELSE [reviews |-> 0, archived |-> FALSE]
     ELSE owned[c]]
-----------------------------------------------------------------------------
CatalogueInit ==
  /\ \E seed \in CatalogueSeeds :
       /\ meanings = seed.meanings /\ owned = seed.owned /\ wordStored = (DOMAIN seed.meanings # {})
  /\ translated = {}
  /\ task = [r \in CatalogueJobs |-> NoTask] /\ jobsBegun = 0

(* Lookup, also the one that an import makes for each of its cards: a      *)
(* stored word is answered from the catalogue, and its senses translated   *)
(* if some are not.                                                        *)
Lookup(r) ==
  /\ Starts(r)
  /\ IF wordStored
     THEN Then(r, [at |-> "translate", missing |-> DOMAIN meanings \ translated])
     ELSE Then(r, [at |-> "enrich"])
  /\ UNCHANGED <<wordStored, meanings, translated, owned>>

(* ensureWordTranslations: the enricher may fail or leave senses out; each *)
(* row is written by itself, until one is of a sense that was deleted.     *)
CacheTranslations(r) ==
  /\ task[r].at = "translate" /\ Finishes(r)
  /\ \E given \in SUBSET task[r].missing :
       translated' = translated \cup (given \cap DOMAIN meanings)
  /\ UNCHANGED <<wordStored, meanings, owned, jobsBegun>>

(* Enrich, by one enricher and then by the other.                          *)
Enrich(r) ==
  /\ task[r].at = "enrich"
  /\ \/ Finishes(r)
     \/ \E found \in (SUBSET Glosses) \ {{}} : Then(r, [at |-> "persist", found |-> found])
  /\ UNCHANGED <<wordStored, meanings, translated, owned, jobsBegun>>

(* Mutant: only the batch itself is searched for near duplicates. *)
ProperOfBatch(found) == found

ProperGlosses(found) == found \ GlossesOf(meanings)

(* persistEntries: one transaction, which locks the word's row first.  A   *)
(* word that would have no sense is deleted again.  What is kept has a     *)
(* gloss in the display language.                                          *)
PersistEntries(r) ==
  LET kept == ProperGlosses(task[r].found) IN
  /\ task[r].at = "persist" /\ ~InRemap /\ RoomFor(kept) /\ Finishes(r)
  /\ \E rows \in NewRows(kept, "lookup") :
       meanings' = WithRows(rows) /\ translated' = translated \cup DOMAIN rows
  /\ wordStored' = (wordStored \/ kept # {})
  /\ UNCHANGED <<owned, jobsBegun>>

(* ForceGenerate reads the existing texts before it calls the enricher.  A *)
(* request by text and part of speech ends in persistEntries, one by word  *)
(* in appendSenses.                                                        *)
ForceGenerate(r) ==
  /\ Starts(r)
  /\ \E found \in SUBSET (Glosses \ GlossesOf(meanings)) \ {{}} :
       \/ Then(r, [at |-> "persist", found |-> found])
       \/ wordStored /\ Then(r, [at |-> "append", found |-> found])
  /\ UNCHANGED <<wordStored, meanings, translated, owned>>

AppendForced(r) ==
  /\ task[r].at = "append" /\ ~InRemap /\ RoomFor(task[r].found) /\ Finishes(r)
  /\ \E rows \in NewRows(task[r].found, "force") :
       meanings' = WithRows(rows) /\ translated' = translated \cup DOMAIN rows
  /\ UNCHANGED <<wordStored, owned, jobsBegun>>

(* Two appends that read the same last number: the index refuses one.      *)
LosesNumber(r) ==
  /\ task[r].at \in {"persist", "append"} /\ Finishes(r)
  /\ \E other \in CatalogueJobs \ {r} : task[other].at \in {"persist", "append", "number", "remap"}
  /\ UNCHANGED <<wordStored, meanings, translated, owned, jobsBegun>>
-----------------------------------------------------------------------------
(* An import of one card.  The preview looks the word up (if it was not    *)
(* stored and the enricher knows it, Lookup has run before); what it found *)
(* is used by the import.  A card the preview found no sense for is looked *)
(* up again (createWordAndSenseFromAnki), before a sense is made of it.    *)
PreviewAnkiImport(r, l, back) ==
  /\ Starts(r)
  /\ Then(r, [at |-> "import", learner |-> l, back |-> back, options |-> meanings])
  /\ UNCHANGED <<wordStored, meanings, translated, owned>>

Matching(rows, back) == {m \in DOMAIN rows : rows[m].gloss = back}

ImportCard(r) ==
  LET q == task[r]
      matched == Matching(q.options, q.back) IN
  /\ q.at = "import"
  /\ \/ Finishes(r) /\ UNCHANGED <<wordStored, meanings>>
     \/ \E m \in IF matched # {} THEN matched ELSE Matching(meanings, q.back) :
          /\ Then(r, [at |-> "own", learner |-> q.learner, meaning |-> m])
          /\ UNCHANGED <<wordStored, meanings>>
     \/ \E m \in IF matched # {} THEN matched ELSE DOMAIN q.options :
          /\ meanings' = IF m \notin DOMAIN meanings THEN meanings
                         ELSE [meanings EXCEPT ![m] = [gloss |-> q.back, by |-> "import"]]
          /\ Then(r, [at |-> "own", learner |-> q.learner, meaning |-> m])
          /\ UNCHANGED wordStored
     \/ /\ wordStored' = TRUE
        /\ Then(r, [at |-> "number", learner |-> q.learner, back |-> q.back, order |-> LastOrder + 1])
        /\ UNCHANGED meanings
  /\ UNCHANGED <<translated, owned, jobsBegun>>

(* appendSenseToWord: the number was read by a statement of its own.       *)
InsertImported(r) ==
  LET q == task[r] IN
  /\ q.at = "number" /\ ~InRemap /\ q.order <= MaxOrder
  /\ IF q.order \in DOMAIN meanings
     THEN Finishes(r) /\ UNCHANGED meanings
     ELSE /\ meanings' = WithRows([m \in {q.order} |-> [gloss |-> q.back, by |-> "import"]])
          /\ Then(r, [at |-> "own", learner |-> q.learner, meaning |-> q.order])
  /\ UNCHANGED <<wordStored, translated, owned, jobsBegun>>

OwnImported(r) ==
  LET q == task[r] IN
  /\ q.at = "own" /\ Finishes(r)
  /\ owned' = IF q.meaning \in DOMAIN meanings THEN OwnedWith(q.learner, q.meaning) ELSE owned
  /\ UNCHANGED <<wordStored, meanings, translated, jobsBegun>>
-----------------------------------------------------------------------------
(* What learners do meanwhile, one transaction each.                       *)
AddOwned(l, m) ==
  /\ BeginJob /\ m \in DOMAIN meanings
  /\ owned' = OwnedWith(l, m)
  /\ UNCHANGED <<wordStored, meanings, translated, task>>

ReviewOwned(c) ==
  /\ BeginJob /\ c \in DOMAIN owned /\ ~owned[c].archived
  /\ owned' = [owned EXCEPT ![c].reviews = @ + 1]
  /\ UNCHANGED <<wordStored, meanings, translated, task>>

ArchiveOwned(c) ==
  /\ BeginJob /\ c \in DOMAIN owned /\ ~owned[c].archived
  /\ owned' = [owned EXCEPT ![c].archived = TRUE]
  /\ UNCHANGED <<wordStored, meanings, translated, task>>
-----------------------------------------------------------------------------
(* cmd/retranslate-senses works on one word after the other, beside the    *)
(* running server.  Nothing is written when the enricher fails.            *)
RetranslateWord(r) ==
  /\ Starts(r) /\ wordStored
  /\ \A other \in CatalogueJobs : task[other].at \notin {"replace", "remap"}
  /\ Then(r, [at |-> "replace", old |-> DOMAIN meanings, last |-> LastOrder])
  /\ UNCHANGED <<wordStored, meanings, translated, owned>>

(* The transaction up to the query for the cards: the new senses are       *)
(* written, and AutoMatchSenseID gives each old one a sense numbered after *)
(* the old, be it of this batch or of another append.                      *)
AppendRetranslated(r) ==
  LET q == task[r] IN
  /\ q.at = "replace"
  /\ \/ Finishes(r)
     \/ \E found \in (SUBSET Glosses) \ {{}} :
          /\ RoomFor(found)
          /\ \E rows \in NewRows(found, "retranslate") :
             \E match \in [q.old -> {m \in DOMAIN WithRows(rows) : m > q.last}] :
               Then(r, [at |-> "remap", old |-> q.old, rows |-> rows, match |-> match,
                        cards |-> [c \in {o \in DOMAIN owned : o[2] \in q.old} |-> owned[c].reviews]])
  /\ UNCHANGED <<wordStored, meanings, translated, owned, jobsBegun>>

(* Mutant: the comparison of review counts is the wrong way round. *)
WinnerFewest(pool, reviews) ==
  CHOOSE c \in pool : \A o \in pool :
    reviews[c] < reviews[o] \/ (reviews[c] = reviews[o] /\ c[2] <= o[2])

(* pickRemapWinner: the most reviews; of equals the older card, taken here *)
(* to be the one on the earlier sense.                                     *)
Winner(pool, reviews) ==
  CHOOSE c \in pool : \A o \in pool :
    reviews[c] > reviews[o] \/ (reviews[c] = reviews[o] /\ c[2] <= o[2])

(* The cards of a learner whose senses became one compete with an active   *)
(* card on that sense.                                                     *)
RemapTarget(q, c) == <<c[1], q.match[c[2]]>>
RemapTargets(q) == {RemapTarget(q, c) : c \in DOMAIN q.cards}
RemapPool(q, g) == {c \in DOMAIN q.cards : RemapTarget(q, c) = g} \cup
                   {o \in {g} \cap DOMAIN owned : ~owned[o].archived}
RemapCounts(q) ==
  [c \in DOMAIN owned |-> IF c \in DOMAIN q.cards THEN q.cards[c] ELSE owned[c].reviews]
RemapWinner(q, g) == Winner(RemapPool(q, g), RemapCounts(q))

(* remapUserWordSenses and the delete.  The other cards of the old senses, *)
(* with those added since the query, cascade away.  The move fails when    *)
(* the learner has a card there already.                                   *)
RemapCards(r) ==
  LET q == task[r]
      stay == {c \in DOMAIN owned : c[2] \notin q.old} IN
  /\ q.at = "remap" /\ Finishes(r)
  /\ IF \E g \in RemapTargets(q) \cap DOMAIN owned : RemapWinner(q, g) # g
     THEN UNCHANGED <<meanings, translated, owned>>
     ELSE /\ meanings' = [m \in DOMAIN WithRows(q.rows) \ q.old |-> WithRows(q.rows)[m]]
          /\ \E ready \in SUBSET DOMAIN q.rows : translated' = (translated \ q.old) \cup ready
          /\ owned' = [c \in stay \cup RemapTargets(q) |->
                         owned[IF c \in RemapTargets(q) THEN RemapWinner(q, c) ELSE c]]
  /\ UNCHANGED <<wordStored, jobsBegun>>
-----------------------------------------------------------------------------
CatalogueNext ==
  \/ \E r \in CatalogueJobs :
       \/ Lookup(r) \/ CacheTranslations(r) \/ Enrich(r) \/ PersistEntries(r)
       \/ ForceGenerate(r) \/ AppendForced(r) \/ LosesNumber(r)
       \/ \E l \in Learners, back \in Glosses : PreviewAnkiImport(r, l, back)
       \/ ImportCard(r) \/ InsertImported(r) \/ OwnImported(r)
       \/ RetranslateWord(r) \/ AppendRetranslated(r) \/ RemapCards(r)
  \/ \E l \in Learners, m \in Orders :
       AddOwned(l, m) \/ ReviewOwned(<<l, m>>) \/ ArchiveOwned(<<l, m>>)

CatalogueSpec == CatalogueInit /\ [][CatalogueNext]_catalogueVars
-----------------------------------------------------------------------------
(* Learners that look the same unknown word up at the same time do not     *)
(* fill the catalogue with the same sense twice: of two senses that        *)
(* lookups stored, neither repeats the other.                              *)
NoSenseTwice ==
  \A m, n \in DOMAIN meanings :
    /\ meanings[m].by = "lookup" /\ meanings[n].by = "lookup"
    /\ meanings[m].gloss = meanings[n].gloss
    => m = n

(* Replacing the senses of a word never costs a learner the history that   *)
(* the remap saw: for every card it read, the learner is left with a card  *)
(* that was reviewed as often or more.                                     *)
CardsCarriedOver ==
  [][\A r \in CatalogueJobs :
       task[r].at = "remap" /\ meanings' # meanings =>
         \A c \in DOMAIN task[r].cards :
           \E kept \in DOMAIN owned' :
             kept[1] = c[1] /\ owned'[kept].reviews >= task[r].cards[c]
    ]_catalogueVars
=============================================================================
