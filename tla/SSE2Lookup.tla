----------------------------- MODULE SSE2Lookup -----------------------------
(***************************************************************************)
(* The keys of the SSE2 index.  MakeSSE2Index numbers the documents that   *)
(* contain a word and enters each under the HMAC of the word and the       *)
(* number, one written after the other; a search tries the numbers from 0  *)
(* up to the number of file names in the index.  Words may end in digits,  *)
(* so two words can have a key in common, and then the first entry stays.  *)
(* Documents are known by the stem of their file name, and two files may   *)
(* have the same stem.                                                     *)
(*                                                                         *)
(* In the non-interactive mode the words of a query are drawn from the     *)
(* dictionary.  Two keys have the same HMAC only if they are equal.        *)
(* IndexBuild looks at when the index is built; here the lists are what    *)
(* they are.                                                               *)
(***************************************************************************)
EXTENDS Integers, Sequences, FiniteSets, Functions

CONSTANTS
  NumDocs,             \* bound: how many documents are in the index
  Words,               \* bound: the words, in the order of std::string
  Stems,               \* bound: the file names without path and extension
  Base                 \* how many digits lexical_cast has to choose from

\* A word is a sequence of characters; those below Base are the digits.
ASSUME BoundsAssumption == NumDocs \in Nat \ {0} /\ Base \in Nat \ {0, 1}
ASSUME WordsAssumption  == Words \in Seq(Seq(Nat)) /\ IsInjective(Words)

VARIABLES
  content,             \* the words of every document of m_oTFIndex
  stem,                \* its file name
  pc,                  \* "make", "ask", "random", "found" or "down"
  at,                  \* which of Words MakeSSE2Index has come to
  table,               \* m_mIndex of the SSE2Index
  query,               \* the words of the search input, typed or drawn
  found                \* m_oSSE2SearchResults

vars == <<content, stem, pc, at, table, query, found>>

Docs == 1 .. NumDocs

TypeOK ==
  /\ content \in [Docs -> SUBSET Range(Words)] /\ stem \in [Docs -> Stems]
  /\ pc \in {"make", "ask", "random", "found", "down"}
  /\ at \in 1 .. Len(Words) + 1
  /\ Range(table) \subseteq Stems
  /\ query \subseteq Range(Words)
  /\ found \subseteq Range(table)

\* Only documents with words are indexed.
Init ==
  /\ content \in [Docs -> SUBSET Range(Words) \ {{}}]
  /\ stem \in [Docs -> Stems]
  /\ pc = "make"
  /\ at = 1
  /\ table = <<>>
  /\ query = {}
  /\ found = {}

-----------------------------------------------------------------------------
\* lexical_cast of a counter.
Decimal[n \in Nat] ==
  IF n < Base THEN <<n>> ELSE Append(Decimal[n \div Base], n % Base)

Key(w, ctr) == w \o Decimal[ctr]

Dictionary == {w \in Range(Words) : \E d \in Docs : w \in content[d]}

Containing(w) == {d \in Docs : w \in content[d]}

\* The value of ctr when the walk over the documents comes to d.
Counter(w, d) == Cardinality({e \in Containing(w) : e < d})

KeyFor(w, d) == Key(w, Counter(w, d))
WordKeys(w) == {KeyFor(w, d) : d \in Containing(w)}
DocOf(w, k) == CHOOSE d \in Containing(w) : KeyFor(w, d) = k

\* Fault: the documents are entered by their number, not by their name.
EntriesByNumber(w) == [k \in WordKeys(w) |-> DocOf(w, k)]

\* The entries for one word: its documents, numbered from 0.
Entries(w) == [k \in WordKeys(w) |-> stem[DocOf(w, k)]]

\* AddEntry, for every entry: emplace leaves alone what is there.
AddEntries(new) == [k \in DOMAIN table \cup DOMAIN new |->
                      IF k \in DOMAIN table THEN table[k] ELSE new[k]]

\* A word that no document contains is not in the dictionary, and has no entries.
MakeSSE2Index ==
  /\ pc = "make"
  /\ at <= Len(Words)
  /\ table' = AddEntries(Entries(Words[at]))
  /\ at' = at + 1
  /\ UNCHANGED <<content, stem, pc, query, found>>

IndexMade ==
  /\ pc = "make"
  /\ at > Len(Words)
  /\ pc' = "ask"
  /\ UNCHANGED <<content, stem, at, table, query, found>>

GetDocumentCollectionSize == Cardinality(Range(table))

\* GenRandomSearchQuery copies the dictionary to a vector and draws positions,
\* of which the last is one past its end.  5 draws and more can hit any of them.
\* What is read there is undefined: a crash, or a string of any words or none.
GenRandomSearchQuery(drawn, pastTheEnd) ==
  /\ pc = "ask"
  /\ drawn # {} \/ pastTheEnd
  /\ \E junk \in SUBSET Range(Words) :
       /\ ~pastTheEnd => junk = {}
       /\ query' = drawn \cup junk
  /\ pc' = "random"
  /\ UNCHANGED <<content, stem, at, table, found>>

DrawCrashes ==
  /\ pc = "ask"
  /\ pc' = "down"
  /\ UNCHANGED <<content, stem, at, table, query, found>>

\* EncryptSSE2SearchQuery: no word is left of what was drawn.
EmptyQuery ==
  /\ pc = "random"
  /\ query = {}
  /\ pc' = "ask"
  /\ UNCHANGED <<content, stem, at, table, query, found>>

\* Fault: the search begins with number 1.
KeysFromOne(words) ==
  {Key(w, c) : w \in words, c \in 1 .. GetDocumentCollectionSize - 1}

\* ConstructSSE2SearchQuery.
QueryKeys(words) ==
  {Key(w, c) : w \in words, c \in 0 .. GetDocumentCollectionSize - 1}

\* The user types words, or they have been drawn.
Asked(words) == words # {} /\ (pc = "ask" \/ (pc = "random" /\ words = query))

\* Fault: the results of the previous query are not cleared.
SearchOnTop(words) ==
  /\ Asked(words)
  /\ query' = words
  /\ found' = found \cup {table[k] : k \in QueryKeys(words) \cap DOMAIN table}
  /\ pc' = "found"
  /\ UNCHANGED <<content, stem, at, table>>

SearchSSE2Index(words) ==
  /\ Asked(words)
  /\ query' = words
  /\ found' = {table[k] : k \in QueryKeys(words) \cap DOMAIN table}
  /\ pc' = "found"
  /\ UNCHANGED <<content, stem, at, table>>

AskAgain ==
  /\ pc = "found"
  /\ pc' = "ask"
  /\ query' = {}
  /\ UNCHANGED <<content, stem, at, table, found>>

Next ==
  \/ MakeSSE2Index
  \/ IndexMade
  \/ \E drawn \in SUBSET Dictionary, pastTheEnd \in BOOLEAN :
       GenRandomSearchQuery(drawn, pastTheEnd)
  \/ DrawCrashes
  \/ EmptyQuery
  \/ \E words \in SUBSET Range(Words) : SearchSSE2Index(words)
  \/ AskAgain
  \/ pc = "down" /\ UNCHANGED vars

Spec == Init /\ [][Next]_vars

-----------------------------------------------------------------------------
\* Some other word of the dictionary, with a number, reads like w with one.
Ambiguous(w) ==
  \E v \in Dictionary \ {w} : \E c, b \in 0 .. NumDocs - 1 : Key(w, c) = Key(v, b)

Wanted == {stem[d] : d \in {d \in Docs : content[d] \cap query # {}}}

Plain == pc = "found" /\ \A w \in query : ~Ambiguous(w)

\* The hits of a query are documents that contain one of its words, as long
\* as these words cannot be misread, whatever else is in the index and even
\* if files have the same name.
NoFalseHits == Plain => found \subseteq Wanted

\* If the files have different names then every such document is hit: the
\* number of names in the index is enough to reach every number, although
\* entries of other words may have got lost and with them a name.
NoMisses == Plain /\ IsInjective(stem) => Wanted \subseteq found

\* conf/config_sample.conf:41 says "Simsearch pics the N random words from document
\* dictionary".  It does not when a position drawn is the size of the vector.
PicksFromDictionary == pc = "random" => query \subseteq Dictionary

=============================================================================
