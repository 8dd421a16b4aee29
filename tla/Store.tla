------------------------------- MODULE Store -------------------------------
(***************************************************************************)
(* The output directory over the life of several processes: the dictionary *)
(* file, one file of encrypted TF values per document name, and the SSE2   *)
(* index, which every import writes in this order over what is there, and  *)
(* which a search reads back without knowing which import they are of.     *)
(* A process makes its HE keys when it starts and never saves them; the    *)
(* key of the HMACs is a constant of the program.                          *)
(*                                                                         *)
(* One process runs at a time.  It ends when the user leaves the menu, in  *)
(* a crash, and when an archive throws, which nobody catches, because a    *)
(* file cannot be written, is missing or is not complete.  A dictionary is *)
(* known by the documents whose words it has.  How an import reads its     *)
(* documents and how a search passes on its results is in IndexBuild and   *)
(* Search.  The sequence of the non-interactive mode is one of those that  *)
(* the menu allows.                                                        *)
(***************************************************************************)
EXTENDS Naturals, FiniteSets

CONSTANTS
  Docs,                \* the documents that have words
  Stems,               \* the file names without path and extension
  StemOf,              \* the file name of every document
  PoolSize,            \* m_oPool->GetSize()
  MaxImports,          \* bound: how many imports are begun
  MaxProcesses         \* bound: how many processes there are

ASSUME StemsAssumption  == StemOf \in [Docs -> Stems]
ASSUME BoundsAssumption == MaxImports \in Nat /\ MaxProcesses \in Nat \ {0}

VARIABLES
  process,             \* the number of the process, which also names its HE keys
  import,              \* the number of the last import begun
  born,                \* history: how many imports earlier processes have begun
  pc,                  \* where main is, "down" between two processes
  coll,                \* the documents in the directory that is imported
  entered,             \* those whose words are in m_oDictionary
  indexed,             \* those that are in m_oTFIndex
  settled,             \* history: when the last import that opened its dictionary
                       \* file had slept, all its documents were in the index
  saved,               \* the documents in what main is writing to a file
  words,               \* m_oDictionary when the TF values were calculated
  left,                \* the documents whose vectors no worker has begun to write
  writing,             \* the documents whose files workers have open
  dictFile, sse2File,  \* Dictionary.index and SSE2.index
  tfFile,              \* the .tfi file of every name
  sse2, dict,          \* the SSE2 index and the dictionary a search has read
  hits,                \* the names it has found, as far as not measured
  measured             \* history: names that have been, with what was read of them

importVars == <<import, coll, entered, indexed, settled, saved, words, left, writing>>
diskVars   == <<dictFile, sse2File, tfFile>>
searchVars == <<sse2, dict, hits, measured>>
vars == <<process, born, pc, importVars, diskVars, searchVars>>

\* What a file may hold: nothing, a part of what is being written, a mixture of
\* what two threads have written; or else a whole archive.
Missing == [state |-> "missing"]
Torn    == [state |-> "torn"]
Mixed   == [state |-> "mixed"]
Broken  == {Missing, Torn, Mixed}
Whole(f) == f.state = "whole"

Imports   == 0 .. MaxImports
Processes == 1 .. MaxProcesses

\* by is the import, key the process whose keys encrypt the vector.  History:
\* sound tells that the import had settled and that no name was used twice.
Dictionaries == [state : {"whole"}, by : Imports, docs : SUBSET Docs]
Vectors      == [state : {"whole"}, by : Imports, key : Processes, doc : Docs,
                 docs : SUBSET Docs]
SSE2Indexes  == [state : {"whole"}, by : Imports, docs : SUBSET Docs, sound : BOOLEAN]

Importing == {"read", "dict", "tf", "encrypt", "sse2", "savesse2"}
Menu      == {"menu", "built"}

TypeOK ==
  /\ process \in Processes /\ import \in Imports /\ born \in 0 .. import
  /\ pc \in Importing \cup Menu \cup {"lookup", "query", "measure", "down"}
  /\ coll \subseteq Docs /\ entered \subseteq coll /\ indexed \subseteq entered
  /\ settled \in BOOLEAN
  /\ saved \subseteq Docs /\ words \subseteq Docs
  /\ left \subseteq Docs /\ writing \subseteq Docs
  /\ dictFile \in Dictionaries \cup Broken
  /\ sse2File \in SSE2Indexes \cup Broken
  /\ tfFile \in [Stems -> Vectors \cup Broken]
  /\ sse2 \in SSE2Indexes \cup Broken /\ dict \in Dictionaries \cup Broken
  /\ hits \subseteq Stems
  /\ measured \subseteq Stems \X (Vectors \cup {Mixed})

Init ==
  /\ process = 1 /\ import = 0 /\ born = 0
  /\ pc = "menu"
  /\ coll = {} /\ entered = {} /\ indexed = {} /\ settled = FALSE
  /\ saved = {} /\ words = {} /\ left = {} /\ writing = {}
  /\ dictFile = Missing /\ sse2File = Missing
  /\ tfFile = [s \in Stems |-> Missing]
  /\ sse2 = Missing /\ dict = Missing
  /\ hits = {} /\ measured = {}

-----------------------------------------------------------------------------
(* IndexBuildEngine::Startup, with an engine made for it.                  *)

Import(D) ==
  /\ pc \in Menu
  /\ import < MaxImports
  /\ import' = import + 1
  /\ pc' = "read"
  /\ coll' = D /\ entered' = {} /\ indexed' = {}
  /\ UNCHANGED <<process, born, settled, saved, words, left, writing, diskVars,
                 searchVars>>

\* The handler of the event queue, at work until it has seen every document;
\* nothing but ten seconds of sleep keeps it apart from what main does.
AddWords(d) ==
  /\ pc \in Importing
  /\ entered = indexed
  /\ d \in coll \ entered
  /\ entered' = entered \cup {d}
  /\ UNCHANGED <<process, born, pc, import, coll, indexed, settled, saved, words,
                 left, writing, diskVars, searchVars>>

AddTFIndex ==
  /\ pc \in Importing
  /\ indexed # entered
  /\ indexed' = entered
  /\ UNCHANGED <<process, born, pc, import, coll, entered, settled, saved, words,
                 left, writing, diskVars, searchVars>>

\* Fault: the file is opened before the dictionary is looked at.
NoDictionaryAfterOpening ==
  /\ pc = "read"
  /\ entered = {}
  /\ dictFile' = Torn
  /\ pc' = "menu"
  /\ UNCHANGED <<process, born, importVars, sse2File, tfFile, searchVars>>

\* There are no files, or no words in them.
NoDictionary ==
  /\ pc = "read"
  /\ entered = {}
  /\ pc' = "menu"
  /\ UNCHANGED <<process, born, importVars, diskVars, searchVars>>

\* The sleep has ended, and the file is opened.
OpenDictionary ==
  /\ pc = "read"
  /\ entered # {}
  /\ settled' = (indexed = coll)
  /\ saved' = entered
  /\ dictFile' = Torn
  /\ pc' = "dict"
  /\ UNCHANGED <<process, born, import, coll, entered, indexed, words, left,
                 writing, sse2File, tfFile, searchVars>>

\* What is written of words that the handler adds meanwhile is open.
DictionarySaved ==
  /\ pc = "dict"
  /\ \E new \in SUBSET (entered \ saved) :
       dictFile' = [state |-> "whole", by |-> import, docs |-> saved \cup new]
  /\ pc' = "tf"
  /\ UNCHANGED <<process, born, importVars, sse2File, tfFile, searchVars>>

\* The words of the dictionary are counted, but no document has been indexed.
NoTFIndex ==
  /\ pc = "tf"
  /\ indexed = {}
  /\ pc' = "menu"
  /\ UNCHANGED <<process, born, importVars, diskVars, searchVars>>

\* One step here: a document that is indexed later has no TF values, and then
\* its task writes nothing.
CalcTermFrequency ==
  /\ pc = "tf"
  /\ indexed # {}
  /\ words' = entered
  /\ left' = indexed
  /\ pc' = "encrypt"
  /\ UNCHANGED <<process, born, import, coll, entered, indexed, settled, saved,
                 writing, diskVars, searchVars>>

\* Fault: a file that is there is not written again.
OpenTFOnce(d) ==
  /\ pc = "encrypt"
  /\ d \in left
  /\ Cardinality(writing) < PoolSize
  /\ left' = left \ {d}
  /\ IF Whole(tfFile[StemOf[d]])
     THEN UNCHANGED <<writing, tfFile>>
     ELSE /\ writing' = writing \cup {d}
          /\ tfFile' = [tfFile EXCEPT ![StemOf[d]] = Torn]
  /\ UNCHANGED <<process, born, pc, import, coll, entered, indexed, settled, saved,
                 words, dictFile, sse2File, searchVars>>

\* A worker opens the file of document d, which an earlier import or a document
\* of the same name may have written, or be writing.
OpenTF(d) ==
  /\ pc = "encrypt"
  /\ d \in left
  /\ Cardinality(writing) < PoolSize
  /\ left' = left \ {d}
  /\ writing' = writing \cup {d}
  /\ tfFile' = [tfFile EXCEPT ![StemOf[d]] =
                  IF \E e \in writing : StemOf[e] = StemOf[d] THEN Mixed ELSE Torn]
  /\ UNCHANGED <<process, born, pc, import, coll, entered, indexed, settled, saved,
                 words, dictFile, sse2File, searchVars>>

Vector(d) == [state |-> "whole", by |-> import, key |-> process, doc |-> d,
              docs |-> words]

TFWritten(d) ==
  /\ d \in writing
  /\ writing' = writing \ {d}
  /\ tfFile' = [tfFile EXCEPT ![StemOf[d]] = IF @ = Mixed THEN Mixed ELSE Vector(d)]
  /\ UNCHANGED <<process, born, pc, import, coll, entered, indexed, settled, saved,
                 words, left, dictFile, sse2File, searchVars>>

\* Fault: main does not wait for the workers.
EncryptBarrierMissing ==
  /\ pc = "encrypt"
  /\ left = {}
  /\ pc' = "sse2"
  /\ UNCHANGED <<process, born, importVars, diskVars, searchVars>>

\* Every worker is free again.
EncryptBarrier ==
  /\ pc = "encrypt"
  /\ left = {} /\ writing = {}
  /\ pc' = "sse2"
  /\ UNCHANGED <<process, born, importVars, diskVars, searchVars>>

\* MakeSSE2Index, and the file is opened.  The index is never empty: the words
\* of a document that is indexed are in the dictionary.
OpenSSE2Index ==
  /\ pc = "sse2"
  /\ saved' = indexed
  /\ sse2File' = Torn
  /\ pc' = "savesse2"
  /\ UNCHANGED <<process, born, import, coll, entered, indexed, settled, words,
                 left, writing, dictFile, tfFile, searchVars>>

DifferentNames(D) == \A d, e \in D : StemOf[d] = StemOf[e] => d = e

SSE2IndexSaved ==
  /\ pc = "savesse2"
  /\ sse2File' = [state |-> "whole", by |-> import, docs |-> saved,
                  sound |-> settled /\ DifferentNames(coll)]
  /\ pc' = "built"
  /\ UNCHANGED <<process, born, importVars, dictFile, tfFile, searchVars>>

-----------------------------------------------------------------------------
(* SearchEngine::SearchIndex, with an engine made for it.                  *)

ReadSSE2Index ==
  /\ pc \in Menu
  /\ Whole(sse2File)
  /\ sse2' = sse2File
  /\ dict' = Missing /\ hits' = {} /\ measured' = {}
  /\ pc' = "lookup"
  /\ UNCHANGED <<process, born, importVars, diskVars>>

Names == {StemOf[d] : d \in sse2.docs}

\* The HMACs are the same in every process: what a search finds does not
\* depend on its keys.
SearchSSE2Index ==
  /\ pc = "lookup"
  /\ hits' \in SUBSET Names
  /\ pc' = IF hits' = {} THEN "menu" ELSE "query"
  /\ UNCHANGED <<process, born, importVars, diskVars, sse2, dict, measured>>

\* The query vector is made with the dictionary in the file.
ReadKeywordDictionary ==
  /\ pc = "query"
  /\ Whole(dictFile)
  /\ dict' = dictFile
  /\ pc' = "measure"
  /\ UNCHANGED <<process, born, importVars, diskVars, sse2, hits, measured>>

\* A task of the pool multiplies what it reads of the vector with the query.  A
\* mixture may or may not read as an archive.
Measure(s) ==
  /\ pc = "measure"
  /\ s \in hits
  /\ tfFile[s] \notin {Missing, Torn}
  /\ measured' = measured \cup {<<s, tfFile[s]>>}
  /\ hits' = hits \ {s}
  /\ UNCHANGED <<process, born, pc, importVars, diskVars, sse2, dict>>

SearchEnds ==
  /\ pc = "measure"
  /\ hits = {}
  /\ pc' = "menu"
  /\ UNCHANGED <<process, born, importVars, diskVars, searchVars>>

-----------------------------------------------------------------------------
(* Processes.                                                              *)

\* The user leaves, the process crashes, or an archive throws: what is left is
\* the disk.
Ends ==
  /\ pc # "down"
  /\ pc' = "down"
  /\ coll' = {} /\ entered' = {} /\ indexed' = {}
  /\ saved' = {} /\ words' = {} /\ left' = {} /\ writing' = {}
  /\ sse2' = Missing /\ dict' = Missing /\ hits' = {} /\ measured' = {}
  /\ UNCHANGED <<process, born, import, settled, diskVars>>

\* main and HEManager::Init: new keys.
Starts ==
  /\ pc = "down"
  /\ process < MaxProcesses
  /\ process' = process + 1
  /\ born' = import
  /\ pc' = "menu"
  /\ UNCHANGED <<importVars, diskVars, searchVars>>

-----------------------------------------------------------------------------
ImportNext ==
  \/ \E D \in SUBSET Docs : Import(D)
  \/ \E d \in Docs : AddWords(d) \/ OpenTF(d) \/ TFWritten(d)
  \/ AddTFIndex
  \/ NoDictionary \/ OpenDictionary \/ DictionarySaved
  \/ NoTFIndex \/ CalcTermFrequency
  \/ EncryptBarrier \/ OpenSSE2Index \/ SSE2IndexSaved

SearchNext ==
  \/ ReadSSE2Index \/ SearchSSE2Index \/ ReadKeywordDictionary
  \/ \E s \in Stems : Measure(s)
  \/ SearchEnds

\* The last process that the bound allows has ended.
Over == pc = "down" /\ process = MaxProcesses /\ UNCHANGED vars

Next == ImportNext \/ SearchNext \/ Ends \/ Starts \/ Over

Spec == Init /\ [][Next]_vars

-----------------------------------------------------------------------------
\* File f has the vector of document d, with the words of docs, of import i.
IsVectorOf(f, d, docs, i) ==
  f \in Vectors /\ f.doc = d /\ f.docs = docs /\ f.by = i

\* A dictionary and an SSE2 index of the same import vouch for everything that
\* was written between them: an import overwrites the dictionary before it
\* touches any other file and the SSE2 index after all of them, so whatever was
\* cut short and overwritten, by whatever process, every document in the index
\* has its file, complete, and made with just these words.
PairVouches ==
  /\ Whole(dictFile) /\ Whole(sse2File)
  /\ dictFile.by = sse2File.by
  /\ sse2File.sound
  => \A d \in sse2File.docs :
       IsVectorOf(tfFile[StemOf[d]], d, dictFile.docs, dictFile.by)

\* In the process that built the index, the menu finds such a pair, although
\* further imports may have failed since: one that finds no words leaves the
\* disk alone, and one that has begun to write does not return before it has
\* replaced everything.  (An import that had not settled may.)
PairInMenu ==
  pc \in Menu /\ Whole(sse2File) /\ sse2File.by > born /\ settled =>
    Whole(dictFile) /\ dictFile.by = sse2File.by

\* A search that has read such a pair comes to its end: every file it still
\* has to read is complete.  What it has read are vectors of the documents
\* named, with the words of the query vector, and it can decrypt the products
\* if, and only if, the import was made by its own process.
SearchRight ==
  pc = "measure" /\ sse2.sound /\ dict.by = sse2.by =>
    /\ \A s \in hits : Whole(tfFile[s])
    /\ \A m \in measured :
         \E d \in sse2.docs :
           /\ StemOf[d] = m[1]
           /\ IsVectorOf(m[2], d, dict.docs, dict.by)
           /\ m[2].key = process <=> dict.by > born

=============================================================================
