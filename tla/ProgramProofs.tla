---------------------------- MODULE ProgramProofs ----------------------------
(***************************************************************************)
(* Proofs about the two views of the whole program: Store, for any         *)
(* documents and names and any bounds, and Launch, for any files, levels   *)
(* and command line.                                                       *)
(***************************************************************************)
EXTENDS Store, Launch, TLAPS

\* From the opening of the dictionary file to the end of an import.
Committing == Importing \ {"read"}
Encrypting == {"encrypt", "sse2", "savesse2"}

\* What is in a file comes from an import that has begun, and vectors of this
\* process are those of imports begun in it.
Numbered ==
  /\ Whole(dictFile) => dictFile.by <= import
  /\ Whole(sse2File) => sse2File.by <= import
  /\ \A s \in Stems : Whole(tfFile[s]) =>
       /\ tfFile[s].by <= import
       /\ tfFile[s].key <= process
       /\ tfFile[s].key = process <=> tfFile[s].by > born

\* While an import is under way the SSE2 index is an older one.
OlderIndex ==
  pc \in Importing =>
    /\ born < import
    /\ Whole(sse2File) => sse2File.by < import

\* The dictionary of the import under way.
NewDictionary ==
  /\ pc \in Committing /\ settled => coll # {} /\ entered = coll /\ indexed = coll
  /\ pc = "dict" /\ settled => saved = coll
  /\ pc \in Committing \ {"dict"} =>
       /\ Whole(dictFile) /\ dictFile.by = import
       /\ settled => dictFile.docs = coll
  /\ pc \in Encrypting /\ settled => words = coll
  /\ pc = "savesse2" /\ settled => saved = coll

\* A settled import whose documents have different names has written, is
\* writing or has yet to write the vector of each.
NewVectors ==
  /\ left \cup writing \subseteq coll
  /\ pc # "encrypt" => left = {} /\ writing = {}
  /\ pc \in Encrypting /\ settled /\ DifferentNames(coll) =>
       \A d \in coll :
         \/ d \in left /\ d \notin writing
         \/ d \in writing \ left /\ tfFile[StemOf[d]] = Torn
         \/ d \notin left \cup writing /\ IsVectorOf(tfFile[StemOf[d]], d, coll, import)

\* PairInMenu, as it survives an import that leaves the disk alone.
PairKept ==
  pc \in Menu \cup {"read", "lookup", "query", "measure"}
    /\ Whole(sse2File) /\ sse2File.by > born /\ settled =>
      Whole(dictFile) /\ dictFile.by = sse2File.by

\* A search works on what the disk holds.
SearchReads ==
  /\ pc \in {"lookup", "query", "measure"} => sse2 = sse2File /\ Whole(sse2File)
  /\ pc \in {"query", "measure"} => hits \subseteq Names
  /\ pc \in {"lookup", "query"} => measured = {}
  /\ pc = "measure" => dict = dictFile /\ Whole(dictFile)

MeasuredRight ==
  pc = "measure" /\ sse2.sound /\ dict.by = sse2.by =>
    \A m \in measured :
      \E d \in sse2.docs :
        /\ StemOf[d] = m[1]
        /\ IsVectorOf(m[2], d, dict.docs, dict.by)
        /\ m[2].key = process <=> dict.by > born

Inv ==
  /\ TypeOK /\ Numbered /\ OlderIndex /\ NewDictionary /\ NewVectors
  /\ PairKept /\ SearchReads /\ PairVouches /\ MeasuredRight

-----------------------------------------------------------------------------
\* The initial state satisfies the invariant.
LEMMA InvInit == Init => Inv
<1> SUFFICES ASSUME Init PROVE Inv
  OBVIOUS
<1> USE DEF Init
<1>1. TypeOK
  <2>1. process \in Processes /\ import \in Imports /\ born \in 0 .. import
    BY BoundsAssumption DEF Processes, Imports
  <2>2. dictFile \in Broken /\ sse2File \in Broken /\ sse2 \in Broken /\ dict \in Broken
    BY DEF Broken
  <2>3. tfFile \in [Stems -> Vectors \cup Broken]
    BY DEF Broken
  <2> QED
    BY <2>1, <2>2, <2>3 DEF TypeOK, Menu
<1>2. Numbered
  BY DEF Numbered, Whole, Missing
<1>3. OlderIndex /\ NewDictionary /\ NewVectors
  BY DEF OlderIndex, NewDictionary, NewVectors, Importing, Committing, Encrypting
<1>4. PairKept /\ SearchReads /\ PairVouches /\ MeasuredRight
  BY DEF PairKept, SearchReads, PairVouches, MeasuredRight, Whole, Missing
<1> QED
  BY <1>1, <1>2, <1>3, <1>4 DEF Inv

-----------------------------------------------------------------------------
\* The fields of a whole file.
LEMMA WholeFiles ==
  ASSUME NEW f
  PROVE  /\ f \in Dictionaries \cup Broken /\ Whole(f) => f \in Dictionaries
         /\ f \in SSE2Indexes \cup Broken /\ Whole(f) => f \in SSE2Indexes
         /\ f \in Vectors \cup Broken /\ Whole(f) => f \in Vectors
BY DEF Whole, Broken, Missing, Torn, Mixed

\* An import keeps its lists within the directory and its files in their type.
LEMMA TypeImport == TypeOK /\ ImportNext => TypeOK'
<1> SUFFICES ASSUME TypeOK, ImportNext PROVE TypeOK'
  OBVIOUS
<1> USE DEF TypeOK, importVars, diskVars, searchVars, Importing, Menu
<1>1. ASSUME NEW D \in SUBSET Docs, Import(D) PROVE TypeOK'
  BY <1>1, BoundsAssumption DEF Import, Imports
<1>2. ASSUME NEW d \in Docs, AddWords(d) PROVE TypeOK'
  BY <1>2 DEF AddWords
<1>3. ASSUME NEW d \in Docs, OpenTF(d) PROVE TypeOK'
  <2>1. tfFile' \in [Stems -> Vectors \cup Broken]
    BY <1>3 DEF OpenTF, Broken
  <2> QED
    BY <1>3, <2>1 DEF OpenTF
<1>4. ASSUME NEW d \in Docs, TFWritten(d) PROVE TypeOK'
  <2>1. Vector(d) \in Vectors
    BY DEF Vector, Vectors
  <2>2. tfFile' \in [Stems -> Vectors \cup Broken]
    BY <1>4, <2>1 DEF TFWritten, Broken
  <2> QED
    BY <1>4, <2>2 DEF TFWritten
<1>5. CASE AddTFIndex
  BY <1>5 DEF AddTFIndex
<1>6. CASE NoDictionary
  BY <1>6 DEF NoDictionary
<1>7. CASE OpenDictionary
  BY <1>7 DEF OpenDictionary, Broken
<1>8. CASE DictionarySaved
  <2>1. dictFile' \in Dictionaries
    BY <1>8 DEF DictionarySaved, Dictionaries
  <2> QED
    BY <1>8, <2>1 DEF DictionarySaved
<1>9. CASE NoTFIndex
  BY <1>9 DEF NoTFIndex
<1>10. CASE CalcTermFrequency
  BY <1>10 DEF CalcTermFrequency
<1>11. CASE EncryptBarrier
  BY <1>11 DEF EncryptBarrier
<1>12. CASE OpenSSE2Index
  BY <1>12 DEF OpenSSE2Index, Broken
<1>13. CASE SSE2IndexSaved
  <2>1. sse2File' \in SSE2Indexes
    BY <1>13 DEF SSE2IndexSaved, SSE2Indexes
  <2> QED
    BY <1>13, <2>1 DEF SSE2IndexSaved
<1> QED
  BY <1>1, <1>2, <1>3, <1>4, <1>5, <1>6, <1>7, <1>8, <1>9, <1>10, <1>11, <1>12,
     <1>13 DEF ImportNext

\* A search, the end of a process and the start of another keep the type.
LEMMA TypeRest ==
  TypeOK /\ SearchReads /\ (SearchNext \/ Ends \/ Starts \/ UNCHANGED vars) => TypeOK'
<1> SUFFICES ASSUME TypeOK, SearchReads,
                    SearchNext \/ Ends \/ Starts \/ UNCHANGED vars
             PROVE  TypeOK'
  OBVIOUS
<1> USE DEF TypeOK, importVars, diskVars, searchVars, Importing, Menu
<1>1. CASE ReadSSE2Index
  BY <1>1 DEF ReadSSE2Index, Broken
<1>2. CASE SearchSSE2Index
  <2>1. Names \subseteq Stems
    <3>1. sse2.docs \subseteq Docs
      BY <1>2, WholeFiles DEF SSE2Indexes, SearchReads, SearchSSE2Index
    <3> QED
      BY <3>1, StemsAssumption DEF Names
  <2> QED
    BY <1>2, <2>1 DEF SearchSSE2Index
<1>3. CASE ReadKeywordDictionary
  BY <1>3 DEF ReadKeywordDictionary
<1>4. ASSUME NEW s \in Stems, Measure(s) PROVE TypeOK'
  <2>1. tfFile[s] \in Vectors \cup {Mixed}
    BY <1>4 DEF Measure, Broken
  <2> QED
    BY <1>4, <2>1 DEF Measure
<1>5. CASE SearchEnds
  BY <1>5 DEF SearchEnds
<1>6. CASE Ends
  BY <1>6 DEF Ends, Broken
<1>7. CASE Starts
  BY <1>7, BoundsAssumption DEF Starts, Processes, Imports
<1>8. CASE UNCHANGED vars
  BY <1>8 DEF vars
<1> QED
  BY <1>1, <1>2, <1>3, <1>4, <1>5, <1>6, <1>7, <1>8 DEF SearchNext

-----------------------------------------------------------------------------
\* The numbers in whole files are numbers.
LEMMA FileNumbers ==
  ASSUME TypeOK
  PROVE  /\ process \in Nat /\ import \in Nat /\ born \in Nat /\ born <= import
         /\ Whole(dictFile) => dictFile.by \in Nat
         /\ Whole(sse2File) => sse2File.by \in Nat
         /\ \A s \in Stems : Whole(tfFile[s]) => /\ tfFile[s].by \in Nat
                                                 /\ tfFile[s].key \in 1 .. MaxProcesses
<1>1. process \in Nat /\ import \in Nat /\ born \in Nat /\ born <= import
  BY BoundsAssumption DEF TypeOK, Processes, Imports
<1>2. Whole(dictFile) => dictFile.by \in Nat
  BY WholeFiles DEF TypeOK, Dictionaries, Imports
<1>3. Whole(sse2File) => sse2File.by \in Nat
  BY WholeFiles DEF TypeOK, SSE2Indexes, Imports
<1>4. ASSUME NEW s \in Stems, Whole(tfFile[s])
      PROVE  tfFile[s].by \in Nat /\ tfFile[s].key \in 1 .. MaxProcesses
  <2>1. tfFile[s] \in Vectors
    BY <1>4, WholeFiles DEF TypeOK
  <2> QED
    BY <2>1 DEF Vectors, Imports, Processes
<1> QED
  BY <1>1, <1>2, <1>3, <1>4

\* Numbers of imports and processes only grow, and what is written bears the
\* numbers of now.
LEMMA NumberedStep == Inv /\ [Next]_vars => Numbered'
<1> SUFFICES ASSUME Inv, [Next]_vars PROVE Numbered'
  OBVIOUS
<1> USE FileNumbers DEF Inv, Numbered, diskVars, importVars
<1>1. CASE UNCHANGED <<process, import, born, diskVars>>
  BY <1>1 DEF Whole
<1>2. ASSUME NEW D \in SUBSET Docs, Import(D) PROVE Numbered'
  BY <1>2 DEF Import, Whole
<1>3. ASSUME NEW d \in Docs, OpenTF(d) PROVE Numbered'
  BY <1>3 DEF OpenTF, TypeOK, Whole, Torn, Mixed
<1>4. ASSUME NEW d \in Docs, TFWritten(d) PROVE Numbered'
  <2>1. pc = "encrypt" /\ born < import
    BY <1>4 DEF TFWritten, NewVectors, OlderIndex, Importing
  <2>2. Vector(d).by = import /\ Vector(d).key = process
    BY DEF Vector
  <2>3. ASSUME NEW s \in Stems, s # StemOf[d] \/ tfFile[s] = Mixed
        PROVE  tfFile'[s] = tfFile[s]
    BY <1>4, <2>3 DEF TFWritten, TypeOK
  <2>4. tfFile[StemOf[d]] # Mixed => tfFile'[StemOf[d]] = Vector(d)
    BY <1>4, StemsAssumption DEF TFWritten, TypeOK
  <2> QED
    BY <1>4, <2>1, <2>2, <2>3, <2>4 DEF TFWritten, Whole
<1>5. CASE OpenDictionary
  BY <1>5 DEF OpenDictionary, Whole, Torn
<1>6. CASE OpenSSE2Index
  BY <1>6 DEF OpenSSE2Index, Whole, Torn
<1>7. CASE DictionarySaved
  BY <1>7 DEF DictionarySaved, Whole
<1>8. CASE SSE2IndexSaved
  BY <1>8 DEF SSE2IndexSaved, Whole
<1>9. CASE Starts
  BY <1>9 DEF Starts, Whole
<1> QED
  BY <1>1, <1>2, <1>3, <1>4, <1>5, <1>6, <1>7, <1>8, <1>9
  DEF vars, Next, ImportNext, SearchNext, AddWords, AddTFIndex, NoDictionary, NoTFIndex,
      CalcTermFrequency, EncryptBarrier, ReadSSE2Index, SearchSSE2Index,
      ReadKeywordDictionary, Measure, SearchEnds, Ends, Over

\* An import replaces the SSE2 index in its last step.
LEMMA OlderIndexStep == Inv /\ [Next]_vars => OlderIndex'
<1> SUFFICES ASSUME Inv, [Next]_vars PROVE OlderIndex'
  OBVIOUS
<1> USE FileNumbers DEF Inv, OlderIndex, Importing, diskVars, importVars
<1>1. ASSUME NEW D \in SUBSET Docs, Import(D) PROVE OlderIndex'
  BY <1>1 DEF Import, Whole, Numbered
<1>2. CASE OpenSSE2Index
  BY <1>2 DEF OpenSSE2Index, Whole, Torn
<1>3. CASE ImportNext /\ ~OpenSSE2Index /\ \A D \in SUBSET Docs : ~Import(D)
  BY <1>3 DEF ImportNext, AddWords, OpenTF, TFWritten, AddTFIndex, NoDictionary,
      OpenDictionary, DictionarySaved, NoTFIndex, CalcTermFrequency, EncryptBarrier,
      SSE2IndexSaved, Whole
<1>4. CASE SearchNext \/ Ends \/ Starts
  BY <1>4 DEF SearchNext, ReadSSE2Index, SearchSSE2Index, ReadKeywordDictionary, Measure,
      SearchEnds, Ends, Starts, Menu
<1>5. CASE UNCHANGED vars
  BY <1>5 DEF vars, Whole
<1> QED
  BY <1>1, <1>2, <1>3, <1>4, <1>5 DEF Next, Over

\* A settled import has all its documents in the dictionary file, in the TF
\* values and in the SSE2 index.
LEMMA NewDictionaryStep == Inv /\ [Next]_vars => NewDictionary'
<1> SUFFICES ASSUME Inv, [Next]_vars PROVE NewDictionary'
  OBVIOUS
<1> USE DEF Inv, TypeOK, NewDictionary, Committing, Importing, Encrypting, diskVars,
        importVars
<1>1. ASSUME NEW d \in Docs, AddWords(d) PROVE NewDictionary'
  BY <1>1 DEF AddWords, Whole
<1>2. CASE AddTFIndex
  BY <1>2 DEF AddTFIndex, Whole
<1>3. CASE OpenDictionary
  BY <1>3 DEF OpenDictionary
<1>4. CASE DictionarySaved
  BY <1>4 DEF DictionarySaved, Whole
<1>5. CASE CalcTermFrequency
  BY <1>5 DEF CalcTermFrequency, Whole
<1>6. CASE EncryptBarrier
  BY <1>6 DEF EncryptBarrier, Whole
<1>7. CASE OpenSSE2Index
  BY <1>7 DEF OpenSSE2Index, Whole
<1>8. ASSUME NEW d \in Docs, OpenTF(d) \/ TFWritten(d) PROVE NewDictionary'
  BY <1>8 DEF OpenTF, TFWritten, Whole
<1>9. ASSUME pc' \notin Committing PROVE NewDictionary'
  BY <1>9
<1>10. CASE UNCHANGED vars
  BY <1>10 DEF vars, Whole
<1>11. CASE SearchNext \/ Ends \/ Starts
  BY <1>9, <1>11 DEF SearchNext, ReadSSE2Index, SearchSSE2Index, ReadKeywordDictionary,
      Measure, SearchEnds, Ends, Starts
<1>12. CASE NoDictionary \/ NoTFIndex \/ SSE2IndexSaved \/ \E D \in SUBSET Docs : Import(D)
  BY <1>9, <1>12 DEF NoDictionary, NoTFIndex, SSE2IndexSaved, Import
<1> QED
  BY <1>1, <1>2, <1>3, <1>4, <1>5, <1>6, <1>7, <1>8, <1>10, <1>11, <1>12
  DEF Next, ImportNext, Over

\* The vectors of a settled import: OpenTF moves a document from those left to
\* those being written, TFWritten to those that have their vector.
LEMMA NewVectorsStep == Inv /\ [Next]_vars => NewVectors'
<1> SUFFICES ASSUME Inv, [Next]_vars PROVE NewVectors'
  OBVIOUS
<1> USE DEF Inv, NewVectors, Encrypting, diskVars, importVars
<1>1. ASSUME NEW d \in Docs, OpenTF(d) PROVE NewVectors'
  <2>1. \A e \in Docs : StemOf[e] # StemOf[d] => tfFile'[StemOf[e]] = tfFile[StemOf[e]]
    BY <1>1, StemsAssumption DEF OpenTF, TypeOK
  <2>2. ASSUME settled, DifferentNames(coll)
        PROVE  tfFile'[StemOf[d]] = Torn /\ d \notin writing
    BY <1>1, <2>2, StemsAssumption DEF OpenTF, TypeOK, DifferentNames
  <2>3. ASSUME settled, DifferentNames(coll), NEW e \in coll, e # d
        PROVE  tfFile'[StemOf[e]] = tfFile[StemOf[e]]
    BY <1>1, <2>1, <2>3 DEF OpenTF, TypeOK, DifferentNames
  <2> QED
    BY <1>1, <2>2, <2>3 DEF OpenTF, TypeOK, IsVectorOf
<1>2. ASSUME NEW d \in Docs, TFWritten(d) PROVE NewVectors'
  <2>1. \A e \in Docs : StemOf[e] # StemOf[d] => tfFile'[StemOf[e]] = tfFile[StemOf[e]]
    BY <1>2, StemsAssumption DEF TFWritten, TypeOK
  <2>2. ASSUME settled, DifferentNames(coll)
        PROVE  tfFile'[StemOf[d]] = Vector(d) /\ d \notin left
    BY <1>2, <2>2, StemsAssumption DEF TFWritten, TypeOK, Torn, Mixed
  <2>3. settled => IsVectorOf(Vector(d), d, coll, import)
    BY <1>2 DEF TFWritten, Vector, IsVectorOf, Vectors, TypeOK, NewDictionary
  <2>4. ASSUME settled, DifferentNames(coll), NEW e \in coll, e # d
        PROVE  tfFile'[StemOf[e]] = tfFile[StemOf[e]]
    BY <1>2, <2>1, <2>4 DEF TFWritten, TypeOK, DifferentNames
  <2> QED
    BY <1>2, <2>2, <2>3, <2>4 DEF TFWritten, TypeOK, IsVectorOf, DifferentNames
<1>3. CASE CalcTermFrequency
  BY <1>3 DEF CalcTermFrequency, TypeOK, NewDictionary, Committing, Importing
<1>4. CASE EncryptBarrier
  BY <1>4 DEF EncryptBarrier, IsVectorOf, DifferentNames
<1>5. CASE OpenSSE2Index
  BY <1>5 DEF OpenSSE2Index, IsVectorOf, DifferentNames
<1>6. ASSUME UNCHANGED <<pc, coll, settled, left, writing, import, tfFile>>
      PROVE  NewVectors'
  BY <1>6 DEF IsVectorOf, DifferentNames
<1>7. CASE SSE2IndexSaved
  BY <1>7 DEF SSE2IndexSaved
<1>8. CASE \E D \in SUBSET Docs : Import(D)
  BY <1>8 DEF Import, Menu
<1>9. CASE NoDictionary \/ OpenDictionary \/ DictionarySaved \/ NoTFIndex
  BY <1>9 DEF NoDictionary, OpenDictionary, DictionarySaved, NoTFIndex
<1>10. CASE SearchNext \/ Ends \/ Starts
  BY <1>10 DEF SearchNext, ReadSSE2Index, SearchSSE2Index, ReadKeywordDictionary,
      Measure, SearchEnds, Ends, Starts, Menu
<1>11. CASE (\E d \in Docs : AddWords(d)) \/ AddTFIndex \/ UNCHANGED vars
  BY <1>6, <1>11 DEF AddWords, AddTFIndex, vars
<1> QED
  BY <1>1, <1>2, <1>3, <1>4, <1>5, <1>7, <1>8, <1>9, <1>10, <1>11
  DEF Next, ImportNext, Over

\* An import that ends without an SSE2 index has not touched the disk, and what
\* replaces the index is of the import that replaced the dictionary.
LEMMA PairKeptStep == Inv /\ [Next]_vars => PairKept'
<1> SUFFICES ASSUME Inv, [Next]_vars PROVE PairKept'
  OBVIOUS
<1> DEFINE Quiet == Menu \cup {"read", "lookup", "query", "measure"}
<1> USE DEF Inv, PairKept, Menu, diskVars, importVars
<1>1. ASSUME pc \in Quiet, UNCHANGED <<born, settled, dictFile, sse2File>>
      PROVE  PairKept'
  BY <1>1 DEF Whole
<1>2. ASSUME pc' \notin Quiet PROVE PairKept'
  BY <1>2
<1>3. CASE NoTFIndex
  BY <1>3 DEF NoTFIndex, NewDictionary, Committing, Importing
<1>4. CASE SSE2IndexSaved
  BY <1>4 DEF SSE2IndexSaved, NewDictionary, Committing, Importing, Whole
<1>5. CASE Starts
  BY <1>5, FileNumbers DEF Starts, Numbered, Whole
<1>6. CASE SearchNext \/ NoDictionary \/ \E D \in SUBSET Docs : Import(D)
  BY <1>1, <1>6 DEF SearchNext, ReadSSE2Index, SearchSSE2Index, ReadKeywordDictionary,
      Measure, SearchEnds, NoDictionary, Import
<1>7. CASE OpenDictionary \/ DictionarySaved \/ CalcTermFrequency \/ EncryptBarrier
             \/ OpenSSE2Index \/ Ends \/ \E d \in Docs : OpenTF(d) \/ TFWritten(d)
  BY <1>2, <1>7 DEF OpenDictionary, DictionarySaved, CalcTermFrequency, EncryptBarrier,
      OpenSSE2Index, Ends, OpenTF, TFWritten, NewVectors
<1>8. CASE AddTFIndex \/ (\E d \in Docs : AddWords(d)) \/ UNCHANGED vars
  BY <1>1, <1>2, <1>8 DEF AddTFIndex, AddWords, vars
<1> QED
  BY <1>3, <1>4, <1>5, <1>6, <1>7, <1>8 DEF Next, ImportNext, Over

\* Nothing writes while a search reads.
LEMMA SearchReadsStep == Inv /\ [Next]_vars => SearchReads'
<1> SUFFICES ASSUME Inv, [Next]_vars PROVE SearchReads'
  OBVIOUS
<1> USE DEF Inv, SearchReads, diskVars, searchVars
<1>1. CASE ReadSSE2Index
  BY <1>1 DEF ReadSSE2Index
<1>2. CASE SearchSSE2Index
  BY <1>2 DEF SearchSSE2Index, Names, Whole
<1>3. CASE ReadKeywordDictionary
  BY <1>3 DEF ReadKeywordDictionary, Names, Whole
<1>4. ASSUME NEW s \in Stems, Measure(s) PROVE SearchReads'
  BY <1>4 DEF Measure, Names, Whole
<1>5. CASE SearchEnds \/ Ends \/ Starts
  BY <1>5 DEF SearchEnds, Ends, Starts
<1>6. CASE ImportNext
  <2>1. pc' \in Importing \cup Menu
    BY <1>6 DEF ImportNext, Import, AddWords, OpenTF, TFWritten, AddTFIndex, NoDictionary,
        OpenDictionary, DictionarySaved, NoTFIndex, CalcTermFrequency, EncryptBarrier,
        OpenSSE2Index, SSE2IndexSaved, NewVectors, Importing, Menu
  <2> QED
    BY <2>1 DEF Importing, Menu
<1>7. CASE UNCHANGED vars
  BY <1>7 DEF vars, Names, Whole
<1> QED
  BY <1>1, <1>2, <1>3, <1>4, <1>5, <1>6, <1>7 DEF Next, SearchNext, Over

\* While files are replaced, the dictionary is newer than the SSE2 index; when the
\* SSE2 index is replaced, all of them have been.
LEMMA PairVouchesStep == Inv /\ [Next]_vars => PairVouches'
<1> SUFFICES ASSUME Inv, [Next]_vars PROVE PairVouches'
  OBVIOUS
<1> USE DEF Inv, PairVouches, diskVars, importVars
<1>1. ASSUME UNCHANGED diskVars PROVE PairVouches'
  BY <1>1 DEF Whole, IsVectorOf
<1>2. CASE OpenDictionary \/ OpenSSE2Index
  BY <1>2 DEF OpenDictionary, OpenSSE2Index, Whole, Torn
<1>3. CASE DictionarySaved
  BY <1>3, FileNumbers DEF DictionarySaved, OlderIndex, Importing, Whole
<1>4. ASSUME NEW d \in Docs, OpenTF(d) \/ TFWritten(d) PROVE PairVouches'
  <2>1. dictFile.by = import /\ (Whole(sse2File) => sse2File.by < import)
    BY <1>4 DEF OpenTF, TFWritten, NewVectors, NewDictionary, OlderIndex, Importing, Committing
  <2> QED
    BY <1>4, <2>1, FileNumbers DEF OpenTF, TFWritten, Whole
<1>5. CASE SSE2IndexSaved
  <2>1. ASSUME settled, DifferentNames(coll)
        PROVE  /\ saved = coll /\ dictFile.docs = coll /\ dictFile.by = import
               /\ \A d \in coll : IsVectorOf(tfFile[StemOf[d]], d, coll, import)
    BY <1>5, <2>1 DEF SSE2IndexSaved, NewDictionary, NewVectors, Committing, Importing, Encrypting
  <2> QED
    BY <1>5, <2>1 DEF SSE2IndexSaved, Whole, IsVectorOf
<1> QED
  BY <1>1, <1>2, <1>3, <1>4, <1>5
  DEF vars, Next, ImportNext, SearchNext, Import, AddWords, AddTFIndex, NoDictionary,
      NoTFIndex, CalcTermFrequency, EncryptBarrier, ReadSSE2Index, SearchSSE2Index,
      ReadKeywordDictionary, Measure, SearchEnds, Ends, Starts, Over

\* What a task reads of the disk is what the pair vouches for.
LEMMA MeasuredRightStep == Inv /\ [Next]_vars => MeasuredRight'
<1> SUFFICES ASSUME Inv, [Next]_vars PROVE MeasuredRight'
  OBVIOUS
<1> USE DEF Inv, MeasuredRight, diskVars, searchVars, importVars
<1>1. CASE ReadKeywordDictionary
  BY <1>1 DEF ReadKeywordDictionary, SearchReads
<1>2. ASSUME NEW s \in Stems, Measure(s) PROVE MeasuredRight'
  <2> SUFFICES ASSUME sse2.sound, dict.by = sse2.by
               PROVE  \E d \in sse2.docs :
                        /\ StemOf[d] = s
                        /\ IsVectorOf(tfFile[s], d, dict.docs, dict.by)
                        /\ tfFile[s].key = process <=> dict.by > born
    BY <1>2 DEF Measure, IsVectorOf
  <2>1. PICK d \in sse2.docs : StemOf[d] = s
    BY <1>2 DEF Measure, SearchReads, Names
  <2>2. IsVectorOf(tfFile[s], d, dict.docs, dict.by)
    BY <1>2, <2>1 DEF Measure, SearchReads, PairVouches
  <2>3. Whole(tfFile[s]) /\ tfFile[s].by = dict.by
    BY <2>2 DEF IsVectorOf, Vectors, Whole
  <2> QED
    BY <2>1, <2>2, <2>3 DEF Numbered
<1>3. ASSUME pc' # "measure" PROVE MeasuredRight'
  BY <1>3
<1>4. CASE ReadSSE2Index \/ SearchSSE2Index \/ SearchEnds \/ Ends \/ Starts
  BY <1>3, <1>4 DEF ReadSSE2Index, SearchSSE2Index, SearchEnds, Ends, Starts
<1>5. CASE ImportNext
  <2>1. pc' \in Importing \cup Menu
    BY <1>5 DEF ImportNext, Import, AddWords, OpenTF, TFWritten, AddTFIndex, NoDictionary,
        OpenDictionary, DictionarySaved, NoTFIndex, CalcTermFrequency, EncryptBarrier,
        OpenSSE2Index, SSE2IndexSaved, NewVectors, Importing, Menu
  <2> QED
    BY <1>3, <2>1 DEF Importing, Menu
<1>6. CASE UNCHANGED vars
  BY <1>6 DEF vars, IsVectorOf
<1> QED
  BY <1>1, <1>2, <1>4, <1>5, <1>6 DEF Next, SearchNext, Over

-----------------------------------------------------------------------------
\* The invariant is inductive.
LEMMA Invariance == Spec => []Inv
<1>1. Inv /\ [Next]_vars => Inv'
  <2> SUFFICES ASSUME Inv, [Next]_vars PROVE Inv'
    OBVIOUS
  <2>1. TypeOK'
    BY TypeImport, TypeRest DEF Inv, Next, Over
  <2> QED
    BY <2>1, NumberedStep, OlderIndexStep, NewDictionaryStep, NewVectorsStep,
       PairKeptStep, SearchReadsStep, PairVouchesStep, MeasuredRightStep DEF Inv
<1> QED
  BY <1>1, InvInit, PTL DEF Spec

\* The state of the directory, of the process and of the import and the search
\* under way has its type.
THEOREM TypeCorrect == Spec => []TypeOK
BY Invariance, PTL DEF Inv

\* A dictionary and an SSE2 index of one settled import vouch for the vectors.
THEOREM DictionaryAndIndexVouch == Spec => []PairVouches
BY Invariance, PTL DEF Inv

\* The menu of the process that built the index finds such a pair.
THEOREM MenuFindsPair == Spec => []PairInMenu
<1>1. Inv => PairInMenu
  BY DEF Inv, PairKept, PairInMenu
<1> QED
  BY <1>1, Invariance, PTL

\* A search in such a pair comes to its end, with vectors that fit the query.
THEOREM SearchIsRight == Spec => []SearchRight
<1>1. Inv => SearchRight
  <2> SUFFICES ASSUME Inv, pc = "measure", sse2.sound, dict.by = sse2.by
               PROVE  \A s \in hits : Whole(tfFile[s])
    BY DEF Inv, MeasuredRight, SearchRight
  <2>1. ASSUME NEW s \in hits PROVE Whole(tfFile[s])
    <3>1. PICK d \in sse2.docs : StemOf[d] = s
      BY DEF Inv, SearchReads, Names
    <3> QED
      BY <3>1 DEF Inv, SearchReads, PairVouches, IsVectorOf, Vectors, Whole
  <2> QED
    BY <2>1
<1> QED
  BY <1>1, Invariance, PTL

-----------------------------------------------------------------------------
(* Launch: main and the log.                                               *)

\* The configuration has not been read as long as the command line is.
NoConfYet == place \in {"options", "load"} => conf = Unset

LaunchInv == LaunchTypeOK /\ NoConfYet /\ LogRight

USE DEF logVars, levelVars, historyVars

\* SetFileName keeps the types of the log's variables, and leaves it with the
\* file that was asked for, if it can be opened and is named at all.
LEMMA FileSet ==
  ASSUME LaunchTypeOK, NEW f \in Files \cup {""}, SetFileName(f),
         open = {file} \ {"stdout"}
  PROVE  /\ file' \in Files \cup {"stdout"} /\ filename' \in Files \cup {""}
         /\ open' \subseteq Openable
         /\ f \in Openable => file' = f /\ filename' = f /\ open' = {f}
         /\ f \in Files \ Openable => file' = "stdout" /\ filename' = "" /\ open' = {}
         /\ f = "" => UNCHANGED <<file, filename, open>>
BY FilesAssumption DEF SetFileName, LaunchTypeOK

\* What is open, in terms of where the log writes.
LEMMA FileOpen ==
  ASSUME LaunchTypeOK, LogRight, place # "gone"
  PROVE  open = {file} \ {"stdout"} /\ (filename = "" <=> LogFile = Unset)
BY FilesAssumption DEF LaunchTypeOK, LogRight, LogFile

\* The initial state satisfies the invariant.
LEMMA LaunchInvInit == LaunchInit => LaunchInv
BY FilesAssumption, LevelsAssumption
DEF LaunchInit, LaunchInv, NoConfYet, LaunchTypeOK, Locations, LogRight, LogFile, Selections

\* Every step keeps it.
LEMMA LaunchInvStep == LaunchInv /\ [LaunchNext]_launchVars => LaunchInv'
<1> SUFFICES ASSUME LaunchInv, [LaunchNext]_launchVars PROVE LaunchInv'
  OBVIOUS
<1> USE DEF LaunchInv, NoConfYet
<1>1. CASE Gone
  BY <1>1 DEF Gone, LaunchTypeOK, Locations, LogRight
<1>2. ASSUME NEW f \in Files \cup {""}, OptionO(f) PROVE LaunchInv'
  <2>1. conf = Unset
    BY <1>2 DEF OptionO
  <2>2. open = {file} \ {"stdout"} /\ SetFileName(f)
    BY <1>2, FileOpen DEF OptionO
  <2>3. LaunchTypeOK'
    BY <1>2, <2>2, FileSet DEF OptionO, LaunchTypeOK, Locations
  <2>4. LogRight'
    BY <1>2, <2>1, <2>2, FileSet, FilesAssumption DEF OptionO, LogRight, LogFile
  <2> QED
    BY <1>2, <2>1, <2>3, <2>4 DEF OptionO
<1>3. ASSUME NEW f \in Files \cup {Unset}, SetupLogging(f) PROVE LaunchInv'
  <2>1. CASE f # Unset /\ filename = ""
    <3>1. open = {file} \ {"stdout"} /\ SetFileName(f) /\ f \in Files \cup {""}
      BY <1>3, <2>1, FileOpen DEF SetupLogging
    <3>2. LaunchTypeOK'
      BY <1>3, <3>1, FileSet DEF SetupLogging, LaunchTypeOK, Locations
    <3>3. LogRight'
      BY <1>3, <2>1, <3>1, FileSet, FilesAssumption DEF SetupLogging, LogRight, LogFile
    <3> QED
      BY <1>3, <3>2, <3>3 DEF SetupLogging
  <2>2. CASE ~(f # Unset /\ filename = "")
    BY <1>3, <2>2, FileOpen, FilesAssumption
    DEF SetupLogging, LaunchTypeOK, Locations, LogRight, LogFile
  <2> QED
    BY <2>1, <2>2
<1>4. ASSUME UNCHANGED <<logVars, historyVars>>, place = "gone" => place' = "gone",
             LaunchTypeOK', NoConfYet'
      PROVE  LaunchInv'
  BY <1>4 DEF LogRight, LogFile
<1>5. CASE OptionL \/ OptionsEnd \/ ReadMode \/ ReadThreads
  <2>1. LaunchTypeOK'
    BY <1>5 DEF OptionL, OptionsEnd, ReadMode, ReadThreads, LaunchTypeOK, Locations
  <2> QED
    BY <1>4, <1>5, <2>1 DEF OptionL, OptionsEnd, ReadMode, ReadThreads
<1>6. CASE StartThreads \/ Run \/ KillThreads
  <2>1. LaunchTypeOK'
    BY <1>6 DEF StartThreads, Run, KillThreads, LaunchTypeOK, Locations
  <2> QED
    BY <1>4, <1>6, <2>1 DEF StartThreads, Run, KillThreads
<1>7. CASE ByItself \/ CommandReturns
  <2>1. LaunchTypeOK'
    BY <1>7 DEF ByItself, CommandReturns, LaunchTypeOK, Locations, Queries
  <2> QED
    BY <1>4, <1>7, <2>1 DEF ByItself, CommandReturns
<1>8. ASSUME NEW line, Select(line) PROVE LaunchInv'
  <2>1. choice' \in Selections
    BY <1>8 DEF Select, Selections, LaunchTypeOK
  <2>2. LaunchTypeOK'
    BY <1>8, <2>1 DEF Select, LaunchTypeOK, Locations
  <2> QED
    BY <1>4, <1>8, <2>2 DEF Select
<1>9. CASE UNCHANGED launchVars
  <2>1. LaunchTypeOK'
    BY <1>9 DEF launchVars, LaunchTypeOK
  <2> QED
    BY <1>4, <1>9, <2>1 DEF launchVars
<1> QED
  BY <1>1, <1>2, <1>3, <1>5, <1>6, <1>7, <1>8, <1>9
  DEF LaunchNext, OptionExits, LoadFails, SettingFails, StartFails, RunFails, Dies, Return

\* The invariant holds in every state.
LEMMA LaunchInvariance == LaunchSpec => []LaunchInv
BY LaunchInvInit, LaunchInvStep, PTL DEF LaunchSpec

\* The log goes where it was asked to go, for any command line and configuration.
THEOREM LogGoesWhereAsked == LaunchSpec => []LogRight
BY LaunchInvariance, PTL DEF LaunchInv

\* The state of main and of the log has its type.
THEOREM LaunchTypeCorrect == LaunchSpec => []LaunchTypeOK
BY LaunchInvariance, PTL DEF LaunchInv

=============================================================================
