----------------------------- MODULE IndexBuild -----------------------------
(***************************************************************************)
(* IndexBuildEngine::Startup with everything it sets in motion: tasks of   *)
(* the pool that read documents and enqueue their words, the handler of    *)
(* the event queue that enters the words into the dictionary and the list  *)
(* of document indexes, ten seconds of sleep, and then the dictionary, the *)
(* encrypted term frequencies and the SSE2 index that main writes out.     *)
(* Dictionary and list are shared by main and the handler without a lock.  *)
(*                                                                         *)
(* The pool appears as ThreadPool promises it in TaskDispatch, the queue   *)
(* as EventQueue promises it in EventChannel, the batches as Slicing shows *)
(* them to be cut.  A file that cannot be written ends the process, since  *)
(* nobody catches what the archive throws, and so does a crash: what disk  *)
(* holds in any state is what the next run of the program may find.        *)
(***************************************************************************)
EXTENDS Integers, Sequences, FiniteSets, Functions, Batch

CONSTANTS
  NumDocs,             \* bound: how many documents a collection may have
  Words,               \* bound: the words; dictionaries are in their order
  Texts,               \* bound: the texts, functions from words to counts
  PoolSize,            \* m_oPool->GetSize()
  Max                  \* capacity of the event queue

ASSUME BoundsAssumption == NumDocs \in Nat
ASSUME WordsAssumption == IsFiniteSet(Words) /\ Words \subseteq Nat \ {0}
ASSUME TextsAssumption ==
         \A t \in Texts : DOMAIN t \subseteq Words /\ Range(t) \subseteq Nat \ {0}
ASSUME CapacityAssumption == PoolSize \in Nat \ {0} /\ Max \in Nat \ {0}

VARIABLES
  text,                \* the words of every document, and how often each occurs
  readable,            \* the documents whose content can be read and is not empty
  files,               \* the file names found in the directory, sorted
  pc,                  \* where Startup is
  batch,               \* the number of tasks of the batch handed over so far
  size,                \* iNumberOfIndexes, read when the encryption begins
  busy,                \* what is left to do of the tasks that workers execute
  queue,               \* the event queue: documents that have been read
  hEvent,              \* the event in the handler's hand, 0 if there is none
  dict,                \* m_oDictionary
  index,               \* m_oTFIndex: the document indexes with their TF values
  cursor,              \* the dictionary word the loop of main has come to
  saved,               \* the dictionary when SaveDictionary opened its file
  sse2,                \* m_oSSE2Index: <<word, counter>> to document
  disk,                \* the files in the output directory; done names the two
                       \* index files that have been written to their end
  settled              \* history: nothing was pending when the sleep ended

inputVars  == <<text, readable, files>>
engineVars == <<pc, batch, size, cursor, saved, settled>>
sharedVars == <<dict, index>>
vars == <<inputVars, engineVars, busy, queue, hEvent, sharedVars, sse2, disk>>

Docs == 1 .. NumDocs

Empty == [x \in {} |-> 0]
Listed == {files[i] : i \in DOMAIN files}

EngineStates == {"dispatch", "barrier", "sleep", "save", "saving", "tf",
                 "encrypt", "encrypting", "makesse2", "savesse2",
                 "savingsse2", "built", "failed"}

\* Words with their TF values, in the order of the dictionary.
TFVectors == Seq(Words \X Nat)

TypeOK ==
  /\ text \in [Docs -> Texts \cup {Empty}]
  /\ readable \subseteq Docs
  /\ files \in Seq(Docs)
  /\ pc \in EngineStates
  /\ batch \in Nat /\ size \in Nat
  /\ \A s \in busy : s \in Seq([doc : Docs, tf : TFVectors]) \ {<<>>}
  /\ Cardinality(busy) <= PoolSize
  /\ queue \in Seq(Docs) /\ Len(queue) <= Max
  /\ hEvent \in Docs \cup {0}
  /\ dict \subseteq Words /\ saved \subseteq Words
  /\ index \in Seq([doc : Docs, tf : TFVectors])
  /\ cursor \in Words \cup {0}
  /\ \A k \in DOMAIN sse2 : k \in Words \X Nat /\ sse2[k] \in Docs
  /\ disk.dict \subseteq Words /\ DOMAIN disk.tfi \subseteq Docs
  /\ disk.done \subseteq {"Dictionary.index", "SSE2.index"}
  /\ settled \in BOOLEAN

Init ==
  /\ files \in {[d \in 1 .. k |-> d] : k \in 0 .. NumDocs}
  /\ readable \in SUBSET Listed
  /\ text \in {t \in [Docs -> Texts \cup {Empty}] :
                \A d \in Docs \ readable : t[d] = Empty}
  /\ pc = "dispatch"
  /\ batch = 0 /\ size = 0
  /\ busy = {}
  /\ queue = <<>>
  /\ hEvent = 0
  /\ dict = {} /\ saved = {}
  /\ index = <<>>
  /\ cursor = 0
  /\ sse2 = Empty
  /\ disk = [dict |-> {}, tfi |-> Empty, sse2 |-> Empty, done |-> {}]
  /\ settled = FALSE

-----------------------------------------------------------------------------
(* ReadDocumentCollectionWithPool.                                         *)

Entry(d, v) == [doc |-> d, tf |-> v]

\* The batch the engine is handing over: documents to read, or copies of the
\* TF vectors of the document indexes to encrypt.
Items ==
  IF pc = "dispatch" THEN [i \in DOMAIN files |-> Entry(files[i], <<>>)]
                     ELSE SubSeq(index, 1, size)

\* Fault: CheckOut does not wait for a free worker.
HandOverUnlimited ==
  /\ batch < NumSlices(Len(Items), PoolSize)
  /\ busy' = busy \cup {SliceOf(Items, PoolSize, batch + 1)}
  /\ batch' = batch + 1

\* A free worker gets the next task.
HandOver ==
  /\ batch < NumSlices(Len(Items), PoolSize)
  /\ Cardinality(busy) < PoolSize
  /\ busy' = busy \cup {SliceOf(Items, PoolSize, batch + 1)}
  /\ batch' = batch + 1

HandOverRead ==
  /\ pc = "dispatch"
  /\ HandOver
  /\ UNCHANGED <<inputVars, pc, size, cursor, saved, settled, queue, hEvent,
                 sharedVars, sse2, disk>>

\* The directory is empty.
NoFiles ==
  /\ pc = "dispatch"
  /\ files = <<>>
  /\ pc' = "failed"
  /\ UNCHANGED <<inputVars, batch, size, cursor, saved, settled, busy, queue,
                 hEvent, sharedVars, sse2, disk>>

AllRead ==
  /\ pc = "dispatch"
  /\ files # <<>>
  /\ batch = NumSlices(Len(Items), PoolSize)
  /\ pc' = "barrier"
  /\ UNCHANGED <<inputVars, batch, size, cursor, saved, settled, busy, queue,
                 hEvent, sharedVars, sse2, disk>>

\* Fault: main does not wait for the workers.
ReadBarrierMissing ==
  /\ pc = "barrier"
  /\ pc' = "sleep"
  /\ UNCHANGED <<inputVars, batch, size, cursor, saved, settled, busy, queue,
                 hEvent, sharedVars, sse2, disk>>

\* Every worker is free again.
ReadBarrier ==
  /\ pc = "barrier"
  /\ busy = {}
  /\ pc' = "sleep"
  /\ UNCHANGED <<inputVars, batch, size, cursor, saved, settled, busy, queue,
                 hEvent, sharedVars, sse2, disk>>

\* Ten seconds are over.  Nothing in the code asks whether the queue is empty.
SleepEnds ==
  /\ pc = "sleep"
  /\ pc' = "save"
  /\ settled' = (queue = <<>> /\ hEvent = 0)
  /\ UNCHANGED <<inputVars, batch, size, cursor, saved, busy, queue, hEvent,
                 sharedVars, sse2, disk>>

-----------------------------------------------------------------------------
(* The tasks of the pool.                                                  *)

\* Task s has dealt with its first item.
Advance(s) == busy' = (busy \ {s}) \cup ({Tail(s)} \ {<<>>})

\* The pool is given documents to read until the encryption begins.
Reading == size = 0

\* Fault: the task stops at the first document it cannot read.
SkipFileAndRest(s) ==
  /\ Reading
  /\ s[1].doc \notin readable
  /\ busy' = busy \ {s}
  /\ UNCHANGED <<inputVars, engineVars, queue, hEvent, sharedVars, sse2, disk>>

\* The content cannot be read, or is empty: there is no event.
SkipFile(s) ==
  /\ Reading
  /\ s[1].doc \notin readable
  /\ Advance(s)
  /\ UNCHANGED <<inputVars, engineVars, queue, hEvent, sharedVars, sse2, disk>>

\* Fault: a worker that finds the queue full waits for the other workers.
ReadFileAlone(s) ==
  /\ Reading
  /\ s[1].doc \in readable
  /\ queue = <<>> /\ hEvent = 0 /\ busy = {s}
  /\ queue' = Append(queue, s[1].doc)
  /\ Advance(s)
  /\ UNCHANGED <<inputVars, engineVars, hEvent, sharedVars, sse2, disk>>

\* The document is chomped into words and enqueued, when there is room.
ReadFile(s) ==
  /\ Reading
  /\ s[1].doc \in readable
  /\ Len(queue) < Max
  /\ queue' = Append(queue, s[1].doc)
  /\ Advance(s)
  /\ UNCHANGED <<inputVars, engineVars, hEvent, sharedVars, sse2, disk>>

\* EncryptArray and WriteEncryptedTFValues.  A task with an empty vector of
\* TF values writes nothing.
Encrypt(s) ==
  /\ ~Reading
  /\ disk' = IF s[1].tf = <<>> THEN disk
             ELSE [disk EXCEPT !.tfi = [d \in DOMAIN @ \cup {s[1].doc} |->
                                          IF d = s[1].doc THEN s[1].tf ELSE @[d]]]
  /\ Advance(s)
  /\ UNCHANGED <<inputVars, engineVars, queue, hEvent, sharedVars, sse2>>

-----------------------------------------------------------------------------
(* The thread of the event queue: HandleReadContentEvent.                  *)

Dequeue ==
  /\ hEvent = 0
  /\ queue # <<>>
  /\ hEvent' = Head(queue)
  /\ queue' = Tail(queue)
  /\ UNCHANGED <<inputVars, engineVars, busy, sharedVars, sse2, disk>>

WordsOf(d) == DOMAIN text[d]

\* The words have not all been added to the dictionary.
Unhandled == hEvent # 0 /\ ~(WordsOf(hEvent) \subseteq dict)

AddWords ==
  /\ Unhandled
  /\ dict' = dict \cup WordsOf(hEvent)
  /\ UNCHANGED <<inputVars, engineVars, busy, queue, hEvent, index, sse2, disk>>

\* Fault: a document that brings no new word is not indexed.
AddTFIndexIfNew ==
  /\ hEvent # 0 /\ ~Unhandled
  /\ WordsOf(hEvent) # {}
  /\ index' = IF WordsOf(hEvent) \subseteq UNION {WordsOf(index[i].doc) : i \in DOMAIN index}
              THEN index ELSE Append(index, Entry(hEvent, <<>>))
  /\ hEvent' = 0
  /\ UNCHANGED <<inputVars, engineVars, busy, queue, dict, sse2, disk>>

AddTFIndex ==
  /\ hEvent # 0 /\ ~Unhandled
  /\ WordsOf(hEvent) # {}
  /\ index' = Append(index, Entry(hEvent, <<>>))
  /\ hEvent' = 0
  /\ UNCHANGED <<inputVars, engineVars, busy, queue, dict, sse2, disk>>

\* AddWords refuses an empty list, and the handler returns.
NoWords ==
  /\ hEvent # 0
  /\ WordsOf(hEvent) = {}
  /\ hEvent' = 0
  /\ UNCHANGED <<inputVars, engineVars, busy, queue, sharedVars, sse2, disk>>

-----------------------------------------------------------------------------
(* SaveDictionary.                                                         *)

\* Fault: a dictionary of one word is taken for an empty one.
SaveDictionaryNeedsTwo ==
  /\ pc = "save"
  /\ pc' = IF Cardinality(dict) <= 1 THEN "failed" ELSE "saving"
  /\ saved' = dict
  /\ UNCHANGED <<inputVars, batch, size, cursor, settled, busy, queue, hEvent,
                 sharedVars, sse2, disk>>

SaveDictionary ==
  /\ pc = "save"
  /\ pc' = IF dict = {} THEN "failed" ELSE "saving"
  /\ saved' = dict
  /\ UNCHANGED <<inputVars, batch, size, cursor, settled, busy, queue, hEvent,
                 sharedVars, sse2, disk>>

\* What is written of words that the handler adds meanwhile is open.
DictionarySaved ==
  /\ pc = "saving"
  /\ \E new \in SUBSET (dict \ saved) :
       disk' = [disk EXCEPT !.dict = saved \cup new,
                            !.done = @ \cup {"Dictionary.index"}]
  /\ pc' = "tf"
  /\ cursor' = 0
  /\ UNCHANGED <<inputVars, batch, size, saved, settled, busy, queue, hEvent,
                 sharedVars, sse2>>

-----------------------------------------------------------------------------
(* CalcTermFrequency.                                                      *)

\* The words the loop over the dictionary has not come to yet.
Ahead == {w \in dict : w > cursor}
NextWord == CHOOSE w \in Ahead : \A v \in Ahead : w <= v

\* Fault: the words a document does not contain get no value.
AppendTFIfPresent(e, w) ==
  IF w \in WordsOf(e.doc)
  THEN [e EXCEPT !.tf = Append(@, <<w, Cardinality(dict) \div text[e.doc][w]>>)]
  ELSE e

\* SetTF for one word in one document index.
AppendTF(e, w) ==
  [e EXCEPT !.tf = Append(@, <<w, IF w \in WordsOf(e.doc)
                                  THEN Cardinality(dict) \div text[e.doc][w]
                                  ELSE 0>>)]

CalcTermFrequency ==
  /\ pc = "tf"
  /\ dict # {} /\ index # <<>>
  /\ Ahead # {}
  /\ index' = [i \in DOMAIN index |-> AppendTF(index[i], NextWord)]
  /\ cursor' = NextWord
  /\ UNCHANGED <<inputVars, pc, batch, size, saved, settled, busy, queue, hEvent,
                 dict, sse2, disk>>

\* The lists are tested when CalcTermFrequency begins.
NothingToCalc ==
  /\ pc = "tf"
  /\ cursor = 0
  /\ dict = {} \/ index = <<>>
  /\ pc' = "failed"
  /\ UNCHANGED <<inputVars, batch, size, cursor, saved, settled, busy, queue,
                 hEvent, sharedVars, sse2, disk>>

-----------------------------------------------------------------------------
(* EncryptTermFrequencyWithPool.                                           *)

\* The number of indexes is read once.
BeginEncrypt ==
  /\ pc = "tf"
  /\ index # <<>> /\ Ahead = {}
  /\ pc' = "encrypt"
  /\ size' = Len(index)
  /\ batch' = 0
  /\ UNCHANGED <<inputVars, cursor, saved, settled, busy, queue, hEvent,
                 sharedVars, sse2, disk>>

HandOverEncrypt ==
  /\ pc = "encrypt"
  /\ HandOver
  /\ UNCHANGED <<inputVars, pc, size, cursor, saved, settled, queue, hEvent,
                 sharedVars, sse2, disk>>

AllHandedOver ==
  /\ pc = "encrypt"
  /\ batch = NumSlices(Len(Items), PoolSize)
  /\ pc' = "encrypting"
  /\ UNCHANGED <<inputVars, batch, size, cursor, saved, settled, busy, queue,
                 hEvent, sharedVars, sse2, disk>>

\* Fault: the loop that waits for the pool is missing.
EncryptBarrierMissing ==
  /\ pc = "encrypting"
  /\ pc' = "makesse2"
  /\ cursor' = 0
  /\ UNCHANGED <<inputVars, batch, size, saved, settled, busy, queue, hEvent,
                 sharedVars, sse2, disk>>

EncryptBarrier ==
  /\ pc = "encrypting"
  /\ busy = {}
  /\ pc' = "makesse2"
  /\ cursor' = 0
  /\ UNCHANGED <<inputVars, batch, size, saved, settled, busy, queue, hEvent,
                 sharedVars, sse2, disk>>

-----------------------------------------------------------------------------
(* MakeSSE2Index and SaveSSE2Index.  The HMAC of a word and a counter is   *)
(* the pair: no word ends in a digit here, which SSE2Lookup is about.      *)

\* The positions of the document indexes with word w.
Containing(w) == {i \in DOMAIN index : w \in WordsOf(index[i].doc)}

\* The counter, which starts at 0 for every word and runs on with every
\* document that contains it.
Counter(w, i) == Cardinality({j \in Containing(w) : j < i})

EntriesOf(w) ==
  [k \in {<<w, Counter(w, i)>> : i \in Containing(w)} |->
     index[CHOOSE i \in Containing(w) : Counter(w, i) = k[2]].doc]

\* An entry for every document with the next word.
MakeSSE2Index ==
  /\ pc = "makesse2"
  /\ Ahead # {}
  /\ sse2' = [k \in DOMAIN sse2 \cup DOMAIN EntriesOf(NextWord) |->
                IF k \in DOMAIN sse2 THEN sse2[k] ELSE EntriesOf(NextWord)[k]]
  /\ cursor' = NextWord
  /\ UNCHANGED <<inputVars, pc, batch, size, saved, settled, busy, queue, hEvent,
                 sharedVars, disk>>

SSE2IndexMade ==
  /\ pc = "makesse2"
  /\ Ahead = {}
  /\ pc' = "savesse2"
  /\ UNCHANGED <<inputVars, batch, size, cursor, saved, settled, busy, queue,
                 hEvent, sharedVars, sse2, disk>>

SaveSSE2Index ==
  /\ pc = "savesse2"
  /\ pc' = IF DOMAIN sse2 = {} THEN "failed" ELSE "savingsse2"
  /\ UNCHANGED <<inputVars, batch, size, cursor, saved, settled, busy, queue,
                 hEvent, sharedVars, sse2, disk>>

SSE2IndexSaved ==
  /\ pc = "savingsse2"
  /\ disk' = [disk EXCEPT !.sse2 = sse2, !.done = @ \cup {"SSE2.index"}]
  /\ pc' = "built"
  /\ UNCHANGED <<inputVars, batch, size, cursor, saved, settled, busy, queue,
                 hEvent, sharedVars, sse2>>

-----------------------------------------------------------------------------
EngineNext ==
  \/ NoFiles \/ HandOverRead \/ AllRead \/ ReadBarrier \/ SleepEnds
  \/ SaveDictionary \/ DictionarySaved
  \/ NothingToCalc \/ CalcTermFrequency
  \/ BeginEncrypt \/ HandOverEncrypt \/ AllHandedOver \/ EncryptBarrier
  \/ MakeSSE2Index \/ SSE2IndexMade \/ SaveSSE2Index \/ SSE2IndexSaved

WorkerNext ==
  \E s \in busy : ReadFile(s) \/ SkipFile(s) \/ Encrypt(s)

HandlerNext == Dequeue \/ AddWords \/ AddTFIndex \/ NoWords

Returned ==
  /\ pc \in {"built", "failed"}
  /\ UNCHANGED vars

Next == EngineNext \/ WorkerNext \/ HandlerNext \/ Returned

Spec == Init /\ [][Next]_vars

-----------------------------------------------------------------------------
(* Safety.                                                                 *)

\* The documents that belong into the index, and their words.
Indexable == {d \in Listed \cap readable : WordsOf(d) # {}}
AllWords  == UNION {WordsOf(d) : d \in Indexable}

Waiting(d) == \/ \E i \in DOMAIN queue : queue[i] = d
              \/ hEvent = d
Indexed(d) == \E i \in DOMAIN index : index[i].doc = d
ReadingDone == pc \notin {"dispatch", "barrier"}

\* Once main is out of the loop that waits for the pool, every document is in
\* the index or on its way through the queue, never twice and never both,
\* although two threads and the pool pass it on, and a batch was cut in
\* slices; nothing is indexed that has no words.
ReadOnce ==
  /\ \A i, j \in DOMAIN index : index[i].doc = index[j].doc => i = j
  /\ \A d \in Docs : Indexed(d) => d \in Indexable /\ ~Waiting(d)
  /\ ReadingDone => \A d \in Indexable : Indexed(d) \/ Waiting(d)

\* v has the TF value of every word of the collection for document d, in the
\* order of the dictionary, which the query vector will have too.
ExactVector(v, d) ==
  /\ {v[i][1] : i \in DOMAIN v} = AllWords
  /\ \A i, j \in DOMAIN v : i < j => v[i][1] < v[j][1]
  /\ \A i \in DOMAIN v :
       v[i][2] = IF v[i][1] \in WordsOf(d)
                 THEN Cardinality(AllWords) \div text[d][v[i][1]] ELSE 0

\* The SSE2 index is the last file to be written: when it is complete, also
\* after a crash, the dictionary and the file of every document it names are
\* complete and agree with each other, and it finds exactly the documents
\* with a word.  Given that nothing was pending when main stopped sleeping.
CommitOrder ==
  settled /\ "SSE2.index" \in disk.done =>
    /\ "Dictionary.index" \in disk.done
    /\ disk.dict = AllWords
    /\ \A d \in Indexable :
         d \in DOMAIN disk.tfi /\ ExactVector(disk.tfi[d], d)
    /\ \A w \in AllWords :
         LET found == {disk.sse2[k] : k \in {k \in DOMAIN disk.sse2 : k[1] = w}}
             count == Cardinality(found)
         IN  /\ found = {d \in Indexable : w \in WordsOf(d)}
             /\ {k \in DOMAIN disk.sse2 : k[1] = w} = {w} \X (0 .. count - 1)

\* A build whose queue had been worked off fails only for want of words.
FailsOnlyWithoutWords ==
  pc = "failed" /\ (settled \/ files = <<>>) => Indexable = {}

\* With nothing pending, main has the dictionary and the list of indexes for
\* itself from there on, though it takes no lock: what it iterates over is
\* not changed under its hands.
MainOwnsIndex ==
  [][settled => /\ dict' = dict
                /\ Len(index') = Len(index)
                /\ index' # index => pc = "tf"]_vars

\* "Let it finish completely": after the sleep nothing is on its way into the
\* dictionary and the index any more.
LetItFinishCompletely ==
  pc \notin {"dispatch", "barrier", "sleep", "failed"} => \A d \in Docs : ~Waiting(d)

-----------------------------------------------------------------------------
(* Liveness, under a scheduler that is fair to main, to the workers and to *)
(* the thread of the queue.                                                *)

Fairness ==
  /\ WF_vars(EngineNext)
  /\ WF_vars(WorkerNext)
  /\ WF_vars(HandlerNext)

FairSpec == Spec /\ Fairness

\* Startup returns: workers that wait for room in the queue and main that
\* waits for the workers do not wait for each other.
StartupReturns == <>(pc \in {"built", "failed"})

\* Every document with words is indexed in the end, sooner or too late.
EveryDocumentIndexed == \A d \in Docs : <>(d \in Indexable => Indexed(d))

=============================================================================
