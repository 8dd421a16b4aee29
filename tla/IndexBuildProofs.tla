-------------------------- MODULE IndexBuildProofs --------------------------
(***************************************************************************)
(* Proofs about IndexBuild, for any collection, any pool and any queue.    *)
(*                                                                         *)
(* The invariant follows every document from the batch through the queue   *)
(* into the index, and what is known of the index, once nothing is         *)
(* pending, through the loops that complete it, the tasks that encrypt it  *)
(* and the files.                                                          *)
(***************************************************************************)
EXTENDS IndexBuild, BatchProofs, FunctionTheorems, WellFoundedInduction

Indexes == [doc : Docs, tf : TFVectors]

ReadStates    == {"dispatch", "barrier"}
EarlyStates   == {"dispatch", "barrier", "sleep", "save", "saving", "tf"}
EncryptStates == {"encrypt", "encrypting"}
LateStates    == {"encrypt", "encrypting", "makesse2", "savesse2",
                  "savingsse2", "built"}

HandingOver == pc \in {"dispatch", "encrypt"}

\* What is left of the batch: not handed over yet, or with the workers.
Later     == IF HandingOver THEN Left(Items, PoolSize, batch) ELSE {}
Remaining == Later \cup InWork(busy)
ToRead(d) == pc \in ReadStates /\ Entry(d, <<>>) \in Remaining

\* Documents do not occur twice in a directory, and the parts of the disk are
\* written one at a time.
Form ==
  /\ IsInjective(files)
  /\ disk = [dict |-> disk.dict, tfi |-> disk.tfi, sse2 |-> disk.sse2,
             done |-> disk.done]

\* The pool is given documents to read first, and the number of indexes tells
\* its tasks apart.
Sizes ==
  /\ pc \in EarlyStates => size = 0
  /\ pc \in LateStates => size \in 1 .. Len(index)

\* The tasks share nothing, and are about the batch in hand.
Work ==
  /\ Apart(busy)
  /\ Later \cap InWork(busy) = {}
  /\ HandingOver => batch <= NumSlices(Len(Items), PoolSize)
  /\ pc \notin ReadStates \cup EncryptStates => busy = {}
  /\ pc \in ReadStates => Remaining \subseteq {Entry(d, <<>>) : d \in Listed}
  /\ pc \in EncryptStates => Remaining \subseteq {index[i] : i \in 1 .. size}

\* A document is in the batch, queued, in the hand of the handler or indexed,
\* and at no time two of these.
Flow ==
  /\ IsInjective(queue)
  /\ \A i \in DOMAIN queue : queue[i] # hEvent
  /\ \A d \in Docs : Waiting(d) => d \in Listed \cap readable /\ ~Indexed(d)
  /\ \A i, j \in DOMAIN index : index[i].doc = index[j].doc => i = j
  /\ \A d \in Docs : Indexed(d) => d \in Indexable
  /\ \A d \in Docs : ToRead(d) => ~Waiting(d) /\ ~Indexed(d)
  /\ \A d \in Indexable : Waiting(d) \/ Indexed(d) \/ ToRead(d)

\* The dictionary has the words of what is indexed, and no others.
Dictionary ==
  /\ dict \subseteq AllWords
  /\ \A d \in Docs : Indexed(d) => WordsOf(d) \subseteq dict

\* Nothing was pending when the sleep ended, and nothing ever is again.
Settled == settled =>
  /\ queue = <<>> /\ hEvent = 0
  /\ pc \notin {"dispatch", "barrier", "sleep"}
  /\ pc = "failed" => Indexable = {}
  /\ pc \notin {"save", "failed"} => dict # {}
  /\ pc = "saving" => saved = dict
  /\ pc \in {"tf"} \cup LateStates =>
       disk.dict = dict /\ "Dictionary.index" \in disk.done
  /\ pc \in LateStates => size = Len(index)

\* Entry e has the TF values of the words W, in the order of the dictionary.
Vector(e, W) ==
  /\ {e.tf[i][1] : i \in DOMAIN e.tf} = W
  /\ \A i, j \in DOMAIN e.tf : i < j => e.tf[i][1] < e.tf[j][1]
  /\ \A i \in DOMAIN e.tf :
       e.tf[i][2] = IF e.tf[i][1] \in WordsOf(e.doc)
                    THEN Cardinality(dict) \div text[e.doc][e.tf[i][1]] ELSE 0

Behind == {w \in dict : w <= cursor}

Vectors ==
  /\ pc \in EarlyStates \ {"tf"} => \A i \in DOMAIN index : index[i].tf = <<>>
  /\ settled /\ pc = "tf" => \A i \in DOMAIN index : Vector(index[i], Behind)
  /\ settled /\ pc \in LateStates => \A i \in DOMAIN index : Vector(index[i], dict)

\* The vectors of the documents are on disk, or remain to be encrypted.
Stored(e) == e.doc \in DOMAIN disk.tfi /\ disk.tfi[e.doc] = e.tf
Encrypted == settled /\ pc \in LateStates =>
  \A i \in DOMAIN index : index[i] \in Remaining \/ Stored(index[i])

\* f has the entries of the words W, as the SSE2 index should.
SSE2For(f, W) ==
  /\ \A k \in DOMAIN f :
       k[1] \in W /\ \E i \in Containing(k[1]) : k[2] = Counter(k[1], i)
  /\ \A w \in W : \A i \in Containing(w) :
       /\ <<w, Counter(w, i)>> \in DOMAIN f
       /\ f[<<w, Counter(w, i)>>] = index[i].doc

SSE2Entries ==
  /\ pc \in EarlyStates \cup EncryptStates => DOMAIN sse2 = {}
  /\ settled /\ pc = "makesse2" => SSE2For(sse2, Behind)
  /\ settled /\ pc \in {"savesse2", "savingsse2", "built"} => SSE2For(sse2, dict)
  /\ "SSE2.index" \in disk.done => pc = "built" /\ disk.sse2 = sse2

IInv == /\ TypeOK /\ Form /\ Sizes /\ Work /\ Flow /\ Dictionary /\ Settled
        /\ Vectors /\ Encrypted /\ SSE2Entries

-----------------------------------------------------------------------------
(* What things are.                                                        *)

\* The words of a document occur in it.
LEMMA TextTyped ==
  ASSUME TypeOK, NEW d \in Docs
  PROVE  /\ WordsOf(d) \subseteq Words
         /\ \A w \in WordsOf(d) : text[d][w] \in Nat \ {0}
<1>1. text[d] \in Texts \cup {Empty}
  BY DEF TypeOK
<1>2. CASE text[d] \in Texts
  <2>1. DOMAIN text[d] \subseteq Words /\ Range(text[d]) \subseteq Nat \ {0}
    BY <1>2, TextsAssumption
  <2> QED BY <2>1 DEF WordsOf, Range
<1>3. CASE text[d] = Empty
  <2>1. DOMAIN text[d] = {}
    BY <1>3 DEF Empty
  <2> QED BY <2>1 DEF WordsOf
<1> QED BY <1>1, <1>2, <1>3

\* The index, the queue and the tasks.
LEMMA Typed ==
  ASSUME TypeOK
  PROVE  /\ index \in Seq(Indexes) /\ Len(index) \in Nat /\ DOMAIN index = 1 .. Len(index)
         /\ \A i \in DOMAIN index :
              index[i] \in Indexes /\ index[i].doc \in Docs /\ index[i].tf \in TFVectors
         /\ queue \in Seq(Docs) /\ Len(queue) \in Nat /\ DOMAIN queue = 1 .. Len(queue)
         /\ \A i \in DOMAIN queue : queue[i] \in Docs
         /\ busy \in SUBSET (Seq(Indexes) \ {<<>>})
         /\ files \in Seq(Docs) /\ DOMAIN files = 1 .. Len(files)
         /\ Len(files) \in Nat /\ Listed \subseteq Docs
         /\ 0 \notin Docs
         /\ \A d \in Docs : Entry(d, <<>>) \in Indexes
                            /\ Entry(d, <<>>).doc = d /\ Entry(d, <<>>).tf = <<>>
<1>1. index \in Seq(Indexes) /\ queue \in Seq(Docs) /\ files \in Seq(Docs)
  BY DEF TypeOK, Indexes
<1>2. /\ Len(index) \in Nat /\ DOMAIN index = 1 .. Len(index)
      /\ Len(queue) \in Nat /\ DOMAIN queue = 1 .. Len(queue)
      /\ Len(files) \in Nat /\ DOMAIN files = 1 .. Len(files)
  BY <1>1, LenProperties
<1>3. \A i \in DOMAIN index : index[i] \in Indexes
  BY <1>1, <1>2, ElementOfSeq
<1>4. \A i \in DOMAIN queue : queue[i] \in Docs
  BY <1>1, <1>2, ElementOfSeq
<1>5. \A i \in DOMAIN files : files[i] \in Docs
  BY <1>1, <1>2, ElementOfSeq
<1>6. Listed \subseteq Docs
  BY <1>5 DEF Listed
<1>7. busy \in SUBSET (Seq(Indexes) \ {<<>>})
  BY DEF TypeOK, Indexes
<1>8. 0 \notin Docs
  BY BoundsAssumption DEF Docs
<1>9. \A d \in Docs : Entry(d, <<>>) \in Indexes
        /\ Entry(d, <<>>).doc = d /\ Entry(d, <<>>).tf = <<>>
  <2>1. <<>> \in TFVectors
    BY DEF TFVectors
  <2> QED BY <2>1 DEF Entry, Indexes
<1>10. \A i \in DOMAIN index : index[i].doc \in Docs /\ index[i].tf \in TFVectors
  BY <1>3 DEF Indexes
<1> QED BY <1>1, <1>2, <1>3, <1>4, <1>6, <1>7, <1>8, <1>9, <1>10

\* What is indexable.
LEMMA IndexableTyped ==
  ASSUME TypeOK
  PROVE  /\ Indexable \subseteq Docs
         /\ \A d \in Indexable : d \in Listed \cap readable /\ WordsOf(d) # {}
                                 /\ WordsOf(d) \subseteq AllWords
BY Typed DEF Indexable, AllWords

-----------------------------------------------------------------------------
(* The batch in hand.                                                      *)

\* What is handed over, in both phases.
LEMMA ItemsOfBatch ==
  ASSUME TypeOK, Form, Sizes, Flow, HandingOver
  PROVE  /\ Items \in Seq(Indexes) /\ IsInjective(Items)
         /\ Range(Items) = IF pc = "dispatch" THEN {Entry(d, <<>>) : d \in Listed}
                                              ELSE {index[i] : i \in 1 .. size}
         /\ Len(Items) \in Nat
         /\ PoolSize \in Nat \ {0} /\ batch \in Nat
         /\ NumSlices(Len(Items), PoolSize) \in Nat
<1>1. CASE pc = "dispatch"
  <2>1. Items = [i \in 1 .. Len(files) |-> Entry(files[i], <<>>)]
    BY <1>1, Typed DEF Items
  <2>2. \A i \in 1 .. Len(files) : files[i] \in Docs /\ files[i] \in Listed
    BY Typed DEF Listed
  <2>3. DOMAIN Items = 1 .. Len(files)
        /\ \A i \in 1 .. Len(files) : Items[i] = Entry(files[i], <<>>)
                                      /\ Items[i] \in Indexes /\ Items[i].doc = files[i]
    BY <2>1, <2>2, Typed
  <2>4. Items \in Seq(Indexes)
    BY <2>1, <2>3, Typed
  <2>5. IsInjective(Items)
    <3>1. \A i, j \in 1 .. Len(files) : files[i] = files[j] => i = j
      BY Typed DEF Form, IsInjective
    <3> QED BY <3>1, <2>3 DEF IsInjective
  <2>6. Range(Items) = {Entry(d, <<>>) : d \in Listed}
    BY <2>3, Typed DEF Range, Listed
  <2> QED BY <1>1, <2>4, <2>5, <2>6, LenProperties, CapacityAssumption, DivisionWithRest
          DEF TypeOK
<1>2. CASE pc # "dispatch"
  <2>1. Items = SubSeq(index, 1, size) /\ size \in 1 .. Len(index)
    BY <1>2 DEF Items, Sizes, HandingOver, LateStates
  <2>2. \A i \in 1 .. size : i \in DOMAIN index /\ index[i] \in Indexes
    BY <2>1, Typed
  <2>3. Items \in Seq(Indexes) /\ Len(Items) = size /\ \A i \in 1 .. size : Items[i] = index[i]
    <3>1. size \in Int /\ 1 \in Int /\ size - 1 + 1 = size /\ 1 <= size
      BY <2>1, Typed
    <3>2. \A i \in 1 .. size : 1 + i - 1 = i
      BY <2>1, Typed
    <3> QED BY <3>1, <3>2, <2>1, <2>2, SubSeqProperties
  <2>4. DOMAIN Items = 1 .. size
    BY <2>3, LenProperties
  <2>5. IsInjective(Items)
    <3>1. \A i, j \in 1 .. size : index[i].doc = index[j].doc => i = j
      BY <2>2 DEF Flow
    <3> QED BY <3>1, <2>3, <2>4 DEF IsInjective
  <2>6. Range(Items) = {index[i] : i \in 1 .. size}
    BY <2>3, <2>4 DEF Range
  <2> QED BY <1>2, <2>3, <2>5, <2>6, LenProperties, CapacityAssumption, DivisionWithRest
          DEF TypeOK
<1> QED BY <1>1, <1>2

\* The indexes that are being encrypted.
SameBatch ==
  pc \in EncryptStates =>
    /\ SubSeq(index', 1, size) = SubSeq(index, 1, size)
    /\ \A i \in 1 .. size : index'[i] = index[i]

\* A step that leaves the batch alone leaves what remains of it alone.
LEMMA BatchUnchanged ==
  ASSUME Work, SameBatch, UNCHANGED <<files, pc, batch, size, busy>>
  PROVE  Work' /\ Remaining' = Remaining /\ \A d : ToRead(d)' <=> ToRead(d)
<1>1. HandingOver => Items' = Items
  BY DEF Items, SameBatch, HandingOver, EncryptStates
<1>2. Later' = Later /\ (HandingOver' <=> HandingOver)
  BY <1>1 DEF Later, HandingOver
<1>3. Remaining' = Remaining
  BY <1>2 DEF Remaining
<1>4. pc \in EncryptStates => {index'[i] : i \in 1 .. size} = {index[i] : i \in 1 .. size}
  BY DEF SameBatch
<1>5. Listed' = Listed
  BY DEF Listed
<1>6. Work'
  BY <1>1, <1>2, <1>3, <1>4, <1>5 DEF Work
<1> QED BY <1>3, <1>6 DEF ToRead

\* A new batch: nothing is with the workers, and all of it is still to come.
LEMMA BatchBegins ==
  ASSUME TypeOK, Form, Sizes, Flow, HandingOver, batch = 0, busy = {}
  PROVE  /\ Work
         /\ Remaining = IF pc = "dispatch" THEN {Entry(d, <<>>) : d \in Listed}
                                           ELSE {index[i] : i \in 1 .. size}
<1>1. Left(Items, PoolSize, 0) = Range(Items)
  BY ItemsOfBatch, LeftAtTheEnds
<1>2. Later = Range(Items)
  BY <1>1 DEF Later
<1>3. batch <= NumSlices(Len(Items), PoolSize)
  BY ItemsOfBatch
<1>4. Remaining = IF pc = "dispatch" THEN {Entry(d, <<>>) : d \in Listed}
                                     ELSE {index[i] : i \in 1 .. size}
  BY <1>2, NobodyBusy, ItemsOfBatch DEF Remaining
<1>5. /\ pc \in ReadStates \cup EncryptStates
      /\ pc \in ReadStates <=> pc = "dispatch"
      /\ pc \in EncryptStates => pc # "dispatch"
  BY DEF HandingOver, ReadStates, EncryptStates
<1>6. /\ pc \in ReadStates => Remaining \subseteq {Entry(d, <<>>) : d \in Listed}
      /\ pc \in EncryptStates => Remaining \subseteq {index[i] : i \in 1 .. size}
  BY <1>4, <1>5
<1>7. Apart(busy) /\ Later \cap InWork(busy) = {}
  BY NobodyBusy
<1> QED BY <1>3, <1>4, <1>5, <1>6, <1>7 DEF Work

\* The next task gets what was first in line, and nothing is left out.
LEMMA HandOverKeeps ==
  ASSUME TypeOK, Form, Sizes, Flow, Work, HandingOver, HandOver,
         UNCHANGED <<files, index, pc, size>>
  PROVE  /\ Work' /\ Remaining' = Remaining /\ \A d : ToRead(d)' <=> ToRead(d)
         /\ \A s \in busy' : s \in Seq([doc : Docs, tf : TFVectors]) \ {<<>>}
         /\ Cardinality(busy') <= PoolSize /\ batch' \in Nat
<1> DEFINE t == SliceOf(Items, PoolSize, batch + 1)
<1>1. /\ batch < NumSlices(Len(Items), PoolSize)
      /\ busy' = busy \cup {t} /\ batch' = batch + 1
      /\ Cardinality(busy) < PoolSize
  BY DEF HandOver
<1>2. Items' = Items /\ HandingOver' /\ Listed' = Listed
  BY DEF Items, HandingOver, Listed
<1>3. /\ Later = Left(Items, PoolSize, batch)
      /\ Later' = Left(Items, PoolSize, batch + 1)
  BY <1>1, <1>2 DEF Later
<1>4. /\ Items \in Seq(Indexes) /\ IsInjective(Items)
      /\ PoolSize \in Nat \ {0} /\ batch \in Nat
      /\ NumSlices(Len(Items), PoolSize) \in Nat
  BY <1>1, ItemsOfBatch
<1>5. /\ t \in Seq(Indexes) \ {<<>>}
      /\ Apart(busy') /\ Cardinality(busy') <= PoolSize
      /\ Later' \cap InWork(busy') = {}
      /\ Later' \cup InWork(busy') = Later \cup InWork(busy)
  BY <1>1, <1>3, <1>4, TaskTaken DEF Work
<1>6. \A s \in busy' : s \in Seq([doc : Docs, tf : TFVectors]) \ {<<>>}
  BY <1>1, <1>5 DEF TypeOK, Indexes
<1>7. batch' <= NumSlices(Len(Items'), PoolSize) /\ batch' \in Nat
  BY <1>1, <1>2, <1>4
<1>8. Remaining' = Remaining
  BY <1>5 DEF Remaining
<1>9. pc \in ReadStates \cup EncryptStates
  BY DEF HandingOver, ReadStates, EncryptStates
<1>10. Work'
  BY <1>2, <1>5, <1>7, <1>8, <1>9 DEF Work
<1> QED BY <1>5, <1>6, <1>7, <1>8, <1>10 DEF ToRead

\* A worker that has dealt with its first item leaves the others alone.
LEMMA AdvanceTakesOne ==
  ASSUME TypeOK, Work, NEW s \in busy, Advance(s),
         UNCHANGED <<files, index, pc, batch, size>>
  PROVE  /\ s[1] \in Remaining /\ Work' /\ Remaining' = Remaining \ {s[1]}
         /\ \A t \in busy' : t \in Seq([doc : Docs, tf : TFVectors]) \ {<<>>}
         /\ Cardinality(busy') <= PoolSize /\ s[1] \in Indexes
         /\ pc \in ReadStates \cup EncryptStates
<1>1. busy' = (busy \ {s}) \cup ({Tail(s)} \ {<<>>})
  BY DEF Advance
<1>2. busy \in SUBSET (Seq(Indexes) \ {<<>>}) /\ Apart(busy)
  BY Typed DEF Work
<1>3. /\ busy' \subseteq Seq(Indexes) \ {<<>>}
      /\ Apart(busy') /\ Cardinality(busy') <= Cardinality(busy)
      /\ InWork(busy') = InWork(busy) \ {s[1]} /\ s[1] \in InWork(busy)
      /\ s[1] \in Indexes
  BY <1>1, <1>2, ItemTaken
<1>4. Cardinality(busy') <= PoolSize
  <2>1. Cardinality(busy') \in Nat /\ Cardinality(busy) \in Nat
    BY <1>2, <1>3, FS_CardinalityType DEF Apart
  <2> QED BY <2>1, <1>3, CapacityAssumption DEF TypeOK
<1>5. Items' = Items /\ Listed' = Listed
  BY DEF Items, Listed
<1>6. Later' = Later /\ Later \cap InWork(busy) = {}
  BY <1>5 DEF Later, HandingOver, Work
<1>7. Remaining' = Remaining \ {s[1]} /\ s[1] \in Remaining
  BY <1>3, <1>6 DEF Remaining
<1>8. Later' \cap InWork(busy') = {}
  BY <1>3, <1>6
<1>9. pc \in ReadStates \cup EncryptStates
  BY DEF Work
<1>10. HandingOver' => batch' <= NumSlices(Len(Items'), PoolSize)
  BY <1>5 DEF HandingOver, Work
<1>11. Work'
  BY <1>3, <1>5, <1>7, <1>8, <1>9, <1>10 DEF Work
<1>12. \A t \in busy' : t \in Seq([doc : Docs, tf : TFVectors]) \ {<<>>}
  BY <1>3 DEF Indexes
<1> QED BY <1>3, <1>4, <1>7, <1>9, <1>11, <1>12

\* When all has been handed over, what remains is with the workers.
LEMMA AllHandedOverKeeps ==
  ASSUME TypeOK, Form, Sizes, Flow, Work, HandingOver,
         batch = NumSlices(Len(Items), PoolSize),
         pc' = (IF pc = "dispatch" THEN "barrier" ELSE "encrypting"),
         UNCHANGED <<files, index, batch, size, busy>>
  PROVE  Work' /\ Remaining' = Remaining /\ \A d : ToRead(d)' <=> ToRead(d)
<1>1. Later = {}
  BY ItemsOfBatch, LeftAtTheEnds DEF Later
<1>2. ~HandingOver' /\ Later' = {}
  BY DEF HandingOver, Later
<1>3. /\ pc' \in ReadStates <=> pc \in ReadStates
      /\ pc' \in EncryptStates <=> pc \in EncryptStates
      /\ pc \in ReadStates \cup EncryptStates
  BY DEF ReadStates, EncryptStates, HandingOver
<1>4. Remaining' = Remaining /\ Listed' = Listed
  BY <1>1, <1>2 DEF Remaining, Listed
<1>5. Work'
  BY <1>2, <1>3, <1>4 DEF Work
<1> QED BY <1>3, <1>4, <1>5 DEF ToRead

\* When the workers are free again, nothing of the batch remains.
LEMMA NothingRemains ==
  ASSUME busy = {}, ~HandingOver
  PROVE  Remaining = {} /\ \A d : ~ToRead(d)
BY NobodyBusy DEF Remaining, Later, ToRead

\* Where there is no batch.
LEMMA NoBatch ==
  ASSUME busy' = {}, pc' \notin ReadStates \cup EncryptStates
  PROVE  Work' /\ \A d : ~ToRead(d)'
<1>1. ~HandingOver'
  BY DEF HandingOver, ReadStates, EncryptStates
<1>2. Later' = {}
  BY <1>1 DEF Later
<1> QED BY <1>1, <1>2, NobodyBusy DEF Work, ToRead

-----------------------------------------------------------------------------
(* Words and their counters.                                               *)

\* Natural numbers have a least one among them.
LEMMA LeastNumber ==
  ASSUME NEW S \in SUBSET Nat, S # {}
  PROVE  \E x \in S : \A y \in S : x <= y
<1>1. PICK x \in S : \A y \in S : ~(<<y, x>> \in OpToRel(<, Nat))
  BY NatLessThanWellFounded, WFMin
<1>2. \A y \in S : ~(y < x)
  BY <1>1 DEF OpToRel
<1> QED BY <1>2

\* The loop over the dictionary comes to the next word.
LEMMA NextWordIs ==
  ASSUME TypeOK, Ahead # {}
  PROVE  /\ NextWord \in dict /\ NextWord \in Words /\ NextWord > cursor
         /\ NextWord \in Nat \ {0} /\ cursor \in Nat
         /\ NextWord \notin Behind
         /\ {w \in dict : w <= NextWord} = Behind \cup {NextWord}
<1>1. dict \subseteq Words /\ Words \subseteq Nat /\ cursor \in Nat
  BY WordsAssumption DEF TypeOK
<1>2. Ahead \in SUBSET Nat
  BY <1>1 DEF Ahead
<1>3. \E w \in Ahead : \A v \in Ahead : w <= v
  BY <1>2, LeastNumber
<1>4. NextWord \in Ahead /\ \A v \in Ahead : NextWord <= v
  BY <1>3 DEF NextWord
<1> HIDE DEF NextWord
<1>5. NextWord \in dict /\ NextWord > cursor /\ NextWord \in Words
  BY <1>1, <1>4 DEF Ahead
<1>6. NextWord \in Nat \ {0}
  BY <1>5, WordsAssumption
<1>7. \A w \in dict : w <= NextWord <=> w <= cursor \/ w = NextWord
  <2> SUFFICES ASSUME NEW w \in dict PROVE w <= NextWord <=> w <= cursor \/ w = NextWord
    OBVIOUS
  <2>1. w \in Nat /\ (w > cursor => NextWord <= w)
    BY <1>1, <1>4 DEF Ahead
  <2> QED BY <2>1, <1>1, <1>5, <1>6
<1>8. NextWord \notin Behind
  BY <1>1, <1>5, <1>6 DEF Behind
<1>9. {w \in dict : w <= NextWord} = Behind \cup {NextWord}
  BY <1>5, <1>7 DEF Behind
<1> QED BY <1>1, <1>5, <1>6, <1>8, <1>9

\* At the ends of the loop.
LEMMA BehindAtTheEnds ==
  ASSUME TypeOK
  PROVE  /\ cursor = 0 => Behind = {}
         /\ Ahead = {} => Behind = dict
         /\ Behind \subseteq dict
<1>1. dict \subseteq Nat \ {0} /\ cursor \in Nat
  BY WordsAssumption DEF TypeOK
<1>2. \A w \in dict : w > 0 /\ (w <= cursor <=> ~(w > cursor))
  BY <1>1
<1>3. \A w \in dict : w > 0 => ~(w <= 0)
  BY <1>1
<1> QED BY <1>2, <1>3 DEF Behind, Ahead

\* The documents with a word are numbered from 0.
LEMMA CounterNumbers ==
  ASSUME TypeOK, NEW w
  PROVE  /\ IsFiniteSet(Containing(w)) /\ Cardinality(Containing(w)) \in Nat
         /\ \A i \in Containing(w) :
              Counter(w, i) \in 0 .. Cardinality(Containing(w)) - 1
         /\ \A i, j \in Containing(w) : Counter(w, i) = Counter(w, j) => i = j
<1> DEFINE C == Containing(w)
           Below(i) == {j \in C : j < i}
<1>1. C \subseteq 1 .. Len(index) /\ Len(index) \in Nat
  BY Typed DEF Containing
<1>2. IsFiniteSet(C) /\ Cardinality(C) \in Nat
  <2>1. IsFiniteSet(1 .. Len(index))
    BY <1>1, FS_Interval
  <2> HIDE DEF C
  <2>2. IsFiniteSet(C)
    BY <1>1, <2>1, FS_Subset
  <2> QED BY <2>2, FS_CardinalityType
<1>3. \A i \in C : Counter(w, i) = Cardinality(Below(i))
  BY DEF Counter
<1>4. \A i \in C : i \in Nat
  BY <1>1
<1> HIDE DEF C
<1>5. \A i \in C : Below(i) \in SUBSET C /\ i \notin Below(i)
  BY <1>4
<1>6. \A i \in C : IsFiniteSet(Below(i)) /\ Cardinality(Below(i)) \in Nat
                   /\ Cardinality(Below(i)) < Cardinality(C)
  <2> SUFFICES ASSUME NEW i \in C
               PROVE  IsFiniteSet(Below(i)) /\ Cardinality(Below(i)) \in Nat
                      /\ Cardinality(Below(i)) < Cardinality(C)
    OBVIOUS
  <2>1. /\ IsFiniteSet(Below(i)) /\ Cardinality(Below(i)) <= Cardinality(C)
        /\ Cardinality(C) = Cardinality(Below(i)) => C = Below(i)
    BY <1>2, <1>5, FS_Subset
  <2>2. Cardinality(Below(i)) \in Nat
    BY <2>1, FS_CardinalityType
  <2>3. Cardinality(C) # Cardinality(Below(i))
    BY <2>1, <1>5
  <2> QED BY <2>1, <2>2, <2>3, <1>2
<1>7. ASSUME NEW i \in C, NEW j \in C, i < j
      PROVE  Cardinality(Below(i)) < Cardinality(Below(j))
  <2>1. Below(i) \in SUBSET Below(j) /\ i \in Below(j) /\ i \notin Below(i)
    BY <1>4, <1>7
  <2>2. /\ Cardinality(Below(i)) <= Cardinality(Below(j))
        /\ Cardinality(Below(j)) = Cardinality(Below(i)) => Below(j) = Below(i)
    BY <2>1, <1>6, FS_Subset
  <2>3. Cardinality(Below(j)) # Cardinality(Below(i))
    BY <2>1, <2>2
  <2>4. Cardinality(Below(i)) \in Nat /\ Cardinality(Below(j)) \in Nat
    BY <1>6
  <2> QED BY <2>2, <2>3, <2>4
<1>8. ASSUME NEW i \in C, NEW j \in C, Counter(w, i) = Counter(w, j) PROVE i = j
  <2>1. Cardinality(Below(i)) = Cardinality(Below(j)) /\ Cardinality(Below(i)) \in Nat
    BY <1>3, <1>6, <1>8
  <2>2. ~(i < j) /\ ~(j < i)
    BY <2>1, <1>7
  <2> QED BY <2>2, <1>4
<1>9. ASSUME NEW i \in C PROVE Counter(w, i) \in 0 .. Cardinality(C) - 1
  <2>1. Counter(w, i) \in Nat /\ Counter(w, i) < Cardinality(C)
    BY <1>3, <1>6
  <2> QED BY <1>2, <2>1
<1> QED BY <1>2, <1>8, <1>9 DEF C

\* And no number is left out.
LEMMA CounterOnto ==
  ASSUME TypeOK, NEW w, NEW n \in 0 .. Cardinality(Containing(w)) - 1
  PROVE  \E i \in Containing(w) : Counter(w, i) = n
<1> DEFINE C == Containing(w)
           N == 0 .. Cardinality(C) - 1
           f == [i \in C |-> Counter(w, i)]
<1>1. /\ IsFiniteSet(C) /\ Cardinality(C) \in Nat
      /\ \A i \in C : Counter(w, i) \in N
      /\ \A i, j \in C : Counter(w, i) = Counter(w, j) => i = j
  BY CounterNumbers
<1>2. f \in Injection(C, N)
  <2>1. f \in [C -> N] /\ \A a, b \in C : f[a] = f[b] => a = b
    BY <1>1
  <2> QED BY <2>1, Fun_IsInj
<1>3. IsFiniteSet(N) /\ Cardinality(N) = Cardinality(C)
  <2>1. 0 \in Int /\ Cardinality(C) - 1 \in Int
    BY <1>1
  <2>2. /\ IsFiniteSet(N)
        /\ Cardinality(N) = IF 0 > Cardinality(C) - 1 THEN 0 ELSE Cardinality(C) - 1 - 0 + 1
    BY <2>1, FS_Interval
  <2> QED BY <2>2, <1>1
<1>4. f \in Surjection(C, N)
  BY <1>2, <1>3, FS_Injection
<1>5. \A m \in N : \E i \in C : f[i] = m
  <2> HIDE DEF f, C, N
  <2> QED BY <1>4, Fun_SurjectionProperties
<1>6. PICK i \in C : f[i] = n
  BY <1>5
<1> QED BY <1>6

-----------------------------------------------------------------------------
(* What is known when nothing is pending.                                  *)

\* A step that leaves documents, queue, dictionary and the documents in the
\* index where they are.
LEMMA ContentUnchanged ==
  ASSUME Flow, Dictionary, UNCHANGED <<text, readable, files, queue, hEvent, dict>>,
         DOMAIN index' = DOMAIN index,
         \A i \in DOMAIN index : index'[i].doc = index[i].doc,
         \A d : ToRead(d)' <=> ToRead(d)
  PROVE  /\ Flow' /\ Dictionary'
         /\ Indexable' = Indexable /\ AllWords' = AllWords
         /\ \A d : Indexed(d)' <=> Indexed(d)
<1>1. \A d : (Waiting(d)' <=> Waiting(d)) /\ (Indexed(d)' <=> Indexed(d))
             /\ WordsOf(d)' = WordsOf(d)
  BY DEF Waiting, Indexed, WordsOf
<1>2. Listed' = Listed
  BY DEF Listed
<1>3. Indexable' = Indexable
  BY <1>2 DEF Indexable, WordsOf
<1>4. AllWords' = AllWords
  BY <1>3 DEF AllWords, WordsOf
<1>5. Flow'
  BY <1>1, <1>2, <1>3 DEF Flow
<1>6. Dictionary'
  BY <1>1, <1>4 DEF Dictionary
<1> QED BY <1>1, <1>3, <1>4, <1>5, <1>6

\* All documents that belong into the index are in it.
LEMMA SettledIsFinished ==
  ASSUME TypeOK, Flow, Dictionary, queue = <<>>, hEvent = 0, pc \notin ReadStates
  PROVE  /\ \A d \in Docs : ~Waiting(d)
         /\ \A d \in Indexable : Indexed(d)
         /\ dict = AllWords
         /\ index = <<>> \/ dict = {} => Indexable = {}
<1>1. \A d \in Docs : ~Waiting(d)
  BY Typed DEF Waiting
<1>2. \A d : ~ToRead(d)
  BY DEF ToRead
<1>3. \A d \in Indexable : Indexed(d)
  BY <1>1, <1>2, IndexableTyped DEF Flow
<1>4. dict = AllWords
  <2>1. \A d \in Indexable : WordsOf(d) \subseteq dict
    BY <1>3, IndexableTyped DEF Dictionary
  <2>2. AllWords \subseteq dict
    BY <2>1 DEF AllWords
  <2> QED BY <2>2 DEF Dictionary
<1>5. ASSUME index = <<>> PROVE Indexable = {}
  BY <1>3, <1>5 DEF Indexed
<1>6. ASSUME dict = {} PROVE Indexable = {}
  BY <1>4, <1>6, IndexableTyped
<1> QED BY <1>1, <1>3, <1>4, <1>5, <1>6

\* Every word of the dictionary has a document in the index.
LEMMA WordsHaveDocuments ==
  ASSUME TypeOK, Flow, Dictionary, queue = <<>>, hEvent = 0, pc \notin ReadStates,
         NEW w \in dict
  PROVE  Containing(w) # {}
<1>1. w \in AllWords
  BY SettledIsFinished
<1>2. PICK d \in Indexable : w \in WordsOf(d)
  BY <1>1 DEF AllWords
<1>3. Indexed(d)
  BY SettledIsFinished
<1> QED BY <1>2, <1>3 DEF Indexed, Containing

-----------------------------------------------------------------------------
(* The steps of main.                                                      *)

LEMMA InitIInv == Init => IInv
<1> SUFFICES ASSUME Init PROVE IInv
  OBVIOUS
<1>1. PICK k \in 0 .. NumDocs : files = [d \in 1 .. k |-> d]
  BY DEF Init
<1>2. /\ files \in Seq(Docs) /\ IsInjective(files) /\ DOMAIN files = 1 .. k
      /\ \A d \in 1 .. k : files[d] = d
  BY <1>1, BoundsAssumption DEF Docs, IsInjective
<1>3. /\ busy = {} /\ batch = 0 /\ size = 0 /\ queue = <<>> /\ hEvent = 0
      /\ index = <<>> /\ dict = {} /\ saved = {} /\ cursor = 0 /\ pc = "dispatch"
      /\ settled = FALSE /\ DOMAIN sse2 = {} /\ readable \subseteq Listed
      /\ disk = [dict |-> {}, tfi |-> Empty, sse2 |-> Empty, done |-> {}]
      /\ DOMAIN Empty = {}
      /\ text \in [Docs -> Texts \cup {Empty}]
      /\ \A d \in Docs \ readable : text[d] = Empty
  BY DEF Init, Empty
<1>4. Listed \subseteq Docs
  BY <1>2, BoundsAssumption DEF Listed, Docs
<1>5. TypeOK
  <2>1. Cardinality(busy) <= PoolSize /\ Len(queue) <= Max
    BY <1>3, FS_EmptySet, CapacityAssumption
  <2>2. index \in Seq([doc : Docs, tf : TFVectors]) /\ queue \in Seq(Docs)
    BY <1>3
  <2>3. disk.dict = {} /\ disk.tfi = Empty /\ disk.done = {}
    BY <1>3
  <2> QED BY <1>2, <1>3, <1>4, <2>1, <2>2, <2>3 DEF TypeOK, EngineStates
<1>6. Form
  BY <1>2, <1>3 DEF Form
<1>7. Sizes
  BY <1>3 DEF Sizes, LateStates
<1>8. Flow /\ Dictionary
  <2>1. \A d : ~Indexed(d)
    BY <1>3 DEF Indexed
  <2>2. \A d \in Docs : ~Waiting(d)
    BY <1>3, <1>5, Typed DEF Waiting
  <2>3. HandingOver /\ pc \in ReadStates
    BY <1>3 DEF HandingOver, ReadStates
  <2>4. IsInjective(queue)
    BY <1>3 DEF IsInjective
  <2>5. \A d \in Indexable : ToRead(d)
    <3>1. Items = [i \in DOMAIN files |-> Entry(files[i], <<>>)]
      BY <1>3 DEF Items
    <3>2. Items \in Seq(Indexes) /\ Range(Items) = {Entry(d, <<>>) : d \in Listed}
      <4>1. \A i \in 1 .. k : Entry(files[i], <<>>) \in Indexes
        BY <1>2, <1>5, Typed, BoundsAssumption DEF Docs
      <4>2. Items \in Seq(Indexes)
        BY <3>1, <4>1, <1>2
      <4> QED BY <3>1, <4>2 DEF Range, Listed
    <3>3. Left(Items, PoolSize, 0) = Range(Items)
      BY <3>2, LeftAtTheEnds, CapacityAssumption
    <3>4. Later = {Entry(d, <<>>) : d \in Listed}
      BY <1>3, <2>3, <3>2, <3>3 DEF Later
    <3> QED BY <2>3, <3>4 DEF ToRead, Remaining, Indexable
  <2>6. DOMAIN queue = {} /\ DOMAIN index = {}
    BY <1>3
  <2>7. Flow
    BY <2>1, <2>2, <2>4, <2>5, <2>6 DEF Flow
  <2> QED BY <1>3, <2>1, <2>7 DEF Dictionary
<1>9. Work
  BY <1>3, <1>5, <1>6, <1>7, <1>8, BatchBegins DEF HandingOver
<1>10. Settled /\ Encrypted
  BY <1>3 DEF Settled, Encrypted
<1>11. Vectors
  BY <1>3 DEF Vectors, LateStates
<1>12. SSE2Entries
  BY <1>3 DEF SSE2Entries
<1> QED BY <1>5, <1>6, <1>7, <1>8, <1>9, <1>10, <1>11, <1>12 DEF IInv

\* A task goes to a free worker.
LEMMA HandOverStep ==
  ASSUME IInv, HandOverRead \/ HandOverEncrypt
  PROVE  IInv'
<1> USE DEF IInv
<1>1. /\ HandOver /\ HandingOver
      /\ UNCHANGED <<text, readable, files, pc, size, cursor, saved, settled, queue,
                     hEvent, dict, index, sse2, disk>>
  BY DEF HandOverRead, HandOverEncrypt, HandingOver, inputVars, sharedVars
<1>2. /\ Work' /\ Remaining' = Remaining /\ \A d : ToRead(d)' <=> ToRead(d)
      /\ \A s \in busy' : s \in Seq([doc : Docs, tf : TFVectors]) \ {<<>>}
      /\ Cardinality(busy') <= PoolSize /\ batch' \in Nat
  BY <1>1, HandOverKeeps
<1>3. TypeOK' /\ Form' /\ Sizes'
  BY <1>1, <1>2 DEF TypeOK, Form, Sizes
<1>4. Flow' /\ Dictionary' /\ Indexable' = Indexable
  BY <1>1, <1>2, ContentUnchanged
<1>5. Settled'
  BY <1>1, <1>4 DEF Settled
<1>6. Vectors'
  BY <1>1 DEF Vectors, Vector, Behind, WordsOf
<1>7. Encrypted'
  BY <1>1, <1>2 DEF Encrypted, Stored
<1>8. SSE2Entries'
  BY <1>1 DEF SSE2Entries, HandingOver
<1> QED BY <1>2, <1>3, <1>4, <1>5, <1>6, <1>7, <1>8

\* Main waits for the workers.
LEMMA AllHandedOverStep ==
  ASSUME IInv, AllRead \/ AllHandedOver
  PROVE  IInv'
<1> USE DEF IInv
<1>1. /\ pc \in {"dispatch", "encrypt"} /\ HandingOver
      /\ batch = NumSlices(Len(Items), PoolSize)
      /\ pc' = (IF pc = "dispatch" THEN "barrier" ELSE "encrypting")
      /\ UNCHANGED <<text, readable, files, batch, size, cursor, saved, settled, busy,
                     queue, hEvent, dict, index, sse2, disk>>
  BY DEF AllRead, AllHandedOver, HandingOver, inputVars, sharedVars
<1>2. Work' /\ Remaining' = Remaining /\ \A d : ToRead(d)' <=> ToRead(d)
  BY <1>1, AllHandedOverKeeps
<1>3. TypeOK' /\ Form' /\ Sizes'
  BY <1>1 DEF TypeOK, Form, Sizes, EngineStates, EarlyStates, LateStates
<1>4. Flow' /\ Dictionary' /\ Indexable' = Indexable
  BY <1>1, <1>2, ContentUnchanged
<1>5. Settled'
  BY <1>1, <1>4 DEF Settled, LateStates
<1>6. Vectors'
  BY <1>1 DEF Vectors, Vector, WordsOf, EarlyStates, LateStates
<1>7. Encrypted'
  BY <1>1, <1>2 DEF Encrypted, Stored, LateStates, Settled
<1>8. SSE2Entries'
  BY <1>1 DEF SSE2Entries, EarlyStates, EncryptStates
<1> QED BY <1>2, <1>3, <1>4, <1>5, <1>6, <1>7, <1>8

\* The directory is empty.
LEMMA NoFilesStep ==
  ASSUME IInv, NoFiles
  PROVE  IInv'
<1> USE DEF IInv
<1>1. /\ pc = "dispatch" /\ pc' = "failed" /\ files = <<>>
      /\ UNCHANGED <<text, readable, files, batch, size, cursor, saved, settled, busy,
                     queue, hEvent, dict, index, sse2, disk>>
  BY DEF NoFiles, inputVars, sharedVars
<1>2. Remaining \subseteq {Entry(d, <<>>) : d \in Listed} /\ Listed = {}
  BY <1>1 DEF Work, ReadStates, Listed
<1>3. \A d : ~ToRead(d)
  BY <1>2 DEF ToRead
<1>4. busy = {}
  <2>1. busy \subseteq {}
    <3> SUFFICES ASSUME NEW s \in busy PROVE FALSE
      OBVIOUS
    <3>1. s \in Seq(Indexes) /\ s # <<>>
      BY Typed
    <3>2. 1 \in DOMAIN s
      BY <3>1, TailRange
    <3>3. s[1] \in InWork(busy)
      BY <3>2 DEF InWork, Range
    <3> QED BY <3>3, <1>2 DEF Remaining
  <2> QED BY <2>1
<1>5. Work' /\ \A d : ~ToRead(d)'
  BY <1>1, <1>4, NoBatch DEF ReadStates, EncryptStates
<1>6. TypeOK' /\ Form' /\ Sizes'
  BY <1>1 DEF TypeOK, Form, Sizes, EngineStates, EarlyStates, LateStates
<1>7. Flow' /\ Dictionary'
  BY <1>1, <1>3, <1>5, ContentUnchanged
<1>8. Settled' /\ Vectors' /\ Encrypted'
  BY <1>1 DEF Settled, Vectors, Encrypted, EarlyStates, LateStates
<1>9. SSE2Entries'
  BY <1>1 DEF SSE2Entries, EarlyStates, EncryptStates
<1> QED BY <1>5, <1>6, <1>7, <1>8, <1>9

\* Every worker is free again, and the sleep ends.
LEMMA ReadBarrierStep ==
  ASSUME IInv, ReadBarrier \/ SleepEnds
  PROVE  IInv'
<1> USE DEF IInv
<1>1. /\ \/ pc = "barrier" /\ pc' = "sleep" /\ settled' = settled
         \/ pc = "sleep" /\ pc' = "save" /\ settled' = (queue = <<>> /\ hEvent = 0)
      /\ busy = {}
      /\ UNCHANGED <<text, readable, files, batch, size, cursor, saved, busy,
                     queue, hEvent, dict, index, sse2, disk>>
  BY DEF ReadBarrier, SleepEnds, inputVars, sharedVars, Work, ReadStates, EncryptStates
<1>2. \A d : ~ToRead(d)
  BY <1>1, NothingRemains DEF HandingOver
<1>3. Work' /\ \A d : ~ToRead(d)'
  BY <1>1, NoBatch DEF ReadStates, EncryptStates
<1>4. TypeOK' /\ Form' /\ Sizes'
  BY <1>1 DEF TypeOK, Form, Sizes, EngineStates, EarlyStates, LateStates
<1>5. Flow' /\ Dictionary'
  BY <1>1, <1>2, <1>3, ContentUnchanged
<1>6. Settled'
  BY <1>1 DEF Settled, LateStates
<1>7. Vectors' /\ Encrypted'
  BY <1>1 DEF Vectors, Encrypted, EarlyStates, LateStates
<1>8. SSE2Entries'
  BY <1>1 DEF SSE2Entries, EarlyStates, EncryptStates
<1> QED BY <1>3, <1>4, <1>5, <1>6, <1>7, <1>8

\* The dictionary is tested and copied.
LEMMA SaveDictionaryStep ==
  ASSUME IInv, SaveDictionary
  PROVE  IInv'
<1> USE DEF IInv
<1>1. /\ pc = "save" /\ pc' = (IF dict = {} THEN "failed" ELSE "saving")
      /\ saved' = dict
      /\ UNCHANGED <<text, readable, files, batch, size, cursor, settled, busy,
                     queue, hEvent, dict, index, sse2, disk>>
  BY DEF SaveDictionary, inputVars, sharedVars
<1>2. busy = {} /\ \A d : ~ToRead(d)
  BY <1>1 DEF Work, ReadStates, EncryptStates, ToRead
<1>3. Work' /\ \A d : ~ToRead(d)'
  BY <1>1, <1>2, NoBatch DEF ReadStates, EncryptStates
<1>4. TypeOK' /\ Form' /\ Sizes'
  BY <1>1 DEF TypeOK, Form, Sizes, EngineStates, EarlyStates, LateStates
<1>5. Flow' /\ Dictionary' /\ Indexable' = Indexable
  BY <1>1, <1>2, <1>3, ContentUnchanged
<1>6. settled /\ dict = {} => Indexable = {}
  BY <1>1, SettledIsFinished DEF Settled, ReadStates
<1>7. Settled'
  BY <1>1, <1>5, <1>6 DEF Settled, LateStates
<1>8. Vectors' /\ Encrypted'
  BY <1>1 DEF Vectors, Encrypted, EarlyStates, LateStates
<1>9. SSE2Entries'
  BY <1>1 DEF SSE2Entries, EarlyStates, EncryptStates
<1> QED BY <1>3, <1>4, <1>5, <1>7, <1>8, <1>9

\* The dictionary is on disk, and the loop over it begins.
LEMMA DictionarySavedStep ==
  ASSUME IInv, DictionarySaved
  PROVE  IInv'
<1> USE DEF IInv
<1>1. PICK new \in SUBSET (dict \ saved) :
        disk' = [disk EXCEPT !.dict = saved \cup new,
                             !.done = @ \cup {"Dictionary.index"}]
  BY DEF DictionarySaved
<1>2. /\ pc = "saving" /\ pc' = "tf" /\ cursor' = 0
      /\ UNCHANGED <<text, readable, files, batch, size, saved, settled, busy,
                     queue, hEvent, dict, index, sse2>>
  BY DEF DictionarySaved, inputVars, sharedVars
<1>3. /\ disk'.dict = saved \cup new /\ disk'.tfi = disk.tfi /\ disk'.sse2 = disk.sse2
      /\ disk'.done = disk.done \cup {"Dictionary.index"}
      /\ disk' = [dict |-> disk'.dict, tfi |-> disk'.tfi, sse2 |-> disk'.sse2,
                  done |-> disk'.done]
  <2> DEFINE D == [dict |-> disk.dict, tfi |-> disk.tfi, sse2 |-> disk.sse2,
                   done |-> disk.done]
  <2>1. disk = D
    BY DEF Form
  <2>2. disk' = [D EXCEPT !.dict = saved \cup new, !.done = @ \cup {"Dictionary.index"}]
    BY <1>1, <2>1
  <2>3. disk' = [dict |-> saved \cup new, tfi |-> disk.tfi, sse2 |-> disk.sse2,
                 done |-> disk.done \cup {"Dictionary.index"}]
    BY <2>2
  <2> QED BY <2>3
<1>4. busy = {} /\ \A d : ~ToRead(d)
  BY <1>2 DEF Work, ReadStates, EncryptStates, ToRead
<1>5. Work' /\ \A d : ~ToRead(d)'
  BY <1>2, <1>4, NoBatch DEF ReadStates, EncryptStates
<1>6. Form' /\ Sizes'
  BY <1>2, <1>3 DEF Form, Sizes, EarlyStates, LateStates
<1>7. TypeOK'
  BY <1>2, <1>3 DEF TypeOK, EngineStates
<1>8. Flow' /\ Dictionary' /\ Indexable' = Indexable
  BY <1>2, <1>4, <1>5, ContentUnchanged
<1>9. Settled'
  <2>1. settled => saved \cup new = dict
    BY <1>2 DEF Settled
  <2> QED BY <2>1, <1>2, <1>3 DEF Settled, LateStates
<1>10. Vectors'
  <2>1. \A i \in DOMAIN index' : index'[i].tf = <<>>
    BY <1>2 DEF Vectors, EarlyStates
  <2>2. Behind' = {}
    <3>1. (TypeOK => (cursor = 0 => Behind = {}))'
      BY BehindAtTheEnds, PTL
    <3> QED BY <3>1, <1>2, <1>7
  <2>3. (\A i \in DOMAIN index : Vector(index[i], {}))'
    BY <2>1 DEF Vector
  <2> QED BY <1>2, <2>2, <2>3 DEF Vectors, Vector, EarlyStates, LateStates
<1>11. Encrypted'
  BY <1>2 DEF Encrypted, LateStates
<1>12. SSE2Entries'
  BY <1>2, <1>3 DEF SSE2Entries, EarlyStates, EncryptStates
<1> QED BY <1>5, <1>6, <1>7, <1>8, <1>9, <1>10, <1>11, <1>12

\* There is no dictionary or no index.
LEMMA NothingToCalcStep ==
  ASSUME IInv, NothingToCalc
  PROVE  IInv'
<1> USE DEF IInv
<1>1. /\ pc = "tf" /\ pc' = "failed" /\ (dict = {} \/ index = <<>>)
      /\ UNCHANGED <<text, readable, files, batch, size, cursor, saved, settled, busy,
                     queue, hEvent, dict, index, sse2, disk>>
  BY DEF NothingToCalc, inputVars, sharedVars
<1>2. busy = {} /\ \A d : ~ToRead(d)
  BY <1>1 DEF Work, ReadStates, EncryptStates, ToRead
<1>3. Work' /\ \A d : ~ToRead(d)'
  BY <1>1, <1>2, NoBatch DEF ReadStates, EncryptStates
<1>4. TypeOK' /\ Form' /\ Sizes'
  BY <1>1 DEF TypeOK, Form, Sizes, EngineStates, EarlyStates, LateStates
<1>5. Flow' /\ Dictionary' /\ Indexable' = Indexable
  BY <1>1, <1>2, <1>3, ContentUnchanged
<1>6. settled => Indexable = {}
  BY <1>1, SettledIsFinished DEF Settled, ReadStates
<1>7. Settled'
  BY <1>1, <1>5, <1>6 DEF Settled, LateStates
<1>8. Vectors' /\ Encrypted'
  BY <1>1 DEF Vectors, Encrypted, EarlyStates, LateStates
<1>9. SSE2Entries'
  BY <1>1 DEF SSE2Entries, EarlyStates, EncryptStates
<1> QED BY <1>3, <1>4, <1>5, <1>7, <1>8, <1>9

\* The value that SetTF appends to the vector of a document index.
Value(e, w) == IF w \in WordsOf(e.doc) THEN Cardinality(dict) \div text[e.doc][w] ELSE 0

\* What SetTF does to a vector that has the words of W.
LEMMA AppendTFProperties ==
  ASSUME TypeOK, NEW e \in Indexes, NEW w \in Words
  PROVE  /\ AppendTF(e, w) \in Indexes /\ AppendTF(e, w).doc = e.doc
         /\ \A W : Vector(e, W) /\ (\A v \in W : v < w)
                     => Vector(AppendTF(e, w), W \cup {w})
<1> DEFINE a == <<w, Value(e, w)>>
           t == Append(e.tf, a)
           n == Len(e.tf)
<1>1. e.doc \in Docs /\ e.tf \in Seq(Words \X Nat) /\ e = [doc |-> e.doc, tf |-> e.tf]
  BY DEF Indexes, TFVectors
<1>2. a \in Words \X Nat /\ a[1] = w /\ a[2] = Value(e, w)
  <2>1. Cardinality(dict) \in Nat
    <3>1. dict \in SUBSET Words
      BY DEF TypeOK
    <3> QED BY <3>1, WordsAssumption, FS_Subset, FS_CardinalityType
  <2>2. w \in WordsOf(e.doc) => text[e.doc][w] \in Nat \ {0}
    BY <1>1, TextTyped
  <2>3. Value(e, w) \in Nat
    <3>1. \A c \in Nat, k \in Nat \ {0} : c \div k \in Nat
      OBVIOUS
    <3> QED BY <2>1, <2>2, <3>1 DEF Value
  <2> QED BY <2>3
<1>3. AppendTF(e, w) = [doc |-> e.doc, tf |-> t]
  <2>1. AppendTF(e, w) = [e EXCEPT !.tf = Append(@, a)]
    BY DEF AppendTF, Value
  <2> HIDE DEF a
  <2> QED BY <1>1, <2>1
<1> HIDE DEF a
<1>4. /\ t \in Seq(Words \X Nat) /\ n \in Nat
      /\ DOMAIN t = 1 .. n + 1 /\ DOMAIN e.tf = 1 .. n
      /\ \A i \in DOMAIN e.tf : t[i] = e.tf[i]
      /\ t[n + 1] = a
  BY <1>1, <1>2, AppendRange, LenProperties
<1> HIDE DEF t, n
<1>5. AppendTF(e, w) \in Indexes /\ AppendTF(e, w).doc = e.doc /\ AppendTF(e, w).tf = t
  BY <1>1, <1>3, <1>4 DEF Indexes, TFVectors
<1>6. ASSUME NEW W, Vector(e, W), \A v \in W : v < w
      PROVE  Vector(AppendTF(e, w), W \cup {w})
  <2>1. /\ {e.tf[i][1] : i \in DOMAIN e.tf} = W
        /\ \A i, j \in DOMAIN e.tf : i < j => e.tf[i][1] < e.tf[j][1]
        /\ \A i \in DOMAIN e.tf : e.tf[i][2] = Value(e, e.tf[i][1])
    BY <1>6 DEF Vector, Value
  <2>2. \A i \in 1 .. n + 1 : i \in 1 .. n \/ i = n + 1
    BY <1>4
  <2>3. n + 1 \in 1 .. n + 1 /\ \A i \in 1 .. n : i \in 1 .. n + 1 /\ ~(n + 1 < i) /\ ~(n + 1 < n + 1)
    BY <1>4
  <2>4. {t[i][1] : i \in DOMAIN t} = W \cup {w}
    <3>1. \A i \in DOMAIN e.tf : e.tf[i][1] \in W /\ t[i] = e.tf[i] /\ i \in DOMAIN t
      BY <2>1, <2>3, <1>4
    <3>2. \A i \in DOMAIN t : t[i][1] \in W \cup {w}
      BY <3>1, <2>2, <1>2, <1>4
    <3>3. \A v \in W : \E i \in DOMAIN e.tf : e.tf[i][1] = v
      BY <2>1
    <3>4. \A v \in W : \E i \in DOMAIN t : t[i][1] = v
      BY <3>1, <3>3
    <3>5. \E i \in DOMAIN t : t[i][1] = w
      BY <2>3, <1>2, <1>4
    <3> QED BY <3>2, <3>4, <3>5
  <2>5. ASSUME NEW i \in DOMAIN t, NEW j \in DOMAIN t, i < j PROVE t[i][1] < t[j][1]
    <3>1. CASE i \in 1 .. n /\ j \in 1 .. n
      BY <2>1, <2>5, <3>1, <1>4
    <3>2. CASE i \in 1 .. n /\ j = n + 1
      <4>1. e.tf[i][1] \in W
        BY <2>1, <3>2, <1>4
      <4> QED BY <4>1, <1>2, <1>4, <1>6, <3>2
    <3> QED BY <2>2, <2>3, <2>5, <3>1, <3>2, <1>4
  <2>6. ASSUME NEW i \in DOMAIN t PROVE t[i][2] = Value(e, t[i][1])
    <3>1. CASE i \in 1 .. n
      BY <2>1, <3>1, <1>4
    <3>2. CASE i = n + 1
      BY <3>2, <1>2, <1>4
    <3> QED BY <2>2, <3>1, <3>2, <1>4
  <2>7. \A i \in DOMAIN t :
          t[i][2] = IF t[i][1] \in WordsOf(e.doc)
                    THEN Cardinality(dict) \div text[e.doc][t[i][1]] ELSE 0
    BY <2>6 DEF Value
  <2> QED BY <1>5, <2>4, <2>5, <2>7 DEF Vector
<1> QED BY <1>5, <1>6

\* The next word gets its value in every vector.
LEMMA CalcTermFrequencyStep ==
  ASSUME IInv, CalcTermFrequency
  PROVE  IInv'
<1> USE DEF IInv
<1> DEFINE w == NextWord
<1>1. /\ pc = "tf" /\ Ahead # {}
      /\ index' = [i \in DOMAIN index |-> AppendTF(index[i], w)]
      /\ cursor' = w
      /\ UNCHANGED <<text, readable, files, pc, batch, size, saved, settled, busy,
                     queue, hEvent, dict, sse2, disk>>
  BY DEF CalcTermFrequency, inputVars
<1>2. /\ w \in dict /\ w \in Words /\ w > cursor /\ w \in Nat \ {0} /\ cursor \in Nat
      /\ {v \in dict : v <= w} = Behind \cup {w}
  BY <1>1, NextWordIs
<1> HIDE DEF w
<1>3. Behind' = Behind \cup {w}
  BY <1>1, <1>2 DEF Behind
<1>4. \A v \in Behind : v < w
  <2>1. \A v \in Behind : v \in Nat /\ v <= cursor
    BY WordsAssumption DEF TypeOK, Behind
  <2> QED BY <2>1, <1>2
<1>5. \A i \in DOMAIN index :
        /\ index'[i] = AppendTF(index[i], w) /\ index'[i] \in Indexes
        /\ index'[i].doc = index[i].doc
        /\ Vector(index[i], Behind) => Vector(AppendTF(index[i], w), Behind \cup {w})
  BY <1>1, <1>2, <1>4, Typed, AppendTFProperties
<1>6. DOMAIN index' = DOMAIN index /\ index' \in Seq(Indexes) /\ Len(index') = Len(index)
  BY <1>1, <1>5, Typed
<1>7. busy = {} /\ \A d : ~ToRead(d)
  BY <1>1 DEF Work, ReadStates, EncryptStates, ToRead
<1>8. Work' /\ \A d : ~ToRead(d)'
  BY <1>1, <1>7, NoBatch DEF ReadStates, EncryptStates
<1>9. TypeOK'
  BY <1>1, <1>2, <1>6 DEF TypeOK, Indexes
<1>10. Form' /\ Sizes'
  BY <1>1 DEF Form, Sizes, EarlyStates, LateStates
<1>11. Flow' /\ Dictionary' /\ Indexable' = Indexable
  BY <1>1, <1>5, <1>6, <1>7, <1>8, ContentUnchanged
<1>12. Settled' /\ Encrypted'
  BY <1>1, <1>11 DEF Settled, Encrypted, LateStates
<1>13. Vectors'
  <2> SUFFICES ASSUME settled PROVE (\A i \in DOMAIN index : Vector(index[i], Behind))'
    BY <1>1 DEF Vectors, EarlyStates, LateStates
  <2>1. \A i \in DOMAIN index : Vector(AppendTF(index[i], w), Behind \cup {w})
    BY <1>1, <1>5 DEF Vectors
  <2>2. \A i \in DOMAIN index' : Vector(AppendTF(index[i], w), Behind \cup {w})
                                 /\ index'[i] = AppendTF(index[i], w)
    BY <2>1, <1>5, <1>6
  <2> QED BY <2>2, <1>1, <1>3 DEF Vector, WordsOf
<1>14. SSE2Entries'
  BY <1>1 DEF SSE2Entries, EarlyStates, EncryptStates
<1> QED BY <1>8, <1>9, <1>10, <1>11, <1>12, <1>13, <1>14

\* The vectors are complete, and all of them are still to be encrypted.
LEMMA BeginEncryptStep ==
  ASSUME IInv, BeginEncrypt
  PROVE  IInv'
<1> USE DEF IInv
<1>1. /\ pc = "tf" /\ pc' = "encrypt" /\ index # <<>> /\ Ahead = {}
      /\ size' = Len(index) /\ batch' = 0
      /\ UNCHANGED <<text, readable, files, cursor, saved, settled, busy,
                     queue, hEvent, dict, index, sse2, disk>>
  BY DEF BeginEncrypt, inputVars, sharedVars
<1>2. busy = {} /\ \A d : ~ToRead(d)
  BY <1>1 DEF Work, ReadStates, EncryptStates, ToRead
<1>3. \A d : ~ToRead(d)'
  BY <1>1 DEF ToRead, ReadStates
<1>4. Flow' /\ Dictionary' /\ Indexable' = Indexable
  BY <1>1, <1>2, <1>3, ContentUnchanged
<1>5. Len(index) \in Nat \ {0}
  BY <1>1, Typed, TailRange
<1>6. TypeOK' /\ Form'
  BY <1>1, <1>5 DEF TypeOK, Form, EngineStates
<1>7. Sizes'
  BY <1>1, <1>5 DEF Sizes, EarlyStates, LateStates
<1>8. Work' /\ Remaining' = {index'[i] : i \in 1 .. size'}
  <2>1. HandingOver' /\ batch' = 0 /\ busy' = {} /\ pc' # "dispatch"
    BY <1>1, <1>2 DEF HandingOver
  <2>2. (TypeOK /\ Form /\ Sizes /\ Flow /\ HandingOver /\ batch = 0 /\ busy = {}
           => Work /\ Remaining = IF pc = "dispatch" THEN {Entry(d, <<>>) : d \in Listed}
                                                     ELSE {index[i] : i \in 1 .. size})'
    BY BatchBegins, PTL
  <2> QED BY <1>4, <1>6, <1>7, <2>1, <2>2
<1>9. Settled'
  BY <1>1, <1>4 DEF Settled, LateStates
<1>10. Vectors'
  <2>1. Behind = dict
    BY <1>1, BehindAtTheEnds
  <2>2. settled => \A i \in DOMAIN index : Vector(index[i], dict)
    BY <1>1, <2>1 DEF Vectors
  <2> QED BY <1>1, <2>2 DEF Vectors, Vector, WordsOf, EarlyStates
<1>11. Encrypted'
  <2>1. \A i \in DOMAIN index' : index'[i] \in Remaining'
    BY <1>1, <1>8, Typed
  <2> QED BY <2>1 DEF Encrypted
<1>12. SSE2Entries'
  BY <1>1 DEF SSE2Entries, EarlyStates, EncryptStates
<1> QED BY <1>4, <1>6, <1>7, <1>8, <1>9, <1>10, <1>11, <1>12

\* The workers are free again: all vectors are on disk, and the loop over the
\* dictionary begins.
LEMMA EncryptBarrierStep ==
  ASSUME IInv, EncryptBarrier
  PROVE  IInv'
<1> USE DEF IInv
<1>1. /\ pc = "encrypting" /\ pc' = "makesse2" /\ busy = {} /\ cursor' = 0
      /\ UNCHANGED <<text, readable, files, batch, size, saved, settled, busy,
                     queue, hEvent, dict, index, sse2, disk>>
  BY DEF EncryptBarrier, inputVars, sharedVars
<1>2. Remaining = {} /\ \A d : ~ToRead(d)
  BY <1>1, NothingRemains DEF HandingOver
<1>3. Work' /\ \A d : ~ToRead(d)'
  BY <1>1, NoBatch DEF ReadStates, EncryptStates
<1>4. TypeOK' /\ Form' /\ Sizes'
  BY <1>1 DEF TypeOK, Form, Sizes, EngineStates, EarlyStates, LateStates
<1>5. Flow' /\ Dictionary' /\ Indexable' = Indexable
  BY <1>1, <1>2, <1>3, ContentUnchanged
<1>6. Settled'
  BY <1>1, <1>5 DEF Settled, LateStates
<1>7. Vectors'
  BY <1>1 DEF Vectors, Vector, WordsOf, EarlyStates, LateStates
<1>8. Encrypted'
  <2>1. settled => \A i \in DOMAIN index : Stored(index[i])
    BY <1>1, <1>2 DEF Encrypted, LateStates
  <2> QED BY <1>1, <2>1 DEF Encrypted, Stored
<1>9. SSE2Entries'
  <2>1. DOMAIN sse2 = {}
    BY <1>1 DEF SSE2Entries, EncryptStates
  <2>2. Behind' = {}
    <3>1. (TypeOK => (cursor = 0 => Behind = {}))'
      BY BehindAtTheEnds, PTL
    <3> QED BY <3>1, <1>1, <1>4
  <2>3. SSE2For(sse2, Behind)'
    BY <1>1, <2>1, <2>2 DEF SSE2For
  <2>4. "SSE2.index" \notin disk.done
    BY <1>1 DEF SSE2Entries
  <2> QED BY <1>1, <2>1, <2>3, <2>4 DEF SSE2Entries, EarlyStates, EncryptStates
<1> QED BY <1>3, <1>4, <1>5, <1>6, <1>7, <1>8, <1>9

\* The entries of a word.
LEMMA EntriesProperties ==
  ASSUME TypeOK, NEW w \in Words
  PROVE  /\ \A k \in DOMAIN EntriesOf(w) :
              /\ k \in Words \X Nat /\ k[1] = w /\ EntriesOf(w)[k] \in Docs
              /\ \E i \in Containing(w) : k[2] = Counter(w, i)
         /\ \A i \in Containing(w) :
              /\ <<w, Counter(w, i)>> \in DOMAIN EntriesOf(w)
              /\ EntriesOf(w)[<<w, Counter(w, i)>>] = index[i].doc
<1> DEFINE E == EntriesOf(w)
           at(k) == CHOOSE i \in Containing(w) : Counter(w, i) = k[2]
<1>1. /\ DOMAIN E = {<<w, Counter(w, i)>> : i \in Containing(w)}
      /\ \A k \in DOMAIN E : E[k] = index[at(k)].doc
  BY DEF EntriesOf
<1> HIDE DEF E
<1>2. ASSUME NEW i \in Containing(w)
      PROVE  /\ <<w, Counter(w, i)>> \in DOMAIN E
             /\ E[<<w, Counter(w, i)>>] = index[i].doc
             /\ Counter(w, i) \in Nat /\ index[i].doc \in Docs
  <2> DEFINE k == <<w, Counter(w, i)>>
  <2>1. k \in DOMAIN E /\ k[2] = Counter(w, i)
    BY <1>1
  <2>2. at(k) \in Containing(w) /\ Counter(w, at(k)) = k[2]
    BY <2>1
  <2> HIDE DEF at, k
  <2>3. at(k) = i
    BY <2>1, <2>2, CounterNumbers
  <2>4. Counter(w, i) \in Nat
    BY CounterNumbers
  <2>5. index[i].doc \in Docs
    BY Typed DEF Containing
  <2> QED BY <1>1, <2>1, <2>3, <2>4, <2>5 DEF k
<1>3. ASSUME NEW k \in DOMAIN E
      PROVE  /\ k \in Words \X Nat /\ k[1] = w /\ E[k] \in Docs
             /\ \E i \in Containing(w) : k[2] = Counter(w, i)
  <2>1. PICK i \in Containing(w) : k = <<w, Counter(w, i)>>
    BY <1>1
  <2> QED BY <2>1, <1>2
<1> QED BY <1>2, <1>3 DEF E

\* The next word gets an entry for every document that contains it.
LEMMA MakeSSE2IndexStep ==
  ASSUME IInv, MakeSSE2Index
  PROVE  IInv'
<1> USE DEF IInv
<1> DEFINE w == NextWord
           E == EntriesOf(w)
<1>1. /\ pc = "makesse2" /\ Ahead # {}
      /\ sse2' = [k \in DOMAIN sse2 \cup DOMAIN E |->
                    IF k \in DOMAIN sse2 THEN sse2[k] ELSE E[k]]
      /\ cursor' = w
      /\ UNCHANGED <<text, readable, files, pc, batch, size, saved, settled, busy,
                     queue, hEvent, dict, index, disk>>
  BY DEF MakeSSE2Index, inputVars, sharedVars
<1>2. /\ w \in dict /\ w \in Words /\ w \notin Behind
      /\ {v \in dict : v <= w} = Behind \cup {w}
  BY <1>1, NextWordIs
<1> HIDE DEF w
<1>3. /\ \A k \in DOMAIN E : /\ k \in Words \X Nat /\ k[1] = w /\ E[k] \in Docs
                             /\ \E i \in Containing(w) : k[2] = Counter(w, i)
      /\ \A i \in Containing(w) : /\ <<w, Counter(w, i)>> \in DOMAIN E
                                  /\ E[<<w, Counter(w, i)>>] = index[i].doc
  BY <1>2, EntriesProperties
<1> HIDE DEF E
<1>4. /\ DOMAIN sse2' = DOMAIN sse2 \cup DOMAIN E
      /\ \A k \in DOMAIN sse2 : sse2'[k] = sse2[k]
      /\ \A k \in DOMAIN E : k \notin DOMAIN sse2 => sse2'[k] = E[k]
  BY <1>1
<1>5. Behind' = Behind \cup {w}
  BY <1>1, <1>2 DEF Behind
<1>6. TypeOK'
  <2>1. \A k \in DOMAIN sse2' : k \in Words \X Nat /\ sse2'[k] \in Docs
    <3>1. \A k \in DOMAIN sse2 : k \in Words \X Nat /\ sse2[k] \in Docs
      BY DEF TypeOK
    <3> QED BY <3>1, <1>3, <1>4
  <2> QED BY <1>1, <1>2, <2>1 DEF TypeOK
<1>7. SameBatch
  BY <1>1 DEF SameBatch
<1>8. Work' /\ Remaining' = Remaining /\ \A d : ToRead(d)' <=> ToRead(d)
  BY <1>1, <1>7, BatchUnchanged
<1>9. Form' /\ Sizes'
  BY <1>1 DEF Form, Sizes
<1>10. Flow' /\ Dictionary' /\ Indexable' = Indexable
  BY <1>1, <1>8, ContentUnchanged
<1>11. Settled'
  BY <1>1, <1>10 DEF Settled
<1>12. Vectors'
  BY <1>1 DEF Vectors, Vector, WordsOf, EarlyStates
<1>13. Encrypted'
  BY <1>1, <1>8 DEF Encrypted, Stored
<1>14. SSE2Entries'
  <2>1. "SSE2.index" \notin disk.done /\ pc \notin EarlyStates \cup EncryptStates
    BY <1>1 DEF SSE2Entries, EarlyStates, EncryptStates
  <2>2. ASSUME settled PROVE SSE2For(sse2, Behind)'
    <3>1. SSE2For(sse2, Behind)
      BY <1>1, <2>2 DEF SSE2Entries
    <3>2. \A k \in DOMAIN sse2' :
            /\ k[1] \in Behind \cup {w}
            /\ \E i \in Containing(k[1]) : k[2] = Counter(k[1], i)
      BY <3>1, <1>3, <1>4 DEF SSE2For
    <3>3. ASSUME NEW i \in Containing(w)
          PROVE  /\ <<w, Counter(w, i)>> \in DOMAIN sse2'
                 /\ sse2'[<<w, Counter(w, i)>>] = index[i].doc
      <4>1. <<w, Counter(w, i)>> \notin DOMAIN sse2
        BY <3>1, <1>2 DEF SSE2For
      <4> QED BY <4>1, <1>3, <1>4
    <3>4. \A v \in Behind : \A i \in Containing(v) :
            /\ <<v, Counter(v, i)>> \in DOMAIN sse2'
            /\ sse2'[<<v, Counter(v, i)>>] = index[i].doc
      BY <3>1, <1>4 DEF SSE2For
    <3>5. \A v \in Behind \cup {w} : \A i \in Containing(v) :
            /\ <<v, Counter(v, i)>> \in DOMAIN sse2'
            /\ sse2'[<<v, Counter(v, i)>>] = index'[i].doc
      BY <3>3, <3>4, <1>1
    <3>6. \A v : Containing(v)' = Containing(v) /\ \A i : Counter(v, i)' = Counter(v, i)
      BY <1>1 DEF Containing, Counter, WordsOf
    <3> QED BY <3>2, <3>5, <3>6, <1>5 DEF SSE2For
  <2> QED BY <2>1, <2>2, <1>1 DEF SSE2Entries
<1> QED BY <1>6, <1>8, <1>9, <1>10, <1>11, <1>12, <1>13, <1>14

\* The SSE2 index is complete, tested and written.
LEMMA SaveSSE2IndexStep ==
  ASSUME IInv, SSE2IndexMade \/ SaveSSE2Index \/ SSE2IndexSaved
  PROVE  IInv'
<1> USE DEF IInv
<1>1. /\ \/ pc = "makesse2" /\ pc' = "savesse2" /\ Ahead = {} /\ disk' = disk
         \/ /\ pc = "savesse2" /\ disk' = disk
            /\ pc' = IF DOMAIN sse2 = {} THEN "failed" ELSE "savingsse2"
         \/ /\ pc = "savingsse2" /\ pc' = "built"
            /\ disk' = [disk EXCEPT !.sse2 = sse2, !.done = @ \cup {"SSE2.index"}]
      /\ UNCHANGED <<text, readable, files, batch, size, cursor, saved, settled, busy,
                     queue, hEvent, dict, index, sse2>>
  BY DEF SSE2IndexMade, SaveSSE2Index, SSE2IndexSaved, inputVars, sharedVars
<1>2. busy = {} /\ \A d : ~ToRead(d)
  BY <1>1 DEF Work, ReadStates, EncryptStates, ToRead
<1>3. Work' /\ \A d : ~ToRead(d)'
  BY <1>1, <1>2, NoBatch DEF ReadStates, EncryptStates
<1>4. /\ disk'.dict = disk.dict /\ disk'.tfi = disk.tfi
      /\ disk' = [dict |-> disk'.dict, tfi |-> disk'.tfi, sse2 |-> disk'.sse2,
                  done |-> disk'.done]
      /\ disk' = disk \/ (disk'.sse2 = sse2 /\ disk'.done = disk.done \cup {"SSE2.index"})
  <2> DEFINE D == [dict |-> disk.dict, tfi |-> disk.tfi, sse2 |-> disk.sse2,
                   done |-> disk.done]
  <2>1. disk = D
    BY DEF Form
  <2>2. CASE disk' = disk
    BY <2>1, <2>2
  <2>3. CASE disk' = [disk EXCEPT !.sse2 = sse2, !.done = @ \cup {"SSE2.index"}]
    <3>1. disk' = [D EXCEPT !.sse2 = sse2, !.done = @ \cup {"SSE2.index"}]
      BY <2>1, <2>3
    <3>2. disk' = [dict |-> disk.dict, tfi |-> disk.tfi, sse2 |-> sse2,
                   done |-> disk.done \cup {"SSE2.index"}]
      BY <3>1
    <3> QED BY <3>2
  <2> QED BY <1>1, <2>2, <2>3
<1>5. Form' /\ Sizes'
  BY <1>1, <1>4 DEF Form, Sizes, EarlyStates, LateStates
<1>6. TypeOK'
  BY <1>1, <1>4 DEF TypeOK, EngineStates
<1>7. Flow' /\ Dictionary' /\ Indexable' = Indexable
  BY <1>1, <1>2, <1>3, ContentUnchanged
<1>8. Behind = dict \/ pc # "makesse2"
  BY <1>1, BehindAtTheEnds
<1>9. settled /\ pc = "savesse2" => DOMAIN sse2 # {}
  <2> SUFFICES ASSUME settled, pc = "savesse2" PROVE DOMAIN sse2 # {}
    OBVIOUS
  <2>1. queue = <<>> /\ hEvent = 0 /\ dict # {} /\ pc \notin ReadStates
    BY DEF Settled, ReadStates
  <2>2. PICK w \in dict : TRUE
    BY <2>1
  <2>3. PICK i \in Containing(w) : TRUE
    BY <2>1, WordsHaveDocuments
  <2>4. SSE2For(sse2, dict)
    BY DEF SSE2Entries
  <2>5. <<w, Counter(w, i)>> \in DOMAIN sse2
    BY <2>4 DEF SSE2For
  <2> QED BY <2>5
<1>10. Settled'
  BY <1>1, <1>4, <1>7, <1>9 DEF Settled, LateStates
<1>11. Vectors'
  BY <1>1 DEF Vectors, Vector, WordsOf, EarlyStates, LateStates
<1>12. Encrypted'
  <2>1. Remaining = {}
    BY <1>1, <1>2, NothingRemains DEF HandingOver
  <2>2. settled => \A i \in DOMAIN index : Stored(index[i])
    BY <1>1, <2>1 DEF Encrypted, LateStates
  <2> QED BY <1>1, <1>4, <2>2 DEF Encrypted, Stored
<1>13. SSE2Entries'
  <2>1. settled /\ pc = "makesse2" /\ pc' = "savesse2" => SSE2For(sse2, dict)
    BY <1>1, <1>8 DEF SSE2Entries
  <2>2. settled /\ pc \in {"savesse2", "savingsse2"} => SSE2For(sse2, dict)
    BY DEF SSE2Entries
  <2>3. \A v : Containing(v)' = Containing(v) /\ \A i : Counter(v, i)' = Counter(v, i)
    BY <1>1 DEF Containing, Counter, WordsOf
  <2>4. SSE2For(sse2, dict) => SSE2For(sse2, dict)'
    BY <1>1, <2>3 DEF SSE2For
  <2>5. pc \in {"makesse2", "savesse2", "savingsse2"} /\ "SSE2.index" \notin disk.done
    BY <1>1 DEF SSE2Entries
  <2>6. pc' \notin EarlyStates \cup EncryptStates \cup {"makesse2"}
    BY <1>1 DEF EarlyStates, EncryptStates
  <2>7. "SSE2.index" \in disk'.done => pc' = "built" /\ disk'.sse2 = sse2'
    BY <1>1, <1>4, <2>5
  <2>8. settled' /\ pc' \in {"savesse2", "savingsse2", "built"} => SSE2For(sse2, dict)'
    BY <1>1, <2>1, <2>2, <2>4
  <2> QED BY <2>6, <2>7, <2>8 DEF SSE2Entries
<1> QED BY <1>3, <1>5, <1>6, <1>7, <1>10, <1>11, <1>12, <1>13

-----------------------------------------------------------------------------
(* The steps of the workers.                                               *)

\* Which task the pool is given.
LEMMA TaskOfPhase ==
  ASSUME Sizes, Work, pc \in ReadStates \cup EncryptStates
  PROVE  /\ Reading <=> pc \in ReadStates
         /\ ~Reading <=> pc \in EncryptStates
<1>1. pc \in ReadStates => size = 0
  BY DEF Sizes, ReadStates, EarlyStates
<1>2. pc \in EncryptStates => size # 0
  BY DEF Sizes, EncryptStates, LateStates
<1> QED BY <1>1, <1>2 DEF Reading

\* A document that cannot be read is passed over.
LEMMA SkipFileStep ==
  ASSUME IInv, NEW s \in busy, SkipFile(s)
  PROVE  IInv'
<1> USE DEF IInv
<1>1. /\ Advance(s) /\ Reading /\ s[1].doc \notin readable
      /\ UNCHANGED <<text, readable, files, pc, batch, size, cursor, saved, settled,
                     queue, hEvent, dict, index, sse2, disk>>
  BY DEF SkipFile, inputVars, engineVars, sharedVars
<1>2. /\ s[1] \in Remaining /\ Work' /\ Remaining' = Remaining \ {s[1]}
      /\ \A t \in busy' : t \in Seq([doc : Docs, tf : TFVectors]) \ {<<>>}
      /\ Cardinality(busy') <= PoolSize /\ pc \in ReadStates \cup EncryptStates
  BY <1>1, AdvanceTakesOne
<1>3. pc \in ReadStates
  BY <1>1, <1>2, TaskOfPhase
<1>4. TypeOK' /\ Form' /\ Sizes'
  BY <1>1, <1>2 DEF TypeOK, Form, Sizes
<1>5. \A d : ToRead(d)' => ToRead(d)
  BY <1>1, <1>2 DEF ToRead
<1>6. \A d \in Indexable : ToRead(d) => ToRead(d)'
  <2> SUFFICES ASSUME NEW d \in Indexable, ToRead(d) PROVE ToRead(d)'
    OBVIOUS
  <2>1. d \in readable /\ Entry(d, <<>>).doc = d
    BY IndexableTyped, Typed
  <2>2. Entry(d, <<>>) # s[1]
    BY <2>1, <1>1
  <2> QED BY <2>2, <1>1, <1>2 DEF ToRead
<1>7. Indexable' = Indexable /\ AllWords' = AllWords /\ Listed' = Listed
  BY <1>1 DEF Indexable, AllWords, WordsOf, Listed
<1>8. \A d : (Waiting(d)' <=> Waiting(d)) /\ (Indexed(d)' <=> Indexed(d))
             /\ WordsOf(d)' = WordsOf(d)
  BY <1>1 DEF Waiting, Indexed, WordsOf
<1>9. Flow' /\ Dictionary'
  <2>1. /\ IsInjective(queue') /\ \A i \in DOMAIN queue' : queue'[i] # hEvent'
        /\ \A i, j \in DOMAIN index' : index'[i].doc = index'[j].doc => i = j
    BY <1>1 DEF Flow
  <2>2. \A d \in Docs : /\ Waiting(d) => d \in Listed \cap readable /\ ~Indexed(d)
                        /\ Indexed(d) => d \in Indexable
                        /\ ToRead(d)' => ~Waiting(d) /\ ~Indexed(d)
    BY <1>5 DEF Flow
  <2>3. \A d \in Indexable : Waiting(d) \/ Indexed(d) \/ ToRead(d)'
    BY <1>6 DEF Flow
  <2>4. Flow'
    BY <2>1, <2>2, <2>3, <1>1, <1>7, <1>8 DEF Flow
  <2>5. Dictionary'
    BY <1>1, <1>7, <1>8 DEF Dictionary
  <2> QED BY <2>4, <2>5
<1>10. Settled' /\ Encrypted'
  BY <1>1, <1>3 DEF Settled, Encrypted, ReadStates, LateStates
<1>11. Vectors'
  BY <1>1, <1>3 DEF Vectors, ReadStates, LateStates
<1>12. SSE2Entries'
  BY <1>1, <1>3 DEF SSE2Entries, ReadStates
<1> QED BY <1>2, <1>4, <1>9, <1>10, <1>11, <1>12

\* A document that has been read leaves the batch and enters the queue.
LEMMA ReadFileStep ==
  ASSUME IInv, NEW s \in busy, ReadFile(s)
  PROVE  IInv'
<1> USE DEF IInv
<1> DEFINE e == s[1].doc
<1>1. /\ Advance(s) /\ Reading /\ e \in readable /\ Len(queue) < Max
      /\ queue' = Append(queue, e)
      /\ UNCHANGED <<text, readable, files, pc, batch, size, cursor, saved, settled,
                     hEvent, dict, index, sse2, disk>>
  BY DEF ReadFile, inputVars, engineVars, sharedVars
<1>2. /\ s[1] \in Remaining /\ Work' /\ Remaining' = Remaining \ {s[1]}
      /\ \A t \in busy' : t \in Seq([doc : Docs, tf : TFVectors]) \ {<<>>}
      /\ Cardinality(busy') <= PoolSize /\ pc \in ReadStates \cup EncryptStates
  BY <1>1, AdvanceTakesOne
<1>3. pc \in ReadStates
  BY <1>1, <1>2, TaskOfPhase
<1>4. /\ s[1] = Entry(e, <<>>) /\ e \in Listed /\ e \in Docs
      /\ \A d \in Docs : Entry(d, <<>>) = Entry(e, <<>>) <=> d = e
  <2>1. PICK d \in Listed : s[1] = Entry(d, <<>>)
    BY <1>2, <1>3 DEF Work
  <2>2. d \in Docs /\ e = d
    BY <2>1, Typed
  <2> QED BY <2>1, <2>2 DEF Entry
<1> HIDE DEF e
<1>5. ToRead(e) /\ ~Waiting(e) /\ ~Indexed(e)
  BY <1>2, <1>3, <1>4 DEF ToRead, Flow
<1>6. \A d \in Docs : ToRead(d)' <=> ToRead(d) /\ d # e
  BY <1>1, <1>2, <1>4 DEF ToRead
<1>7. /\ queue' \in Seq(Docs) /\ Len(queue') = Len(queue) + 1
      /\ DOMAIN queue' = 1 .. Len(queue) + 1 /\ DOMAIN queue = 1 .. Len(queue)
      /\ \A i \in DOMAIN queue : queue'[i] = queue[i]
      /\ queue'[Len(queue) + 1] = e
      /\ Len(queue) \in Nat
  BY <1>1, <1>4, Typed, AppendRange
<1>8. \A i \in DOMAIN queue' : i \in DOMAIN queue \/ i = Len(queue) + 1
  BY <1>7
<1>9. \A i \in DOMAIN queue : i \in DOMAIN queue' /\ queue[i] # e
  BY <1>5, <1>7 DEF Waiting
<1>10. Len(queue) + 1 \in DOMAIN queue'
  BY <1>7
<1>11. \A d \in Docs : Waiting(d)' <=> Waiting(d) \/ d = e
  BY <1>1, <1>7, <1>8, <1>9, <1>10 DEF Waiting
<1>12. \A d : Indexed(d)' <=> Indexed(d)
  BY <1>1 DEF Indexed
<1>13. TypeOK' /\ Form' /\ Sizes'
  <2>1. Len(queue') <= Max
    BY <1>1, <1>7, CapacityAssumption
  <2> QED BY <1>1, <1>2, <1>7, <2>1 DEF TypeOK, Form, Sizes
<1>14. Indexable' = Indexable /\ AllWords' = AllWords /\ Listed' = Listed
       /\ \A d : WordsOf(d)' = WordsOf(d)
  BY <1>1 DEF Indexable, AllWords, WordsOf, Listed
<1>15. Flow'
  <2>1. IsInjective(queue')
    <3> SUFFICES ASSUME NEW i \in DOMAIN queue', NEW j \in DOMAIN queue', queue'[i] = queue'[j]
                 PROVE  i = j
      BY DEF IsInjective
    <3>1. CASE i \in DOMAIN queue /\ j \in DOMAIN queue
      BY <3>1, <1>7 DEF Flow, IsInjective
    <3>2. CASE i = Len(queue) + 1 \/ j = Len(queue) + 1
      BY <3>2, <1>7, <1>8, <1>9
    <3> QED BY <3>1, <3>2, <1>8
  <2>2. \A i \in DOMAIN queue' : queue'[i] # hEvent'
    <3>1. e # hEvent
      BY <1>5 DEF Waiting
    <3> QED BY <3>1, <1>1, <1>7, <1>8 DEF Flow
  <2>3. \A d \in Docs : /\ Waiting(d)' => d \in Listed \cap readable /\ ~Indexed(d)
                        /\ Indexed(d) => d \in Indexable
                        /\ ToRead(d)' => ~Waiting(d)' /\ ~Indexed(d)
    BY <1>1, <1>4, <1>5, <1>6, <1>11 DEF Flow
  <2>4. \A d \in Indexable : Waiting(d)' \/ Indexed(d) \/ ToRead(d)'
    BY <1>6, <1>11, IndexableTyped DEF Flow
  <2>5. \A i, j \in DOMAIN index' : index'[i].doc = index'[j].doc => i = j
    BY <1>1 DEF Flow
  <2> QED BY <2>1, <2>2, <2>3, <2>4, <2>5, <1>1, <1>12, <1>14 DEF Flow
<1>16. Dictionary'
  BY <1>1, <1>12, <1>14 DEF Dictionary
<1>17. Settled' /\ Encrypted'
  BY <1>1, <1>3 DEF Settled, Encrypted, ReadStates, LateStates
<1>18. Vectors'
  BY <1>1, <1>3 DEF Vectors, ReadStates, LateStates
<1>19. SSE2Entries'
  BY <1>1, <1>3 DEF SSE2Entries, ReadStates
<1> QED BY <1>2, <1>13, <1>15, <1>16, <1>17, <1>18, <1>19

\* The vector of a document is encrypted and written to a file of its own.
LEMMA EncryptStep ==
  ASSUME IInv, NEW s \in busy, Encrypt(s)
  PROVE  IInv'
<1> USE DEF IInv
<1> DEFINE e == s[1]
           new == [d \in DOMAIN disk.tfi \cup {e.doc} |->
                     IF d = e.doc THEN e.tf ELSE disk.tfi[d]]
<1>1. /\ Advance(s) /\ ~Reading
      /\ disk' = (IF e.tf = <<>> THEN disk ELSE [disk EXCEPT !.tfi = new])
      /\ UNCHANGED <<text, readable, files, pc, batch, size, cursor, saved, settled,
                     queue, hEvent, dict, index, sse2>>
  BY DEF Encrypt, inputVars, engineVars, sharedVars
<1>2. /\ e \in Remaining /\ Work' /\ Remaining' = Remaining \ {e}
      /\ \A t \in busy' : t \in Seq([doc : Docs, tf : TFVectors]) \ {<<>>}
      /\ Cardinality(busy') <= PoolSize /\ pc \in ReadStates \cup EncryptStates
      /\ e \in Indexes
  BY <1>1, AdvanceTakesOne
<1>3. pc \in EncryptStates /\ pc \notin ReadStates /\ pc \in LateStates
  BY <1>1, <1>2, TaskOfPhase DEF EncryptStates, ReadStates, LateStates
<1>4. PICK j \in 1 .. size : e = index[j]
  BY <1>2, <1>3 DEF Work
<1> HIDE DEF e
<1>5. j \in DOMAIN index
  BY <1>3, Typed DEF Sizes
<1>6. /\ disk'.dict = disk.dict /\ disk'.sse2 = disk.sse2 /\ disk'.done = disk.done
      /\ disk' = [dict |-> disk'.dict, tfi |-> disk'.tfi, sse2 |-> disk'.sse2,
                  done |-> disk'.done]
      /\ disk'.tfi = (IF e.tf = <<>> THEN disk.tfi ELSE new)
  <2> DEFINE D == [dict |-> disk.dict, tfi |-> disk.tfi, sse2 |-> disk.sse2,
                   done |-> disk.done]
  <2>1. disk = D
    BY DEF Form
  <2> HIDE DEF new
  <2>2. CASE e.tf = <<>>
    BY <1>1, <2>1, <2>2
  <2>3. CASE e.tf # <<>>
    <3>1. disk' = [D EXCEPT !.tfi = new]
      BY <1>1, <2>1, <2>3
    <3>2. disk' = [dict |-> disk.dict, tfi |-> new, sse2 |-> disk.sse2,
                   done |-> disk.done]
      BY <3>1
    <3> QED BY <3>2, <2>3
  <2> QED BY <2>2, <2>3
<1>7. DOMAIN new = DOMAIN disk.tfi \cup {e.doc} /\ new[e.doc] = e.tf
      /\ \A d \in DOMAIN disk.tfi : d # e.doc => new[d] = disk.tfi[d]
  OBVIOUS
<1> HIDE DEF new
<1>8. TypeOK'
  <2>1. e.doc \in Docs
    BY <1>2 DEF Indexes
  <2>2. DOMAIN disk'.tfi \subseteq Docs
    BY <2>1, <1>6, <1>7 DEF TypeOK
  <2> QED BY <2>2, <1>1, <1>2, <1>6 DEF TypeOK
<1>9. Form' /\ Sizes'
  BY <1>1, <1>6 DEF Form, Sizes
<1>10. \A d : ToRead(d)' <=> ToRead(d)
  BY <1>1, <1>3 DEF ToRead
<1>11. Flow' /\ Dictionary' /\ Indexable' = Indexable
  BY <1>1, <1>10, ContentUnchanged
<1>12. Settled'
  BY <1>1, <1>6, <1>11 DEF Settled
<1>13. Vectors'
  BY <1>1, <1>3 DEF Vectors, Vector, WordsOf, LateStates, EarlyStates
<1>14. Encrypted'
  <2> SUFFICES ASSUME settled, NEW i \in DOMAIN index
               PROVE  \/ index[i] \in Remaining'
                      \/ /\ index[i].doc \in DOMAIN disk'.tfi
                         /\ disk'.tfi[index[i].doc] = index[i].tf
    BY <1>1 DEF Encrypted, Stored
  <2>1. index[i] \in Remaining \/ Stored(index[i])
    BY <1>3 DEF Encrypted
  <2>2. CASE i = j
    <3>1. Vector(e, dict) /\ dict # {}
      BY <1>3, <1>4, <1>5 DEF Vectors, Settled, EncryptStates
    <3>2. e.tf # <<>>
      <4> SUFFICES ASSUME e.tf = <<>> PROVE FALSE
        OBVIOUS
      <4>1. DOMAIN e.tf = {}
        OBVIOUS
      <4>2. {e.tf[k][1] : k \in DOMAIN e.tf} = {}
        BY <4>1
      <4> QED BY <3>1, <4>2 DEF Vector
    <3> QED BY <2>2, <3>2, <1>4, <1>6, <1>7
  <2>3. CASE i # j
    <3>1. index[i].doc # e.doc /\ index[i] # e
      BY <2>3, <1>4, <1>5 DEF Flow
    <3>2. CASE index[i] \in Remaining
      BY <3>1, <3>2, <1>2
    <3>3. CASE Stored(index[i])
      BY <3>1, <3>3, <1>6, <1>7 DEF Stored
    <3> QED BY <2>1, <3>2, <3>3
  <2> QED BY <2>2, <2>3
<1>15. SSE2Entries'
  BY <1>1, <1>3, <1>6 DEF SSE2Entries, EncryptStates
<1> QED BY <1>2, <1>8, <1>9, <1>11, <1>12, <1>13, <1>14, <1>15

-----------------------------------------------------------------------------
(* The steps of the handler.  Each shows that something was pending.       *)

\* What a step of the handler cannot disturb, since nothing was settled.
LEMMA HandlerKeeps ==
  ASSUME IInv, queue # <<>> \/ hEvent # 0, SameBatch,
         pc \in EarlyStates \ {"tf"} =>
           \A i \in DOMAIN index' : index'[i].tf = <<>>,
         index \in Seq(Indexes), index' = index \/ Len(index') = Len(index) + 1,
         UNCHANGED <<text, readable, files, pc, batch, size, cursor, saved, settled,
                     busy, sse2, disk>>
  PROVE  /\ Form' /\ Sizes' /\ Work' /\ Settled' /\ Vectors' /\ Encrypted' /\ SSE2Entries'
         /\ ~settled /\ \A d : ToRead(d)' <=> ToRead(d)
<1> USE DEF IInv
<1>1. ~settled
  BY DEF Settled
<1>2. Work' /\ Remaining' = Remaining /\ \A d : ToRead(d)' <=> ToRead(d)
  BY BatchUnchanged
<1>3. Form'
  BY DEF Form
<1>4. Sizes'
  <2>1. Len(index) \in Nat
    BY Typed
  <2> QED BY <2>1 DEF Sizes
<1>5. Settled' /\ Encrypted'
  BY <1>1 DEF Settled, Encrypted
<1>6. Vectors'
  BY <1>1 DEF Vectors
<1>7. SSE2Entries'
  BY <1>1 DEF SSE2Entries
<1> QED BY <1>1, <1>2, <1>3, <1>4, <1>5, <1>6, <1>7

\* The event goes from the queue into the hand of the handler.
LEMMA DequeueStep ==
  ASSUME IInv, Dequeue
  PROVE  IInv'
<1> USE DEF IInv
<1>1. /\ hEvent = 0 /\ queue # <<>> /\ hEvent' = Head(queue) /\ queue' = Tail(queue)
      /\ UNCHANGED <<text, readable, files, pc, batch, size, cursor, saved, settled,
                     busy, dict, index, sse2, disk>>
  BY DEF Dequeue, inputVars, engineVars, sharedVars
<1>2. /\ Head(queue) \in Docs /\ Head(queue) = queue[1] /\ 1 \in DOMAIN queue
      /\ Tail(queue) \in Seq(Docs) /\ Len(queue) \in Nat /\ Len(Tail(queue)) = Len(queue) - 1
      /\ Range(queue) = Range(Tail(queue)) \cup {Head(queue)}
      /\ IsInjective(Tail(queue)) /\ Head(queue) \notin Range(Tail(queue))
  BY <1>1, Typed, TailRange DEF Flow
<1>3. SameBatch
  BY <1>1 DEF SameBatch
<1>4. /\ Form' /\ Sizes' /\ Work' /\ Settled' /\ Vectors' /\ Encrypted' /\ SSE2Entries'
      /\ \A d : ToRead(d)' <=> ToRead(d)
  <2>1. pc \in EarlyStates \ {"tf"} => \A i \in DOMAIN index' : index'[i].tf = <<>>
    BY <1>1 DEF Vectors
  <2> QED BY <1>1, <1>3, <2>1, Typed, HandlerKeeps
<1>5. TypeOK'
  <2>1. Len(queue') <= Max
    BY <1>1, <1>2, CapacityAssumption DEF TypeOK
  <2> QED BY <1>1, <1>2, <2>1 DEF TypeOK
<1>6. /\ Indexable' = Indexable /\ AllWords' = AllWords /\ Listed' = Listed
      /\ \A d : (Indexed(d)' <=> Indexed(d)) /\ WordsOf(d)' = WordsOf(d)
  BY <1>1 DEF Indexable, AllWords, WordsOf, Listed, Indexed
<1>7. \A d \in Docs : Waiting(d)' <=> Waiting(d)
  <2>1. \A d : (\E i \in DOMAIN queue : queue[i] = d) <=> d \in Range(queue)
    BY DEF Range
  <2>2. \A d : (\E i \in DOMAIN queue' : queue'[i] = d) <=> d \in Range(queue')
    BY DEF Range
  <2>3. \A d \in Docs : d # hEvent
    BY <1>1, Typed
  <2>4. \A d \in Docs : Waiting(d) <=> d \in Range(queue)
    BY <2>1, <2>3 DEF Waiting
  <2>5. \A d \in Docs : Waiting(d)' <=> d \in Range(queue') \/ hEvent' = d
    BY <2>2 DEF Waiting
  <2> QED BY <2>4, <2>5, <1>1, <1>2
<1>8. Flow'
  <2>1. IsInjective(queue') /\ \A i \in DOMAIN queue' : queue'[i] # hEvent'
    BY <1>1, <1>2 DEF Range
  <2> QED BY <2>1, <1>1, <1>4, <1>6, <1>7, IndexableTyped DEF Flow
<1>9. Dictionary'
  BY <1>1, <1>6 DEF Dictionary
<1> QED BY <1>4, <1>5, <1>8, <1>9

\* The words of the event go into the dictionary.
LEMMA AddWordsStep ==
  ASSUME IInv, AddWords
  PROVE  IInv'
<1> USE DEF IInv
<1>1. /\ hEvent # 0 /\ WordsOf(hEvent) # {} /\ dict' = dict \cup WordsOf(hEvent)
      /\ UNCHANGED <<text, readable, files, pc, batch, size, cursor, saved, settled,
                     busy, queue, hEvent, index, sse2, disk>>
  BY DEF AddWords, Unhandled, inputVars, engineVars
<1>2. hEvent \in Docs /\ Waiting(hEvent) /\ hEvent \in Indexable
  BY <1>1 DEF TypeOK, Waiting, Flow, Indexable
<1>3. SameBatch
  BY <1>1 DEF SameBatch
<1>4. /\ Form' /\ Sizes' /\ Work' /\ Settled' /\ Vectors' /\ Encrypted' /\ SSE2Entries'
      /\ \A d : ToRead(d)' <=> ToRead(d)
  <2>1. pc \in EarlyStates \ {"tf"} => \A i \in DOMAIN index' : index'[i].tf = <<>>
    BY <1>1 DEF Vectors
  <2> QED BY <1>1, <1>3, <2>1, Typed, HandlerKeeps
<1>5. TypeOK'
  BY <1>1, <1>2, TextTyped DEF TypeOK
<1>6. /\ Indexable' = Indexable /\ AllWords' = AllWords /\ Listed' = Listed
      /\ \A d : (Indexed(d)' <=> Indexed(d)) /\ (Waiting(d)' <=> Waiting(d))
                /\ WordsOf(d)' = WordsOf(d)
  BY <1>1 DEF Indexable, AllWords, WordsOf, Listed, Indexed, Waiting
<1>7. Flow'
  BY <1>1, <1>4, <1>6 DEF Flow
<1>8. Dictionary'
  <2>1. WordsOf(hEvent) \subseteq AllWords
    BY <1>2, IndexableTyped
  <2> QED BY <2>1, <1>1, <1>6 DEF Dictionary
<1> QED BY <1>4, <1>5, <1>7, <1>8

\* The document of the event is indexed.
LEMMA AddTFIndexStep ==
  ASSUME IInv, AddTFIndex
  PROVE  IInv'
<1> USE DEF IInv
<1>0. PICK e : e = hEvent
  OBVIOUS
<1> DEFINE n == Entry(e, <<>>)
<1>1. /\ e # 0 /\ WordsOf(e) # {} /\ WordsOf(e) \subseteq dict
      /\ index' = Append(index, n) /\ hEvent' = 0
      /\ UNCHANGED <<text, readable, files, pc, batch, size, cursor, saved, settled,
                     busy, queue, dict, sse2, disk>>
  BY <1>0 DEF AddTFIndex, Unhandled, inputVars, engineVars
<1>2. e \in Docs /\ Waiting(e) /\ e \in Indexable /\ ~Indexed(e)
  BY <1>0, <1>1 DEF TypeOK, Waiting, Flow, Indexable
<1>3. n \in Indexes /\ n.doc = e /\ n.tf = <<>>
  BY <1>2, Typed
<1> HIDE DEF n
<1>4. /\ index' \in Seq(Indexes) /\ Len(index') = Len(index) + 1
      /\ DOMAIN index' = 1 .. Len(index) + 1 /\ DOMAIN index = 1 .. Len(index)
      /\ \A i \in DOMAIN index : index'[i] = index[i]
      /\ index'[Len(index) + 1] = n
      /\ Len(index) \in Nat /\ index \in Seq(Indexes)
  BY <1>1, <1>3, Typed, AppendRange
<1>5. /\ \A i \in DOMAIN index' : i \in DOMAIN index \/ i = Len(index) + 1
      /\ \A i \in DOMAIN index : i \in DOMAIN index'
      /\ Len(index) + 1 \in DOMAIN index'
  BY <1>4
<1>6. SameBatch
  <2> SUFFICES ASSUME pc \in EncryptStates
               PROVE  /\ SubSeq(index', 1, size) = SubSeq(index, 1, size)
                      /\ \A i \in 1 .. size : index'[i] = index[i]
    BY DEF SameBatch
  <2>1. size \in 1 .. Len(index)
    BY DEF Sizes, EncryptStates, LateStates
  <2>2. \A i \in 1 .. size : i \in DOMAIN index /\ i \in DOMAIN index'
    BY <2>1, <1>4
  <2>3. \A i \in 1 .. size : index'[i] = index[i] /\ index[i] \in Indexes
    BY <2>2, <1>4, Typed
  <2>4. 1 <= size /\ size - 1 + 1 = size /\ size \in Int /\ \A i \in 1 .. size : 1 + i - 1 = i
    BY <2>1, <1>4
  <2>5. /\ SubSeq(index, 1, size) \in Seq(Indexes) /\ Len(SubSeq(index, 1, size)) = size
        /\ \A i \in 1 .. size : SubSeq(index, 1, size)[i] = index[i]
    BY <2>3, <2>4, SubSeqProperties
  <2>6. /\ SubSeq(index', 1, size) \in Seq(Indexes) /\ Len(SubSeq(index', 1, size)) = size
        /\ \A i \in 1 .. size : SubSeq(index', 1, size)[i] = index'[i]
    BY <2>3, <2>4, SubSeqProperties
  <2>7. SubSeq(index', 1, size) = SubSeq(index, 1, size)
    BY <2>3, <2>5, <2>6, SeqEqual
  <2> QED BY <2>3, <2>7
<1>7. /\ Form' /\ Sizes' /\ Work' /\ Settled' /\ Vectors' /\ Encrypted' /\ SSE2Entries'
      /\ \A d : ToRead(d)' <=> ToRead(d)
  <2>1. pc \in EarlyStates \ {"tf"} => \A i \in DOMAIN index' : index'[i].tf = <<>>
    BY <1>3, <1>4, <1>5 DEF Vectors
  <2>2. queue # <<>> \/ hEvent # 0
    BY <1>0, <1>1
  <2> QED BY <1>1, <1>4, <1>6, <2>1, <2>2, HandlerKeeps
<1>8. TypeOK'
  BY <1>1, <1>4 DEF TypeOK, Indexes
<1>9. Indexable' = Indexable /\ AllWords' = AllWords /\ Listed' = Listed
      /\ \A d : WordsOf(d)' = WordsOf(d)
  BY <1>1 DEF Indexable, AllWords, WordsOf, Listed
<1>10. \A d : Indexed(d)' <=> Indexed(d) \/ d = e
  <2>1. \A d : Indexed(d) => Indexed(d)'
    BY <1>4, <1>5 DEF Indexed
  <2>2. Indexed(e)'
    BY <1>3, <1>4, <1>5 DEF Indexed
  <2>3. \A d : Indexed(d)' => Indexed(d) \/ d = e
    BY <1>3, <1>4, <1>5 DEF Indexed
  <2> QED BY <2>1, <2>2, <2>3
<1>11. \A d \in Docs : Waiting(d)' <=> Waiting(d) /\ d # e
  <2>1. \A i \in DOMAIN queue : queue[i] # e
    BY <1>0 DEF Flow
  <2>2. \A d \in Docs : d # 0
    BY Typed
  <2> QED BY <2>1, <2>2, <1>0, <1>1 DEF Waiting
<1>12. Flow'
  <2>1. IsInjective(queue') /\ \A i \in DOMAIN queue' : queue'[i] # hEvent'
    BY <1>1, Typed DEF Flow
  <2>2. \A i, j \in DOMAIN index' : index'[i].doc = index'[j].doc => i = j
    <3>1. \A i \in DOMAIN index : index[i].doc # e
      BY <1>2 DEF Indexed
    <3>2. \A i, j \in DOMAIN index : index[i].doc = index[j].doc => i = j
      BY DEF Flow
    <3> SUFFICES ASSUME NEW i \in DOMAIN index', NEW j \in DOMAIN index',
                        index'[i].doc = index'[j].doc
                 PROVE  i = j
      OBVIOUS
    <3>3. CASE i \in DOMAIN index /\ j \in DOMAIN index
      BY <3>2, <3>3, <1>4
    <3>4. CASE i = Len(index) + 1 \/ j = Len(index) + 1
      BY <3>1, <3>4, <1>3, <1>4, <1>5
    <3> QED BY <3>3, <3>4, <1>5
  <2>3. \A d \in Docs : /\ Waiting(d)' => d \in Listed \cap readable /\ ~Indexed(d)'
                        /\ Indexed(d)' => d \in Indexable
                        /\ ToRead(d) => ~Waiting(d)' /\ ~Indexed(d)'
    BY <1>2, <1>10, <1>11 DEF Flow
  <2>4. \A d \in Indexable : Waiting(d)' \/ Indexed(d)' \/ ToRead(d)
    BY <1>10, <1>11, IndexableTyped DEF Flow
  <2> QED BY <2>1, <2>2, <2>3, <2>4, <1>1, <1>7, <1>9 DEF Flow
<1>13. Dictionary'
  BY <1>1, <1>9, <1>10 DEF Dictionary
<1> QED BY <1>7, <1>8, <1>12, <1>13

\* A document without words is dropped.
LEMMA NoWordsStep ==
  ASSUME IInv, NoWords
  PROVE  IInv'
<1> USE DEF IInv
<1>1. /\ hEvent # 0 /\ WordsOf(hEvent) = {} /\ hEvent' = 0
      /\ UNCHANGED <<text, readable, files, pc, batch, size, cursor, saved, settled,
                     busy, queue, dict, index, sse2, disk>>
  BY DEF NoWords, inputVars, engineVars, sharedVars
<1>2. hEvent \notin Indexable
  BY <1>1 DEF Indexable
<1>3. SameBatch
  BY <1>1 DEF SameBatch
<1>4. /\ Form' /\ Sizes' /\ Work' /\ Settled' /\ Vectors' /\ Encrypted' /\ SSE2Entries'
      /\ \A d : ToRead(d)' <=> ToRead(d)
  <2>1. pc \in EarlyStates \ {"tf"} => \A i \in DOMAIN index' : index'[i].tf = <<>>
    BY <1>1 DEF Vectors
  <2> QED BY <1>1, <1>3, <2>1, Typed, HandlerKeeps
<1>5. TypeOK'
  BY <1>1 DEF TypeOK
<1>6. /\ Indexable' = Indexable /\ AllWords' = AllWords /\ Listed' = Listed
      /\ \A d : (Indexed(d)' <=> Indexed(d)) /\ WordsOf(d)' = WordsOf(d)
  BY <1>1 DEF Indexable, AllWords, WordsOf, Listed, Indexed
<1>7. \A d \in Docs : Waiting(d)' <=> Waiting(d) /\ d # hEvent
  <2>1. \A i \in DOMAIN queue : queue[i] # hEvent
    BY DEF Flow
  <2>2. \A d \in Docs : d # 0
    BY Typed
  <2> QED BY <2>1, <2>2, <1>1 DEF Waiting
<1>8. Flow'
  <2>1. IsInjective(queue') /\ \A i \in DOMAIN queue' : queue'[i] # hEvent'
    BY <1>1, Typed DEF Flow
  <2>2. \A d \in Indexable : Waiting(d)' \/ Indexed(d) \/ ToRead(d)
    BY <1>2, <1>7, IndexableTyped DEF Flow
  <2>3. \A d \in Docs : /\ Waiting(d)' => d \in Listed \cap readable /\ ~Indexed(d)
                        /\ Indexed(d) => d \in Indexable
                        /\ ToRead(d) => ~Waiting(d)' /\ ~Indexed(d)
    BY <1>7 DEF Flow
  <2> QED BY <2>1, <2>2, <2>3, <1>1, <1>4, <1>6 DEF Flow
<1>9. Dictionary'
  BY <1>1, <1>6 DEF Dictionary
<1> QED BY <1>4, <1>5, <1>8, <1>9

-----------------------------------------------------------------------------
(* The theorems.                                                           *)

LEMMA StepIInv == IInv /\ [Next]_vars => IInv'
<1> SUFFICES ASSUME IInv, [Next]_vars PROVE IInv'
  OBVIOUS
<1>1. CASE EngineNext
  BY <1>1, NoFilesStep, HandOverStep, AllHandedOverStep, ReadBarrierStep,
     SaveDictionaryStep, DictionarySavedStep, NothingToCalcStep,
     CalcTermFrequencyStep, BeginEncryptStep, EncryptBarrierStep,
     MakeSSE2IndexStep, SaveSSE2IndexStep
  DEF EngineNext
<1>2. CASE WorkerNext
  BY <1>2, ReadFileStep, SkipFileStep, EncryptStep DEF WorkerNext
<1>3. CASE HandlerNext
  BY <1>3, DequeueStep, AddWordsStep, AddTFIndexStep, NoWordsStep DEF HandlerNext
<1>4. CASE Returned \/ UNCHANGED vars
  <2>1. UNCHANGED <<text, readable, files, pc, batch, size, cursor, saved, settled,
                    busy, queue, hEvent, dict, index, sse2, disk>>
    BY <1>4 DEF Returned, vars, inputVars, engineVars, sharedVars
  <2>2. TypeOK' /\ Form' /\ Sizes'
    BY <2>1 DEF IInv, TypeOK, Form, Sizes
  <2>3. SameBatch
    BY <2>1 DEF SameBatch
  <2>4. Work' /\ Remaining' = Remaining /\ \A d : ToRead(d)' <=> ToRead(d)
    BY <2>1, <2>3, BatchUnchanged DEF IInv
  <2>5. Flow' /\ Dictionary' /\ Indexable' = Indexable
    BY <2>1, <2>4, ContentUnchanged DEF IInv
  <2>6. Settled'
    BY <2>1, <2>5 DEF IInv, Settled
  <2>7. Vectors'
    BY <2>1 DEF IInv, Vectors, Vector, Behind, WordsOf
  <2>8. Encrypted'
    BY <2>1, <2>4 DEF IInv, Encrypted, Stored
  <2>9. SSE2Entries'
    <3>1. \A v : Containing(v)' = Containing(v) /\ \A i : Counter(v, i)' = Counter(v, i)
      BY <2>1 DEF Containing, Counter, WordsOf
    <3>2. Behind' = Behind
      BY <2>1 DEF Behind
    <3>3. SSE2For(sse2, Behind) => SSE2For(sse2, Behind)'
      BY <2>1, <3>1, <3>2 DEF SSE2For
    <3>4. SSE2For(sse2, dict) => SSE2For(sse2, dict)'
      BY <2>1, <3>1 DEF SSE2For
    <3> QED BY <2>1, <3>3, <3>4 DEF IInv, SSE2Entries
  <2> QED BY <2>2, <2>4, <2>5, <2>6, <2>7, <2>8, <2>9 DEF IInv
<1> QED BY <1>1, <1>2, <1>3, <1>4 DEF Next

THEOREM Invariant == Spec => []IInv
BY InitIInv, StepIInv, PTL DEF Spec

\* The state of a build has its type, whatever the collection, the pool and
\* the queue: no more tasks than workers, and never more events than the queue
\* holds.
THEOREM TypeCorrect == Spec => []TypeOK
<1>1. IInv => TypeOK
  BY DEF IInv
<1> QED BY <1>1, Invariant, PTL

\* Every document with words that can be read is indexed, or will be, exactly
\* once: cutting the batch, the pool and the queue between them lose none and
\* repeat none.
THEOREM DocumentsReadOnce == Spec => []ReadOnce
<1>1. IInv => ReadOnce
  <2> SUFFICES ASSUME IInv PROVE ReadOnce
    OBVIOUS
  <2>1. \A d \in Docs : Indexed(d) => d \in Indexable /\ ~Waiting(d)
    BY DEF IInv, Flow
  <2>2. ReadingDone => \A d : ~ToRead(d)
    BY DEF ReadingDone, ToRead, ReadStates
  <2> QED BY <2>1, <2>2 DEF IInv, Flow, ReadOnce
<1> QED BY <1>1, Invariant, PTL

\* With nothing pending at the end of the sleep, a build fails only if no
\* document has a word.
THEOREM FailureMeansNoWords == Spec => []FailsOnlyWithoutWords
<1>1. IInv => FailsOnlyWithoutWords
  <2> SUFFICES ASSUME IInv, pc = "failed", settled \/ files = <<>>
               PROVE  Indexable = {}
    BY DEF FailsOnlyWithoutWords
  <2>1. CASE settled
    BY <2>1 DEF IInv, Settled
  <2>2. CASE files = <<>>
    BY <2>2 DEF Indexable, Listed
  <2> QED BY <2>1, <2>2
<1> QED BY <1>1, Invariant, PTL

\* With nothing pending at the end of the sleep, main has the dictionary and
\* the list of document indexes for itself without a lock.
THEOREM IndexStaysPut == Spec => MainOwnsIndex
<1>1. IInv /\ [Next]_vars =>
        [settled => /\ dict' = dict
                    /\ Len(index') = Len(index)
                    /\ index' # index => pc = "tf"]_vars
  <2> SUFFICES ASSUME IInv, [Next]_vars, settled
               PROVE  dict' = dict /\ Len(index') = Len(index) /\ (index' # index => pc = "tf")
    OBVIOUS
  <2>1. queue = <<>> /\ hEvent = 0
    BY DEF IInv, Settled
  <2>2. CASE CalcTermFrequency
    <3>1. index' = [i \in 1 .. Len(index) |-> AppendTF(index[i], NextWord)]
          /\ Len(index) \in Nat
      BY <2>2, Typed DEF CalcTermFrequency, IInv
    <3>2. Len(index') = Len(index)
      BY <3>1
    <3> QED BY <3>2, <2>2 DEF CalcTermFrequency
  <2>3. CASE EngineNext /\ ~CalcTermFrequency
    BY <2>3
    DEF EngineNext, NoFiles, HandOverRead, AllRead, ReadBarrier, SleepEnds,
        SaveDictionary, DictionarySaved, NothingToCalc, BeginEncrypt,
        HandOverEncrypt, AllHandedOver, EncryptBarrier, MakeSSE2Index,
        SSE2IndexMade, SaveSSE2Index, SSE2IndexSaved, sharedVars
  <2>4. CASE WorkerNext
    BY <2>4 DEF WorkerNext, ReadFile, SkipFile, Encrypt, sharedVars
  <2>5. CASE HandlerNext
    BY <2>1, <2>5 DEF HandlerNext, Dequeue, AddWords, Unhandled, AddTFIndex, NoWords
  <2>6. CASE Returned \/ UNCHANGED vars
    BY <2>6 DEF Returned, vars, sharedVars
  <2> QED BY <2>2, <2>3, <2>4, <2>5, <2>6 DEF Next
<1> QED BY <1>1, Invariant, PTL DEF Spec, MainOwnsIndex

\* The index names the documents with a word, each under a number of its own.
LEMMA EntriesFind ==
  ASSUME TypeOK, Flow, dict = AllWords,
         NEW f, SSE2For(f, dict), \A k \in DOMAIN f : k \in Words \X Nat,
         \A d \in Indexable : Indexed(d), NEW w \in AllWords
  PROVE  LET keys  == {k \in DOMAIN f : k[1] = w}
             found == {f[k] : k \in keys}
             count == Cardinality(found)
         IN  /\ found = {d \in Indexable : w \in WordsOf(d)}
             /\ keys = {w} \X (0 .. count - 1)
<1> DEFINE C == Containing(w)
           keys  == {k \in DOMAIN f : k[1] = w}
           found == {f[k] : k \in keys}
           docs  == {index[i].doc : i \in C}
<1>1. /\ C \subseteq DOMAIN index /\ IsFiniteSet(C) /\ Cardinality(C) \in Nat
      /\ \A i \in C : Counter(w, i) \in 0 .. Cardinality(C) - 1
      /\ \A i \in C : w \in WordsOf(index[i].doc)
      /\ \A i \in DOMAIN index : w \in WordsOf(index[i].doc) => i \in C
  BY CounterNumbers DEF Containing
<1>2. \A n \in 0 .. Cardinality(C) - 1 : \E i \in C : Counter(w, i) = n
  BY CounterOnto
<1>3. \A k \in keys : k \in Words \X Nat /\ \E i \in C : k = <<w, Counter(w, i)>>
                                            /\ f[k] = index[i].doc
  <2> SUFFICES ASSUME NEW k \in keys
               PROVE  k \in Words \X Nat /\ \E i \in C : k = <<w, Counter(w, i)>>
                                            /\ f[k] = index[i].doc
    OBVIOUS
  <2>1. k \in Words \X Nat /\ k[1] = w
    OBVIOUS
  <2>2. PICK i \in C : k[2] = Counter(w, i)
    BY <2>1 DEF SSE2For
  <2>3. k = <<w, Counter(w, i)>>
    BY <2>1, <2>2
  <2>4. f[<<w, Counter(w, i)>>] = index[i].doc
    BY DEF SSE2For
  <2> QED BY <2>1, <2>3, <2>4
<1>4. \A i \in C : <<w, Counter(w, i)>> \in keys /\ f[<<w, Counter(w, i)>>] = index[i].doc
  BY DEF SSE2For
<1> HIDE DEF C, keys
<1>5. found = docs
  <2>1. \A x \in found : x \in docs
    BY <1>3
  <2>2. \A x \in docs : x \in found
    BY <1>4
  <2> QED BY <2>1, <2>2
<1>6. docs = {d \in Indexable : w \in WordsOf(d)}
  <2>1. \A i \in C : index[i].doc \in Indexable /\ w \in WordsOf(index[i].doc)
    <3>1. \A i \in C : Indexed(index[i].doc) /\ index[i].doc \in Docs
      BY <1>1, Typed DEF Indexed
    <3> QED BY <3>1, <1>1 DEF Flow
  <2>2. ASSUME NEW d \in Indexable, w \in WordsOf(d) PROVE d \in docs
    <3>1. PICK i \in DOMAIN index : index[i].doc = d
      BY DEF Indexed
    <3>2. i \in C
      BY <1>1, <2>2, <3>1
    <3> QED BY <3>1, <3>2
  <2> QED BY <2>1, <2>2
<1>7. Cardinality(docs) = Cardinality(C)
  <2> DEFINE g == [i \in C |-> index[i].doc]
  <2>1. g \in [C -> docs] /\ \A a, b \in C : g[a] = g[b] => a = b
    BY <1>1 DEF Flow
  <2>2. \A x \in docs : \E a \in C : g[a] = x
    OBVIOUS
  <2> HIDE DEF g, docs
  <2>3. g \in Bijection(C, docs)
    BY <2>1, <2>2, Fun_IsBij
  <2>4. ExistsBijection(C, docs)
    BY <2>3 DEF ExistsBijection
  <2> QED BY <2>4, <1>1, FS_Bijection
<1> HIDE DEF docs, found
<1>8. keys = {w} \X (0 .. Cardinality(C) - 1)
  <2>1. \A k \in keys : k \in {w} \X (0 .. Cardinality(C) - 1)
    BY <1>1, <1>3
  <2>2. \A k \in {w} \X (0 .. Cardinality(C) - 1) : k \in keys
    BY <1>2, <1>4
  <2> QED BY <2>1, <2>2
<1> QED BY <1>5, <1>6, <1>7, <1>8 DEF keys, found

\* The SSE2 index is written last: when it is complete, also after a crash, so
\* are the dictionary and the files of all documents, they agree with each
\* other, and a search finds exactly the documents with a word.  Given that
\* nothing was pending at the end of the sleep.
THEOREM FilesAgree == Spec => []CommitOrder
<1>1. IInv => CommitOrder
  <2> SUFFICES ASSUME IInv, settled, "SSE2.index" \in disk.done PROVE CommitOrder
    BY DEF CommitOrder
  <2> USE DEF IInv
  <2>1. pc = "built" /\ disk.sse2 = sse2 /\ SSE2For(sse2, dict)
    BY DEF SSE2Entries
  <2>2. /\ queue = <<>> /\ hEvent = 0 /\ pc \notin ReadStates /\ dict # {}
        /\ disk.dict = dict /\ "Dictionary.index" \in disk.done
    BY <2>1 DEF Settled, ReadStates, LateStates
  <2>3. dict = AllWords /\ \A d \in Indexable : Indexed(d)
    BY <2>2, SettledIsFinished
  <2>4. Remaining = {}
    <3>1. busy = {} /\ ~HandingOver
      BY <2>1 DEF Work, ReadStates, EncryptStates, HandingOver
    <3> QED BY <3>1, NothingRemains
  <2>5. ASSUME NEW d \in Indexable
        PROVE  d \in DOMAIN disk.tfi /\ ExactVector(disk.tfi[d], d)
    <3>1. PICK i \in DOMAIN index : index[i].doc = d
      BY <2>3 DEF Indexed
    <3>2. d \in DOMAIN disk.tfi /\ disk.tfi[d] = index[i].tf
      BY <2>1, <2>4, <3>1 DEF Encrypted, Stored, LateStates
    <3>3. Vector(index[i], AllWords)
      BY <2>1, <2>3 DEF Vectors, LateStates
    <3> QED BY <2>3, <3>1, <3>2, <3>3 DEF Vector, ExactVector
  <2>6. ASSUME NEW w \in AllWords
        PROVE  LET found == {disk.sse2[k] : k \in {k \in DOMAIN disk.sse2 : k[1] = w}}
                   count == Cardinality(found)
               IN  /\ found = {d \in Indexable : w \in WordsOf(d)}
                   /\ {k \in DOMAIN disk.sse2 : k[1] = w} = {w} \X (0 .. count - 1)
    <3>1. SSE2For(disk.sse2, dict)
      BY <2>1 DEF SSE2For
    <3>2. \A k \in DOMAIN disk.sse2 : k \in Words \X Nat
      BY <2>1 DEF TypeOK
    <3> QED BY <2>3, <3>1, <3>2, EntriesFind
  <2> QED BY <2>2, <2>3, <2>5, <2>6 DEF CommitOrder
<1> QED BY <1>1, Invariant, PTL

=============================================================================
