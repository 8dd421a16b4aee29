---------------------------- MODULE SearchProofs ----------------------------
(***************************************************************************)
(* Proofs about Search, for any number of documents and queries, any pool  *)
(* and any queue, in both modes.                                           *)
(*                                                                         *)
(* The invariant follows every document found on its way: it remains to be *)
(* handed over or measured, or its event is queued, in the hand of the     *)
(* handler or entered, and at no time two of these.  The queue keeps the   *)
(* order of the queries, so that an event which could rewrite the scores   *)
(* of the query in hand is of that query.                                  *)
(***************************************************************************)
EXTENDS Search, BatchProofs, FunctionTheorems

Concluding == pc \in {"decrypt", "decrypting", "print"}

\* The events that have become results.
Entered == {x \in Events : \E e \in Queries : \E i \in DOMAIN results[e] :
              results[e][i].doc = x.doc /\ results[e][i].from = x.from}
Event(d) == [doc |-> d, from |-> q]

\* The tasks share nothing, and are about the batch in hand.
Work ==
  /\ Apart(busy)
  /\ Later \cap InWork(busy) = {}
  /\ HandingOver => batch <= NumSlices(Len(Items), PoolSize)
  /\ Running /\ ~Measuring /\ ~Decrypting => busy = {}
  /\ Measuring => Remaining \subseteq hits
  /\ Decrypting => Remaining \subseteq 1 .. size

\* Events of earlier queries are ahead of those of later ones, all the way.
Order ==
  /\ \A i, j \in DOMAIN queue : i < j => queue[i].from <= queue[j].from
  /\ \A h \in Held, x \in Queued : h.from <= x.from
  /\ \A r \in Entered, x \in Coming : r.from <= x.from
  /\ \A x \in Entered \cup Coming :
       /\ x.from <= q
       /\ pc = "clear" => x.from < q
       /\ x.from = q => x.doc \in hits

\* No event is there twice, and a result is where it belongs.
Unique ==
  /\ IsInjective(queue)
  /\ Held \cap Queued = {}
  /\ Entered \cap Coming = {}
  /\ \A e \in Queries : \A i, j \in DOMAIN results[e] :
       /\ results[e][i].doc = results[e][j].doc
       /\ results[e][i].from = results[e][j].from
       => i = j
  /\ \A e \in Queries : \A i \in DOMAIN results[e] :
       e = EngineOf(results[e][i].from)

\* A document found remains to be measured or has an event, and not both.
Account ==
  /\ Measuring => \A d \in hits :
       d \in Remaining <=> Event(d) \notin Entered \cup Coming
  /\ pc = "count" \/ Concluding => \A d \in hits : Event(d) \in Entered \cup Coming

\* The file is ahead of the list.
Files ==
  /\ \A d \in Docs : file[d] = Torn => stage = "writing" /\ hEvent.doc = d
  /\ stage = "add" => file[hEvent.doc] = hEvent.from
  /\ \A r \in Entered : r.from = q => file[r.doc] = q

Scores == Concluding =>
  /\ size <= Len(results[Engine])
  /\ \A i \in 1 .. size :
       results[Engine][i].from = q => i \in Remaining \/ results[Engine][i].score = q

\* Nothing was ever pending after a measurement.
Drained == drained =>
  /\ pc # "terminated"
  /\ ~Measuring => ~Pending
  /\ Measuring => \A x \in Coming : x.from = q
  /\ Measuring \/ pc = "count" \/ Concluding =>
       \A i \in DOMAIN results[Engine] : results[Engine][i].from = q
  /\ Concluding => size = Len(results[Engine])

\* An engine per query: no archive throws.
Own == interactive => pc # "terminated"

\* Main is at the menu, or serves a query.
Begun == pc # "menu" => q \in Queries

IInv == /\ TypeOK /\ Work /\ Order /\ Unique /\ Account
        /\ Files /\ Scores /\ Drained /\ Own /\ Begun

-----------------------------------------------------------------------------
(* Sequences and sets.                                                     *)

\* The order of a set lists it once.
LEMMA InOrderLists ==
  ASSUME NEW S, IsFiniteSet(S)
  PROVE  /\ InOrder(S) \in Seq(S) /\ IsInjective(InOrder(S)) /\ Range(InOrder(S)) = S
<1> DEFINE n == Cardinality(S)
           o == InOrder(S)
<1>1. n \in Nat /\ ExistsBijection(1 .. n, S)
  BY FS_CardinalityType
<1>2. PICK b : b \in Bijection(1 .. n, S)
  BY <1>1, Fun_ExistsBij
<1>3. b \in [1 .. n -> S] /\ \A i, j \in 1 .. n : b[i] = b[j] => i = j
  BY <1>2, Fun_BijectionProperties
<1>4. IsInjective(b)
  BY <1>3 DEF IsInjective
<1>5. o \in [1 .. n -> S] /\ IsInjective(o)
  BY <1>3, <1>4 DEF InOrder
<1> HIDE DEF o
<1>6. o \in Injection(1 .. n, S)
  BY <1>5, Fun_IsInj DEF IsInjective
<1>7. IsFiniteSet(1 .. n) /\ Cardinality(1 .. n) = n
  BY <1>1, FS_Interval
<1>8. o \in Surjection(1 .. n, S)
  BY <1>6, <1>7, FS_Injection
<1>9. Range(o) = S
  BY <1>8, Fun_SurjectionProperties
<1>10. o \in Seq(S)
  BY <1>1, <1>5, SeqDef
<1> QED BY <1>5, <1>9, <1>10 DEF o

-----------------------------------------------------------------------------
(* The batch in hand.                                                      *)

\* What is handed over, in both phases.
LEMMA ItemsOfBatch ==
  ASSUME TypeOK, HandingOver
  PROVE  /\ Items \in Seq(Nat \ {0}) /\ IsInjective(Items)
         /\ Range(Items) = IF pc = "measure" THEN hits ELSE 1 .. size
         /\ Len(Items) \in Nat /\ DOMAIN Items = 1 .. Len(Items)
         /\ PoolSize \in Nat \ {0} /\ batch \in Nat
         /\ NumSlices(Len(Items), PoolSize) \in Nat
<1>1. IsFiniteSet(hits) /\ hits \subseteq Nat \ {0}
  <2>1. IsFiniteSet(Docs) /\ hits \in SUBSET Docs
    BY BoundsAssumption, FS_Interval DEF Docs, TypeOK
  <2>2. Docs \subseteq Nat \ {0}
    BY BoundsAssumption DEF Docs
  <2> QED BY <2>1, <2>2, FS_Subset
<1>2. /\ Items \in Seq(Nat \ {0}) /\ IsInjective(Items)
      /\ Range(Items) = IF pc = "measure" THEN hits ELSE 1 .. size
  <2>1. CASE pc = "measure"
    <3>1. Items = InOrder(hits)
      BY <2>1 DEF Items
    <3>2. /\ InOrder(hits) \in Seq(hits)
          /\ IsInjective(InOrder(hits)) /\ Range(InOrder(hits)) = hits
      BY <1>1, InOrderLists
    <3>3. InOrder(hits) \in Seq(Nat \ {0})
      BY <1>1, <3>2, SeqMonotonic
    <3> QED BY <2>1, <3>1, <3>2, <3>3
  <2>2. CASE pc # "measure"
    <3>1. Items = [i \in 1 .. size |-> i] /\ size \in Nat
      BY <2>2 DEF Items, TypeOK
    <3>2. Items \in Seq(Nat \ {0}) /\ DOMAIN Items = 1 .. size
      BY <3>1
    <3>3. IsInjective(Items)
      BY <3>1 DEF IsInjective
    <3>4. Range(Items) = 1 .. size
      BY <3>1 DEF Range
    <3> QED BY <2>2, <3>2, <3>3, <3>4
  <2> QED BY <2>1, <2>2
<1>3. Len(Items) \in Nat /\ DOMAIN Items = 1 .. Len(Items)
  BY <1>2, LenProperties
<1>4. PoolSize \in Nat \ {0} /\ batch \in Nat
  BY CapacityAssumption DEF TypeOK
<1> QED BY <1>2, <1>3, <1>4, DivisionWithRest

\* A step that leaves the batch alone leaves what remains of it alone.
LEMMA BatchUnchanged ==
  ASSUME Work, UNCHANGED <<pc, hits, batch, size, busy>>
  PROVE  Work' /\ Remaining' = Remaining
<1>1. Items' = Items
  BY DEF Items
<1>2. Later' = Later
  BY <1>1 DEF Later, HandingOver
<1> QED BY <1>1, <1>2 DEF Work, Remaining, HandingOver, Running, Measuring, Decrypting

\* A new batch: nothing is with the workers, and all of it is still to come.
LEMMA BatchBegins ==
  ASSUME TypeOK, HandingOver, batch = 0, busy = {}
  PROVE  /\ Work
         /\ Remaining = IF pc = "measure" THEN hits ELSE 1 .. size
<1>1. Left(Items, PoolSize, 0) = Range(Items)
  BY ItemsOfBatch, LeftAtTheEnds
<1>2. Later = Range(Items)
  BY <1>1 DEF Later
<1>3. batch <= NumSlices(Len(Items), PoolSize)
  BY ItemsOfBatch
<1>4. Remaining = IF pc = "measure" THEN hits ELSE 1 .. size
  BY <1>2, NobodyBusy, ItemsOfBatch DEF Remaining
<1> QED BY <1>3, <1>4, NobodyBusy DEF Work, HandingOver, Measuring, Decrypting

\* The next task gets what was first in line, and nothing is left out.
LEMMA HandOverKeeps ==
  ASSUME TypeOK, Work, HandOver
  PROVE  /\ Work' /\ Remaining' = Remaining
         /\ busy' \subseteq Seq(Nat \ {0}) \ {<<>>}
         /\ Cardinality(busy') <= PoolSize
<1> DEFINE t == SliceOf(Items, PoolSize, batch + 1)
<1>1. /\ HandingOver /\ batch < NumSlices(Len(Items), PoolSize)
      /\ busy' = busy \cup {t} /\ batch' = batch + 1
      /\ UNCHANGED <<pc, hits, size>> /\ Cardinality(busy) < PoolSize
  BY DEF HandOver, HandingOver
<1>2. Items' = Items /\ HandingOver' /\ (Measuring' <=> Measuring)
      /\ (Decrypting' <=> Decrypting) /\ (Running' <=> Running)
  BY <1>1 DEF Items, HandingOver, Measuring, Decrypting, Running
<1>3. /\ Later = Left(Items, PoolSize, batch)
      /\ Later' = Left(Items, PoolSize, batch + 1)
  BY <1>1, <1>2 DEF Later
<1>4. /\ Items \in Seq(Nat \ {0}) /\ IsInjective(Items)
      /\ PoolSize \in Nat \ {0} /\ batch \in Nat
      /\ NumSlices(Len(Items), PoolSize) \in Nat
  BY <1>1, ItemsOfBatch
<1>5. /\ t \in Seq(Nat \ {0}) \ {<<>>}
      /\ Apart(busy') /\ Cardinality(busy') <= PoolSize
      /\ Later' \cap InWork(busy') = {}
      /\ Later' \cup InWork(busy') = Later \cup InWork(busy)
  BY <1>1, <1>3, <1>4, TaskTaken DEF Work
<1>6. busy' \subseteq Seq(Nat \ {0}) \ {<<>>}
  BY <1>1, <1>5 DEF TypeOK
<1>7. batch' <= NumSlices(Len(Items'), PoolSize)
  BY <1>1, <1>2, <1>4
<1>8. Remaining' = Remaining
  BY <1>5 DEF Remaining
<1>9. Running' /\ ~Measuring' /\ ~Decrypting' => busy' = {}
  BY <1>1, <1>2 DEF HandingOver, Measuring, Decrypting
<1> QED BY <1>1, <1>2, <1>5, <1>6, <1>7, <1>8, <1>9 DEF Work

\* A worker that has dealt with its first item leaves the others alone.
LEMMA AdvanceTakesOne ==
  ASSUME TypeOK, Work, NEW s \in busy, Advance(s),
         UNCHANGED <<pc, hits, batch, size>>
  PROVE  /\ s[1] \in Remaining /\ Work' /\ Remaining' = Remaining \ {s[1]}
         /\ busy' \subseteq Seq(Nat \ {0}) \ {<<>>}
         /\ Cardinality(busy') <= PoolSize
<1>1. busy' = (busy \ {s}) \cup ({Tail(s)} \ {<<>>})
  BY DEF Advance
<1>2. busy \in SUBSET (Seq(Nat \ {0}) \ {<<>>}) /\ Apart(busy)
  BY DEF TypeOK, Work
<1>3. /\ busy' \subseteq Seq(Nat \ {0}) \ {<<>>}
      /\ Apart(busy') /\ Cardinality(busy') <= Cardinality(busy)
      /\ InWork(busy') = InWork(busy) \ {s[1]} /\ s[1] \in InWork(busy)
  BY <1>1, <1>2, ItemTaken
<1>4. Cardinality(busy') <= PoolSize
  <2>1. Cardinality(busy') \in Nat /\ Cardinality(busy) \in Nat
    BY <1>2, <1>3, FS_CardinalityType DEF Apart
  <2> QED BY <2>1, <1>3, CapacityAssumption DEF TypeOK
<1>5. Items' = Items
  BY DEF Items
<1>6. Later' = Later /\ Later \cap InWork(busy) = {}
  BY <1>5 DEF Later, HandingOver, Work
<1>7. Remaining' = Remaining \ {s[1]} /\ s[1] \in Remaining
  BY <1>3, <1>6 DEF Remaining
<1>8. Later' \cap InWork(busy') = {}
  BY <1>3, <1>6
<1>9. (HandingOver' <=> HandingOver) /\ (Measuring' <=> Measuring)
      /\ (Decrypting' <=> Decrypting) /\ (Running' <=> Running)
  BY DEF HandingOver, Measuring, Decrypting, Running
<1> QED BY <1>3, <1>4, <1>5, <1>7, <1>8, <1>9 DEF Work

\* When all has been handed over, what remains is with the workers.
LEMMA AllHandedOverKeeps ==
  ASSUME TypeOK, Work, AllHandedOver
  PROVE  Work' /\ Remaining' = Remaining
<1>1. HandingOver /\ batch = NumSlices(Len(Items), PoolSize)
  BY DEF AllHandedOver, HandingOver
<1>2. Later = {}
  BY <1>1, ItemsOfBatch, LeftAtTheEnds DEF Later
<1>3. ~HandingOver' /\ Later' = {}
  BY DEF AllHandedOver, HandingOver, Later
<1>4. UNCHANGED <<busy, hits, size>>
  BY DEF AllHandedOver
<1>5. (Measuring' <=> Measuring) /\ (Decrypting' <=> Decrypting)
  BY DEF AllHandedOver, Measuring, Decrypting
<1>6. Remaining' = Remaining
  BY <1>2, <1>3, <1>4 DEF Remaining
<1> QED BY <1>1, <1>3, <1>4, <1>5, <1>6 DEF Work, HandingOver, Measuring, Decrypting

\* When the workers are free again, nothing of the batch remains.
LEMMA NothingRemains ==
  ASSUME busy = {}, ~HandingOver
  PROVE  Remaining = {}
BY NobodyBusy DEF Remaining, Later

-----------------------------------------------------------------------------
(* The events on their way.                                                *)

\* What is known of a single event.
LEMMA EventsTyped ==
  ASSUME TypeOK
  PROVE  /\ queue \in Seq(Events) /\ Len(queue) \in Nat /\ DOMAIN queue = 1 .. Len(queue)
         /\ \A i \in DOMAIN queue : queue[i] \in Events
         /\ Coming \subseteq Events /\ Entered \subseteq Events
         /\ \A x \in Events : x.doc \in Docs /\ x.from \in Queries /\ x.from \in Nat
         /\ \A x, y \in Events : x = y <=> x.doc = y.doc /\ x.from = y.from
         /\ q \in Int
         /\ Pending <=> Coming # {}
<1>1. queue \in Seq(Events)
  BY DEF TypeOK
<1>2. Len(queue) \in Nat /\ DOMAIN queue = 1 .. Len(queue)
  BY <1>1, LenProperties
<1>3. \A i \in DOMAIN queue : queue[i] \in Events
  BY <1>1, <1>2, ElementOfSeq
<1>4. Held \subseteq Events /\ (Held # {} <=> stage # "idle")
  BY DEF TypeOK, Held
<1>5. Queued \subseteq Events
  BY <1>3 DEF Queued, Range
<1>6. Queued # {} <=> queue # <<>>
  <2>1. CASE queue = <<>>
    BY <2>1 DEF Queued, Range
  <2>2. CASE queue # <<>>
    <3>1. 1 \in DOMAIN queue
      BY <1>1, <2>2, TailRange
    <3> QED BY <2>2, <3>1 DEF Queued, Range
  <2> QED BY <2>1, <2>2
<1>7. Queries \subseteq Nat
  BY BoundsAssumption DEF Queries
<1>8. \A x \in Events : x.doc \in Docs /\ x.from \in Queries /\ x.from \in Nat
  BY <1>7 DEF Events
<1>9. \A x, y \in Events : x = y <=> x.doc = y.doc /\ x.from = y.from
  BY DEF Events
<1>10. q \in Int
  BY DEF TypeOK
<1>11. Pending <=> Coming # {}
  BY <1>4, <1>6 DEF Pending, Coming
<1> QED
  BY <1>1, <1>2, <1>3, <1>4, <1>5, <1>8, <1>9, <1>10, <1>11 DEF Coming, Entered

\* What is known of the engine in use.
LEMMA EngineTyped ==
  ASSUME TypeOK, Begun, pc # "menu"
  PROVE  /\ q \in Queries /\ Engine \in Queries
         /\ results[Engine] \in Seq(Results)
         /\ Len(results[Engine]) \in Nat
         /\ DOMAIN results[Engine] = 1 .. Len(results[Engine])
<1>1. q \in Queries
  BY DEF Begun
<1>2. 1 \in Queries
  BY <1>1, BoundsAssumption DEF Queries
<1>3. Engine \in Queries
  BY <1>1, <1>2 DEF Engine, EngineOf
<1>4. results[Engine] \in Seq(Results)
  BY <1>3 DEF TypeOK
<1> QED BY <1>1, <1>3, <1>4, LenProperties

\* A result stands for an event that has been entered.
LEMMA ResultsEntered ==
  ASSUME TypeOK, NEW e \in Queries, NEW i \in DOMAIN results[e]
  PROVE  /\ results[e] \in Seq(Results) /\ results[e][i] \in Results
         /\ [doc |-> results[e][i].doc, from |-> results[e][i].from] \in Entered
<1>1. results[e] \in Seq(Results)
  BY DEF TypeOK
<1>2. results[e][i] \in Results
  BY <1>1, LenProperties, ElementOfSeq
<1>3. [doc |-> results[e][i].doc, from |-> results[e][i].from] \in Events
  BY <1>2 DEF Results, Events
<1> QED BY <1>1, <1>2, <1>3 DEF Entered

\* Steps that leave the events alone.
LEMMA EventsUnchanged ==
  ASSUME Order, Unique, Files, pc' # "clear",
         UNCHANGED <<interactive, q, hits, queue, stage, hEvent, results, file>>
  PROVE  /\ Order' /\ Unique' /\ Files'
         /\ Coming' = Coming /\ Entered' = Entered /\ (Pending' <=> Pending)
         /\ \A d : Event(d)' = Event(d)
<1>1. Held' = Held /\ Queued' = Queued
  BY DEF Held, Queued
<1>2. Coming' = Coming
  BY <1>1 DEF Coming
<1>3. Entered' = Entered
  BY DEF Entered
<1>4. Order'
  BY <1>1, <1>2, <1>3 DEF Order
<1>5. Unique'
  BY <1>1, <1>2, <1>3 DEF Unique, EngineOf
<1>6. Files'
  BY <1>3 DEF Files
<1> QED BY <1>2, <1>3, <1>4, <1>5, <1>6 DEF Pending, Event

-----------------------------------------------------------------------------
(* The steps of main.                                                      *)

LEMMA InitIInv == Init => IInv
<1> SUFFICES ASSUME Init PROVE IInv
  OBVIOUS
<1>1. TypeOK
  <2>1. busy \subseteq Seq(Nat \ {0}) \ {<<>>} /\ Cardinality(busy) <= PoolSize
    BY FS_EmptySet, CapacityAssumption DEF Init
  <2>2. queue \in Seq(Events) /\ Len(queue) <= Max
    BY CapacityAssumption DEF Init
  <2>3. results \in [Queries -> Seq(Results)]
    BY DEF Init
  <2> QED BY <2>1, <2>2, <2>3, BoundsAssumption DEF Init, TypeOK
<1>2. Held = {} /\ Queued = {} /\ Coming = {} /\ Entered = {}
  BY DEF Init, Held, Queued, Coming, Entered, Range
<1>3. Work
  BY NobodyBusy DEF Init, Work, Later, HandingOver, Running, Measuring, Decrypting
<1>4. Order /\ Unique
  BY <1>2 DEF Init, Order, Unique, IsInjective
<1>5. Account /\ Scores /\ Begun /\ Own
  BY DEF Init, Account, Scores, Begun, Own, Measuring, Concluding
<1>6. Files
  BY <1>2 DEF Init, Files, NoFile, Torn
<1>7. Drained
  BY DEF Init, Drained, Pending, Measuring, Concluding
<1> QED BY <1>1, <1>3, <1>4, <1>5, <1>6, <1>7 DEF IInv

\* A new query, for which there is no event yet.
LEMMA QueryBegins ==
  ASSUME IInv, Lookup \/ NothingFound
  PROVE  IInv'
<1> USE DEF IInv
<1>1. /\ pc = "menu" /\ q < NumQueries /\ q' = q + 1
      /\ hits' \subseteq Docs /\ pc' \in {"menu", "clear"}
      /\ UNCHANGED <<interactive, batch, size, drained, busy, queue, stage,
                     hEvent, file, results>>
  BY DEF Lookup, NothingFound, handlerVars
<1>2. TypeOK'
  BY <1>1, BoundsAssumption DEF TypeOK
<1>3. q' \in Queries
  BY <1>1, BoundsAssumption DEF TypeOK, Queries
<1>4. busy = {}
  BY <1>1 DEF Work, Running, Measuring, Decrypting
<1>5. Work'
  BY <1>1, <1>4, NobodyBusy DEF Work, Later, HandingOver, Measuring, Decrypting
<1>6. Held' = Held /\ Queued' = Queued /\ Coming' = Coming /\ Entered' = Entered
  BY <1>1 DEF Held, Queued, Coming, Entered
<1>7. \A x \in Entered \cup Coming : x.from <= q /\ x.from < q' /\ x.from # q'
  BY <1>1, EventsTyped DEF Order
<1>8. Order'
  BY <1>1, <1>6, <1>7, EventsTyped DEF Order
<1>9. Unique'
  BY <1>1, <1>6 DEF Unique, EngineOf
<1>10. Account' /\ Scores' /\ Begun' /\ Own'
  BY <1>1, <1>3 DEF Account, Scores, Begun, Own, Measuring, Concluding
<1>11. Files'
  BY <1>1, <1>6, <1>7 DEF Files
<1>12. Drained'
  BY <1>1 DEF Drained, Pending, Measuring, Concluding
<1> QED BY <1>2, <1>5, <1>8, <1>9, <1>10, <1>11, <1>12

\* The results of the engine are cleared, and all documents are still to come.
LEMMA ClearKeeps ==
  ASSUME IInv, Clear
  PROVE  IInv'
<1> USE DEF IInv
<1>1. /\ pc = "clear" /\ pc' = "measure" /\ batch' = 0
      /\ results' = [results EXCEPT ![Engine] = <<>>]
      /\ UNCHANGED <<interactive, q, hits, size, drained, busy, queue, stage, hEvent, file>>
  BY DEF Clear, handlerVars
<1>2. Engine \in Queries /\ q \in Queries
  BY <1>1, EngineTyped
<1>3. Engine' = Engine
  BY <1>1 DEF Engine, EngineOf
<1>4. results \in [Queries -> Seq(Results)]
  BY DEF TypeOK
<1>5. /\ results'[Engine] = <<>>
      /\ \A e \in Queries : e # Engine => results'[e] = results[e]
      /\ results' \in [Queries -> Seq(Results)]
  BY <1>1, <1>2, <1>4
<1>6. TypeOK'
  BY <1>1, <1>5 DEF TypeOK
<1>7. \A e \in Queries : \A i \in DOMAIN results'[e] :
        i \in DOMAIN results[e] /\ results'[e] = results[e]
  BY <1>5
<1>8. Entered' \subseteq Entered
  BY <1>7 DEF Entered
<1>9. Held' = Held /\ Queued' = Queued /\ Coming' = Coming
  BY <1>1 DEF Held, Queued, Coming
<1>10. Work' /\ Remaining' = hits
  <2>1. busy' = {}
    BY <1>1 DEF Work, Running, Measuring, Decrypting
  <2>2. TypeOK' /\ HandingOver' /\ batch' = 0 /\ busy' = {} /\ pc' = "measure" /\ hits' = hits
    BY <1>1, <1>6, <2>1 DEF HandingOver
  <2>3. (TypeOK /\ HandingOver /\ batch = 0 /\ busy = {}
           => Work /\ Remaining = IF pc = "measure" THEN hits ELSE 1 .. size)'
    BY BatchBegins, PTL
  <2> QED BY <2>2, <2>3
<1>11. \A x \in Entered \cup Coming : x.from < q /\ x.from # q /\ x # Event(x.doc)
  BY <1>1, EventsTyped DEF Order, Event
<1>12. Order'
  BY <1>1, <1>8, <1>9 DEF Order
<1>13. Unique'
  BY <1>1, <1>7, <1>8, <1>9 DEF Unique, EngineOf
<1>14. Account'
  <2>1. \A d \in hits : Event(d)' \notin Entered' \cup Coming'
    BY <1>1, <1>8, <1>9, <1>11 DEF Event
  <2> QED BY <1>1, <1>10, <2>1 DEF Account, Measuring, Concluding
<1>15. Files'
  BY <1>1, <1>8 DEF Files
<1>16. Scores' /\ Begun' /\ Own'
  BY <1>1, <1>2 DEF Scores, Begun, Own, Concluding
<1>17. Drained'
  <2> SUFFICES ASSUME drained
               PROVE  /\ \A x \in Coming' : x.from = q
                      /\ \A i \in DOMAIN results'[Engine] : results'[Engine][i].from = q
    BY <1>1, <1>3 DEF Drained, Measuring, Concluding
  <2>1. ~Pending
    BY <1>1 DEF Drained, Measuring
  <2> QED BY <2>1, <1>9, <1>5, EventsTyped
<1> QED BY <1>6, <1>10, <1>12, <1>13, <1>14, <1>15, <1>16, <1>17

\* A task goes to a free worker.
LEMMA HandOverStep ==
  ASSUME IInv, HandOver
  PROVE  IInv'
<1> USE DEF IInv
<1>1. /\ HandingOver /\ pc' = pc /\ batch' = batch + 1
      /\ UNCHANGED <<interactive, q, hits, size, drained, queue, stage,
                     hEvent, file, results>>
  BY DEF HandOver, HandingOver, handlerVars
<1>2. /\ Work' /\ Remaining' = Remaining
      /\ busy' \subseteq Seq(Nat \ {0}) \ {<<>>} /\ Cardinality(busy') <= PoolSize
  BY HandOverKeeps
<1>3. TypeOK'
  BY <1>1, <1>2 DEF TypeOK
<1>4. pc' # "clear" /\ Engine' = Engine
  BY <1>1 DEF HandingOver, Engine, EngineOf
<1>5. /\ Order' /\ Unique' /\ Files'
      /\ Coming' = Coming /\ Entered' = Entered /\ (Pending' <=> Pending)
      /\ \A d : Event(d)' = Event(d)
  BY <1>1, <1>4, EventsUnchanged
<1>6. Account'
  BY <1>1, <1>2, <1>5 DEF Account, Measuring, Concluding
<1>7. Scores'
  BY <1>1, <1>2, <1>4 DEF Scores, Concluding
<1>8. Drained' /\ Begun' /\ Own'
  BY <1>1, <1>4, <1>5 DEF Drained, Begun, Own, Measuring, Concluding
<1> QED BY <1>2, <1>3, <1>5, <1>6, <1>7, <1>8

\* Main waits for the workers.
LEMMA AllHandedOverStep ==
  ASSUME IInv, AllHandedOver
  PROVE  IInv'
<1> USE DEF IInv
<1>1. /\ pc \in {"measure", "decrypt"}
      /\ pc' = IF pc = "measure" THEN "measuring" ELSE "decrypting"
      /\ UNCHANGED <<interactive, q, hits, batch, size, drained, busy, queue,
                     stage, hEvent, file, results>>
  BY DEF AllHandedOver, handlerVars
<1>2. Work' /\ Remaining' = Remaining
  BY AllHandedOverKeeps
<1>3. TypeOK'
  BY <1>1 DEF TypeOK
<1>4. pc' # "clear" /\ Engine' = Engine
  BY <1>1 DEF Engine, EngineOf
<1>5. /\ Order' /\ Unique' /\ Files'
      /\ Coming' = Coming /\ Entered' = Entered /\ (Pending' <=> Pending)
      /\ \A d : Event(d)' = Event(d)
  BY <1>1, <1>4, EventsUnchanged
<1>6. Account'
  BY <1>1, <1>2, <1>5 DEF Account, Measuring, Concluding
<1>7. Scores'
  BY <1>1, <1>2, <1>4 DEF Scores, Concluding
<1>8. Drained' /\ Begun' /\ Own'
  BY <1>1, <1>4, <1>5 DEF Drained, Begun, Own, Measuring, Concluding
<1> QED BY <1>2, <1>3, <1>5, <1>6, <1>7, <1>8

\* All documents have been measured: every one has its event.
LEMMA MeasureBarrierStep ==
  ASSUME IInv, MeasureBarrier
  PROVE  IInv'
<1> USE DEF IInv
<1>1. /\ pc = "measuring" /\ pc' = "count" /\ busy = {}
      /\ drained' = (drained /\ ~Pending)
      /\ UNCHANGED <<interactive, q, hits, batch, size, busy, queue,
                     stage, hEvent, file, results>>
  BY DEF MeasureBarrier, handlerVars
<1>2. Remaining = {}
  BY <1>1, NothingRemains DEF HandingOver
<1>3. TypeOK'
  BY <1>1 DEF TypeOK
<1>4. Work'
  BY <1>1 DEF Work, Later, InWork, HandingOver, Measuring, Decrypting
<1>5. /\ Order' /\ Unique' /\ Files'
      /\ Coming' = Coming /\ Entered' = Entered /\ (Pending' <=> Pending)
      /\ \A d : Event(d)' = Event(d)
  BY <1>1, EventsUnchanged
<1>6. Account'
  BY <1>1, <1>2, <1>5 DEF Account, Measuring, Concluding
<1>7. Scores' /\ Begun' /\ Own'
  BY <1>1 DEF Scores, Begun, Own, Concluding
<1>8. Engine' = Engine
  BY <1>1 DEF Engine, EngineOf
<1>9. Drained'
  BY <1>1, <1>5, <1>8 DEF Drained, Measuring, Concluding
<1> QED BY <1>3, <1>4, <1>5, <1>6, <1>7, <1>9

\* The results there are at that moment are going to be decrypted.
LEMMA CountStep ==
  ASSUME IInv, Count
  PROVE  IInv'
<1> USE DEF IInv
<1>1. /\ pc = "count" /\ size' = Len(results[Engine]) /\ batch' = 0
      /\ pc' = IF size' = 0 THEN "menu" ELSE "decrypt"
      /\ UNCHANGED <<interactive, q, hits, drained, busy, queue,
                     stage, hEvent, file, results>>
  BY DEF Count, handlerVars
<1>2. Engine' = Engine /\ size' \in Nat
  BY <1>1, EngineTyped DEF Engine, EngineOf
<1>3. TypeOK'
  BY <1>1, <1>2 DEF TypeOK
<1>4. busy' = {}
  BY <1>1 DEF Work, Running, Measuring, Decrypting
<1>5. Work' /\ (pc' = "decrypt" => Remaining' = 1 .. size')
  <2>1. CASE pc' = "decrypt"
    <3>1. TypeOK' /\ HandingOver' /\ batch' = 0 /\ busy' = {} /\ pc' # "measure"
      BY <1>1, <1>3, <1>4, <2>1 DEF HandingOver
    <3>2. (TypeOK /\ HandingOver /\ batch = 0 /\ busy = {}
             => Work /\ Remaining = IF pc = "measure" THEN hits ELSE 1 .. size)'
      BY BatchBegins, PTL
    <3> QED BY <3>1, <3>2
  <2>2. CASE pc' = "menu"
    BY <2>2, <1>4, NobodyBusy DEF Work, Later, HandingOver, Measuring, Decrypting
  <2> QED BY <2>1, <2>2, <1>1
<1>6. /\ Order' /\ Unique' /\ Files'
      /\ Coming' = Coming /\ Entered' = Entered /\ (Pending' <=> Pending)
      /\ \A d : Event(d)' = Event(d)
  BY <1>1, EventsUnchanged
<1>7. Account'
  BY <1>1, <1>6 DEF Account, Measuring, Concluding
<1>8. Scores'
  BY <1>1, <1>2, <1>5 DEF Scores, Concluding
<1>9. Drained'
  BY <1>1, <1>2, <1>6 DEF Drained, Measuring, Concluding
<1>10. Begun' /\ Own'
  BY <1>1 DEF Begun, Own
<1> QED BY <1>3, <1>5, <1>6, <1>7, <1>8, <1>9, <1>10

\* All that was counted has been decrypted, and is then printed.
LEMMA BackToMenu ==
  ASSUME IInv, DecryptBarrier \/ PrintResults
  PROVE  IInv'
<1> USE DEF IInv
<1>1. /\ \/ pc = "decrypting" /\ pc' = "print" /\ busy = {}
         \/ pc = "print" /\ pc' = "menu"
      /\ UNCHANGED <<interactive, q, hits, batch, size, drained, busy, queue,
                     stage, hEvent, file, results>>
  BY DEF DecryptBarrier, PrintResults, handlerVars
<1>2. busy = {} /\ Remaining = {} /\ Remaining' = {}
  <2>1. busy = {} /\ busy' = {} /\ ~HandingOver /\ ~HandingOver'
    BY <1>1 DEF Work, Running, Measuring, Decrypting, HandingOver
  <2> QED BY <2>1 DEF Remaining, Later, InWork
<1>3. TypeOK'
  BY <1>1 DEF TypeOK
<1>4. Work'
  BY <1>1, <1>2 DEF Work, Later, InWork, HandingOver, Measuring, Decrypting
<1>5. /\ Order' /\ Unique' /\ Files'
      /\ Coming' = Coming /\ Entered' = Entered /\ (Pending' <=> Pending)
      /\ \A d : Event(d)' = Event(d)
  BY <1>1, EventsUnchanged
<1>6. Account'
  BY <1>1, <1>5 DEF Account, Measuring, Concluding
<1>7. Engine' = Engine
  BY <1>1 DEF Engine, EngineOf
<1>8. Scores'
  BY <1>1, <1>2, <1>7 DEF Scores, Concluding
<1>9. Drained' /\ Begun' /\ Own'
  BY <1>1, <1>5, <1>7 DEF Drained, Begun, Own, Measuring, Concluding
<1> QED BY <1>3, <1>4, <1>5, <1>6, <1>8, <1>9

-----------------------------------------------------------------------------
(* The steps of the workers.                                               *)

\* The document measured did not have an event, and gets one: the newest.
LEMMA MeasureStep ==
  ASSUME IInv, NEW s \in busy, Measure(s)
  PROVE  IInv'
<1> USE DEF IInv
<1> DEFINE d == s[1]
           x == Event(d)
<1>1. /\ Running /\ ~Decrypting /\ Len(queue) < Max
      /\ queue' = Append(queue, x)
      /\ Advance(s)
      /\ UNCHANGED <<interactive, q, hits, pc, batch, size, drained, stage,
                     hEvent, file, results>>
  BY DEF Measure, engineVars, handlerVars, Event
<1>2. Measuring
  BY <1>1 DEF Work
<1>3. /\ d \in Remaining /\ Work' /\ Remaining' = Remaining \ {d}
      /\ busy' \subseteq Seq(Nat \ {0}) \ {<<>>} /\ Cardinality(busy') <= PoolSize
  BY <1>1, AdvanceTakesOne
<1>4. d \in hits /\ d \in Docs /\ q \in Queries
  BY <1>2, <1>3 DEF Work, TypeOK, Begun, Measuring
<1>5. x \in Events /\ x.from = q /\ x.doc = d /\ x \notin Entered \cup Coming
  BY <1>2, <1>3, <1>4 DEF Account, Event, Events
<1> HIDE DEF d, x
<1>6. /\ queue' \in Seq(Events) /\ Len(queue') = Len(queue) + 1
      /\ DOMAIN queue' = 1 .. Len(queue) + 1 /\ DOMAIN queue = 1 .. Len(queue)
      /\ Len(queue) \in Nat
      /\ \A i \in DOMAIN queue : queue'[i] = queue[i]
      /\ queue'[Len(queue) + 1] = x
      /\ Queued' = Queued \cup {x}
  BY <1>1, <1>5, EventsTyped, AppendRange DEF Queued
<1>7. TypeOK'
  <2>1. Len(queue') <= Max
    BY <1>1, <1>6, CapacityAssumption
  <2> QED BY <1>1, <1>3, <1>6, <2>1 DEF TypeOK
<1>8. Held' = Held /\ Coming' = Coming \cup {x} /\ Entered' = Entered
  BY <1>1, <1>6 DEF Held, Coming, Entered
<1>9. \A i \in DOMAIN queue' : i \in DOMAIN queue \/ i = Len(queue) + 1
  BY <1>6
<1>10. \A i \in DOMAIN queue : queue[i] \in Queued /\ queue[i] \in Coming
  BY DEF Queued, Coming, Range
<1>11. \A y \in Entered \cup Coming : y.from <= x.from
  BY <1>5 DEF Order
<1>12. Order'
  <2>1. \A i, j \in DOMAIN queue' : i < j => queue'[i].from <= queue'[j].from
    <3> SUFFICES ASSUME NEW i \in DOMAIN queue', NEW j \in DOMAIN queue', i < j
                 PROVE  queue'[i].from <= queue'[j].from
      OBVIOUS
    <3>1. i \in DOMAIN queue
      BY <1>6
    <3>2. CASE j \in DOMAIN queue
      BY <3>1, <3>2, <1>6 DEF Order
    <3>3. CASE j = Len(queue) + 1
      BY <3>1, <3>3, <1>6, <1>10, <1>11
    <3> QED BY <3>2, <3>3, <1>9
  <2>2. \A h \in Held', y \in Queued' : h.from <= y.from
    BY <1>6, <1>8, <1>11 DEF Order, Coming
  <2>3. \A r \in Entered', y \in Coming' : r.from <= y.from
    BY <1>8, <1>11 DEF Order
  <2>4. pc # "clear"
    BY <1>2 DEF Measuring
  <2>5. x.from <= q
    BY <1>5, EventsTyped
  <2> QED BY <2>1, <2>2, <2>3, <2>4, <2>5, <1>1, <1>4, <1>5, <1>8 DEF Order
<1>13. Unique'
  <2>1. IsInjective(queue')
    BY <1>5, <1>6, <1>9, <1>10 DEF Unique, IsInjective
  <2>2. Held' \cap Queued' = {} /\ Entered' \cap Coming' = {}
    BY <1>5, <1>6, <1>8 DEF Unique, Coming
  <2> QED BY <2>1, <2>2, <1>1 DEF Unique, EngineOf
<1>14. Account'
  <2> SUFFICES ASSUME NEW c \in hits
               PROVE  c \in Remaining' <=> Event(c) \notin Entered' \cup Coming'
    BY <1>1, <1>2 DEF Account, Measuring, Concluding, Event
  <2>1. c \in Remaining <=> Event(c) \notin Entered \cup Coming
    BY <1>2 DEF Account
  <2>2. Event(c) = x <=> c = d
    BY DEF Event, x
  <2> QED BY <2>1, <2>2, <1>3, <1>8
<1>15. Files'
  BY <1>1, <1>8 DEF Files
<1>16. Engine' = Engine
  BY <1>1 DEF Engine, EngineOf
<1>17. Scores' /\ Begun' /\ Own'
  BY <1>1, <1>2 DEF Scores, Begun, Own, Measuring, Concluding
<1>18. Drained'
  BY <1>1, <1>2, <1>5, <1>8, <1>16 DEF Drained, Measuring, Concluding
<1> QED BY <1>3, <1>7, <1>12, <1>13, <1>14, <1>15, <1>17, <1>18

\* An event in the hand of the handler is not about a document that has its
\* result for the query already: late ones are of earlier queries, and they
\* come before.
LEMMA HandlerElsewhere ==
  ASSUME TypeOK, Order, Unique, stage # "idle",
         NEW r \in Entered, r.from = q
  PROVE  r.doc # hEvent.doc
<1>1. hEvent \in Held /\ hEvent \in Coming
  BY DEF Held, Coming
<1>2. r.from <= hEvent.from /\ hEvent.from <= q
  BY <1>1 DEF Order
<1>3. hEvent.from = q
  BY <1>1, <1>2, EventsTyped
<1>4. r # hEvent
  BY <1>1 DEF Unique
<1> QED BY <1>1, <1>3, <1>4, EventsTyped

\* A result gets the scores in the file of its document, and that is all.
LEMMA DecryptEffect ==
  ASSUME IInv, NEW s \in busy, Decrypt(s)
  PROVE  /\ Decrypting /\ Concluding /\ pc \notin {"menu", "clear", "count"} /\ ~Measuring
         /\ UNCHANGED <<interactive, q, hits, pc, batch, size, drained, queue,
                        stage, hEvent, file>>
         /\ s[1] \in Remaining /\ Work' /\ Remaining' = Remaining \ {s[1]}
         /\ busy' \subseteq Seq(Nat \ {0}) \ {<<>>} /\ Cardinality(busy') <= PoolSize
         /\ s[1] \in 1 .. size /\ s[1] \in DOMAIN results[Engine]
         /\ q \in Queries /\ Engine \in Queries
         /\ Len(results'[Engine]) = Len(results[Engine])
         /\ results' \in [Queries -> Seq(Results)]
         /\ \A e \in Queries : DOMAIN results'[e] = DOMAIN results[e]
         /\ \A e \in Queries : \A j \in DOMAIN results[e] :
              /\ results'[e][j].doc = results[e][j].doc
              /\ results'[e][j].from = results[e][j].from
              /\ e # Engine \/ j # s[1] => results'[e][j] = results[e][j]
         /\ FileOf(s[1]) \in Queries \cup {NoScore}
         /\ results'[Engine][s[1]].score = FileOf(s[1])
         /\ Entered' = Entered
<1> USE DEF IInv
<1> DEFINE i == s[1]
           r == results[Engine][i]
<1>1. /\ Decrypting /\ file[r.doc] # Torn
      /\ results' = [results EXCEPT ![Engine][i].score = file[r.doc]]
      /\ Advance(s)
      /\ UNCHANGED <<interactive, q, hits, pc, batch, size, drained, queue,
                     stage, hEvent, file>>
  BY DEF Decrypt, FileOf, engineVars, handlerVars
<1>2. /\ i \in Remaining /\ Work' /\ Remaining' = Remaining \ {i}
      /\ busy' \subseteq Seq(Nat \ {0}) \ {<<>>} /\ Cardinality(busy') <= PoolSize
  BY <1>1, AdvanceTakesOne
<1>3. i \in 1 .. size /\ Concluding /\ pc \notin {"menu", "clear", "count"} /\ ~Measuring
  BY <1>1, <1>2 DEF Work, Decrypting, Concluding, Measuring
<1>4. /\ q \in Queries /\ Engine \in Queries
      /\ results[Engine] \in Seq(Results) /\ Len(results[Engine]) \in Nat
      /\ DOMAIN results[Engine] = 1 .. Len(results[Engine])
  BY <1>3, EngineTyped
<1>5. i \in 1 .. Len(results[Engine])
  <2>1. size \in Nat /\ size <= Len(results[Engine])
    BY <1>3 DEF Scores, TypeOK
  <2> QED BY <2>1, <1>3, <1>4
<1>6. /\ r \in Results /\ [doc |-> r.doc, from |-> r.from] \in Entered
      /\ r.doc \in Docs
  <2>1. r \in Results /\ [doc |-> r.doc, from |-> r.from] \in Entered
    BY <1>4, <1>5, ResultsEntered
  <2> QED BY <2>1 DEF Results
<1>7. file[r.doc] \in Queries \cup {NoScore}
  BY <1>1, <1>6 DEF TypeOK, NoFile, NoScore
<1> DEFINE n == [r EXCEPT !.score = file[r.doc]]
<1>8. n \in Results /\ n.doc = r.doc /\ n.from = r.from /\ n.score = file[r.doc]
  BY <1>6, <1>7 DEF Results
<1>9. results \in [Queries -> Seq(Results)]
  BY DEF TypeOK
<1>10. /\ results'[Engine] = [results[Engine] EXCEPT ![i] = n]
       /\ \A e \in Queries : e # Engine => results'[e] = results[e]
       /\ DOMAIN results' = Queries
  BY <1>1, <1>4, <1>9
<1>11. results' = [results EXCEPT ![Engine] = [results[Engine] EXCEPT ![i] = n]]
  BY <1>1
<1> HIDE DEF i, r, n
<1>12. /\ results'[Engine] \in Seq(Results)
       /\ Len(results'[Engine]) = Len(results[Engine])
       /\ \A j \in 1 .. Len(results[Engine]) :
            results'[Engine][j] = IF j = i THEN n ELSE results[Engine][j]
  BY <1>4, <1>5, <1>8, <1>10, ExceptSeq
<1>13. results' \in [Queries -> Seq(Results)]
  BY <1>4, <1>9, <1>11, <1>12
<1>14. \A e \in Queries : DOMAIN results'[e] = DOMAIN results[e]
  BY <1>4, <1>10, <1>12, LenProperties
<1>15. \A e \in Queries : \A j \in DOMAIN results[e] :
         /\ results'[e][j].doc = results[e][j].doc
         /\ results'[e][j].from = results[e][j].from
         /\ e # Engine \/ j # i => results'[e][j] = results[e][j]
  <2> SUFFICES ASSUME NEW e \in Queries, NEW j \in DOMAIN results[e]
               PROVE  /\ results'[e][j].doc = results[e][j].doc
                      /\ results'[e][j].from = results[e][j].from
                      /\ e # Engine \/ j # i => results'[e][j] = results[e][j]
    OBVIOUS
  <2>1. CASE e = Engine /\ j = i
    BY <2>1, <1>4, <1>5, <1>8, <1>12 DEF r
  <2>2. CASE e # Engine
    BY <2>2, <1>10
  <2>3. CASE e = Engine /\ j # i
    BY <2>3, <1>4, <1>12
  <2> QED BY <2>1, <2>2, <2>3
<1>16. Entered' = Entered
  BY <1>14, <1>15 DEF Entered
<1>17. file[r.doc] = FileOf(i) /\ results'[Engine][i].score = file[r.doc]
  BY <1>4, <1>5, <1>8, <1>12 DEF FileOf, r
<1>18. i \in DOMAIN results[Engine]
  BY <1>4, <1>5
<1> QED BY <1>1, <1>2, <1>3, <1>4, <1>7, <1>12, <1>13, <1>14, <1>15, <1>16, <1>17, <1>18 DEF i

\* The result has its score now.
LEMMA DecryptStep ==
  ASSUME IInv, NEW s \in busy, Decrypt(s)
  PROVE  IInv'
<1> USE DEF IInv
<1> DEFINE i == s[1]
           r == results[Engine][i]
<1>1. /\ Decrypting /\ Concluding /\ pc \notin {"menu", "clear", "count"} /\ ~Measuring
      /\ UNCHANGED <<interactive, q, hits, pc, batch, size, drained, queue,
                     stage, hEvent, file>>
      /\ i \in Remaining /\ Work' /\ Remaining' = Remaining \ {i}
      /\ busy' \subseteq Seq(Nat \ {0}) \ {<<>>} /\ Cardinality(busy') <= PoolSize
      /\ i \in 1 .. size /\ i \in DOMAIN results[Engine]
      /\ q \in Queries /\ Engine \in Queries
      /\ Len(results'[Engine]) = Len(results[Engine])
      /\ results' \in [Queries -> Seq(Results)]
      /\ \A e \in Queries : DOMAIN results'[e] = DOMAIN results[e]
      /\ \A e \in Queries : \A j \in DOMAIN results[e] :
           /\ results'[e][j].doc = results[e][j].doc
           /\ results'[e][j].from = results[e][j].from
           /\ e # Engine \/ j # i => results'[e][j] = results[e][j]
      /\ FileOf(i) \in Queries \cup {NoScore}
      /\ results'[Engine][i].score = FileOf(i)
      /\ Entered' = Entered
  BY DecryptEffect
<1>2. /\ [doc |-> r.doc, from |-> r.from] \in Entered
      /\ results[Engine] \in Seq(Results) /\ Len(results[Engine]) \in Nat
      /\ DOMAIN results[Engine] = 1 .. Len(results[Engine])
  BY <1>1, ResultsEntered, EngineTyped
<1>3. TypeOK'
  BY <1>1 DEF TypeOK
<1> HIDE DEF i, r
<1>4. Held' = Held /\ Queued' = Queued /\ Coming' = Coming /\ Engine' = Engine
  BY <1>1 DEF Held, Queued, Coming, Engine, EngineOf
<1>5. Order'
  BY <1>1, <1>4 DEF Order
<1>6. Unique'
  <2>1. \A e \in Queries : \A j, k \in DOMAIN results'[e] :
          /\ results'[e][j].doc = results'[e][k].doc
          /\ results'[e][j].from = results'[e][k].from
          => j = k
    BY <1>1 DEF Unique
  <2>2. ASSUME NEW e \in Queries, NEW j \in DOMAIN results'[e]
        PROVE  e = EngineOf(results'[e][j].from)
    <3>1. j \in DOMAIN results[e] /\ results'[e][j].from = results[e][j].from
      BY <1>1
    <3> QED BY <3>1 DEF Unique
  <2>3. IsInjective(queue') /\ Held' \cap Queued' = {} /\ Entered' \cap Coming' = {}
    BY <1>1, <1>4 DEF Unique
  <2> QED BY <2>1, <2>2, <2>3, <1>1 DEF Unique, EngineOf
<1>7. Account'
  BY <1>1, <1>4 DEF Account, Measuring, Concluding, Event
<1>8. Files'
  BY <1>1 DEF Files
<1>9. Scores'
  <2>1. size <= Len(results'[Engine])
    BY <1>1 DEF Scores
  <2>2. ASSUME NEW j \in 1 .. size, results'[Engine][j].from = q
        PROVE  j \in Remaining' \/ results'[Engine][j].score = q
    <3>1. size \in Nat /\ size <= Len(results[Engine])
      BY <1>1 DEF Scores, TypeOK
    <3>2. j \in DOMAIN results[Engine]
      BY <3>1, <1>2
    <3>3. CASE j = i
      <4>1. r.from = q
        BY <2>2, <3>2, <3>3, <1>1 DEF r
      <4>2. FileOf(i) = q
        BY <4>1, <1>2 DEF Files, FileOf, r
      <4> QED BY <4>2, <3>3, <1>1
    <3>4. CASE j # i
      BY <2>2, <3>2, <3>4, <1>1 DEF Scores
    <3> QED BY <3>3, <3>4
  <2> QED BY <2>1, <2>2, <1>1, <1>4 DEF Scores
<1>10. Drained'
  BY <1>1, <1>4 DEF Drained, Measuring, Concluding, Pending
<1>11. Begun' /\ Own'
  BY <1>1 DEF Begun, Own
<1> QED BY <1>1, <1>3, <1>5, <1>6, <1>7, <1>8, <1>9, <1>10, <1>11

\* The archive throws only when engines are shared and something was pending.
LEMMA DecryptThrowsStep ==
  ASSUME IInv, NEW s \in busy, DecryptThrows(s)
  PROVE  IInv'
<1> USE DEF IInv
<1>1. /\ Decrypting /\ FileOf(s[1]) = Torn /\ pc' = "terminated"
      /\ UNCHANGED <<interactive, q, hits, batch, size, drained, busy, queue,
                     stage, hEvent, file, results>>
  BY DEF DecryptThrows, handlerVars
<1>2. s[1] \in 1 .. size /\ Concluding /\ pc # "menu" /\ ~Measuring
  <2>1. s \in Seq(Nat \ {0}) /\ s # <<>>
    BY DEF TypeOK
  <2>2. 1 \in DOMAIN s
    BY <2>1, TailRange
  <2>3. s[1] \in Remaining
    BY <2>2 DEF Remaining, InWork, Range
  <2> QED BY <2>3, <1>1 DEF Work, Decrypting, Concluding, Measuring
<1> DEFINE r == results[Engine][s[1]]
           x == [doc |-> r.doc, from |-> r.from]
<1>3. Engine \in Queries /\ s[1] \in DOMAIN results[Engine] /\ q \in Queries
  <2>1. /\ Engine \in Queries /\ q \in Queries /\ Len(results[Engine]) \in Nat
        /\ DOMAIN results[Engine] = 1 .. Len(results[Engine])
    BY <1>2, EngineTyped
  <2>2. size \in Nat /\ size <= Len(results[Engine])
    BY <1>2 DEF Scores, TypeOK
  <2> QED BY <2>1, <2>2, <1>2
<1>4. x \in Entered /\ r.doc \in Docs
  BY <1>3, ResultsEntered DEF Results
<1>5. stage = "writing" /\ hEvent.doc = r.doc
  BY <1>1, <1>4 DEF Files, FileOf
<1>6. ~drained
  BY <1>2, <1>5 DEF Drained, Pending
<1>7. ~interactive
  <2> SUFFICES ASSUME interactive PROVE FALSE
    OBVIOUS
  <2>1. x.from = q
    BY <1>3 DEF Unique, EngineOf, Engine
  <2> QED BY <2>1, <1>4, <1>5, HandlerElsewhere
<1>8. TypeOK'
  BY <1>1 DEF TypeOK
<1>9. Work'
  BY <1>1 DEF Work, Later, InWork, HandingOver, Measuring, Decrypting, Running
<1>10. Order' /\ Unique' /\ Files'
  BY <1>1, EventsUnchanged
<1>11. Account' /\ Scores' /\ Drained' /\ Own' /\ Begun'
  BY <1>1, <1>3, <1>6, <1>7 DEF Account, Scores, Drained, Own, Begun, Measuring, Concluding
<1> QED BY <1>8, <1>9, <1>10, <1>11

-----------------------------------------------------------------------------
(* The steps of the handler.                                               *)

\* The oldest event passes into the hand of the handler.
LEMMA DequeueStep ==
  ASSUME IInv, Dequeue
  PROVE  IInv'
<1> USE DEF IInv
<1>1. /\ stage = "idle" /\ queue # <<>>
      /\ hEvent' = Head(queue) /\ queue' = Tail(queue) /\ stage' = "write"
      /\ UNCHANGED <<interactive, q, hits, pc, batch, size, drained, busy,
                     results, file>>
  BY DEF Dequeue, engineVars
<1> DEFINE x == Head(queue)
<1>2. /\ x \in Events /\ x = queue[1] /\ 1 \in DOMAIN queue
      /\ queue' \in Seq(Events) /\ Len(queue) \in Nat \ {0}
      /\ Len(queue') = Len(queue) - 1
      /\ DOMAIN queue' = 1 .. Len(queue) - 1 /\ DOMAIN queue = 1 .. Len(queue)
      /\ \A i \in DOMAIN queue' : queue'[i] = queue[i + 1]
      /\ Range(queue) = Range(queue') \cup {x}
      /\ IsInjective(queue) => IsInjective(queue') /\ x \notin Range(queue')
  <2>1. queue \in Seq(Events)
    BY DEF TypeOK
  <2> QED BY <1>1, <2>1, TailRange
<1> HIDE DEF x
<1>3. TypeOK'
  <2>1. Len(queue') <= Max
    BY <1>2, CapacityAssumption DEF TypeOK
  <2> QED BY <1>1, <1>2, <2>1 DEF TypeOK, x
<1>4. Work' /\ Remaining' = Remaining
  BY <1>1, BatchUnchanged
<1>5. /\ Held = {} /\ Held' = {x} /\ Queued = Queued' \cup {x}
      /\ x \notin Queued' /\ Coming' = Coming /\ IsInjective(queue')
  BY <1>1, <1>2 DEF Held, Queued, Coming, Unique, x
<1>6. Entered' = Entered
  BY <1>1 DEF Entered
<1>7. Order'
  <2>1. \A i, j \in DOMAIN queue' : i < j => queue'[i].from <= queue'[j].from
    <3> SUFFICES ASSUME NEW i \in DOMAIN queue', NEW j \in DOMAIN queue', i < j
                 PROVE  queue'[i].from <= queue'[j].from
      OBVIOUS
    <3>1. i + 1 \in DOMAIN queue /\ j + 1 \in DOMAIN queue /\ i + 1 < j + 1
      BY <1>2
    <3> QED BY <3>1, <1>2 DEF Order
  <2>2. \A y \in Queued' : x.from <= y.from
    <3> SUFFICES ASSUME NEW i \in DOMAIN queue' PROVE x.from <= queue'[i].from
      BY DEF Queued, Range
    <3>1. i + 1 \in DOMAIN queue /\ 1 < i + 1
      BY <1>2
    <3> QED BY <3>1, <1>2 DEF Order
  <2> QED BY <2>1, <2>2, <1>1, <1>5, <1>6 DEF Order
<1>8. Unique'
  BY <1>1, <1>5, <1>6 DEF Unique, EngineOf
<1>9. Account'
  BY <1>1, <1>4, <1>5, <1>6 DEF Account, Measuring, Concluding, Event
<1>10. Files'
  BY <1>1, <1>6 DEF Files
<1>11. Engine' = Engine
  BY <1>1 DEF Engine, EngineOf
<1>12. Scores'
  BY <1>1, <1>4, <1>11 DEF Scores, Concluding
<1>13. Pending
  BY <1>1 DEF Pending
<1>14. Drained' /\ Begun' /\ Own'
  BY <1>1, <1>5, <1>11, <1>13 DEF Drained, Begun, Own, Measuring, Concluding
<1> QED BY <1>3, <1>4, <1>7, <1>8, <1>9, <1>10, <1>12, <1>14

\* The file of a document is written.
LEMMA WriteStep ==
  ASSUME IInv, OpenScores \/ WriteScores
  PROVE  IInv'
<1> USE DEF IInv
<1>1. /\ \/ stage = "write" /\ stage' = "writing" /\ file' = [file EXCEPT ![hEvent.doc] = Torn]
         \/ stage = "writing" /\ stage' = "add" /\ file' = [file EXCEPT ![hEvent.doc] = hEvent.from]
      /\ UNCHANGED <<interactive, q, hits, pc, batch, size, drained, busy,
                     queue, hEvent, results>>
  BY DEF OpenScores, WriteScores, engineVars
<1>2. hEvent \in Events /\ hEvent.doc \in Docs /\ hEvent.from \in Queries
  BY <1>1, EventsTyped DEF TypeOK
<1>3. hEvent.from # Torn
  BY <1>2, BoundsAssumption DEF Torn, Queries
<1>4. TypeOK'
  BY <1>1, <1>2 DEF TypeOK
<1>5. Work' /\ Remaining' = Remaining
  BY <1>1, BatchUnchanged
<1>6. Held' = Held /\ Queued' = Queued /\ Coming' = Coming /\ Entered' = Entered
  BY <1>1 DEF Held, Queued, Coming, Entered
<1>7. Order' /\ Unique'
  BY <1>1, <1>6 DEF Order, Unique, EngineOf
<1>8. Account'
  BY <1>1, <1>5, <1>6 DEF Account, Measuring, Concluding, Event
<1>9. file \in [Docs -> Queries \cup {NoFile, Torn}]
  BY DEF TypeOK
<1>10. \A d \in Docs : d # hEvent.doc => file'[d] = file[d]
  BY <1>1, <1>9
<1>11. Files'
  <2>1. \A d \in Docs : file'[d] = Torn => stage' = "writing" /\ hEvent'.doc = d
    BY <1>1, <1>2, <1>3, <1>9, <1>10 DEF Files
  <2>2. stage' = "add" => file'[hEvent'.doc] = hEvent'.from
    BY <1>1, <1>2, <1>9
  <2>3. ASSUME NEW r \in Entered, r.from = q PROVE file'[r.doc] = q
    <3>1. r.doc # hEvent.doc /\ r.doc \in Docs
      BY <1>1, <2>3, HandlerElsewhere, EventsTyped
    <3> QED BY <3>1, <2>3, <1>10 DEF Files
  <2> QED BY <2>1, <2>2, <2>3, <1>1, <1>6 DEF Files
<1>12. Engine' = Engine
  BY <1>1 DEF Engine, EngineOf
<1>13. Scores'
  BY <1>1, <1>5, <1>12 DEF Scores, Concluding
<1>14. Pending
  BY <1>1 DEF Pending
<1>15. Drained' /\ Begun' /\ Own'
  BY <1>1, <1>6, <1>12, <1>14 DEF Drained, Begun, Own, Measuring, Concluding
<1> QED BY <1>4, <1>5, <1>7, <1>8, <1>11, <1>13, <1>15

\* The event in the hand of the handler becomes the last result of its engine.
LEMMA AddResultEffect ==
  ASSUME IInv, AddResult
  PROVE  LET x   == hEvent
             e   == EngineOf(hEvent.from)
             n   == [doc |-> hEvent.doc, from |-> hEvent.from, score |-> NoScore]
             old == results[e]
         IN  /\ stage = "add" /\ stage' = "idle"
             /\ results' = [results EXCEPT ![e] = Append(old, n)]
             /\ UNCHANGED <<interactive, q, hits, pc, batch, size, drained, busy,
                            queue, file>>
             /\ x \in Events /\ x.doc \in Docs /\ x.from \in Queries /\ e \in Queries
             /\ n \in Results /\ n.doc = x.doc /\ n.from = x.from
             /\ results \in [Queries -> Seq(Results)] /\ old \in Seq(Results)
             /\ results'[e] = Append(old, n)
             /\ \A k \in Queries : k # e => results'[k] = results[k]
             /\ Append(old, n) \in Seq(Results) /\ Len(Append(old, n)) = Len(old) + 1
             /\ DOMAIN Append(old, n) = 1 .. Len(old) + 1 /\ DOMAIN old = 1 .. Len(old)
             /\ \A i \in DOMAIN old : Append(old, n)[i] = old[i]
             /\ Append(old, n)[Len(old) + 1] = n
             /\ Len(old) \in Nat
             /\ \A i \in DOMAIN results'[e] : i \in DOMAIN old \/ i = Len(old) + 1
             /\ Held = {x} /\ Held' = {} /\ Queued' = Queued /\ Coming = Coming' \cup {x}
             /\ Coming' = Queued /\ x \notin Queued
             /\ Entered' = Entered \cup {x}
             /\ x \notin Entered /\ \A y \in Queued : x.from <= y.from
<1> USE DEF IInv
<1> DEFINE x == hEvent
           e == EngineOf(hEvent.from)
           n == [doc |-> hEvent.doc, from |-> hEvent.from, score |-> NoScore]
           old == results[e]
<1>1. /\ stage = "add" /\ stage' = "idle"
      /\ results' = [results EXCEPT ![e] = Append(old, n)]
      /\ UNCHANGED <<interactive, q, hits, pc, batch, size, drained, busy,
                     queue, file>>
  BY DEF AddResult, engineVars
<1>2. x \in Events /\ x.doc \in Docs /\ x.from \in Queries
  BY <1>1, EventsTyped DEF TypeOK
<1>3. e \in Queries
  BY <1>2, BoundsAssumption DEF EngineOf, Queries
<1>4. n \in Results /\ n.doc = x.doc /\ n.from = x.from
  BY <1>2 DEF Results
<1>5. results \in [Queries -> Seq(Results)] /\ old \in Seq(Results)
  BY <1>3 DEF TypeOK
<1>6. /\ results'[e] = Append(old, n)
      /\ \A k \in Queries : k # e => results'[k] = results[k]
  BY <1>1, <1>3, <1>5
<1> HIDE DEF e, n, old
<1>7. /\ Append(old, n) \in Seq(Results) /\ Len(Append(old, n)) = Len(old) + 1
      /\ DOMAIN Append(old, n) = 1 .. Len(old) + 1 /\ DOMAIN old = 1 .. Len(old)
      /\ \A i \in DOMAIN old : Append(old, n)[i] = old[i]
      /\ Append(old, n)[Len(old) + 1] = n
      /\ Len(old) \in Nat
  BY <1>4, <1>5, AppendRange, LenProperties
<1>8. \A i \in DOMAIN results'[e] : i \in DOMAIN old \/ i = Len(old) + 1
  BY <1>6, <1>7
<1>9. Held = {x} /\ Held' = {} /\ Queued' = Queued /\ Coming = Coming' \cup {x}
       /\ Coming' = Queued /\ x \notin Queued
  BY <1>1 DEF Held, Queued, Coming, Unique
<1>10. Entered' = Entered \cup {x}
  <2>1. ASSUME NEW y \in Entered' PROVE y \in Entered \cup {x}
    <3>1. y \in Events
      BY DEF Entered
    <3>2. PICK k \in Queries : \E i \in DOMAIN results'[k] :
            results'[k][i].doc = y.doc /\ results'[k][i].from = y.from
      BY DEF Entered
    <3>3. PICK i \in DOMAIN results'[k] :
            results'[k][i].doc = y.doc /\ results'[k][i].from = y.from
      BY <3>2
    <3>4. CASE k = e /\ i = Len(old) + 1
      BY <3>1, <3>3, <3>4, <1>2, <1>4, <1>6, <1>7, EventsTyped
    <3>5. CASE k = e /\ i \in DOMAIN old
      BY <3>1, <3>3, <3>5, <1>6, <1>7 DEF Entered, old
    <3>6. CASE k # e
      BY <3>1, <3>3, <3>6, <1>6 DEF Entered
    <3> QED BY <3>4, <3>5, <3>6, <1>8
  <2>2. ASSUME NEW y \in Entered PROVE y \in Entered'
    <3>1. y \in Events
      BY DEF Entered
    <3>2. PICK k \in Queries : \E i \in DOMAIN results[k] :
            results[k][i].doc = y.doc /\ results[k][i].from = y.from
      BY DEF Entered
    <3>3. PICK i \in DOMAIN results[k] :
            results[k][i].doc = y.doc /\ results[k][i].from = y.from
      BY <3>2
    <3>4. i \in DOMAIN results'[k] /\ results'[k][i] = results[k][i]
      <4>1. CASE k = e
        BY <4>1, <1>6, <1>7 DEF old
      <4>2. CASE k # e
        BY <4>2, <1>6
      <4> QED BY <4>1, <4>2
    <3> QED BY <3>1, <3>3, <3>4 DEF Entered
  <2>3. x \in Entered'
    <3>1. Len(old) + 1 \in DOMAIN results'[e] /\ results'[e][Len(old) + 1] = n
      BY <1>6, <1>7
    <3> QED BY <3>1, <1>2, <1>3, <1>4 DEF Entered
  <2> QED BY <2>1, <2>2, <2>3
<1>11. x \notin Entered /\ \A y \in Queued : x.from <= y.from
  BY <1>9 DEF Unique, Order
<1> QED BY <1>1, <1>2, <1>3, <1>4, <1>5, <1>6, <1>7, <1>8, <1>9, <1>10, <1>11 DEF e, n, old

\* The result is one more of its query, and in its engine.
LEMMA AddResultStep ==
  ASSUME IInv, AddResult
  PROVE  IInv'
<1> USE DEF IInv
<1> DEFINE x == hEvent
           e == EngineOf(hEvent.from)
           n == [doc |-> hEvent.doc, from |-> hEvent.from, score |-> NoScore]
           old == results[e]
<1>1. /\ stage = "add" /\ stage' = "idle"
      /\ results' = [results EXCEPT ![e] = Append(old, n)]
      /\ UNCHANGED <<interactive, q, hits, pc, batch, size, drained, busy,
                     queue, file>>
  BY AddResultEffect
<1>2. x \in Events /\ x.doc \in Docs /\ x.from \in Queries
  BY AddResultEffect
<1>3. e \in Queries
  BY AddResultEffect
<1>4. n \in Results /\ n.doc = x.doc /\ n.from = x.from
  BY AddResultEffect
<1>5. results \in [Queries -> Seq(Results)] /\ old \in Seq(Results)
  BY AddResultEffect
<1>6. /\ results'[e] = Append(old, n)
      /\ \A k \in Queries : k # e => results'[k] = results[k]
  BY AddResultEffect
<1>7. /\ Append(old, n) \in Seq(Results) /\ Len(Append(old, n)) = Len(old) + 1
      /\ DOMAIN Append(old, n) = 1 .. Len(old) + 1 /\ DOMAIN old = 1 .. Len(old)
      /\ \A i \in DOMAIN old : Append(old, n)[i] = old[i]
      /\ Append(old, n)[Len(old) + 1] = n
      /\ Len(old) \in Nat
  BY AddResultEffect
<1>8. \A i \in DOMAIN results'[e] : i \in DOMAIN old \/ i = Len(old) + 1
  BY AddResultEffect
<1>11. Held = {x} /\ Held' = {} /\ Queued' = Queued /\ Coming = Coming' \cup {x}
       /\ Coming' = Queued /\ x \notin Queued
  BY AddResultEffect
<1>12. Entered' = Entered \cup {x}
  BY AddResultEffect
<1>13. x \notin Entered /\ \A y \in Queued : x.from <= y.from
  BY AddResultEffect
<1> HIDE DEF e, n, old
<1>9. TypeOK'
  <2>1. results' \in [Queries -> Seq(Results)]
    BY <1>1, <1>3, <1>5, <1>7
  <2> QED BY <1>1, <2>1 DEF TypeOK
<1>10. Work' /\ Remaining' = Remaining
  BY <1>1, BatchUnchanged
<1>14. Order'
  <2>1. \A i, j \in DOMAIN queue' : i < j => queue'[i].from <= queue'[j].from
    BY <1>1 DEF Order
  <2>2. \A r \in Entered', y \in Coming' : r.from <= y.from
    BY <1>11, <1>12, <1>13 DEF Order
  <2>3. Entered' \cup Coming' = Entered \cup Coming
    BY <1>11, <1>12
  <2>4. \A y \in Entered \cup Coming :
          y.from <= q /\ (pc = "clear" => y.from < q) /\ (y.from = q => y.doc \in hits)
    BY DEF Order
  <2> QED BY <2>1, <2>2, <2>3, <2>4, <1>1, <1>11 DEF Order
<1>15. Unique'
  <2>1. IsInjective(queue') /\ Held' \cap Queued' = {} /\ Entered' \cap Coming' = {}
    BY <1>1, <1>11, <1>12, <1>13 DEF Unique
  <2>2. ASSUME NEW k \in Queries, NEW i \in DOMAIN results'[k], NEW j \in DOMAIN results'[k],
               results'[k][i].doc = results'[k][j].doc,
               results'[k][i].from = results'[k][j].from
        PROVE  i = j
    <3>1. CASE k # e
      BY <2>2, <3>1, <1>6 DEF Unique
    <3>2. CASE k = e
      <4>1. \A a \in DOMAIN old : ~(old[a].doc = x.doc /\ old[a].from = x.from)
        BY <1>2, <1>3, <1>13 DEF Entered, old
      <4>2. CASE i \in DOMAIN old /\ j \in DOMAIN old
        BY <2>2, <3>2, <4>2, <1>3, <1>6, <1>7 DEF Unique, old
      <4>3. CASE i \in DOMAIN old /\ j = Len(old) + 1
        BY <2>2, <3>2, <4>1, <4>3, <1>4, <1>6, <1>7
      <4>4. CASE i = Len(old) + 1 /\ j \in DOMAIN old
        BY <2>2, <3>2, <4>1, <4>4, <1>4, <1>6, <1>7
      <4> QED BY <3>2, <4>2, <4>3, <4>4, <1>8
    <3> QED BY <3>1, <3>2
  <2>3. ASSUME NEW k \in Queries, NEW i \in DOMAIN results'[k]
        PROVE  k = EngineOf(results'[k][i].from)
    <3>1. CASE k # e
      BY <3>1, <1>6 DEF Unique
    <3>2. CASE k = e /\ i \in DOMAIN old
      BY <3>2, <1>3, <1>6, <1>7 DEF Unique, old
    <3>3. CASE k = e /\ i = Len(old) + 1
      BY <3>3, <1>4, <1>6, <1>7 DEF e
    <3> QED BY <3>1, <3>2, <3>3, <1>8
  <2> QED BY <2>1, <2>2, <2>3, <1>1 DEF Unique, EngineOf
<1>16. Account'
  <2>1. Entered' \cup Coming' = Entered \cup Coming
    BY <1>11, <1>12
  <2> QED BY <2>1, <1>1, <1>10 DEF Account, Measuring, Concluding, Event
<1>17. Files'
  BY <1>1, <1>12 DEF Files
<1>18. Engine' = Engine /\ (pc # "menu" => Engine \in Queries)
  BY <1>1, EngineTyped DEF Engine, EngineOf
<1>19. Scores'
  <2> SUFFICES ASSUME Concluding
               PROVE  /\ size <= Len(results'[Engine])
                      /\ \A i \in 1 .. size : results'[Engine][i].from = q =>
                           i \in Remaining \/ results'[Engine][i].score = q
    BY <1>1, <1>10, <1>18 DEF Scores, Concluding
  <2>1. Engine \in Queries /\ size \in Nat
    BY <1>18 DEF Concluding, TypeOK
  <2>2. CASE Engine # e
    BY <2>1, <2>2, <1>6 DEF Scores
  <2>3. CASE Engine = e
    <3>1. size <= Len(old) /\ \A i \in 1 .. size : old[i].from = q => i \in Remaining \/ old[i].score = q
      BY <2>3 DEF Scores, old
    <3>2. \A i \in 1 .. size : i \in DOMAIN old
      BY <2>1, <3>1, <1>7
    <3> QED BY <2>1, <2>3, <3>1, <3>2, <1>6, <1>7
  <2> QED BY <2>2, <2>3
<1>20. Drained'
  <2> SUFFICES ASSUME drained PROVE Drained'
    BY <1>1 DEF Drained
  <2>1. Pending
    BY <1>1 DEF Pending
  <2>2. Measuring
    BY <2>1 DEF Drained
  <2>3. x.from = q /\ \A y \in Coming' : y.from = q
    BY <2>2, <1>11 DEF Drained
  <2>4. e = Engine
    BY <2>3 DEF e, Engine
  <2>5. \A i \in DOMAIN old : old[i].from = q
    BY <2>2, <2>4 DEF Drained, old
  <2>6. \A i \in DOMAIN results'[Engine] : results'[Engine][i].from = q
    BY <2>3, <2>4, <2>5, <1>4, <1>6, <1>7, <1>8
  <2> QED BY <2>2, <2>3, <2>6, <1>1, <1>18 DEF Drained, Measuring, Concluding
<1>21. Begun' /\ Own'
  BY <1>1 DEF Begun, Own
<1> QED BY <1>9, <1>10, <1>14, <1>15, <1>16, <1>17, <1>19, <1>20, <1>21

-----------------------------------------------------------------------------
(* The theorems.                                                           *)

LEMMA StepIInv == IInv /\ [Next]_vars => IInv'
<1> SUFFICES ASSUME IInv, [Next]_vars PROVE IInv'
  OBVIOUS
<1>1. CASE Lookup \/ NothingFound
  BY <1>1, QueryBegins
<1>2. CASE MainNext
  BY <1>2, ClearKeeps, HandOverStep, AllHandedOverStep, MeasureBarrierStep,
     CountStep, BackToMenu DEF MainNext
<1>3. CASE WorkerNext
  BY <1>3, MeasureStep, DecryptStep, DecryptThrowsStep DEF WorkerNext
<1>4. CASE HandlerNext
  BY <1>4, DequeueStep, WriteStep, AddResultStep DEF HandlerNext
<1>5. CASE Ended \/ UNCHANGED vars
  <2>1. UNCHANGED <<interactive, q, hits, pc, batch, size, drained, busy, queue,
                    stage, hEvent, file, results>>
    BY <1>5 DEF Ended, vars, engineVars, handlerVars
  <2>2. TypeOK'
    BY <2>1 DEF IInv, TypeOK
  <2>3. Work' /\ Remaining' = Remaining
    BY <2>1, BatchUnchanged DEF IInv
  <2>4. Held' = Held /\ Queued' = Queued /\ Coming' = Coming /\ Entered' = Entered
        /\ Engine' = Engine
    BY <2>1 DEF Held, Queued, Coming, Entered, Engine, EngineOf
  <2>5. Order' /\ Unique' /\ Account' /\ Files'
    BY <2>1, <2>3, <2>4 DEF IInv, Order, Unique, EngineOf, Account, Measuring, Concluding, Event, Files
  <2>6. Scores' /\ Drained' /\ Own' /\ Begun'
    BY <2>1, <2>3, <2>4
    DEF IInv, Scores, Drained, Own, Begun, Measuring, Concluding, Pending
  <2> QED BY <2>2, <2>3, <2>5, <2>6 DEF IInv
<1> QED BY <1>1, <1>2, <1>3, <1>4, <1>5 DEF Next

THEOREM Invariant == Spec => []IInv
BY InitIInv, StepIInv, PTL DEF Spec

\* The state of a search has its type, whatever the number of documents and
\* queries, the pool and the queue: no more tasks than workers, and never more
\* events than the queue holds.
THEOREM TypeCorrect == Spec => []TypeOK
<1>1. IInv => TypeOK
  BY DEF IInv
<1> QED BY <1>1, Invariant, PTL

\* An event of the query is on its way exactly if Underway says so.
LEMMA UnderwayIsComing ==
  ASSUME TypeOK, NEW d
  PROVE  Underway(d) <=> Event(d) \in Coming
BY DEF Underway, Event, Coming, Held, Queued, Range

\* The results of the engine for the query, and the events entered for it.
LEMMA EntriesEntered ==
  ASSUME IInv, pc # "menu", NEW d \in Docs
  PROVE  Event(d) \in Entered <=> \E r \in Entries : r.doc = d /\ r.from = q
<1> USE DEF IInv
<1>1. Engine \in Queries /\ q \in Queries
  BY EngineTyped
<1>2. Event(d) \in Events
  BY <1>1 DEF Event, Events
<1>3. ASSUME Event(d) \in Entered PROVE \E r \in Entries : r.doc = d /\ r.from = q
  <2>1. PICK e \in Queries : \E i \in DOMAIN results[e] :
          results[e][i].doc = d /\ results[e][i].from = q
    BY <1>3 DEF Entered, Event
  <2>2. e = Engine
    BY <2>1 DEF Unique, Engine
  <2> QED BY <2>1, <2>2 DEF Entries
<1>4. ASSUME NEW r \in Entries, r.doc = d, r.from = q PROVE Event(d) \in Entered
  BY <1>1, <1>2, <1>4 DEF Entries, Entered, Event
<1> QED BY <1>3, <1>4

\* After the measurement every document found is a result or on its way to
\* become one, and none is there twice: nothing the workers measured is lost
\* between the pool, the queue and the list of results.
THEOREM NoResultLost == Spec => []ResultsAccounted
<1>1. IInv => ResultsAccounted
  <2> SUFFICES ASSUME IInv PROVE ResultsAccounted
    OBVIOUS
  <2>1. \A e \in Queries : \A i, j \in DOMAIN results[e] :
          /\ results[e][i].doc = results[e][j].doc
          /\ results[e][i].from = results[e][j].from
          => i = j
    BY DEF IInv, Unique
  <2>2. ASSUME pc \in {"count", "decrypt", "decrypting", "print"}, NEW d \in hits
        PROVE  Underway(d) # \E r \in Entries : r.doc = d /\ r.from = q
    <3>1. Event(d) \in Entered \cup Coming
      BY <2>2 DEF IInv, Account, Concluding
    <3>2. Entered \cap Coming = {}
      BY DEF IInv, Unique
    <3>3. TypeOK /\ d \in Docs /\ pc # "menu"
      BY <2>2 DEF IInv, TypeOK
    <3>4. Underway(d) <=> Event(d) \in Coming
      BY <3>3, UnderwayIsComing
    <3>5. Event(d) \in Entered <=> \E r \in Entries : r.doc = d /\ r.from = q
      BY <3>3, EntriesEntered
    <3> QED BY <3>1, <3>2, <3>4, <3>5
  <2> QED BY <2>1, <2>2 DEF ResultsAccounted
<1> QED BY <1>1, Invariant, PTL

\* A result of the query that was counted is printed with the scores of the
\* query, although the handler may be rewriting files all the time.
THEOREM ScoresAreFresh == Spec => []FreshScores
<1>1. IInv => FreshScores
  <2> SUFFICES ASSUME IInv, pc = "print", NEW i \in 1 .. size,
                      results[Engine][i].from = q
               PROVE  results[Engine][i].score = q
    BY DEF FreshScores
  <2>1. busy = {} /\ ~HandingOver
    BY DEF IInv, Work, Running, Measuring, Decrypting, HandingOver
  <2>2. Remaining = {}
    BY <2>1, NothingRemains
  <2> QED BY <2>2 DEF IInv, Scores, Concluding
<1> QED BY <1>1, Invariant, PTL

\* With an engine per query, or with nothing pending after the measurements,
\* a query prints its own results only and the program does not end in an
\* archive that throws.
THEOREM ResultsAreOwn == Spec => []OwnResults
<1>1. IInv => OwnResults
  <2> SUFFICES ASSUME IInv, interactive \/ drained
               PROVE  /\ pc # "terminated"
                      /\ pc = "print" => \A r \in Entries : r.from = q
    BY DEF OwnResults
  <2>1. pc # "terminated"
    BY DEF IInv, Own, Drained
  <2>2. ASSUME pc = "print", NEW r \in Entries PROVE r.from = q
    <3>1. PICK i \in DOMAIN results[Engine] : r = results[Engine][i]
      BY DEF Entries
    <3>2. CASE drained
      BY <2>2, <3>1, <3>2 DEF IInv, Drained, Concluding
    <3>3. CASE interactive
      <4>1. Engine \in Queries
        BY <2>2, EngineTyped DEF IInv
      <4> QED BY <3>1, <3>3, <4>1 DEF IInv, Unique, EngineOf, Engine
    <3> QED BY <3>2, <3>3
  <2> QED BY <2>1, <2>2
<1> QED BY <1>1, Invariant, PTL

\* With nothing pending after the measurement, exactly the documents found are
\* printed, each with its scores.
THEOREM ResultsAreExact == Spec => []ExactResults
<1>1. IInv => ExactResults
  <2> SUFFICES ASSUME IInv, pc = "print", drained
               PROVE  Entries = {[doc |-> d, from |-> q, score |-> q] : d \in hits}
    BY DEF ExactResults
  <2>1. /\ Engine \in Queries /\ q \in Queries
        /\ Len(results[Engine]) \in Nat
        /\ DOMAIN results[Engine] = 1 .. Len(results[Engine])
    BY EngineTyped DEF IInv
  <2>2. size = Len(results[Engine]) /\ \A i \in DOMAIN results[Engine] : results[Engine][i].from = q
    BY DEF IInv, Drained, Concluding
  <2>3. Remaining = {}
    <3>1. busy = {} /\ ~HandingOver
      BY DEF IInv, Work, Running, Measuring, Decrypting, HandingOver
    <3> QED BY <3>1, NothingRemains
  <2>4. \A i \in DOMAIN results[Engine] : results[Engine][i].score = q
    BY <2>1, <2>2, <2>3 DEF IInv, Scores, Concluding
  <2>5. ASSUME NEW r \in Entries
        PROVE  r \in {[doc |-> d, from |-> q, score |-> q] : d \in hits}
    <3>1. PICK i \in DOMAIN results[Engine] : r = results[Engine][i]
      BY DEF Entries
    <3>2. r \in Results /\ [doc |-> r.doc, from |-> r.from] \in Entered
      BY <3>1, <2>1, ResultsEntered DEF IInv
    <3>3. r.from = q /\ r.score = q
      BY <3>1, <2>2, <2>4
    <3>4. r.doc \in hits
      BY <3>2, <3>3 DEF IInv, Order
    <3>5. r = [doc |-> r.doc, from |-> q, score |-> q]
      BY <3>2, <3>3 DEF Results
    <3> QED BY <3>4, <3>5
  <2>6. ASSUME NEW d \in hits
        PROVE  [doc |-> d, from |-> q, score |-> q] \in Entries
    <3>1. ~Pending
      BY DEF IInv, Drained, Measuring
    <3>2. Coming = {}
      BY <3>1, EventsTyped DEF IInv
    <3>3. Event(d) \in Entered /\ d \in Docs
      BY <3>2 DEF IInv, Account, Concluding, TypeOK
    <3>4. PICK r \in Entries : r.doc = d /\ r.from = q
      BY <3>3, EntriesEntered
    <3>5. PICK i \in DOMAIN results[Engine] : r = results[Engine][i]
      BY DEF Entries
    <3>6. r \in Results /\ r.score = q
      BY <3>5, <2>1, <2>4, ResultsEntered DEF IInv
    <3>7. r = [doc |-> d, from |-> q, score |-> q]
      BY <3>4, <3>6 DEF Results
    <3> QED BY <3>7
  <2> QED BY <2>5, <2>6
<1> QED BY <1>1, Invariant, PTL

\* And main then has the vector of results for itself while it iterates over it.
THEOREM ResultsStayPut == Spec => MainOwnsResults
<1>1. IInv /\ [Next]_vars =>
        [drained /\ pc \in {"count", "decrypt", "decrypting", "print"} =>
           \A e \in Queries : Len(results'[e]) = Len(results[e])]_vars
  <2> SUFFICES ASSUME IInv, Next, drained,
                      pc \in {"count", "decrypt", "decrypting", "print"},
                      NEW e \in Queries
               PROVE  Len(results'[e]) = Len(results[e])
    BY DEF vars
  <2>1. ~Pending
    BY DEF IInv, Drained, Measuring
  <2>2. CASE UNCHANGED results
    BY <2>2
  <2>3. CASE AddResult
    BY <2>1, <2>3 DEF AddResult, Pending
  <2>4. CASE Clear
    BY <2>4 DEF Clear
  <2>5. ASSUME NEW s \in busy, Decrypt(s) PROVE Len(results'[e]) = Len(results[e])
    <3>1. results[e] \in Seq(Results) /\ Engine \in Queries
      BY EngineTyped DEF IInv, TypeOK
    <3>2. CASE e # Engine
      BY <2>5, <3>1, <3>2 DEF Decrypt, IInv, TypeOK
    <3>3. CASE e = Engine
      <4>1. results'[e] = [results[e] EXCEPT ![s[1]].score = FileOf(s[1])]
        BY <2>5, <3>1, <3>3 DEF Decrypt, IInv, TypeOK
      <4>2. DOMAIN results'[e] = DOMAIN results[e]
        BY <4>1
      <4>3. results'[e] \in Seq(Results)
        <5>1. IInv'
          BY <2>5, DecryptStep
        <5> QED BY <5>1 DEF IInv, TypeOK
      <4>4. /\ DOMAIN results[e] = 1 .. Len(results[e]) /\ Len(results[e]) \in Nat
            /\ DOMAIN results'[e] = 1 .. Len(results'[e]) /\ Len(results'[e]) \in Nat
        BY <3>1, <4>3, LenProperties
      <4> QED BY <4>2, <4>4
    <3> QED BY <3>2, <3>3
  <2>6. Lookup \/ NothingFound \/ HandOver \/ AllHandedOver \/ MeasureBarrier \/ Count
        \/ DecryptBarrier \/ PrintResults \/ Dequeue \/ OpenScores \/ WriteScores \/ Ended
        \/ (\E s \in busy : Measure(s) \/ DecryptThrows(s))
        => UNCHANGED results
    BY DEF Lookup, NothingFound, HandOver, AllHandedOver, MeasureBarrier, Count,
           DecryptBarrier, PrintResults, Dequeue, OpenScores, WriteScores, Ended,
           Measure, DecryptThrows, vars
  <2> QED
    BY <2>2, <2>3, <2>4, <2>5, <2>6 DEF Next, MainNext, WorkerNext, HandlerNext
<1> QED BY <1>1, Invariant, PTL DEF Spec, MainOwnsResults

-----------------------------------------------------------------------------
(* The search implements SearchService.                                    *)

\* A file has the scores of no query to come, and where a document has results
\* it has those of the latest or of a later one.
Follows ==
  /\ \A d \in Docs : file[d] <= q
  /\ \A r \in Entered : file[r.doc] # Torn => r.from <= file[r.doc]

\* It is inductive together with IInv: the handler writes what it enters next.
LEMMA StepFollows == IInv /\ Follows /\ [Next]_vars => Follows'
<1> SUFFICES ASSUME IInv, Follows, [Next]_vars PROVE Follows'
  OBVIOUS
<1> USE DEF IInv
<1>1. CASE UNCHANGED <<q, file, results>>
  <2>1. Entered' = Entered
    BY <1>1 DEF Entered
  <2> QED BY <1>1, <2>1 DEF Follows
<1>2. CASE Lookup \/ NothingFound
  <2>1. q' = q + 1 /\ file' = file /\ results' = results /\ q \in Nat
    BY <1>2 DEF Lookup, NothingFound, handlerVars, TypeOK
  <2>2. Entered' = Entered
    BY <2>1 DEF Entered
  <2>3. \A d \in Docs : file[d] \in Int
    BY BoundsAssumption DEF TypeOK, NoFile, Torn, Queries
  <2> QED BY <2>1, <2>2, <2>3 DEF Follows
<1>3. CASE Clear
  <2>1. /\ q' = q /\ file' = file /\ pc # "menu"
        /\ results' = [results EXCEPT ![Engine] = <<>>]
    BY <1>3 DEF Clear, handlerVars
  <2>2. Engine \in Queries /\ results \in [Queries -> Seq(Results)]
    BY <2>1, EngineTyped DEF TypeOK
  <2>3. \A e \in Queries : results'[e] = IF e = Engine THEN <<>> ELSE results[e]
    BY <2>1, <2>2
  <2>4. Entered' \subseteq Entered
    BY <2>3 DEF Entered
  <2> QED BY <2>1, <2>4 DEF Follows
<1>4. CASE OpenScores \/ WriteScores
  <2>1. /\ \/ file' = [file EXCEPT ![hEvent.doc] = Torn]
           \/ file' = [file EXCEPT ![hEvent.doc] = hEvent.from]
        /\ stage # "idle" /\ q' = q /\ results' = results
    BY <1>4 DEF OpenScores, WriteScores, engineVars
  <2>2. Entered' = Entered
    BY <2>1 DEF Entered
  <2>3. hEvent \in Coming /\ hEvent \in Events /\ hEvent.doc \in Docs
    BY <2>1, EventsTyped DEF Held, Coming
  <2>4. hEvent.from <= q /\ Torn <= q /\ \A r \in Entered : r.from <= hEvent.from
    BY <2>3 DEF Order, TypeOK, Torn
  <2>5. file \in [Docs -> Queries \cup {NoFile, Torn}] /\ \A r \in Entered : r.doc \in Docs
    BY EventsTyped DEF TypeOK
  <2>6. \A d \in Docs : file'[d] = file[d] \/ (d = hEvent.doc /\ file'[d] \in {Torn, hEvent.from})
    BY <2>1, <2>5
  <2>7. ASSUME NEW r \in Entered, file'[r.doc] # Torn PROVE r.from <= file'[r.doc]
    BY <2>4, <2>5, <2>6, <2>7 DEF Follows
  <2> QED BY <2>1, <2>2, <2>4, <2>6, <2>7 DEF Follows
<1>5. CASE AddResult
  <2>1. /\ stage = "add" /\ UNCHANGED <<q, file>> /\ Entered' = Entered \cup {hEvent}
        /\ hEvent.from \in Queries
    BY <1>5, AddResultEffect
  <2>2. file[hEvent.doc] = hEvent.from /\ hEvent.from <= hEvent.from
    BY <2>1, BoundsAssumption DEF Files, Queries
  <2> QED BY <2>1, <2>2 DEF Follows
<1>6. ASSUME NEW s \in busy, Decrypt(s) PROVE Follows'
  <2>1. UNCHANGED <<q, file>> /\ Entered' = Entered
    BY <1>6, DecryptEffect
  <2> QED BY <2>1 DEF Follows
<1>7. HandOver \/ AllHandedOver \/ MeasureBarrier \/ Count \/ DecryptBarrier \/ PrintResults
      \/ Dequeue \/ Ended \/ (\E s \in busy : Measure(s) \/ DecryptThrows(s)) \/ UNCHANGED vars
      => UNCHANGED <<q, file, results>>
  BY DEF HandOver, AllHandedOver, MeasureBarrier, Count, DecryptBarrier, PrintResults,
         Dequeue, Ended, Measure, DecryptThrows, vars, engineVars, handlerVars
<1> QED
  BY <1>1, <1>2, <1>3, <1>4, <1>5, <1>6, <1>7 DEF Next, MainNext, WorkerNext, HandlerNext

LEMMA Following == Spec => [](IInv /\ Follows)
<1>1. Init => Follows
  BY DEF Init, Follows, Entered, NoFile
<1> QED BY <1>1, InitIInv, StepIInv, StepFollows, PTL DEF Spec

\* The answers of all queries; every one has the key of an event entered.
LEMMA AnswersAre ==
  ASSUME IInv
  PROVE  /\ \A a : a \in AllResults <=> \E e \in Queries : \E i \in DOMAIN results[e] : a = results[e][i]
         /\ \A a \in AllResults : a \in Results /\ KeyOf(a) \in Entered
         /\ \A a, b \in AllResults : a.doc = b.doc /\ a.from = b.from => a = b
<1> USE DEF IInv
<1>1. \A a : a \in AllResults <=> \E e \in Queries : \E i \in DOMAIN results[e] : a = results[e][i]
  BY DEF AllResults, Range
<1>2. \A a \in AllResults : a \in Results /\ KeyOf(a) \in Entered
  BY <1>1, ResultsEntered DEF KeyOf
<1>3. ASSUME NEW a \in AllResults, NEW b \in AllResults, a.doc = b.doc, a.from = b.from
      PROVE  a = b
  <2>1. PICK e \in Queries : \E i \in DOMAIN results[e] : a = results[e][i]
    BY <1>1
  <2>2. PICK i \in DOMAIN results[e] : a = results[e][i]
    BY <2>1
  <2>3. PICK f \in Queries : \E j \in DOMAIN results[f] : b = results[f][j]
    BY <1>1
  <2>4. PICK j \in DOMAIN results[f] : b = results[f][j]
    BY <2>3
  <2>5. e = EngineOf(a.from) /\ f = EngineOf(b.from)
    BY <2>2, <2>4 DEF Unique
  <2>6. e = f /\ results[e][i].doc = results[e][j].doc /\ results[e][i].from = results[e][j].from
    BY <1>3, <2>2, <2>4, <2>5
  <2>7. i = j
    BY <2>6 DEF Unique
  <2> QED BY <2>2, <2>4, <2>6, <2>7
<1> QED BY <1>1, <1>2, <1>3

\* The list of the query is the one of its engine.
LEMMA ListIsOfEngine ==
  ASSUME IInv, pc # "menu"
  PROVE  Service!Listed = Range(results[Engine])
<1> USE DEF IInv
<1>1. Engine \in Queries /\ q \in Queries
  BY EngineTyped
<1>2. ASSUME NEW a \in AllResults, ~interactive \/ a.from = q
      PROVE  a \in Range(results[Engine])
  <2>1. PICK e \in Queries : \E i \in DOMAIN results[e] : a = results[e][i]
    BY AnswersAre
  <2>2. e = EngineOf(a.from)
    BY <2>1 DEF Unique
  <2>3. e = Engine
    BY <1>2, <2>2 DEF EngineOf, Engine
  <2> QED BY <2>1, <2>3 DEF Range
<1>3. ASSUME NEW i \in DOMAIN results[Engine]
      PROVE  /\ results[Engine][i] \in AllResults
             /\ ~interactive \/ results[Engine][i].from = q
  <2>1. Engine = EngineOf(results[Engine][i].from)
    BY <1>1 DEF Unique
  <2> QED BY <1>1, <2>1, AnswersAre DEF EngineOf, Engine
<1> QED BY <1>2, <1>3 DEF Service!Listed, Range

\* Steps of which the service knows nothing.
LEMMA Stutters ==
  ASSUME UNCHANGED <<interactive, q, hits, results>>,
         Coming' = Coming, Remaining' = Remaining, Phase' = Phase,
         pc' = "clear" <=> pc = "clear", Measuring' <=> Measuring, Decrypting' <=> Decrypting
  PROVE  UNCHANGED Service!vars
<1>1. AllResults' = AllResults /\ Engine' = Engine
  BY DEF AllResults, Engine, EngineOf
<1>2. ToSend' = ToSend /\ ToScore' = ToScore
  BY <1>1 DEF ToSend, ToScore
<1> QED BY <1>1, <1>2 DEF Service!vars

LEMMA InitRefines == Init => Service!Init
<1> SUFFICES ASSUME Init PROVE Service!Init
  OBVIOUS
<1>1. Coming = {} /\ AllResults = {}
  BY DEF Init, Coming, Held, Queued, AllResults, Range
<1>2. Phase = "idle" /\ ToSend = {} /\ ToScore = {}
  BY DEF Init, Phase, ToSend, ToScore, Measuring, Decrypting
<1> QED BY <1>1, <1>2 DEF Init, Service!Init

LEMMA QueryRefines ==
  ASSUME IInv, Lookup \/ NothingFound
  PROVE  \E found \in SUBSET Docs : Service!Ask(found)
<1>1. /\ pc = "menu" /\ q < NumQueries /\ q' = q + 1 /\ hits' \subseteq Docs
      /\ pc' = IF hits' = {} THEN "menu" ELSE "clear"
      /\ UNCHANGED <<interactive, queue, stage, hEvent, results>>
  BY DEF Lookup, NothingFound, handlerVars
<1>2. Coming' = Coming /\ AllResults' = AllResults
  BY <1>1 DEF Coming, Held, Queued, AllResults
<1>3. Phase = "idle" /\ Phase' = IF hits' = {} THEN "idle" ELSE "asked"
  BY <1>1 DEF Phase
<1>4. ToSend' = hits' /\ ToScore = {} /\ ToScore' = {}
  BY <1>1 DEF ToSend, ToScore, Measuring, Decrypting
<1>5. Service!Ask(hits')
  BY <1>1, <1>2, <1>3, <1>4 DEF Service!Ask
<1> QED BY <1>1, <1>5

\* The list is cleared, and all that was found is still to be sent.
LEMMA ClearRefines ==
  ASSUME IInv, Clear
  PROVE  Service!Begin
<1>1. /\ pc = "clear" /\ pc' = "measure" /\ batch' = 0
      /\ results' = [results EXCEPT ![Engine] = <<>>]
      /\ UNCHANGED <<interactive, q, hits, busy, queue, stage, hEvent>>
  BY DEF Clear, handlerVars
<1>2. IInv' /\ busy = {}
  BY <1>1, ClearKeeps DEF IInv, Work, Running, Measuring, Decrypting
<1>3. Remaining' = hits
  <2>1. TypeOK' /\ HandingOver' /\ batch' = 0 /\ busy' = {} /\ pc' = "measure" /\ hits' = hits
    BY <1>1, <1>2 DEF HandingOver, IInv
  <2>2. (TypeOK /\ HandingOver /\ batch = 0 /\ busy = {}
           => Work /\ Remaining = IF pc = "measure" THEN hits ELSE 1 .. size)'
    BY BatchBegins, PTL
  <2> QED BY <2>1, <2>2
<1>4. Phase = "asked" /\ Phase' = "measuring" /\ Coming' = Coming
  BY <1>1 DEF Phase, Coming, Held, Queued
<1>5. ToSend = hits /\ ToSend' = hits /\ ToScore = {} /\ ToScore' = {}
  BY <1>1, <1>3 DEF ToSend, ToScore, Measuring, Decrypting
<1>6. Service!Listed = Range(results[Engine])
  BY <1>1, ListIsOfEngine
<1>7. Engine \in Queries /\ results \in [Queries -> Seq(Results)]
  BY <1>1, EngineTyped DEF IInv, TypeOK
<1>8. \A e \in Queries : results'[e] = IF e = Engine THEN <<>> ELSE results[e]
  BY <1>1, <1>7
<1>9. ASSUME NEW a \in AllResults' PROVE a \in AllResults /\ a \notin Range(results[Engine])
  <2>1. PICK e \in Queries : e # Engine /\ a \in Range(results[e])
    BY <1>8 DEF AllResults, Range
  <2>2. PICK i \in DOMAIN results[e] : a = results[e][i]
    BY <2>1 DEF Range
  <2>3. ASSUME NEW j \in DOMAIN results[Engine] PROVE a # results[Engine][j]
    BY <1>7, <2>1, <2>2 DEF IInv, Unique
  <2> QED BY <2>1, <2>3 DEF AllResults, Range
<1>10. ASSUME NEW a \in AllResults, a \notin Range(results[Engine]) PROVE a \in AllResults'
  <2>1. PICK e \in Queries : a \in Range(results[e])
    BY DEF AllResults
  <2>2. e # Engine /\ results'[e] = results[e]
    BY <1>8, <1>10, <2>1
  <2> QED BY <2>1, <2>2 DEF AllResults
<1>11. AllResults' = AllResults \ Service!Listed
  BY <1>6, <1>9, <1>10
<1> QED BY <1>1, <1>4, <1>5, <1>11 DEF Service!Begin

\* Which worker has a document is nothing to the service.
LEMMA HandOverRefines ==
  ASSUME IInv, HandOver \/ AllHandedOver
  PROVE  UNCHANGED Service!vars
<1>1. /\ pc \in {"measure", "decrypt"}
      /\ \/ pc' = pc
         \/ pc' = IF pc = "measure" THEN "measuring" ELSE "decrypting"
      /\ UNCHANGED <<interactive, q, hits, queue, stage, hEvent, results>>
  BY DEF HandOver, AllHandedOver, handlerVars
<1>2. Remaining' = Remaining
  BY HandOverKeeps, AllHandedOverKeeps DEF IInv
<1>3. /\ Phase' = Phase /\ pc # "clear" /\ pc' # "clear"
      /\ (Measuring' <=> Measuring) /\ (Decrypting' <=> Decrypting)
  BY <1>1 DEF Phase, Measuring, Decrypting
<1>4. Coming' = Coming
  BY <1>1 DEF Coming, Held, Queued
<1> QED BY <1>1, <1>2, <1>3, <1>4, Stutters

\* When main stops waiting, all has been sent.
LEMMA MeasureBarrierRefines ==
  ASSUME IInv, MeasureBarrier
  PROVE  UNCHANGED Service!vars
<1>1. /\ pc = "measuring" /\ pc' = "count" /\ busy = {}
      /\ UNCHANGED <<interactive, q, queue, stage, hEvent, results>>
  BY DEF MeasureBarrier, handlerVars
<1>2. Remaining = {}
  BY <1>1, NothingRemains DEF HandingOver
<1>3. ToSend = {} /\ ToSend' = {} /\ ToScore = {} /\ ToScore' = {} /\ Phase' = Phase
  BY <1>1, <1>2 DEF ToSend, ToScore, Measuring, Decrypting, Phase
<1>4. Coming' = Coming /\ AllResults' = AllResults
  BY <1>1 DEF Coming, Held, Queued, AllResults
<1> QED BY <1>1, <1>3, <1>4 DEF Service!vars

\* The positions counted stand for the answers in the list.
LEMMA CountRefines ==
  ASSUME IInv, Count
  PROVE  Service!Take
<1>1. /\ pc = "count" /\ size' = Len(results[Engine]) /\ batch' = 0
      /\ pc' = IF size' = 0 THEN "menu" ELSE "decrypt"
      /\ UNCHANGED <<interactive, q, hits, busy, queue, stage, hEvent, results>>
  BY DEF Count, handlerVars
<1>2. /\ Engine \in Queries /\ Len(results[Engine]) \in Nat
      /\ DOMAIN results[Engine] = 1 .. Len(results[Engine]) /\ Engine' = Engine
  BY <1>1, EngineTyped DEF IInv, Engine, EngineOf
<1>3. IInv' /\ busy' = {}
  BY <1>1, CountStep DEF IInv, Work, Running, Measuring, Decrypting
<1>4. pc' = "decrypt" => Remaining' = DOMAIN results[Engine]
  <2>1. pc' = "decrypt" => TypeOK' /\ HandingOver' /\ batch' = 0 /\ busy' = {} /\ pc' # "measure"
    BY <1>1, <1>3 DEF HandingOver, IInv
  <2>2. (TypeOK /\ HandingOver /\ batch = 0 /\ busy = {}
           => Work /\ Remaining = IF pc = "measure" THEN hits ELSE 1 .. size)'
    BY BatchBegins, PTL
  <2> QED BY <2>1, <2>2, <1>1, <1>2
<1>5. Service!Listed = Range(results[Engine])
  BY <1>1, ListIsOfEngine
<1>6. Service!Listed = {} <=> size' = 0
  <2>1. Range(results[Engine]) = {results[Engine][i] : i \in 1 .. size'}
    BY <1>1, <1>2 DEF Range
  <2>2. size' \in Nat /\ (size' # 0 => 1 \in 1 .. size')
    BY <1>1, <1>2
  <2>3. size' # 0 => results[Engine][1] \in Range(results[Engine])
    BY <2>1, <2>2
  <2>4. size' = 0 => Range(results[Engine]) = {}
    BY <2>1
  <2> QED BY <1>5, <2>3, <2>4
<1>7. {Service!FindingOf(a) : a \in Service!Listed} = {KeyOf(results[Engine][i]) : i \in DOMAIN results[Engine]}
  BY <1>5 DEF Range, KeyOf, Service!FindingOf, Service!Finding
<1>8. ToScore' = {Service!FindingOf(a) : a \in Service!Listed}
  <2>1. CASE size' = 0
    BY <2>1, <1>1, <1>6 DEF ToScore, Decrypting
  <2>2. CASE size' # 0
    BY <2>2, <1>1, <1>2, <1>4, <1>7 DEF ToScore, Decrypting, KeyOf
  <2> QED BY <2>1, <2>2
<1>9. /\ Phase = "measuring" /\ Phase' = IF Service!Listed = {} THEN "idle" ELSE "scoring"
      /\ ToSend = {} /\ ToSend' = {}
  BY <1>1, <1>6 DEF Phase, ToSend, Measuring
<1>10. Coming' = Coming /\ AllResults' = AllResults
  BY <1>1 DEF Coming, Held, Queued, AllResults
<1> QED BY <1>1, <1>8, <1>9, <1>10 DEF Service!Take

\* When main stops waiting again, all has been scored.
LEMMA BackToMenuRefines ==
  ASSUME IInv, DecryptBarrier \/ PrintResults
  PROVE  Service!Show \/ Service!Return
<1>1. /\ UNCHANGED <<interactive, q, queue, stage, hEvent, results>>
      /\ \/ pc = "decrypting" /\ pc' = "print" /\ busy = {}
         \/ pc = "print" /\ pc' = "menu"
  BY DEF DecryptBarrier, PrintResults, handlerVars
<1>2. Coming' = Coming /\ AllResults' = AllResults /\ ToSend = {} /\ ToSend' = {} /\ ToScore' = {}
  BY <1>1 DEF Coming, Held, Queued, AllResults, ToSend, ToScore, Measuring, Decrypting
<1>3. CASE pc = "decrypting"
  <2>1. Remaining = {}
    BY <1>1, <1>3, NothingRemains DEF HandingOver
  <2>2. ToScore = {} /\ Phase = "scoring" /\ Phase' = "shown"
    BY <1>1, <1>3, <2>1 DEF ToScore, Phase
  <2> QED BY <1>1, <1>2, <2>2 DEF Service!Show
<1>4. CASE pc = "print"
  <2>1. ToScore = {} /\ Phase = "shown" /\ Phase' = "idle"
    BY <1>1, <1>4 DEF ToScore, Decrypting, Phase
  <2> QED BY <1>1, <1>2, <2>1 DEF Service!Return
<1> QED BY <1>1, <1>3, <1>4

\* A document measured is sent.
LEMMA MeasureRefines ==
  ASSUME IInv, NEW s \in busy, Measure(s)
  PROVE  \E d \in Docs : Service!Send(d)
<1> DEFINE d == s[1]
<1>1. /\ Running /\ ~Decrypting /\ queue' = Append(queue, [doc |-> d, from |-> q]) /\ Advance(s)
      /\ UNCHANGED <<interactive, q, hits, pc, batch, size, stage, hEvent, results>>
  BY DEF Measure, engineVars, handlerVars
<1>2. Measuring /\ Measuring'
  BY <1>1 DEF IInv, Work, Measuring
<1>3. d \in Remaining /\ Remaining' = Remaining \ {d}
  BY <1>1, AdvanceTakesOne DEF IInv
<1>4. d \in Docs /\ q \in Queries
  BY <1>2, <1>3 DEF IInv, Work, TypeOK, Begun, Measuring
<1>5. Queued' = Queued \cup {[doc |-> d, from |-> q]}
  <2>1. [doc |-> d, from |-> q] \in Events
    BY <1>4 DEF Events
  <2> QED BY <2>1, <1>1, AppendRange DEF Queued, IInv, TypeOK
<1> HIDE DEF d
<1>6. Coming' = Coming \cup {Service!Finding(d, q)}
  BY <1>1, <1>5 DEF Coming, Held, Service!Finding
<1>7. ToSend = Remaining /\ ToSend' = Remaining' /\ ToScore = {} /\ ToScore' = {}
  BY <1>1, <1>2 DEF ToSend, ToScore, Measuring, Decrypting
<1>8. Phase = "measuring" /\ Phase' = "measuring" /\ AllResults' = AllResults
  BY <1>1, <1>2 DEF Phase, Measuring, AllResults
<1>9. Service!Send(d)
  BY <1>1, <1>3, <1>6, <1>7, <1>8 DEF Service!Send
<1> QED BY <1>4, <1>9

\* A result is scored by its own query or a later one.
LEMMA DecryptRefines ==
  ASSUME IInv, Follows, NEW s \in busy, Decrypt(s)
  PROVE  \E x \in ToScore, k \in 1 .. q : Service!Score(x, k)
<1> DEFINE i == s[1]
           r == results[Engine][i]
           x == KeyOf(r)
           k == FileOf(i)
<1>1. /\ Decrypting /\ ~Measuring /\ pc \notin {"menu", "clear", "count"} /\ k # Torn
      /\ UNCHANGED <<interactive, q, pc, queue, stage, hEvent, file>>
      /\ i \in Remaining /\ Remaining' = Remaining \ {i}
      /\ i \in DOMAIN results[Engine] /\ q \in Queries /\ Engine \in Queries
      /\ Remaining \subseteq 1 .. size /\ size <= Len(results[Engine])
      /\ k \in Queries \cup {NoScore}
      /\ results' \in [Queries -> Seq(Results)]
      /\ \A e \in Queries : DOMAIN results'[e] = DOMAIN results[e]
      /\ \A e \in Queries : \A j \in DOMAIN results[e] :
           /\ results'[e][j].doc = results[e][j].doc
           /\ results'[e][j].from = results[e][j].from
           /\ e # Engine \/ j # i => results'[e][j] = results[e][j]
      /\ results'[Engine][i].score = k
  <2>1. FileOf(i) # Torn
    BY DEF Decrypt
  <2> QED BY <2>1, DecryptEffect DEF IInv, Work, Scores
<1>2. Remaining \subseteq DOMAIN results[Engine] /\ Engine' = Engine
  <2>1. Len(results[Engine]) \in Nat /\ DOMAIN results[Engine] = 1 .. Len(results[Engine])
    BY <1>1, EngineTyped DEF IInv
  <2>2. size \in Nat
    BY DEF IInv, TypeOK
  <2> QED BY <1>1, <2>1, <2>2 DEF Engine, EngineOf
<1>3. r \in Results /\ x \in Entered /\ x.doc = r.doc /\ x.from = r.from /\ k = file[r.doc]
  BY <1>1, ResultsEntered DEF IInv, KeyOf, FileOf
<1>4. k \in x.from .. q /\ k \in 1 .. q /\ x.from \in Queries
  <2>1. x.from <= k /\ k <= q
    BY <1>1, <1>3 DEF Follows, Results
  <2>2. x.from \in Queries
    BY <1>3 DEF Results
  <2> QED BY <2>1, <2>2, <1>1, BoundsAssumption DEF Queries, NoScore
<1> HIDE DEF x, k, i, r
<1>5. \A j \in DOMAIN results[Engine] : j # i => KeyOf(results[Engine][j]) # x
  BY <1>1 DEF IInv, Unique, KeyOf, x, r
<1>6. \A j \in DOMAIN results[Engine] : KeyOf(results'[Engine][j]) = KeyOf(results[Engine][j])
  BY <1>1 DEF KeyOf
<1>7. x \in ToScore /\ ToScore' = ToScore \ {x}
  <2>1. ToScore = {KeyOf(results[Engine][j]) : j \in Remaining}
    BY <1>1 DEF ToScore
  <2>2. ToScore' = {KeyOf(results'[Engine][j]) : j \in Remaining \ {i}}
    BY <1>1, <1>2 DEF ToScore, Decrypting, KeyOf
  <2>3. ToScore' = {KeyOf(results[Engine][j]) : j \in Remaining \ {i}}
    BY <2>2, <1>2, <1>6
  <2>4. x = KeyOf(results[Engine][i])
    BY DEF x, r
  <2> QED BY <2>1, <2>3, <2>4, <1>1, <1>2, <1>5
<1>8. results'[Engine][i] = Service!Answer(x, k)
  <2>1. results'[Engine][i] \in Results
    BY <1>1, LenProperties, ElementOfSeq
  <2> QED BY <2>1, <1>1, <1>3 DEF Results, Service!Answer, r
<1>9. \A a : a \in AllResults' <=> \E e \in Queries : \E j \in DOMAIN results'[e] : a = results'[e][j]
  BY DEF AllResults, Range
<1>10. AllResults' = {a \in AllResults : Service!FindingOf(a) # x} \cup {Service!Answer(x, k)}
  <2>1. \A a : Service!FindingOf(a) = KeyOf(a)
    BY DEF Service!FindingOf, Service!Finding, KeyOf
  <2>2. ASSUME NEW e \in Queries, NEW j \in DOMAIN results[e], e # Engine \/ j # i
        PROVE  KeyOf(results[e][j]) # x
    <3>1. CASE e = Engine
      BY <2>2, <3>1, <1>5
    <3>2. CASE e # Engine
      <4>1. e = EngineOf(results[e][j].from) /\ Engine = EngineOf(r.from)
        BY <1>1 DEF IInv, Unique, r
      <4> QED BY <3>2, <4>1, <1>3 DEF KeyOf
    <3> QED BY <3>1, <3>2
  <2>3. ASSUME NEW a \in AllResults'
        PROVE  (a \in AllResults /\ KeyOf(a) # x) \/ a = Service!Answer(x, k)
    <3>1. PICK e \in Queries : \E j \in DOMAIN results[e] : a = results'[e][j]
      BY <1>1, <1>9
    <3>2. PICK j \in DOMAIN results[e] : a = results'[e][j]
      BY <3>1
    <3>3. CASE e = Engine /\ j = i
      BY <3>2, <3>3, <1>8
    <3>4. CASE e # Engine \/ j # i
      BY <3>2, <3>4, <2>2, <1>1, AnswersAre
    <3> QED BY <3>3, <3>4
  <2>4. ASSUME NEW a \in AllResults, KeyOf(a) # x
        PROVE  a \in AllResults'
    <3>1. PICK e \in Queries : \E j \in DOMAIN results[e] : a = results[e][j]
      BY AnswersAre
    <3>2. PICK j \in DOMAIN results[e] : a = results[e][j]
      BY <3>1
    <3>3. e # Engine \/ j # i
      BY <2>4, <3>2 DEF x, r
    <3> QED BY <3>2, <3>3, <1>1, <1>9
  <2>5. Service!Answer(x, k) \in AllResults'
    BY <1>1, <1>8, <1>9
  <2> QED BY <2>1, <2>3, <2>4, <2>5
<1>11. /\ Phase = "scoring" /\ Phase' = "scoring" /\ Coming' = Coming
       /\ ToSend = {} /\ ToSend' = {}
  BY <1>1 DEF Phase, Decrypting, Measuring, Coming, Held, Queued, ToSend
<1>12. Service!Score(x, k)
  BY <1>1, <1>4, <1>7, <1>10, <1>11 DEF Service!Score
<1> QED BY <1>4, <1>7, <1>12

\* The archive throws where the handler rewrites the file of an earlier result.
LEMMA DecryptThrowsRefines ==
  ASSUME IInv, NEW s \in busy, DecryptThrows(s)
  PROVE  \E x \in ToScore, y \in Coming : Service!Break(x, y)
<1> DEFINE i == s[1]
           r == results[Engine][i]
           x == KeyOf(r)
<1>1. /\ Decrypting /\ FileOf(i) = Torn /\ pc' = "terminated"
      /\ UNCHANGED <<interactive, q, queue, stage, hEvent, results>>
  BY DEF DecryptThrows, handlerVars
<1>2. i \in Remaining /\ i \in 1 .. size /\ Concluding /\ pc # "menu"
  <2>1. s \in Seq(Nat \ {0}) /\ s # <<>>
    BY DEF IInv, TypeOK
  <2>2. 1 \in DOMAIN s
    BY <2>1, TailRange
  <2>3. i \in Remaining
    BY <2>2 DEF Remaining, InWork, Range
  <2> QED BY <2>3, <1>1 DEF IInv, Work, Decrypting, Concluding
<1>3. Engine \in Queries /\ i \in DOMAIN results[Engine]
  <2>1. /\ Engine \in Queries /\ Len(results[Engine]) \in Nat
        /\ DOMAIN results[Engine] = 1 .. Len(results[Engine])
    BY <1>2, EngineTyped DEF IInv
  <2>2. size \in Nat /\ size <= Len(results[Engine])
    BY <1>2 DEF IInv, Scores, TypeOK
  <2> QED BY <2>1, <2>2, <1>2
<1>4. r \in Results /\ x \in Entered /\ x.doc = r.doc /\ x.from = r.from /\ r.doc \in Docs
  BY <1>3, ResultsEntered DEF IInv, KeyOf, Results
<1>5. stage = "writing" /\ hEvent.doc = x.doc
  BY <1>1, <1>4 DEF IInv, Files, FileOf
<1>6. hEvent \in Coming /\ x.from <= hEvent.from /\ x # hEvent
  BY <1>4, <1>5 DEF IInv, Coming, Held, Order, Unique
<1>7. x.from < hEvent.from
  BY <1>4, <1>5, <1>6, EventsTyped DEF IInv
<1>8. ToScore = {KeyOf(results[Engine][j]) : j \in Remaining} /\ ToScore' = {}
  BY <1>1 DEF ToScore, Decrypting
<1>9. x \in ToScore
  BY <1>2, <1>8
<1>10. /\ Phase = "scoring" /\ Phase' = "broken" /\ ToSend = {} /\ ToSend' = {}
       /\ Coming' = Coming /\ AllResults' = AllResults
  BY <1>1 DEF Phase, Decrypting, Measuring, ToSend, Coming, Held, Queued, AllResults
<1>11. Service!Break(x, hEvent)
  BY <1>1, <1>5, <1>6, <1>7, <1>8, <1>9, <1>10 DEF Service!Break
<1> QED BY <1>6, <1>9, <1>11

\* The event is underway all the time, whoever holds it.
LEMMA HandlerRefines ==
  ASSUME IInv, Dequeue \/ OpenScores \/ WriteScores
  PROVE  UNCHANGED Service!vars
<1>1. UNCHANGED <<interactive, q, hits, pc, batch, size, busy, results>>
  BY DEF Dequeue, OpenScores, WriteScores, engineVars
<1>2. Remaining' = Remaining
  BY <1>1, BatchUnchanged DEF IInv
<1>3. Coming' = Coming
  <2>1. CASE OpenScores \/ WriteScores
    BY <2>1 DEF OpenScores, WriteScores, Coming, Held, Queued
  <2>2. CASE Dequeue
    <3>1. /\ stage = "idle" /\ stage' = "write" /\ queue # <<>>
          /\ hEvent' = Head(queue) /\ queue' = Tail(queue)
      BY <2>2 DEF Dequeue
    <3>2. Range(queue) = Range(queue') \cup {Head(queue)}
      BY <3>1, TailRange DEF IInv, TypeOK
    <3> QED BY <3>1, <3>2 DEF Coming, Held, Queued
  <2> QED BY <2>1, <2>2
<1>4. /\ Phase' = Phase /\ (pc' = "clear" <=> pc = "clear")
      /\ (Measuring' <=> Measuring) /\ (Decrypting' <=> Decrypting)
  BY <1>1 DEF Phase, Measuring, Decrypting
<1> QED BY <1>1, <1>2, <1>3, <1>4, Stutters

\* What the handler holds is the oldest that is underway.
LEMMA AddResultRefines ==
  ASSUME IInv, AddResult
  PROVE  \E x \in Coming : Service!Arrive(x)
<1> DEFINE x == hEvent
           e == EngineOf(hEvent.from)
           n == [doc |-> hEvent.doc, from |-> hEvent.from, score |-> NoScore]
           old == results[e]
<1>1. /\ UNCHANGED <<interactive, q, hits, pc, batch, size, busy>>
      /\ x \in Events /\ e \in Queries
      /\ results'[e] = Append(old, n)
      /\ \A k \in Queries : k # e => results'[k] = results[k]
      /\ DOMAIN Append(old, n) = 1 .. Len(old) + 1 /\ DOMAIN old = 1 .. Len(old)
      /\ \A i \in DOMAIN old : Append(old, n)[i] = old[i]
      /\ Append(old, n)[Len(old) + 1] = n
      /\ Len(old) \in Nat
      /\ \A i \in DOMAIN results'[e] : i \in DOMAIN old \/ i = Len(old) + 1
      /\ Coming = Coming' \cup {x} /\ Coming' = Queued /\ x \notin Queued
      /\ \A y \in Queued : x.from <= y.from
  BY AddResultEffect
<1>2. pc # "terminated"
  BY DEF AddResult, Running
<1>3. n = Service!Answer(x, Service!None)
  BY DEF Service!Answer, Service!None, NoScore
<1> HIDE DEF n, e, old, x
<1>4. x \in Coming /\ Coming' = Coming \ {x} /\ \A y \in Coming : x.from <= y.from
  BY <1>1, EventsTyped DEF IInv
<1>5. AllResults' = AllResults \cup {n}
  <2>1. Range(results'[e]) = Range(results[e]) \cup {n}
    <3>1. \A i \in DOMAIN old : i \in DOMAIN results'[e] /\ results'[e][i] = old[i]
      BY <1>1
    <3>2. Len(old) + 1 \in DOMAIN results'[e] /\ results'[e][Len(old) + 1] = n
      BY <1>1
    <3> QED BY <1>1, <3>1, <3>2 DEF Range, old
  <2> QED BY <2>1, <1>1 DEF AllResults
<1>6. Remaining' = Remaining
  BY <1>1, BatchUnchanged DEF IInv
<1>7. ToSend' = ToSend
  BY <1>1, <1>6 DEF ToSend, Measuring
<1>8. ToScore' = ToScore
  <2> SUFFICES ASSUME Decrypting PROVE ToScore' = ToScore
    BY <1>1 DEF ToScore, Decrypting
  <2>1. /\ Engine \in Queries /\ Engine' = Engine /\ Len(results[Engine]) \in Nat
        /\ DOMAIN results[Engine] = 1 .. Len(results[Engine])
    BY <1>1, EngineTyped DEF IInv, Decrypting, Engine, EngineOf
  <2>2. Remaining \subseteq DOMAIN results[Engine]
    <3>1. Remaining \subseteq 1 .. size /\ size <= Len(results[Engine]) /\ size \in Nat
      BY DEF IInv, Work, Scores, Concluding, Decrypting, TypeOK
    <3> QED BY <2>1, <3>1
  <2>3. \A i \in DOMAIN results[Engine] : results'[Engine][i] = results[Engine][i]
    BY <1>1, <2>1 DEF old
  <2> QED BY <2>1, <2>2, <2>3, <1>1, <1>6 DEF ToScore, Decrypting, KeyOf
<1>9. Phase # "broken" /\ Phase' = Phase
  BY <1>1, <1>2 DEF Phase, IInv, TypeOK
<1>10. Service!Arrive(x)
  BY <1>1, <1>3, <1>4, <1>5, <1>7, <1>8, <1>9 DEF Service!Arrive
<1> QED BY <1>4, <1>10

LEMMA StepRefines == IInv /\ Follows /\ [Next]_vars => [Service!Next]_Service!vars
<1> SUFFICES ASSUME IInv, Follows, [Next]_vars PROVE [Service!Next]_Service!vars
  OBVIOUS
<1>1. CASE Lookup \/ NothingFound
  BY <1>1, QueryRefines DEF Service!Next
<1>2. CASE MainNext
  BY <1>2, ClearRefines, HandOverRefines, MeasureBarrierRefines, CountRefines,
     BackToMenuRefines DEF MainNext, Service!Next
<1>3. CASE WorkerNext
  BY <1>3, MeasureRefines, DecryptRefines, DecryptThrowsRefines DEF WorkerNext, Service!Next
<1>4. CASE HandlerNext
  BY <1>4, HandlerRefines, AddResultRefines DEF HandlerNext, Service!Next
<1>5. CASE Ended \/ UNCHANGED vars
  <2>1. UNCHANGED <<interactive, q, hits, pc, batch, size, busy, queue, stage, hEvent, results>>
    BY <1>5 DEF Ended, vars, engineVars, handlerVars
  <2>2. Remaining' = Remaining
    BY <2>1, BatchUnchanged DEF IInv
  <2>3. Coming' = Coming /\ Phase' = Phase
    BY <2>1 DEF Coming, Held, Queued, Phase
  <2> QED BY <2>1, <2>2, <2>3, Stutters DEF Measuring, Decrypting
<1> QED BY <1>1, <1>2, <1>3, <1>4, <1>5 DEF Next

\* For any number of documents, queries, workers and places in the queue, the
\* search with its tasks, queue, handler and files does what SearchService
\* says: nothing found is lost or entered twice, answers come in the order of
\* the queries, all that were taken are scored before they are shown, no score
\* is of an earlier query, and only results of different queries that meet can
\* break it.
THEOREM Refinement == Spec => Implements
BY InitRefines, StepRefines, Following, PTL DEF Spec, Implements, Service!Spec

=============================================================================
