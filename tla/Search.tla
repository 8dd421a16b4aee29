------------------------------- MODULE Search -------------------------------
(***************************************************************************)
(* SearchEngine::SearchIndex, query after query: main looks up the         *)
(* documents, tasks of the pool measure the similarity of each and send it *)
(* through the event queue, the handler of the queue writes the scores to  *)
(* a file and enters the document into the results, and main hands the     *)
(* results it finds there to the pool to be decrypted.  Main waits for the *)
(* pool, never for the queue.                                              *)
(*                                                                         *)
(* In interactive mode every query has a SearchEngine, and with it a list  *)
(* of results, of its own; otherwise one engine serves all of them.  The   *)
(* index on disk is complete (CommitOrder of IndexBuild).  Scores are      *)
(* known by the query they are for.                                        *)
(***************************************************************************)
EXTENDS Integers, Sequences, FiniteSets, Functions, Batch

CONSTANTS
  NumDocs,             \* bound: how many documents there are
  NumQueries,          \* bound: how many queries are made
  PoolSize,            \* m_oPool->GetSize()
  Max                  \* capacity of the event queue

ASSUME BoundsAssumption == NumDocs \in Nat /\ NumQueries \in Nat
ASSUME CapacityAssumption == PoolSize \in Nat \ {0} /\ Max \in Nat \ {0}

VARIABLES
  interactive,         \* the mode in the configuration file
  q,                   \* the number of the query
  hits,                \* m_oSSE2SearchResults of the query
  pc,                  \* where main is
  batch,               \* the number of tasks of the batch handed over so far
  size,                \* iResultsNumber, read when the decryption begins
  busy,                \* what is left to do of the tasks that workers execute
  queue,               \* the event queue
  stage,               \* what the handler is doing
  hEvent,              \* the event in its hand
  results,             \* m_oSimilarityMeasureResults of every engine
  file,                \* the query whose scores each .simresult file has
  drained              \* history: nothing was ever pending after a measurement

engineVars  == <<interactive, q, hits, pc, batch, size, drained>>
handlerVars == <<stage, hEvent, file>>
vars == <<engineVars, busy, queue, handlerVars, results>>

Docs    == 1 .. NumDocs
Queries == 1 .. NumQueries
NoFile  == 0
Torn    == -1          \* a file opened for writing and not finished
NoScore == 0

Events  == [doc : Docs, from : Queries]
\* DocumentSimilarity: from is the query that its event was sent for.
Results == [doc : Docs, from : Queries, score : Queries \cup {NoScore}]

TypeOK ==
  /\ interactive \in BOOLEAN /\ drained \in BOOLEAN
  /\ q \in 0 .. NumQueries
  /\ hits \subseteq Docs
  /\ pc \in {"menu", "clear", "measure", "measuring", "count", "decrypt",
             "decrypting", "print", "terminated"}
  /\ batch \in Nat /\ size \in Nat
  /\ busy \subseteq Seq(Nat \ {0}) \ {<<>>} /\ Cardinality(busy) <= PoolSize
  /\ queue \in Seq(Events) /\ Len(queue) <= Max
  /\ stage \in {"idle", "write", "writing", "add"}
  /\ stage # "idle" => hEvent \in Events
  /\ results \in [Queries -> Seq(Results)]
  /\ file \in [Docs -> Queries \cup {NoFile, Torn}]

Init ==
  /\ interactive \in BOOLEAN
  /\ q = 0
  /\ hits = {}
  /\ pc = "menu"
  /\ batch = 0 /\ size = 0
  /\ busy = {}
  /\ queue = <<>>
  /\ stage = "idle" /\ hEvent = <<>>
  /\ results = [e \in Queries |-> <<>>]
  /\ file = [d \in Docs |-> NoFile]
  /\ drained = TRUE

\* The engine that serves query k.
EngineOf(k) == IF interactive THEN k ELSE 1
Engine == EngineOf(q)

-----------------------------------------------------------------------------
(* SearchIndex up to the measurement.                                      *)

\* The SSE2 index and the dictionary are read and searched for the next query.
Lookup ==
  /\ pc = "menu"
  /\ q < NumQueries
  /\ q' = q + 1
  /\ \E found \in (SUBSET Docs) \ {{}} : hits' = found
  /\ pc' = "clear"
  /\ UNCHANGED <<interactive, batch, size, drained, busy, queue, handlerVars, results>>

\* No document is found, or no word of the input is one: SearchIndex returns
\* false and the results of the engine stay what they are.
NothingFound ==
  /\ pc = "menu"
  /\ q < NumQueries
  /\ q' = q + 1
  /\ hits' = {}
  /\ UNCHANGED <<interactive, pc, batch, size, drained, busy, queue, handlerVars, results>>

\* Fault: the results are not cleared.
ClearForgotten ==
  /\ pc = "clear"
  /\ batch' = 0
  /\ pc' = "measure"
  /\ UNCHANGED <<interactive, q, hits, size, drained, busy, queue, handlerVars, results>>

\* MeasureEncryptedSimilarity begins with the clearing of the results.
Clear ==
  /\ pc = "clear"
  /\ results' = [results EXCEPT ![Engine] = <<>>]
  /\ batch' = 0
  /\ pc' = "measure"
  /\ UNCHANGED <<interactive, q, hits, size, drained, busy, queue, handlerVars>>

-----------------------------------------------------------------------------
(* The batches.                                                            *)

\* The documents of a std::set, in its order; which one that is is left open.
InOrder(S) == CHOOSE s \in [1 .. Cardinality(S) -> S] : IsInjective(s)

\* The documents found, or the positions of the results to be decrypted.
Items == IF pc = "measure" THEN InOrder(hits) ELSE [i \in 1 .. size |-> i]

\* Fault: CheckOut does not wait for a free worker.
HandOverUnlimited ==
  /\ pc \in {"measure", "decrypt"}
  /\ batch < NumSlices(Len(Items), PoolSize)
  /\ busy' = busy \cup {SliceOf(Items, PoolSize, batch + 1)}
  /\ batch' = batch + 1
  /\ UNCHANGED <<interactive, q, hits, pc, size, drained, queue, handlerVars, results>>

\* A free worker gets the next task.
HandOver ==
  /\ pc \in {"measure", "decrypt"}
  /\ batch < NumSlices(Len(Items), PoolSize)
  /\ Cardinality(busy) < PoolSize
  /\ busy' = busy \cup {SliceOf(Items, PoolSize, batch + 1)}
  /\ batch' = batch + 1
  /\ UNCHANGED <<interactive, q, hits, pc, size, drained, queue, handlerVars, results>>

AllHandedOver ==
  /\ pc \in {"measure", "decrypt"}
  /\ batch = NumSlices(Len(Items), PoolSize)
  /\ pc' = IF pc = "measure" THEN "measuring" ELSE "decrypting"
  /\ UNCHANGED <<interactive, q, hits, batch, size, drained, busy, queue,
                 handlerVars, results>>

Pending == queue # <<>> \/ stage # "idle"

\* Fault: main does not wait until the documents have been measured.
MeasureBarrierMissing ==
  /\ pc = "measuring"
  /\ drained' = (drained /\ ~Pending)
  /\ pc' = "count"
  /\ UNCHANGED <<interactive, q, hits, batch, size, busy, queue, handlerVars, results>>

\* Every worker is free again, so every score has been enqueued.
MeasureBarrier ==
  /\ pc = "measuring"
  /\ busy = {}
  /\ drained' = (drained /\ ~Pending)
  /\ pc' = "count"
  /\ UNCHANGED <<interactive, q, hits, batch, size, busy, queue, handlerVars, results>>

\* DecryptSimilarityResults reads the number of results once, and gives up
\* when there are none.
Count ==
  /\ pc = "count"
  /\ size' = Len(results[Engine])
  /\ batch' = 0
  /\ pc' = IF size' = 0 THEN "menu" ELSE "decrypt"
  /\ UNCHANGED <<interactive, q, hits, drained, busy, queue, handlerVars, results>>

\* Fault: main does not wait until the results have been decrypted.
DecryptBarrierMissing ==
  /\ pc = "decrypting"
  /\ pc' = "print"
  /\ UNCHANGED <<interactive, q, hits, batch, size, drained, busy, queue,
                 handlerVars, results>>

DecryptBarrier ==
  /\ pc = "decrypting"
  /\ busy = {}
  /\ pc' = "print"
  /\ UNCHANGED <<interactive, q, hits, batch, size, drained, busy, queue,
                 handlerVars, results>>

\* As far as the printing goes: there is nothing to sort them yet.
PrintResults ==
  /\ pc = "print"
  /\ pc' = "menu"
  /\ UNCHANGED <<interactive, q, hits, batch, size, drained, busy, queue,
                 handlerVars, results>>

-----------------------------------------------------------------------------
(* The tasks of the pool.                                                  *)

Advance(s) == busy' = (busy \ {s}) \cup ({Tail(s)} \ {<<>>})

Decrypting == pc \in {"decrypt", "decrypting"}
Running    == pc # "terminated"

\* Fault: a worker that finds the queue full waits for the other workers.
MeasureAlone(s) ==
  /\ Running /\ ~Decrypting
  /\ queue = <<>> /\ stage = "idle" /\ busy = {s}
  /\ queue' = Append(queue, [doc |-> s[1], from |-> q])
  /\ Advance(s)
  /\ UNCHANGED <<engineVars, handlerVars, results>>

\* SimilarityMeasureTask: an event for the first document, when there is room.
Measure(s) ==
  /\ Running /\ ~Decrypting
  /\ Len(queue) < Max
  /\ queue' = Append(queue, [doc |-> s[1], from |-> q])
  /\ Advance(s)
  /\ UNCHANGED <<engineVars, handlerVars, results>>

FileOf(i)  == file[results[Engine][i].doc]

\* DecryptSimilarityMeasureTask: the file with the scores of the first result
\* is read and decrypted.
Decrypt(s) ==
  /\ Decrypting
  /\ FileOf(s[1]) # Torn
  /\ results' = [results EXCEPT ![Engine][s[1]].score = FileOf(s[1])]
  /\ Advance(s)
  /\ UNCHANGED <<engineVars, queue, handlerVars>>

\* The handler is rewriting the file.  The archive throws what nobody catches.
DecryptThrows(s) ==
  /\ Decrypting
  /\ FileOf(s[1]) = Torn
  /\ pc' = "terminated"
  /\ UNCHANGED <<interactive, q, hits, batch, size, drained, busy, queue,
                 handlerVars, results>>

-----------------------------------------------------------------------------
(* The thread of the event queue: HandleSimilarityMeasureEvent.            *)

\* Fault: an event that is alone in the queue is left there.
DequeueNotTheLast ==
  /\ Running
  /\ stage = "idle"
  /\ Len(queue) > 1
  /\ hEvent' = Head(queue)
  /\ queue' = Tail(queue)
  /\ stage' = "write"
  /\ UNCHANGED <<engineVars, busy, results, file>>

\* Fault: the newest event is taken.
DequeueNewest ==
  /\ Running
  /\ stage = "idle"
  /\ queue # <<>>
  /\ hEvent' = queue[Len(queue)]
  /\ queue' = SubSeq(queue, 1, Len(queue) - 1)
  /\ stage' = "write"
  /\ UNCHANGED <<engineVars, busy, results, file>>

Dequeue ==
  /\ Running
  /\ stage = "idle"
  /\ queue # <<>>
  /\ hEvent' = Head(queue)
  /\ queue' = Tail(queue)
  /\ stage' = "write"
  /\ UNCHANGED <<engineVars, busy, results, file>>

\* Fault: a file that is there already is not written again.
KeepOldScores ==
  /\ Running
  /\ stage = "write"
  /\ stage' = IF file[hEvent.doc] = NoFile THEN "writing" ELSE "add"
  /\ UNCHANGED <<engineVars, busy, queue, hEvent, results, file>>

OpenScores ==
  /\ Running
  /\ stage = "write"
  /\ file' = [file EXCEPT ![hEvent.doc] = Torn]
  /\ stage' = "writing"
  /\ UNCHANGED <<engineVars, busy, queue, hEvent, results>>

WriteScores ==
  /\ Running
  /\ stage = "writing"
  /\ file' = [file EXCEPT ![hEvent.doc] = hEvent.from]
  /\ stage' = "add"
  /\ UNCHANGED <<engineVars, busy, queue, hEvent, results>>

AddResult ==
  /\ Running
  /\ stage = "add"
  /\ results' = [results EXCEPT ![EngineOf(hEvent.from)] =
                   Append(@, [doc |-> hEvent.doc, from |-> hEvent.from,
                              score |-> NoScore])]
  /\ stage' = "idle"
  /\ hEvent' = <<>>
  /\ UNCHANGED <<engineVars, busy, queue, file>>

-----------------------------------------------------------------------------
MainNext ==
  \/ Clear \/ HandOver \/ AllHandedOver \/ MeasureBarrier \/ Count
  \/ DecryptBarrier \/ PrintResults

WorkerNext == \E s \in busy : Measure(s) \/ Decrypt(s) \/ DecryptThrows(s)

HandlerNext == Dequeue \/ OpenScores \/ WriteScores \/ AddResult

Ended ==
  /\ \/ pc = "menu" /\ q = NumQueries /\ ~Pending
     \/ pc = "terminated"
  /\ UNCHANGED vars

Next ==
  \/ Lookup \/ NothingFound
  \/ MainNext
  \/ WorkerNext
  \/ HandlerNext
  \/ Ended

Spec == Init /\ [][Next]_vars

-----------------------------------------------------------------------------
(* Safety.                                                                 *)

Entries == {results[Engine][i] : i \in DOMAIN results[Engine]}

\* The event of the query for document d has not become a result yet.
Underway(d) ==
  \/ \E i \in DOMAIN queue : queue[i] = [doc |-> d, from |-> q]
  \/ stage # "idle" /\ hEvent = [doc |-> d, from |-> q]

\* Once main is out of the loop that waits for the pool, every document found
\* is among the results or on its way to them, and never twice.
ResultsAccounted ==
  /\ \A e \in Queries : \A i, j \in DOMAIN results[e] :
       /\ results[e][i].doc = results[e][j].doc
       /\ results[e][i].from = results[e][j].from
       => i = j
  /\ pc \in {"count", "decrypt", "decrypting", "print"} =>
       \A d \in hits : Underway(d) # \E r \in Entries : r.doc = d /\ r.from = q

\* A result of the query that was there to be decrypted has the scores of the
\* query and no other, whatever late events are rewriting the files.
FreshScores ==
  pc = "print" =>
    \A i \in 1 .. size :
      results[Engine][i].from = q => results[Engine][i].score = q

\* With an engine of its own, or with nothing pending after the measurements,
\* a query has no results but its own, and no file is read while the handler
\* is writing it.
OwnResults ==
  interactive \/ drained =>
    /\ pc # "terminated"
    /\ pc = "print" => \A r \in Entries : r.from = q

\* With nothing pending after the measurement, the results are the documents
\* found, with their scores.
ExactResults ==
  pc = "print" /\ drained =>
    Entries = {[doc |-> d, from |-> q, score |-> q] : d \in hits}

\* Main then has the results for itself while it decrypts and prints them.
MainOwnsResults ==
  [][drained /\ pc \in {"count", "decrypt", "decrypting", "print"} =>
       \A e \in Queries : Len(results'[e]) = Len(results[e])]_vars

\* "Clear previous results": what is printed belongs to the query.
ClearPreviousResults ==
  pc = "print" => \A r \in Entries : r.from = q

-----------------------------------------------------------------------------
(* What the search promises.                                               *)

Measuring   == pc \in {"measure", "measuring"}
HandingOver == pc \in {"measure", "decrypt"}

\* What is left of the batch: not handed over yet, or with the workers.
Later     == IF HandingOver THEN Left(Items, PoolSize, batch) ELSE {}
Remaining == Later \cup InWork(busy)

\* The events on their way.
Queued == Range(queue)
Held   == IF stage = "idle" THEN {} ELSE {hEvent}
Coming == Held \cup Queued

Phase ==
  CASE pc = "menu" -> "idle"
    [] pc = "clear" -> "asked"
    [] pc \in {"measure", "measuring", "count"} -> "measuring"
    [] pc \in {"decrypt", "decrypting"} -> "scoring"
    [] pc = "print" -> "shown"
    [] pc = "terminated" -> "broken"

ToSend     == IF pc = "clear" THEN hits ELSE IF Measuring THEN Remaining ELSE {}
KeyOf(r)   == [doc |-> r.doc, from |-> r.from]
AllResults == UNION {Range(results[e]) : e \in Queries}
ToScore    == IF Decrypting THEN {KeyOf(results[Engine][i]) : i \in Remaining} ELSE {}

Service == INSTANCE SearchService WITH
             shared <- ~interactive, query <- q, phase <- Phase, todo <- ToSend,
             underway <- Coming, answers <- AllResults, unscored <- ToScore

\* Workers, queue, handler and files together do what SearchService says: every
\* document found is sent once and arrives once and in the order of the queries,
\* what is taken is scored completely, with scores that are never of an earlier
\* query, and a search breaks only where results of different queries meet.
Implements == Service!Spec

-----------------------------------------------------------------------------
(* Liveness, under a scheduler that is fair to main, to the workers and to *)
(* the thread of the queue.                                                *)

Fairness ==
  /\ WF_vars(MainNext)
  /\ WF_vars(WorkerNext)
  /\ WF_vars(HandlerNext)

FairSpec == Spec /\ Fairness

\* Every search comes to an end: workers that wait for room in the queue and
\* main that waits for the workers do not wait for each other.
SearchReturns == (pc # "menu") ~> (pc \in {"menu", "terminated"})

\* No score gets stuck: what a worker enqueues becomes a result in the end.
EventsArrive == Pending ~> (~Pending \/ pc = "terminated")

=============================================================================
