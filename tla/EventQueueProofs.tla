-------------------------- MODULE EventQueueProofs --------------------------
(***************************************************************************)
(* Proofs about EventQueue for any number of producers and any capacity.   *)
(* The inductive invariant adds to the properties that the event in the    *)
(* consumer's hand is there exactly while it is handled, and that a        *)
(* consumer about to pop has an event to pop: only the consumer takes      *)
(* events away, so what it saw without the lock stays true.                *)
(***************************************************************************)
EXTENDS EventQueue, SequenceTheorems, TLAPS

IInv ==
  /\ TypeOK
  /\ Conservation
  /\ cpc = "dequeue" => current # 0
  /\ cpc = "handle" <=> pEvent # NULL
  /\ \A p \in Producers : ppc[p] # "idle" => begun[p] \in 1 .. Burst /\ running

-----------------------------------------------------------------------------
(* Lemmas about the sequences of events.                                   *)

\* Moving the first of the queued events into the empty hand.
LEMMA PopConcat ==
  ASSUME NEW S, NEW a \in Seq(S), NEW c \in Seq(S), c # <<>>
  PROVE  a \o <<>> \o c = a \o <<Head(c)>> \o Tail(c)
<1>1. /\ Head(c) \in S /\ Tail(c) \in Seq(S)
      /\ c = <<Head(c)>> \o Tail(c)
      /\ <<Head(c)>> \in Seq(S)
      /\ a \o <<>> = a
  BY HeadTailProperties
<1>2. (a \o <<Head(c)>>) \o Tail(c) = a \o (<<Head(c)>> \o Tail(c))
  BY <1>1, ConcatAssociative
<1> QED BY <1>1, <1>2

\* Handling the event in hand.
LEMMA HandleConcat ==
  ASSUME NEW S, NEW a \in Seq(S), NEW e \in S
  PROVE  Append(a, e) \o <<>> = a \o <<e>>
OBVIOUS

LEMMA SignalType ==
  ASSUME NEW S, NEW w \in SUBSET S
  PROVE  Signal(w) \subseteq SUBSET S
BY DEF Signal

-----------------------------------------------------------------------------
LEMMA InitIInv == Init => IInv
<1> SUFFICES ASSUME Init PROVE IInv
  OBVIOUS
<1> USE BurstAssumption, MaxAssumption, NULLAssumption DEF Init
<1>1. TypeOK
  <2>1. <<>> \in Seq(Events)
    BY EmptySeq
  <2> QED BY <2>1 DEF TypeOK, Waiting
<1>2. Conservation
  BY DEF Conservation, InHand
<1> QED BY <1>1, <1>2 DEF IInv

\* Every step preserves the invariant.
LEMMA StepIInv == IInv /\ [Next]_vars => IInv'
<1> SUFFICES ASSUME IInv, [Next]_vars PROVE IInv'
  OBVIOUS
<1> /\ TypeOK /\ Conservation /\ current = Len(queue)
    /\ Max \in Nat \ {0} /\ Burst \in Nat /\ NULL \notin Events
    /\ InHand \in Seq(Events)
  BY MaxAssumption, BurstAssumption, NULLAssumption
     DEF IInv, Conservation, Events, InHand, TypeOK
<1> USE DEF IInv, TypeOK, queueVars, producerVars, consumerVars, Waiting
<1>1. ASSUME NEW p \in Producers, BeginEnqueue(p) PROVE IInv'
  BY <1>1 DEF BeginEnqueue, Conservation, InHand
<1>2. ASSUME NEW p \in Producers, EnqueuePushes(p) PROVE IInv'
  <2>1. EventOf(p) \in Events
    BY <1>2 DEF EnqueuePushes, EventOf, Events
  <2>2. waiters' \subseteq Producers \cup {Consumer}
    BY <1>2, SignalType DEF EnqueuePushes
  <2>3. /\ queue' \in Seq(Events) /\ sent' \in Seq(Events)
        /\ current' = Len(queue') /\ current' \in 1 .. Max
    BY <1>2, <2>1 DEF EnqueuePushes
  <2>4. Conservation'
    <3>1. handled \in Seq(Events) /\ queue \in Seq(Events)
      OBVIOUS
    <3>3. (handled \o InHand) \in Seq(Events)
      BY <3>1
    <3>5. <<EventOf(p)>> \in Seq(Events)
      BY <2>1
    <3>6. ((handled \o InHand) \o queue) \o <<EventOf(p)>>
            = (handled \o InHand) \o (queue \o <<EventOf(p)>>)
      BY ONLY <3>1, <3>3, <3>5, ConcatAssociative
    <3>7. sent' = sent \o <<EventOf(p)>> /\ queue' = queue \o <<EventOf(p)>>
      BY <1>2, <2>1 DEF EnqueuePushes
    <3>4. sent' = handled \o InHand \o queue'
      BY <3>6, <3>7 DEF Conservation
    <3>2. handled' = handled /\ InHand' = InHand
      BY <1>2 DEF EnqueuePushes, InHand
    <3> QED BY <3>2, <3>4, <2>3 DEF Conservation
  <2> QED BY <1>2, <2>2, <2>3, <2>4 DEF EnqueuePushes
<1>3. ASSUME NEW p \in Producers, EnqueueWaits(p) PROVE IInv'
  BY <1>3 DEF EnqueueWaits, Conservation, InHand
<1>4. ASSUME NEW p \in Producers, EnqueueWakes(p) PROVE IInv'
  <2>1. waiters' \subseteq Producers \cup {Consumer}
    BY <1>4, SignalType DEF EnqueueWakes
  <2> QED BY <1>4, <2>1 DEF EnqueueWakes, Conservation, InHand
<1>5. CASE TestRun
  BY <1>5 DEF TestRun, Conservation, InHand
<1>6. CASE DequeueReads
  BY <1>6 DEF DequeueReads, Conservation, InHand
<1>7. CASE DequeuePops
  <2>1. /\ queue # <<>> /\ pEvent = NULL
        /\ waiters' \subseteq Producers \cup {Consumer}
    BY <1>7, SignalType DEF DequeuePops
  <2>2. /\ Head(queue) \in Events /\ Tail(queue) \in Seq(Events)
        /\ Len(Tail(queue)) = Len(queue) - 1
    BY <2>1, HeadTailProperties
  <2>3. pEvent' \in Events /\ pEvent' # NULL /\ queue' \in Seq(Events)
        /\ current' = Len(queue') /\ current' \in 0 .. Max
    BY <1>7, <2>1, <2>2, LenProperties DEF DequeuePops
  <2>4. Conservation'
    BY <1>7, <2>1, <2>2, <2>3, PopConcat DEF DequeuePops, Conservation, InHand
  <2> QED BY <1>7, <2>1, <2>3, <2>4 DEF DequeuePops
<1>8. CASE RunWaits
  BY <1>8 DEF RunWaits, Conservation, InHand
<1>9. CASE RunWakes
  BY <1>9 DEF RunWakes, Conservation, InHand
<1>10. CASE HandleEvent
  <2>1. pEvent \in Events /\ handled' \in Seq(Events)
    BY <1>10 DEF HandleEvent
  <2>2. Conservation'
    BY <1>10, <2>1, HandleConcat DEF HandleEvent, Conservation, InHand
  <2> QED BY <1>10, <2>1, <2>2 DEF HandleEvent
<1>11. ASSUME NEW x \in Waiting, TimesOut(x) PROVE IInv'
  BY <1>11 DEF TimesOut, Conservation, InHand
<1>12. CASE Kill
  BY <1>12 DEF Kill, Conservation, InHand
<1>13. CASE UNCHANGED vars
  BY <1>13 DEF vars, Conservation, InHand
<1> QED
  BY <1>1, <1>2, <1>3, <1>4, <1>5, <1>6, <1>7, <1>8, <1>9, <1>10, <1>11, <1>12, <1>13
     DEF Next, ProducerNext, ConsumerNext, Terminated

-----------------------------------------------------------------------------
(* The theorems.                                                           *)

\* The inductive invariant holds in every reachable state.
THEOREM Invariance == Spec => []IInv
BY InitIInv, StepIInv, PTL DEF Spec

\* The variables stay in their types; in particular the counter stays within
\* 0 .. Max, the capacity the queue was initialised with.
THEOREM TypeCorrect == Spec => []TypeOK
<1>1. IInv => TypeOK
  BY DEF IInv
<1> QED BY <1>1, Invariance, PTL

\* No event is lost, repeated or reordered, and the counter counts the list.
THEOREM NothingLost == Spec => []Conservation
<1>1. IInv => Conservation
  BY DEF IInv
<1> QED BY <1>1, Invariance, PTL

\* The consumer never pops an empty list although it looks without the lock.
THEOREM PopIsSafe == Spec => []DequeueFindsEvent
<1>1. IInv => DequeueFindsEvent
  BY EmptySeq DEF IInv, Conservation, TypeOK, DequeueFindsEvent
<1> QED BY <1>1, Invariance, PTL

-----------------------------------------------------------------------------
(* The queue implements EventChannel.                                      *)

LEMMA InitRefines == Init => Channel!Init
BY DEF Init, Channel!Init, InHand, Accepted

\* A push sends, a pop receives, Kill closes; the rest stutters.
LEMMA StepRefines == IInv /\ [Next]_vars => [Channel!Next]_(Channel!vars)
<1> SUFFICES ASSUME IInv, [Next]_vars PROVE [Channel!Next]_(Channel!vars)
  OBVIOUS
<1> /\ TypeOK /\ Conservation /\ current = Len(queue)
    /\ Max \in Nat \ {0} /\ Burst \in Nat /\ NULL \notin Events
    /\ InHand \in Seq(Events)
  BY MaxAssumption, BurstAssumption, NULLAssumption
     DEF IInv, Conservation, Events, InHand, TypeOK
<1> DEFINE received == handled \o InHand
<1> /\ received \in Seq(Events)
    /\ Len(sent) = Len(received) + Len(queue)
  BY ConcatProperties DEF Conservation, TypeOK
<1> HIDE DEF received
<1> USE DEF TypeOK, queueVars, producerVars, consumerVars
<1>1. ASSUME NEW p \in Producers, BeginEnqueue(p) PROVE [Channel!Next]_(Channel!vars)
  BY <1>1 DEF BeginEnqueue, Accepted, InHand, Channel!vars
<1>2. ASSUME NEW p \in Producers, EnqueuePushes(p) PROVE [Channel!Next]_(Channel!vars)
  <2>1. /\ received' = received /\ running' = running /\ running
        /\ sent' = Append(sent, <<p, Accepted(p) + 1>>)
        /\ Len(sent) - Len(received) < Max /\ Accepted(p) < Burst
    BY <1>2 DEF EnqueuePushes, EventOf, Accepted, InHand, received, IInv
  <2>2. [q \in Producers |-> Accepted(q)]'
          = [[q \in Producers |-> Accepted(q)] EXCEPT ![p] = @ + 1]
    <3>1. /\ begun' = begun /\ begun[p] \in Nat /\ ppc[p] # "idle"
          /\ \A q \in Producers : ppc'[q] = IF q = p THEN "idle" ELSE ppc[q]
      BY <1>2 DEF EnqueuePushes
    <3>2. Accepted(p) + 1 = begun[p]
      BY <3>1 DEF Accepted
    <3>3. \A q \in Producers : Accepted(q)' = IF q = p THEN begun[p] ELSE Accepted(q)
      BY <3>1 DEF Accepted
    <3> QED BY <3>2, <3>3
  <2>3. Channel!Send(p)
    BY <2>1, <2>2 DEF Channel!Send, received
  <2> QED BY <2>3 DEF Channel!Next
<1>3. ASSUME NEW p \in Producers, EnqueueWaits(p) PROVE [Channel!Next]_(Channel!vars)
  BY <1>3 DEF EnqueueWaits, Accepted, InHand, Channel!vars
<1>4. ASSUME NEW p \in Producers, EnqueueWakes(p) PROVE [Channel!Next]_(Channel!vars)
  BY <1>4 DEF EnqueueWakes, Accepted, InHand, Channel!vars
<1>5. CASE TestRun
  BY <1>5 DEF TestRun, Accepted, InHand, Channel!vars
<1>6. CASE DequeueReads
  BY <1>6 DEF DequeueReads, Accepted, InHand, Channel!vars
<1>7. CASE DequeuePops
  <2>1. /\ queue # <<>> /\ pEvent = NULL
    BY <1>7 DEF DequeuePops, IInv
  <2>2. /\ received = handled
        /\ received' = handled \o <<Head(queue)>>
        /\ Head(queue) = queue[1] /\ Head(queue) \in Events
        /\ Len(queue) > 0
    BY <1>7, <2>1, HeadTailProperties, EmptySeq
       DEF DequeuePops, IInv, received, InHand
  <2>3. sent = handled \o queue
    BY <2>1 DEF Conservation, InHand
  <2>4. sent[Len(received) + 1] = Head(queue)
    BY <2>2, <2>3, ConcatProperties
  <2>5. received' = Append(received, sent[Len(received) + 1])
    BY <2>2, <2>4
  <2>6. /\ Len(received) < Len(sent)
        /\ UNCHANGED <<sent, [q \in Producers |-> Accepted(q)], ~running>>
    BY <1>7, <2>2 DEF DequeuePops, Accepted
  <2>7. Channel!Receive
    BY <2>5, <2>6 DEF Channel!Receive, received
  <2> QED BY <2>7 DEF Channel!Next
<1>8. CASE RunWaits
  BY <1>8 DEF RunWaits, Accepted, InHand, Channel!vars
<1>9. CASE RunWakes
  BY <1>9 DEF RunWakes, Accepted, InHand, Channel!vars
<1>10. CASE HandleEvent
  <2>1. pEvent \in Events
    BY <1>10 DEF HandleEvent, IInv
  <2> QED BY <1>10, <2>1, HandleConcat DEF HandleEvent, Accepted, InHand, Channel!vars
<1>11. ASSUME NEW x \in Waiting, TimesOut(x) PROVE [Channel!Next]_(Channel!vars)
  BY <1>11 DEF TimesOut, Accepted, InHand, Channel!vars
<1>12. CASE Kill
  BY <1>12 DEF Kill, Channel!Next, Channel!Close, Accepted, InHand
<1>13. CASE UNCHANGED vars
  BY <1>13 DEF vars, Accepted, InHand, Channel!vars
<1> QED
  BY <1>1, <1>2, <1>3, <1>4, <1>5, <1>6, <1>7, <1>8, <1>9, <1>10, <1>11, <1>12, <1>13
     DEF Next, ProducerNext, ConsumerNext, Terminated

\* Every behaviour of the queue is one of EventChannel.
THEOREM Refinement == Spec => Implements
BY InitIInv, InitRefines, StepRefines, Invariance, PTL
   DEF Spec, Implements, Channel!Spec

=============================================================================
