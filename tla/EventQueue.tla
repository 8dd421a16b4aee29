----------------------------- MODULE EventQueue -----------------------------
(***************************************************************************)
(* Queue and EventQueue: a bounded list of events with a counter beside    *)
(* it, filled by the tasks of the pool (Queue::Enqueue) and emptied by the *)
(* one thread that runs EventQueue::Run.  Producers that find the queue    *)
(* full and the consumer that finds it empty wait on the same condition    *)
(* variable, always with a timeout; the consumer looks at the counter      *)
(* without the lock and takes the lock only afterwards.                    *)
(*                                                                         *)
(* Event <<p, i>> is the i-th event of producer p.                         *)
(***************************************************************************)
EXTENDS Naturals, Sequences, FiniteSets, Mutex

CONSTANTS
  Producers,           \* the threads that call Enqueue
  Consumer,            \* the thread that runs EventQueue::Run
  Max,                 \* m_iMax, QUEUE_MAX_ELEMENTS in the program
  Burst,               \* bound: how many events a producer enqueues
  NULL                 \* no event

ASSUME ThreadsAssumption == IsFiniteSet(Producers) /\ Consumer \notin Producers
ASSUME MaxAssumption == Max \in Nat \ {0}
ASSUME BurstAssumption == Burst \in Nat
ASSUME NULLAssumption == NULL \notin Producers \X (1 .. Burst)

VARIABLES
  queue,               \* m_oQueue
  current,             \* m_iCurrent
  waiters,             \* the threads in Wait on the queue's mutex
  running,             \* m_bRun_ of the consumer
  ppc,                 \* where every producer is
  begun,               \* how many calls of Enqueue a producer has begun
  cpc,                 \* where the consumer is
  pEvent,              \* the event Dequeue returned
  sent,                \* history: the events pushed, in order
  handled              \* history: the events handled, in order

queueVars    == <<queue, current, waiters, sent>>
producerVars == <<ppc, begun>>
consumerVars == <<cpc, pEvent, handled>>
vars == <<queue, current, waiters, sent, running, ppc, begun,
          cpc, pEvent, handled>>

Events  == Producers \X (1 .. Burst)
Waiting == Producers \cup {Consumer}

TypeOK ==
  /\ queue \in Seq(Events)
  /\ current \in 0 .. Max
  /\ waiters \subseteq Waiting
  /\ running \in BOOLEAN
  /\ ppc \in [Producers -> {"idle", "enqueue", "wait"}]
  /\ begun \in [Producers -> 0 .. Burst]
  /\ cpc \in {"test", "read", "dequeue", "lock", "wait", "handle", "returned"}
  /\ pEvent \in Events \cup {NULL}
  /\ sent \in Seq(Events)
  /\ handled \in Seq(Events)

\* Queue::Init has cleared the queue and Thread::Start has run.
Init ==
  /\ queue = <<>>
  /\ current = 0
  /\ waiters = {}
  /\ running = TRUE
  /\ ppc = [p \in Producers |-> "idle"]
  /\ begun = [p \in Producers |-> 0]
  /\ cpc = "test"
  /\ pEvent = NULL
  /\ sent = <<>>
  /\ handled = <<>>

-----------------------------------------------------------------------------
(* Queue::Enqueue.                                                         *)

BeginEnqueue(p) ==
  /\ running
  /\ ppc[p] = "idle"
  /\ begun[p] < Burst
  /\ begun' = [begun EXCEPT ![p] = @ + 1]
  /\ ppc' = [ppc EXCEPT ![p] = "enqueue"]
  /\ UNCHANGED <<queueVars, running, consumerVars>>

\* The event a producer is trying to enqueue.
EventOf(p) == <<p, begun[p]>>

EnqueuePushes(p) ==
  /\ ppc[p] = "enqueue"
  /\ current < Max
  /\ queue' = Append(queue, EventOf(p))
  /\ sent' = Append(sent, EventOf(p))
  /\ current' = current + 1
  /\ waiters' \in Signal(waiters)
  /\ ppc' = [ppc EXCEPT ![p] = "idle"]
  /\ UNCHANGED <<begun, running, consumerVars>>

\* Fault: a full queue makes Enqueue give the event up.
EnqueueGivesUp(p) ==
  /\ ppc[p] = "enqueue"
  /\ current >= Max
  /\ ppc' = [ppc EXCEPT ![p] = "idle"]
  /\ UNCHANGED <<queueVars, begun, running, consumerVars>>

\* The queue is full: Wait(5000).
EnqueueWaits(p) ==
  /\ ppc[p] = "enqueue"
  /\ current >= Max
  /\ waiters' = waiters \cup {p}
  /\ ppc' = [ppc EXCEPT ![p] = "wait"]
  /\ UNCHANGED <<queue, current, sent, begun, running, consumerVars>>

\* Back from Wait with the lock, Enqueue signals and leaves the critical
\* section before it looks at the counter again.
EnqueueWakes(p) ==
  /\ ppc[p] = "wait"
  /\ p \notin waiters
  /\ waiters' \in Signal(waiters)
  /\ ppc' = [ppc EXCEPT ![p] = "enqueue"]
  /\ UNCHANGED <<queue, current, sent, begun, running, consumerVars>>

-----------------------------------------------------------------------------
(* EventQueue::Run and Queue::Dequeue.                                     *)

TestRun ==
  /\ cpc = "test"
  /\ cpc' = IF running THEN "read" ELSE "returned"
  /\ UNCHANGED <<queueVars, producerVars, running, pEvent, handled>>

\* Fault: Dequeue does not look at the counter.
DequeueDoesNotRead ==
  /\ cpc = "read"
  /\ cpc' = "dequeue"
  /\ UNCHANGED <<queueVars, producerVars, running, pEvent, handled>>

\* Dequeue compares the counter with 0 before it takes the lock.
DequeueReads ==
  /\ cpc = "read"
  /\ cpc' = IF current # 0 THEN "dequeue" ELSE "lock"
  /\ UNCHANGED <<queueVars, producerVars, running, pEvent, handled>>

\* Fault: the newest event is taken.
DequeuePopsBack ==
  /\ cpc = "dequeue"
  /\ pEvent' = queue[Len(queue)]
  /\ queue' = SubSeq(queue, 1, Len(queue) - 1)
  /\ current' = current - 1
  /\ waiters' \in Signal(waiters)
  /\ cpc' = "handle"
  /\ UNCHANGED <<sent, producerVars, running, handled>>

DequeuePops ==
  /\ cpc = "dequeue"
  /\ pEvent' = Head(queue)
  /\ queue' = Tail(queue)
  /\ current' = current - 1
  /\ waiters' \in Signal(waiters)
  /\ cpc' = "handle"
  /\ UNCHANGED <<sent, producerVars, running, handled>>

\* Dequeue returned NULL: Run takes the lock and waits, whatever has been
\* enqueued in between.
RunWaits ==
  /\ cpc = "lock"
  /\ waiters' = waiters \cup {Consumer}
  /\ cpc' = "wait"
  /\ UNCHANGED <<queue, current, sent, producerVars, running, pEvent, handled>>

RunWakes ==
  /\ cpc = "wait"
  /\ Consumer \notin waiters
  /\ cpc' = "test"
  /\ UNCHANGED <<queueVars, producerVars, running, pEvent, handled>>

HandleEvent ==
  /\ cpc = "handle"
  /\ handled' = Append(handled, pEvent)
  /\ pEvent' = NULL
  /\ cpc' = "test"
  /\ UNCHANGED <<queueVars, producerVars, running>>

-----------------------------------------------------------------------------
\* Fault: Wait(0), which has no timeout.
TimesOutNever(x) ==
  /\ x \in waiters
  /\ FALSE
  /\ UNCHANGED vars

\* Wait(5000) runs into its timeout, or returns spuriously.
TimesOut(x) ==
  /\ x \in waiters
  /\ waiters' = waiters \ {x}
  /\ UNCHANGED <<queue, current, sent, running, producerVars, consumerVars>>

\* EventQueue::Kill; main has joined the producers before.
Kill ==
  /\ running
  /\ \A p \in Producers : ppc[p] = "idle"
  /\ running' = FALSE
  /\ UNCHANGED <<queueVars, producerVars, consumerVars>>

Terminated ==
  /\ cpc = "returned"
  /\ UNCHANGED vars

ProducerNext(p) ==
  \/ EnqueuePushes(p)
  \/ EnqueueWaits(p)
  \/ EnqueueWakes(p)

ConsumerNext ==
  \/ TestRun \/ DequeueReads \/ DequeuePops
  \/ RunWaits \/ RunWakes \/ HandleEvent

Next ==
  \/ \E p \in Producers : BeginEnqueue(p) \/ ProducerNext(p)
  \/ ConsumerNext
  \/ \E x \in Waiting : TimesOut(x)
  \/ Kill
  \/ Terminated

Spec == Init /\ [][Next]_vars

-----------------------------------------------------------------------------
(* What the queue owes its users.                                          *)

InHand == IF pEvent = NULL THEN <<>> ELSE <<pEvent>>

\* Whatever was pushed is handled, in the consumer's hand or still queued, in
\* the order it was pushed: the producers' pushes, the consumer's pops and the
\* counter that both of them trust agree, at the capacity limit too.
Conservation ==
  /\ sent = handled \o InHand \o queue
  /\ current = Len(queue)

\* The unlocked look at the counter is safe to act on: front() is never called
\* on an empty list, though producers run between the look and the lock.
DequeueFindsEvent == cpc = "dequeue" => queue # <<>>

\* A call of Enqueue that is still under way has not been accepted.
Accepted(p) == IF ppc[p] = "idle" THEN begun[p] ELSE begun[p] - 1

Channel == INSTANCE EventChannel WITH
             Senders <- Producers,
             Capacity <- Max,
             accepted <- [p \in Producers |-> Accepted(p)],
             received <- handled \o InHand,
             closed <- ~running

\* The queue is a first-in first-out channel of capacity Max, which an event
\* leaves when it is popped.
Implements == Channel!Spec

-----------------------------------------------------------------------------
(* Liveness, under fair scheduling of every thread and of the timeouts.    *)

Fairness ==
  /\ \A p \in Producers : WF_vars(ProducerNext(p))
  /\ WF_vars(ConsumerNext)
  /\ \A x \in Waiting : WF_vars(TimesOut(x))

FairSpec == Spec /\ Fairness

\* Every event pushed is handled, unless the queue is killed.
EveryEventHandled ==
  \A e \in Events :
    (\E i \in DOMAIN sent : sent[i] = e)
      ~> ((\E i \in DOMAIN handled : handled[i] = e) \/ ~running)

\* Every call of Enqueue returns, also when the queue is full and the signal
\* that there is room again has woken somebody else.
EnqueueReturns ==
  \A p \in Producers : ppc[p] # "idle" ~> ppc[p] = "idle"

=============================================================================
