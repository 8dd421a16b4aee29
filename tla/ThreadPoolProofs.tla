-------------------------- MODULE ThreadPoolProofs --------------------------
(***************************************************************************)
(* Proofs about ThreadPool for any number of threads and tasks.  IInv is   *)
(* the inductive invariant; its parts say who may touch a thread: a thread *)
(* in the list of free ones has an empty mailbox and will not clear it,    *)
(* the thread just checked out is off the list, and a dispatched task that *)
(* has not run sits in the mailbox of exactly one thread.                  *)
(***************************************************************************)
EXTENDS ThreadPool, SequenceTheorems, FiniteSetTheorems, TLAPS

Elems(s) == {s[i] : i \in 1 .. Len(s)}

Distinct(s) == \A i, j \in 1 .. Len(s) : s[i] = s[j] => i = j

Live == {"test", "get", "execute", "clear", "checkin"}

FreeInv ==
  /\ Distinct(free)
  /\ \A t \in Elems(free) :
       /\ mailbox[t] = NoTask
       /\ wpc[t] \in {"test", "get", "returned", "deleted", "gone"}

WorkerInv ==
  \A t \in Threads :
    /\ wpc[t] = "new" => mailbox[t] = NoTask
    /\ wpc[t] = "execute" => mailbox[t] # NoTask /\ pTask[t] = mailbox[t]
    /\ wpc[t] = "clear" => mailbox[t] # NoTask /\ executed[mailbox[t]] = 1
    /\ wpc[t] = "checkin" => mailbox[t] = NoTask

MainInv ==
  /\ mpc = "init" => created = 0
  /\ mpc = "init" =>
       \A t \in Threads : wpc[t] = "new" \/ (running[t] /\ wpc[t] \in Live)
  /\ mpc \in {"idle", "dispatch", "checkout", "wait", "settask", "barrier"} =>
       \A t \in Threads : running[t] /\ wpc[t] \in Live
  /\ mpc \in {"checkout", "wait", "settask"} => created >= 1
  /\ mpc = "settask" =>
       /\ pThrd \in Threads
       /\ pThrd \notin Elems(free)
       /\ mailbox[pThrd] = NoTask
       /\ wpc[pThrd] \in {"test", "get"}

TaskInv ==
  /\ \A k \in Tasks : executed[k] \in {0, 1}
  /\ \A k \in Tasks : k > Dispatched => executed[k] = 0
  /\ \A t \in Threads :
       mailbox[t] # NoTask =>
         /\ mailbox[t] <= Dispatched
         /\ wpc[t] # "clear" => executed[mailbox[t]] = 0
  /\ \A t, u \in Threads :
       mailbox[t] = mailbox[u] /\ mailbox[t] # NoTask => t = u
  /\ \A k \in Tasks :
       k <= Dispatched /\ executed[k] = 0 => \E t \in Threads : mailbox[t] = k

IInv == TypeOK /\ FreeInv /\ WorkerInv /\ MainInv /\ TaskInv /\ BarrierComplete

-----------------------------------------------------------------------------
(* Lemmas about lists of distinct elements.                                *)

\* push_back of an element that is not on the list.
LEMMA AppendDistinct ==
  ASSUME NEW S, NEW s \in Seq(S), NEW e \in S, Distinct(s), e \notin Elems(s)
  PROVE  /\ Append(s, e) \in Seq(S)
         /\ Distinct(Append(s, e))
         /\ Elems(Append(s, e)) = Elems(s) \cup {e}
<1>1. /\ Append(s, e) \in Seq(S)
      /\ Len(Append(s, e)) = Len(s) + 1
      /\ Len(s) \in Nat
      /\ \A i \in 1 .. Len(s) : Append(s, e)[i] = s[i]
      /\ Append(s, e)[Len(s) + 1] = e
  OBVIOUS
<1>2. Elems(Append(s, e)) = Elems(s) \cup {e}
  <2>1. 1 .. Len(s) + 1 = (1 .. Len(s)) \cup {Len(s) + 1}
    BY <1>1
  <2> QED BY <1>1, <2>1 DEF Elems
<1>3. Distinct(Append(s, e))
  BY <1>1 DEF Distinct, Elems
<1> QED BY <1>1, <1>2, <1>3

\* front and pop_front.
LEMMA TailDistinct ==
  ASSUME NEW S, NEW s \in Seq(S), Distinct(s), s # <<>>
  PROVE  /\ Head(s) \in S
         /\ Head(s) \in Elems(s)
         /\ Tail(s) \in Seq(S)
         /\ Distinct(Tail(s))
         /\ Elems(Tail(s)) = Elems(s) \ {Head(s)}
<1>1. /\ Len(s) \in Nat \ {0}
      /\ Head(s) = s[1]
      /\ Head(s) \in S
      /\ Tail(s) \in Seq(S)
      /\ Len(Tail(s)) = Len(s) - 1
      /\ \A i \in 1 .. Len(Tail(s)) : Tail(s)[i] = s[i + 1]
  BY HeadTailProperties, EmptySeq
<1>2. Distinct(Tail(s))
  BY <1>1 DEF Distinct
<1>3. Elems(Tail(s)) = Elems(s) \ {Head(s)}
  <2>1. ASSUME NEW x \in Elems(Tail(s)) PROVE x \in Elems(s) \ {Head(s)}
    BY <1>1 DEF Elems, Distinct
  <2>2. ASSUME NEW x \in Elems(s) \ {Head(s)} PROVE x \in Elems(Tail(s))
    <3>1. PICK i \in 1 .. Len(s) : s[i] = x
      BY DEF Elems
    <3>2. i - 1 \in 1 .. Len(Tail(s)) /\ Tail(s)[i - 1] = x
      BY <1>1, <3>1
    <3> QED BY <3>2 DEF Elems
  <2> QED BY <2>1, <2>2
<1>4. Head(s) \in Elems(s)
  <2>1. 1 \in 1 .. Len(s)
    BY <1>1
  <2> QED BY <1>1, <2>1 DEF Elems
<1> QED BY <1>1, <1>2, <1>3, <1>4

\* A list of distinct threads that is as long as the pool holds all of them.
LEMMA FullListHasAll ==
  ASSUME NEW S, IsFiniteSet(S), NEW s \in Seq(S), Distinct(s),
         Len(s) >= Cardinality(S)
  PROVE  Elems(s) = S
<1>1. s \in [1 .. Len(s) -> S] /\ Len(s) \in Nat
  BY LenProperties
<1>2. s \in Injection(1 .. Len(s), S)
  BY <1>1 DEF Distinct, Injection, IsInjective
<1>3. Cardinality(1 .. Len(s)) = Len(s) /\ Cardinality(S) \in Nat
  <2>1. 1 \in Int /\ Len(s) \in Int
    BY <1>1
  <2>2. Cardinality(1 .. Len(s)) = IF 1 > Len(s) THEN 0 ELSE Len(s) - 1 + 1
    BY <2>1, FS_Interval
  <2> QED BY <1>1, <2>2, FS_CardinalityType
<1>4. s \in Surjection(1 .. Len(s), S)
  BY <1>2, <1>3, <1>1, FS_Injection
<1> QED BY <1>4, <1>1 DEF Surjection, Elems

\* The elements of a list are drawn from the set it is a list over.
LEMMA ElemsType ==
  ASSUME NEW S, NEW s \in Seq(S)
  PROVE  Elems(s) \subseteq S
BY ElementOfSeq DEF Elems

-----------------------------------------------------------------------------
(* Type correctness.                                                       *)

LEMMA SignalType ==
  ASSUME NEW S, NEW w \in SUBSET S
  PROVE  Signal(w) \subseteq SUBSET S
BY DEF Signal

\* Every step keeps the variables in their types.
LEMMA TypeStep == IInv /\ [Next]_vars => TypeOK'
<1> SUFFICES ASSUME IInv, [Next]_vars PROVE TypeOK'
  OBVIOUS
<1> TypeOK
  BY DEF IInv
<1> USE NumTasksAssumption DEF TypeOK, Tasks, NoTask, WorkerStates, MainStates,
        mainVars, poolVars, workerVars
<1>1. ASSUME NEW t \in Threads, StartThread(t) PROVE TypeOK'
  BY <1>1 DEF StartThread
<1>2. ASSUME NEW t \in Threads, KillThread(t) PROVE TypeOK'
  BY <1>2 DEF KillThread
<1>3. ASSUME NEW t \in Threads, JoinThread(t) PROVE TypeOK'
  BY <1>3 DEF JoinThread
<1>4. ASSUME NEW t \in Threads, TestRun(t) PROVE TypeOK'
  BY <1>4 DEF TestRun
<1>5. ASSUME NEW t \in Threads, GetTask(t) PROVE TypeOK'
  BY <1>5 DEF GetTask
<1>6. ASSUME NEW t \in Threads, Execute(t) PROVE TypeOK'
  <2>1. pTask[t] \in Tasks
    BY <1>6 DEF Execute, IInv, WorkerInv
  <2>2. executed' \in [Tasks -> Nat]
    BY <1>6, <2>1 DEF Execute
  <2> QED BY <1>6, <2>2 DEF Execute
<1>7. ASSUME NEW t \in Threads, ClearTask(t) PROVE TypeOK'
  BY <1>7 DEF ClearTask
<1>8. ASSUME NEW t \in Threads, CheckIn(t) PROVE TypeOK'
  <2>1. waiters' \subseteq {Main}
    BY <1>8, SignalType DEF CheckIn
  <2> QED BY <1>8, <2>1 DEF CheckIn
<1>9. CASE StartFails
  BY <1>9 DEF StartFails
<1>10. CASE InitReturns
  BY <1>10 DEF InitReturns
<1>11. CASE CreateTask
  BY <1>11 DEF CreateTask
<1>12. CASE CheckOut
  <2>1. Head(free) \in Threads /\ Tail(free) \in Seq(Threads)
    BY <1>12, HeadTailProperties DEF CheckOut
  <2> QED BY <1>12, <2>1 DEF CheckOut
<1>13. CASE CheckOutWaits
  BY <1>13 DEF CheckOutWaits
<1>14. CASE CheckOutWakes
  BY <1>14 DEF CheckOutWakes
<1>15. CASE SetTask
  <2>1. created \in Tasks
    BY <1>15 DEF SetTask, IInv, MainInv
  <2> QED BY <1>15, <2>1 DEF SetTask
<1>16. CASE BatchComplete
  BY <1>16 DEF BatchComplete
<1>18. CASE BarrierPasses
  BY <1>18 DEF BarrierPasses
<1>19. CASE Kill
  BY <1>19 DEF Kill
<1>20. CASE AllKilled
  BY <1>20 DEF AllKilled
<1>21. CASE KillReturns
  BY <1>21 DEF KillReturns
<1>22. CASE CheckOutTimesOut
  BY <1>22 DEF CheckOutTimesOut
<1>23. CASE UNCHANGED vars
  BY <1>23 DEF vars
<1> QED
  BY <1>1, <1>2, <1>3, <1>4, <1>5, <1>6, <1>7, <1>8, <1>9, <1>10, <1>11, <1>12, <1>13, <1>14, <1>15, <1>16, <1>18, <1>19, <1>20, <1>21, <1>22, <1>23
     DEF Next, MainNext, WorkerNext, Terminated

-----------------------------------------------------------------------------
(* Preservation of the invariant.                                          *)

\* Who may touch a thread: the list of free threads, the workers and main.
LEMMA ControlStep == IInv /\ [Next]_vars => (FreeInv /\ WorkerInv /\ MainInv)'
<1> SUFFICES ASSUME IInv, [Next]_vars PROVE (FreeInv /\ WorkerInv /\ MainInv)'
  OBVIOUS
<1> /\ TypeOK /\ FreeInv /\ WorkerInv /\ MainInv /\ TaskInv /\ BarrierComplete
    /\ NumTasks \in Nat /\ Elems(free) \subseteq Threads
  BY NumTasksAssumption, ElemsType DEF IInv, TypeOK
<1> USE DEF FreeInv, WorkerInv, MainInv, Live, TaskInv, TypeOK, Tasks, NoTask, mainVars, poolVars, workerVars
<1>1. ASSUME NEW t \in Threads, StartThread(t) PROVE (FreeInv /\ WorkerInv /\ MainInv)'
  <2>1. t \notin Elems(free)
    BY <1>1 DEF StartThread
  <2>2. Distinct(free') /\ Elems(free') = Elems(free) \cup {t}
    BY <1>1, <2>1, AppendDistinct DEF StartThread
  <2> QED BY <1>1, <2>2 DEF StartThread
<1>2. ASSUME NEW t \in Threads, KillThread(t) PROVE (FreeInv /\ WorkerInv /\ MainInv)'
  BY <1>2 DEF KillThread
<1>3. ASSUME NEW t \in Threads, JoinThread(t) PROVE (FreeInv /\ WorkerInv /\ MainInv)'
  BY <1>3 DEF JoinThread
<1>4. ASSUME NEW t \in Threads, TestRun(t) PROVE (FreeInv /\ WorkerInv /\ MainInv)'
  BY <1>4 DEF TestRun
<1>5. ASSUME NEW t \in Threads, GetTask(t) PROVE (FreeInv /\ WorkerInv /\ MainInv)'
  BY <1>5 DEF GetTask
<1>6. ASSUME NEW t \in Threads, Execute(t) PROVE (FreeInv /\ WorkerInv /\ MainInv)'
  BY <1>6 DEF Execute
<1>7. ASSUME NEW t \in Threads, ClearTask(t) PROVE (FreeInv /\ WorkerInv /\ MainInv)'
  BY <1>7 DEF ClearTask
<1>8. ASSUME NEW t \in Threads, CheckIn(t) PROVE (FreeInv /\ WorkerInv /\ MainInv)'
  <2>1. t \notin Elems(free)
    BY <1>8 DEF CheckIn
  <2>2. Distinct(free') /\ Elems(free') = Elems(free) \cup {t}
    BY <1>8, <2>1, AppendDistinct DEF CheckIn
  <2> QED BY <1>8, <2>2 DEF CheckIn
<1>9. CASE StartFails
  BY <1>9 DEF StartFails
<1>10. CASE InitReturns
  BY <1>10 DEF InitReturns
<1>11. CASE CreateTask
  BY <1>11 DEF CreateTask
<1>12. CASE CheckOut
  <2>1. /\ Head(free) \in Threads /\ Head(free) \in Elems(free)
        /\ Distinct(free') /\ Elems(free') = Elems(free) \ {Head(free)}
    BY <1>12, TailDistinct DEF CheckOut
  <2> QED BY <1>12, <2>1 DEF CheckOut
<1>13. CASE CheckOutWaits
  BY <1>13 DEF CheckOutWaits
<1>14. CASE CheckOutWakes
  BY <1>14 DEF CheckOutWakes
<1>15. CASE SetTask
  BY <1>15 DEF SetTask
<1>16. CASE BatchComplete
  BY <1>16 DEF BatchComplete
<1>18. CASE BarrierPasses
  BY <1>18 DEF BarrierPasses
<1>19. CASE Kill
  BY <1>19 DEF Kill
<1>20. CASE AllKilled
  BY <1>20 DEF AllKilled
<1>21. CASE KillReturns
  <2>1. Distinct(free') /\ Elems(free') = {}
    BY <1>21 DEF KillReturns, Distinct, Elems
  <2> QED BY <1>21, <2>1 DEF KillReturns
<1>22. CASE CheckOutTimesOut
  BY <1>22 DEF CheckOutTimesOut
<1>23. CASE UNCHANGED vars
  BY <1>23 DEF vars, Dispatched
<1> QED
  BY <1>1, <1>2, <1>3, <1>4, <1>5, <1>6, <1>7, <1>8, <1>9, <1>10, <1>11, <1>12,
     <1>13, <1>14, <1>15, <1>16, <1>18, <1>19, <1>20, <1>21, <1>22, <1>23
     DEF Next, MainNext, WorkerNext, Terminated

\* Where every task is.
LEMMA TaskStep == IInv /\ [Next]_vars => TaskInv'
<1> SUFFICES ASSUME IInv, [Next]_vars PROVE TaskInv'
  OBVIOUS
<1> /\ TypeOK /\ FreeInv /\ WorkerInv /\ MainInv /\ TaskInv /\ BarrierComplete
    /\ NumTasks \in Nat /\ Elems(free) \subseteq Threads
  BY NumTasksAssumption, ElemsType DEF IInv, TypeOK
<1> USE DEF TaskInv, TypeOK, Tasks, NoTask, mainVars, poolVars, workerVars
<1>1. ASSUME NEW t \in Threads, StartThread(t) PROVE TaskInv'
  BY <1>1 DEF StartThread, Dispatched
<1>2. ASSUME NEW t \in Threads, KillThread(t) PROVE TaskInv'
  BY <1>2 DEF KillThread, Dispatched
<1>3. ASSUME NEW t \in Threads, JoinThread(t) PROVE TaskInv'
  BY <1>3 DEF JoinThread, Dispatched
<1>4. ASSUME NEW t \in Threads, TestRun(t) PROVE TaskInv'
  BY <1>4 DEF TestRun, Dispatched
<1>5. ASSUME NEW t \in Threads, GetTask(t) PROVE TaskInv'
  BY <1>5 DEF GetTask, Dispatched
<1>6. ASSUME NEW t \in Threads, Execute(t) PROVE TaskInv'
  <2>1. /\ pTask[t] = mailbox[t] /\ mailbox[t] \in Tasks /\ executed[mailbox[t]] = 0
        /\ mailbox[t] <= Dispatched
    BY <1>6 DEF Execute, WorkerInv
  <2>2. mailbox' = mailbox /\ Dispatched' = Dispatched
    BY <1>6 DEF Execute, Dispatched
  <2>3. \A k \in Tasks : executed'[k] = IF k = mailbox[t] THEN 1 ELSE executed[k]
    BY <1>6, <2>1 DEF Execute
  <2>4. wpc'[t] = "clear" /\ \A u \in Threads : u # t => wpc'[u] = wpc[u]
    BY <1>6 DEF Execute
  <2>5. \A k \in Tasks : /\ executed'[k] \in {0, 1}
                         /\ k > Dispatched' => executed'[k] = 0
    <3>1. \A k \in Tasks : k > Dispatched => k # mailbox[t]
      BY <2>1, <1>6 DEF Dispatched
    <3> QED BY <2>2, <2>3, <3>1
  <2>6. ASSUME NEW u \in Threads, mailbox'[u] # NoTask
        PROVE  mailbox'[u] <= Dispatched' /\ (wpc'[u] # "clear" => executed'[mailbox'[u]] = 0)
    <3>1. u # t => mailbox[u] # mailbox[t] /\ mailbox[u] \in Tasks
      BY <2>1, <2>2, <2>6
    <3> QED BY <2>2, <2>3, <2>4, <2>6, <3>1
  <2>7. \A k \in Tasks : k <= Dispatched' /\ executed'[k] = 0 =>
                           \E u \in Threads : mailbox'[u] = k
    BY <2>2, <2>3
  <2> QED BY <2>2, <2>5, <2>6, <2>7
<1>7. ASSUME NEW t \in Threads, ClearTask(t) PROVE TaskInv'
  <2>1. mailbox[t] \in Tasks /\ executed[mailbox[t]] = 1
    BY <1>7 DEF ClearTask, WorkerInv
  <2> QED BY <1>7, <2>1 DEF ClearTask, Dispatched
<1>8. ASSUME NEW t \in Threads, CheckIn(t) PROVE TaskInv'
  BY <1>8 DEF CheckIn, Dispatched
<1>9. CASE StartFails
  BY <1>9 DEF StartFails, Dispatched, MainInv
<1>10. CASE InitReturns
  BY <1>10 DEF InitReturns, Dispatched
<1>11. CASE CreateTask
  BY <1>11 DEF CreateTask, Dispatched
<1>12. CASE CheckOut
  BY <1>12 DEF CheckOut, Dispatched
<1>13. CASE CheckOutWaits
  BY <1>13 DEF CheckOutWaits, Dispatched
<1>14. CASE CheckOutWakes
  BY <1>14 DEF CheckOutWakes, Dispatched
<1>15. CASE SetTask
  <2>1. /\ pThrd \in Threads /\ mailbox[pThrd] = NoTask /\ created \in Tasks
        /\ wpc[pThrd] # "clear" /\ Dispatched = created - 1 /\ Dispatched' = created
    BY <1>15 DEF SetTask, MainInv, Dispatched
  <2>2. \A t \in Threads : mailbox[t] # created
    BY <2>1
  <2>3. \A t \in Threads : mailbox'[t] = IF t = pThrd THEN created ELSE mailbox[t]
    BY <1>15, <2>1 DEF SetTask
  <2>4. UNCHANGED <<executed, wpc>>
    BY <1>15 DEF SetTask
  <2>5. \A k \in Tasks : k <= Dispatched' /\ executed'[k] = 0 =>
                           \E t \in Threads : mailbox'[t] = k
    <3> SUFFICES ASSUME NEW k \in Tasks, k <= created, executed[k] = 0
                 PROVE  \E t \in Threads : mailbox'[t] = k
      BY <2>1, <2>4
    <3>1. CASE k = created
      BY <3>1, <2>1, <2>3
    <3>2. CASE k # created
      <4>1. PICK t \in Threads : mailbox[t] = k
        BY <3>2, <2>1
      <4>2. t # pThrd
        BY <4>1, <2>1
      <4> QED BY <4>1, <4>2, <2>3
    <3> QED BY <3>1, <3>2
  <2>6. \A k \in Tasks : executed'[k] \in {0, 1} /\ (k > Dispatched' => executed'[k] = 0)
    BY <2>1, <2>4
  <2>7. ASSUME NEW t \in Threads, mailbox'[t] # NoTask
        PROVE  mailbox'[t] <= Dispatched' /\ (wpc'[t] # "clear" => executed'[mailbox'[t]] = 0)
    <3>1. CASE t = pThrd
      <4>1. mailbox'[t] = created /\ executed[created] = 0
        BY <3>1, <2>1, <2>3
      <4> QED BY <4>1, <2>1, <2>4
    <3>2. CASE t # pThrd
      <4>1. mailbox'[t] = mailbox[t] /\ mailbox[t] \in Tasks
        BY <3>2, <2>3, <2>7
      <4> QED BY <4>1, <2>1, <2>4, <2>7
    <3> QED BY <3>1, <3>2
  <2>8. \A t, u \in Threads :
          mailbox'[t] = mailbox'[u] /\ mailbox'[t] # NoTask => t = u
    BY <2>2, <2>3
  <2> QED BY <2>5, <2>6, <2>7, <2>8
<1>16. CASE BatchComplete
  BY <1>16 DEF BatchComplete, Dispatched
<1>18. CASE BarrierPasses
  BY <1>18 DEF BarrierPasses, Dispatched
<1>19. CASE Kill
  BY <1>19 DEF Kill, Dispatched
<1>20. CASE AllKilled
  BY <1>20 DEF AllKilled, Dispatched
<1>21. CASE KillReturns
  BY <1>21 DEF KillReturns, Dispatched
<1>22. CASE CheckOutTimesOut
  BY <1>22 DEF CheckOutTimesOut, Dispatched
<1>23. CASE UNCHANGED vars
  BY <1>23 DEF vars, Dispatched
<1> QED
  BY <1>1, <1>2, <1>3, <1>4, <1>5, <1>6, <1>7, <1>8, <1>9, <1>10, <1>11, <1>12,
     <1>13, <1>14, <1>15, <1>16, <1>18, <1>19, <1>20, <1>21, <1>22, <1>23
     DEF Next, MainNext, WorkerNext, Terminated

\* The barrier.
LEMMA BarrierStep == IInv /\ [Next]_vars => BarrierComplete'
<1> SUFFICES ASSUME IInv, [Next]_vars PROVE BarrierComplete'
  OBVIOUS
<1> /\ TypeOK /\ FreeInv /\ WorkerInv /\ MainInv /\ TaskInv /\ BarrierComplete
    /\ NumTasks \in Nat /\ Elems(free) \subseteq Threads
  BY NumTasksAssumption, ElemsType DEF IInv, TypeOK
<1> USE DEF BarrierComplete, TypeOK, Tasks, NoTask, mainVars, poolVars, workerVars
<1>1. ASSUME NEW t \in Threads, StartThread(t) PROVE BarrierComplete'
  BY <1>1 DEF StartThread
<1>2. ASSUME NEW t \in Threads, KillThread(t) PROVE BarrierComplete'
  BY <1>2 DEF KillThread
<1>3. ASSUME NEW t \in Threads, JoinThread(t) PROVE BarrierComplete'
  BY <1>3 DEF JoinThread
<1>4. ASSUME NEW t \in Threads, TestRun(t) PROVE BarrierComplete'
  BY <1>4 DEF TestRun
<1>5. ASSUME NEW t \in Threads, GetTask(t) PROVE BarrierComplete'
  BY <1>5 DEF GetTask
<1>6. ASSUME NEW t \in Threads, Execute(t) PROVE BarrierComplete'
  <2>1. pTask[t] = mailbox[t] /\ mailbox[t] \in Tasks /\ executed[mailbox[t]] = 0
        /\ mailbox[t] <= created
    BY <1>6 DEF Execute, WorkerInv, TaskInv, Dispatched
  <2> QED BY <1>6, <2>1 DEF Execute
<1>7. ASSUME NEW t \in Threads, ClearTask(t) PROVE BarrierComplete'
  BY <1>7 DEF ClearTask
<1>8. ASSUME NEW t \in Threads, CheckIn(t) PROVE BarrierComplete'
  BY <1>8 DEF CheckIn
<1>9. CASE StartFails
  BY <1>9 DEF StartFails
<1>10. CASE InitReturns
  BY <1>10 DEF InitReturns, MainInv
<1>11. CASE CreateTask
  BY <1>11 DEF CreateTask
<1>12. CASE CheckOut
  BY <1>12 DEF CheckOut
<1>13. CASE CheckOutWaits
  BY <1>13 DEF CheckOutWaits
<1>14. CASE CheckOutWakes
  BY <1>14 DEF CheckOutWakes
<1>15. CASE SetTask
  BY <1>15 DEF SetTask
<1>16. CASE BatchComplete
  BY <1>16 DEF BatchComplete
<1>18. CASE BarrierPasses
  <2>1. Elems(free) = Threads
    BY <1>18, ThreadsAssumption, FullListHasAll
       DEF BarrierPasses, GetNumFree, GetSize, FreeInv
  <2>2. Dispatched = created
    BY <1>18 DEF BarrierPasses, Dispatched
  <2>3. \A k \in 1 .. created : executed[k] # 0
    BY <2>1, <2>2 DEF FreeInv, TaskInv
  <2> QED BY <1>18, <2>3 DEF BarrierPasses, TaskInv
<1>19. CASE Kill
  BY <1>19 DEF Kill
<1>20. CASE AllKilled
  BY <1>20 DEF AllKilled
<1>21. CASE KillReturns
  BY <1>21 DEF KillReturns
<1>22. CASE CheckOutTimesOut
  BY <1>22 DEF CheckOutTimesOut
<1>23. CASE UNCHANGED vars
  BY <1>23 DEF vars, Dispatched
<1> QED
  BY <1>1, <1>2, <1>3, <1>4, <1>5, <1>6, <1>7, <1>8, <1>9, <1>10, <1>11, <1>12,
     <1>13, <1>14, <1>15, <1>16, <1>18, <1>19, <1>20, <1>21, <1>22, <1>23
     DEF Next, MainNext, WorkerNext, Terminated

LEMMA InitIInv == Init => IInv
<1> SUFFICES ASSUME Init PROVE IInv
  OBVIOUS
<1> USE NumTasksAssumption DEF Init, Tasks, NoTask
<1>1. TypeOK
  <2>1. free \in Seq(Threads)
    BY EmptySeq
  <2>2. 0 \in 0 .. NumTasks
    OBVIOUS
  <2> QED BY <2>1, <2>2 DEF TypeOK, WorkerStates, MainStates
<1>2. FreeInv /\ WorkerInv /\ MainInv
  BY DEF FreeInv, WorkerInv, MainInv, Elems, Distinct
<1>3. TaskInv /\ BarrierComplete
  BY DEF TaskInv, BarrierComplete, Dispatched
<1> QED BY <1>1, <1>2, <1>3 DEF IInv

LEMMA StepIInv == IInv /\ [Next]_vars => IInv'
BY TypeStep, ControlStep, TaskStep, BarrierStep DEF IInv

-----------------------------------------------------------------------------
(* The theorems.                                                           *)

\* The inductive invariant holds in every reachable state.
THEOREM Invariance == Spec => []IInv
BY InitIInv, StepIInv, PTL DEF Spec

\* The variables stay in their types.
THEOREM TypeCorrect == Spec => []TypeOK
<1>1. IInv => TypeOK
  BY DEF IInv
<1> QED BY <1>1, Invariance, PTL

\* main comes out of the loop that waits for the pool, which reads the list of
\* free threads without the lock, only when every task has been executed.
THEOREM Barrier == Spec => []BarrierComplete
<1>1. IInv => BarrierComplete
  BY DEF IInv
<1> QED BY <1>1, Invariance, PTL

\* No task is lost, handed to two workers or executed twice.
THEOREM Conservation == Spec => []TaskConservation
<1>1. IInv => TaskConservation
  <2> SUFFICES ASSUME IInv, NEW k \in Tasks
               PROVE  /\ executed[k] <= 1
                      /\ k > Dispatched => executed[k] = 0
                      /\ k <= Dispatched =>
                           Cardinality({t \in Threads : Holds(t, k)})
                             = 1 - executed[k]
    BY DEF TaskConservation
  <2>1. executed[k] \in {0, 1} /\ (k > Dispatched => executed[k] = 0)
    BY DEF IInv, TaskInv
  <2>2. CASE executed[k] = 1
    <3>1. {t \in Threads : Holds(t, k)} = {}
      BY <2>2 DEF IInv, TaskInv, Holds, Tasks, NoTask
    <3> QED BY <2>1, <2>2, <3>1, FS_EmptySet
  <2>3. CASE k <= Dispatched /\ executed[k] = 0
    <3>1. PICK t \in Threads : mailbox[t] = k
      BY <2>3 DEF IInv, TaskInv
    <3>2. wpc[t] # "clear"
      BY <2>3, <3>1 DEF IInv, WorkerInv
    <3>3. {u \in Threads : Holds(u, k)} = {t}
      BY <3>1, <3>2 DEF IInv, TaskInv, Holds, Tasks, NoTask
    <3> QED BY <2>1, <2>3, <3>3, FS_Singleton
  <2> QED BY <2>1, <2>2, <2>3
<1> QED BY <1>1, Invariance, PTL

\* A mailbox is assigned only when it is empty and emptied only when its task
\* has been executed: main and the worker never undo each other's write.
THEOREM MailboxDiscipline == Spec => NoOverwrite
<1>1. ASSUME IInv, [Next]_vars, NEW t \in Threads, mailbox'[t] # mailbox[t]
      PROVE  IF mailbox[t] = NoTask
               THEN executed[mailbox'[t]] = 0
               ELSE mailbox'[t] = NoTask /\ executed[mailbox[t]] = 1
  <2> TypeOK /\ WorkerInv /\ MainInv /\ TaskInv
    BY <1>1 DEF IInv
  <2>1. CASE SetTask
    <3>1. t = pThrd /\ mailbox[t] = NoTask /\ mailbox'[t] = created
      BY <1>1, <2>1 DEF SetTask, MainInv, TypeOK
    <3>2. created \in Tasks /\ created > Dispatched
      BY <2>1, NumTasksAssumption DEF SetTask, MainInv, TypeOK, Tasks, Dispatched
    <3> QED BY <3>1, <3>2 DEF TaskInv
  <2>2. CASE \E u \in Threads : ClearTask(u)
    <3>1. ClearTask(t) /\ mailbox'[t] = NoTask
      BY <1>1, <2>2 DEF ClearTask, TypeOK
    <3> QED BY <3>1 DEF ClearTask, WorkerInv
  <2>3. ~SetTask /\ ~(\E u \in Threads : ClearTask(u)) => mailbox' = mailbox
    BY <1>1 DEF Next, MainNext, WorkerNext, Terminated, vars, mainVars, poolVars,
       workerVars, StartThread, KillThread, JoinThread, TestRun, GetTask,
       Execute, CheckIn, StartFails, InitReturns, CreateTask, CheckOut,
       CheckOutWaits, CheckOutWakes, BatchComplete,
       BarrierPasses, Kill, AllKilled, KillReturns, CheckOutTimesOut
  <2> QED BY <1>1, <2>1, <2>2, <2>3
<1>2. IInv /\ [Next]_vars =>
        [\A t \in Threads :
           mailbox'[t] # mailbox[t] =>
             IF mailbox[t] = NoTask
               THEN executed[mailbox'[t]] = 0
               ELSE mailbox'[t] = NoTask /\ executed[mailbox[t]] = 1]_vars
  BY <1>1
<1> QED BY <1>2, Invariance, PTL DEF Spec, NoOverwrite

-----------------------------------------------------------------------------
(* The pool implements TaskDispatch.                                       *)

LEMMA InitRefines == Init => TD!Init
BY DEF Init, TD!Init, TD!Tasks, Tasks, Dispatched, Client

\* SetTask submits, Execute runs, the barrier waits and releases, Kill stops
\* the client; every other step is a stuttering step of TaskDispatch.
LEMMA StepRefines == IInv /\ [Next]_vars => [TD!Next]_(TD!vars)
<1> SUFFICES ASSUME IInv, [Next]_vars PROVE [TD!Next]_(TD!vars)
  OBVIOUS
<1> TypeOK /\ WorkerInv /\ MainInv /\ TaskInv /\ BarrierComplete
  BY DEF IInv
<1> USE NumTasksAssumption
    DEF TypeOK, Tasks, NoTask, mainVars, poolVars, workerVars,
        Client, Dispatched, TD!vars, TD!Tasks
<1>1. ASSUME NEW t \in Threads, StartThread(t) PROVE [TD!Next]_(TD!vars)
  BY <1>1 DEF StartThread
<1>2. ASSUME NEW t \in Threads, KillThread(t) PROVE [TD!Next]_(TD!vars)
  BY <1>2 DEF KillThread
<1>3. ASSUME NEW t \in Threads, JoinThread(t) PROVE [TD!Next]_(TD!vars)
  BY <1>3 DEF JoinThread
<1>4. ASSUME NEW t \in Threads, TestRun(t) PROVE [TD!Next]_(TD!vars)
  BY <1>4 DEF TestRun
<1>5. ASSUME NEW t \in Threads, GetTask(t) PROVE [TD!Next]_(TD!vars)
  BY <1>5 DEF GetTask
<1>6. ASSUME NEW t \in Threads, Execute(t) PROVE [TD!Next]_(TD!vars)
  <2>1. /\ mailbox[t] \in TD!Tasks /\ mailbox[t] <= Dispatched /\ executed[mailbox[t]] = 0
        /\ pTask[t] = mailbox[t]
    BY <1>6 DEF Execute, WorkerInv, TaskInv
  <2>2. executed' = [executed EXCEPT ![mailbox[t]] = 1]
    BY <1>6, <2>1 DEF Execute
  <2>3. TD!Run(mailbox[t])
    BY <1>6, <2>1, <2>2 DEF Execute, TD!Run
  <2> QED BY <2>1, <2>3 DEF TD!Next
<1>7. ASSUME NEW t \in Threads, ClearTask(t) PROVE [TD!Next]_(TD!vars)
  BY <1>7 DEF ClearTask
<1>8. ASSUME NEW t \in Threads, CheckIn(t) PROVE [TD!Next]_(TD!vars)
  BY <1>8 DEF CheckIn
<1>9. CASE StartFails
  BY <1>9 DEF StartFails, TD!Next, TD!Stop
<1>10. CASE InitReturns
  BY <1>10 DEF InitReturns
<1>11. CASE CreateTask
  <2>1. Dispatched' = Dispatched
    BY <1>11 DEF CreateTask
  <2>2. Client' = Client /\ executed' = executed
    BY <1>11 DEF CreateTask
  <2> QED BY <2>1, <2>2
<1>12. CASE CheckOut
  BY <1>12 DEF CheckOut
<1>13. CASE CheckOutWaits
  BY <1>13 DEF CheckOutWaits
<1>14. CASE CheckOutWakes
  BY <1>14 DEF CheckOutWakes
<1>15. CASE SetTask
  BY <1>15 DEF SetTask, MainInv, TD!Next, TD!Submit
<1>16. CASE BatchComplete
  BY <1>16 DEF BatchComplete, TD!Next, TD!Wait
<1>18. CASE BarrierPasses
  <2>1. BarrierComplete'
    BY BarrierStep
  <2>2. \A k \in 1 .. Dispatched : executed[k] = 1
    BY <1>18, <2>1 DEF BarrierPasses, BarrierComplete
  <2>3. TD!Release
    BY <1>18, <2>2 DEF BarrierPasses, TD!Release
  <2> QED BY <2>3 DEF TD!Next
<1>19. CASE Kill
  BY <1>19 DEF Kill, TD!Next, TD!Stop
<1>20. CASE AllKilled
  BY <1>20 DEF AllKilled
<1>21. CASE KillReturns
  BY <1>21 DEF KillReturns
<1>22. CASE CheckOutTimesOut
  BY <1>22 DEF CheckOutTimesOut
<1>23. CASE UNCHANGED vars
  BY <1>23 DEF vars
<1> QED
  BY <1>1, <1>2, <1>3, <1>4, <1>5, <1>6, <1>7, <1>8, <1>9, <1>10, <1>11, <1>12,
     <1>13, <1>14, <1>15, <1>16, <1>18, <1>19, <1>20, <1>21, <1>22, <1>23
     DEF Next, MainNext, WorkerNext, Terminated

\* Every behaviour of the pool is one of TaskDispatch.
THEOREM Refinement == Spec => Implements
BY InitIInv, InitRefines, StepRefines, Invariance, PTL DEF Spec, Implements, TD!Spec

=============================================================================
