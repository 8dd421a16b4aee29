----------------------------- MODULE ThreadPool -----------------------------
(***************************************************************************)
(* ThreadPool and Thread: a fixed set of worker threads, the list of free  *)
(* ones, and the main thread that checks a worker out of the list, puts a  *)
(* task into its mailbox (m_pTask_) and, at the end of a batch, polls      *)
(* until the list is as long as the pool.  A worker polls its mailbox,     *)
(* executes what it finds, empties the mailbox and checks itself in.       *)
(*                                                                         *)
(* Tasks are numbers: task k is the k-th one the engines create.  What a   *)
(* task does is left to the modules of the engines; here it only matters   *)
(* how often it is executed.                                               *)
(***************************************************************************)
EXTENDS Naturals, Sequences, FiniteSets, Mutex

CONSTANTS
  Threads,             \* the worker threads (m_iSize_ = Cardinality(Threads))
  Main,                \* the thread of main, which runs the engines
  NULL,                \* no thread
  NumTasks             \* bound: how many tasks the engines create in a run

ASSUME ThreadsAssumption == IsFiniteSet(Threads) /\ {Main, NULL} \cap Threads = {}
ASSUME NumTasksAssumption == NumTasks \in Nat

VARIABLES
  free,                \* m_oFree_: the threads that may be checked out, in order
  running,             \* m_bRun_ of every thread
  mailbox,             \* m_pTask_ of every thread, NoTask when it is NULL
  pTask,               \* the local copy of its task that a worker executes
  wpc,                 \* where every worker is in Thread::Run
  waiters,             \* the threads in Wait on the pool's mutex
  mpc,                 \* where the main thread is
  pThrd,               \* the thread that CheckOut returned last
  created,             \* number of tasks created so far
  executed             \* history: how often each task has been executed

poolVars   == <<free, waiters>>
workerVars == <<running, mailbox, pTask, wpc, executed>>
mainVars   == <<mpc, pThrd, created>>
vars       == <<free, waiters, running, mailbox, pTask, wpc, executed,
                mpc, pThrd, created>>

Tasks  == 1 .. NumTasks
NoTask == 0
GetSize == Cardinality(Threads)
GetNumFree == Len(free)

WorkerStates == {"new", "test", "get", "execute", "clear", "checkin",
                 "returned", "deleted", "gone"}
MainStates == {"init", "idle", "dispatch", "checkout", "wait", "settask",
               "barrier", "kill", "join", "done", "exit"}

TypeOK ==
  /\ free \in Seq(Threads)
  /\ running \in [Threads -> BOOLEAN]
  /\ mailbox \in [Threads -> Tasks \cup {NoTask}]
  /\ pTask \in [Threads -> Tasks \cup {NoTask}]
  /\ wpc \in [Threads -> WorkerStates]
  /\ waiters \subseteq {Main}
  /\ mpc \in MainStates
  /\ pThrd \in Threads \cup {NULL}
  /\ created \in 0 .. NumTasks
  /\ executed \in [Tasks -> Nat]

Init ==
  /\ free = <<>>
  /\ running = [t \in Threads |-> FALSE]
  /\ mailbox = [t \in Threads |-> NoTask]
  /\ pTask = [t \in Threads |-> NoTask]
  /\ wpc = [t \in Threads |-> "new"]
  /\ waiters = {}
  /\ mpc = "init"
  /\ pThrd = NULL
  /\ created = 0
  /\ executed = [k \in Tasks |-> 0]

-----------------------------------------------------------------------------
(* ThreadPool::Init, called once by main.                                  *)

\* Fault: Start forgets to set m_bRun_.
StartThreadNotRunning(t) ==
  /\ mpc = "init"
  /\ wpc[t] = "new"
  /\ wpc' = [wpc EXCEPT ![t] = "test"]
  /\ free' = Append(free, t)
  /\ UNCHANGED <<running, mailbox, pTask, executed, waiters, mainVars>>

\* One turn of the loop: the thread is started and put on both lists.
StartThread(t) ==
  /\ mpc = "init"
  /\ wpc[t] = "new"
  /\ running' = [running EXCEPT ![t] = TRUE]
  /\ wpc' = [wpc EXCEPT ![t] = "test"]
  /\ free' = Append(free, t)
  /\ UNCHANGED <<mailbox, pTask, executed, waiters, mainVars>>

\* pthread_create fails: Init returns false and main calls exit, which ends
\* the workers that are already running.
StartFails ==
  /\ mpc = "init"
  /\ \E t \in Threads : wpc[t] = "new"
  /\ wpc' = [t \in Threads |-> "gone"]
  /\ mpc' = "exit"
  /\ UNCHANGED <<free, waiters, running, mailbox, pTask, executed,
                 pThrd, created>>

InitReturns ==
  /\ mpc = "init"
  /\ \A t \in Threads : wpc[t] # "new"
  /\ mpc' = "idle"
  /\ UNCHANGED <<poolVars, workerVars, pThrd, created>>

-----------------------------------------------------------------------------
(* The engines, on the main thread.                                        *)

\* A task object is made for the next slice of a batch.
CreateTask ==
  /\ mpc \in {"idle", "dispatch"}
  /\ created < NumTasks
  /\ created' = created + 1
  /\ mpc' = "checkout"
  /\ UNCHANGED <<poolVars, workerVars, pThrd>>

\* Fault: front without pop_front.
CheckOutPeeks ==
  /\ mpc = "checkout"
  /\ free # <<>>
  /\ pThrd' = Head(free)
  /\ mpc' = "settask"
  /\ UNCHANGED <<poolVars, workerVars, created>>

\* CheckOut finds a free thread.
CheckOut ==
  /\ mpc = "checkout"
  /\ free # <<>>
  /\ pThrd' = Head(free)
  /\ free' = Tail(free)
  /\ mpc' = "settask"
  /\ UNCHANGED <<waiters, workerVars, created>>

\* CheckOut finds none and waits, releasing the lock in the same step.
CheckOutWaits ==
  /\ mpc = "checkout"
  /\ free = <<>>
  /\ waiters' = waiters \cup {Main}
  /\ mpc' = "wait"
  /\ UNCHANGED <<free, workerVars, pThrd, created>>

\* Wait returns because of a signal; CheckOut takes another turn of its loop.
CheckOutWakes ==
  /\ mpc = "wait"
  /\ Main \notin waiters
  /\ mpc' = "checkout"
  /\ UNCHANGED <<poolVars, workerVars, pThrd, created>>

\* Wait(1000) returns after its second, or spuriously.
CheckOutTimesOut ==
  /\ mpc = "wait"
  /\ Main \in waiters
  /\ waiters' = waiters \ {Main}
  /\ mpc' = "checkout"
  /\ UNCHANGED <<free, workerVars, pThrd, created>>

SetTask ==
  /\ mpc = "settask"
  /\ mailbox' = [mailbox EXCEPT ![pThrd] = created]
  /\ mpc' = "dispatch"
  /\ UNCHANGED <<poolVars, running, pTask, wpc, executed, pThrd, created>>

\* Every slice of the batch has its task: the loop that waits for the pool.
BatchComplete ==
  /\ mpc = "dispatch"
  /\ mpc' = "barrier"
  /\ UNCHANGED <<poolVars, workerVars, pThrd, created>>

\* Fault: the barrier leaves one thread out.
BarrierPassesEarly ==
  /\ mpc = "barrier"
  /\ GetNumFree + 1 >= GetSize
  /\ mpc' = "idle"
  /\ UNCHANGED <<poolVars, workerVars, pThrd, created>>

\* The poll of GetNumFree, which reads the list without the lock, succeeds.
BarrierPasses ==
  /\ mpc = "barrier"
  /\ GetNumFree >= GetSize
  /\ mpc' = "idle"
  /\ UNCHANGED <<poolVars, workerVars, pThrd, created>>

-----------------------------------------------------------------------------
(* ThreadPool::Kill, called by main when it leaves its menu.               *)

Kill ==
  /\ mpc = "idle"
  /\ mpc' = "kill"
  /\ UNCHANGED <<poolVars, workerVars, pThrd, created>>

\* Thread::Kill on one of the threads.
KillThread(t) ==
  /\ mpc = "kill"
  /\ running[t]
  /\ running' = [running EXCEPT ![t] = FALSE]
  /\ UNCHANGED <<poolVars, mailbox, pTask, wpc, executed, mainVars>>

AllKilled ==
  /\ mpc = "kill"
  /\ \A t \in Threads : ~running[t]
  /\ mpc' = "join"
  /\ UNCHANGED <<poolVars, workerVars, pThrd, created>>

\* Thread::Join returns and the thread object is deleted.
JoinThread(t) ==
  /\ mpc = "join"
  /\ wpc[t] = "returned"
  /\ wpc' = [wpc EXCEPT ![t] = "deleted"]
  /\ UNCHANGED <<poolVars, running, mailbox, pTask, executed, mainVars>>

KillReturns ==
  /\ mpc = "join"
  /\ \A t \in Threads : wpc[t] = "deleted"
  /\ free' = <<>>
  /\ mpc' = "done"
  /\ UNCHANGED <<waiters, workerVars, pThrd, created>>

-----------------------------------------------------------------------------
(* Thread::Run of worker t.                                                *)

TestRun(t) ==
  /\ wpc[t] = "test"
  /\ wpc' = [wpc EXCEPT ![t] = IF running[t] THEN "get" ELSE "returned"]
  /\ UNCHANGED <<poolVars, running, mailbox, pTask, executed, mainVars>>

\* The mailbox is copied without a lock while main may be assigning it; the
\* copy sees either the old or the new pointer.  NULL: sleep for a second.
GetTask(t) ==
  /\ wpc[t] = "get"
  /\ pTask' = [pTask EXCEPT ![t] = mailbox[t]]
  /\ wpc' = [wpc EXCEPT ![t] = IF mailbox[t] = NoTask THEN "test"
                                                      ELSE "execute"]
  /\ UNCHANGED <<poolVars, running, mailbox, executed, mainVars>>

Execute(t) ==
  /\ wpc[t] = "execute"
  /\ executed' = [executed EXCEPT ![pTask[t]] = @ + 1]
  /\ wpc' = [wpc EXCEPT ![t] = "clear"]
  /\ UNCHANGED <<poolVars, running, mailbox, pTask, mainVars>>

\* Fault: SetTask(NULL) is missing.
ClearTaskForgets(t) ==
  /\ wpc[t] = "clear"
  /\ wpc' = [wpc EXCEPT ![t] = "checkin"]
  /\ UNCHANGED <<poolVars, running, mailbox, pTask, executed, mainVars>>

ClearTask(t) ==
  /\ wpc[t] = "clear"
  /\ mailbox' = [mailbox EXCEPT ![t] = NoTask]
  /\ wpc' = [wpc EXCEPT ![t] = "checkin"]
  /\ UNCHANGED <<poolVars, running, pTask, executed, mainVars>>

\* Fault: no signal to the thread that waits in CheckOut.
CheckInSilently(t) ==
  /\ wpc[t] = "checkin"
  /\ free' = Append(free, t)
  /\ pTask' = [pTask EXCEPT ![t] = NoTask]
  /\ wpc' = [wpc EXCEPT ![t] = "test"]
  /\ UNCHANGED <<waiters, running, mailbox, executed, mainVars>>

CheckIn(t) ==
  /\ wpc[t] = "checkin"
  /\ free' = Append(free, t)
  /\ waiters' \in Signal(waiters)
  /\ pTask' = [pTask EXCEPT ![t] = NoTask]
  /\ wpc' = [wpc EXCEPT ![t] = "test"]
  /\ UNCHANGED <<running, mailbox, executed, mainVars>>

-----------------------------------------------------------------------------
WorkerNext(t) ==
  \/ TestRun(t)
  \/ GetTask(t)
  \/ Execute(t)
  \/ ClearTask(t)
  \/ CheckIn(t)

MainNext ==
  \/ StartFails \/ InitReturns
  \/ CreateTask \/ CheckOut \/ CheckOutWaits \/ CheckOutWakes \/ SetTask
  \/ BatchComplete \/ BarrierPasses
  \/ Kill \/ AllKilled \/ KillReturns
  \/ \E t \in Threads : StartThread(t) \/ KillThread(t) \/ JoinThread(t)

\* The process has ended.
Terminated ==
  /\ mpc \in {"done", "exit"}
  /\ UNCHANGED vars

Next ==
  \/ MainNext
  \/ CheckOutTimesOut
  \/ \E t \in Threads : WorkerNext(t)
  \/ Terminated

Spec == Init /\ [][Next]_vars

-----------------------------------------------------------------------------
(* What the pool owes its engines.                                         *)

Dispatched == IF mpc \in {"checkout", "wait", "settask"} THEN created - 1
                                                         ELSE created

\* Worker t is responsible for task k and has not executed it yet.
Holds(t, k) == mailbox[t] = k /\ wpc[t] # "clear"

\* A task that was dispatched is in the hands of exactly one worker until
\* that worker has executed it, and it is executed once and never again:
\* SetTask never hands a task to a worker whose ClearTask is still to come.
TaskConservation ==
  \A k \in Tasks :
    /\ executed[k] <= 1
    /\ k > Dispatched => executed[k] = 0
    /\ k <= Dispatched =>
         Cardinality({t \in Threads : Holds(t, k)}) = 1 - executed[k]

\* An engine that has come out of the loop that waits for the pool finds
\* every task executed; so main never kills the pool under a task that still
\* sits in a mailbox.
BarrierComplete ==
  mpc \in {"idle", "kill", "join", "done"} =>
    \A k \in 1 .. created : executed[k] = 1

\* The mailbox of a worker changes only from empty to a task or, once that
\* task has been executed, back to empty.
NoOverwrite ==
  [][\A t \in Threads :
       mailbox'[t] # mailbox[t] =>
         IF mailbox[t] = NoTask THEN executed[mailbox'[t]] = 0
                                ELSE mailbox'[t] = NoTask /\ executed[mailbox[t]] = 1]_vars

Client ==
  CASE mpc = "barrier" -> "waiting"
    [] mpc \in {"kill", "join", "done", "exit"} -> "stopped"
    [] OTHER -> "open"

TD == INSTANCE TaskDispatch WITH
        submitted <- Dispatched, runs <- executed, client <- Client

\* The pool keeps the promise of TaskDispatch: tasks run at most once, and
\* only what has run is behind the barrier.
Implements == TD!Spec

-----------------------------------------------------------------------------
(* Liveness.  The scheduler is fair to every thread, and main is busy      *)
(* except in its menu, where it may stay.  Nothing is assumed of the       *)
(* timeout of Wait(1000): a waiting CheckOut is woken by a signal.         *)

MainBusy == mpc # "idle" /\ MainNext

Fairness ==
  /\ WF_vars(MainBusy)
  /\ \A t \in Threads : WF_vars(WorkerNext(t))

FairSpec == Spec /\ Fairness

\* Every task that is dispatched is executed.
EveryTaskRuns ==
  \A k \in Tasks : (k <= Dispatched) ~> (executed[k] = 1)

\* Waiting for a free thread, for the pool and for the threads to join ends.
MainReturns ==
  (mpc # "idle") ~> (mpc \in {"idle", "done", "exit"})

=============================================================================
