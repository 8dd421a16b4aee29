---------------------------- MODULE TaskDispatch ----------------------------
(***************************************************************************)
(* What the thread pool promises the engines that use it, with no threads, *)
(* no lists and no locks: a task handed over runs at most once, tasks run  *)
(* in any order and in parallel with the client, and a client that waits   *)
(* for the pool is released only when everything it has handed over ran.   *)
(***************************************************************************)
EXTENDS Naturals

CONSTANT NumTasks      \* how many tasks the client ever hands over

VARIABLES
  submitted,           \* the tasks 1 .. submitted have been handed over
  runs,                \* how often each task has been executed
  client               \* what the client is doing

vars == <<submitted, runs, client>>

Tasks == 1 .. NumTasks

TypeOK ==
  /\ submitted \in 0 .. NumTasks
  /\ runs \in [Tasks -> {0, 1}]
  /\ client \in {"open", "waiting", "stopped"}

Init ==
  /\ submitted = 0
  /\ runs = [k \in Tasks |-> 0]
  /\ client = "open"

Submit ==
  /\ client = "open"
  /\ submitted < NumTasks
  /\ submitted' = submitted + 1
  /\ UNCHANGED <<runs, client>>

Run(k) ==
  /\ k <= submitted
  /\ runs[k] = 0
  /\ runs' = [runs EXCEPT ![k] = 1]
  /\ UNCHANGED <<submitted, client>>

Wait ==
  /\ client = "open"
  /\ client' = "waiting"
  /\ UNCHANGED <<submitted, runs>>

\* The barrier: no task handed over so far is still to be executed.
Release ==
  /\ client = "waiting"
  /\ \A k \in 1 .. submitted : runs[k] = 1
  /\ client' = "open"
  /\ UNCHANGED <<submitted, runs>>

Stop ==
  /\ client = "open"
  /\ client' = "stopped"
  /\ UNCHANGED <<submitted, runs>>

Next ==
  \/ Submit
  \/ \E k \in Tasks : Run(k)
  \/ Wait
  \/ Release
  \/ Stop

Spec == Init /\ [][Next]_vars

=============================================================================
