------------------------------ MODULE Slicing ------------------------------
(***************************************************************************)
(* The loops with which the engines cut a batch of n items into tasks for  *)
(* a pool of size threads: one bulk of n \div size items for every thread, *)
(* then one task of its own for each of the n % size items that are left.  *)
(* The same two loops dispatch the reading of documents, the encryption of *)
(* their term frequencies, the similarity measurement and the decryption   *)
(* of the results.                                                         *)
(***************************************************************************)
EXTENDS Naturals

CONSTANTS
  MaxItems,            \* bound: batches of up to so many items
  MaxSize              \* bound: pools of up to so many threads

ASSUME MaxAssumption == MaxItems \in Nat /\ MaxSize \in Nat

VARIABLES
  n,                   \* the number of items of the batch
  size,                \* m_oPool->GetSize()
  i,                   \* the loop index
  pc,                  \* which of the two loops is running
  slice,               \* the items of the task handed over last
  tasks,               \* number of tasks handed over so far
  given                \* how often each item has been handed over

vars == <<n, size, i, pc, slice, tasks, given>>

Items   == 0 .. n - 1
PerTask == n \div size     \* iDocumentOnEachThread
Rest    == n % size        \* iReminder
Start   == PerTask * size

\* The same in closed form.
Plan == INSTANCE Batch

TypeOK ==
  /\ n \in 1 .. MaxItems
  /\ size \in 1 .. MaxSize
  /\ i \in 0 .. n
  /\ pc \in {"bulk", "rest", "done"}
  /\ slice \subseteq Nat
  /\ tasks \in Nat
  /\ given \in [Items -> Nat]

\* Empty batches are refused before the loops.  A pool of size 0 divides by
\* zero there; the configuration decides, and is taken to ask for a thread.
Init ==
  /\ n \in 1 .. MaxItems
  /\ size \in 1 .. MaxSize
  /\ i = 0
  /\ pc = "bulk"
  /\ slice = {}
  /\ tasks = 0
  /\ given = [d \in Items |-> 0]

\* Fault: the end of a bulk is taken to be inclusive.
HandOverInclusive(s) ==
  /\ slice' = s \cup {i + PerTask}
  /\ tasks' = tasks + 1
  /\ given' = [d \in Items |-> IF d \in slice' THEN given[d] + 1 ELSE given[d]]

\* A task for the items of s is made and set.
HandOver(s) ==
  /\ slice' = s
  /\ tasks' = tasks + 1
  /\ given' = [d \in Items |-> IF d \in s THEN given[d] + 1 ELSE given[d]]

Bulk ==
  /\ pc = "bulk"
  /\ i < Start
  /\ HandOver(i .. i + PerTask - 1)
  /\ i' = i + PerTask
  /\ UNCHANGED <<n, size, pc>>

\* Fault: what is left is dropped.
BulkEndsBatch ==
  /\ pc = "bulk"
  /\ i >= Start
  /\ pc' = "done"
  /\ UNCHANGED <<n, size, i, slice, tasks, given>>

BulkEnds ==
  /\ pc = "bulk"
  /\ i >= Start
  /\ pc' = IF Rest > 0 THEN "rest" ELSE "done"
  /\ i' = Start
  /\ UNCHANGED <<n, size, slice, tasks, given>>

Single ==
  /\ pc = "rest"
  /\ i < Start + Rest
  /\ HandOver({i})
  /\ i' = i + 1
  /\ UNCHANGED <<n, size, pc>>

SingleEnds ==
  /\ pc = "rest"
  /\ i >= Start + Rest
  /\ pc' = "done"
  /\ UNCHANGED <<n, size, i, slice, tasks, given>>

Done ==
  /\ pc = "done"
  /\ UNCHANGED vars

Next == Bulk \/ BulkEnds \/ Single \/ SingleEnds \/ Done

Spec == Init /\ [][Next]_vars

-----------------------------------------------------------------------------
\* No task reaches past the end of the vector the batch was cut from, and no
\* item goes to two tasks: two threads never write the same document's file.
Disjoint ==
  /\ slice \subseteq Items
  /\ \A d \in Items : given[d] <= 1

\* The k-th task is the k-th of the plan: the modules of the engines may speak
\* of the tasks of a batch without running these loops.
Layout ==
  tasks > 0 => slice = Plan!First(n, size, tasks) .. Plan!Last(n, size, tasks)

\* When the loops end every item has gone to a task, and no more tasks were
\* made than one for every thread and one for every item left over.
Covered ==
  pc = "done" =>
    /\ \A d \in Items : given[d] = 1
    /\ tasks = Plan!NumSlices(n, size)

=============================================================================
