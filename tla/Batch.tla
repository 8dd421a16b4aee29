------------------------------- MODULE Batch -------------------------------
(***************************************************************************)
(* How the engines cut a batch of n items, numbered from 0, into tasks for *)
(* a pool of size threads, in closed form: size bulks of n \div size items *)
(* and a task of its own for each of the n % size items that are left.     *)
(* Slicing shows that the loops in the code compute exactly this.          *)
(***************************************************************************)
EXTENDS Naturals, Sequences, Functions

PerTask(n, size)   == n \div size
Rest(n, size)      == n % size
Bulks(n, size)     == IF PerTask(n, size) > 0 THEN size ELSE 0
NumSlices(n, size) == Bulks(n, size) + Rest(n, size)

\* The first and the last item of the k-th task, k = 1, 2, ...
First(n, size, k) ==
  IF k <= Bulks(n, size)
  THEN (k - 1) * PerTask(n, size)
  ELSE PerTask(n, size) * size + (k - Bulks(n, size) - 1)

Last(n, size, k) ==
  IF k <= Bulks(n, size)
  THEN First(n, size, k) + PerTask(n, size) - 1
  ELSE First(n, size, k)

\* The k-th task's part of a vector s.
SliceOf(s, size, k) ==
  SubSeq(s, First(Len(s), size, k) + 1, Last(Len(s), size, k) + 1)

-----------------------------------------------------------------------------
\* What the tasks have to deal with, and what is left of batch s for a pool
\* of size threads when k tasks have been handed over.
InWork(tasks)    == UNION {Range(t) : t \in tasks}
Left(s, size, k) == {s[i] : i \in First(Len(s), size, k + 1) + 1 .. Len(s)}

=============================================================================
