--------------------------- MODULE SlicingProofs ---------------------------
(***************************************************************************)
(* Proofs about Slicing for batches and pools of every size.  The loops    *)
(* have handed over exactly the items below the index, each once; in the   *)
(* first loop the index is the number of tasks times the size of a bulk.   *)
(***************************************************************************)
EXTENDS Slicing, TLAPS

IInv ==
  /\ TypeOK
  /\ slice \subseteq Items
  /\ \A d \in Items : given[d] = IF d < i THEN 1 ELSE 0
  /\ pc = "bulk" => i = tasks * PerTask /\ tasks <= size
  /\ pc = "bulk" /\ PerTask = 0 => tasks = 0
  /\ pc = "rest" =>
       /\ i >= Start
       /\ tasks = (IF PerTask > 0 THEN size ELSE 0) + (i - Start)
  /\ pc = "done" =>
       /\ i = n
       /\ tasks = (IF PerTask > 0 THEN size ELSE 0) + Rest
  /\ Layout

-----------------------------------------------------------------------------
\* Division with remainder.
LEMMA DivMod ==
  ASSUME NEW a \in Nat, NEW b \in Nat \ {0}
  PROVE  /\ a \div b \in Nat
         /\ a % b \in 0 .. b - 1
         /\ a = (a \div b) * b + (a % b)
OBVIOUS

\* The product is monotonic, and a bulk that is begun fits.
LEMMA Fits ==
  ASSUME NEW t \in Nat, NEW p \in Nat, NEW s \in Nat, t * p < p * s
  PROVE  t < s /\ t * p + p <= p * s /\ (t + 1) * p = t * p + p
<1>1. t < s
  <2> SUFFICES ASSUME s <= t PROVE FALSE
    OBVIOUS
  <2>1. p * s <= t * p
    OBVIOUS
  <2> QED BY <2>1
<1>2. (t + 1) * p = t * p + p
  OBVIOUS
<1>3. (t + 1) * p <= p * s
  BY <1>1
<1> QED BY <1>1, <1>2, <1>3

-----------------------------------------------------------------------------
\* What the actions use of the arithmetic.
LEMMA Arithmetic ==
  ASSUME TypeOK
  PROVE  /\ n \in Nat \ {0} /\ size \in Nat \ {0} /\ i \in Nat
         /\ PerTask \in Nat /\ Rest \in Nat /\ Start \in Nat
         /\ n = Start + Rest
<1>1. n \in Nat \ {0} /\ size \in Nat \ {0} /\ i \in Nat
  BY MaxAssumption DEF TypeOK
<1> QED BY <1>1, DivMod DEF PerTask, Rest, Start

\* Where the plan puts a bulk and where it puts what is left.
LEMMA PlanOfBulk ==
  ASSUME NEW k \in Nat, size \in Nat, k < size, PerTask > 0
  PROVE  /\ Plan!First(n, size, k + 1) = ((k + 1) - 1) * PerTask
         /\ Plan!Last(n, size, k + 1) = ((k + 1) - 1) * PerTask + PerTask - 1
<1>1. Plan!PerTask(n, size) = PerTask
  BY DEF Plan!PerTask, PerTask
<1>2. Plan!Bulks(n, size) = size
  BY <1>1 DEF Plan!Bulks
<1>3. k + 1 <= size
  OBVIOUS
<1> QED BY <1>1, <1>2, <1>3 DEF Plan!First, Plan!Last

LEMMA PlanOfRest ==
  ASSUME NEW k \in Nat, size \in Nat, k >= (IF PerTask > 0 THEN size ELSE 0)
  PROVE  LET bulks == IF PerTask > 0 THEN size ELSE 0 IN
         /\ Plan!First(n, size, k + 1) = Start + ((k + 1) - bulks - 1)
         /\ Plan!Last(n, size, k + 1) = Start + ((k + 1) - bulks - 1)
<1>1. Plan!PerTask(n, size) = PerTask /\ Plan!PerTask(n, size) * size = Start
  BY DEF Plan!PerTask, PerTask, Start
<1>2. Plan!Bulks(n, size) = IF PerTask > 0 THEN size ELSE 0
  BY <1>1 DEF Plan!Bulks
<1>3. ~(k + 1 <= Plan!Bulks(n, size))
  BY <1>2
<1> QED BY <1>1, <1>2, <1>3 DEF Plan!First, Plan!Last

LEMMA InitIInv == Init => IInv
<1> SUFFICES ASSUME Init PROVE IInv
  OBVIOUS
<1>1. n \in Nat \ {0} /\ size \in Nat \ {0}
  BY MaxAssumption DEF Init
<1>2. TypeOK
  BY <1>1 DEF Init, TypeOK, Items
<1>3. 0 * PerTask = 0
  BY <1>1, <1>2, Arithmetic
<1> QED BY <1>1, <1>2, <1>3 DEF Init, IInv, Items, Layout

\* Every step preserves the invariant.
LEMMA StepIInv == IInv /\ [Next]_vars => IInv'
<1> SUFFICES ASSUME IInv, [Next]_vars PROVE IInv'
  OBVIOUS
<1> /\ n \in Nat \ {0} /\ size \in Nat \ {0} /\ i \in Nat
    /\ PerTask \in Nat /\ Rest \in Nat /\ Start \in Nat
    /\ n = Start + Rest
  BY Arithmetic DEF IInv
<1>1. CASE Bulk
  <2>1. tasks * PerTask < PerTask * size /\ i = tasks * PerTask /\ tasks \in Nat
    BY <1>1 DEF Bulk, IInv, TypeOK, Start
  <2>2. /\ tasks < size
        /\ i + PerTask <= Start
        /\ (tasks + 1) * PerTask = i + PerTask
    BY <2>1, Fits DEF Start
  <2>3. PerTask > 0
    BY <1>1, <2>1, <2>2 DEF Bulk
  <2> HIDE DEF PerTask, Rest, Start
  <2>4. /\ n' = n /\ size' = size /\ PerTask' = PerTask /\ Rest' = Rest
        /\ Start' = Start /\ Items' = Items
    BY <1>1 DEF Bulk, PerTask, Rest, Start, Items
  <2>5. slice' \subseteq Items /\ slice' \subseteq Nat
    BY <1>1, <2>2 DEF Bulk, HandOver, Items
  <2>6. \A d \in Items : given'[d] = IF d < i' THEN 1 ELSE 0
    BY <1>1, <2>2 DEF Bulk, HandOver, IInv, Items
  <2>7. given' \in [Items -> Nat]
    BY <1>1 DEF Bulk, HandOver, IInv, TypeOK
  <2>8. i' = tasks' * PerTask /\ tasks' <= size /\ tasks' \in Nat /\ i' \in 0 .. n
    BY <1>1, <2>1, <2>2 DEF Bulk, HandOver
  <2>9. pc' = "bulk"
    BY <1>1 DEF Bulk
  <2>10. TypeOK'
    BY <2>4, <2>5, <2>7, <2>8, <2>9 DEF IInv, TypeOK
  <2>11. slice' \subseteq Items' /\ \A d \in Items' : given'[d] = IF d < i' THEN 1 ELSE 0
    BY <2>4, <2>5, <2>6
  <2>12. i' = tasks' * PerTask' /\ tasks' <= size' /\ PerTask' # 0
    BY <2>3, <2>4, <2>8
  <2>13. slice' = i .. i + PerTask - 1 /\ tasks' = tasks + 1 /\ i = ((tasks + 1) - 1) * PerTask
    BY <1>1, <2>1 DEF Bulk, HandOver
  <2>14. /\ Plan!First(n, size, tasks + 1) = ((tasks + 1) - 1) * PerTask
         /\ Plan!Last(n, size, tasks + 1) = ((tasks + 1) - 1) * PerTask + PerTask - 1
    <3>1. size \in Nat
      OBVIOUS
    <3> QED BY <3>1, <2>1, <2>2, <2>3, PlanOfBulk
  <2>15. Layout'
    BY <2>4, <2>13, <2>14 DEF Layout
  <2> QED BY <2>9, <2>10, <2>11, <2>12, <2>15 DEF IInv
<1>2. CASE BulkEnds
  <2>1. UNCHANGED <<n, size, PerTask, Rest, Start, Items, slice, tasks, given>>
    BY <1>2 DEF BulkEnds, PerTask, Rest, Start, Items
  <2>2. i = tasks * PerTask /\ tasks <= size /\ tasks \in Nat /\ i >= Start
    BY <1>2 DEF BulkEnds, IInv, TypeOK
  <2>3. i = Start /\ tasks = IF PerTask > 0 THEN size ELSE 0
    <3>1. CASE PerTask > 0
      <4>1. tasks < size => tasks * PerTask < PerTask * size
        BY <3>1, <2>2
      <4>2. tasks = size
        BY <2>2, <4>1 DEF Start
      <4> QED BY <3>1, <4>2, <2>2 DEF Start
    <3>2. CASE PerTask = 0
      BY <1>2, <3>2, <2>2 DEF BulkEnds, IInv, Start
    <3> QED BY <3>1, <3>2
  <2> HIDE DEF PerTask, Rest, Start
  <2>4. i' = i /\ pc' = IF Rest > 0 THEN "rest" ELSE "done"
    BY <1>2, <2>3 DEF BulkEnds
  <2>5. Layout'
    BY <2>1 DEF IInv, Layout
  <2> QED BY <2>1, <2>3, <2>4, <2>5 DEF IInv, TypeOK
<1>3. CASE Single
  <2>1. UNCHANGED <<n, size, PerTask, Rest, Start, Items, pc>>
    BY <1>3 DEF Single, PerTask, Rest, Start, Items
  <2> HIDE DEF PerTask, Rest, Start
  <2>2. /\ i >= Start /\ i < n /\ i' = i + 1 /\ tasks' = tasks + 1 /\ pc = "rest"
        /\ tasks = (IF PerTask > 0 THEN size ELSE 0) + (i - Start)
        /\ tasks \in Nat
    BY <1>3 DEF Single, HandOver, IInv, TypeOK
  <2>3. slice' = {i} /\ slice' \subseteq Items
    BY <1>3, <2>2 DEF Single, HandOver, Items
  <2>4. \A d \in Items : given'[d] = IF d < i' THEN 1 ELSE 0
    BY <1>3, <2>2 DEF Single, HandOver, IInv, Items
  <2>5. given' \in [Items -> Nat]
    BY <1>3 DEF Single, HandOver, IInv, TypeOK
  <2>6. tasks' \in Nat /\ tasks' = (IF PerTask > 0 THEN size ELSE 0) + (i' - Start)
    BY <2>2
  <2>7. /\ Plan!First(n, size, tasks + 1) = i
        /\ Plan!Last(n, size, tasks + 1) = i
    <3>1. tasks >= IF PerTask > 0 THEN size ELSE 0
      BY <2>2
    <3>2. size \in Nat
      OBVIOUS
    <3>3. LET bulks == IF PerTask > 0 THEN size ELSE 0 IN
            /\ Plan!First(n, size, tasks + 1) = Start + ((tasks + 1) - bulks - 1)
            /\ Plan!Last(n, size, tasks + 1) = Start + ((tasks + 1) - bulks - 1)
      BY <2>2, <3>1, <3>2, PlanOfRest
    <3> QED BY <2>2, <3>3
  <2>8. Layout'
    BY <2>1, <2>2, <2>3, <2>7 DEF Layout
  <2> QED BY <2>1, <2>2, <2>3, <2>4, <2>5, <2>6, <2>8 DEF IInv, TypeOK, Items
<1>4. CASE SingleEnds
  <2>1. UNCHANGED <<n, size, i, PerTask, Rest, Start, Items, slice, tasks, given>>
    BY <1>4 DEF SingleEnds, PerTask, Rest, Start, Items
  <2> HIDE DEF PerTask, Rest, Start
  <2>2. pc' = "done" /\ i = n
    BY <1>4 DEF SingleEnds, IInv, TypeOK
  <2>3. Layout'
    BY <2>1 DEF IInv, Layout
  <2> QED BY <1>4, <2>1, <2>2, <2>3 DEF SingleEnds, IInv, TypeOK
<1>5. CASE UNCHANGED vars
  <2>1. UNCHANGED <<n, size, i, pc, PerTask, Rest, Start, Items, slice, tasks, given>>
    BY <1>5 DEF vars, PerTask, Rest, Start, Items
  <2>2. Layout'
    BY <2>1 DEF IInv, Layout
  <2> HIDE DEF PerTask, Rest, Start
  <2> QED BY <2>1, <2>2 DEF IInv, TypeOK
<1> QED BY <1>1, <1>2, <1>3, <1>4, <1>5 DEF Next, Done

-----------------------------------------------------------------------------
\* The inductive invariant holds in every reachable state.
THEOREM Invariance == Spec => []IInv
BY InitIInv, StepIInv, PTL DEF Spec

\* The loop index, the counters and the tasks made keep their type.
THEOREM TypeCorrect == Spec => []TypeOK
<1>1. IInv => TypeOK
  BY DEF IInv
<1> QED BY <1>1, Invariance, PTL

\* No task reaches past the end of the batch and no item goes to two tasks,
\* whatever the size of the batch and of the pool.
THEOREM SlicesDisjoint == Spec => []Disjoint
<1>1. IInv => Disjoint
  BY DEF IInv, Disjoint
<1> QED BY <1>1, Invariance, PTL

\* The loops follow the plan of Batch.
THEOREM LoopsFollowPlan == Spec => []Layout
<1>1. IInv => Layout
  BY DEF IInv
<1> QED BY <1>1, Invariance, PTL

\* Every item goes to a task.
THEOREM SlicesCover == Spec => []Covered
<1>1. IInv => Covered
  <2> SUFFICES ASSUME IInv, pc = "done" PROVE Covered
    BY DEF Covered
  <2>1. i = n /\ \A d \in Items : d < i
    BY Arithmetic DEF IInv, Items
  <2>2. Plan!NumSlices(n, size) = (IF PerTask > 0 THEN size ELSE 0) + Rest
    BY DEF Plan!NumSlices, Plan!Bulks, Plan!PerTask, Plan!Rest, PerTask, Rest
  <2> QED BY <2>1, <2>2 DEF IInv, Covered
<1> QED BY <1>1, Invariance, PTL

=============================================================================
