---------------------------- MODULE BatchProofs ----------------------------
(***************************************************************************)
(* What the engines may rely on when a batch of any size is cut for a pool *)
(* of any size: the parts follow each other, none is empty, and together   *)
(* they are the batch.                                                     *)
(***************************************************************************)
EXTENDS Batch, Integers, FiniteSets, SequenceTheorems, FiniteSetTheorems, TLAPS

\* No item is with two tasks, or twice with one.
Apart(tasks) ==
  /\ IsFiniteSet(tasks)
  /\ \A t \in tasks : IsInjective(t)
  /\ \A t, u \in tasks : t # u => Range(t) \cap Range(u) = {}

\* Division with remainder.
LEMMA DivisionWithRest ==
  ASSUME NEW n \in Nat, NEW size \in Nat \ {0}
  PROVE  /\ PerTask(n, size) \in Nat
         /\ Rest(n, size) \in 0 .. size - 1
         /\ n = PerTask(n, size) * size + Rest(n, size)
         /\ Bulks(n, size) \in Nat /\ NumSlices(n, size) \in Nat
<1>1. n \div size \in Nat /\ n % size \in 0 .. size - 1
  OBVIOUS
<1>2. n = (n \div size) * size + (n % size)
  OBVIOUS
<1>3. /\ PerTask(n, size) \in Nat
      /\ Rest(n, size) \in 0 .. size - 1
      /\ n = PerTask(n, size) * size + Rest(n, size)
  BY <1>1, <1>2 DEF PerTask, Rest
<1>4. Bulks(n, size) \in Nat
  BY DEF Bulks
<1>5. NumSlices(n, size) \in Nat
  BY <1>3, <1>4 DEF NumSlices
<1> QED BY <1>3, <1>4, <1>5

\* The product of a bulk's number and its size, as far as it is needed.
LEMMA BulksFit ==
  ASSUME NEW k \in Nat, NEW p \in Nat, NEW size \in Nat, k < size
  PROVE  /\ k * p \in Nat /\ k * p + p <= p * size
         /\ (k + 1) * p = k * p + p
<1>1. (k + 1) * p = k * p + p
  OBVIOUS
<1>2. (k + 1) * p <= size * p
  <2>1. PICK d \in Nat : size = k + 1 + d
    <3>1. size - (k + 1) \in Nat /\ size = k + 1 + (size - (k + 1))
      OBVIOUS
    <3> QED BY <3>1
  <2>2. size * p = (k + 1) * p + d * p
    BY <2>1
  <2>3. d * p \in Nat /\ (k + 1) * p \in Nat
    BY <2>1
  <2> QED BY <2>2, <2>3
<1>3. size * p = p * size /\ k * p \in Nat
  OBVIOUS
<1> QED BY <1>1, <1>2, <1>3

\* The first part begins with the first item.
LEMMA FirstBegins ==
  ASSUME NEW n \in Nat, NEW size \in Nat \ {0}
  PROVE  First(n, size, 1) = 0
<1> DEFINE p == PerTask(n, size)
<1>1. p \in Nat
  BY DivisionWithRest
<1>2. CASE p > 0
  <2>1. 1 <= Bulks(n, size)
    BY <1>2 DEF Bulks
  <2>2. (1 - 1) * p = 0
    BY <1>1
  <2> QED BY <2>1, <2>2 DEF First
<1>3. CASE p = 0
  <2>1. Bulks(n, size) = 0
    BY <1>3 DEF Bulks
  <2>2. p * size = 0
    BY <1>3
  <2> QED BY <2>1, <2>2 DEF First
<1> QED BY <1>1, <1>2, <1>3

\* After the last part nothing is left.
LEMMA NothingLeft ==
  ASSUME NEW n \in Nat, NEW size \in Nat \ {0}
  PROVE  First(n, size, NumSlices(n, size) + 1) = n
<1> DEFINE b == Bulks(n, size)
           r == Rest(n, size)
           k == NumSlices(n, size) + 1
<1>1. b \in Nat /\ r \in Nat /\ k = b + r + 1
  BY DivisionWithRest DEF NumSlices
<1>2. ~(k <= b) /\ k - b - 1 = r
  BY <1>1
<1>3. First(n, size, k) = PerTask(n, size) * size + r
  BY <1>2 DEF First
<1> QED BY <1>3, DivisionWithRest

\* Every part has an item, stays within the batch and ends where the next begins.
LEMMA PartsFollow ==
  ASSUME NEW n \in Nat, NEW size \in Nat \ {0},
         NEW k \in Nat, k < NumSlices(n, size)
  PROVE  /\ First(n, size, k + 1) \in Nat
         /\ Last(n, size, k + 1) \in Nat
         /\ First(n, size, k + 1) <= Last(n, size, k + 1)
         /\ Last(n, size, k + 1) < n
         /\ First(n, size, (k + 1) + 1) = Last(n, size, k + 1) + 1
<1> DEFINE p == PerTask(n, size)
           b == Bulks(n, size)
           r == Rest(n, size)
<1>1. /\ p \in Nat /\ b \in Nat /\ r \in Nat /\ n = p * size + r
      /\ p * size \in Nat
      /\ k < b + r
  <2>1. /\ PerTask(n, size) \in Nat /\ Bulks(n, size) \in Nat
        /\ Rest(n, size) \in 0 .. size - 1
        /\ n = PerTask(n, size) * size + Rest(n, size)
    BY DivisionWithRest
  <2>2. k < Bulks(n, size) + Rest(n, size)
    BY DEF NumSlices
  <2>3. p * size \in Nat
    BY <2>1
  <2> QED BY <2>1, <2>2, <2>3
<1> HIDE DEF p, b, r
<1>2. CASE k < b
  <2>1. b = size /\ p > 0
    BY <1>1, <1>2 DEF Bulks, b, p
  <2>2. k * p \in Nat /\ k * p + p <= p * size /\ (k + 1) * p = k * p + p
    BY <2>1, <1>1, <1>2, BulksFit
  <2>3. k + 1 <= b /\ (k + 1) - 1 = k
    BY <1>1, <1>2
  <2>4. First(n, size, k + 1) = k * p
    BY <2>3 DEF First, b, p
  <2>5. Last(n, size, k + 1) = k * p + p - 1
    BY <2>3, <2>4 DEF Last, b, p
  <2>6. First(n, size, (k + 1) + 1) = k * p + p
    <3>1. CASE k + 1 < b
      <4>1. (k + 1) + 1 <= b /\ ((k + 1) + 1) - 1 = k + 1
        BY <3>1, <1>1
      <4> QED BY <4>1, <2>2 DEF First, b, p
    <3>2. CASE k + 1 = b
      <4>1. ~((k + 1) + 1 <= b) /\ ((k + 1) + 1) - b - 1 = 0
        BY <3>2, <1>1
      <4>2. (k + 1) * p = p * size
        BY <3>2, <2>1, <1>1
      <4>3. First(n, size, (k + 1) + 1) = p * size + 0
        BY <4>1 DEF First, b, p
      <4> QED BY <4>2, <4>3, <2>2, <1>1
    <3> QED BY <3>1, <3>2, <2>3, <1>1
  <2> QED BY <2>1, <2>2, <2>4, <2>5, <2>6, <1>1
<1>3. CASE ~(k < b)
  <2>1. ~(k + 1 <= b) /\ ~((k + 1) + 1 <= b)
    BY <1>1, <1>3
  <2>2. First(n, size, k + 1) = p * size + ((k + 1) - b - 1)
    BY <2>1 DEF First, b, p
  <2>3. Last(n, size, k + 1) = First(n, size, k + 1)
    BY <2>1 DEF Last, b
  <2>4. First(n, size, (k + 1) + 1) = p * size + (((k + 1) + 1) - b - 1)
    BY <2>1 DEF First, b, p
  <2>5. PICK m \in Nat : m = p * size
    BY <1>1
  <2> QED BY <2>2, <2>3, <2>4, <2>5, <1>1, <1>3
<1> QED BY <1>2, <1>3

\* The task that gets the (k + 1)-th part gets exactly its items, in order.
LEMMA SliceProperties ==
  ASSUME NEW S, NEW s \in Seq(S), NEW size \in Nat \ {0},
         NEW k \in Nat, k < NumSlices(Len(s), size)
  PROVE  LET f == First(Len(s), size, k + 1)
             g == First(Len(s), size, (k + 1) + 1)
             t == SliceOf(s, size, k + 1)
         IN  /\ f \in Nat /\ g \in Nat /\ f < g /\ g <= Len(s)
             /\ t \in Seq(S) /\ Len(t) = g - f /\ t # <<>>
             /\ \A i \in 1 .. g - f : t[i] = s[f + i]
<1> DEFINE f == First(Len(s), size, k + 1)
           l == Last(Len(s), size, k + 1)
           g == First(Len(s), size, (k + 1) + 1)
           t == SliceOf(s, size, k + 1)
<1>1. Len(s) \in Nat
  OBVIOUS
<1>2. f \in Nat /\ l \in Nat /\ f <= l /\ l < Len(s) /\ g = l + 1
  BY <1>1, PartsFollow
<1>3. t = SubSeq(s, f + 1, l + 1)
  BY DEF SliceOf
<1> HIDE DEF f, l, g, t
<1>4. \A i \in f + 1 .. l + 1 : s[i] \in S
  BY <1>1, <1>2, ElementOfSeq
<1>5. /\ t \in Seq(S)
      /\ Len(t) = IF f + 1 <= l + 1 THEN (l + 1) - (f + 1) + 1 ELSE 0
      /\ \A i \in 1 .. (l + 1) - (f + 1) + 1 : t[i] = s[(f + 1) + i - 1]
  <2>1. f + 1 \in Int /\ l + 1 \in Int
    BY <1>2
  <2> QED BY <1>3, <1>4, <2>1, SubSeqProperties
<1>6. Len(t) = g - f /\ g - f > 0
  BY <1>5, <1>2
<1>7. t # <<>>
  BY <1>6
<1>8. \A i \in 1 .. g - f : t[i] = s[f + i]
  <2> SUFFICES ASSUME NEW i \in 1 .. g - f PROVE t[i] = s[f + i]
    OBVIOUS
  <2>1. i \in 1 .. (l + 1) - (f + 1) + 1 /\ (f + 1) + i - 1 = f + i
    BY <1>2
  <2> QED BY <2>1, <1>5
<1>9. g \in Nat /\ f < g /\ g <= Len(s)
  BY <1>1, <1>2
<1> QED BY <1>2, <1>5, <1>6, <1>7, <1>8, <1>9 DEF f, g, t

-----------------------------------------------------------------------------
(* Sequences.                                                              *)

\* The elements of a sequence that has grown.
LEMMA AppendRange ==
  ASSUME NEW S, NEW s \in Seq(S), NEW x \in S
  PROVE  /\ Append(s, x) \in Seq(S) /\ Len(Append(s, x)) = Len(s) + 1
         /\ DOMAIN Append(s, x) = 1 .. Len(s) + 1 /\ DOMAIN s = 1 .. Len(s)
         /\ \A i \in DOMAIN s : Append(s, x)[i] = s[i]
         /\ Append(s, x)[Len(s) + 1] = x
         /\ Range(Append(s, x)) = Range(s) \cup {x}
<1>1. /\ Append(s, x) \in Seq(S) /\ Len(Append(s, x)) = Len(s) + 1
      /\ \A i \in 1 .. Len(s) : Append(s, x)[i] = s[i]
      /\ Append(s, x)[Len(s) + 1] = x
  BY AppendProperties
<1>2. DOMAIN Append(s, x) = 1 .. Len(s) + 1 /\ DOMAIN s = 1 .. Len(s) /\ Len(s) \in Nat
  BY <1>1, LenProperties
<1>3. \A i \in 1 .. Len(s) + 1 : i \in 1 .. Len(s) \/ i = Len(s) + 1
  BY <1>2
<1>4. Range(Append(s, x)) = Range(s) \cup {x}
  BY <1>1, <1>2, <1>3 DEF Range
<1> QED BY <1>1, <1>2, <1>4

\* The elements of a sequence without its first.
LEMMA TailRange ==
  ASSUME NEW S, NEW s \in Seq(S), s # <<>>
  PROVE  /\ Head(s) \in S /\ Head(s) = s[1] /\ 1 \in DOMAIN s
         /\ Tail(s) \in Seq(S) /\ Len(s) \in Nat \ {0} /\ Len(Tail(s)) = Len(s) - 1
         /\ DOMAIN Tail(s) = 1 .. Len(s) - 1 /\ DOMAIN s = 1 .. Len(s)
         /\ \A i \in DOMAIN Tail(s) : Tail(s)[i] = s[i + 1]
         /\ Range(s) = Range(Tail(s)) \cup {Head(s)}
         /\ IsInjective(s) => IsInjective(Tail(s)) /\ Head(s) \notin Range(Tail(s))
<1>1. /\ Head(s) \in S /\ Tail(s) \in Seq(S) /\ Len(Tail(s)) = Len(s) - 1
      /\ \A i \in 1 .. Len(Tail(s)) : Tail(s)[i] = s[i + 1]
  BY HeadTailProperties
<1>2. /\ Len(s) \in Nat \ {0} /\ DOMAIN s = 1 .. Len(s)
      /\ DOMAIN Tail(s) = 1 .. Len(s) - 1
  BY <1>1, EmptySeq, LenProperties
<1>3. Head(s) = s[1]
  OBVIOUS
<1>4. /\ 1 \in DOMAIN s
      /\ \A i \in DOMAIN Tail(s) : i + 1 \in DOMAIN s /\ i + 1 # 1 /\ Tail(s)[i] = s[i + 1]
      /\ \A i \in DOMAIN s : i = 1 \/ (i - 1 \in DOMAIN Tail(s) /\ (i - 1) + 1 = i)
      /\ \A i, j \in DOMAIN Tail(s) : i + 1 = j + 1 => i = j
  BY <1>1, <1>2
<1>5. Range(s) = Range(Tail(s)) \cup {Head(s)}
  <2>1. ASSUME NEW x \in Range(s) PROVE x \in Range(Tail(s)) \cup {Head(s)}
    <3>1. PICK i \in DOMAIN s : x = s[i]
      BY DEF Range
    <3>2. CASE i = 1
      BY <3>1, <3>2, <1>3
    <3>3. CASE i # 1
      <4>1. i - 1 \in DOMAIN Tail(s) /\ Tail(s)[i - 1] = s[i]
        BY <3>3, <1>4
      <4> QED BY <4>1, <3>1 DEF Range
    <3> QED BY <3>2, <3>3
  <2>2. ASSUME NEW x \in Range(Tail(s)) PROVE x \in Range(s)
    BY <1>4 DEF Range
  <2>3. Head(s) \in Range(s)
    BY <1>3, <1>4 DEF Range
  <2> QED BY <2>1, <2>2, <2>3
<1>6. ASSUME IsInjective(s) PROVE IsInjective(Tail(s)) /\ Head(s) \notin Range(Tail(s))
  BY <1>3, <1>4, <1>6 DEF IsInjective, Range
<1> QED BY <1>1, <1>2, <1>3, <1>4, <1>5, <1>6

-----------------------------------------------------------------------------
(* The batch and the tasks.                                                *)

\* Nothing is with the workers: the tasks share nothing.
LEMMA NobodyBusy == Apart({}) /\ InWork({}) = {}
BY FS_EmptySet DEF Apart, InWork

\* Before the first task all of the batch is left, after the last one nothing.
LEMMA LeftAtTheEnds ==
  ASSUME NEW S, NEW s \in Seq(S), NEW size \in Nat \ {0}
  PROVE  /\ Left(s, size, 0) = Range(s)
         /\ Left(s, size, NumSlices(Len(s), size)) = {}
<1>1. Len(s) \in Nat /\ DOMAIN s = 1 .. Len(s)
  BY LenProperties
<1>2. First(Len(s), size, 0 + 1) = 0
  BY <1>1, FirstBegins
<1>3. First(Len(s), size, NumSlices(Len(s), size) + 1) = Len(s)
  BY <1>1, NothingLeft
<1> QED BY <1>1, <1>2, <1>3 DEF Left, Range

\* The next task gets what was first in line, and nothing is left out.
LEMMA TaskTaken ==
  ASSUME NEW S, NEW s \in Seq(S), IsInjective(s), NEW size \in Nat \ {0},
         NEW k \in Nat, k < NumSlices(Len(s), size),
         NEW busy, Apart(busy), Cardinality(busy) < size,
         Left(s, size, k) \cap InWork(busy) = {}
  PROVE  LET t   == SliceOf(s, size, k + 1)
             new == busy \cup {t}
         IN  /\ t \in Seq(S) \ {<<>>}
             /\ Apart(new) /\ Cardinality(new) <= size
             /\ Left(s, size, k + 1) \cap InWork(new) = {}
             /\ Left(s, size, k + 1) \cup InWork(new) =
                  Left(s, size, k) \cup InWork(busy)
<1> DEFINE n == Len(s)
           f == First(n, size, k + 1)
           g == First(n, size, (k + 1) + 1)
           t == SliceOf(s, size, k + 1)
           new == busy \cup {t}
           before == Left(s, size, k)
           after  == Left(s, size, k + 1)
<1>1. n \in Nat /\ DOMAIN s = 1 .. n
  BY LenProperties
<1>2. /\ f \in Nat /\ g \in Nat /\ f < g /\ g <= n
      /\ t \in Seq(S) /\ Len(t) = g - f /\ t # <<>>
      /\ \A i \in 1 .. g - f : t[i] = s[f + i]
  BY SliceProperties
<1>3. before = {s[i] : i \in f + 1 .. n} /\ after = {s[i] : i \in g + 1 .. n}
  BY DEF Left
<1> HIDE DEF n, f, g, t, before, after
<1>4. DOMAIN t = 1 .. g - f
  BY <1>2, LenProperties
<1>5. Range(t) = {s[i] : i \in f + 1 .. g}
  <2>1. ASSUME NEW x \in Range(t) PROVE \E i \in f + 1 .. g : x = s[i]
    <3>1. PICK i \in 1 .. g - f : x = t[i]
      BY <1>4 DEF Range
    <3>2. f + i \in f + 1 .. g
      BY <1>2
    <3> QED BY <3>1, <3>2, <1>2
  <2>2. ASSUME NEW i \in f + 1 .. g PROVE s[i] \in Range(t)
    <3>1. i - f \in 1 .. g - f /\ f + (i - f) = i
      BY <1>2
    <3>2. t[i - f] = s[i]
      BY <3>1, <1>2
    <3> QED BY <3>1, <3>2, <1>4 DEF Range
  <2> QED BY <2>1, <2>2
<1>6. before = Range(t) \cup after /\ Range(t) \cap after = {}
  <2>1. \A i : i \in f + 1 .. n <=> i \in f + 1 .. g \/ i \in g + 1 .. n
    BY <1>1, <1>2
  <2>2. \A i \in f + 1 .. g, j \in g + 1 .. n : i \in DOMAIN s /\ j \in DOMAIN s /\ i # j
    BY <1>1, <1>2
  <2>3. \A i \in f + 1 .. g, j \in g + 1 .. n : s[i] # s[j]
    BY <2>2 DEF IsInjective
  <2>4. before = Range(t) \cup after
    BY <2>1, <1>3, <1>5
  <2> QED BY <2>3, <2>4, <1>3, <1>5
<1>7. IsInjective(t)
  <2> SUFFICES ASSUME NEW i \in DOMAIN t, NEW j \in DOMAIN t, t[i] = t[j] PROVE i = j
    BY DEF IsInjective
  <2>1. i \in 1 .. g - f /\ j \in 1 .. g - f
    BY <1>4
  <2>2. f + i \in 1 .. n /\ f + j \in 1 .. n /\ (f + i = f + j => i = j)
    <3>1. n \in Nat /\ f \in Nat /\ g \in Nat /\ f < g /\ g <= n
      BY <1>1, <1>2
    <3> QED BY <2>1, <3>1
  <2>3. s[f + i] = s[f + j]
    BY <2>1, <1>2
  <2> QED BY <2>2, <2>3, <1>1 DEF IsInjective
<1>8. InWork(new) = InWork(busy) \cup Range(t)
  BY DEF InWork
<1>9. before \cap InWork(busy) = {}
  BY DEF before
<1>10. \A u \in busy : Range(u) \subseteq InWork(busy)
  BY DEF InWork
<1>11. IsFiniteSet(new) /\ Cardinality(new) <= size
  <2>1. IsFiniteSet(busy) /\ Cardinality(busy) \in Nat
    BY FS_CardinalityType DEF Apart
  <2>2. /\ IsFiniteSet(new)
        /\ Cardinality(new) = IF t \in busy THEN Cardinality(busy) ELSE Cardinality(busy) + 1
    BY <2>1, FS_AddElement
  <2> QED BY <2>1, <2>2
<1>12. Apart(new)
  BY <1>6, <1>7, <1>9, <1>10, <1>11 DEF Apart
<1>13. after \cap InWork(new) = {} /\ after \cup InWork(new) = before \cup InWork(busy)
  BY <1>6, <1>8, <1>9
<1> QED BY <1>2, <1>11, <1>12, <1>13 DEF t, before, after

\* A task that has dealt with its first item leaves all others alone.
LEMMA ItemTaken ==
  ASSUME NEW S, NEW busy \in SUBSET (Seq(S) \ {<<>>}), Apart(busy), NEW s \in busy
  PROVE  LET new == (busy \ {s}) \cup ({Tail(s)} \ {<<>>})
         IN  /\ new \subseteq Seq(S) \ {<<>>}
             /\ Apart(new) /\ Cardinality(new) <= Cardinality(busy)
             /\ InWork(new) = InWork(busy) \ {s[1]}
             /\ s[1] \in InWork(busy) /\ s[1] \in S
<1> DEFINE new == (busy \ {s}) \cup ({Tail(s)} \ {<<>>})
<1>1. s \in Seq(S) /\ s # <<>> /\ IsInjective(s)
  BY DEF Apart
<1>2. /\ Head(s) = s[1] /\ Tail(s) \in Seq(S) /\ s[1] \in S
      /\ Range(s) = Range(Tail(s)) \cup {Head(s)}
      /\ IsInjective(Tail(s)) /\ Head(s) \notin Range(Tail(s))
  BY <1>1, TailRange
<1>3. Range(<<>>) = {}
  BY DEF Range
<1>4. \A t \in busy : t # s => Range(t) \cap Range(s) = {}
  BY DEF Apart
<1>5. \A x : x \in InWork(busy) <=> \E t \in busy : x \in Range(t)
  BY DEF InWork
<1>6. \A x : x \in InWork(new) <=> \E t \in new : x \in Range(t)
  BY DEF InWork
<1>7. InWork(new) = InWork(busy) \ {s[1]}
  <2>1. ASSUME NEW x \in InWork(new) PROVE x \in InWork(busy) \ {s[1]}
    <3>1. PICK t \in new : x \in Range(t)
      BY <1>6
    <3>2. CASE t = Tail(s)
      BY <3>1, <3>2, <1>2, <1>5
    <3>3. CASE t # Tail(s)
      BY <3>1, <3>3, <1>2, <1>4, <1>5
    <3> QED BY <3>2, <3>3
  <2>2. ASSUME NEW x \in InWork(busy) \ {s[1]} PROVE x \in InWork(new)
    <3>1. PICK t \in busy : x \in Range(t)
      BY <1>5
    <3>2. CASE t = s
      <4>1. x \in Range(Tail(s))
        BY <3>1, <3>2, <1>2
      <4>2. Tail(s) \in new
        BY <4>1, <1>3
      <4> QED BY <4>1, <4>2, <1>6
    <3>3. CASE t # s
      BY <3>1, <3>3, <1>6
    <3> QED BY <3>2, <3>3
  <2> QED BY <2>1, <2>2
<1>8. s[1] \in InWork(busy)
  BY <1>2, <1>5
<1>9. IsFiniteSet(new) /\ Cardinality(new) <= Cardinality(busy)
  <2>1. IsFiniteSet(busy) /\ Cardinality(busy) \in Nat
    BY FS_CardinalityType DEF Apart
  <2>2. IsFiniteSet(busy \ {s}) /\ Cardinality(busy \ {s}) = Cardinality(busy) - 1
    BY <2>1, FS_RemoveElement
  <2>3. CASE Tail(s) = <<>>
    <3>1. new = busy \ {s}
      BY <2>3
    <3>2. Cardinality(busy \ {s}) <= Cardinality(busy)
      BY <2>1, <2>2
    <3> QED BY <3>1, <3>2, <2>2
  <2>4. CASE Tail(s) # <<>>
    <3>1. /\ IsFiniteSet((busy \ {s}) \cup {Tail(s)})
          /\ Cardinality((busy \ {s}) \cup {Tail(s)}) <= Cardinality(busy)
      <4>1. /\ IsFiniteSet((busy \ {s}) \cup {Tail(s)})
            /\ Cardinality((busy \ {s}) \cup {Tail(s)}) =
                 IF Tail(s) \in busy \ {s} THEN Cardinality(busy \ {s})
                                           ELSE Cardinality(busy \ {s}) + 1
        BY <2>2, FS_AddElement
      <4> QED BY <4>1, <2>1, <2>2
    <3>2. new = (busy \ {s}) \cup {Tail(s)}
      BY <2>4
    <3> QED BY <3>1, <3>2
  <2> QED BY <2>3, <2>4
<1>10. new \subseteq Seq(S) \ {<<>>}
  BY <1>2
<1>11. \A t \in new : IsInjective(t)
  BY <1>2 DEF Apart
<1>12. \A t, u \in new : t # u => Range(t) \cap Range(u) = {}
  BY <1>2, <1>4 DEF Apart
<1> HIDE DEF new
<1>13. Apart(new)
  BY <1>9, <1>11, <1>12 DEF Apart
<1> QED BY <1>2, <1>7, <1>8, <1>9, <1>10, <1>13 DEF new

=============================================================================
