----------------------------- MODULE QueryProofs -----------------------------
(***************************************************************************)
(* Proofs about the two computations a query rests on: SSE2Lookup, for any *)
(* documents, words and names, and HEArray, for vectors of any length and  *)
(* ciphertexts of any size.  Both use functions defined by recursion, so   *)
(* first it is proved that these are what their definitions say.           *)
(***************************************************************************)
EXTENDS SSE2Lookup, HEArray, FunctionTheorems, SequenceTheorems, FiniteSetTheorems,
        WellFoundedInduction, TLAPS

-----------------------------------------------------------------------------
(* Numbers and functions.                                                  *)

\* Natural numbers have a least one among them.
LEMMA LeastNumber ==
  ASSUME NEW S \in SUBSET Nat, S # {}
  PROVE  \E x \in S : \A y \in S : x <= y
<1>1. PICK x \in S : \A y \in S : ~(<<y, x>> \in OpToRel(<, Nat))
  BY NatLessThanWellFounded, WFMin
<1>2. \A y \in S : ~(y < x)
  BY <1>1 DEF OpToRel
<1> QED BY <1>2

\* Induction over the natural numbers, for a set.
LEMMA NaturalInduction ==
  ASSUME NEW S, 0 \in S, \A n \in Nat : n \in S => n + 1 \in S
  PROVE  Nat \subseteq S
<1> SUFFICES ASSUME Nat \ S # {} PROVE FALSE
  OBVIOUS
<1>1. PICK x \in Nat \ S : \A y \in Nat \ S : x <= y
  BY LeastNumber
<1>2. x # 0 /\ x - 1 \in Nat /\ (x - 1) + 1 = x
  BY <1>1
<1>3. x - 1 \in S
  BY <1>1, <1>2
<1> QED BY <1>1, <1>2, <1>3

\* A function on the natural numbers whose values at the arguments from lo on
\* are made of earlier ones, as step says, from where down says.
IsRecursive(g, V, lo, start, down, step) ==
  /\ g \in [Nat -> V]
  /\ \A n \in Nat : g[n] = IF n < lo THEN start[n] ELSE step[n][g[down[n]]]

\* There is such a function.
LEMMA RecursiveFunction ==
  ASSUME NEW V, NEW lo \in Nat, NEW start \in [Nat -> V], NEW down \in [Nat -> Nat],
         NEW step \in [Nat -> [V -> V]],
         \A n \in Nat : n >= lo => down[n] < n
  PROVE  \E g : IsRecursive(g, V, lo, start, down, step)
<1> DEFINE Value(g, n) == IF n < lo THEN start[n] ELSE step[n][g[down[n]]]
           Begins(g, m) ==
             g \in [Nat -> V] /\ \A n \in Nat : n <= m => g[n] = Value(g, n)
<1> HIDE DEF Begins
\* Two beginnings agree.
<1>1. ASSUME NEW g, NEW h, NEW m \in Nat, NEW k \in Nat, Begins(g, m), Begins(h, k)
      PROVE  \A n \in Nat : n <= m /\ n <= k => g[n] = h[n]
  <2> DEFINE Apart == {n \in Nat : n <= m /\ n <= k /\ g[n] # h[n]}
  <2> SUFFICES ASSUME Apart # {} PROVE FALSE
    OBVIOUS
  <2>1. Apart \in SUBSET Nat
    OBVIOUS
  <2>2. PICK n \in Apart : \A j \in Apart : n <= j
    BY <2>1, LeastNumber
  <2>3. n \in Nat /\ n <= m /\ n <= k /\ g[n] = Value(g, n) /\ h[n] = Value(h, n)
    BY <2>2, <1>1 DEF Begins
  <2>4. CASE n < lo
    BY <2>2, <2>3, <2>4
  <2>5. CASE n >= lo
    <3>1. down[n] \in Nat /\ down[n] < n
      BY <2>3, <2>5
    <3>2. down[n] \notin Apart
      BY <2>2, <2>3, <3>1
    <3>3. g[down[n]] = h[down[n]]
      BY <2>3, <3>1, <3>2
    <3>4. ~(n < lo)
      BY <2>3, <2>5
    <3>5. g[n] = h[n]
      BY <2>3, <3>3, <3>4
    <3> QED BY <2>2, <3>5
  <2> QED BY <2>3, <2>4, <2>5
\* There is a beginning of every length.
<1>2. \A m \in Nat : \E g : Begins(g, m)
  <2> DEFINE Reached == {m \in Nat : \E g : Begins(g, m)}
  <2>1. 0 \in Reached
    <3>1. 0 < lo
      <4>1. 0 >= lo => down[0] \in Nat /\ down[0] < 0
        OBVIOUS
      <4> QED BY <4>1
    <3>2. Begins(start, 0)
      BY <3>1 DEF Begins
    <3> QED BY <3>2
  <2>2. ASSUME NEW m \in Nat, m \in Reached PROVE m + 1 \in Reached
    <3>1. PICK g : Begins(g, m)
      BY <2>2
    <3>2. g \in [Nat -> V]
      BY <3>1 DEF Begins
    <3> DEFINE h == [g EXCEPT ![m + 1] = Value(g, m + 1)]
    <3>3. Value(g, m + 1) \in V
      <4>1. CASE m + 1 < lo
        BY <4>1
      <4>2. CASE ~(m + 1 < lo)
        BY <3>2, <4>2
      <4> QED BY <4>1, <4>2
    <3>4. h \in [Nat -> V]
      BY <3>2, <3>3
    <3>5. \A n \in Nat : n <= m => h[n] = g[n]
      BY <3>2
    <3>6. ASSUME NEW n \in Nat, n <= m + 1 PROVE h[n] = Value(h, n)
      <4>1. Value(h, n) = Value(g, n)
        <5>1. CASE n < lo
          BY <5>1
        <5>2. CASE ~(n < lo)
          <6>1. down[n] \in Nat /\ down[n] < n
            BY <5>2
          <6>2. down[n] <= m
            BY <6>1, <3>6
          <6>3. h[down[n]] = g[down[n]]
            BY <6>1, <6>2, <3>5
          <6> QED BY <5>2, <6>3
        <5> QED BY <5>1, <5>2
      <4>2. CASE n <= m
        BY <4>1, <4>2, <3>1, <3>5 DEF Begins
      <4>3. CASE n = m + 1
        BY <3>2, <4>1, <4>3
      <4> QED BY <4>2, <4>3, <3>6
    <3>7. Begins(h, m + 1)
      BY <3>4, <3>6 DEF Begins
    <3> HIDE DEF h
    <3> QED BY <3>7
  <2>3. Nat \subseteq Reached
    <3> HIDE DEF Reached
    <3> QED BY <2>1, <2>2, NaturalInduction
  <2>4. SUFFICES ASSUME NEW m \in Nat PROVE \E g : Begins(g, m)
    OBVIOUS
  <2>5. m \in Reached
    BY <2>3
  <2> QED BY <2>5
<1> DEFINE G(m) == CHOOSE g : Begins(g, m)
           f == [n \in Nat |-> G(n)[n]]
<1>3. \A m \in Nat : Begins(G(m), m)
  BY <1>2
<1> HIDE DEF G
<1>4. f \in [Nat -> V]
  BY <1>3 DEF Begins
<1>5. ASSUME NEW n \in Nat PROVE f[n] = Value(f, n)
  <2>1. f[n] = Value(G(n), n)
    BY <1>3 DEF Begins
  <2>2. CASE n < lo
    BY <2>1, <2>2
  <2>3. CASE ~(n < lo)
    <3>1. down[n] \in Nat /\ down[n] <= n
      BY <2>3
    <3>2. G(n)[down[n]] = G(down[n])[down[n]]
      <4> DEFINE k == down[n]
      <4>1. k \in Nat /\ k <= n /\ k <= k
        BY <3>1
      <4>2. Begins(G(n), n) /\ Begins(G(k), k)
        BY <4>1, <1>3
      <4> HIDE DEF k
      <4>3. \A i \in Nat : i <= n /\ i <= k => G(n)[i] = G(k)[i]
        BY <4>1, <4>2, <1>1
      <4> QED BY <4>1, <4>3 DEF k
    <3>3. f[down[n]] = G(n)[down[n]]
      BY <3>1, <3>2
    <3> QED BY <2>1, <2>3, <3>3
  <2> QED BY <2>2, <2>3
<1>6. IsRecursive(f, V, lo, start, down, step)
  BY <1>4, <1>5 DEF IsRecursive
<1> QED BY <1>6

\* Division with remainder.
LEMMA DivisionWithRest ==
  ASSUME NEW n \in Nat, NEW b \in Nat \ {0}
  PROVE  /\ n \div b \in Nat /\ n % b \in 0 .. b - 1
         /\ n = (n \div b) * b + (n % b)
<1>1. n \div b \in Nat /\ n % b \in 0 .. b - 1
  OBVIOUS
<1>2. n = (n \div b) * b + (n % b)
  OBVIOUS
<1> QED BY <1>1, <1>2

\* A number has a smaller quotient.
LEMMA QuotientSmaller ==
  ASSUME NEW n \in Nat, NEW b \in Nat \ {0, 1}, n >= b
  PROVE  n \div b < n
<1> DEFINE q == n \div b
           r == n % b
<1>1. q \in Nat /\ r \in Nat /\ r < b /\ n = q * b + r
  BY DivisionWithRest
<1> HIDE DEF q, r
<1>2. q # 0
  BY <1>1
<1>3. PICK d \in Nat : b = d + 2
  <2>1. b - 2 \in Nat /\ b = (b - 2) + 2
    OBVIOUS
  <2> QED BY <2>1
<1>4. q * b = q * d + q + q
  BY <1>1, <1>3
<1>5. q * d \in Nat
  BY <1>1, <1>3
<1>6. q < n
  BY <1>1, <1>2, <1>4, <1>5
<1> QED BY <1>6 DEF q

-----------------------------------------------------------------------------
(* The keys.                                                               *)

\* The digits of a number are those of its quotient and its remainder.
LEMMA DecimalIs ==
  /\ Decimal \in [Nat -> Seq(Nat)]
  /\ \A n \in Nat : Decimal[n] = IF n < Base THEN <<n>>
                                 ELSE Append(Decimal[n \div Base], n % Base)
<1> DEFINE start == [n \in Nat |-> <<n>>]
           down  == [n \in Nat |-> n \div Base]
           step  == [n \in Nat |-> [s \in Seq(Nat) |-> Append(s, n % Base)]]
           Unfolded(g) == [n \in Nat |-> IF n < Base THEN <<n>>
                                         ELSE Append(g[n \div Base], n % Base)]
<1>1. Base \in Nat /\ Base \in Nat \ {0} /\ Base \in Nat \ {0, 1}
  BY BoundsAssumption
<1>2. start \in [Nat -> Seq(Nat)]
  OBVIOUS
<1>3. down \in [Nat -> Nat]
  BY <1>1, DivisionWithRest
<1>4. step \in [Nat -> [Seq(Nat) -> Seq(Nat)]]
  <2> SUFFICES ASSUME NEW n \in Nat, NEW s \in Seq(Nat) PROVE Append(s, n % Base) \in Seq(Nat)
    OBVIOUS
  <2>1. n % Base \in Nat
    BY <1>1, DivisionWithRest
  <2> QED BY <2>1
<1>5. \A n \in Nat : n >= Base => down[n] < n
  BY <1>1, QuotientSmaller
<1>6. PICK g \in [Nat -> Seq(Nat)] :
        \A n \in Nat : g[n] = IF n < Base THEN start[n] ELSE step[n][g[down[n]]]
  <2> DEFINE V == Seq(Nat)
  <2>1. start \in [Nat -> V] /\ down \in [Nat -> Nat] /\ step \in [Nat -> [V -> V]]
    BY <1>2, <1>3, <1>4
  <2> HIDE DEF start, down, step, V
  <2>2. \E g : IsRecursive(g, V, Base, start, down, step)
    BY <1>1, <1>5, <2>1, RecursiveFunction
  <2> QED BY <2>2 DEF IsRecursive, V
<1>7. ASSUME NEW n \in Nat
      PROVE  g[n] = IF n < Base THEN <<n>> ELSE Append(g[n \div Base], n % Base)
  <2>1. down[n] = n \div Base /\ down[n] \in Nat /\ start[n] = <<n>>
    BY <1>3
  <2>2. step[n][g[down[n]]] = Append(g[n \div Base], n % Base)
    BY <2>1
  <2> QED BY <1>6, <2>1, <2>2
<1>8. g = Unfolded(g)
  BY <1>7
<1>9. Decimal = Unfolded(Decimal)
  BY <1>8 DEF Decimal
<1>10. \A n \in Nat : Decimal[n] = IF n < Base THEN <<n>>
                                   ELSE Append(Decimal[n \div Base], n % Base)
  <2> SUFFICES ASSUME NEW n \in Nat
               PROVE  Decimal[n] = IF n < Base THEN <<n>>
                                   ELSE Append(Decimal[n \div Base], n % Base)
    OBVIOUS
  <2>1. Unfolded(Decimal)[n] = IF n < Base THEN <<n>>
                               ELSE Append(Decimal[n \div Base], n % Base)
    OBVIOUS
  <2> HIDE DEF Unfolded
  <2> QED BY <1>9, <2>1
<1>11. Decimal \in [Nat -> Seq(Nat)]
  <2> DEFINE Typed == {n \in Nat : \A m \in Nat : m <= n => Decimal[m] \in Seq(Nat)}
  <2>1. ASSUME NEW n \in Nat, \A m \in Nat : m < n => Decimal[m] \in Seq(Nat)
        PROVE  Decimal[n] \in Seq(Nat)
    <3>1. CASE n < Base
      <4>1. Decimal[n] = <<n>>
        BY <3>1, <1>10
      <4> QED BY <4>1
    <3>2. CASE ~(n < Base)
      <4>1. n \div Base \in Nat /\ n \div Base < n /\ n % Base \in Nat
        BY <1>1, <3>2, DivisionWithRest, QuotientSmaller
      <4>2. Decimal[n \div Base] \in Seq(Nat)
        BY <4>1, <2>1
      <4>3. Decimal[n] = Append(Decimal[n \div Base], n % Base)
        BY <3>2, <1>10
      <4> QED BY <4>1, <4>2, <4>3
    <3> QED BY <3>1, <3>2
  <2>2. 0 \in Typed
    BY <2>1
  <2>3. \A n \in Nat : n \in Typed => n + 1 \in Typed
    BY <2>1
  <2>4. Nat \subseteq Typed
    <3> HIDE DEF Typed
    <3> QED BY <2>2, <2>3, NaturalInduction
  <2>5. \A n \in Nat : Decimal[n] \in Seq(Nat)
    <3> SUFFICES ASSUME NEW n \in Nat PROVE Decimal[n] \in Seq(Nat)
      OBVIOUS
    <3>1. n \in Typed
      BY <2>4
    <3> QED BY <3>1
  <2>6. Decimal = [n \in Nat |-> Decimal[n]]
    BY <1>9
  <2> HIDE DEF Typed
  <2> QED BY <2>5, <2>6
<1> QED BY <1>10, <1>11

\* Different numbers are written differently.
LEMMA DecimalInjective ==
  ASSUME NEW m \in Nat, NEW n \in Nat, Decimal[m] = Decimal[n]
  PROVE  m = n
<1>1. Base \in Nat \ {0} /\ Base \in Nat \ {0, 1}
  BY BoundsAssumption
<1>2. \A j \in Nat : /\ Decimal[j] \in Seq(Nat)
                     /\ j < Base => Decimal[j] = <<j>>
                     /\ j >= Base => Decimal[j] = Append(Decimal[j \div Base], j % Base)
  <2> SUFFICES ASSUME NEW j \in Nat
               PROVE  /\ Decimal[j] \in Seq(Nat)
                      /\ j < Base => Decimal[j] = <<j>>
                      /\ j >= Base => Decimal[j] = Append(Decimal[j \div Base], j % Base)
    OBVIOUS
  <2>1. Decimal[j] \in Seq(Nat)
    BY DecimalIs
  <2>2. j >= Base <=> ~(j < Base)
    BY <1>1
  <2>3. Decimal[j] = IF j < Base THEN <<j>> ELSE Append(Decimal[j \div Base], j % Base)
    BY DecimalIs
  <2> QED BY <2>1, <2>2, <2>3
<1>3. \A j \in Nat : /\ j \div Base \in Nat /\ j % Base \in Nat
                     /\ j = (j \div Base) * Base + (j % Base)
                     /\ j >= Base => j \div Base < j
  <2> SUFFICES ASSUME NEW j \in Nat
               PROVE  /\ j \div Base \in Nat /\ j % Base \in Nat
                      /\ j = (j \div Base) * Base + (j % Base)
                      /\ j >= Base => j \div Base < j
    OBVIOUS
  <2>1. /\ j \div Base \in Nat /\ j % Base \in 0 .. Base - 1
        /\ j = (j \div Base) * Base + (j % Base)
    BY <1>1, DivisionWithRest
  <2>2. j >= Base => j \div Base < j
    BY <1>1, QuotientSmaller
  <2>3. j % Base \in Nat
    BY <2>1, <1>1
  <2> QED BY <2>1, <2>2, <2>3
<1>4. \A j \in Nat : Len(Decimal[j]) >= 1
  <2> SUFFICES ASSUME NEW j \in Nat PROVE Len(Decimal[j]) >= 1
    OBVIOUS
  <2>1. CASE j < Base
    <3>1. Decimal[j] = <<j>>
      BY <2>1, <1>2
    <3> QED BY <3>1
  <2>2. CASE j >= Base
    <3>1. Decimal[j \div Base] \in Seq(Nat)
      BY <1>2, <1>3
    <3>2. Decimal[j] = Append(Decimal[j \div Base], j % Base)
      BY <1>2, <2>2
    <3> QED BY <3>1, <3>2
  <2> QED BY <2>1, <2>2, <1>1
<1>5. \A j \in Nat : j >= Base => Len(Decimal[j]) >= 2
  <2> SUFFICES ASSUME NEW j \in Nat, j >= Base PROVE Len(Decimal[j]) >= 2
    OBVIOUS
  <2>1. Decimal[j \div Base] \in Seq(Nat) /\ Len(Decimal[j \div Base]) >= 1
    BY <1>2, <1>3, <1>4
  <2>2. Decimal[j] = Append(Decimal[j \div Base], j % Base)
    BY <1>2
  <2> QED BY <2>1, <2>2
<1> DEFINE Twice == {j \in Nat : \E i \in Nat : i # j /\ Decimal[i] = Decimal[j]}
<1>6. Twice = {}
  <2> SUFFICES ASSUME Twice # {} PROVE FALSE
    OBVIOUS
  <2>1. PICK j \in Twice : \A i \in Twice : j <= i
    BY LeastNumber
  <2>2. PICK i \in Nat : i # j /\ Decimal[i] = Decimal[j]
    BY <2>1
  <2>3. i \in Twice /\ j \in Nat
    BY <2>1, <2>2
  <2>4. j < i
    BY <2>1, <2>2, <2>3
  <2>5. CASE i < Base
    <3>1. <<i>> = <<j>>
      BY <1>1, <1>2, <2>2, <2>3, <2>4, <2>5
    <3> QED BY <2>2, <3>1
  <2>6. CASE j < Base /\ i >= Base
    <3>1. Decimal[j] = <<j>>
      BY <1>2, <2>3, <2>6
    <3>2. Len(Decimal[j]) = 1
      BY <3>1
    <3>3. Len(Decimal[i]) >= 2
      BY <1>5, <2>2, <2>6
    <3> QED BY <2>2, <3>2, <3>3
  <2>7. CASE j >= Base
    <3>1. i >= Base
      BY <1>1, <2>3, <2>4, <2>7
    <3>2. Append(Decimal[i \div Base], i % Base) = Append(Decimal[j \div Base], j % Base)
      BY <1>2, <2>2, <2>3, <2>7, <3>1
    <3>3. /\ Decimal[i \div Base] \in Seq(Nat) /\ Decimal[j \div Base] \in Seq(Nat)
          /\ i % Base \in Nat /\ j % Base \in Nat
      BY <1>2, <1>3, <2>3
    <3>4. Decimal[i \div Base] = Decimal[j \div Base] /\ i % Base = j % Base
      <4> DEFINE s == Decimal[i \div Base]
                 t == Decimal[j \div Base]
                 a == i % Base
                 b == j % Base
      <4>1. s \in Seq(Nat) /\ t \in Seq(Nat) /\ a \in Nat /\ b \in Nat
        BY <3>3
      <4>2. Append(s, a) = Append(t, b)
        BY <3>2
      <4> HIDE DEF s, t, a, b
      <4>3. s = t /\ a = b
        BY <4>1, <4>2, AppendInjective
      <4> QED BY <4>3 DEF s, t, a, b
    <3>5. j \div Base \notin Twice
      BY <1>3, <2>1, <2>3, <2>7
    <3>6. i \div Base = j \div Base
      BY <1>3, <2>3, <3>4, <3>5
    <3>7. i = j
      BY <1>3, <2>3, <3>4, <3>6
    <3> QED BY <2>2, <3>7
  <2> QED BY <2>3, <2>5, <2>6, <2>7, <1>1
<1> QED BY <1>6

\* The key of a word tells its number.
LEMMA KeyInjective ==
  ASSUME NEW w \in Seq(Nat), NEW b \in Nat, NEW c \in Nat, Key(w, b) = Key(w, c)
  PROVE  b = c
<1>1. Decimal[b] \in Seq(Nat) /\ Decimal[c] \in Seq(Nat)
  BY DecimalIs
<1>2. w \o Decimal[b] = w \o Decimal[c]
  BY DEF Key
<1> DEFINE s == Decimal[b]
           t == Decimal[c]
<1>3. s \in Seq(Nat) /\ t \in Seq(Nat) /\ w \o s = w \o t
  BY <1>1, <1>2
<1> HIDE DEF s, t
<1>4. s = t
  BY <1>3, ConcatSimplifications
<1> QED BY <1>4, DecimalInjective DEF s, t

\* The documents with a word are numbered from 0, each with a number of its own.
LEMMA CounterNumbers ==
  ASSUME NEW w
  PROVE  /\ IsFiniteSet(Containing(w)) /\ Cardinality(Containing(w)) \in 0 .. NumDocs
         /\ \A d \in Containing(w) :
              Counter(w, d) \in 0 .. Cardinality(Containing(w)) - 1
         /\ \A d, e \in Containing(w) : Counter(w, d) = Counter(w, e) => d = e
<1> DEFINE C == Containing(w)
           Below(d) == {e \in C : e < d}
<1>1. C \subseteq 1 .. NumDocs /\ NumDocs \in Nat
  BY BoundsAssumption DEF Containing, Docs
<1>2. \A d \in C : Counter(w, d) = Cardinality(Below(d))
  BY DEF Counter
<1>3. \A d \in C : d \in Nat
  BY <1>1
<1> HIDE DEF C
<1>4. IsFiniteSet(C) /\ Cardinality(C) \in Nat /\ Cardinality(C) <= NumDocs
  <2>1. IsFiniteSet(1 .. NumDocs) /\ Cardinality(1 .. NumDocs) = NumDocs
    <3>1. 1 \in Int /\ NumDocs \in Int
      BY <1>1
    <3>2. /\ IsFiniteSet(1 .. NumDocs)
          /\ Cardinality(1 .. NumDocs) = IF 1 > NumDocs THEN 0 ELSE NumDocs - 1 + 1
      BY <3>1, FS_Interval
    <3> QED BY <3>2, <1>1
  <2>2. IsFiniteSet(C) /\ Cardinality(C) <= NumDocs
    BY <1>1, <2>1, FS_Subset
  <2> QED BY <2>2, FS_CardinalityType
<1>5. \A d \in C : Below(d) \in SUBSET C /\ d \notin Below(d)
  BY <1>3
<1>6. \A d \in C : /\ IsFiniteSet(Below(d)) /\ Cardinality(Below(d)) \in Nat
                   /\ Cardinality(Below(d)) < Cardinality(C)
  <2> SUFFICES ASSUME NEW d \in C
               PROVE  /\ IsFiniteSet(Below(d)) /\ Cardinality(Below(d)) \in Nat
                      /\ Cardinality(Below(d)) < Cardinality(C)
    OBVIOUS
  <2>1. /\ IsFiniteSet(Below(d)) /\ Cardinality(Below(d)) <= Cardinality(C)
        /\ Cardinality(C) = Cardinality(Below(d)) => C = Below(d)
    BY <1>4, <1>5, FS_Subset
  <2>2. Cardinality(Below(d)) \in Nat
    BY <2>1, FS_CardinalityType
  <2>3. Cardinality(C) # Cardinality(Below(d))
    BY <2>1, <1>5
  <2> QED BY <2>1, <2>2, <2>3, <1>4
<1>7. ASSUME NEW d \in C, NEW e \in C, d < e
      PROVE  Cardinality(Below(d)) < Cardinality(Below(e))
  <2>1. Below(d) \in SUBSET Below(e) /\ d \in Below(e) /\ d \notin Below(d)
    BY <1>3, <1>7
  <2>2. /\ Cardinality(Below(d)) <= Cardinality(Below(e))
        /\ Cardinality(Below(e)) = Cardinality(Below(d)) => Below(e) = Below(d)
    BY <2>1, <1>6, FS_Subset
  <2>3. Cardinality(Below(e)) # Cardinality(Below(d))
    BY <2>1, <2>2
  <2>4. Cardinality(Below(d)) \in Nat /\ Cardinality(Below(e)) \in Nat
    BY <1>6
  <2> QED BY <2>2, <2>3, <2>4
<1>8. ASSUME NEW d \in C, NEW e \in C, Counter(w, d) = Counter(w, e) PROVE d = e
  <2>1. Cardinality(Below(d)) = Cardinality(Below(e)) /\ Cardinality(Below(d)) \in Nat
    BY <1>2, <1>6, <1>8
  <2>2. ~(d < e) /\ ~(e < d)
    BY <2>1, <1>7
  <2> QED BY <2>2, <1>3
<1>9. ASSUME NEW d \in C PROVE Counter(w, d) \in 0 .. Cardinality(C) - 1
  <2>1. Counter(w, d) \in Nat /\ Counter(w, d) < Cardinality(C)
    BY <1>2, <1>6
  <2> QED BY <1>4, <2>1
<1>10. Cardinality(C) \in 0 .. NumDocs
  BY <1>1, <1>4
<1> QED BY <1>4, <1>8, <1>9, <1>10 DEF C

\* So the entries for a word are one for each of its documents.
LEMMA EntriesForWord ==
  ASSUME NEW w \in Seq(Nat)
  PROVE  /\ DOMAIN Entries(w) = WordKeys(w)
         /\ \A d \in Containing(w) :
              KeyFor(w, d) \in WordKeys(w) /\ Entries(w)[KeyFor(w, d)] = stem[d]
<1>1. DOMAIN Entries(w) = WordKeys(w)
  BY DEF Entries
<1>2. ASSUME NEW d \in Containing(w)
      PROVE  KeyFor(w, d) \in WordKeys(w) /\ Entries(w)[KeyFor(w, d)] = stem[d]
  <2> DEFINE k == KeyFor(w, d)
             e == DocOf(w, k)
  <2>1. k \in WordKeys(w)
    BY DEF WordKeys
  <2>2. Entries(w)[k] = stem[e]
    BY <2>1 DEF Entries
  <2>3. e \in Containing(w) /\ KeyFor(w, e) = k
    BY DEF DocOf
  <2> HIDE DEF e
  <2>4. Counter(w, e) \in Nat /\ Counter(w, d) \in Nat
    BY <2>3, CounterNumbers
  <2>5. Counter(w, e) = Counter(w, d)
    BY <2>3, <2>4, KeyInjective DEF KeyFor
  <2>6. e = d
    BY <2>3, <2>5, CounterNumbers
  <2> QED BY <2>1, <2>2, <2>6
<1> QED BY <1>1, <1>2

-----------------------------------------------------------------------------
(* The index and its search.                                               *)

\* Every entry is for a word that the walk has passed and one of its documents.
EntriesRight ==
  \A k \in DOMAIN table : \E j \in 1 .. at - 1 : \E d \in Containing(Words[j]) :
    k = KeyFor(Words[j], d) /\ table[k] = stem[d]

\* A word that cannot be misread has an entry for each of its documents.
EntriesComplete ==
  \A j \in 1 .. at - 1 : ~Ambiguous(Words[j]) =>
    \A d \in Containing(Words[j]) :
      LET k == KeyFor(Words[j], d)
      IN  k \in DOMAIN table /\ table[k] = stem[d]

\* The index is made before it is searched.
IndexFirst ==
  /\ pc = "make" => found = {}
  /\ pc # "make" => at = Len(Words) + 1

\* What has been found is what is under the keys of the query.
FoundByKeys ==
  pc = "found" => found = {table[k] : k \in QueryKeys(query) \cap DOMAIN table}

LookupInv == TypeOK /\ EntriesRight /\ EntriesComplete /\ IndexFirst /\ FoundByKeys

\* The words, and the dictionary.
LEMMA WordsTyped ==
  /\ Len(Words) \in Nat /\ DOMAIN Words = 1 .. Len(Words)
  /\ \A j \in 1 .. Len(Words) : Words[j] \in Seq(Nat) /\ Words[j] \in Range(Words)
  /\ \A w \in Range(Words) : w \in Seq(Nat) /\ \E j \in 1 .. Len(Words) : w = Words[j]
  /\ \A i, j \in 1 .. Len(Words) : Words[i] = Words[j] => i = j
<1>1. /\ Len(Words) \in Nat /\ DOMAIN Words = 1 .. Len(Words)
      /\ \A j \in 1 .. Len(Words) : Words[j] \in Seq(Nat)
  BY WordsAssumption
<1>2. \A i, j \in 1 .. Len(Words) : Words[i] = Words[j] => i = j
  BY <1>1, WordsAssumption DEF IsInjective
<1> QED BY <1>1, <1>2 DEF Range

\* The initial state satisfies the invariant.
LEMMA LookupInit == Init => LookupInv
<1> SUFFICES ASSUME Init PROVE LookupInv
  OBVIOUS
<1>1. Len(Words) \in Nat
  BY WordsTyped
<1>2. DOMAIN table = {} /\ Range(table) = {} /\ at = 1 /\ pc = "make" /\ found = {}
  BY DEF Init, Range
<1>3. TypeOK
  BY <1>1, <1>2 DEF Init, TypeOK
<1>4. 1 .. at - 1 = {}
  BY <1>2
<1>5. EntriesRight /\ EntriesComplete
  BY <1>2, <1>4 DEF EntriesRight, EntriesComplete
<1> QED BY <1>2, <1>3, <1>5 DEF LookupInv, IndexFirst, FoundByKeys

\* What an entry is for depends on the documents and their names only.
LEMMA KeysUnchanged ==
  ASSUME UNCHANGED <<content, stem>>
  PROVE  /\ Dictionary' = Dictionary
         /\ \A w : /\ Containing(w)' = Containing(w)
                   /\ Ambiguous(w)' <=> Ambiguous(w)
                   /\ \A d : KeyFor(w, d)' = KeyFor(w, d)
<1>1. \A w : Containing(w)' = Containing(w)
  BY DEF Containing
<1>2. \A w, d : KeyFor(w, d)' = KeyFor(w, d)
  BY <1>1 DEF KeyFor, Counter
<1>3. Dictionary' = Dictionary
  BY DEF Dictionary
<1>4. \A w : Ambiguous(w)' <=> Ambiguous(w)
  BY <1>3 DEF Ambiguous
<1> QED BY <1>1, <1>2, <1>3, <1>4

\* Words with their counters are keys of NumDocs numbers.
LEMMA WordWithDocument ==
  ASSUME NEW w \in Range(Words), NEW d \in Containing(w)
  PROVE  /\ w \in Dictionary /\ d \in Docs /\ w \in content[d]
         /\ Counter(w, d) \in 0 .. NumDocs - 1
<1>1. w \in Dictionary /\ d \in Docs /\ w \in content[d]
  BY DEF Dictionary, Containing
<1>2. /\ Counter(w, d) \in 0 .. Cardinality(Containing(w)) - 1
      /\ Cardinality(Containing(w)) \in 0 .. NumDocs
  BY CounterNumbers
<1>3. NumDocs \in Nat
  BY BoundsAssumption
<1> QED BY <1>1, <1>2, <1>3

\* The keys of a word that cannot be misread are its own.
LEMMA OwnKeys ==
  ASSUME NEW w \in Range(Words), NEW v \in Range(Words), ~Ambiguous(w),
         NEW d \in Containing(v), NEW c \in 0 .. NumDocs - 1, Key(w, c) = KeyFor(v, d)
  PROVE  v = w
BY WordWithDocument DEF Ambiguous, KeyFor

\* A step of the walk enters the documents of one more word.
LEMMA MakeSSE2IndexStep == LookupInv /\ MakeSSE2Index => LookupInv'
<1> SUFFICES ASSUME LookupInv, MakeSSE2Index PROVE LookupInv'
  OBVIOUS
<1> DEFINE w == Words[at]
           new == Entries(w)
<1>1. /\ pc = "make" /\ at <= Len(Words) /\ at' = at + 1
      /\ table' = [k \in DOMAIN table \cup DOMAIN new |->
                     IF k \in DOMAIN table THEN table[k] ELSE new[k]]
      /\ UNCHANGED <<content, stem, pc, query, found>>
  BY DEF MakeSSE2Index, AddEntries
<1>2. TypeOK /\ EntriesRight /\ EntriesComplete /\ found = {}
  BY <1>1 DEF LookupInv, IndexFirst
<1>3. at \in 1 .. Len(Words) /\ Len(Words) \in Nat /\ at' - 1 = at
  BY <1>1, <1>2, WordsTyped DEF TypeOK
<1>4. w \in Seq(Nat) /\ w \in Range(Words)
  BY <1>3, WordsTyped
<1>5. /\ DOMAIN new = WordKeys(w)
      /\ \A d \in Containing(w) :
           KeyFor(w, d) \in WordKeys(w) /\ new[KeyFor(w, d)] = stem[d]
  BY <1>4, EntriesForWord
<1> HIDE DEF new
<1>6. /\ DOMAIN table' = DOMAIN table \cup WordKeys(w)
      /\ \A k \in DOMAIN table : table'[k] = table[k]
      /\ \A k \in WordKeys(w) : k \notin DOMAIN table => table'[k] = new[k]
  BY <1>1, <1>5
<1>7. /\ 1 .. at' - 1 = 1 .. at /\ stem' = stem
      /\ \A v : /\ Containing(v)' = Containing(v)
                /\ Ambiguous(v)' <=> Ambiguous(v)
                /\ \A d : KeyFor(v, d)' = KeyFor(v, d)
  BY <1>1, <1>3, KeysUnchanged
<1>8. EntriesRight'
  <2>1. ASSUME NEW k \in DOMAIN table'
        PROVE  \E j \in 1 .. at : \E d \in Containing(Words[j]) :
                 k = KeyFor(Words[j], d) /\ table'[k] = stem[d]
    <3>1. CASE k \in DOMAIN table
      <4>1. PICK j \in 1 .. at - 1 : \E d \in Containing(Words[j]) :
              k = KeyFor(Words[j], d) /\ table[k] = stem[d]
        BY <1>2, <3>1 DEF EntriesRight
      <4> QED BY <4>1, <3>1, <1>3, <1>6
    <3>2. CASE k \notin DOMAIN table
      <4>1. PICK d \in Containing(w) : k = KeyFor(w, d)
        BY <3>2, <1>6 DEF WordKeys
      <4>2. table'[k] = stem[d]
        BY <4>1, <3>2, <1>5, <1>6
      <4> QED BY <4>1, <4>2, <1>3
    <3> QED BY <3>1, <3>2
  <2> QED BY <2>1, <1>7 DEF EntriesRight
<1>9. EntriesComplete'
  <2>1. ASSUME NEW j \in 1 .. at, ~Ambiguous(Words[j]), NEW d \in Containing(Words[j])
        PROVE  KeyFor(Words[j], d) \in DOMAIN table' /\ table'[KeyFor(Words[j], d)] = stem[d]
    <3>1. CASE j # at
      <4>1. j \in 1 .. at - 1
        BY <3>1, <1>3
      <4>2. KeyFor(Words[j], d) \in DOMAIN table /\ table[KeyFor(Words[j], d)] = stem[d]
        BY <4>1, <2>1, <1>2 DEF EntriesComplete
      <4> QED BY <4>2, <1>6
    <3>2. CASE j = at
      <4> DEFINE k == KeyFor(w, d)
      <4>1. ~Ambiguous(w) /\ d \in Containing(w)
        BY <2>1, <3>2
      <4>2. k \notin DOMAIN table
        <5> SUFFICES ASSUME k \in DOMAIN table PROVE FALSE
          OBVIOUS
        <5>1. PICK i \in 1 .. at - 1 : \E e \in Containing(Words[i]) : k = KeyFor(Words[i], e)
          BY <1>2 DEF EntriesRight
        <5>2. PICK e \in Containing(Words[i]) : k = KeyFor(Words[i], e)
          BY <5>1
        <5>3. i \in 1 .. Len(Words) /\ i # at
          BY <5>1, <1>3
        <5>4. Words[i] \in Range(Words)
          BY <5>3, WordsTyped
        <5>5. Counter(w, d) \in 0 .. NumDocs - 1
          BY <4>1, <1>4, WordWithDocument
        <5>6. Words[i] = w
          BY <5>2, <5>4, <5>5, <4>1, <1>4, OwnKeys DEF KeyFor
        <5> QED BY <5>3, <5>6, <1>3, WordsTyped
      <4>3. k \in WordKeys(w) /\ new[k] = stem[d]
        BY <4>1, <1>5
      <4> QED BY <4>2, <4>3, <3>2, <1>6
    <3> QED BY <3>1, <3>2
  <2> QED BY <2>1, <1>7 DEF EntriesComplete
<1>10. TypeOK'
  <2>1. \A k \in DOMAIN table' : table'[k] \in Stems
    <3>1. \A k \in DOMAIN table : table[k] \in Stems
      BY <1>2 DEF TypeOK, Range
    <3>2. \A k \in WordKeys(w) : new[k] \in Stems
      BY <1>2, <1>5 DEF WordKeys, TypeOK, Containing
    <3> QED BY <3>1, <3>2, <1>6
  <2>2. Range(table)' \subseteq Stems
    BY <2>1 DEF Range
  <2>3. at' \in 1 .. Len(Words) + 1
    BY <1>1, <1>3
  <2>4. found' \subseteq Range(table)'
    BY <1>1, <1>2
  <2> QED BY <2>2, <2>3, <2>4, <1>1, <1>2 DEF TypeOK, Docs
<1> QED BY <1>1, <1>2, <1>8, <1>9, <1>10 DEF LookupInv, IndexFirst, FoundByKeys

\* Every other step leaves the index as it is.
LEMMA OtherStep ==
  ASSUME LookupInv, UNCHANGED <<content, stem, at, table>>,
         TypeOK', IndexFirst', FoundByKeys'
  PROVE  LookupInv'
<1>1. EntriesRight'
  BY KeysUnchanged DEF LookupInv, EntriesRight
<1>2. EntriesComplete'
  BY KeysUnchanged DEF LookupInv, EntriesComplete
<1> QED BY <1>1, <1>2 DEF LookupInv

\* A step that begins or ends a query.
LEMMA MenuStep ==
  ASSUME LookupInv, UNCHANGED <<content, stem, at, table, found>>,
         IndexMade \/ DrawCrashes \/ EmptyQuery \/ AskAgain
           \/ \E drawn \in SUBSET Dictionary, p \in BOOLEAN : GenRandomSearchQuery(drawn, p)
  PROVE  LookupInv'
<1>1. query' \subseteq Range(Words)
  BY DEF IndexMade, DrawCrashes, EmptyQuery, AskAgain, GenRandomSearchQuery, Dictionary,
         LookupInv, TypeOK
<1>2. pc' \in {"ask", "random", "down"} /\ (pc = "make" => at > Len(Words))
  BY DEF IndexMade, DrawCrashes, EmptyQuery, AskAgain, GenRandomSearchQuery
<1>3. TypeOK'
  BY <1>1, <1>2 DEF LookupInv, TypeOK, Docs
<1>4. at = Len(Words) + 1
  BY <1>2, WordsTyped DEF LookupInv, IndexFirst, TypeOK
<1> QED BY <1>2, <1>3, <1>4, OtherStep DEF IndexFirst, FoundByKeys

\* A search finds what is under its keys.
LEMMA SearchStep ==
  ASSUME LookupInv, NEW words \in SUBSET Range(Words), SearchSSE2Index(words)
  PROVE  LookupInv'
<1>1. /\ UNCHANGED <<content, stem, at, table>> /\ pc # "make" /\ pc' = "found"
      /\ query' = words
      /\ found' = {table[k] : k \in QueryKeys(words) \cap DOMAIN table}
  BY DEF SearchSSE2Index, Asked
<1>2. found' \subseteq Range(table)
  BY <1>1 DEF Range
<1>3. TypeOK'
  BY <1>1, <1>2 DEF LookupInv, TypeOK, Docs
<1>4. QueryKeys(query)' = QueryKeys(words)
  BY <1>1 DEF QueryKeys, GetDocumentCollectionSize
<1>5. FoundByKeys'
  BY <1>1, <1>4 DEF FoundByKeys
<1>6. IndexFirst'
  BY <1>1 DEF LookupInv, IndexFirst
<1> QED BY <1>1, <1>3, <1>5, <1>6, OtherStep

\* Every step keeps the invariant.
LEMMA LookupStep == LookupInv /\ [Next]_vars => LookupInv'
<1> SUFFICES ASSUME LookupInv, [Next]_vars PROVE LookupInv'
  OBVIOUS
<1>1. CASE MakeSSE2Index
  BY <1>1, MakeSSE2IndexStep
<1>2. ASSUME IndexMade \/ DrawCrashes \/ EmptyQuery \/ AskAgain
               \/ \E drawn \in SUBSET Dictionary, p \in BOOLEAN : GenRandomSearchQuery(drawn, p)
      PROVE  LookupInv'
  <2>1. UNCHANGED <<content, stem, at, table, found>>
    BY <1>2 DEF IndexMade, DrawCrashes, EmptyQuery, AskAgain, GenRandomSearchQuery
  <2> QED BY <1>2, <2>1, MenuStep
<1>3. ASSUME NEW words \in SUBSET Range(Words), SearchSSE2Index(words) PROVE LookupInv'
  BY <1>3, SearchStep
<1>4. CASE UNCHANGED vars
  <2>1. UNCHANGED <<content, stem, pc, at, table, query, found>>
    BY <1>4 DEF vars
  <2>2. TypeOK' /\ IndexFirst' /\ FoundByKeys'
    BY <2>1 DEF LookupInv, TypeOK, IndexFirst, FoundByKeys, QueryKeys,
                GetDocumentCollectionSize
  <2> QED BY <2>1, <2>2, OtherStep
<1> QED BY <1>1, <1>2, <1>3, <1>4 DEF Next

\* The names in the index are names of documents.
LEMMA NamesInIndex ==
  ASSUME LookupInv
  PROVE  /\ IsFiniteSet(Range(table))
         /\ GetDocumentCollectionSize \in Nat /\ GetDocumentCollectionSize <= NumDocs
<1> DEFINE names == Range(stem)
<1>1. stem \in [1 .. NumDocs -> Stems] /\ NumDocs \in Nat
  BY BoundsAssumption DEF LookupInv, TypeOK, Docs
<1>2. IsFiniteSet(1 .. NumDocs) /\ Cardinality(1 .. NumDocs) = NumDocs
  <2>1. 1 \in Int /\ NumDocs \in Int
    BY <1>1
  <2>2. /\ IsFiniteSet(1 .. NumDocs)
        /\ Cardinality(1 .. NumDocs) = IF 1 > NumDocs THEN 0 ELSE NumDocs - 1 + 1
    BY <2>1, FS_Interval
  <2> QED BY <2>2, <1>1
<1>3. stem \in Surjection(1 .. NumDocs, names)
  BY <1>1, Fun_RangeProperties
<1>4. IsFiniteSet(names) /\ Cardinality(names) <= NumDocs
  <2> HIDE DEF names
  <2> QED BY <1>2, <1>3, FS_Surjection
<1>5. Range(table) \in SUBSET names
  BY <1>1 DEF LookupInv, EntriesRight, Containing, Docs, Range
<1> HIDE DEF names
<1>6. IsFiniteSet(Range(table)) /\ Cardinality(Range(table)) <= Cardinality(names)
  BY <1>4, <1>5, FS_Subset
<1>7. Cardinality(Range(table)) \in Nat /\ Cardinality(names) \in Nat
  BY <1>4, <1>6, FS_CardinalityType
<1> QED BY <1>1, <1>4, <1>6, <1>7 DEF GetDocumentCollectionSize

\* The invariant implies that what is found is wanted: a hit is under a key of
\* a word of the query, and no other word has entered it there.
LEMMA FalseHitsExcluded == LookupInv => NoFalseHits
<1> SUFFICES ASSUME LookupInv, Plain, NEW name \in found PROVE name \in Wanted
  BY DEF NoFalseHits
<1>1. /\ found = {table[k] : k \in QueryKeys(query) \cap DOMAIN table}
      /\ query \subseteq Range(Words) /\ \A w \in query : ~Ambiguous(w)
  BY DEF LookupInv, FoundByKeys, Plain, TypeOK
<1>2. PICK k \in QueryKeys(query) \cap DOMAIN table : name = table[k]
  BY <1>1
<1>3. PICK w \in query, c \in 0 .. GetDocumentCollectionSize - 1 : k = Key(w, c)
  BY <1>2 DEF QueryKeys
<1>4. c \in 0 .. NumDocs - 1
  BY <1>3, NamesInIndex, BoundsAssumption
<1>5. PICK j \in 1 .. at - 1 : \E d \in Containing(Words[j]) :
        k = KeyFor(Words[j], d) /\ table[k] = stem[d]
  BY <1>2 DEF LookupInv, EntriesRight
<1>6. PICK d \in Containing(Words[j]) : k = KeyFor(Words[j], d) /\ table[k] = stem[d]
  BY <1>5
<1>7. Words[j] \in Range(Words)
  BY <1>5, WordsTyped DEF LookupInv, TypeOK
<1>8. Words[j] = w
  BY <1>1, <1>3, <1>4, <1>6, <1>7, OwnKeys
<1>9. d \in Docs /\ w \in content[d]
  BY <1>6, <1>8 DEF Containing
<1> QED BY <1>2, <1>3, <1>6, <1>9 DEF Wanted

\* The invariant implies that what is wanted is found: a word has as many numbers
\* as documents, these have as many names, and all are in the index.
LEMMA MissesExcluded == LookupInv => NoMisses
<1> SUFFICES ASSUME LookupInv, Plain, IsInjective(stem), NEW name \in Wanted
             PROVE  name \in found
  BY DEF NoMisses
<1>1. /\ found = {table[k] : k \in QueryKeys(query) \cap DOMAIN table}
      /\ query \subseteq Range(Words) /\ \A w \in query : ~Ambiguous(w)
      /\ at = Len(Words) + 1
  BY DEF LookupInv, FoundByKeys, Plain, TypeOK, IndexFirst
<1>2. PICK d \in Docs : content[d] \cap query # {} /\ name = stem[d]
  BY DEF Wanted
<1>3. PICK w \in query : w \in content[d]
  BY <1>2
<1>4. w \in Range(Words) /\ ~Ambiguous(w) /\ d \in Containing(w)
  BY <1>1, <1>2, <1>3 DEF Containing
<1>5. PICK j \in 1 .. at - 1 : Words[j] = w
  BY <1>1, <1>4, WordsTyped
<1>6. \A e \in Containing(w) : KeyFor(w, e) \in DOMAIN table /\ table[KeyFor(w, e)] = stem[e]
  BY <1>4, <1>5 DEF LookupInv, EntriesComplete
<1>7. Cardinality(Containing(w)) <= GetDocumentCollectionSize
  <2> DEFINE C == Containing(w)
             R == Range(table)
             f == [e \in C |-> stem[e]]
  <2>1. \A e \in C : stem[e] \in R
    BY <1>6 DEF Range
  <2>2. C \subseteq Docs /\ stem \in [Docs -> Stems]
    BY DEF Containing, LookupInv, TypeOK
  <2>3. \A a, b \in C : stem[a] = stem[b] => a = b
    BY <2>2 DEF IsInjective
  <2>4. f \in Injection(C, R)
    <3>1. f \in [C -> R] /\ \A a, b \in C : f[a] = f[b] => a = b
      BY <2>1, <2>3
    <3> HIDE DEF f, C, R
    <3> QED BY <3>1, Fun_IsInj
  <2>5. IsFiniteSet(R)
    BY NamesInIndex
  <2> HIDE DEF f, C, R
  <2>6. Cardinality(C) <= Cardinality(R)
    BY <2>4, <2>5, FS_Injection
  <2> QED BY <2>6 DEF C, R, GetDocumentCollectionSize
<1>8. Counter(w, d) \in 0 .. GetDocumentCollectionSize - 1
  <2>1. /\ Counter(w, d) \in 0 .. Cardinality(Containing(w)) - 1
        /\ Cardinality(Containing(w)) \in 0 .. NumDocs
    BY <1>4, CounterNumbers
  <2> QED BY <2>1, <1>7, NamesInIndex
<1>9. KeyFor(w, d) \in QueryKeys(query) \cap DOMAIN table
  BY <1>3, <1>4, <1>6, <1>8 DEF QueryKeys, KeyFor
<1> QED BY <1>1, <1>2, <1>4, <1>6, <1>9

\* The invariant holds in every state.
LEMMA LookupInvariance == Spec => []LookupInv
BY LookupInit, LookupStep, PTL DEF Spec

\* The state of the index and of a query has its type, in particular is every
\* hit a file name.
THEOREM LookupTypeCorrect == Spec => []TypeOK
<1>1. LookupInv => TypeOK
  BY DEF LookupInv
<1> QED BY <1>1, LookupInvariance, PTL

\* A query finds no document that has none of its words, whatever else is in the
\* index, as long as no other word reads like one of them with a number.
THEOREM HitsAreWanted == Spec => []NoFalseHits
BY FalseHitsExcluded, LookupInvariance, PTL

\* A query finds every document that has one of its words, if the documents have
\* different names: the search tries enough numbers.
THEOREM WantedAreHit == Spec => []NoMisses
BY MissesExcluded, LookupInvariance, PTL

-----------------------------------------------------------------------------
(* Scalar products, and products modulo P.                                 *)

\* Multiples of a number are ordered like their factors.
LEMMA MultiplesOrdered ==
  ASSUME NEW a \in Nat, NEW b \in Nat, NEW n \in Nat
  PROVE  /\ a <= b => a * n <= b * n
         /\ a < b => a * n + n <= b * n
         /\ a * n \in Nat /\ b * n \in Nat
<1>1. ASSUME a <= b PROVE a * n <= b * n /\ (a < b => a * n + n <= b * n)
  <2>1. PICK d \in Nat : b = a + d
    <3>1. b - a \in Nat /\ b = a + (b - a)
      BY <1>1
    <3> QED BY <3>1
  <2>2. b * n = a * n + d * n /\ d * n \in Nat /\ a * n \in Nat
    BY <2>1
  <2>3. ASSUME a < b PROVE a * n + n <= b * n
    <3>1. PICK e \in Nat : d = e + 1
      <4>1. d - 1 \in Nat /\ d = (d - 1) + 1
        BY <2>1, <2>3
      <4> QED BY <4>1
    <3>2. d * n = e * n + n /\ e * n \in Nat
      BY <3>1
    <3> QED BY <2>2, <3>2
  <2> QED BY <2>2, <2>3
<1>2. a * n \in Nat /\ b * n \in Nat
  OBVIOUS
<1> QED BY <1>1, <1>2

\* The scalar products are added up one by one.
LEMMA ScalarProductsAre ==
  ASSUME NEW u \in Seq(Nat), NEW v \in Seq(Nat)
  PROVE  /\ ScalarProducts(u, v)[0] = 0
         /\ \A i \in 1 .. Shorter(u, v) :
              ScalarProducts(u, v)[i] = ScalarProducts(u, v)[i - 1] + u[i] * v[i]
         /\ \A i \in 0 .. Shorter(u, v) : ScalarProducts(u, v)[i] \in Nat
<1> DEFINE m == Shorter(u, v)
           term(i) == u[i] * v[i]
           start == [n \in Nat |-> 0]
           down  == [n \in Nat |-> IF n = 0 THEN 0 ELSE n - 1]
           step  == [n \in Nat |-> [s \in Nat |-> IF n \in 1 .. m THEN s + term(n) ELSE s]]
           Unfolded(f) == [i \in 0 .. m |-> IF i = 0 THEN 0 ELSE f[i - 1] + u[i] * v[i]]
           S == ScalarProducts(u, v)
<1>1. m \in Nat /\ \A i \in 1 .. m : u[i] \in Nat /\ v[i] \in Nat
  BY DEF Shorter
<1>2. \A i \in 1 .. m : term(i) \in Nat
  BY <1>1
<1>3. S = CHOOSE f : f = Unfolded(f)
  BY DEF ScalarProducts
<1> HIDE DEF m, S
<1>4. PICK g : IsRecursive(g, Nat, 1, start, down, step)
  <2>1. start \in [Nat -> Nat] /\ down \in [Nat -> Nat]
    OBVIOUS
  <2>2. step \in [Nat -> [Nat -> Nat]]
    <3> HIDE DEF term
    <3> QED BY <1>2
  <2>3. 1 \in Nat /\ \A n \in Nat : n >= 1 => down[n] < n
    OBVIOUS
  <2> HIDE DEF start, down, step
  <2> QED BY <2>1, <2>2, <2>3, RecursiveFunction
<1>5. ASSUME NEW i \in 0 .. m
      PROVE  g[i] = IF i = 0 THEN 0 ELSE g[i - 1] + term(i)
  <2>1. g[i] = IF i < 1 THEN start[i] ELSE step[i][g[down[i]]]
    <3> HIDE DEF start, down, step
    <3>1. i \in Nat
      BY <1>1
    <3> QED BY <3>1, <1>4 DEF IsRecursive
  <2>2. CASE i = 0
    BY <2>1, <2>2
  <2>3. CASE i # 0
    <3>1. i \in Nat /\ i \in 1 .. m /\ ~(i < 1) /\ i - 1 \in Nat /\ down[i] = i - 1
      BY <1>1, <2>3
    <3>2. g[i - 1] \in Nat
      BY <1>4, <3>1 DEF IsRecursive
    <3>3. step[i][g[i - 1]] = g[i - 1] + term(i)
      <4> HIDE DEF term
      <4> QED BY <3>1, <3>2
    <3> QED BY <2>1, <2>3, <3>1, <3>3
  <2> QED BY <2>2, <2>3
<1> DEFINE f == [i \in 0 .. m |-> g[i]]
<1>6. f = Unfolded(f)
  <2>1. ASSUME NEW i \in 0 .. m
        PROVE  f[i] = IF i = 0 THEN 0 ELSE f[i - 1] + u[i] * v[i]
    <3>1. i # 0 => i - 1 \in 0 .. m
      BY <1>1
    <3> QED BY <1>5, <3>1
  <2> QED BY <2>1
<1>7. S = Unfolded(S)
  <2> HIDE DEF f, Unfolded
  <2> QED BY <1>3, <1>6
<1>8. \A i \in 0 .. m : S[i] = IF i = 0 THEN 0 ELSE S[i - 1] + u[i] * v[i]
  <2> SUFFICES ASSUME NEW i \in 0 .. m
               PROVE  S[i] = IF i = 0 THEN 0 ELSE S[i - 1] + u[i] * v[i]
    OBVIOUS
  <2>1. Unfolded(S)[i] = IF i = 0 THEN 0 ELSE S[i - 1] + u[i] * v[i]
    OBVIOUS
  <2> HIDE DEF Unfolded
  <2> QED BY <1>7, <2>1
<1>9. \A i \in 0 .. m : S[i] \in Nat
  <2> DEFINE Typed == {i \in Nat : i <= m => S[i] \in Nat}
  <2>1. 0 \in Typed
    BY <1>1, <1>8
  <2>2. ASSUME NEW n \in Nat, n \in Typed PROVE n + 1 \in Typed
    <3> SUFFICES ASSUME n + 1 <= m PROVE S[n + 1] \in Nat
      OBVIOUS
    <3>1. S[n] \in Nat
      BY <1>1, <2>2
    <3>2. n + 1 \in 1 .. m /\ n + 1 \in 0 .. m /\ n + 1 # 0 /\ (n + 1) - 1 = n
      BY <1>1
    <3>3. S[n + 1] = S[n] + term(n + 1)
      BY <1>8, <3>2
    <3>4. term(n + 1) \in Nat
      BY <1>2, <3>2
    <3> HIDE DEF term
    <3> QED BY <3>1, <3>3, <3>4
  <2>3. Nat \subseteq Typed
    <3> HIDE DEF Typed
    <3> QED BY <2>1, <2>2, NaturalInduction
  <2> QED BY <2>3, <1>1
<1>10. 0 \in 0 .. m /\ \A i \in 1 .. m : i \in 0 .. m /\ i # 0
  BY <1>1
<1> QED BY <1>8, <1>9, <1>10 DEF m, S

\* A product of remainders is the product but for a multiple of P, and is the
\* product itself if that does not reach P.
LEMMA ProductModulo ==
  ASSUME NEW a \in Nat, NEW b \in Nat
  PROVE  /\ ((a % P) * (b % P)) % P \in 0 .. P - 1
         /\ \E m \in Nat : /\ a * b = (((a % P) * (b % P)) % P) + m * P
                           /\ a * b < P => m = 0
<1> DEFINE qa == a \div P
           ra == a % P
           qb == b \div P
           rb == b % P
           qc == (ra * rb) \div P
           rc == (ra * rb) % P
           m  == qa * b + ra * qb + qc
<1>1. P \in Nat \ {0} /\ P \in Nat
  BY ParamAssumption
<1>2. qa \in Nat /\ ra \in Nat /\ a = qa * P + ra
  BY <1>1, DivisionWithRest
<1>3. qb \in Nat /\ rb \in Nat /\ b = qb * P + rb
  BY <1>1, DivisionWithRest
<1>4. ra * rb \in Nat
  <2> HIDE DEF ra, rb
  <2> QED BY <1>2, <1>3
<1>5. qc \in Nat /\ rc \in 0 .. P - 1 /\ ra * rb = qc * P + rc
  <2> DEFINE c == ra * rb
  <2>1. c \in Nat
    BY <1>4
  <2> HIDE DEF c
  <2>2. c \div P \in Nat /\ c % P \in 0 .. P - 1 /\ c = (c \div P) * P + (c % P)
    BY <1>1, <2>1, DivisionWithRest
  <2> QED BY <2>2 DEF c
<1> HIDE DEF qa, ra, qb, rb, qc, rc
<1>6. m \in Nat
  BY <1>2, <1>3, <1>5
<1>7. a * b = rc + m * P
  <2>1. a * b = qa * P * b + ra * b
    BY <1>1, <1>2
  <2>2. ra * b = ra * qb * P + ra * rb
    BY <1>1, <1>2, <1>3
  <2>3. m * P = qa * b * P + ra * qb * P + qc * P
    BY <1>1, <1>2, <1>3, <1>5
  <2>4. qa * P * b = qa * b * P
    BY <1>1, <1>2
  <2>5. /\ qa * b * P \in Nat /\ ra * qb * P \in Nat /\ qc * P \in Nat /\ ra * rb \in Nat
        /\ rc \in Nat
    BY <1>1, <1>2, <1>3, <1>4, <1>5
  <2> QED BY <2>1, <2>2, <2>3, <2>4, <2>5, <1>5
<1> HIDE DEF m
<1>8. ASSUME a * b < P PROVE m = 0
  <2> SUFFICES ASSUME m # 0 PROVE FALSE
    OBVIOUS
  <2>1. 1 <= m /\ 1 \in Nat
    BY <1>6
  <2>2. 1 * P <= m * P /\ m * P \in Nat
    BY <2>1, <1>1, <1>6, MultiplesOrdered
  <2>3. rc \in Nat
    BY <1>1, <1>5
  <2> QED BY <1>1, <1>7, <1>8, <2>2, <2>3
<1>9. \E n \in Nat : a * b = rc + n * P /\ (a * b < P => n = 0)
  BY <1>6, <1>7, <1>8
<1> QED BY <1>5, <1>9 DEF rc, ra, rb

-----------------------------------------------------------------------------
(* The encryption.                                                         *)

\* Piece number c of a vector, as it is encrypted.
Piece(v, c) ==
  [k \in 1 .. NSlots |-> IF (c - 1) * NSlots + k <= Len(v)
                         THEN v[(c - 1) * NSlots + k] % P ELSE 0]

\* Ciphertexts that hold the first pieces of a vector, and those that hold it all.
PiecesOf(a, v) == a \in Seq(Slots) /\ \A c \in 1 .. Len(a) : a[c] = Piece(v, c)
IsEncrypted(a, v) ==
  PiecesOf(a, v) /\ Len(v) <= Len(a) * NSlots /\ Len(a) * NSlots < Len(v) + NSlots

EncryptedSoFar ==
  Encrypting =>
    /\ PiecesOf(array, Vector)
    /\ \/ pos = Len(array) * NSlots /\ pos <= Len(Vector)
       \/ pos = Len(Vector) /\ IsEncrypted(array, Vector)

BothEncrypted ==
  /\ stage # "tf" => IsEncrypted(encrTF, tf)
  /\ ~Encrypting => IsEncrypted(encrQuery, queryTF)

SameSize == Len(encrTF) = Len(encrQuery)

\* The products of the ciphertexts, in pairs.
ScoresRight ==
  /\ Encrypting => scores = <<>>
  /\ scores # <<>> => SameSize
  /\ Len(scores) <= Len(encrTF)
  /\ stage = "decrypt" \/ (stage = "done" /\ SameSize) => SameSize /\ Len(scores) = Len(encrTF)
  /\ \A i \in 1 .. Len(scores) : scores[i] = Times(encrTF[i], encrQuery[i])

\* The sum of the products of the first n values is the score and a multiple of
\* the prime, and none if no product reaches it.
Reduced(n) ==
  \E m \in Nat :
    /\ ScalarProducts(tf, queryTF)[n] = score + m * P
    /\ (\A i \in 1 .. n : tf[i] * queryTF[i] < P) => m = 0

Summed ==
  /\ stage \notin {"decrypt", "done"} \/ scores = <<>> => score = 0
  /\ stage = "multiply" => pos = 0
  /\ stage \in {"decrypt", "done"} /\ scores # <<>> =>
       /\ pos <= Len(scores) * NSlots
       /\ stage = "done" => pos = Len(scores) * NSlots
       /\ Reduced(IF pos < Common THEN pos ELSE Common)

HEInv ==
  /\ tf \in Vectors /\ queryTF \in Vectors
  /\ stage \in {"tf", "query", "multiply", "decrypt", "done"}
  /\ pos \in 0 .. MaxLength + NSlots /\ score \in Nat
  /\ array \in Seq(Slots) /\ scores \in Seq(Slots)
  /\ encrTF \in Seq(Slots) /\ encrQuery \in Seq(Slots)
  /\ EncryptedSoFar /\ BothEncrypted /\ ScoresRight /\ Summed

\* A vector is a sequence of at least one value.
LEMMA VectorTyped ==
  ASSUME NEW v \in Vectors
  PROVE  /\ v \in Seq(Nat) /\ Len(v) \in 1 .. MaxLength
         /\ \A i \in 1 .. Len(v) : v[i] \in Nat
<1>1. PICK n \in 1 .. MaxLength : v \in [1 .. n -> 0 .. MaxValue]
  BY DEF Vectors
<1>2. n \in Nat /\ v \in Seq(Nat) /\ Len(v) = n
  BY <1>1, LengthsAssumption
<1> QED BY <1>1, <1>2

\* A piece is what fits into a ciphertext.
LEMMA PieceTyped ==
  ASSUME NEW v \in Vectors, NEW c \in Nat \ {0}
  PROVE  Piece(v, c) \in Slots
<1>1. NSlots \in Nat /\ P \in Nat \ {0} /\ P \in Nat
  BY ParamAssumption
<1>2. ASSUME NEW k \in 1 .. NSlots
      PROVE  Piece(v, c)[k] \in 0 .. P - 1
  <2> DEFINE i == (c - 1) * NSlots + k
  <2>1. i \in Nat /\ i >= 1
    <3>1. c - 1 \in Nat
      OBVIOUS
    <3>2. (c - 1) * NSlots \in Nat
      BY <3>1, <1>1
    <3> QED BY <3>2, <1>1
  <2> HIDE DEF i
  <2>2. Piece(v, c)[k] = IF i <= Len(v) THEN v[i] % P ELSE 0
    BY DEF Piece, i
  <2>3. i <= Len(v) => v[i] \in Nat
    BY <2>1, VectorTyped
  <2>4. \A n \in Nat : n % P \in 0 .. P - 1
    BY <1>1
  <2>5. 0 \in 0 .. P - 1
    BY <1>1
  <2> QED
    <3>1. CASE i <= Len(v)
      <4>1. Piece(v, c)[k] = v[i] % P /\ v[i] \in Nat
        BY <2>2, <2>3, <3>1
      <4> QED BY <4>1, <2>4
    <3>2. CASE ~(i <= Len(v))
      BY <2>2, <2>5, <3>2
    <3> QED BY <3>1, <3>2
<1>3. Piece(v, c) \in [1 .. NSlots -> 0 .. P - 1]
  <2>1. Piece(v, c) = [k \in 1 .. NSlots |-> Piece(v, c)[k]]
    BY DEF Piece
  <2> QED BY <1>2, <2>1
<1> QED BY <1>3 DEF Slots

\* Filling up the values from a place on, that is a multiple of the number of
\* slots, makes the piece that begins there.
LEMMA FilledUpIsPiece ==
  ASSUME NEW v \in Vectors, NEW c \in Nat, NEW n \in 1 .. NSlots,
         c * NSlots + n <= Len(v),
         n = NSlots \/ c * NSlots + n = Len(v)
  PROVE  FilledUp(SubSeq(v, c * NSlots + 1, c * NSlots + n)) = Piece(v, c + 1)
<1> DEFINE p == c * NSlots
           s == SubSeq(v, p + 1, p + n)
<1>1. NSlots \in Nat /\ p \in Nat /\ n \in Nat /\ n >= 1
  BY ParamAssumption
<1>2. (c + 1) - 1 = c /\ ((c + 1) - 1) * NSlots = p
  OBVIOUS
<1> HIDE DEF p
<1>3. p + n <= Len(v) /\ (n = NSlots \/ p + n = Len(v))
  BY DEF p
<1>4. Len(v) \in Nat /\ \A i \in 1 .. Len(v) : v[i] \in Nat
  BY VectorTyped
<1>5. Len(s) = n /\ \A i \in 1 .. n : s[i] = v[p + i]
  <2>1. \A i \in p + 1 .. p + n : v[i] \in Nat
    BY <1>1, <1>3, <1>4
  <2>2. p + 1 \in Int /\ p + n \in Int /\ p + 1 <= p + n
    BY <1>1
  <2>3. /\ Len(s) = IF p + 1 <= p + n THEN (p + n) - (p + 1) + 1 ELSE 0
        /\ \A i \in 1 .. (p + n) - (p + 1) + 1 : s[i] = v[(p + 1) + i - 1]
    BY <2>1, <2>2, SubSeqProperties
  <2>4. (p + n) - (p + 1) + 1 = n /\ \A i \in 1 .. n : (p + 1) + i - 1 = p + i
    BY <1>1
  <2> QED BY <2>2, <2>3, <2>4
<1> HIDE DEF s
<1>6. \A k \in 1 .. NSlots : k <= Len(s) <=> p + k <= Len(v)
  BY <1>1, <1>3, <1>4, <1>5
<1>7. \A k \in 1 .. NSlots : k <= Len(s) => s[k] = v[p + k]
  BY <1>1, <1>5
<1>8. FilledUp(s) = [k \in 1 .. NSlots |-> IF p + k <= Len(v) THEN v[p + k] % P ELSE 0]
  BY <1>6, <1>7 DEF FilledUp
<1> QED BY <1>2, <1>8 DEF Piece, s, p

\* One more piece.
LEMMA PieceAppended ==
  ASSUME NEW v \in Vectors, NEW a, PiecesOf(a, v)
  PROVE  /\ PiecesOf(Append(a, Piece(v, Len(a) + 1)), v)
         /\ Len(Append(a, Piece(v, Len(a) + 1))) = Len(a) + 1
<1> DEFINE b == Piece(v, Len(a) + 1)
<1>1. a \in Seq(Slots) /\ Len(a) \in Nat /\ \A c \in 1 .. Len(a) : a[c] = Piece(v, c)
  BY DEF PiecesOf
<1>2. b \in Slots
  BY <1>1, PieceTyped
<1> DEFINE e == Append(a, b)
<1>3. e \in Seq(Slots) /\ Len(e) = Len(a) + 1
  BY <1>1, <1>2
<1>4. \A c \in 1 .. Len(a) : e[c] = a[c]
  BY <1>1, <1>2
<1>5. e[Len(a) + 1] = b
  BY <1>1, <1>2
<1>6. \A c \in 1 .. Len(e) : c \in 1 .. Len(a) \/ c = Len(a) + 1
  BY <1>1, <1>3
<1>7. \A c \in 1 .. Len(e) : e[c] = Piece(v, c)
  <2> HIDE DEF e
  <2> QED BY <1>1, <1>4, <1>5, <1>6
<1> QED BY <1>3, <1>7 DEF PiecesOf

\* The initial state satisfies the invariant.
LEMMA HEInvInit == HEInit => HEInv
<1> SUFFICES ASSUME HEInit PROVE HEInv
  OBVIOUS
<1>1. /\ tf \in Vectors /\ queryTF \in Vectors /\ stage = "tf" /\ pos = 0 /\ score = 0
      /\ array = <<>> /\ encrTF = <<>> /\ encrQuery = <<>> /\ scores = <<>>
  BY DEF HEInit
<1>2. /\ NSlots \in Nat /\ MaxLength \in Nat /\ 0 * NSlots = 0
      /\ 0 \in 0 .. MaxLength + NSlots
  BY ParamAssumption, LengthsAssumption
<1>3. <<>> \in Seq(Slots) /\ Len(<<>>) = 0
  OBVIOUS
<1>4. Vector = tf /\ Len(tf) \in Nat
  BY <1>1, VectorTyped DEF Vector
<1>5. EncryptedSoFar
  BY <1>1, <1>2, <1>3, <1>4 DEF EncryptedSoFar, PiecesOf
<1>6. BothEncrypted /\ ScoresRight /\ Summed
  BY <1>1, <1>3 DEF BothEncrypted, Encrypting, ScoresRight, Summed
<1> QED BY <1>1, <1>2, <1>3, <1>5, <1>6 DEF HEInv

\* What is true of the vector that is encrypted.
LEMMA VectorBounds ==
  ASSUME HEInv, Encrypting
  PROVE  /\ Vector \in Vectors /\ Len(Vector) \in 1 .. MaxLength
         /\ Quotient \in Nat /\ Reminder \in 0 .. NSlots - 1
         /\ Len(Vector) = Quotient * NSlots + Reminder /\ Quotient * NSlots \in Nat
         /\ NSlots \in Nat \ {0} /\ NSlots \in Nat /\ MaxLength \in Nat /\ pos \in Nat
         /\ array \in Seq(Slots) /\ Len(array) \in Nat /\ Len(array) * NSlots \in Nat
<1>1. NSlots \in Nat \ {0} /\ NSlots \in Nat /\ MaxLength \in Nat
  BY ParamAssumption, LengthsAssumption
<1>2. Vector \in Vectors /\ pos \in Nat /\ array \in Seq(Slots)
  BY <1>1 DEF HEInv, Vector
<1>3. Len(Vector) \in 1 .. MaxLength /\ Len(Vector) \in Nat
  BY <1>1, <1>2, VectorTyped
<1>4. /\ Quotient \in Nat /\ Reminder \in 0 .. NSlots - 1
      /\ Len(Vector) = Quotient * NSlots + Reminder
  BY <1>1, <1>3, DivisionWithRest DEF Quotient, Reminder
<1>5. Len(array) \in Nat
  BY <1>2
<1>6. Quotient * NSlots \in Nat /\ Len(array) * NSlots \in Nat
  BY <1>1, <1>4, <1>5
<1> QED BY <1>1, <1>2, <1>3, <1>4, <1>5, <1>6

\* A piece is encrypted, and it is the next one.
LEMMA EncryptStep == HEInv /\ (EncryptFull \/ EncryptReminder) => HEInv'
<1> SUFFICES ASSUME HEInv, EncryptFull \/ EncryptReminder PROVE HEInv'
  OBVIOUS
<1> DEFINE v == Vector
           L == Len(array)
           n == pos' - pos
<1>1. Encrypting /\ UNCHANGED <<tf, queryTF, stage, encrTF, encrQuery, scores, score>>
  BY DEF EncryptFull, EncryptReminder
<1>2. /\ v \in Vectors /\ Len(v) \in 1 .. MaxLength
      /\ Quotient \in Nat /\ Reminder \in 0 .. NSlots - 1
      /\ Len(v) = Quotient * NSlots + Reminder /\ Quotient * NSlots \in Nat
      /\ NSlots \in Nat \ {0} /\ NSlots \in Nat /\ MaxLength \in Nat /\ pos \in Nat
      /\ array \in Seq(Slots) /\ L \in Nat /\ L * NSlots \in Nat
  BY <1>1, VectorBounds
<1>3. PiecesOf(array, v) /\ (pos = L * NSlots \/ pos = Len(v))
  BY <1>1 DEF HEInv, EncryptedSoFar
<1>4. (L + 1) * NSlots = L * NSlots + NSlots
  BY <1>2
<1>5. /\ n \in 1 .. NSlots /\ pos = L * NSlots /\ L * NSlots + n <= Len(v)
      /\ array' = Append(array, FilledUp(SubSeq(v, pos + 1, pos + n)))
      /\ pos' = pos + n
      /\ n = NSlots \/ L * NSlots + n = Len(v)
  <2>1. CASE EncryptFull
    <3>1. /\ pos < Quotient * NSlots /\ pos' = pos + NSlots
          /\ array' = Append(array, FilledUp(SubSeq(v, pos + 1, pos + NSlots)))
      BY <2>1 DEF EncryptFull
    <3>2. pos = L * NSlots
      BY <1>2, <1>3, <3>1
    <3>3. L < Quotient
      <4> SUFFICES ASSUME Quotient <= L PROVE FALSE
        BY <1>2
      <4>1. Quotient * NSlots <= L * NSlots
        BY <1>2, MultiplesOrdered
      <4> QED BY <4>1, <3>1, <3>2, <1>2
    <3>4. L * NSlots + NSlots <= Quotient * NSlots
      BY <3>3, <1>2, MultiplesOrdered
    <3>5. n = NSlots
      BY <1>2, <3>1
    <3> HIDE DEF n, v, L
    <3> QED BY <1>2, <3>1, <3>2, <3>4, <3>5
  <2>2. CASE EncryptReminder
    <3>1. /\ pos = Quotient * NSlots /\ Reminder > 0 /\ pos' = pos + Reminder
          /\ array' = Append(array, FilledUp(SubSeq(v, pos + 1, pos + Reminder)))
      BY <2>2 DEF EncryptReminder
    <3>2. pos = L * NSlots
      BY <1>2, <1>3, <3>1
    <3>3. n = Reminder
      BY <1>2, <3>1
    <3> HIDE DEF n, v, L
    <3> QED BY <1>2, <3>1, <3>2, <3>3
  <2> QED BY <2>1, <2>2
<1> HIDE DEF n
<1>6. array' = Append(array, Piece(v, L + 1))
  <2> HIDE DEF v, L
  <2>1. FilledUp(SubSeq(v, L * NSlots + 1, L * NSlots + n)) = Piece(v, L + 1)
    BY <1>2, <1>5, FilledUpIsPiece
  <2> QED BY <2>1, <1>5
<1>7. PiecesOf(array', v) /\ Len(array') = L + 1 /\ array' \in Seq(Slots)
  <2>1. PiecesOf(array', v) /\ Len(array') = L + 1
    BY <1>2, <1>3, <1>6, PieceAppended
  <2> QED BY <2>1 DEF PiecesOf
<1> HIDE DEF v, L
<1>8. pos' \in 0 .. MaxLength + NSlots /\ pos' <= Len(v)
  BY <1>2, <1>5
<1>9. pos' = (L + 1) * NSlots \/ (pos' = Len(v) /\ IsEncrypted(array', v))
  <2>1. CASE n = NSlots
    BY <2>1, <1>2, <1>4, <1>5
  <2>2. CASE n # NSlots
    <3>1. pos' = Len(v) /\ Len(v) <= (L + 1) * NSlots /\ (L + 1) * NSlots < Len(v) + NSlots
      BY <2>2, <1>2, <1>4, <1>5
    <3> QED BY <3>1, <1>7 DEF IsEncrypted
  <2> QED BY <2>1, <2>2
<1>10. Vector' = v
  BY <1>1 DEF Vector, v
<1>11. EncryptedSoFar'
  BY <1>7, <1>8, <1>9, <1>10 DEF EncryptedSoFar
<1>12. BothEncrypted' /\ ScoresRight'
  BY <1>1 DEF HEInv, BothEncrypted, ScoresRight, Encrypting, SameSize
<1>13. Summed'
  BY <1>1 DEF HEInv, Summed, Encrypting
<1> QED BY <1>1, <1>7, <1>8, <1>11, <1>12, <1>13 DEF HEInv

\* A vector is encrypted, and the next may begin.
LEMMA EncryptedStep == HEInv /\ Encrypted => HEInv'
<1> SUFFICES ASSUME HEInv, Encrypted PROVE HEInv'
  OBVIOUS
<1>1. /\ Encrypting /\ pos = Len(Vector) /\ pos' = 0 /\ array' = <<>>
      /\ encrTF' = IF stage = "tf" THEN array ELSE encrTF
      /\ encrQuery' = IF stage = "query" THEN array ELSE encrQuery
      /\ stage' = IF stage = "tf" THEN "query" ELSE "multiply"
      /\ UNCHANGED <<tf, queryTF, scores, score>>
  BY DEF Encrypted
<1>2. /\ Len(Vector) \in 1 .. MaxLength /\ NSlots \in Nat \ {0} /\ NSlots \in Nat
      /\ MaxLength \in Nat /\ array \in Seq(Slots)
      /\ Len(array) \in Nat /\ Len(array) * NSlots \in Nat
  BY <1>1, VectorBounds
<1>3. IsEncrypted(array, Vector)
  <2>1. /\ PiecesOf(array, Vector)
        /\ pos = Len(array) * NSlots \/ IsEncrypted(array, Vector)
    BY <1>1 DEF HEInv, EncryptedSoFar
  <2>2. ASSUME pos = Len(array) * NSlots PROVE IsEncrypted(array, Vector)
    <3>1. Len(Vector) <= Len(array) * NSlots /\ Len(array) * NSlots < Len(Vector) + NSlots
      BY <1>1, <1>2, <2>2
    <3> QED BY <2>1, <3>1 DEF IsEncrypted
  <2> QED BY <2>1, <2>2
<1>4. <<>> \in Seq(Slots) /\ Len(<<>>) = 0 /\ 0 * NSlots = 0
      /\ 0 \in 0 .. MaxLength + NSlots
  BY <1>2
<1>5. EncryptedSoFar'
  <2>1. CASE stage = "tf"
    <3>1. Vector' = queryTF /\ Len(queryTF) \in Nat
      BY <2>1, <1>1, VectorTyped DEF Vector, HEInv
    <3>2. PiecesOf(array', queryTF)
      BY <1>1, <1>4 DEF PiecesOf
    <3>3. pos' = Len(array') * NSlots /\ pos' <= Len(queryTF)
      BY <1>1, <1>4, <3>1
    <3> QED BY <3>1, <3>2, <3>3 DEF EncryptedSoFar
  <2>2. CASE stage = "query"
    BY <2>2, <1>1 DEF EncryptedSoFar, Encrypting
  <2> QED BY <2>1, <2>2, <1>1 DEF Encrypting
<1>6. BothEncrypted'
  <2>1. CASE stage = "tf"
    BY <2>1, <1>1, <1>3 DEF BothEncrypted, Encrypting, Vector
  <2>2. CASE stage = "query"
    BY <2>2, <1>1, <1>3 DEF HEInv, BothEncrypted, Encrypting, Vector
  <2> QED BY <2>1, <2>2, <1>1 DEF Encrypting
<1>7. encrTF' \in Seq(Slots) /\ encrQuery' \in Seq(Slots)
  BY <1>1 DEF HEInv
<1>8. scores = <<>> /\ score = 0
  BY <1>1 DEF HEInv, ScoresRight, Summed, Encrypting
<1>9. ScoresRight'
  <2>1. Len(encrTF') \in Nat /\ scores' = <<>> /\ Len(scores') = 0
    BY <1>1, <1>4, <1>7, <1>8
  <2>2. stage' \in {"query", "multiply"}
    BY <1>1
  <2> QED BY <2>1, <2>2 DEF ScoresRight
<1>10. Summed'
  BY <1>1, <1>8 DEF Summed
<1>11. array' \in Seq(Slots) /\ pos' \in 0 .. MaxLength + NSlots
       /\ stage' \in {"tf", "query", "multiply", "decrypt", "done"}
  BY <1>1, <1>4
<1> QED BY <1>1, <1>5, <1>6, <1>7, <1>9, <1>10, <1>11 DEF HEInv

\* Slots of products are typed.
LEMMA TimesTyped ==
  ASSUME NEW a \in Slots, NEW b \in Slots
  PROVE  Times(a, b) \in Slots
<1>1. P \in Nat \ {0} /\ NSlots \in Nat
  BY ParamAssumption
<1>2. \A k \in 1 .. NSlots : a[k] \in Nat /\ b[k] \in Nat
  BY <1>1 DEF Slots
<1>3. \A m, n \in Nat : (m * n) % P \in 0 .. P - 1
  <2> SUFFICES ASSUME NEW m \in Nat, NEW n \in Nat PROVE (m * n) % P \in 0 .. P - 1
    OBVIOUS
  <2> DEFINE mn == m * n
  <2>1. mn \in Nat
    OBVIOUS
  <2> HIDE DEF mn
  <2>2. mn % P \in 0 .. P - 1
    BY <1>1, <2>1
  <2> QED BY <2>2 DEF mn
<1>4. \A k \in 1 .. NSlots : (a[k] * b[k]) % P \in 0 .. P - 1
  BY <1>2, <1>3
<1> QED BY <1>4 DEF Times, Slots

\* The next ciphertexts are multiplied.
LEMMA MultiplyStep == HEInv /\ Multiply => HEInv'
<1> SUFFICES ASSUME HEInv, Multiply PROVE HEInv'
  OBVIOUS
<1> DEFINE i == Len(scores) + 1
           product == Times(encrTF[i], encrQuery[i])
<1>1. /\ stage = "multiply" /\ SameSize /\ Len(scores) < Len(encrTF)
      /\ scores' = Append(scores, product)
      /\ UNCHANGED <<tf, queryTF, stage, pos, array, encrTF, encrQuery, score>>
  BY DEF Multiply, SameSize
<1>2. /\ encrTF \in Seq(Slots) /\ encrQuery \in Seq(Slots) /\ scores \in Seq(Slots)
      /\ Len(encrTF) = Len(encrQuery) /\ Len(encrTF) \in Nat /\ Len(scores) \in Nat
  BY <1>1 DEF HEInv, SameSize
<1>3. i \in 1 .. Len(encrTF) /\ i \in 1 .. Len(encrQuery)
  BY <1>1, <1>2
<1>4. product \in Slots
  BY <1>2, <1>3, TimesTyped
<1> HIDE DEF product
<1>5. scores' \in Seq(Slots) /\ Len(scores') = i /\ scores' # <<>>
      /\ scores'[i] = product /\ \A j \in 1 .. Len(scores) : scores'[j] = scores[j]
  <2>1. scores' \in Seq(Slots) /\ Len(scores') = i
    BY <1>1, <1>2, <1>4
  <2>2. scores'[i] = product /\ \A j \in 1 .. Len(scores) : scores'[j] = scores[j]
    BY <1>1, <1>2, <1>4
  <2> QED BY <2>1, <2>2, <1>2
<1>6. \A j \in 1 .. i : scores'[j] = Times(encrTF[j], encrQuery[j])
  <2>1. \A j \in 1 .. Len(scores) : scores[j] = Times(encrTF[j], encrQuery[j])
    BY DEF HEInv, ScoresRight
  <2>2. \A j \in 1 .. i : j \in 1 .. Len(scores) \/ j = i
    BY <1>2
  <2> HIDE DEF i
  <2> QED BY <1>5, <2>1, <2>2 DEF product
<1>7. ScoresRight'
  <2>1. i <= Len(encrTF)
    BY <1>3, <1>2
  <2> HIDE DEF i
  <2> QED BY <1>1, <1>5, <1>6, <2>1 DEF ScoresRight, SameSize, Encrypting
<1>8. Summed'
  BY <1>1 DEF HEInv, Summed
<1>9. EncryptedSoFar' /\ BothEncrypted'
  BY <1>1 DEF HEInv, EncryptedSoFar, BothEncrypted, Encrypting
<1> QED BY <1>1, <1>5, <1>7, <1>8, <1>9 DEF HEInv

\* The vectors have as many scalar products as the shorter has values, and one more.
LEMMA CommonTyped ==
  ASSUME HEInv
  PROVE  /\ Common \in Nat /\ Common <= Len(tf) /\ Common <= Len(queryTF)
         /\ Common = Len(tf) \/ Common = Len(queryTF)
         /\ Len(tf) \in 1 .. MaxLength /\ Len(queryTF) \in 1 .. MaxLength
         /\ MaxLength \in Nat
         /\ \A i \in 1 .. Common : tf[i] \in Nat /\ queryTF[i] \in Nat
         /\ ScalarProducts(tf, queryTF)[0] = 0
         /\ \A i \in 1 .. Common :
              ScalarProducts(tf, queryTF)[i] =
                ScalarProducts(tf, queryTF)[i - 1] + tf[i] * queryTF[i]
         /\ \A i \in 0 .. Common : ScalarProducts(tf, queryTF)[i] \in Nat
<1>1. tf \in Vectors /\ queryTF \in Vectors /\ MaxLength \in Nat
  BY LengthsAssumption DEF HEInv
<1>2. /\ tf \in Seq(Nat) /\ Len(tf) \in 1 .. MaxLength
      /\ \A i \in 1 .. Len(tf) : tf[i] \in Nat
      /\ queryTF \in Seq(Nat) /\ Len(queryTF) \in 1 .. MaxLength
      /\ \A i \in 1 .. Len(queryTF) : queryTF[i] \in Nat
  BY <1>1, VectorTyped
<1>3. /\ Common \in Nat /\ Common <= Len(tf) /\ Common <= Len(queryTF)
      /\ Common = Len(tf) \/ Common = Len(queryTF)
  BY <1>1, <1>2 DEF Common, Shorter
<1>4. \A i \in 1 .. Common : tf[i] \in Nat /\ queryTF[i] \in Nat
  BY <1>1, <1>2, <1>3
<1>5. Shorter(tf, queryTF) = Common
  BY DEF Common
<1>6. /\ ScalarProducts(tf, queryTF)[0] = 0
      /\ \A i \in 1 .. Common :
           ScalarProducts(tf, queryTF)[i] =
             ScalarProducts(tf, queryTF)[i - 1] + tf[i] * queryTF[i]
      /\ \A i \in 0 .. Common : ScalarProducts(tf, queryTF)[i] \in Nat
  BY <1>2, <1>5, ScalarProductsAre
<1> QED BY <1>1, <1>2, <1>3, <1>4, <1>6

\* The products are there, and the sum begins; or there are none.
LEMMA MultipliedStep == HEInv /\ (Multiplied \/ SizesDiffer) => HEInv'
<1> SUFFICES ASSUME HEInv, Multiplied \/ SizesDiffer PROVE HEInv'
  OBVIOUS
<1>1. /\ stage = "multiply"
      /\ UNCHANGED <<tf, queryTF, pos, array, encrTF, encrQuery, scores, score>>
      /\ \/ stage' = "decrypt" /\ SameSize /\ Len(scores) = Len(encrTF)
         \/ stage' = "done" /\ ~SameSize
  BY DEF Multiplied, SizesDiffer, SameSize
<1>2. pos = 0 /\ score = 0
  BY <1>1 DEF HEInv, Summed
<1>3. ScoresRight'
  BY <1>1 DEF HEInv, ScoresRight, SameSize, Encrypting
<1>4. Reduced(0)
  <2>1. 0 \in Nat /\ 0 = score + 0 * P
    BY <1>2, ParamAssumption
  <2> QED BY <2>1, CommonTyped DEF Reduced
<1>5. Reduced(0)' /\ Common' = Common /\ Common \in Nat
  BY <1>1, <1>4, CommonTyped DEF Reduced, Common
<1>6. scores # <<>> => stage' # "done" /\ pos <= Len(scores) * NSlots
  <2>1. scores # <<>> => SameSize
    BY DEF HEInv, ScoresRight
  <2>2. Len(scores) * NSlots \in Nat
    BY ParamAssumption DEF HEInv
  <2> QED BY <2>1, <2>2, <1>1, <1>2
<1>7. (IF pos < Common THEN pos ELSE Common)' = 0
  BY <1>1, <1>2, <1>5
<1>8. Summed'
  BY <1>1, <1>2, <1>5, <1>6, <1>7 DEF Summed
<1>9. EncryptedSoFar' /\ BothEncrypted'
  BY <1>1 DEF HEInv, EncryptedSoFar, BothEncrypted, Encrypting
<1>10. stage' \in {"tf", "query", "multiply", "decrypt", "done"}
  BY <1>1
<1> QED BY <1>1, <1>3, <1>8, <1>9, <1>10 DEF HEInv

\* The next value is the product of the next values of both vectors, as far as
\* both go on, and 0 after that.
LEMMA DecryptedIs ==
  ASSUME HEInv, stage = "decrypt", pos < Len(scores) * NSlots
  PROVE  Decrypted(pos + 1) =
           IF pos < Common THEN ((tf[pos + 1] % P) * (queryTF[pos + 1] % P)) % P ELSE 0
<1> DEFINE q == pos \div NSlots
           k == (pos % NSlots) + 1
           L == Len(scores)
<1>1. /\ NSlots \in Nat \ {0} /\ NSlots \in Nat /\ P \in Nat \ {0} /\ pos \in Nat
      /\ L \in Nat /\ L = Len(encrTF) /\ L = Len(encrQuery)
  BY ParamAssumption, LengthsAssumption DEF HEInv, ScoresRight, SameSize
<1>2. q \in Nat /\ k \in 1 .. NSlots /\ q * NSlots + k = pos + 1 /\ q * NSlots \in Nat
  <2>1. q \in Nat /\ pos % NSlots \in 0 .. NSlots - 1 /\ pos = q * NSlots + (pos % NSlots)
    BY <1>1, DivisionWithRest
  <2>2. q * NSlots \in Nat
    BY <1>1, <2>1
  <2> HIDE DEF q
  <2> QED BY <1>1, <2>1, <2>2
<1>3. Decrypted(pos + 1) = scores[q + 1][k]
  <2>1. (pos + 1) - 1 = pos
    BY <1>1
  <2> QED BY <2>1 DEF Decrypted
<1> HIDE DEF q, k, L
<1>4. q + 1 \in 1 .. L
  <2> SUFFICES ASSUME L <= q PROVE FALSE
    BY <1>1, <1>2
  <2>1. L * NSlots <= q * NSlots /\ L * NSlots \in Nat
    BY <1>1, <1>2, MultiplesOrdered
  <2> QED BY <2>1, <1>1, <1>2 DEF L
<1>5. /\ scores[q + 1] = Times(Piece(tf, q + 1), Piece(queryTF, q + 1))
      /\ (q + 1) - 1 = q
  <2>1. scores[q + 1] = Times(encrTF[q + 1], encrQuery[q + 1])
    BY <1>4 DEF HEInv, ScoresRight, L
  <2>2. PiecesOf(encrTF, tf) /\ PiecesOf(encrQuery, queryTF)
    BY DEF HEInv, BothEncrypted, Encrypting, IsEncrypted
  <2>3. encrTF[q + 1] = Piece(tf, q + 1) /\ encrQuery[q + 1] = Piece(queryTF, q + 1)
    BY <1>1, <1>4, <2>2 DEF PiecesOf
  <2> QED BY <2>1, <2>3, <1>2
<1> DEFINE i == pos + 1
           a == IF i <= Len(tf) THEN tf[i] % P ELSE 0
           b == IF i <= Len(queryTF) THEN queryTF[i] % P ELSE 0
<1>6. Piece(tf, q + 1)[k] = a /\ Piece(queryTF, q + 1)[k] = b
  BY <1>2, <1>5 DEF Piece
<1>7. Decrypted(pos + 1) = (a * b) % P
  BY <1>2, <1>3, <1>5, <1>6 DEF Times
<1>8. CASE pos < Common
  <2>1. i <= Len(tf) /\ i <= Len(queryTF)
    BY <1>1, <1>8, CommonTyped
  <2> QED BY <1>7, <1>8, <2>1
<1>9. CASE ~(pos < Common)
  <2>1. ~(i <= Len(tf)) \/ ~(i <= Len(queryTF))
    BY <1>1, <1>9, CommonTyped
  <2>2. a \in Nat /\ b \in Nat
    <3>1. i \in Nat /\ i >= 1
      BY <1>1
    <3>2. i <= Len(tf) => tf[i] \in Nat
      BY <3>1, VectorTyped DEF HEInv
    <3>3. i <= Len(queryTF) => queryTF[i] \in Nat
      BY <3>1, VectorTyped DEF HEInv
    <3>4. \A n \in Nat : n % P \in Nat
      BY <1>1
    <3> HIDE DEF i
    <3> QED BY <3>2, <3>3, <3>4
  <2>3. a = 0 \/ b = 0
    BY <2>1
  <2> HIDE DEF a, b
  <2>4. a * b = 0
    BY <2>2, <2>3
  <2>5. 0 % P = 0
    BY <1>1
  <2> QED BY <1>7, <1>9, <2>4, <2>5
<1> QED BY <1>8, <1>9

\* A value is added, and the sum stays right.
LEMMA AddStep == HEInv /\ Add => HEInv'
<1> SUFFICES ASSUME HEInv, Add PROVE HEInv'
  OBVIOUS
<1> DEFINE S == ScalarProducts(tf, queryTF)
           i == pos + 1
           value == Decrypted(i)
           product == tf[i] * queryTF[i]
<1>1. /\ stage = "decrypt" /\ pos < Len(scores) * NSlots
      /\ pos' = pos + 1 /\ score' = score + value
      /\ UNCHANGED <<tf, queryTF, stage, array, encrTF, encrQuery, scores>>
  BY DEF Add
<1>2. /\ NSlots \in Nat \ {0} /\ NSlots \in Nat /\ P \in Nat \ {0} /\ P \in Nat
      /\ pos \in Nat /\ score \in Nat
      /\ Len(scores) \in Nat /\ Len(scores) * NSlots \in Nat /\ MaxLength \in Nat
  BY ParamAssumption, LengthsAssumption DEF HEInv
<1>3. scores # <<>>
  <2>1. 0 * NSlots = 0
    BY <1>2
  <2> QED BY <2>1, <1>1, <1>2
<1>4. /\ Common \in Nat /\ Common' = Common
      /\ \A j \in 1 .. Common : /\ tf[j] \in Nat /\ queryTF[j] \in Nat
                                /\ S[j] = S[j - 1] + tf[j] * queryTF[j]
      /\ \A j \in 0 .. Common : S[j] \in Nat
  <2>1. Common' = Common
    BY <1>1 DEF Common
  <2> QED BY <2>1, CommonTyped
<1>5. Reduced(IF pos < Common THEN pos ELSE Common)
  BY <1>1, <1>3 DEF HEInv, Summed
<1>6. value = IF pos < Common THEN ((tf[i] % P) * (queryTF[i] % P)) % P ELSE 0
  BY <1>1, DecryptedIs
<1> HIDE DEF value, S
<1>7. /\ score' \in Nat
      /\ \E m \in Nat :
           /\ S[IF i < Common THEN i ELSE Common] = score' + m * P
           /\ (\A j \in 1 .. (IF i < Common THEN i ELSE Common) : tf[j] * queryTF[j] < P) => m = 0
  <2>1. CASE pos < Common
    <3>1. PICK m1 \in Nat : /\ S[pos] = score + m1 * P
                            /\ (\A j \in 1 .. pos : tf[j] * queryTF[j] < P) => m1 = 0
      BY <1>5, <2>1 DEF Reduced, S
    <3>2. i \in 1 .. Common /\ i - 1 = pos /\ tf[i] \in Nat /\ queryTF[i] \in Nat
      BY <1>2, <1>4, <2>1
    <3>3. /\ value \in 0 .. P - 1
          /\ \E m \in Nat : product = value + m * P /\ (product < P => m = 0)
      BY <1>6, <2>1, <3>2, ProductModulo
    <3>4. PICK m2 \in Nat : product = value + m2 * P /\ (product < P => m2 = 0)
      BY <3>3
    <3>5. S[i] = S[pos] + product
      BY <1>4, <3>2
    <3>6. product \in Nat /\ value \in Nat
      BY <3>2, <3>3, <1>2
    <3> HIDE DEF product
    <3>7. S[i] = score' + (m1 + m2) * P
      <4>1. (m1 + m2) * P = m1 * P + m2 * P /\ m1 * P \in Nat /\ m2 * P \in Nat
        BY <1>2
      <4> QED BY <4>1, <1>1, <1>2, <3>1, <3>4, <3>5, <3>6
    <3>8. ASSUME \A j \in 1 .. i : tf[j] * queryTF[j] < P PROVE m1 + m2 = 0
      <4>1. product < P
        BY <3>8, <1>2 DEF product
      <4>2. \A j \in 1 .. pos : tf[j] * queryTF[j] < P
        BY <3>8, <1>2
      <4> QED BY <4>1, <4>2, <3>1, <3>4
    <3>9. (IF i < Common THEN i ELSE Common) = i
      <4> HIDE DEF i
      <4>1. i \in Nat /\ (i < Common \/ i = Common)
        BY <3>2, <1>4
      <4> QED BY <4>1
    <3>10. score' \in Nat /\ m1 + m2 \in Nat
      BY <1>1, <1>2, <3>6
    <3> HIDE DEF i
    <3> QED BY <3>7, <3>8, <3>9, <3>10
  <2>2. CASE ~(pos < Common)
    <3>1. value = 0 /\ score' = score
      BY <1>1, <1>2, <1>6, <2>2
    <3>2. (IF i < Common THEN i ELSE Common) = Common
      BY <1>2, <1>4, <2>2
    <3> HIDE DEF i
    <3> QED BY <3>1, <3>2, <1>2, <1>5, <2>2 DEF Reduced, S
  <2> QED BY <2>1, <2>2
<1>8. Reduced(IF pos < Common THEN pos ELSE Common)'
  BY <1>1, <1>4, <1>7 DEF Reduced, S
<1>9. Summed'
  <2>1. pos' <= Len(scores) * NSlots
    BY <1>1, <1>2
  <2> QED BY <2>1, <1>1, <1>3, <1>8 DEF Summed
<1>10. pos' \in 0 .. MaxLength + NSlots
  <2>1. Len(scores) * NSlots < Len(tf) + NSlots
    BY <1>1 DEF HEInv, BothEncrypted, Encrypting, IsEncrypted, ScoresRight
  <2>2. Len(tf) \in 1 .. MaxLength
    BY CommonTyped
  <2> QED BY <2>1, <2>2, <1>1, <1>2
<1>11. EncryptedSoFar' /\ BothEncrypted' /\ ScoresRight'
  BY <1>1 DEF HEInv, EncryptedSoFar, BothEncrypted, ScoresRight, Encrypting, SameSize
<1> QED BY <1>1, <1>7, <1>9, <1>10, <1>11 DEF HEInv

\* Every step keeps the invariant.
LEMMA HEInvStep == HEInv /\ [HENext]_heVars => HEInv'
<1> SUFFICES ASSUME HEInv, [HENext]_heVars PROVE HEInv'
  OBVIOUS
<1>1. CASE EncryptFull \/ EncryptReminder
  BY <1>1, EncryptStep
<1>2. CASE Encrypted
  BY <1>2, EncryptedStep
<1>3. CASE Multiply
  BY <1>3, MultiplyStep
<1>4. CASE Multiplied \/ SizesDiffer
  BY <1>4, MultipliedStep
<1>5. CASE Add
  BY <1>5, AddStep
<1>6. CASE Added
  <2>1. /\ stage = "decrypt" /\ pos = Len(scores) * NSlots /\ stage' = "done"
        /\ UNCHANGED <<tf, queryTF, pos, array, encrTF, encrQuery, scores, score>>
    BY <1>6 DEF Added
  <2>2. EncryptedSoFar' /\ BothEncrypted' /\ ScoresRight'
    BY <2>1 DEF HEInv, EncryptedSoFar, BothEncrypted, ScoresRight, Encrypting, SameSize
  <2>3. Summed'
    BY <2>1 DEF HEInv, Summed, Reduced, Common
  <2> QED BY <2>1, <2>2, <2>3 DEF HEInv
<1>7. CASE UNCHANGED heVars
  BY <1>7 DEF heVars, HEInv, EncryptedSoFar, BothEncrypted, ScoresRight, Summed, Encrypting,
              Vector, SameSize, Reduced, Common
<1> QED BY <1>1, <1>2, <1>3, <1>4, <1>5, <1>6, <1>7 DEF HENext, Done

-----------------------------------------------------------------------------
(* The score.                                                              *)

\* As many values give as many ciphertexts.
LEMMA SameLengthSameSize ==
  ASSUME HEInv, stage = "done", Len(tf) = Len(queryTF)
  PROVE  SameSize /\ scores # <<>>
<1> DEFINE a == Len(encrTF)
           b == Len(encrQuery)
           n == Len(tf)
<1>1. /\ NSlots \in Nat \ {0} /\ NSlots \in Nat /\ a \in Nat /\ b \in Nat
      /\ n \in Nat /\ n >= 1
  BY ParamAssumption, CommonTyped DEF HEInv
<1>2. /\ n <= a * NSlots /\ a * NSlots < n + NSlots
      /\ n <= b * NSlots /\ b * NSlots < n + NSlots
  BY DEF HEInv, BothEncrypted, Encrypting, IsEncrypted
<1> HIDE DEF a, b, n
<1>3. ~(a < b) /\ ~(b < a)
  <2>1. /\ a < b => a * NSlots + NSlots <= b * NSlots
        /\ b < a => b * NSlots + NSlots <= a * NSlots
        /\ a * NSlots \in Nat /\ b * NSlots \in Nat
    BY <1>1, MultiplesOrdered
  <2> QED BY <2>1, <1>1, <1>2
<1>4. a = b /\ a # 0
  <2>1. 0 * NSlots = 0
    BY <1>1
  <2> QED BY <2>1, <1>1, <1>2, <1>3
<1>5. SameSize
  BY <1>4 DEF a, b, SameSize
<1>6. Len(scores) = a
  BY <1>5 DEF HEInv, ScoresRight, a
<1>7. Len(<<>>) = 0
  OBVIOUS
<1> QED BY <1>4, <1>5, <1>6, <1>7

\* At the end every value that both vectors have has been added.
LEMMA AllAdded ==
  ASSUME HEInv, stage = "done", scores # <<>>
  PROVE  Reduced(Common)
<1>1. SameSize /\ Len(scores) = Len(encrTF) /\ pos = Len(scores) * NSlots
  BY DEF HEInv, ScoresRight, Summed
<1>2. Len(tf) <= Len(encrTF) * NSlots
  BY DEF HEInv, BothEncrypted, Encrypting, IsEncrypted
<1>3. pos \in Nat /\ (~(pos < Common) \/ pos = Common)
  BY <1>1, <1>2, CommonTyped, LengthsAssumption, ParamAssumption DEF HEInv
<1>4. (IF pos < Common THEN pos ELSE Common) = Common
  BY <1>3
<1> QED BY <1>4 DEF HEInv, Summed

\* The invariant holds in every state.
LEMMA HEInvariance == HESpec => []HEInv
BY HEInvInit, HEInvStep, PTL DEF HESpec

\* The state of the computation has its type: a slot never holds a number that
\* is not one modulo P.
THEOREM HETypeCorrect == HESpec => []HETypeOK
<1>1. HEInv => HETypeOK
  <2> SUFFICES ASSUME HEInv PROVE HETypeOK
    OBVIOUS
  <2>1. tf \in Seq(Nat) /\ queryTF \in Seq(Nat)
    BY VectorTyped DEF HEInv
  <2>2. \A a \in Seq(Slots) : \A i \in DOMAIN a : a[i] \in Slots
    OBVIOUS
  <2> QED BY <2>1, <2>2 DEF HEInv, HETypeOK
<1> QED BY <1>1, HEInvariance, PTL

\* The score is the scalar product of the vectors, however they are cut into
\* ciphertexts, as long as no product reaches the prime.
THEOREM ScoreIsScalarProduct == HESpec => []ScoreIsProduct
<1>1. HEInv => ScoreIsProduct
  <2> SUFFICES ASSUME HEInv, stage = "done", Len(tf) = Len(queryTF),
                      \A i \in DOMAIN tf : tf[i] * queryTF[i] < P
               PROVE  score = Product
    BY DEF ScoreIsProduct
  <2>1. Reduced(Common)
    BY SameLengthSameSize, AllAdded
  <2>2. PICK m \in Nat : /\ ScalarProducts(tf, queryTF)[Common] = score + m * P
                         /\ (\A i \in 1 .. Common : tf[i] * queryTF[i] < P) => m = 0
    BY <2>1 DEF Reduced
  <2>3. \A i \in 1 .. Common : i \in DOMAIN tf
    <3>1. DOMAIN tf = 1 .. Len(tf)
      BY VectorTyped DEF HEInv
    <3> QED BY <3>1, CommonTyped
  <2>4. m = 0
    BY <2>2, <2>3
  <2>5. score \in Nat /\ 0 * P = 0
    BY ParamAssumption DEF HEInv
  <2> QED BY <2>2, <2>4, <2>5 DEF Product
<1> QED BY <1>1, HEInvariance, PTL

\* Vectors of different lengths: they give no score if they differ by a ciphertext
\* or more, and else the score is the scalar product of what both have, less a
\* multiple of the prime.
THEOREM DifferentSizesTold == HESpec => []DifferentSizes
<1>1. HEInv => DifferentSizes
  <2> SUFFICES ASSUME HEInv, stage = "done" PROVE DifferentSizes
    BY DEF DifferentSizes
  <2> DEFINE a == Len(tf)
             b == Len(queryTF)
             x == Len(encrTF) * NSlots
             y == Len(encrQuery) * NSlots
  <2>1. ASSUME a - b >= NSlots \/ b - a >= NSlots PROVE scores = <<>> /\ score = 0
    <3>1. /\ a <= x /\ x < a + NSlots
          /\ b <= y /\ y < b + NSlots
      BY DEF HEInv, BothEncrypted, Encrypting, IsEncrypted
    <3>2. /\ a \in Nat /\ b \in Nat /\ NSlots \in Nat
          /\ Len(encrTF) \in Nat /\ Len(encrQuery) \in Nat
      BY CommonTyped, ParamAssumption DEF HEInv
    <3>3. x \in Nat /\ y \in Nat
      BY <3>2
    <3>4. ~SameSize
      <4> SUFFICES ASSUME SameSize PROVE FALSE
        OBVIOUS
      <4>1. x = y
        BY DEF SameSize
      <4> HIDE DEF x, y, a, b
      <4> QED BY <4>1, <3>1, <3>2, <3>3, <2>1
    <3>5. scores = <<>>
      BY <3>4 DEF HEInv, ScoresRight
    <3> QED BY <3>5 DEF HEInv, Summed
  <2>2. ASSUME scores # <<>> PROVE score <= Product /\ (Product - score) % P = 0
    <3>1. PICK m \in Nat : ScalarProducts(tf, queryTF)[Common] = score + m * P
      BY <2>2, AllAdded DEF Reduced
    <3>2. Product = score + m * P /\ score \in Nat /\ P \in Nat \ {0} /\ m * P \in Nat
      BY <3>1, ParamAssumption DEF Product, HEInv
    <3>3. score <= Product /\ Product - score = m * P
      BY <3>2
    <3>4. (m * P) % P = 0
      BY <3>2
    <3> QED BY <3>3, <3>4
  <2>3. ASSUME a = b PROVE scores # <<>>
    BY <2>3, SameLengthSameSize
  <2> QED BY <2>1, <2>2, <2>3 DEF DifferentSizes
<1> QED BY <1>1, HEInvariance, PTL

==============================================================================
