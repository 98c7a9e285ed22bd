---------------------------- MODULE NatRecursion ----------------------------
(***************************************************************************)
(* Induction and recursion over the natural numbers, stated with sets and  *)
(* functions in place of operators, so that the lemmas can be cited with a *)
(* value for each parameter.                                               *)
(***************************************************************************)
EXTENDS Integers, FiniteSetsExt, FiniteSetTheorems, TLAPS

\* A set of natural numbers that is not empty has a least element.
LEMMA LeastNat ==
    ASSUME NEW S \in SUBSET Nat, S # {}
    PROVE  \E n \in S : \A k \in S : n <= k
<1>1. IsWellFoundedOn(OpToRel(<, Nat), Nat)
    BY NatLessThanWellFounded
<1>2. PICK n \in S : \A k \in S : <<k, n>> \notin OpToRel(<, Nat)
    BY <1>1, WFMin
<1>3. \A k \in S : ~(k < n)
    BY <1>2 DEF OpToRel
<1> QED
    BY <1>3

\* A set with zero and the successor of each of its numbers has them all.
LEMMA SetInduction ==
    ASSUME NEW S, 0 \in S, \A n \in Nat : n \in S => n + 1 \in S
    PROVE  Nat \subseteq S
<1> SUFFICES ASSUME Nat \ S # {} PROVE FALSE
    OBVIOUS
<1>1. PICK n \in Nat \ S : \A k \in Nat \ S : n <= k
    BY LeastNat
<1>2. n - 1 \in Nat /\ n - 1 \in S
    BY <1>1
<1> QED
    BY <1>2

\* The same up to a bound.
LEMMA BoundedInduction ==
    ASSUME NEW m \in Nat, NEW S, 0 \in S, \A n \in 1..m : n - 1 \in S => n \in S
    PROVE  0..m \subseteq S
<1> DEFINE T == {n \in Nat : n <= m => n \in S}
<1>1. 0 \in T
  OBVIOUS
<1>2. ASSUME NEW n \in Nat, n \in T
      PROVE  n + 1 \in T
  <2>1. CASE n + 1 <= m
    <3>1. n + 1 \in 1..m /\ (n + 1) - 1 \in S
      BY <1>2, <2>1
    <3> QED
      BY <3>1
  <2>2. CASE ~(n + 1 <= m)
    BY <2>2
  <2> QED
    BY <2>1, <2>2
<1> HIDE DEF T
<1>3. Nat \subseteq T
  BY <1>1, <1>2, SetInduction
<1> QED
  BY <1>3 DEF T

\* A function on 0..m that begins with base and gets each further value from
\* the one before.
HasRecursion(D, base, m, step) ==
    \E f \in [0..m -> D] :
        /\ f[0] = base
        /\ \A n \in 1..m : f[n] = step[n][f[n - 1]]

\* There always is one.
LEMMA RecursionExists ==
    ASSUME NEW D, NEW base \in D, NEW m \in Nat, NEW step \in [1..m -> [D -> D]]
    PROVE  HasRecursion(D, base, m, step)
<1> DEFINE Good(f, n) == \A k \in 0..n :
                            f[k] = IF k = 0 THEN base ELSE step[k][f[k - 1]]
           S == {n \in 0..m : \E f \in [0..n -> D] : Good(f, n)}
<1>1. 0 \in S
  <2>1. [n \in 0..0 |-> base] \in [0..0 -> D] /\ Good([n \in 0..0 |-> base], 0)
    OBVIOUS
  <2> HIDE DEF Good
  <2> QED
    BY <2>1
<1>2. ASSUME NEW n \in 1..m, n - 1 \in S
      PROVE  n \in S
  <2>1. PICK f \in [0..n - 1 -> D] : Good(f, n - 1)
    BY <1>2
  <2> DEFINE next == step[n][f[n - 1]]
             g == [k \in 0..n |-> IF k = n THEN next ELSE f[k]]
  <2>2. next \in D
    BY <2>1
  <2>3. g \in [0..n -> D]
    BY <2>1, <2>2
  <2>4. Good(g, n)
    <3> SUFFICES ASSUME NEW k \in 0..n
                 PROVE  g[k] = IF k = 0 THEN base ELSE step[k][g[k - 1]]
      OBVIOUS
    <3>1. CASE k = n
      <4>1. k # 0 /\ g[k] = next /\ g[k - 1] = f[k - 1]
        BY <3>1
      <4>2. next = step[k][f[k - 1]]
        BY <3>1
      <4> HIDE DEF g, next
      <4> QED
        BY <4>1, <4>2
    <3>2. CASE k # n
      <4>1. k \in 0..n - 1 /\ (k # 0 => k - 1 \in 0..n - 1)
        BY <3>2
      <4>2. f[k] = IF k = 0 THEN base ELSE step[k][f[k - 1]]
        BY <2>1, <4>1
      <4>3. g[k] = f[k] /\ (k # 0 => g[k - 1] = f[k - 1])
        BY <3>2, <4>1
      <4> HIDE DEF g
      <4> QED
        BY <4>2, <4>3
    <3> QED
      BY <3>1, <3>2
  <2> HIDE DEF g, Good
  <2> QED
    BY <2>3, <2>4
<1> HIDE DEF S
<1>3. 0..m \subseteq S
  BY <1>1, <1>2, BoundedInduction
<1>4. m \in S
  BY <1>3
<1>5. PICK f \in [0..m -> D] : Good(f, m)
  BY <1>4 DEF S
<1>6. f[0] = base /\ \A n \in 1..m : f[n] = step[n][f[n - 1]]
  <2>1. 0 \in 0..m /\ \A n \in 1..m : n \in 0..m /\ n # 0
    OBVIOUS
  <2> QED
    BY <1>5, <2>1
<1> QED
  BY <1>6 DEF HasRecursion

\* Among them the integer functions that begin with one.
LEMMA IntRecursionExists ==
    ASSUME NEW m \in Nat, NEW step \in [1..m -> [Int -> Int]]
    PROVE  HasRecursion(Int, 1, m, step)
<1>1. PICK base \in Int : base = 1
  OBVIOUS
<1>2. HasRecursion(Int, base, m, step)
  BY RecursionExists
<1> QED
  BY <1>1, <1>2

\* Min is what it should be on the natural numbers.
LEMMA MinIsLeast ==
    ASSUME NEW S \in SUBSET Nat, S # {}
    PROVE  /\ Min(S) \in S
           /\ \A k \in S : Min(S) <= k
<1>1. PICK n \in S : \A k \in S : n <= k
    BY LeastNat
<1> QED
    BY <1>1 DEF Min

\* And so is Max, below a bound.
LEMMA MaxIsGreatest ==
    ASSUME NEW m \in Nat, NEW S \in SUBSET (0..m), S # {}
    PROVE  /\ Max(S) \in S
           /\ \A k \in S : k <= Max(S)
<1> DEFINE T == {m - k : k \in S}
<1>1. T \in SUBSET Nat /\ T # {}
  <2>1. \A k \in S : m - k \in Nat
    OBVIOUS
  <2> QED
    BY <2>1
<1>2. PICK n \in T : \A k \in T : n <= k
  BY <1>1, LeastNat
<1>3. PICK x \in S : n = m - x
  BY <1>2
<1>4. ASSUME NEW k \in S
      PROVE  k <= x
  <2>1. n <= m - k
    BY <1>2
  <2> QED
    BY <1>3, <2>1
<1> QED
  BY <1>4 DEF Max

\* A function that lists numbers in increasing order.
Increasing(s, n) == \A i, j \in 1..n : i < j => s[i] < s[j]

\* The elements of a finite set of natural numbers can be put in order.
LEMMA IncreasingExists ==
    ASSUME NEW S \in SUBSET Nat, IsFiniteSet(S)
    PROVE  \E s \in [1..Cardinality(S) -> S] : Increasing(s, Cardinality(S))
<1> DEFINE Ordered(T) == \E s \in [1..Cardinality(T) -> T] :
                            Increasing(s, Cardinality(T))
           N == {n \in Nat : \A T \in SUBSET Nat :
                    IsFiniteSet(T) /\ Cardinality(T) = n => Ordered(T)}
<1>1. 0 \in N
  <2> SUFFICES ASSUME NEW T \in SUBSET Nat, Cardinality(T) = 0
               PROVE  Ordered(T)
    OBVIOUS
  <2>1. [i \in 1..0 |-> i] \in [1..0 -> T]
    OBVIOUS
  <2>2. Increasing([i \in 1..0 |-> i], 0)
    BY DEF Increasing
  <2> QED
    BY <2>1, <2>2
<1>2. ASSUME NEW n \in Nat, n \in N
      PROVE  n + 1 \in N
  <2> SUFFICES ASSUME NEW T \in SUBSET Nat, IsFiniteSet(T), Cardinality(T) = n + 1
               PROVE  Ordered(T)
    OBVIOUS
  <2>1. T # {}
    BY FS_EmptySet
  <2>2. PICK x \in T : \A k \in T : x <= k
    BY <2>1, LeastNat
  <2> DEFINE U == T \ {x}
  <2>3. IsFiniteSet(U) /\ Cardinality(U) = n
    <3>1. IsFiniteSet(U) /\ Cardinality(U) = Cardinality(T) - 1
      BY <2>2, FS_RemoveElement
    <3> QED
      BY <3>1
  <2>4. PICK s \in [1..n -> U] : Increasing(s, n)
    BY <1>2, <2>3
  <2> DEFINE t == [i \in 1..n + 1 |-> IF i = 1 THEN x ELSE s[i - 1]]
  <2>5. ASSUME NEW i \in 2..n + 1
        PROVE  i - 1 \in 1..n /\ t[i] = s[i - 1] /\ t[i] \in U
    BY <2>4
  <2>6. t[1] = x
    OBVIOUS
  <2>7. t \in [1..n + 1 -> T]
    BY <2>2, <2>4
  <2> HIDE DEF t
  <2>8. ASSUME NEW i \in 1..n + 1, NEW j \in 1..n + 1, i < j
        PROVE  t[i] < t[j]
    <3>1. j \in 2..n + 1
      BY <2>8
    <3>2. CASE i = 1
      <4>1. t[j] \in T /\ t[j] # x
        BY <2>5, <3>1
      <4>2. x <= t[j] /\ x \in Nat /\ t[j] \in Nat
        BY <2>2, <4>1
      <4> QED
        BY <2>6, <3>2, <4>1, <4>2
    <3>3. CASE i # 1
      <4>1. i \in 2..n + 1 /\ i - 1 < j - 1
        BY <2>8, <3>3
      <4>2. s[i - 1] < s[j - 1]
        BY <2>4, <2>5, <3>1, <4>1 DEF Increasing
      <4> QED
        BY <2>5, <3>1, <4>1, <4>2
    <3> QED
      BY <3>2, <3>3
  <2>9. Increasing(t, n + 1)
    BY <2>8 DEF Increasing
  <2> QED
    BY <2>7, <2>9
<1>3. Cardinality(S) \in Nat
  BY FS_CardinalityType
<1> HIDE DEF N, Ordered
<1>4. Nat \subseteq N
  BY <1>1, <1>2, SetInduction
<1>5. Ordered(S)
  BY <1>3, <1>4 DEF N
<1> QED
  BY <1>5 DEF Ordered

\* A function that lists as many numbers of a set as it has, in increasing
\* order, lists them all.
LEMMA IncreasingIsOnto ==
    ASSUME NEW S \in SUBSET Nat, IsFiniteSet(S),
           NEW s \in [1..Cardinality(S) -> S], Increasing(s, Cardinality(S))
    PROVE  \A x \in S : \E i \in 1..Cardinality(S) : s[i] = x
<1> DEFINE n == Cardinality(S)
<1>1. n \in Nat
  BY FS_CardinalityType
<1>2. \A i, j \in 1..n : s[i] = s[j] => i = j
  <2> SUFFICES ASSUME NEW i \in 1..n, NEW j \in 1..n, s[i] = s[j]
               PROVE  i = j
    OBVIOUS
  <2>1. s[i] \in Nat /\ s[j] \in Nat
    OBVIOUS
  <2>2. ~(i < j) /\ ~(j < i)
    BY <2>1 DEF Increasing
  <2> QED
    BY <1>1, <2>2
<1>3. s \in Injection(1..n, S)
  BY <1>2 DEF Injection, IsInjective
<1>4. Cardinality(1..n) = n
  BY <1>1, FS_Interval
<1>5. s \in Surjection(1..n, S)
  BY <1>3, <1>4, FS_Injection
<1> QED
  BY <1>5 DEF Surjection
=============================================================================
