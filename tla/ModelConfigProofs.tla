------------------------- MODULE ModelConfigProofs -------------------------
(***************************************************************************)
(* What the sizes of shapes are and what their comparisons mean, for       *)
(* shapes of any length, dimensions of any size and integers of any width, *)
(* and which texts name a data type (core/model_config.cc).                *)
(***************************************************************************)
EXTENDS ModelConfig, NatRecursion

USE WidthAssumption

-----------------------------------------------------------------------------
(* Integers of a width *)

LEMMA Division ==
    ASSUME NEW n \in Nat \ {0}, NEW a \in Int
    PROVE  /\ a % n \in 0..n - 1 /\ a \div n \in Int
           /\ a = n * (a \div n) + (a % n)
  OBVIOUS

LEMMA SmallMultiple ==
    ASSUME NEW n \in Nat \ {0}, NEW k \in Int, -n < n * k, n * k < n
    PROVE  k = 0
  <1>1. CASE k >= 1
    <2>1. n * k >= n
      BY <1>1
    <2> QED
      BY <2>1
  <1>2. CASE k <= -1
    <2>1. n * k <= -n
      BY <1>2
    <2> QED
      BY <2>1
  <1> QED
    BY <1>1, <1>2

\* A remainder is the only one.
LEMMA Remainder ==
    ASSUME NEW n \in Nat \ {0}, NEW a \in Int, NEW q \in Int, NEW r \in 0..n - 1,
           a = n * q + r
    PROVE  a % n = r
  <1> DEFINE p == a \div n
  <1>1. p \in Int /\ a % n \in 0..n - 1 /\ a = n * p + (a % n)
    BY Division
  <1> HIDE DEF p
  <1>2. n * p + (a % n) = n * q + r
    BY <1>1
  <1>3. n * (p - q) = n * p - n * q
    BY <1>1
  <1>4. n * (p - q) = r - (a % n)
    BY <1>1, <1>2, <1>3
  <1>5. p - q = 0
    BY <1>1, <1>4, SmallMultiple
  <1> QED
    BY <1>1, <1>4, <1>5

LEMMA PowersOfTwo ==
    /\ \A n \in 0..Width : TwoTo[n] \in Nat \ {0}
    /\ TwoTo[Width] = 2 * TwoTo[Width - 1]
  <1> DEFINE step == [n \in 1..Width |-> [c \in Int |-> 2 * c]]
             IsPower(f) == f = [n \in 0..Width |-> IF n = 0 THEN 1 ELSE 2 * f[n - 1]]
  <1>1. step \in [1..Width -> [Int -> Int]]
    OBVIOUS
  <1> HIDE DEF step
  <1>2. PICK f \in [0..Width -> Int] :
            f[0] = 1 /\ \A n \in 1..Width : f[n] = step[n][f[n - 1]]
    <2>1. HasRecursion(Int, 1, Width, step)
      BY <1>1, IntRecursionExists
    <2> QED
      BY <2>1 DEF HasRecursion
  <1>3. \A n \in 1..Width : f[n] = 2 * f[n - 1]
    <2> SUFFICES ASSUME NEW n \in 1..Width PROVE f[n] = 2 * f[n - 1]
      OBVIOUS
    <2>1. f[n - 1] \in Int
      OBVIOUS
    <2> QED
      BY <1>2, <2>1 DEF step
  <1>4. IsPower(f)
    <2>1. \A n \in 0..Width : f[n] = IF n = 0 THEN 1 ELSE 2 * f[n - 1]
      BY <1>2, <1>3
    <2> QED
      BY <2>1
  <1>5. IsPower(TwoTo)
    BY <1>4 DEF TwoTo
  <1> DEFINE S == {n \in 0..Width : TwoTo[n] \in Nat \ {0}}
  <1>6. 0 \in S /\ \A n \in 1..Width : n - 1 \in S => n \in S
    <2>1. /\ TwoTo[0] = 1
          /\ \A n \in 1..Width : n \in 0..Width /\ TwoTo[n] = 2 * TwoTo[n - 1]
      BY <1>5
    <2> QED
      BY <2>1
  <1>7. 0..Width \subseteq S
    <2> HIDE DEF S
    <2> QED
      BY <1>6, BoundedInduction
  <1> QED
    BY <1>5, <1>7

\* Numbers that wrap alike.
Same(a, b) == \E k \in Int : a = b + TwoTo[Width] * k

\* Wrapping adds a multiple of the modulus and gives a number that fits; one
\* that fits already is not changed, and numbers that differ by such a multiple
\* wrap alike.
LEMMA WrapFacts ==
    ASSUME NEW a \in Int
    PROVE  /\ Wrap(a) \in Int /\ Fits(Wrap(a))
           /\ Same(Wrap(a), a)
           /\ Fits(a) => Wrap(a) = a
           /\ \A k \in Int : Wrap(a + TwoTo[Width] * k) = Wrap(a)
  <1> DEFINE n == TwoTo[Width]
             h == TwoTo[Width - 1]
             r == a % n
             q == a \div n
  <1>1. n \in Nat \ {0} /\ h \in Nat \ {0} /\ n = 2 * h
    BY PowersOfTwo
  <1>2. Wrap(a) = IF r < h THEN r ELSE r - n
    BY DEF Wrap
  <1>3. Fits(a) <=> -h <= a /\ a < h
    BY DEF Fits
  <1>4. Fits(Wrap(a)) <=> -h <= Wrap(a) /\ Wrap(a) < h
    BY DEF Fits
  <1>5. \A k \in Int : Wrap(a + n * k) = LET m == (a + n * k) % n
                                        IN IF m < h THEN m ELSE m - n
    BY DEF Wrap
  <1> HIDE DEF n, h
  <1>6. r \in 0..n - 1 /\ q \in Int /\ a = n * q + r
    BY <1>1, Division
  <1>7. Wrap(a) \in Int /\ Fits(Wrap(a))
    <2> HIDE DEF r, q
    <2> QED
      BY <1>1, <1>2, <1>4, <1>6
  <1>8. \E k \in Int : Wrap(a) = a + n * k
    <2> HIDE DEF r, q
    <2>1. CASE r < h
      <3>1. n * (-q) = -(n * q) /\ -q \in Int
        BY <1>1, <1>6
      <3>2. Wrap(a) = a + n * (-q)
        BY <1>1, <1>2, <1>6, <2>1, <3>1
      <3> QED
        BY <3>1, <3>2
    <2>2. CASE ~(r < h)
      <3>1. n * (-q - 1) = -(n * q) - n /\ -q - 1 \in Int
        BY <1>1, <1>6
      <3>2. Wrap(a) = a + n * (-q - 1)
        BY <1>1, <1>2, <1>6, <2>2, <3>1
      <3> QED
        BY <3>1, <3>2
    <2> QED
      BY <2>1, <2>2
  <1>9. ASSUME Fits(a) PROVE Wrap(a) = a
    <2>1. CASE a >= 0
      <3>1. r = a
        <4>1. a \in 0..n - 1 /\ a = n * 0 + a
          BY <1>1, <1>3, <1>9, <2>1
        <4> QED
          BY <1>1, <4>1, Remainder
      <3> HIDE DEF r
      <3> QED
        BY <1>1, <1>2, <1>3, <1>9, <3>1
    <2>2. CASE a < 0
      <3>1. r = a + n
        <4>1. a + n \in 0..n - 1 /\ a = n * (-1) + (a + n)
          BY <1>1, <1>3, <1>9, <2>2
        <4> QED
          BY <1>1, <4>1, Remainder
      <3> HIDE DEF r
      <3> QED
        BY <1>1, <1>2, <1>3, <1>9, <2>2, <3>1
    <2> QED
      BY <2>1, <2>2
  <1>10. ASSUME NEW k \in Int PROVE Wrap(a + n * k) = Wrap(a)
    <2> HIDE DEF r, q
    <2>1. a + n * k \in Int /\ a + n * k = n * (q + k) + r /\ q + k \in Int
      <3>1. n * (q + k) = n * q + n * k
        BY <1>1, <1>6
      <3>2. n * k \in Int /\ n * q \in Int
        BY <1>1, <1>6
      <3> QED
        BY <1>6, <3>1, <3>2
    <2>2. (a + n * k) % n = r
      BY <1>1, <1>6, <2>1, Remainder
    <2> QED
      BY <1>2, <1>5, <2>2
  <1> QED
    BY <1>7, <1>8, <1>9, <1>10 DEF n, Same

\* So a factor may be wrapped before it is multiplied.
LEMMA WrapFactor ==
    ASSUME NEW a \in Int, NEW b \in Int, NEW c \in Int, Same(a, b)
    PROVE  Wrap(a * c) = Wrap(b * c)
  <1> DEFINE n == TwoTo[Width]
  <1>1. n \in Int
    BY PowersOfTwo
  <1> HIDE DEF n
  <1>2. PICK k \in Int : a = b + n * k
    BY DEF Same, n
  <1>3. a * c = b * c + n * (k * c)
    BY <1>1, <1>2
  <1>4. b * c \in Int /\ k * c \in Int
    OBVIOUS
  <1> QED
    BY <1>3, <1>4, WrapFacts DEF n

-----------------------------------------------------------------------------
(* Sizes of shapes *)

\* The products of the first dimensions.
LEMMA ProductIs ==
    ASSUME NEW dims \in Seq(Int)
    PROVE  \E p \in [0..Len(dims) -> Int] :
               /\ p[0] = 1 /\ Product(dims) = p[Len(dims)]
               /\ \A i \in 1..Len(dims) : p[i] = p[i - 1] * dims[i]
  <1> DEFINE m == Len(dims)
             step == [n \in 1..m |-> [c \in Int |-> c * dims[n]]]
             IsProduct(f) == f = [i \in 0..m |-> IF i = 0 THEN 1 ELSE f[i - 1] * dims[i]]
             g == CHOOSE f : IsProduct(f)
  <1>1. m \in Nat /\ \A i \in 1..m : dims[i] \in Int
    OBVIOUS
  <1>2. Product(dims) = g[m]
    BY DEF Product
  <1> HIDE DEF m
  <1>3. step \in [1..m -> [Int -> Int]]
    BY <1>1
  <1> HIDE DEF step
  <1>4. PICK f \in [0..m -> Int] :
            f[0] = 1 /\ \A n \in 1..m : f[n] = step[n][f[n - 1]]
    <2>1. HasRecursion(Int, 1, m, step)
      BY <1>1, <1>3, IntRecursionExists
    <2> QED
      BY <2>1 DEF HasRecursion
  <1>5. \A n \in 1..m : f[n] = f[n - 1] * dims[n]
    <2> SUFFICES ASSUME NEW n \in 1..m PROVE f[n] = f[n - 1] * dims[n]
      OBVIOUS
    <2>1. f[n - 1] \in Int
      BY <1>1
    <2> QED
      BY <1>4, <2>1 DEF step
  <1>6. IsProduct(f)
    <2>1. \A n \in 0..m : f[n] = IF n = 0 THEN 1 ELSE f[n - 1] * dims[n]
      BY <1>1, <1>4, <1>5
    <2> QED
      BY <2>1
  <1>7. IsProduct(g)
    BY <1>6
  <1> HIDE DEF g
  <1> DEFINE S == {n \in 0..m : g[n] \in Int}
  <1>8. 0 \in S /\ \A n \in 1..m : n - 1 \in S => n \in S
    BY <1>1, <1>7
  <1>9. 0..m \subseteq S
    <2> HIDE DEF S
    <2> QED
      BY <1>1, <1>8, BoundedInduction
  <1>10. g \in [0..m -> Int]
    BY <1>7, <1>9
  <1>11. g[0] = 1 /\ \A i \in 1..m : g[i] = g[i - 1] * dims[i]
    BY <1>1, <1>7
  <1> QED
    BY <1>2, <1>10, <1>11 DEF m

\* A product of dimensions that are at least one is, too; and it is not -1
\* without a dimension that is.
LEMMA ProductFacts ==
    ASSUME NEW dims \in Seq(Int)
    PROVE  /\ Product(dims) \in Int
           /\ (\A i \in 1..Len(dims) : dims[i] >= 1) => Product(dims) >= 1
           /\ (\A i \in 1..Len(dims) : dims[i] # -1) => Product(dims) # -1
  <1> DEFINE m == Len(dims)
  <1>1. m \in Nat /\ \A i \in 1..m : dims[i] \in Int
    OBVIOUS
  <1>2. PICK p \in [0..m -> Int] :
            /\ p[0] = 1 /\ Product(dims) = p[m]
            /\ \A i \in 1..m : p[i] = p[i - 1] * dims[i]
    BY ProductIs
  <1> HIDE DEF m
  <1>3. ASSUME \A i \in 1..m : dims[i] >= 1
        PROVE  p[m] >= 1
    <2> DEFINE S == {n \in 0..m : p[n] >= 1}
    <2>1. 0 \in S
      BY <1>1, <1>2
    <2>2. ASSUME NEW n \in 1..m, n - 1 \in S
          PROVE  n \in S
      <3>1. p[n] = p[n - 1] * dims[n] /\ p[n - 1] \in Int /\ p[n - 1] >= 1
        BY <1>2, <2>2
      <3>2. dims[n] \in Int /\ dims[n] >= 1
        BY <1>1, <1>3
      <3>3. \A a, b \in Int : a >= 1 /\ b >= 1 => a * b >= 1
        OBVIOUS
      <3>4. p[n] >= 1
        BY <3>1, <3>2, <3>3
      <3> QED
        BY <3>4
    <2> HIDE DEF S
    <2>3. 0..m \subseteq S
      BY <1>1, <2>1, <2>2, BoundedInduction
    <2> QED
      BY <1>1, <2>3 DEF S
  <1>4. ASSUME \A i \in 1..m : dims[i] # -1
        PROVE  p[m] # -1
    <2> DEFINE S == {n \in 0..m : p[n] # -1}
    <2>1. 0 \in S
      BY <1>1, <1>2
    <2>2. ASSUME NEW n \in 1..m, n - 1 \in S
          PROVE  n \in S
      <3>1. p[n] = p[n - 1] * dims[n] /\ p[n - 1] \in Int /\ p[n - 1] # -1
        BY <1>2, <2>2
      <3>2. dims[n] \in Int /\ dims[n] # -1
        BY <1>1, <1>4
      <3>3. \A a, b \in Int : a * b = -1 => a = -1 \/ b = -1
        OBVIOUS
      <3>4. p[n] # -1
        BY <3>1, <3>2, <3>3
      <3> QED
        BY <3>4
    <2> HIDE DEF S
    <2>3. 0..m \subseteq S
      BY <1>1, <2>1, <2>2, BoundedInduction
    <2> QED
      BY <1>1, <2>3 DEF S
  <1>5. Product(dims) \in Int
    BY <1>1, <1>2
  <1> QED
    BY <1>2, <1>3, <1>4, <1>5 DEF m

\* The loop that wraps each product computes the wrapped product.
LEMMA WrappedProductIs ==
    ASSUME NEW dims \in Seq(Int), dims # <<>>
    PROVE  WrappedProduct(dims) = Wrap(Product(dims))
  <1> DEFINE m == Len(dims)
             IsCount(f) == f = [i \in 0..m |-> IF i = 0 THEN 1 ELSE Wrap(f[i - 1] * dims[i])]
             step == [n \in 1..m |-> [c \in Int |-> Wrap(c * dims[n])]]
             g == CHOOSE f : IsCount(f)
  <1>1. m \in Nat \ {0} /\ \A i \in 1..m : dims[i] \in Int
    OBVIOUS
  <1>2. PICK p \in [0..m -> Int] :
            /\ p[0] = 1 /\ Product(dims) = p[m]
            /\ \A i \in 1..m : p[i] = p[i - 1] * dims[i]
    BY ProductIs
  <1>3. WrappedProduct(dims) = g[m]
    BY DEF WrappedProduct
  <1> HIDE DEF m
  <1>4. step \in [1..m -> [Int -> Int]]
    <2>1. ASSUME NEW n \in 1..m, NEW c \in Int PROVE Wrap(c * dims[n]) \in Int
      <3>1. c * dims[n] \in Int
        BY <1>1
      <3> QED
        BY <3>1, WrapFacts
    <2> QED
      BY <2>1
  <1> HIDE DEF step
  <1>5. PICK f \in [0..m -> Int] :
            f[0] = 1 /\ \A n \in 1..m : f[n] = step[n][f[n - 1]]
    <2>1. HasRecursion(Int, 1, m, step)
      BY <1>1, <1>4, IntRecursionExists
    <2> QED
      BY <2>1 DEF HasRecursion
  <1>6. \A n \in 1..m : f[n] = Wrap(f[n - 1] * dims[n])
    <2> SUFFICES ASSUME NEW n \in 1..m PROVE f[n] = Wrap(f[n - 1] * dims[n])
      OBVIOUS
    <2>1. f[n - 1] \in Int
      BY <1>1
    <2> QED
      BY <1>5, <2>1 DEF step
  <1>7. IsCount(f)
    <2>1. \A n \in 0..m : f[n] = IF n = 0 THEN 1 ELSE Wrap(f[n - 1] * dims[n])
      BY <1>1, <1>5, <1>6
    <2> QED
      BY <2>1
  <1>8. IsCount(g)
    BY <1>7
  <1> HIDE DEF g
  <1>13. /\ g[0] = 1
         /\ \A n \in 1..m : g[n] = Wrap(g[n - 1] * dims[n])
    <2>1. \A n \in 0..m : g[n] = IF n = 0 THEN 1 ELSE Wrap(g[n - 1] * dims[n])
      BY <1>8
    <2> QED
      BY <1>1, <2>1
  <1> DEFINE S == {n \in 0..m : /\ g[n] \in Int /\ Same(g[n], p[n])
                                /\ n # 0 => g[n] = Wrap(p[n])}
  <1>9. 0 \in S
    <2>1. g[0] = 1 /\ p[0] = 1
      BY <1>2, <1>13
    <2>2. 1 = 1 + TwoTo[Width] * 0
      BY PowersOfTwo
    <2>3. Same(g[0], p[0])
      BY <2>1, <2>2 DEF Same
    <2> QED
      BY <1>1, <2>1, <2>3
  <1>10. ASSUME NEW n \in 1..m, n - 1 \in S
         PROVE  n \in S
    <2>1. g[n] = Wrap(g[n - 1] * dims[n])
      BY <1>13
    <2>2. /\ p[n] = p[n - 1] * dims[n] /\ p[n] \in Int /\ p[n - 1] \in Int
          /\ dims[n] \in Int
      BY <1>1, <1>2
    <2>3. g[n - 1] \in Int /\ Same(g[n - 1], p[n - 1])
      BY <1>10
    <2>4. Wrap(g[n - 1] * dims[n]) = Wrap(p[n - 1] * dims[n])
      BY ONLY <2>2, <2>3, WrapFactor
    <2>5. g[n] = Wrap(p[n])
      BY ONLY <2>1, <2>2, <2>4
    <2>6. g[n] \in Int /\ Same(g[n], p[n])
      BY ONLY <2>2, <2>5, WrapFacts
    <2>7. n \in 0..m
      BY <1>1
    <2> QED
      BY ONLY <2>5, <2>6, <2>7
  <1> HIDE DEF S
  <1>11. 0..m \subseteq S
    BY <1>1, <1>9, <1>10, BoundedInduction
  <1>12. m \in S /\ m # 0
    BY <1>1, <1>11
  <1> QED
    BY <1>2, <1>3, <1>12 DEF S

\* A factor of a product that fits does too, if the other is at least one.
LEMMA FactorFits ==
    ASSUME NEW a \in Int, NEW b \in Nat \ {0}, Fits(a * b)
    PROVE  Fits(a)
  <1> DEFINE h == TwoTo[Width - 1]
  <1>1. h \in Nat
    BY PowersOfTwo
  <1>2. -h <= a * b /\ a * b < h
    BY DEF Fits
  <1> HIDE DEF h
  <1>3. CASE a >= 0
    <2>1. a <= a * b
      BY <1>3
    <2>2. -h <= a /\ a < h
      BY <1>1, <1>2, <1>3, <2>1
    <2> QED
      BY <2>2 DEF Fits, h
  <1>4. CASE a < 0
    <2>1. a * b <= a
      BY <1>4
    <2>2. -h <= a /\ a < h
      BY <1>1, <1>2, <1>4, <2>1
    <2> QED
      BY <2>2 DEF Fits, h
  <1> QED
    BY <1>3, <1>4

\* The count of the elements of a shape without a wildcard is their number,
\* whenever that fits an int64_t, even if a part of the product does not
\* (model_config.cc:5).
THEOREM CountExact ==
    ASSUME NEW dims \in Seq(Int), dims # <<>>, WILDCARD_DIM \notin Range(dims),
           Fits(Product(dims))
    PROVE  GetElementCount(dims) = Product(dims) /\ Product(dims) # -1
  <1>1. GetElementCount(dims) = Wrap(Product(dims))
    BY WrappedProductIs DEF GetElementCount
  <1>2. \A i \in 1..Len(dims) : dims[i] # -1
    BY DEF Range, WILDCARD_DIM
  <1> QED
    BY <1>1, <1>2, ProductFacts, WrapFacts

\* A shape that validation accepts counts at least one element, or none known
\* because of a wildcard, unless the count overflows
\* (model_config_utils.cc:124).
THEOREM ValidCount ==
    ASSUME NEW dims \in Seq(Int), dims # <<>>,
           \A i \in DOMAIN dims : dims[i] >= 1 \/ dims[i] = WILDCARD_DIM,
           Fits(Product(dims))
    PROVE  GetElementCount(dims) \in {-1} \cup (Nat \ {0})
  <1>1. CASE WILDCARD_DIM \in Range(dims)
    BY <1>1 DEF GetElementCount
  <1>2. CASE WILDCARD_DIM \notin Range(dims)
    <2>1. \A i \in 1..Len(dims) : dims[i] >= 1
      BY <1>2 DEF Range
    <2>2. Product(dims) >= 1 /\ Product(dims) \in Int
      BY <2>1, ProductFacts
    <2> QED
      BY <1>2, <2>2, CountExact
  <1> QED
    BY <1>1, <1>2

\* The size of a batch of tensors is exact whenever it fits an int64_t
\* (model_config.cc:113).
THEOREM BatchExact ==
    ASSUME NEW dims \in Seq(Int), dims # <<>>, WILDCARD_DIM \notin Range(dims),
           NEW dtype \in DataTypes, GetDataTypeByteSize[dtype] # 0,
           NEW b \in Int, NEW bytes \in Int,
           bytes = Product(dims) * GetDataTypeByteSize[dtype] * (IF b > 1 THEN b ELSE 1),
           Fits(bytes)
    PROVE  GetBatchByteSize(b, dtype, dims) = bytes
  <1> DEFINE size == GetDataTypeByteSize[dtype]
             n == IF b > 1 THEN b ELSE 1
             p == Product(dims)
             cnt == GetElementCount(dims)
             bs == GetByteSize(dtype, dims)
  <1>1. size \in Nat \ {0} /\ n \in Nat \ {0}
    BY DEF GetDataTypeByteSize, DataTypes
  <1>2. p \in Int /\ bytes = (p * size) * n
    BY ProductFacts
  <1>3. bs = IF size = 0 \/ cnt = -1 THEN -1 ELSE Wrap(cnt * size)
    BY DEF GetByteSize
  <1>4. GetBatchByteSize(b, dtype, dims) =
            IF bs = -1 THEN -1 ELSE Wrap(IF b > 1 THEN b * bs ELSE bs)
    BY DEF GetBatchByteSize
  <1> HIDE DEF size, p, bs, cnt
  <1>5. p * size \in Int /\ Fits(p * size)
    <2>1. p * size \in Int
      BY <1>1, <1>2
    <2> HIDE DEF n
    <2> QED
      BY <1>1, <1>2, <2>1, FactorFits
  <1>6. Fits(p)
    BY <1>1, <1>2, <1>5, FactorFits
  <1>7. cnt = p /\ p # -1
    BY <1>6, CountExact DEF p, cnt
  <1>8. Wrap(p * size) = p * size
    BY <1>5, WrapFacts
  <1>9. p * size # -1
    <2>1. \A a \in Int, c \in Nat : a * c = -1 => a = -1
      OBVIOUS
    <2> QED
      BY <1>1, <1>2, <1>7, <2>1
  <1>10. bs = p * size /\ bs # -1
    BY <1>1, <1>3, <1>7, <1>8, <1>9
  <1>11. (IF b > 1 THEN b * bs ELSE bs) = bytes
    BY <1>2, <1>5, <1>10
  <1>12. Wrap(bytes) = bytes
    BY WrapFacts
  <1> QED
    BY <1>4, <1>10, <1>11, <1>12

-----------------------------------------------------------------------------
(* Comparison of shapes *)

\* The shapes that the checks of a configuration let through, with dimensions
\* of some of the sizes.
ShapesOf(S) == Seq(S \cup {WILDCARD_DIM})

\* s is one of the concrete shapes that dims stands for.
InstanceOf(s, dims) ==
    /\ Len(s) = Len(dims)
    /\ \A i \in DOMAIN dims : dims[i] \in {s[i], WILDCARD_DIM}

\* The concrete shape with n in the place of each wildcard.
Filled(dims, n) ==
    [i \in 1..Len(dims) |-> IF dims[i] = WILDCARD_DIM THEN n ELSE dims[i]]

LEMMA FilledIsInstance ==
    ASSUME NEW S, NEW dims \in ShapesOf(S), NEW n \in S
    PROVE  /\ Filled(dims, n) \in Seq(S)
           /\ InstanceOf(Filled(dims, n), dims)
  <1>1. \A i \in 1..Len(dims) : Filled(dims, n)[i] \in S
    BY DEF ShapesOf, Filled
  <1> QED
    BY <1>1 DEF ShapesOf, Filled, InstanceOf

\* Two shapes match with wildcards exactly when some concrete shape is one of
\* both, so that an input declared with either can be used as the other.
THEOREM WildcardsMatch ==
    ASSUME NEW S \in SUBSET (Nat \ {0}), S # {},
           NEW dims0 \in ShapesOf(S), NEW dims1 \in ShapesOf(S)
    PROVE  CompareDimsWithWildcard(dims0, dims1) <=>
               \E s \in Seq(S) : InstanceOf(s, dims0) /\ InstanceOf(s, dims1)
  <1>1. ASSUME CompareDimsWithWildcard(dims0, dims1)
        PROVE  \E s \in Seq(S) :
                   InstanceOf(s, dims0) /\ InstanceOf(s, dims1)
    <2>1. PICK n \in S : TRUE
      OBVIOUS
    <2> DEFINE s == [i \in 1..Len(dims0) |->
                        IF dims0[i] = WILDCARD_DIM THEN Filled(dims1, n)[i]
                        ELSE dims0[i]]
    <2>2. /\ Len(dims0) = Len(dims1) /\ Len(dims0) \in Nat
          /\ \A i \in 1..Len(dims0) : /\ dims0[i] \in S \cup {WILDCARD_DIM}
                                      /\ dims1[i] \in S \cup {WILDCARD_DIM}
                                      /\ \/ WILDCARD_DIM \in {dims0[i], dims1[i]}
                                         \/ dims0[i] = dims1[i]
      BY <1>1 DEF CompareDimsWithWildcard, ShapesOf
    <2>3. s \in Seq(S) /\ Len(s) = Len(dims0)
      BY <2>2 DEF Filled
    <2>4. InstanceOf(s, dims0)
      BY <2>2, <2>3 DEF InstanceOf, ShapesOf
    <2>5. InstanceOf(s, dims1)
      BY <2>2, <2>3 DEF InstanceOf, ShapesOf, Filled
    <2> QED
      BY <2>3, <2>4, <2>5
  <1>2. ASSUME NEW s \in Seq(S), InstanceOf(s, dims0), InstanceOf(s, dims1)
        PROVE  CompareDimsWithWildcard(dims0, dims1)
    <2>1. Len(dims0) = Len(dims1) /\ DOMAIN dims0 = DOMAIN dims1
      <3>1. Len(dims0) = Len(dims1)
        BY <1>2 DEF InstanceOf
      <3>2. DOMAIN dims0 = 1..Len(dims0) /\ DOMAIN dims1 = 1..Len(dims1)
        BY DEF ShapesOf
      <3> QED
        BY <3>1, <3>2
    <2>2. ASSUME NEW i \in DOMAIN dims0
          PROVE  WILDCARD_DIM \in {dims0[i], dims1[i]} \/ dims0[i] = dims1[i]
      <3>1. /\ dims0[i] = s[i] \/ dims0[i] = WILDCARD_DIM
            /\ dims1[i] = s[i] \/ dims1[i] = WILDCARD_DIM
        BY <1>2, <2>1, <2>2 DEF InstanceOf
      <3> QED
        BY <3>1
    <2> QED
      BY <2>1, <2>2 DEF CompareDimsWithWildcard
  <1> QED
    BY <1>1, <1>2

\* Two shapes are the same to the literal comparison exactly when they stand
\* for the same concrete shapes.
THEOREM LiteralsMatch ==
    ASSUME NEW S \in SUBSET (Nat \ {0}), \E m, n \in S : m # n,
           NEW dims0 \in ShapesOf(S), NEW dims1 \in ShapesOf(S)
    PROVE  CompareDims(dims0, dims1) <=>
               \A s \in Seq(S) : InstanceOf(s, dims0) <=> InstanceOf(s, dims1)
  <1>1. ASSUME CompareDims(dims0, dims1), NEW s \in Seq(S)
        PROVE  InstanceOf(s, dims0) <=> InstanceOf(s, dims1)
    BY <1>1 DEF CompareDims, InstanceOf, ShapesOf
  <1>2. ASSUME \A s \in Seq(S) :
                   InstanceOf(s, dims0) <=> InstanceOf(s, dims1)
        PROVE  CompareDims(dims0, dims1)
    <2>1. \A k \in S : /\ InstanceOf(Filled(dims0, k), dims1)
                       /\ InstanceOf(Filled(dims1, k), dims0)
      BY <1>2, FilledIsInstance
    <2>2. PICK m, n \in S : m # n
      OBVIOUS
    <2>3. Len(dims0) = Len(dims1)
      <3>1. InstanceOf(Filled(dims0, m), dims1) /\ InstanceOf(Filled(dims0, m), dims0)
        BY <2>1, <2>2, FilledIsInstance
      <3> QED
        BY <3>1 DEF InstanceOf
    <2>4. ASSUME NEW i \in DOMAIN dims0 PROVE dims0[i] = dims1[i]
      <3>1. i \in 1..Len(dims0) /\ i \in 1..Len(dims1)
        BY <2>3, <2>4 DEF ShapesOf
      <3>2. \A k \in S : /\ dims1[i] \in {Filled(dims0, k)[i], WILDCARD_DIM}
                         /\ dims0[i] \in {Filled(dims1, k)[i], WILDCARD_DIM}
        <4> SUFFICES ASSUME NEW k \in S
                     PROVE  /\ dims1[i] \in {Filled(dims0, k)[i], WILDCARD_DIM}
                            /\ dims0[i] \in {Filled(dims1, k)[i], WILDCARD_DIM}
          OBVIOUS
        <4>1. i \in DOMAIN dims0 /\ i \in DOMAIN dims1
          BY <3>1 DEF ShapesOf
        <4> QED
          BY <2>1, <4>1 DEF InstanceOf
      <3>3. CASE dims0[i] = WILDCARD_DIM
        BY <2>2, <3>1, <3>2, <3>3 DEF Filled
      <3>4. CASE dims0[i] # WILDCARD_DIM
        BY <2>2, <3>1, <3>2, <3>4 DEF Filled
      <3> QED
        BY <3>3, <3>4
    <2> QED
      BY <2>3, <2>4 DEF CompareDims
  <1> QED
    BY <1>1, <1>2

-----------------------------------------------------------------------------
(* Names of data types *)

Letters == {"1", "2", "3", "4", "6", "8", "B", "E", "F", "I", "L", "N", "O",
            "P", "S", "T", "U", "Y"}

LEMMA NamesAreTexts ==
    \A t \in NamedTypes : DataTypeToProtocolString[t] \in Seq(Letters)
  <1> DEFINE N == DataTypeToProtocolString
  <1>1. N.TYPE_BOOL \in Seq(Letters) /\ N.TYPE_STRING \in Seq(Letters)
    BY DEF DataTypeToProtocolString, Letters
  <1>2. N.TYPE_UINT8 \in Seq(Letters) /\ N.TYPE_INT8 \in Seq(Letters)
    BY DEF DataTypeToProtocolString, Letters
  <1>3. N.TYPE_UINT16 \in Seq(Letters) /\ N.TYPE_INT16 \in Seq(Letters)
    BY DEF DataTypeToProtocolString, Letters
  <1>4. N.TYPE_UINT32 \in Seq(Letters) /\ N.TYPE_INT32 \in Seq(Letters)
    BY DEF DataTypeToProtocolString, Letters
  <1>5. N.TYPE_UINT64 \in Seq(Letters) /\ N.TYPE_INT64 \in Seq(Letters)
    BY DEF DataTypeToProtocolString, Letters
  <1>6. N.TYPE_FP16 \in Seq(Letters) /\ N.TYPE_FP32 \in Seq(Letters)
    BY DEF DataTypeToProtocolString, Letters
  <1>7. N.TYPE_FP64 \in Seq(Letters) /\ N.TYPE_BF16 \in Seq(Letters)
    BY DEF DataTypeToProtocolString, Letters
  <1>8. NamedTypes = {"TYPE_BOOL", "TYPE_UINT8", "TYPE_UINT16", "TYPE_UINT32",
                      "TYPE_UINT64", "TYPE_INT8", "TYPE_INT16", "TYPE_INT32",
                      "TYPE_INT64", "TYPE_FP16", "TYPE_FP32", "TYPE_FP64",
                      "TYPE_STRING", "TYPE_BF16"}
    BY DEF NamedTypes, DataTypeToProtocolString
  <1> QED
    BY <1>1, <1>2, <1>3, <1>4, <1>5, <1>6, <1>7, <1>8

\* A text is read as a type only if it is the type's own name, whatever its
\* characters and however long: the tests of the length and of the prefix in
\* ProtocolStringToDataType leave no other text through.
THEOREM OnlyOwnNames ==
    ASSUME NEW Chars, NEW text \in Seq(Chars),
           ProtocolStringToDataType(text, Len(text)) # "TYPE_INVALID"
    PROVE  text = DataTypeToProtocolString[
                      ProtocolStringToDataType(text, Len(text))]
  <1>1. PICK t \in NamedTypes : /\ t = ProtocolStringToDataType(text, Len(text))
                                /\ NamesType(t, text, Len(text))
    BY DEF ProtocolStringToDataType
  <1> DEFINE name == DataTypeToProtocolString[t]
  <1>2. CASE t \in {"TYPE_STRING", "TYPE_BOOL", "TYPE_BF16"}
    BY <1>1, <1>2 DEF NamesType
  <1>3. CASE t \notin {"TYPE_STRING", "TYPE_BOOL", "TYPE_BF16"}
    <2>1. IsPrefix(name, text)
      BY <1>1, <1>3 DEF NamesType
    <2>2. Len(text) <= Len(name)
      BY <1>1, <1>3 DEF NamesType, LengthsOf, NamedTypes, DataTypeToProtocolString
    <2>3. name \in Seq(Letters)
      BY <1>1, NamesAreTexts
    <2> HIDE DEF name
    <2>4. Len(name) = Len(text)
      BY <2>1, <2>2, <2>3 DEF IsPrefix
    <2>5. SubSeq(name, 1, Len(name)) = SubSeq(text, 1, Len(text))
      BY <2>1, <2>4 DEF IsPrefix
    <2>6. name = text
      BY <2>3, <2>4, <2>5
    <2> QED
      BY <1>1, <2>6 DEF name
  <1> QED
    BY <1>1, <1>2, <1>3
=============================================================================
