------------------------- MODULE ConversionsProofs -------------------------
(***************************************************************************)
(* The invariants of Conversions for arguments of any length, over any     *)
(* dimensions, sizes, characters and settings, and for integers of any     *)
(* width.                                                                  *)
(***************************************************************************)
EXTENDS Conversions, ModelConfigProofs, SequenceTheorems

-----------------------------------------------------------------------------
(* The arguments *)

\* What kind of sequence each sort of argument is.
ArgumentsTyped ==
    /\ sort \in {"dims", "path", "settings", "text", "edited"}
    /\ sort = "dims" => item \in Seq(Dimensions)
    /\ sort = "path" => item \in Seq(PathChars)
    /\ sort = "settings" => item \in Seq(Settings)
    /\ sort = "text" => item \in Range(DataTypeToProtocolString)
    /\ sort = "edited" => item \in Seq(Letters \cup TextChars)

LEMMA TextsAreNames ==
    ASSUME NEW text \in Range(DataTypeToProtocolString)
    PROVE  text \in Seq(Letters)
  BY NamesAreTexts DEF Range, NamedTypes

LEMMA EditTyped ==
    ASSUME NEW C, NEW text \in Seq(C), NEW c \in C
    PROVE  /\ \A i \in DOMAIN text : /\ RemoveAt(text, i) \in Seq(C)
                                     /\ ReplaceAt(text, i, c) \in Seq(C)
           /\ \A i \in 1..Len(text) + 1 : InsertAt(text, i, c) \in Seq(C)
  <1>1. ASSUME NEW i \in 1..Len(text) + 1
        PROVE  /\ SubSeq(text, 1, i - 1) \in Seq(C)
               /\ SubSeq(text, i, Len(text)) \in Seq(C)
    OBVIOUS
  <1>2. ASSUME NEW i \in DOMAIN text
        PROVE  RemoveAt(text, i) \in Seq(C)
    <2>1. i \in 1..Len(text) + 1 /\ i + 1 \in 1..Len(text) + 1
      OBVIOUS
    <2>2. SubSeq(text, 1, i - 1) \in Seq(C) /\ SubSeq(text, i + 1, Len(text)) \in Seq(C)
      BY <1>1, <2>1
    <2> QED
      BY <2>2 DEF RemoveAt
  <1>3. ASSUME NEW i \in DOMAIN text
        PROVE  ReplaceAt(text, i, c) \in Seq(C)
    BY DEF ReplaceAt
  <1>4. ASSUME NEW i \in 1..Len(text) + 1
        PROVE  InsertAt(text, i, c) \in Seq(C)
    BY <1>1 DEF InsertAt
  <1> QED
    BY <1>2, <1>3, <1>4

\* An argument is a sequence of what its sort is built of, a text the name of a
\* data type (model_config.cc:234) or what editing one leaves.
THEOREM TypeCorrect == Spec => []ArgumentsTyped
  <1>1. Init => ArgumentsTyped
    <2>1. \A S : <<>> \in Seq(S)
      OBVIOUS
    <2>2. CASE sort \in {"dims", "path", "settings"} /\ item = <<>>
      <3> HIDE DEF DataTypeToProtocolString
      <3> QED
        BY <2>1, <2>2 DEF ArgumentsTyped
    <2>3. CASE sort = "text" /\ item \in Range(DataTypeToProtocolString)
      BY <2>3 DEF ArgumentsTyped
    <2> QED
      BY <2>2, <2>3 DEF Init
  <1>2. ArgumentsTyped /\ [Next]_vars => ArgumentsTyped'
    <2> SUFFICES ASSUME ArgumentsTyped, [Next]_vars
                 PROVE  ArgumentsTyped'
      OBVIOUS
    <2>1. CASE Grow("dims", Dimensions, MaxDims)
      BY <2>1 DEF ArgumentsTyped, Grow
    <2>2. CASE Grow("path", PathChars, MaxPath)
      BY <2>2 DEF ArgumentsTyped, Grow
    <2>3. CASE Grow("settings", Settings, MaxSettings)
      BY <2>3 DEF ArgumentsTyped, Grow
    <2>4. CASE Edit
      <3>1. item \in Seq(Letters) /\ item \in Seq(Letters \cup TextChars)
        BY <2>4, TextsAreNames DEF ArgumentsTyped, Edit
      <3>2. item' \in Seq(Letters \cup TextChars)
        <4>1. CASE \E i \in DOMAIN item : item' = RemoveAt(item, i)
          <5>1. "1" \in Letters
            BY DEF Letters
          <5> QED
            BY <3>1, <4>1, <5>1, EditTyped
        <4>2. CASE \E i \in DOMAIN item, c \in TextChars : item' = ReplaceAt(item, i, c)
          BY <3>1, <4>2, EditTyped
        <4>3. CASE \E i \in 1..Len(item) + 1, c \in TextChars :
                      item' = InsertAt(item, i, c)
          BY <3>1, <4>3, EditTyped
        <4> QED
          BY <2>4, <4>1, <4>2, <4>3 DEF Edit
      <3>3. sort' = "edited"
        BY <2>4 DEF Edit
      <3> QED
        BY <3>2, <3>3 DEF ArgumentsTyped
    <2>5. CASE UNCHANGED vars
      BY <2>5 DEF ArgumentsTyped, vars
    <2> QED
      BY <2>1, <2>2, <2>3, <2>4, <2>5 DEF Next
  <1> QED
    BY <1>1, <1>2, PTL DEF Spec

-----------------------------------------------------------------------------
(* Sizes and shapes *)

\* What SizesExact says of one shape, type and size of a batch.
SizeExact(dims, dtype, b) ==
    LET size  == GetDataTypeByteSize[dtype]
        bytes == Product(dims) * size * (IF b > 1 THEN b ELSE 1)
        got   == GetBatchByteSize(b, dtype, dims)
        io    == [name |-> "x", data_type |-> dtype, dims |-> dims]
    IN CASE dims = <<>> -> Fits(b * size) => got = b * size
         [] dims # <<>> /\ (WILDCARD_DIM \in Range(dims) \/ size = 0)
              -> got = -1
         [] OTHER -> /\ Fits(bytes) => got = bytes
                     /\ ValidateIOShape(io) /\ got < 1 => ~Fits(bytes)

LEMMA SizesExactFor ==
    ASSUME NEW dims \in Seq(Int), NEW dtype \in DataTypes, NEW b \in Int
    PROVE  SizeExact(dims, dtype, b)
  <1> DEFINE size  == GetDataTypeByteSize[dtype]
             n     == IF b > 1 THEN b ELSE 1
             bytes == Product(dims) * size * n
             got   == GetBatchByteSize(b, dtype, dims)
             io    == [name |-> "x", data_type |-> dtype, dims |-> dims]
  <1>1. size \in Nat /\ n \in Nat \ {0}
    BY DEF GetDataTypeByteSize, DataTypes
  <1>2. ASSUME dims = <<>>, Fits(b * size)
        PROVE  got = b * size
    <2>1. got = Wrap(b * size)
      BY <1>2 DEF GetBatchByteSize
    <2>2. b * size \in Int
      BY <1>1
    <2> QED
      BY <1>2, <2>1, <2>2, WrapFacts
  <1>3. ASSUME dims # <<>>, WILDCARD_DIM \in Range(dims) \/ size = 0
        PROVE  got = -1
    <2>1. GetByteSize(dtype, dims) = -1
      BY <1>3 DEF GetByteSize, GetElementCount
    <2> QED
      BY <1>3, <2>1 DEF GetBatchByteSize
  <1>4. ASSUME dims # <<>>, WILDCARD_DIM \notin Range(dims), size # 0
        PROVE  /\ Fits(bytes) => got = bytes
               /\ ValidateIOShape(io) /\ got < 1 => ~Fits(bytes)
    <2>1. Product(dims) \in Int /\ bytes \in Int
      BY <1>1, ProductFacts
    <2>2. ASSUME Fits(bytes) PROVE got = bytes
      BY <1>4, <2>1, <2>2, BatchExact
    <2>3. ASSUME ValidateIOShape(io) PROVE bytes >= 1
      <3>1. \A i \in 1..Len(dims) : dims[i] >= 1
        BY <1>4, <2>3 DEF ValidateIOShape, Range
      <3>2. Product(dims) >= 1
        BY <3>1, ProductFacts
      <3> HIDE DEF size, n
      <3>3. \A x, y \in Int : x >= 1 /\ y >= 1 => x * y \in Int /\ x * y >= 1
        OBVIOUS
      <3>4. Product(dims) * size \in Int /\ Product(dims) * size >= 1
        BY <1>1, <1>4, <2>1, <3>2, <3>3
      <3> QED
        BY <1>1, <3>3, <3>4
    <2> HIDE DEF bytes, got, io
    <2> QED
      BY <2>1, <2>2, <2>3
  <1> HIDE DEF bytes, got, io, size
  <1>5. CASE dims = <<>>
    BY <1>2, <1>5 DEF SizeExact, bytes, got, io, size
  <1>6. CASE dims # <<>> /\ (WILDCARD_DIM \in Range(dims) \/ size = 0)
    BY <1>3, <1>6 DEF SizeExact, bytes, got, io, size
  <1>7. CASE dims # <<>> /\ ~(WILDCARD_DIM \in Range(dims) \/ size = 0)
    BY <1>4, <1>7 DEF SizeExact, bytes, got, io, size
  <1> QED
    BY <1>5, <1>6, <1>7

\* The size of a batch is exact, or -1 where it must be, for integers of any
\* width (model_config.cc:113).
THEOREM SizesAreExact == Spec => []SizesExact
  <1>1. ArgumentsTyped => SizesExact
    <2> SUFFICES ASSUME ArgumentsTyped, sort = "dims",
                        NEW dtype \in DataTypes, NEW b \in BatchSizes
                 PROVE  SizeExact(item, dtype, b)
      BY DEF SizesExact, SizeExact
    <2>1. (\A d \in Dimensions : d \in Int) /\ BatchSizes \subseteq Int
      BY ArgumentsAssumption
    <2>2. item \in Seq(Dimensions)
      BY DEF ArgumentsTyped
    <2>3. item \in Seq(Int)
      <3>1. \A i \in 1..Len(item) : item[i] \in Dimensions
        BY <2>2
      <3>2. \A i \in 1..Len(item) : item[i] \in Int
        BY <2>1, <3>1
      <3> QED
        BY <2>2, <3>2
    <2>4. b \in Int
      BY <2>1
    <2> QED
      BY <2>3, <2>4, SizesExactFor
  <1> QED
    BY <1>1, TypeCorrect, PTL

LEMMA InstancesAre ==
    ASSUME NEW dims \in Shapes, NEW s
    PROVE  /\ dims \in ShapesOf(Sizes)
           /\ s \in Instances(dims) <=> s \in Seq(Sizes) /\ InstanceOf(s, dims)
  <1>1. dims \in Seq(Sizes \cup {WILDCARD_DIM})
    BY DEF Shapes, BoundedSeq, SeqOf
  <1> QED
    BY <1>1 DEF ShapesOf, Instances, InstanceOf

\* Two shapes match with wildcards exactly when they share a concrete shape,
\* and literally exactly when they share them all (model_config.cc:147, 173).
THEOREM WildcardsDoMeet == Spec => []WildcardsMeet
  <1>1. WildcardsMeet
    <2> SUFFICES ASSUME item \in Shapes, NEW other \in Shapes
                 PROVE  /\ CompareDimsWithWildcard(item, other)
                              <=> Instances(item) \cap Instances(other) # {}
                        /\ CompareDims(item, other) <=> Instances(item) = Instances(other)
      BY DEF WildcardsMeet
    <2>1. /\ Sizes \in SUBSET (Nat \ {0}) /\ Sizes # {}
          /\ \E m, n \in Sizes : m # n
      BY ArgumentsAssumption
    <2>2. item \in ShapesOf(Sizes) /\ other \in ShapesOf(Sizes)
      BY InstancesAre
    <2>3. CompareDimsWithWildcard(item, other) <=>
              \E s \in Seq(Sizes) : InstanceOf(s, item) /\ InstanceOf(s, other)
      BY <2>1, <2>2, WildcardsMatch
    <2>4. CompareDims(item, other) <=>
              \A s \in Seq(Sizes) : InstanceOf(s, item) <=> InstanceOf(s, other)
      BY <2>1, <2>2, LiteralsMatch
    <2>5. Instances(item) \cap Instances(other) # {} <=>
              \E s \in Seq(Sizes) : InstanceOf(s, item) /\ InstanceOf(s, other)
      BY InstancesAre
    <2>6. Instances(item) = Instances(other) <=>
              \A s \in Seq(Sizes) : InstanceOf(s, item) <=> InstanceOf(s, other)
      BY InstancesAre
    <2> QED
      BY <2>3, <2>4, <2>5, <2>6
  <1> QED
    BY <1>1, PTL

-----------------------------------------------------------------------------
(* Names and codes *)

\* The name of a type is read as some type.
LEMMA NamesAreRead ==
    ASSUME NEW text \in Range(DataTypeToProtocolString)
    PROVE  ProtocolStringToDataType(text, Len(text)) # "TYPE_INVALID"
  <1>1. PICK t \in NamedTypes : text = DataTypeToProtocolString[t]
    BY DEF Range, NamedTypes
  <1>2. text \in Seq(Letters)
    BY TextsAreNames
  <1>3. Len(text) \in LengthsOf(t)
    <2> DEFINE N == DataTypeToProtocolString
    <2>1. Len(N.TYPE_INT16) = 5 /\ Len(N.TYPE_INT32) = 5 /\ Len(N.TYPE_INT64) = 5
      BY DEF DataTypeToProtocolString
    <2>2. Len(N.TYPE_UINT16) = 6 /\ Len(N.TYPE_UINT32) = 6 /\ Len(N.TYPE_UINT64) = 6
      BY DEF DataTypeToProtocolString
    <2>3. CASE t \in {"TYPE_INT16", "TYPE_INT32", "TYPE_INT64"}
      BY <1>1, <2>3, <2>1 DEF LengthsOf
    <2>4. CASE t \in {"TYPE_UINT16", "TYPE_UINT32", "TYPE_UINT64"}
      BY <1>1, <2>4, <2>2 DEF LengthsOf
    <2>5. CASE t \in {"TYPE_STRING", "TYPE_BOOL", "TYPE_BF16"}
      BY <1>1, <2>5 DEF LengthsOf, DataTypeToProtocolString
    <2>6. CASE t \notin {"TYPE_INT16", "TYPE_INT32", "TYPE_INT64", "TYPE_UINT16",
                          "TYPE_UINT32", "TYPE_UINT64", "TYPE_STRING", "TYPE_BOOL",
                          "TYPE_BF16"}
      BY <1>1, <2>6 DEF LengthsOf
    <2> QED
      BY <2>3, <2>4, <2>5, <2>6
  <1>4. IsPrefix(DataTypeToProtocolString[t], text)
    BY <1>1, <1>2 DEF IsPrefix
  <1>5. NamesType(t, text, Len(text))
    BY <1>1, <1>3, <1>4 DEF NamesType
  <1>6. "TYPE_INVALID" \notin NamedTypes
    BY DEF NamedTypes, DataTypeToProtocolString
  <1> QED
    BY <1>5, <1>6 DEF ProtocolStringToDataType

LEMMA CodesRoundTrip ==
    ASSUME NEW c \in Codes
    PROVE  /\ ReturnIfServerError(CreateError(c)) = c
           /\ CreateError(c) = NoError <=> c = "SUCCESS"
  BY DEF Codes, ServerErrorCodes, ReturnIfServerError, CreateError, NoError,
         StatusCodeToServerErrorCode, ServerErrorCodeToStatusCode

\* A type is read back from its name and from no other text
\* (model_config.cc:234, 270), and a code survives the C interface
\* (status.cc:11, 35).
THEOREM NamesDoRoundTrip == Spec => []NamesRoundTrip
  <1>1. ArgumentsTyped => NamesRoundTrip
    <2> DEFINE dtype == ProtocolStringToDataType(item, Len(item))
    <2> SUFFICES ASSUME ArgumentsTyped, sort \in {"text", "edited"}
                 PROVE  /\ sort = "text" => dtype # "TYPE_INVALID"
                        /\ dtype # "TYPE_INVALID" =>
                              item = DataTypeToProtocolString[dtype]
      BY CodesRoundTrip DEF NamesRoundTrip
    <2>1. sort = "text" => dtype # "TYPE_INVALID"
      BY NamesAreRead DEF ArgumentsTyped
    <2>2. item \in Seq(Letters \cup TextChars)
      BY TextsAreNames DEF ArgumentsTyped
    <2>3. dtype # "TYPE_INVALID" => item = DataTypeToProtocolString[dtype]
      BY <2>2, OnlyOwnNames
    <2> QED
      BY <2>1, <2>3
  <1> QED
    BY <1>1, TypeCorrect, PTL

-----------------------------------------------------------------------------
(* Reading the names of a path *)

Chars == PathChars \cup {Sep, "."}

\* The names read so far and the one that is being read.
Readings == [names : Seq(Seq(Chars)), name : Seq(Chars)]

Read(reading, c) ==
    IF c = Sep
    THEN [names |-> Closed(reading.names, reading.name), name |-> <<>>]
    ELSE [reading EXCEPT !.name = Append(@, c)]

\* r is what the characters of a path make of it, one after the other.
IsReading(r, path) ==
    /\ r \in [0..Len(path) -> Readings]
    /\ r[0] = [names |-> <<>>, name |-> <<>>]
    /\ \A i \in 1..Len(path) : r[i] = Read(r[i - 1], path[i])
    /\ Names(path) = Closed(r[Len(path)].names, r[Len(path)].name)

LEMMA ClosedTyped ==
    ASSUME NEW ns \in Seq(Seq(Chars)), NEW n \in Seq(Chars)
    PROVE  Closed(ns, n) \in Seq(Seq(Chars))
  BY DEF Closed

LEMMA ReadTyped ==
    ASSUME NEW reading \in Readings, NEW c \in Chars
    PROVE  Read(reading, c) \in Readings
  <1>1. reading.names \in Seq(Seq(Chars)) /\ reading.name \in Seq(Chars)
    BY DEF Readings
  <1>2. CASE c = Sep
    <2>1. Closed(reading.names, reading.name) \in Seq(Seq(Chars))
      BY <1>1, ClosedTyped
    <2>2. <<>> \in Seq(Chars)
      OBVIOUS
    <2> QED
      BY <1>2, <2>1, <2>2 DEF Read, Readings
  <1>3. CASE c # Sep
    <2>1. Append(reading.name, c) \in Seq(Chars)
      BY <1>1
    <2> QED
      BY <1>3, <2>1 DEF Read, Readings
  <1> QED
    BY <1>2, <1>3

LEMMA ReadingExists ==
    ASSUME NEW path \in Seq(Chars)
    PROVE  \E r : IsReading(r, path)
  <1> DEFINE m == Len(path)
             start == [names |-> <<>>, name |-> <<>>]
             step == [i \in 1..m |-> [x \in Readings |-> Read(x, path[i])]]
             IsRead(f) == f = [i \in 0..m |->
                 IF i = 0 THEN start
                 ELSE LET before == f[i - 1]
                      IN IF path[i] = Sep
                         THEN [names |-> Closed(before.names, before.name),
                               name |-> <<>>]
                         ELSE [before EXCEPT !.name = Append(@, path[i])]]
             g == CHOOSE f : IsRead(f)
  <1>1. m \in Nat /\ \A i \in 1..m : path[i] \in Chars
    OBVIOUS
  <1>2. start \in Readings
    <2>1. \A S : <<>> \in Seq(S)
      OBVIOUS
    <2> QED
      BY <2>1 DEF Readings
  <1>3. Names(path) = Closed(g[m].names, g[m].name)
    BY DEF Names
  <1>4. \A f : IsRead(f) <=> f = [i \in 0..m |-> IF i = 0 THEN start
                                               ELSE Read(f[i - 1], path[i])]
    BY DEF Read
  <1> HIDE DEF m, start, IsRead
  <1>5. step \in [1..m -> [Readings -> Readings]]
    BY <1>1, ReadTyped
  <1> HIDE DEF step
  <1>6. PICK f \in [0..m -> Readings] :
            f[0] = start /\ \A i \in 1..m : f[i] = step[i][f[i - 1]]
    <2>1. HasRecursion(Readings, start, m, step)
      BY <1>1, <1>2, <1>5, RecursionExists
    <2> QED
      BY <2>1 DEF HasRecursion
  <1>7. \A i \in 1..m : f[i] = Read(f[i - 1], path[i])
    <2> SUFFICES ASSUME NEW i \in 1..m PROVE f[i] = Read(f[i - 1], path[i])
      OBVIOUS
    <2>1. f[i - 1] \in Readings
      BY <1>1
    <2> QED
      BY <1>6, <2>1 DEF step
  <1>8. IsRead(f)
    <2>1. \A i \in 0..m : f[i] = IF i = 0 THEN start ELSE Read(f[i - 1], path[i])
      BY <1>1, <1>6, <1>7
    <2>2. f = [i \in 0..m |-> IF i = 0 THEN start ELSE Read(f[i - 1], path[i])]
      BY <2>1
    <2> QED
      BY <1>4, <2>2
  <1>9. IsRead(g)
    BY <1>8
  <1> HIDE DEF g
  <1>10. g = [i \in 0..m |-> IF i = 0 THEN start ELSE Read(g[i - 1], path[i])]
    BY <1>4, <1>9
  <1>11. g[0] = start /\ \A i \in 1..m : g[i] = Read(g[i - 1], path[i])
    <2>1. 0 \in 0..m /\ \A i \in 1..m : i \in 0..m /\ i # 0
      BY <1>1
    <2> QED
      BY <1>10, <2>1
  <1> DEFINE S == {i \in 0..m : g[i] \in Readings}
  <1>12. 0 \in S
    BY <1>1, <1>2, <1>11
  <1>13. ASSUME NEW i \in 1..m, i - 1 \in S PROVE i \in S
    <2>1. g[i - 1] \in Readings /\ path[i] \in Chars /\ i \in 0..m
      BY <1>1, <1>13
    <2>2. Read(g[i - 1], path[i]) \in Readings
      BY ONLY <2>1, ReadTyped
    <2> QED
      BY <1>11, <2>1, <2>2
  <1>14. 0..m \subseteq S
    <2> HIDE DEF S
    <2> QED
      BY <1>1, <1>12, <1>13, BoundedInduction
  <1>15. g \in [0..m -> Readings]
    BY <1>10, <1>14
  <1>16. IsReading(g, path)
    BY <1>3, <1>11, <1>15 DEF IsReading, m, start
  <1> QED
    BY <1>16

\* path is a, a separator and b.
Joined(path, a, b) ==
    /\ Len(path) = Len(a) + 1 + Len(b)
    /\ \A i \in 1..Len(a) : path[i] = a[i]
    /\ path[Len(a) + 1] = Sep
    /\ \A i \in 1..Len(b) : path[Len(a) + 1 + i] = b[i]

LEMMA ClosedJoined ==
    ASSUME NEW ns \in Seq(Seq(Chars)), NEW ms \in Seq(Seq(Chars)),
           NEW n \in Seq(Chars)
    PROVE  Closed(ns \o ms, n) = ns \o Closed(ms, n)
  <1>1. Append(ns \o ms, n) = ns \o Append(ms, n)
    <2>1. /\ Append(ns \o ms, n) = (ns \o ms) \o <<n>>
          /\ Append(ms, n) = ms \o <<n>>
      BY AppendIsConcat, ConcatProperties
    <2>2. (ns \o ms) \o <<n>> = ns \o (ms \o <<n>>)
      <3>1. <<n>> \in Seq(Seq(Chars))
        OBVIOUS
      <3> QED
        BY <3>1, ConcatAssociative
    <2> QED
      BY <2>1, <2>2
  <1> QED
    BY <1>1 DEF Closed

\* The names of two paths that a separator joins are the names of both.
LEMMA NamesJoin ==
    ASSUME NEW a \in Seq(Chars), NEW b \in Seq(Chars), NEW path \in Seq(Chars),
           Joined(path, a, b)
    PROVE  Names(path) = Names(a) \o Names(b)
  <1> DEFINE l == Len(a)
             m == Len(b)
             n == Len(path)
             After(x) == [names |-> Names(a) \o x.names, name |-> x.name]
  <1>1. PICK ra : IsReading(ra, a)
    BY ReadingExists
  <1>2. PICK rb : IsReading(rb, b)
    BY ReadingExists
  <1>3. PICK r : IsReading(r, path)
    BY ReadingExists
  <1>4. /\ ra \in [0..l -> Readings] /\ ra[0] = [names |-> <<>>, name |-> <<>>]
        /\ \A i \in 1..l : ra[i] = Read(ra[i - 1], a[i])
        /\ Names(a) = Closed(ra[l].names, ra[l].name)
    BY <1>1 DEF IsReading
  <1>5. /\ rb \in [0..m -> Readings] /\ rb[0] = [names |-> <<>>, name |-> <<>>]
        /\ \A i \in 1..m : rb[i] = Read(rb[i - 1], b[i])
        /\ Names(b) = Closed(rb[m].names, rb[m].name)
    BY <1>2 DEF IsReading
  <1>6. /\ r \in [0..n -> Readings] /\ r[0] = [names |-> <<>>, name |-> <<>>]
        /\ \A i \in 1..n : r[i] = Read(r[i - 1], path[i])
        /\ Names(path) = Closed(r[n].names, r[n].name)
    BY <1>3 DEF IsReading
  <1>7. /\ l \in Nat /\ m \in Nat /\ n = l + 1 + m
        /\ \A i \in 1..l : path[i] = a[i]
        /\ path[l + 1] = Sep
        /\ \A i \in 1..m : path[l + 1 + i] = b[i]
    BY DEF Joined
  <1>8. Names(a) \in Seq(Seq(Chars))
    <2>1. ra[l].names \in Seq(Seq(Chars)) /\ ra[l].name \in Seq(Chars)
      <3> HIDE DEF l, m, n
      <3>1. ra[l] \in Readings
        BY <1>4, <1>7
      <3> QED
        BY <3>1 DEF Readings
    <2> QED
      BY <1>4, <2>1, ClosedTyped
  <1> HIDE DEF l, m, n
  <1>9. r[l] = ra[l]
    <2> DEFINE S == {i \in 0..l : r[i] = ra[i]}
    <2>1. 0 \in S
      BY <1>4, <1>6, <1>7
    <2>2. ASSUME NEW i \in 1..l, i - 1 \in S PROVE i \in S
      <3>1. i \in 1..n /\ i \in 0..l
        BY <1>7
      <3>2. r[i] = Read(r[i - 1], path[i]) /\ ra[i] = Read(ra[i - 1], a[i])
        BY <1>4, <1>6, <3>1
      <3>3. r[i - 1] = ra[i - 1] /\ path[i] = a[i]
        BY <1>7, <2>2
      <3> QED
        BY <3>1, <3>2, <3>3
    <2> HIDE DEF S
    <2>3. 0..l \subseteq S
      BY <1>7, <2>1, <2>2, BoundedInduction
    <2> QED
      BY <1>7, <2>3 DEF S
  <1>10. r[l + 1] = After(rb[0])
    <2>1. l + 1 \in 1..n /\ (l + 1) - 1 = l
      BY <1>7
    <2>2. r[l + 1] = Read(ra[l], Sep)
      BY <1>6, <1>7, <1>9, <2>1
    <2>3. Read(ra[l], Sep) = [names |-> Names(a), name |-> <<>>]
      BY <1>4 DEF Read
    <2>4. Names(a) \o <<>> = Names(a)
      BY <1>8, ConcatEmptySeq
    <2> QED
      BY <1>5, <2>2, <2>3, <2>4
  <1>11. ASSUME NEW i \in 1..m
         PROVE  After(Read(rb[i - 1], b[i])) = Read(After(rb[i - 1]), b[i])
    <2> DEFINE x == rb[i - 1]
    <2>1. x \in Readings
      BY <1>5, <1>7
    <2>2. x.names \in Seq(Seq(Chars)) /\ x.name \in Seq(Chars)
      BY <2>1 DEF Readings
    <2>3. x = [names |-> x.names, name |-> x.name]
      BY <2>1 DEF Readings
    <2>4. Closed(Names(a) \o x.names, x.name) = Names(a) \o Closed(x.names, x.name)
      BY <1>8, <2>2, ClosedJoined
    <2> HIDE DEF x
    <2>5. ASSUME b[i] = Sep PROVE After(Read(x, b[i])) = Read(After(x), b[i])
      BY <2>4, <2>5 DEF Read
    <2>6. ASSUME b[i] # Sep PROVE After(Read(x, b[i])) = Read(After(x), b[i])
      <3>1. Read(x, b[i]) = [names |-> x.names, name |-> Append(x.name, b[i])]
        BY <2>3, <2>6 DEF Read
      <3>2. Read(After(x), b[i]) = [names |-> Names(a) \o x.names,
                                    name |-> Append(x.name, b[i])]
        BY <2>6 DEF Read
      <3> QED
        BY <3>1, <3>2
    <2>7. After(Read(x, b[i])) = Read(After(x), b[i])
      BY <2>5, <2>6
    <2> QED
      BY <2>7 DEF x
  <1>12. r[n] = After(rb[m])
    <2> HIDE DEF After
    <2> DEFINE S == {i \in 0..m : r[l + 1 + i] = After(rb[i])}
    <2>1. 0 \in S
      <3>1. l + 1 + 0 = l + 1 /\ 0 \in 0..m
        BY <1>7
      <3> QED
        BY <1>10, <3>1
    <2>2. ASSUME NEW i \in 1..m, i - 1 \in S PROVE i \in S
      <3>1. l + 1 + i \in 1..n /\ (l + 1 + i) - 1 = l + 1 + (i - 1) /\ i \in 0..m
        BY <1>7
      <3>2. r[l + 1 + i] = Read(r[l + 1 + (i - 1)], b[i])
        BY <1>6, <1>7, <3>1
      <3>3. r[l + 1 + (i - 1)] = After(rb[i - 1])
        BY <2>2
      <3>4. rb[i] = Read(rb[i - 1], b[i])
        BY <1>5
      <3>5. r[l + 1 + i] = After(rb[i])
        BY <1>11, <3>2, <3>3, <3>4
      <3> QED
        BY <3>1, <3>5
    <2> HIDE DEF S
    <2>3. 0..m \subseteq S
      BY <1>7, <2>1, <2>2, BoundedInduction
    <2>4. m \in S
      BY <1>7, <2>3
    <2> QED
      BY <1>7, <2>4 DEF S
  <1>13. Names(path) = Closed(Names(a) \o rb[m].names, rb[m].name)
    BY <1>6, <1>12
  <1>14. rb[m].names \in Seq(Seq(Chars)) /\ rb[m].name \in Seq(Chars)
    BY <1>5, <1>7 DEF Readings
  <1>15. Closed(Names(a) \o rb[m].names, rb[m].name)
            = Names(a) \o Closed(rb[m].names, rb[m].name)
    BY <1>8, <1>14, ClosedJoined
  <1> QED
    BY <1>5, <1>13, <1>15

\* Nothing, a separator and a dot have no names.
LEMMA NoNames ==
    Names(<<>>) = <<>> /\ Names(<<Sep>>) = <<>> /\ Names(<<".">>) = <<>>
  <1>1. <<>> \in Seq(Chars) /\ <<Sep>> \in Seq(Chars) /\ <<".">> \in Seq(Chars)
    BY DEF Chars
  <1>2. Names(<<>>) = <<>>
    <2>1. PICK r : IsReading(r, <<>>)
      BY <1>1, ReadingExists
    <2> QED
      BY <2>1 DEF IsReading, Closed
  <1>3. Names(<<Sep>>) = <<>>
    <2>1. Joined(<<Sep>>, <<>>, <<>>)
      BY DEF Joined
    <2>2. Names(<<Sep>>) = Names(<<>>) \o Names(<<>>)
      BY <1>1, <2>1, NamesJoin
    <2>3. <<>> \o <<>> = <<>>
      OBVIOUS
    <2> QED
      BY <1>2, <2>2, <2>3
  <1>4. Names(<<".">>) = <<>>
    <2>1. PICK r : IsReading(r, <<".">>)
      BY <1>1, ReadingExists
    <2>2. /\ r[0] = [names |-> <<>>, name |-> <<>>]
          /\ r[1] = Read(r[0], ".")
          /\ Names(<<".">>) = Closed(r[1].names, r[1].name)
      BY <2>1 DEF IsReading
    <2>3. "." # Sep
      BY DEF Sep
    <2>4. r[1] = [names |-> <<>>, name |-> <<".">>]
      BY <2>2, <2>3 DEF Read
    <2> QED
      BY <2>2, <2>4 DEF Closed
  <1> QED
    BY <1>2, <1>3, <1>4

LEMMA NamesTyped ==
    ASSUME NEW path \in Seq(Chars)
    PROVE  Names(path) \in Seq(Seq(Chars))
  <1> DEFINE n == Len(path)
  <1>1. PICK r : IsReading(r, path)
    BY ReadingExists
  <1>2. n \in Nat
    OBVIOUS
  <1>3. /\ r \in [0..n -> Readings]
        /\ Names(path) = Closed(r[n].names, r[n].name)
    BY <1>1 DEF IsReading
  <1> HIDE DEF n
  <1>4. r[n] \in Readings
    BY <1>2, <1>3
  <1>5. r[n].names \in Seq(Seq(Chars)) /\ r[n].name \in Seq(Chars)
    BY <1>4 DEF Readings
  <1> QED
    BY <1>3, <1>5, ClosedTyped

\* A separator before a path or after it adds no name.
LEMMA NamesBeside ==
    ASSUME NEW path \in Seq(Chars)
    PROVE  /\ Append(path, Sep) \in Seq(Chars)
           /\ Names(Append(path, Sep)) = Names(path)
           /\ path # <<>> /\ path[1] = Sep => Names(Tail(path)) = Names(path)
  <1>1. Sep \in Chars /\ <<>> \in Seq(Chars)
    BY DEF Chars
  <1>2. Append(path, Sep) \in Seq(Chars)
    BY <1>1
  <1>3. Names(Append(path, Sep)) = Names(path)
    <2>1. Joined(Append(path, Sep), path, <<>>)
      BY DEF Joined
    <2>2. Names(Append(path, Sep)) = Names(path) \o Names(<<>>)
      BY <1>1, <1>2, <2>1, NamesJoin
    <2> QED
      BY <2>2, NoNames, NamesTyped, ConcatEmptySeq
  <1>4. ASSUME path # <<>>, path[1] = Sep
        PROVE  Names(Tail(path)) = Names(path)
    <2>1. Tail(path) \in Seq(Chars) /\ Joined(path, <<>>, Tail(path))
      BY <1>4 DEF Joined
    <2>2. Names(path) = Names(<<>>) \o Names(Tail(path))
      BY <1>1, <2>1, NamesJoin
    <2> QED
      BY <2>1, <2>2, NoNames, NamesTyped, ConcatEmptySeq
  <1> QED
    BY <1>2, <1>3, <1>4

\* Joined, two segments have the names of both, and begin as the first does.
LEMMA AddSegmentNames ==
    ASSUME NEW p \in Seq(Chars), NEW c \in Seq(Chars)
    PROVE  /\ AddSegment(p, c) \in Seq(Chars)
           /\ Names(AddSegment(p, c)) = Names(p) \o Names(c)
           /\ IsPrefix(p, AddSegment(p, c))
  <1> DEFINE j == AddSegment(p, c)
  <1>1. Names(p) \in Seq(Seq(Chars)) /\ Names(c) \in Seq(Seq(Chars))
    BY NamesTyped
  <1>2. CASE p = <<>>
    <2>1. j = c
      BY <1>2 DEF AddSegment
    <2>2. Names(p) \o Names(c) = Names(c)
      BY <1>1, <1>2, NoNames, ConcatEmptySeq
    <2>3. IsPrefix(p, c)
      BY <1>2 DEF IsPrefix
    <2> HIDE DEF j
    <2>4. j \in Seq(Chars) /\ Names(j) = Names(p) \o Names(c) /\ IsPrefix(p, j)
      BY <2>1, <2>2, <2>3
    <2> QED
      BY <2>4 DEF j
  <1>3. CASE p # <<>> /\ IsAbsolutePath(c) /\ Last(p) = Sep
    <2>1. c # <<>> /\ c[1] = Sep /\ Tail(c) \in Seq(Chars)
      BY <1>3 DEF IsAbsolutePath
    <2>2. Front(p) \in Seq(Chars) /\ p = Append(Front(p), Sep)
      BY <1>3 DEF Front, Last
    <2>3. j = p \o Tail(c)
      BY <1>3 DEF AddSegment
    <2>4. j \in Seq(Chars) /\ IsPrefix(p, j)
      BY <2>1, <2>3 DEF IsPrefix
    <2>5. Joined(j, Front(p), Tail(c))
      BY <1>3, <2>1, <2>3 DEF Joined, Front, Last
    <2>6. Names(j) = Names(Front(p)) \o Names(Tail(c))
      BY <2>1, <2>2, <2>4, <2>5, NamesJoin
    <2>7. Names(Front(p)) = Names(p) /\ Names(Tail(c)) = Names(c)
      BY <2>1, <2>2, NamesBeside
    <2> QED
      BY <2>4, <2>6, <2>7
  <1>4. CASE p # <<>> /\ IsAbsolutePath(c) /\ Last(p) # Sep
    <2>1. c # <<>> /\ c[1] = Sep /\ Tail(c) \in Seq(Chars)
      BY <1>4 DEF IsAbsolutePath
    <2>2. j = p \o c
      BY <1>4 DEF AddSegment
    <2>3. j \in Seq(Chars) /\ IsPrefix(p, j)
      BY <2>1, <2>2 DEF IsPrefix
    <2>4. Joined(j, p, Tail(c))
      BY <1>4, <2>1, <2>2 DEF Joined
    <2>5. Names(j) = Names(p) \o Names(Tail(c))
      BY <2>1, <2>3, <2>4, NamesJoin
    <2>6. Names(Tail(c)) = Names(c)
      BY <2>1, NamesBeside
    <2> QED
      BY <2>3, <2>5, <2>6
  <1>5. CASE p # <<>> /\ ~IsAbsolutePath(c) /\ Last(p) = Sep
    <2>1. Front(p) \in Seq(Chars) /\ p = Append(Front(p), Sep)
      BY <1>5 DEF Front, Last
    <2>2. j = p \o c
      BY <1>5 DEF AddSegment
    <2>3. j \in Seq(Chars) /\ IsPrefix(p, j)
      BY <2>2 DEF IsPrefix
    <2>4. Joined(j, Front(p), c)
      BY <1>5, <2>2 DEF Joined, Front, Last
    <2>5. Names(j) = Names(Front(p)) \o Names(c)
      BY <2>1, <2>3, <2>4, NamesJoin
    <2>6. Names(Front(p)) = Names(p)
      BY <2>1, NamesBeside
    <2> QED
      BY <2>3, <2>5, <2>6
  <1>6. CASE p # <<>> /\ ~IsAbsolutePath(c) /\ Last(p) # Sep
    <2>1. j = Append(p, Sep) \o c
      BY <1>6 DEF AddSegment
    <2>2. Append(p, Sep) \in Seq(Chars)
      BY NamesBeside
    <2>3. j \in Seq(Chars)
      BY <2>1, <2>2
    <2>4. Joined(j, p, c)
      BY <2>1, <2>2 DEF Joined
    <2>5. Names(j) = Names(p) \o Names(c)
      BY <2>3, <2>4, NamesJoin
    <2>6. IsPrefix(p, j)
      BY <2>3, <2>4 DEF IsPrefix, Joined
    <2> QED
      BY <2>3, <2>5, <2>6
  <1> QED
    BY <1>2, <1>3, <1>4, <1>5, <1>6

LEMMA JoinPathOfTwo ==
    ASSUME NEW p \in Seq(Chars), NEW c \in Seq(Chars)
    PROVE  JoinPath(<<p, c>>) = AddSegment(p, c)
  <1> DEFINE s == <<p, c>>
             IsJoined(f) == f = [i \in 0..Len(s) |->
                 IF i = 0 THEN <<>> ELSE AddSegment(f[i - 1], s[i])]
             j == AddSegment(<<>>, p)
             g == CHOOSE f : IsJoined(f)
             h == [i \in 0..2 |-> IF i = 0 THEN <<>>
                                  ELSE IF i = 1 THEN j ELSE AddSegment(j, c)]
  <1>1. Len(s) = 2 /\ s[1] = p /\ s[2] = c
    OBVIOUS
  <1>2. JoinPath(s) = g[Len(s)]
    BY DEF JoinPath
  <1>3. j = p
    BY DEF AddSegment
  <1> HIDE DEF s, j
  <1>4. IsJoined(h)
    <2>1. h[0] = <<>> /\ h[1] = j /\ h[2] = AddSegment(j, c)
      OBVIOUS
    <2>2. \A i \in 0..2 : h[i] = IF i = 0 THEN <<>> ELSE AddSegment(h[i - 1], s[i])
      <3>1. h[1] = AddSegment(h[0], s[1]) /\ h[2] = AddSegment(h[1], s[2])
        BY <1>1, <2>1 DEF j
      <3>2. \A i \in 0..2 : i = 0 \/ i = 1 \/ i = 2
        OBVIOUS
      <3> HIDE DEF h
      <3> QED
        BY <2>1, <3>1, <3>2
    <2>3. h = [i \in 0..2 |-> h[i]]
      OBVIOUS
    <2> HIDE DEF h
    <2> QED
      BY <1>1, <2>2, <2>3
  <1>5. IsJoined(g)
    BY <1>4
  <1> HIDE DEF g
  <1>6. g[0] = <<>> /\ g[1] = AddSegment(g[0], p) /\ g[2] = AddSegment(g[1], c)
    BY <1>1, <1>5
  <1>7. g[1] = p /\ g[2] = AddSegment(p, c)
    BY <1>3, <1>6 DEF j
  <1> QED
    BY <1>1, <1>2, <1>7 DEF s

-----------------------------------------------------------------------------
(* Splitting a path *)

\* Separators at the end of a path add no name.
LEMMA NamesOfSeparators ==
    ASSUME NEW path \in Seq(Chars), NEW e \in 0..Len(path),
           \A i \in e + 1..Len(path) : path[i] = Sep
    PROVE  /\ SubSeq(path, 1, e) \in Seq(Chars)
           /\ Names(path) = Names(SubSeq(path, 1, e))
  <1> DEFINE n == Len(path)
             Part(k) == SubSeq(path, 1, e + k)
             S == {k \in 0..n - e : Names(Part(k)) = Names(Part(0))}
  <1>1. n \in Nat /\ n - e \in Nat /\ e \in Nat /\ e + 0 = e
    OBVIOUS
  <1>2. \A k \in 0..n - e : Part(k) \in Seq(Chars)
    OBVIOUS
  <1>3. 0 \in S
    BY <1>1
  <1>4. ASSUME NEW k \in 1..n - e, k - 1 \in S PROVE k \in S
    <2>1. k - 1 \in 0..n - e /\ k \in 0..n - e
      BY <1>1
    <2>2. path[e + k] = Sep
      BY <1>1
    <2>3. Part(k) = Append(Part(k - 1), Sep)
      BY <1>1, <2>2
    <2>4. Part(k - 1) \in Seq(Chars)
      BY <1>2, <2>1
    <2> HIDE DEF Part
    <2>5. Names(Part(k)) = Names(Part(k - 1))
      BY <2>3, <2>4, NamesBeside
    <2> QED
      BY <1>4, <2>1, <2>5
  <1>5. Part(n - e) = path
    <2>1. e + (n - e) = n
      BY <1>1
    <2> QED
      BY <2>1
  <1> HIDE DEF S, Part
  <1>6. 0..n - e \subseteq S
    BY <1>1, <1>3, <1>4, BoundedInduction
  <1>7. Names(Part(n - e)) = Names(Part(0))
    <2>1. n - e \in S
      BY <1>1, <1>6
    <2> QED
      BY <2>1 DEF S
  <1>8. Part(0) \in Seq(Chars) /\ Part(0) = SubSeq(path, 1, e)
    BY <1>1, <1>2 DEF Part
  <1> QED
    BY <1>5, <1>7, <1>8

\* Where the last name of a path begins and ends.
LEMMA NameBounds ==
    ASSUME NEW path \in Seq(Chars), path # <<>>
    PROVE  /\ NameEnd(path) \in 1..Len(path)
           /\ NameStart(path) \in 0..NameEnd(path)
           /\ NameStart(path) # 0 => path[NameStart(path)] = Sep
           /\ \A i \in NameStart(path) + 1..NameEnd(path) : path[i] # Sep
           /\ \A i \in NameEnd(path) + 1..Len(path) : path[i] = Sep
           /\ path[NameEnd(path)] = Sep => NameEnd(path) = 1
  <1> DEFINE S == {1} \cup {i \in DOMAIN path : path[i] # Sep}
             T == {0} \cup {i \in 1..NameEnd(path) : path[i] = Sep}
             n == Len(path)
             e == NameEnd(path)
             s == NameStart(path)
  <1>1. n \in Nat \ {0} /\ DOMAIN path = 1..n
    OBVIOUS
  <1>2. e = Max(S) /\ s = Max(T)
    BY DEF NameEnd, NameStart
  <1>3. S \in SUBSET (0..n) /\ S # {}
    BY <1>1
  <1>4. e \in S /\ \A k \in S : k <= e
    <2> HIDE DEF S, e
    <2> QED
      BY <1>1, <1>2, <1>3, MaxIsGreatest
  <1>5. e \in 1..n
    BY <1>1, <1>4
  <1>6. T \in SUBSET (0..e) /\ T # {}
    <2> HIDE DEF e
    <2>1. T = {0} \cup {i \in 1..e : path[i] = Sep}
      BY DEF e
    <2> QED
      BY <1>5, <2>1
  <1>7. s \in T /\ \A k \in T : k <= s
    <2> HIDE DEF T, s, e
    <2>1. e \in Nat
      BY <1>5
    <2> QED
      BY <1>2, <1>6, <2>1, MaxIsGreatest
  <1>8. \A i \in e + 1..n : path[i] = Sep
    <2> SUFFICES ASSUME NEW i \in e + 1..n, path[i] # Sep PROVE FALSE
      OBVIOUS
    <2>1. i \in S
      BY <1>1, <1>5
    <2>2. i <= e
      BY <1>4, <2>1
    <2> HIDE DEF e
    <2> QED
      BY <1>5, <2>2
  <1>9. path[e] = Sep => e = 1
    BY <1>4
  <1>10. s \in 0..e /\ (s # 0 => path[s] = Sep)
    BY <1>5, <1>6, <1>7
  <1>11. \A i \in s + 1..e : path[i] # Sep
    <2> SUFFICES ASSUME NEW i \in s + 1..e, path[i] = Sep PROVE FALSE
      OBVIOUS
    <2>1. i \in T
      BY <1>10
    <2>2. i <= s
      BY <1>7, <2>1
    <2> HIDE DEF s
    <2> QED
      BY <1>10, <2>2
  <1> HIDE DEF e, s, n
  <1> QED
    BY <1>5, <1>8, <1>9, <1>10, <1>11 DEF e, s, n

\* What PathsSplit says of the directory and the base name of a path.
LEMMA SplitNames ==
    ASSUME NEW path \in Seq(Chars)
    PROVE  /\ DirName(path) \in Seq(Chars) /\ BaseName(path) \in Seq(Chars)
           /\ Sep \notin Range(BaseName(path))
           /\ Names(path) = Names(DirName(path)) \o Names(BaseName(path))
           /\ IsAbsolutePath(DirName(path)) <=> IsAbsolutePath(path)
  <1> DEFINE n == Len(path)
             e == NameEnd(path)
             s == NameStart(path)
             dir == DirName(path)
             base == BaseName(path)
  <1>1. <<>> \in Seq(Chars) /\ <<Sep>> \in Seq(Chars) /\ <<".">> \in Seq(Chars)
    BY DEF Chars
  <1>2. <<>> \o <<>> = <<>>
    OBVIOUS
  <1>3. CASE path = <<>>
    <2>1. dir = <<>> /\ base = <<>>
      BY <1>3 DEF DirName, BaseName
    <2>2. Sep \notin Range(<<>>)
      BY DEF Range
    <2> HIDE DEF dir, base
    <2>3. /\ dir \in Seq(Chars) /\ base \in Seq(Chars)
          /\ Sep \notin Range(base)
          /\ Names(path) = Names(dir) \o Names(base)
          /\ IsAbsolutePath(dir) <=> IsAbsolutePath(path)
      BY <1>1, <1>2, <1>3, <2>1, <2>2, NoNames
    <2> QED
      BY <2>3 DEF dir, base
  <1>4. CASE path # <<>> /\ path[e] = Sep
    <2>1. dir = <<Sep>> /\ base = <<>>
      BY <1>4 DEF DirName, BaseName
    <2>2. path[1] = Sep /\ \A i \in 0 + 1..n : path[i] = Sep
      <3>1. e = 1 /\ e \in 1..n /\ \A i \in e + 1..n : path[i] = Sep
        BY <1>4, NameBounds
      <3> HIDE DEF e
      <3> QED
        BY <1>4, <3>1
    <2>3. Names(path) = <<>>
      <3>1. 0 \in 0..n
        OBVIOUS
      <3>2. Names(path) = Names(SubSeq(path, 1, 0))
        BY <2>2, <3>1, NamesOfSeparators
      <3>3. SubSeq(path, 1, 0) = <<>>
        OBVIOUS
      <3> QED
        BY <3>2, <3>3, NoNames
    <2>4. Sep \notin Range(<<>>)
      BY DEF Range
    <2>5. IsAbsolutePath(path) /\ IsAbsolutePath(<<Sep>>)
      BY <1>4, <2>2 DEF IsAbsolutePath
    <2> HIDE DEF dir, base
    <2>6. /\ dir \in Seq(Chars) /\ base \in Seq(Chars)
          /\ Sep \notin Range(base)
          /\ Names(path) = Names(dir) \o Names(base)
          /\ IsAbsolutePath(dir) <=> IsAbsolutePath(path)
      BY <1>1, <1>2, <2>1, <2>3, <2>4, <2>5, NoNames
    <2> QED
      BY <2>6 DEF dir, base
  <1>5. CASE path # <<>> /\ path[e] # Sep
    <2>1. base = SubSeq(path, s + 1, e)
      BY <1>5 DEF BaseName
    <2>2. dir = IF s = 0 THEN <<".">> ELSE IF s = 1 THEN <<Sep>>
                ELSE SubSeq(path, 1, s - 1)
      BY <1>5 DEF DirName
    <2>3. /\ e \in 1..n /\ s \in 0..e /\ (s # 0 => path[s] = Sep)
          /\ \A i \in s + 1..e : path[i] # Sep
          /\ \A i \in e + 1..n : path[i] = Sep
      BY <1>5, NameBounds
    <2>4. s < e
      BY <1>5, <2>3
    <2> DEFINE front == SubSeq(path, 1, e)
    <2> HIDE DEF dir, base, s, e
    <2>5. front \in Seq(Chars) /\ Names(path) = Names(front)
      <3>1. e \in 0..n
        BY <2>3
      <3> QED
        BY <2>3, <3>1, NamesOfSeparators
    <2>6. Len(front) = e /\ \A i \in 1..e : front[i] = path[i]
      BY <2>3
    <2>7. /\ base \in Seq(Chars) /\ Len(base) = e - s
          /\ \A i \in 1..e - s : base[i] = path[s + i]
      BY <2>1, <2>3, <2>4
    <2>8. Sep \notin Range(base)
      <3>1. \A i \in 1..e - s : s + i \in s + 1..e
        BY <2>3
      <3>2. \A i \in DOMAIN base : base[i] # Sep
        BY <2>3, <2>7, <3>1
      <3> QED
        BY <3>2 DEF Range
    <2>9. Names(base) \in Seq(Seq(Chars))
      BY <2>7, NamesTyped
    <2>10. ASSUME s = 0
           PROVE  /\ dir \in Seq(Chars)
                  /\ Names(front) = Names(dir) \o Names(base)
                  /\ IsAbsolutePath(dir) <=> IsAbsolutePath(path)
      <3>1. dir = <<".">>
        BY <2>2, <2>10
      <3>2. front = base
        BY <2>1, <2>10
      <3>3. <<>> \o Names(base) = Names(base)
        BY <2>9, ConcatEmptySeq
      <3>4. path[1] # Sep
        BY <2>3, <2>10
      <3>5. ~IsAbsolutePath(path) /\ ~IsAbsolutePath(<<".">>)
        BY <3>4 DEF IsAbsolutePath, Sep
      <3> HIDE DEF front
      <3> QED
        BY <1>1, <3>1, <3>2, <3>3, <3>5, NoNames
    <2>11. ASSUME s = 1
           PROVE  /\ dir \in Seq(Chars)
                  /\ Names(front) = Names(dir) \o Names(base)
                  /\ IsAbsolutePath(dir) <=> IsAbsolutePath(path)
      <3>1. dir = <<Sep>>
        BY <2>2, <2>11
      <3> HIDE DEF front
      <3>2. Joined(front, <<>>, base)
        BY <2>3, <2>6, <2>7, <2>11 DEF Joined
      <3>3. Names(front) = Names(<<>>) \o Names(base)
        BY <1>1, <2>5, <2>7, <3>2, NamesJoin
      <3>4. IsAbsolutePath(path) /\ IsAbsolutePath(<<Sep>>)
        BY <1>5, <2>3, <2>11 DEF IsAbsolutePath
      <3> QED
        BY <1>1, <3>1, <3>3, <3>4, NoNames
    <2>12. ASSUME s > 1
           PROVE  /\ dir \in Seq(Chars)
                  /\ Names(front) = Names(dir) \o Names(base)
                  /\ IsAbsolutePath(dir) <=> IsAbsolutePath(path)
      <3>1. dir = SubSeq(path, 1, s - 1)
        BY <2>2, <2>3, <2>12
      <3>2. /\ dir \in Seq(Chars) /\ Len(dir) = s - 1
            /\ \A i \in 1..s - 1 : dir[i] = path[i]
        BY <2>3, <2>12, <3>1
      <3> HIDE DEF front
      <3>3. Joined(front, dir, base)
        <4>1. Len(front) = Len(dir) + 1 + Len(base)
          BY <2>3, <2>6, <2>7, <3>2
        <4>2. \A i \in 1..Len(dir) : front[i] = dir[i]
          BY <2>3, <2>6, <2>12, <3>2
        <4>3. front[Len(dir) + 1] = Sep
          BY <2>3, <2>6, <2>12, <3>2
        <4>4. \A i \in 1..Len(base) : front[Len(dir) + 1 + i] = base[i]
          <5> SUFFICES ASSUME NEW i \in 1..e - s
                       PROVE  front[s + i] = base[i]
            BY <2>3, <2>7, <3>2
          <5>1. s + i \in 1..e
            BY <2>3
          <5> QED
            BY <2>6, <2>7, <5>1
        <4> QED
          BY <4>1, <4>2, <4>3, <4>4 DEF Joined
      <3>4. Names(front) = Names(dir) \o Names(base)
        BY <2>5, <2>7, <3>2, <3>3, NamesJoin
      <3>5. dir # <<>> /\ dir[1] = path[1]
        BY <2>3, <2>12, <3>2
      <3>6. IsAbsolutePath(dir) <=> IsAbsolutePath(path)
        BY <1>5, <3>5 DEF IsAbsolutePath
      <3> QED
        BY <3>2, <3>4, <3>6
    <2> HIDE DEF front
    <2>13. /\ dir \in Seq(Chars) /\ base \in Seq(Chars)
           /\ Sep \notin Range(base)
           /\ Names(path) = Names(dir) \o Names(base)
           /\ IsAbsolutePath(dir) <=> IsAbsolutePath(path)
      BY <2>3, <2>5, <2>7, <2>8, <2>10, <2>11, <2>12
    <2> QED
      BY <2>13 DEF dir, base
  <1> QED
    BY <1>3, <1>4, <1>5

\* Whatever name is joined to a directory, ".." included, the check for escapes
\* reports nothing (file_utils.cc:122): it compares texts, and so never refuses a
\* library that was found in a search path (backend_model.cc:255, 303), although
\* that is what it is for (file_utils.h:80).
THEOREM NoEscapeReported ==
    ASSUME NEW directory \in Seq(Chars), NEW name \in Seq(Chars)
    PROVE  ~IsChildPathEscapingParentPath(JoinPath(<<directory, name>>), directory)
  BY JoinPathOfTwo, AddSegmentNames DEF IsChildPathEscapingParentPath

\* Splitting a path and joining its parts keeps its names, in order
\* (file_utils.cc:42, 67, 85).
THEOREM PathsDoSplit == Spec => []PathsSplit
  <1>1. ArgumentsTyped => PathsSplit
    <2> SUFFICES ASSUME ArgumentsTyped, sort = "path" PROVE PathsSplit
      BY DEF PathsSplit
    <2> DEFINE dir == DirName(item)
               base == BaseName(item)
    <2>1. item \in Seq(Chars)
      <3>1. item \in Seq(PathChars)
        BY DEF ArgumentsTyped
      <3> QED
        BY <3>1 DEF Chars
    <2>2. /\ dir \in Seq(Chars) /\ base \in Seq(Chars)
          /\ Sep \notin Range(base)
          /\ Names(item) = Names(dir) \o Names(base)
          /\ IsAbsolutePath(dir) <=> IsAbsolutePath(item)
      BY <2>1, SplitNames
    <2> HIDE DEF dir, base
    <2>3. Names(JoinPath(<<dir, base>>)) = Names(item)
      BY <2>2, JoinPathOfTwo, AddSegmentNames
    <2>4. ASSUME NEW i \in 0..Len(item), NEW parent, NEW child,
                 parent = SubSeq(item, 1, i), child = SubSeq(item, i + 1, Len(item))
          PROVE  Names(JoinPath(<<parent, child>>)) = Names(parent) \o Names(child)
      <3>1. parent \in Seq(Chars) /\ child \in Seq(Chars)
        BY <2>1, <2>4
      <3> QED
        BY <3>1, JoinPathOfTwo, AddSegmentNames
    <2> QED
      BY <2>2, <2>3, <2>4 DEF PathsSplit, dir, base
  <1> QED
    BY <1>1, TypeCorrect, PTL

-----------------------------------------------------------------------------
(* The settings of a section *)

Keys == {setting[2] : setting \in Settings} \cup {"default-max-batch-size"}

Values == {setting[3] : setting \in Settings} \cup {"4"}

Pairs == Keys \X Values

\* pl are the places of a section's settings among the first n of the command
\* line, in order, and s the keys and values there.
Lists(section, s, pl, n) ==
    /\ pl \in Seq(1..n)
    /\ Len(pl) = Len(s)
    /\ \A j, k \in 1..Len(s) : j < k => pl[j] < pl[k]
    /\ \A j \in 1..Len(s) : /\ item[pl[j]][1] = section
                            /\ s[j] = <<item[pl[j]][2], item[pl[j]][3]>>
    /\ \A i \in 1..n : item[i][1] = section => \E j \in 1..Len(s) : pl[j] = i

LEMMA SettingTyped ==
    ASSUME item \in Seq(Settings), NEW i \in 1..Len(item)
    PROVE  <<item[i][2], item[i][3]>> \in Pairs
  <1>1. item[i] \in Settings
    OBVIOUS
  <1>2. item[i][2] \in Keys /\ item[i][3] \in Values
    BY <1>1 DEF Keys, Values
  <1> QED
    BY <1>2 DEF Pairs

LEMMA ListsNext ==
    ASSUME NEW section, NEW n \in Nat \ {0}, NEW s \in Seq(Pairs), NEW pl,
           Lists(section, s, pl, n - 1), <<item[n][2], item[n][3]>> \in Pairs
    PROVE  /\ item[n][1] # section => Lists(section, s, pl, n)
           /\ item[n][1] = section =>
                 Lists(section, Append(s, <<item[n][2], item[n][3]>>), Append(pl, n), n)
  <1> DEFINE m == Len(s)
             pair == <<item[n][2], item[n][3]>>
             t == Append(s, pair)
             ql == Append(pl, n)
  <1>1. /\ pl \in Seq(1..n - 1) /\ Len(pl) = m /\ m \in Nat
        /\ \A j, k \in 1..m : j < k => pl[j] < pl[k]
        /\ \A j \in 1..m : /\ item[pl[j]][1] = section
                           /\ s[j] = <<item[pl[j]][2], item[pl[j]][3]>>
        /\ \A i \in 1..n - 1 : item[i][1] = section => \E j \in 1..m : pl[j] = i
    BY DEF Lists
  <1>2. pl \in Seq(1..n)
    <2>1. \A j \in 1..Len(pl) : pl[j] \in 1..n
      BY <1>1
    <2> QED
      BY <1>1, <2>1
  <1>3. \A i \in 1..n : i = n \/ i \in 1..n - 1
    OBVIOUS
  <1>4. ASSUME item[n][1] # section
        PROVE  Lists(section, s, pl, n)
    BY <1>1, <1>2, <1>3, <1>4 DEF Lists
  <1>5. ASSUME item[n][1] = section
        PROVE  Lists(section, t, ql, n)
    <2> HIDE DEF pair
    <2>1. /\ Len(t) = m + 1 /\ t[m + 1] = pair
          /\ \A j \in 1..m : t[j] = s[j]
      BY <1>1 DEF pair
    <2>2. /\ ql \in Seq(1..n) /\ Len(ql) = m + 1 /\ ql[m + 1] = n
          /\ \A j \in 1..m : ql[j] = pl[j] /\ pl[j] \in 1..n - 1
      BY <1>1, <1>2
    <2> HIDE DEF t, ql, m
    <2>3. \A j \in 1..m + 1 : j = m + 1 \/ j \in 1..m
      BY <1>1
    <2>4. \A j, k \in 1..m + 1 : j < k => ql[j] < ql[k]
      <3> SUFFICES ASSUME NEW j \in 1..m + 1, NEW k \in 1..m + 1, j < k
                   PROVE  ql[j] < ql[k]
        OBVIOUS
      <3>1. j \in 1..m
        BY <1>1
      <3>2. CASE k = m + 1
        BY <2>2, <3>1, <3>2
      <3>3. CASE k \in 1..m
        BY <1>1, <2>2, <3>1, <3>3
      <3> QED
        BY <2>3, <3>2, <3>3
    <2>5. \A j \in 1..m + 1 : /\ item[ql[j]][1] = section
                              /\ t[j] = <<item[ql[j]][2], item[ql[j]][3]>>
      <3> SUFFICES ASSUME NEW j \in 1..m + 1
                   PROVE  /\ item[ql[j]][1] = section
                          /\ t[j] = <<item[ql[j]][2], item[ql[j]][3]>>
        OBVIOUS
      <3>1. CASE j = m + 1
        BY <1>5, <2>1, <2>2, <3>1 DEF pair
      <3>2. CASE j \in 1..m
        BY <1>1, <2>1, <2>2, <3>2
      <3> QED
        BY <2>3, <3>1, <3>2
    <2>6. \A i \in 1..n : item[i][1] = section => \E j \in 1..m + 1 : ql[j] = i
      <3> SUFFICES ASSUME NEW i \in 1..n, item[i][1] = section
                   PROVE  \E j \in 1..m + 1 : ql[j] = i
        OBVIOUS
      <3>1. CASE i = n
        <4>1. m + 1 \in 1..m + 1
          BY <1>1
        <4> QED
          BY <2>2, <3>1, <4>1
      <3>2. CASE i \in 1..n - 1
        <4>1. PICK j \in 1..m : pl[j] = i
          BY <1>1, <3>2
        <4>2. j \in 1..m + 1
          BY <1>1
        <4> QED
          BY <2>2, <4>1, <4>2
      <3> QED
        BY <1>3, <3>1, <3>2
    <2> QED
      BY <2>1, <2>2, <2>4, <2>5, <2>6 DEF Lists
  <1> QED
    BY <1>4, <1>5

LEMMA SettingsForIs ==
    ASSUME item \in Seq(Settings), NEW section
    PROVE  /\ SettingsFor(section) \in Seq(Pairs)
           /\ \E pl : Lists(section, SettingsFor(section), pl, Len(item))
  <1> DEFINE m == Len(item)
             Pair(i) == <<item[i][2], item[i][3]>>
             Taken(s, i) == IF item[i][1] = section THEN Append(s, Pair(i)) ELSE s
             step == [i \in 1..m |-> [s \in Seq(Pairs) |-> Taken(s, i)]]
             IsOwn(f) == f = [i \in 0..m |->
                 IF i = 0 THEN <<>>
                 ELSE IF item[i][1] = section
                 THEN Append(f[i - 1], <<item[i][2], item[i][3]>>)
                 ELSE f[i - 1]]
             g == CHOOSE f : IsOwn(f)
  <1>1. m \in Nat /\ \A i \in 1..m : Pair(i) \in Pairs
    BY SettingTyped
  <1>2. SettingsFor(section) = g[m]
    BY DEF SettingsFor
  <1>3. \A f : IsOwn(f) <=>
            f = [i \in 0..m |-> IF i = 0 THEN <<>> ELSE Taken(f[i - 1], i)]
    OBVIOUS
  <1>4. \A i \in 1..m, s \in Seq(Pairs) : Taken(s, i) \in Seq(Pairs)
    <2> HIDE DEF Pair
    <2> QED
      BY <1>1
  <1> HIDE DEF m, IsOwn, Taken, Pair
  <1>5. step \in [1..m -> [Seq(Pairs) -> Seq(Pairs)]]
    BY <1>4
  <1>6. <<>> \in Seq(Pairs)
    OBVIOUS
  <1> HIDE DEF step
  <1>7. PICK f \in [0..m -> Seq(Pairs)] :
            f[0] = <<>> /\ \A i \in 1..m : f[i] = step[i][f[i - 1]]
    <2>1. HasRecursion(Seq(Pairs), <<>>, m, step)
      BY <1>1, <1>5, <1>6, RecursionExists
    <2> QED
      BY <2>1 DEF HasRecursion
  <1>8. \A i \in 1..m : f[i] = Taken(f[i - 1], i)
    <2> SUFFICES ASSUME NEW i \in 1..m PROVE f[i] = Taken(f[i - 1], i)
      OBVIOUS
    <2>1. f[i - 1] \in Seq(Pairs)
      BY <1>1
    <2> QED
      BY <1>7, <2>1 DEF step
  <1>9. IsOwn(f)
    <2>1. \A i \in 0..m : f[i] = IF i = 0 THEN <<>> ELSE Taken(f[i - 1], i)
      BY <1>1, <1>7, <1>8
    <2>2. f = [i \in 0..m |-> IF i = 0 THEN <<>> ELSE Taken(f[i - 1], i)]
      BY <2>1
    <2> QED
      BY <1>3, <2>2
  <1>10. IsOwn(g)
    BY <1>9
  <1> HIDE DEF g
  <1>11. g = [i \in 0..m |-> IF i = 0 THEN <<>> ELSE Taken(g[i - 1], i)]
    BY <1>3, <1>10
  <1>12. g[0] = <<>> /\ \A i \in 1..m : g[i] = Taken(g[i - 1], i)
    <2>1. 0 \in 0..m /\ \A i \in 1..m : i \in 0..m /\ i # 0
      BY <1>1
    <2> QED
      BY <1>11, <2>1
  <1> DEFINE S == {i \in 0..m : /\ g[i] \in Seq(Pairs)
                                /\ \E pl : Lists(section, g[i], pl, i)}
  <1>13. 0 \in S
    <2>1. Lists(section, <<>>, <<>>, 0)
      BY DEF Lists
    <2>2. g[0] \in Seq(Pairs) /\ \E pl : Lists(section, g[0], pl, 0)
      BY <1>6, <1>12, <2>1
    <2>3. 0 \in 0..m
      BY <1>1
    <2> QED
      BY ONLY <2>2, <2>3
  <1>14. ASSUME NEW i \in 1..m, i - 1 \in S PROVE i \in S
    <2>1. /\ i \in Nat \ {0} /\ i \in 0..m /\ g[i - 1] \in Seq(Pairs)
          /\ Pair(i) \in Pairs
      BY <1>1, <1>14
    <2>2. PICK pl : Lists(section, g[i - 1], pl, i - 1)
      BY <1>14
    <2>3. g[i] = Taken(g[i - 1], i) /\ Taken(g[i - 1], i) \in Seq(Pairs)
      BY <1>4, <1>12, <2>1
    <2>4. /\ item[i][1] # section => Lists(section, g[i - 1], pl, i)
          /\ item[i][1] = section =>
                Lists(section, Append(g[i - 1], Pair(i)), Append(pl, i), i)
      BY <2>1, <2>2, ListsNext DEF Pair
    <2>5. \E ql : Lists(section, g[i], ql, i)
      BY <2>3, <2>4 DEF Taken
    <2> QED
      BY <2>1, <2>3, <2>5
  <1> HIDE DEF S
  <1>15. 0..m \subseteq S
    BY <1>1, <1>13, <1>14, BoundedInduction
  <1>16. m \in S
    BY <1>1, <1>15
  <1> QED
    BY <1>2, <1>16 DEF S, m

\* Where a list of settings gives a key.
At(s, k) == {j \in 1..Len(s) : s[j][1] = k}

\* A section's list gives a key where the command line gives it for the
\* section, with the same first and the same last value.
LEMMA SettingsForGive ==
    ASSUME item \in Seq(Settings), NEW section, NEW k
    PROVE  LET s == SettingsFor(section)
               A == At(s, k)
               G == Given(section, k)
           IN /\ A = {} <=> G = {}
              /\ A # {} => /\ s[Max(A)][2] = item[Max(G)][3]
                           /\ s[Min(A)][2] = item[Min(G)][3]
  <1> DEFINE s == SettingsFor(section)
             A == At(s, k)
             G == Given(section, k)
             m == Len(s)
             n == Len(item)
  <1>1. s \in Seq(Pairs)
    BY SettingsForIs
  <1>2. PICK pl : Lists(section, s, pl, n)
    BY SettingsForIs
  <1> HIDE DEF s
  <1>3. m \in Nat /\ n \in Nat /\ DOMAIN item = 1..n
    BY <1>1
  <1>4. /\ \A j \in 1..m : pl[j] \in 1..n
        /\ \A i, j \in 1..m : i < j => pl[i] < pl[j]
        /\ \A j \in 1..m : /\ item[pl[j]][1] = section
                           /\ s[j] = <<item[pl[j]][2], item[pl[j]][3]>>
        /\ \A i \in 1..n : item[i][1] = section => \E j \in 1..m : pl[j] = i
    BY <1>2 DEF Lists
  <1> HIDE DEF m, n
  <1>5. A = {j \in 1..m : s[j][1] = k}
    BY DEF At, m
  <1>6. G = {i \in 1..n : item[i][1] = section /\ item[i][2] = k}
    BY <1>3 DEF Given
  <1> HIDE DEF A, G
  <1>7. ASSUME NEW j \in A PROVE pl[j] \in G /\ s[j][2] = item[pl[j]][3]
    BY <1>4, <1>5, <1>6
  <1>8. ASSUME NEW i \in G PROVE \E j \in A : pl[j] = i
    BY <1>4, <1>5, <1>6
  <1>9. A \in SUBSET (0..m) /\ A \in SUBSET Nat /\ G \in SUBSET (0..n) /\ G \in SUBSET Nat
    BY <1>3, <1>5, <1>6
  <1>10. A = {} <=> G = {}
    BY <1>7, <1>8
  <1>11. ASSUME A # {} PROVE s[Max(A)][2] = item[Max(G)][3]
    <2> DEFINE x == Max(A)
               y == Max(G)
    <2>1. x \in A /\ \A j \in A : j <= x
      BY <1>3, <1>9, <1>11, MaxIsGreatest
    <2>2. y \in G /\ \A i \in G : i <= y
      BY <1>3, <1>9, <1>10, <1>11, MaxIsGreatest
    <2> HIDE DEF x, y
    <2>3. PICK j \in A : pl[j] = y
      BY <1>8, <2>2
    <2>4. pl[x] \in G /\ s[x][2] = item[pl[x]][3]
      BY <1>7, <2>1
    <2>5. pl[x] <= y /\ j <= x
      BY <2>1, <2>2, <2>3, <2>4
    <2>6. j = x
      <3>1. j \in 1..m /\ x \in 1..m /\ (j < x => pl[j] < pl[x])
        BY <1>4, <1>5, <2>1
      <3>2. y \in Nat /\ pl[x] \in Nat
        BY <1>9, <2>2, <2>4
      <3> QED
        BY <1>3, <2>3, <2>5, <3>1, <3>2
    <2> QED
      BY <2>3, <2>4, <2>6 DEF x, y
  <1>12. ASSUME A # {} PROVE s[Min(A)][2] = item[Min(G)][3]
    <2> DEFINE x == Min(A)
               y == Min(G)
    <2>1. x \in A /\ \A j \in A : x <= j
      BY <1>9, <1>12, MinIsLeast
    <2>2. y \in G /\ \A i \in G : y <= i
      BY <1>9, <1>10, <1>12, MinIsLeast
    <2> HIDE DEF x, y
    <2>3. PICK j \in A : pl[j] = y
      BY <1>8, <2>2
    <2>4. pl[x] \in G /\ s[x][2] = item[pl[x]][3]
      BY <1>7, <2>1
    <2>5. y <= pl[x] /\ x <= j
      BY <2>1, <2>2, <2>3, <2>4
    <2>6. j = x
      <3>1. j \in 1..m /\ x \in 1..m /\ (x < j => pl[x] < pl[j])
        BY <1>4, <1>5, <2>1
      <3>2. y \in Nat /\ pl[x] \in Nat
        BY <1>9, <2>2, <2>4
      <3> QED
        BY <1>3, <2>3, <2>5, <3>1, <3>2
    <2> QED
      BY <2>3, <2>4, <2>6 DEF x, y
  <1> QED
    BY <1>10, <1>11, <1>12 DEF A, G, s

-----------------------------------------------------------------------------
(* The configuration of a backend *)

\* The functions of some keys.
Configs == UNION {[K -> Values] : K \in SUBSET Keys}

LEMMA OverrideIs ==
    ASSUME NEW config \in Configs, NEW setting \in Pairs
    PROVE  /\ Override(config, setting) \in Configs
           /\ DOMAIN Override(config, setting) = DOMAIN config \cup {setting[1]}
           /\ Override(config, setting)[setting[1]] = setting[2]
           /\ \A k \in DOMAIN config :
                 k # setting[1] => Override(config, setting)[k] = config[k]
  <1>1. PICK K \in SUBSET Keys : config \in [K -> Values]
    BY DEF Configs
  <1>2. setting[1] \in Keys /\ setting[2] \in Values
    BY DEF Pairs
  <1>3. Override(config, setting) \in [K \cup {setting[1]} -> Values]
    BY <1>1, <1>2 DEF Override
  <1>4. Override(config, setting) \in Configs
    BY <1>2, <1>3 DEF Configs
  <1>5. /\ DOMAIN Override(config, setting) = DOMAIN config \cup {setting[1]}
        /\ Override(config, setting)[setting[1]] = setting[2]
        /\ \A k \in DOMAIN config :
              k # setting[1] => Override(config, setting)[k] = config[k]
    BY DEF Override
  <1> QED
    BY <1>4, <1>5

\* config has the keys of the first n settings, each with its last value.
Accumulated(config, s, n) ==
    /\ config \in Configs
    /\ \A k : k \in DOMAIN config <=> \E j \in 1..n : s[j][1] = k
    /\ \A j \in 1..n :
          (\A i \in j + 1..n : s[i][1] # s[j][1]) => config[s[j][1]] = s[j][2]

LEMMA AccumulatedNext ==
    ASSUME NEW s, NEW n \in Nat \ {0}, NEW config, Accumulated(config, s, n - 1),
           s[n] \in Pairs
    PROVE  Accumulated(Override(config, s[n]), s, n)
  <1> DEFINE next == Override(config, s[n])
  <1>1. /\ config \in Configs
        /\ \A k : k \in DOMAIN config <=> \E j \in 1..n - 1 : s[j][1] = k
        /\ \A j \in 1..n - 1 : (\A i \in j + 1..n - 1 : s[i][1] # s[j][1])
                                  => config[s[j][1]] = s[j][2]
    BY DEF Accumulated
  <1>2. /\ next \in Configs
        /\ DOMAIN next = DOMAIN config \cup {s[n][1]}
        /\ next[s[n][1]] = s[n][2]
        /\ \A k \in DOMAIN config : k # s[n][1] => next[k] = config[k]
    BY <1>1, OverrideIs
  <1> HIDE DEF next
  <1>3. /\ n \in 1..n /\ \A j \in 1..n - 1 : j \in 1..n
        /\ \A j \in 1..n : j = n \/ j \in 1..n - 1
    OBVIOUS
  <1>4. \A k : k \in DOMAIN next <=> \E j \in 1..n : s[j][1] = k
    BY <1>1, <1>2, <1>3
  <1>5. ASSUME NEW j \in 1..n, \A i \in j + 1..n : s[i][1] # s[j][1]
        PROVE  next[s[j][1]] = s[j][2]
    <2>1. CASE j = n
      BY <1>2, <2>1
    <2>2. CASE j \in 1..n - 1
      <3>1. n \in j + 1..n /\ \A i \in j + 1..n - 1 : i \in j + 1..n
        BY <2>2
      <3>2. s[n][1] # s[j][1] /\ \A i \in j + 1..n - 1 : s[i][1] # s[j][1]
        BY <1>5, <3>1
      <3>3. config[s[j][1]] = s[j][2] /\ s[j][1] \in DOMAIN config
        BY <1>1, <2>2, <3>2
      <3> QED
        BY <1>2, <3>2, <3>3
    <2> QED
      BY <1>3, <2>1, <2>2
  <1> QED
    BY <1>2, <1>4, <1>5 DEF Accumulated, next

LEMMA AccumulateIs ==
    ASSUME NEW s \in Seq(Pairs)
    PROVE  Accumulated(Accumulate(s), s, Len(s))
  <1> DEFINE m == Len(s)
             empty == [k \in {} |-> ""]
             step == [i \in 1..m |-> [c \in Configs |-> Override(c, s[i])]]
             IsConfig(f) == f = [i \in 0..m |->
                 IF i = 0 THEN empty ELSE Override(f[i - 1], s[i])]
             g == CHOOSE f : IsConfig(f)
  <1>1. m \in Nat /\ \A i \in 1..m : s[i] \in Pairs
    OBVIOUS
  <1>2. Accumulate(s) = g[m]
    BY DEF Accumulate
  <1>3. empty \in Configs /\ DOMAIN empty = {}
    <2>1. {} \in SUBSET Keys /\ empty \in [{} -> Values]
      OBVIOUS
    <2> HIDE DEF empty
    <2> QED
      BY <2>1 DEF Configs
  <1> HIDE DEF m, empty
  <1>4. step \in [1..m -> [Configs -> Configs]]
    BY <1>1, OverrideIs
  <1> HIDE DEF step
  <1>5. PICK f \in [0..m -> Configs] :
            f[0] = empty /\ \A i \in 1..m : f[i] = step[i][f[i - 1]]
    <2>1. HasRecursion(Configs, empty, m, step)
      BY <1>1, <1>3, <1>4, RecursionExists
    <2> QED
      BY <2>1 DEF HasRecursion
  <1>6. \A i \in 1..m : f[i] = Override(f[i - 1], s[i])
    <2> SUFFICES ASSUME NEW i \in 1..m PROVE f[i] = Override(f[i - 1], s[i])
      OBVIOUS
    <2>1. f[i - 1] \in Configs
      BY <1>1
    <2> QED
      BY <1>5, <2>1 DEF step
  <1>7. IsConfig(f)
    <2>1. \A i \in 0..m : f[i] = IF i = 0 THEN empty ELSE Override(f[i - 1], s[i])
      BY <1>1, <1>5, <1>6
    <2> QED
      BY <2>1
  <1>8. IsConfig(g)
    BY <1>7
  <1> HIDE DEF g
  <1>9. g[0] = empty /\ \A i \in 1..m : g[i] = Override(g[i - 1], s[i])
    <2>1. 0 \in 0..m /\ \A i \in 1..m : i \in 0..m /\ i # 0
      BY <1>1
    <2> QED
      BY <1>8, <2>1
  <1> DEFINE S == {i \in 0..m : Accumulated(g[i], s, i)}
  <1>10. 0 \in S
    <2>1. Accumulated(g[0], s, 0)
      BY <1>3, <1>9 DEF Accumulated
    <2>2. 0 \in 0..m
      BY <1>1
    <2> QED
      BY <2>1, <2>2
  <1>11. ASSUME NEW i \in 1..m, i - 1 \in S PROVE i \in S
    <2>1. i \in Nat \ {0} /\ i \in 0..m /\ s[i] \in Pairs
      BY <1>1
    <2>2. Accumulated(g[i - 1], s, i - 1)
      BY <1>11
    <2>3. Accumulated(g[i], s, i)
      BY <1>9, <2>1, <2>2, AccumulatedNext
    <2> QED
      BY <2>1, <2>3
  <1> HIDE DEF S
  <1>12. 0..m \subseteq S
    BY <1>1, <1>10, <1>11, BoundedInduction
  <1>13. m \in S
    BY <1>1, <1>12
  <1> QED
    BY <1>2, <1>13 DEF S, m

LEMMA SectionIs ==
    ASSUME item \in Seq(Settings), NEW section
    PROVE  Section(CommandLine, section) = SettingsFor(section)
  <1>1. CASE section \in {item[i][1] : i \in DOMAIN item}
    BY <1>1 DEF Section, CommandLine
  <1>2. CASE section \notin {item[i][1] : i \in DOMAIN item}
    <2>1. Section(CommandLine, section) = <<>>
      BY <1>2 DEF Section, CommandLine
    <2>2. PICK pl : Lists(section, SettingsFor(section), pl, Len(item))
      BY SettingsForIs
    <2>3. SettingsFor(section) \in Seq(Pairs)
      BY SettingsForIs
    <2>4. \A j \in 1..Len(SettingsFor(section)) :
              pl[j] \in DOMAIN item /\ item[pl[j]][1] = section
      BY <2>2, <2>3 DEF Lists
    <2>5. Len(SettingsFor(section)) = 0
      BY <1>2, <2>3, <2>4
    <2> QED
      BY <2>1, <2>3, <2>5
  <1> QED
    BY <1>1, <1>2

\* What the program looks up itself is the first global value.
LEMMA GlobalSettingIs ==
    ASSUME item \in Seq(Settings), NEW k
    PROVE  GlobalSetting(CommandLine, k) =
               IF Given("", k) # {} THEN item[Min(Given("", k))][3] ELSE Missing
  <1> DEFINE s == SettingsFor("")
  <1>1. GlobalSetting(CommandLine, k) = BackendConfiguration(s, k)
    BY SectionIs DEF GlobalSetting
  <1>2. s \in Seq(Pairs)
    BY SettingsForIs
  <1>3. /\ At(s, k) = {} <=> Given("", k) = {}
        /\ At(s, k) # {} => s[Min(At(s, k))][2] = item[Min(Given("", k))][3]
    BY SettingsForGive
  <1> HIDE DEF s
  <1>4. BackendConfiguration(s, k) =
            IF At(s, k) = {} THEN Missing ELSE s[Min(At(s, k))][2]
    <2>1. {i \in DOMAIN s : s[i][1] = k} = At(s, k)
      BY <1>2 DEF At
    <2> QED
      BY <2>1 DEF BackendConfiguration
  <1> QED
    BY <1>1, <1>3, <1>4

\* The last value of a key in a list of settings is the one accumulated.
LEMMA LastWins ==
    ASSUME NEW s \in Seq(Pairs), NEW t \in Seq(Pairs), NEW config, NEW k,
           Accumulated(config, s \o t, Len(s \o t))
    PROVE  /\ k \in DOMAIN config <=> At(s, k) # {} \/ At(t, k) # {}
           /\ At(t, k) # {} => config[k] = t[Max(At(t, k))][2]
           /\ At(t, k) = {} /\ At(s, k) # {} => config[k] = s[Max(At(s, k))][2]
  <1> DEFINE l == Len(s)
             m == Len(t)
             w == s \o t
             A == At(s, k)
             B == At(t, k)
  <1>1. /\ l \in Nat /\ m \in Nat /\ Len(w) = l + m
        /\ \A j \in 1..l : w[j] = s[j]
        /\ \A j \in 1..m : w[l + j] = t[j]
    OBVIOUS
  <1>2. A = {j \in 1..l : s[j][1] = k} /\ B = {j \in 1..m : t[j][1] = k}
    BY DEF At
  <1>3. /\ \A x : x \in DOMAIN config <=> \E j \in 1..l + m : w[j][1] = x
        /\ \A j \in 1..l + m :
              (\A i \in j + 1..l + m : w[i][1] # w[j][1]) => config[w[j][1]] = w[j][2]
    BY <1>1 DEF Accumulated
  <1> HIDE DEF l, m, w, A, B
  <1>4. /\ \A j \in 1..l : j \in 1..l + m
        /\ \A j \in 1..m : l + j \in 1..l + m
        /\ \A j \in 1..l + m : j \in 1..l \/ (j - l \in 1..m /\ l + (j - l) = j)
    BY <1>1
  <1>5. k \in DOMAIN config <=> A # {} \/ B # {}
    <2>1. ASSUME k \in DOMAIN config PROVE A # {} \/ B # {}
      <3>1. PICK j \in 1..l + m : w[j][1] = k
        BY <1>3, <2>1
      <3>2. CASE j \in 1..l
        BY <1>1, <1>2, <3>1, <3>2
      <3>3. CASE j - l \in 1..m /\ l + (j - l) = j
        <4>1. t[j - l] = w[j]
          BY <1>1, <3>3
        <4> QED
          BY <1>2, <3>1, <3>3, <4>1
      <3> QED
        BY <1>4, <3>2, <3>3
    <2>2. ASSUME A # {} PROVE k \in DOMAIN config
      BY <1>1, <1>2, <1>3, <1>4, <2>2
    <2>3. ASSUME B # {} PROVE k \in DOMAIN config
      BY <1>1, <1>2, <1>3, <1>4, <2>3
    <2> QED
      BY <2>1, <2>2, <2>3
  <1>6. ASSUME B # {} PROVE config[k] = t[Max(B)][2]
    <2> DEFINE x == Max(B)
    <2>1. B \in SUBSET (0..m)
      BY <1>1, <1>2
    <2>2. x \in B /\ \A j \in B : j <= x
      BY <1>1, <1>6, <2>1, MaxIsGreatest
    <2> HIDE DEF x
    <2>3. x \in 1..m /\ t[x][1] = k
      BY <1>2, <2>2
    <2>4. l + x \in 1..l + m /\ w[l + x] = t[x]
      BY <1>1, <1>4, <2>3
    <2>5. \A i \in l + x + 1..l + m : w[i][1] # k
      <3> SUFFICES ASSUME NEW i \in l + x + 1..l + m, w[i][1] = k PROVE FALSE
        OBVIOUS
      <3>1. i - l \in 1..m /\ l + (i - l) = i /\ i - l > x
        BY <1>1, <2>3
      <3>2. t[i - l] = w[i]
        BY <1>1, <3>1
      <3>3. i - l \in B
        BY <1>2, <3>1, <3>2
      <3> QED
        BY <1>1, <2>2, <2>3, <3>1, <3>3
    <2>6. config[w[l + x][1]] = w[l + x][2]
      BY <1>3, <2>3, <2>4, <2>5
    <2> QED
      BY <2>3, <2>4, <2>6 DEF x
  <1>7. ASSUME B = {}, A # {} PROVE config[k] = s[Max(A)][2]
    <2> DEFINE x == Max(A)
    <2>1. A \in SUBSET (0..l)
      BY <1>1, <1>2
    <2>2. x \in A /\ \A j \in A : j <= x
      BY <1>1, <1>7, <2>1, MaxIsGreatest
    <2> HIDE DEF x
    <2>3. x \in 1..l /\ s[x][1] = k
      BY <1>2, <2>2
    <2>4. x \in 1..l + m /\ w[x] = s[x]
      BY <1>1, <1>4, <2>3
    <2>5. \A i \in x + 1..l + m : w[i][1] # k
      <3> SUFFICES ASSUME NEW i \in x + 1..l + m, w[i][1] = k PROVE FALSE
        OBVIOUS
      <3>1. i \in 1..l + m
        BY <1>1, <2>3
      <3>2. CASE i \in 1..l
        <4>1. i \in A
          BY <1>1, <1>2, <3>2
        <4> QED
          BY <1>1, <2>2, <2>3, <4>1
      <3>3. CASE i - l \in 1..m /\ l + (i - l) = i
        <4>1. t[i - l] = w[i]
          BY <1>1, <3>3
        <4> QED
          BY <1>2, <1>7, <3>3, <4>1
      <3> QED
        BY <1>4, <3>1, <3>2, <3>3
    <2>6. config[w[x][1]] = w[x][2]
      BY <1>3, <2>3, <2>4, <2>5
    <2> QED
      BY <2>3, <2>4, <2>6 DEF x
  <1> QED
    BY <1>5, <1>6, <1>7 DEF A, B

\* What SettingsResolved says of one backend.
LEMMA ResolvedFor ==
    ASSUME item \in Seq(Settings), NEW name
    PROVE  LET config == SetBackendConfigDefaults(
                             ResolveBackendConfigs(CommandLine, name))
               keys   == {item[i][2] : i \in {j \in DOMAIN item :
                                                item[j][1] \in {"", name}}}
           IN /\ DOMAIN config = keys \cup {"default-max-batch-size"}
              /\ \A k \in DOMAIN config :
                    config[k] = IF Given(name, k) # {} THEN item[Max(Given(name, k))][3]
                                ELSE IF Given("", k) # {} THEN item[Max(Given("", k))][3]
                                ELSE "4"
  <1> DEFINE max == "default-max-batch-size"
             s == SettingsFor("")
             t == SettingsFor(name)
             base == Accumulate(s \o t)
             config == SetBackendConfigDefaults(base)
             keys == {item[i][2] : i \in {j \in DOMAIN item :
                                            item[j][1] \in {"", name}}}
             Value(k) == IF Given(name, k) # {} THEN item[Max(Given(name, k))][3]
                         ELSE IF Given("", k) # {} THEN item[Max(Given("", k))][3]
                         ELSE "4"
  <1>1. ResolveBackendConfigs(CommandLine, name) = base
    <2>1. Section(CommandLine, "") = s /\ Section(CommandLine, name) = t
      BY SectionIs
    <2> QED
      BY <2>1 DEF ResolveBackendConfigs
  <1>2. s \in Seq(Pairs) /\ t \in Seq(Pairs) /\ s \o t \in Seq(Pairs)
    <2>1. s \in Seq(Pairs) /\ t \in Seq(Pairs)
      BY SettingsForIs
    <2> QED
      BY ONLY <2>1, ConcatProperties
  <1>3. Accumulated(base, s \o t, Len(s \o t))
    BY <1>2, AccumulateIs
  <1>4. base \in Configs
    BY <1>3 DEF Accumulated
  <1>5. \A k : /\ At(s, k) = {} <=> Given("", k) = {}
               /\ At(s, k) # {} => s[Max(At(s, k))][2] = item[Max(Given("", k))][3]
               /\ At(t, k) = {} <=> Given(name, k) = {}
               /\ At(t, k) # {} => t[Max(At(t, k))][2] = item[Max(Given(name, k))][3]
    BY SettingsForGive
  <1> HIDE DEF s, t, base
  <1>6. \A k : /\ k \in DOMAIN base <=> At(s, k) # {} \/ At(t, k) # {}
               /\ At(t, k) # {} => base[k] = t[Max(At(t, k))][2]
               /\ At(t, k) = {} /\ At(s, k) # {} => base[k] = s[Max(At(s, k))][2]
    BY <1>2, <1>3, LastWins
  <1>7. \A k : k \in DOMAIN base <=> Given("", k) # {} \/ Given(name, k) # {}
    BY <1>5, <1>6
  <1>8. \A k \in DOMAIN base : base[k] = Value(k)
    BY <1>5, <1>6, <1>7
  <1>9. DOMAIN base = keys
    <2>1. ASSUME NEW k
          PROVE  k \in keys <=> Given("", k) # {} \/ Given(name, k) # {}
      BY DEF Given
    <2> HIDE DEF keys
    <2> QED
      BY <1>7, <2>1
  <1>10. ASSUME NEW k, k \notin DOMAIN base PROVE Value(k) = "4"
    BY <1>7, <1>10
  <1> HIDE DEF Value, keys
  <1>11. CASE max \in DOMAIN base
    <2>1. config = base
      BY <1>11 DEF SetBackendConfigDefaults
    <2> HIDE DEF config
    <2>2. DOMAIN config = keys \cup {max} /\ \A k \in DOMAIN config : config[k] = Value(k)
      BY <1>8, <1>9, <1>11, <2>1
    <2> QED
      BY <1>1, <2>2 DEF config, Value, keys
  <1>12. CASE max \notin DOMAIN base
    <2> DEFINE setting == <<max, "4">>
    <2>1. config = Override(base, setting)
      BY <1>12 DEF SetBackendConfigDefaults
    <2>2. setting \in Pairs /\ setting[1] = max /\ setting[2] = "4"
      <3>1. max \in Keys /\ "4" \in Values
        BY DEF Keys, Values
      <3> HIDE DEF max
      <3> QED
        BY <3>1 DEF Pairs
    <2> HIDE DEF config, setting
    <2>3. /\ DOMAIN config = DOMAIN base \cup {max}
          /\ config[max] = "4"
          /\ \A k \in DOMAIN base : k # max => config[k] = base[k]
      BY <1>4, <2>1, <2>2, OverrideIs
    <2>4. Value(max) = "4"
      BY <1>10, <1>12
    <2>5. DOMAIN config = keys \cup {max} /\ \A k \in DOMAIN config : config[k] = Value(k)
      BY <1>8, <1>9, <1>12, <2>3, <2>4
    <2> QED
      BY <1>1, <2>5 DEF config, Value, keys
  <1> QED
    BY <1>11, <1>12

\* A backend's configuration has each key once, with the last value given for
\* the backend, else the last given globally, else the default; what the
\* program looks up itself is the first global value (backend_model.cc:153,
\* 183; backend_config.cc:33).
THEOREM SettingsAreResolved == Spec => []SettingsResolved
  <1>1. ArgumentsTyped => SettingsResolved
    <2> SUFFICES ASSUME ArgumentsTyped, sort = "settings" PROVE SettingsResolved
      BY DEF SettingsResolved
    <2>1. item \in Seq(Settings)
      BY DEF ArgumentsTyped
    <2> QED
      BY <2>1, ResolvedFor, GlobalSettingIs DEF SettingsResolved
  <1> QED
    BY <1>1, TypeCorrect, PTL
=============================================================================
