------------------------ MODULE InstanceGroupProofs ------------------------
(***************************************************************************)
(* What completing and validating instance groups promises, for every      *)
(* configuration, every list of preferred groups and every set of GPUs.    *)
(***************************************************************************)
EXTENDS InstanceGroup, NatRecursion

-----------------------------------------------------------------------------
(* The GPUs of a list that are supported *)

\* The lists built from longer and longer beginnings of list.
IsKept(kept, list, supported, m) ==
    kept = [n \in 0..m |->
              IF n = 0 THEN <<>>
              ELSE IF list[n] \in supported THEN Append(kept[n - 1], list[n])
              ELSE kept[n - 1]]

LEMMA KeptExists ==
    ASSUME NEW supported, NEW list, NEW m \in Nat
    PROVE  \E kept : IsKept(kept, list, supported, m)
<1> DEFINE S == {n \in Nat : \E kept : IsKept(kept, list, supported, n)}
<1>1. 0 \in S
  <2>1. IsKept([n \in 0..0 |-> <<>>], list, supported, 0)
    BY DEF IsKept
  <2> QED
    BY <2>1
<1>2. ASSUME NEW n \in Nat, n \in S
      PROVE  n + 1 \in S
  <2>1. PICK kept : IsKept(kept, list, supported, n)
    BY <1>2
  <2> DEFINE last == IF list[n + 1] \in supported
                     THEN Append(kept[n], list[n + 1]) ELSE kept[n]
             more == [k \in 0..n + 1 |-> IF k = n + 1 THEN last ELSE kept[k]]
  <2>2. ASSUME NEW k \in 0..n + 1
        PROVE  more[k] = IF k = 0 THEN <<>>
                         ELSE IF list[k] \in supported
                              THEN Append(more[k - 1], list[k]) ELSE more[k - 1]
    <3>1. CASE k = 0
      BY <3>1, <2>1 DEF IsKept
    <3>2. CASE k = n + 1
      <4>1. more[k] = last /\ more[k - 1] = kept[n]
        BY <3>2
      <4>2. k # 0 /\ last = IF list[k] \in supported
                            THEN Append(kept[n], list[k]) ELSE kept[n]
        BY <3>2
      <4> HIDE DEF last, more
      <4> QED
        BY <4>1, <4>2
    <3>3. CASE k \in 1..n
      <4>1. more[k] = kept[k] /\ more[k - 1] = kept[k - 1]
        BY <3>3
      <4>2. k \in 0..n /\ k # 0
        BY <3>3
      <4>3. kept[k] = IF k = 0 THEN <<>>
                      ELSE IF list[k] \in supported
                           THEN Append(kept[k - 1], list[k]) ELSE kept[k - 1]
        BY <2>1, <4>2 DEF IsKept
      <4> HIDE DEF last, more
      <4> QED
        BY <4>1, <4>2, <4>3
    <3> QED
      BY <3>1, <3>2, <3>3
  <2>3. IsKept(more, list, supported, n + 1)
    BY <2>2 DEF IsKept
  <2> QED
    BY <2>3
<1> HIDE DEF S
<1>3. Nat \subseteq S
  BY <1>1, <1>2, SetInduction
<1> QED
  BY <1>3 DEF S

LEMMA SupportedIsKept ==
    ASSUME NEW supported, NEW list \in Seq(Int)
    PROVE  \E kept : /\ IsKept(kept, list, supported, Len(list))
                     /\ Supported(list, supported) = kept[Len(list)]
<1>1. Len(list) \in Nat
  OBVIOUS
<1>2. \E kept : IsKept(kept, list, supported, Len(list))
  BY <1>1, KeptExists
<1> QED
  BY <1>2 DEF Supported, IsKept

LEMMA RangeOfAppend ==
    ASSUME NEW s \in Seq(Int), NEW x \in Int
    PROVE  Append(s, x) \in Seq(Int) /\ Range(Append(s, x)) = Range(s) \cup {x}
<1>1. /\ Append(s, x) \in Seq(Int)
      /\ DOMAIN Append(s, x) = 1..Len(s) + 1
      /\ DOMAIN s = 1..Len(s)
      /\ Len(s) \in Nat
  OBVIOUS
<1>2. /\ \A i \in 1..Len(s) : Append(s, x)[i] = s[i]
      /\ Append(s, x)[Len(s) + 1] = x
  OBVIOUS
<1> QED
  BY <1>1, <1>2 DEF Range

\* The supported GPUs of a list are those of its elements that are supported.
LEMMA SupportedFacts ==
    ASSUME NEW supported, NEW list \in Seq(Int)
    PROVE  /\ Supported(list, supported) \in Seq(Int)
           /\ Range(Supported(list, supported)) = Range(list) \cap supported
<1>1. PICK kept : /\ IsKept(kept, list, supported, Len(list))
                  /\ Supported(list, supported) = kept[Len(list)]
  BY SupportedIsKept
<1> DEFINE Part(n) == {list[i] : i \in 1..n} \cap supported
           S == {n \in Nat : n <= Len(list) =>
                    kept[n] \in Seq(Int) /\ Range(kept[n]) = Part(n)}
<1>2. Len(list) \in Nat /\ DOMAIN list = 1..Len(list)
  OBVIOUS
<1>3. 0 \in S
  <2>1. kept[0] = <<>>
    BY <1>1, <1>2 DEF IsKept
  <2>2. kept[0] \in Seq(Int) /\ Range(kept[0]) = {}
    BY <2>1 DEF Range
  <2>3. Part(0) = {}
    OBVIOUS
  <2> QED
    BY <2>2, <2>3
<1>4. ASSUME NEW n \in Nat, n \in S
      PROVE  n + 1 \in S
  <2> SUFFICES ASSUME n + 1 <= Len(list)
               PROVE  /\ kept[n + 1] \in Seq(Int)
                      /\ Range(kept[n + 1]) = Part(n + 1)
    OBVIOUS
  <2>1. kept[n] \in Seq(Int) /\ Range(kept[n]) = Part(n)
    <3>1. n <= Len(list)
      BY <1>4
    <3> QED
      BY <1>4, <3>1
  <2>2. kept[n + 1] = IF list[n + 1] \in supported
                      THEN Append(kept[n], list[n + 1]) ELSE kept[n]
    <3>1. n + 1 \in 0..Len(list) /\ n + 1 # 0 /\ (n + 1) - 1 = n
      BY <1>2
    <3>2. kept[n + 1] = IF list[n + 1] \in supported
                        THEN Append(kept[(n + 1) - 1], list[n + 1])
                        ELSE kept[(n + 1) - 1]
      BY <1>1, <3>1 DEF IsKept
    <3> QED
      BY <3>1, <3>2
  <2>3. list[n + 1] \in Int
    BY <1>2
  <2>4. {list[i] : i \in 1..n + 1} = {list[i] : i \in 1..n} \cup {list[n + 1]}
    OBVIOUS
  <2>5. CASE list[n + 1] \in supported
    <3>1. Range(kept[n + 1]) = Range(kept[n]) \cup {list[n + 1]}
      BY <2>1, <2>2, <2>3, <2>5, RangeOfAppend
    <3>2. kept[n + 1] \in Seq(Int)
      BY <2>1, <2>2, <2>3, <2>5, RangeOfAppend
    <3> QED
      BY <2>1, <2>4, <2>5, <3>1, <3>2
  <2>6. CASE list[n + 1] \notin supported
    BY <2>1, <2>2, <2>4, <2>6
  <2> QED
    BY <2>5, <2>6
<1> HIDE DEF S
<1>5. Nat \subseteq S
  BY <1>3, <1>4, SetInduction
<1>6. kept[Len(list)] \in Seq(Int) /\ Range(kept[Len(list)]) = Part(Len(list))
  <2>1. Len(list) \in S
    BY <1>2, <1>5
  <2> QED
    BY <1>2, <2>1 DEF S
<1>7. Part(Len(list)) = Range(list) \cap supported
  BY <1>2 DEF Range
<1> QED
  BY <1>1, <1>6, <1>7

LEMMA RangeEmpty ==
    ASSUME NEW s \in Seq(Int)
    PROVE  s = <<>> <=> Range(s) = {}
<1>1. DOMAIN s = 1..Len(s) /\ Len(s) \in Nat
  OBVIOUS
<1>2. s # <<>> => Len(s) >= 1
  OBVIOUS
<1>3. s # <<>> => s[1] \in Range(s)
  BY <1>1, <1>2 DEF Range
<1>4. s = <<>> => Range(s) = {}
  BY DEF Range
<1> QED
  BY <1>3, <1>4

-----------------------------------------------------------------------------
(* The order of a set of GPUs *)

LEMMA InOrderFacts ==
    ASSUME NEW S \in SUBSET Nat, IsFiniteSet(S)
    PROVE  InOrder(S) \in Seq(Int) /\ Range(InOrder(S)) = S
<1> DEFINE n == Cardinality(S)
           s == InOrder(S)
<1>1. n \in Nat
  BY FS_CardinalityType
<1>2. \E t \in [1..n -> S] : \A i, j \in 1..n : i < j => t[i] < t[j]
  BY IncreasingExists DEF Increasing
<1>3. s \in [1..n -> S] /\ Increasing(s, n)
  BY <1>2 DEF InOrder, Increasing
<1> HIDE DEF s
<1>4. \A x \in S : \E i \in 1..n : s[i] = x
  BY <1>3, IncreasingIsOnto
<1>5. Range(s) = S
  BY <1>3, <1>4 DEF Range
<1> HIDE DEF n
<1>6. s \in [1..n -> Int]
  <2>1. \A i \in 1..n : s[i] \in Nat
    BY <1>3
  <2> QED
    BY <1>3, <2>1
<1>7. s \in Seq(Int)
  BY <1>1, <1>6
<1> QED
  BY <1>5, <1>7 DEF s

-----------------------------------------------------------------------------
(* The loop over the preferred groups *)

Groups(names) == [name : names, kind : Kinds, count : Int, gpus : Seq(Int)]

\* pg offers GPUs of this machine.
Offers(pg, supported) ==
    pg.kind = "KIND_GPU" /\ Range(pg.gpus) \cap supported # {}

\* The first m preferred groups that do.
OfferingTo(pgs, supported, m) == {j \in 1..m : Offers(pgs[j], supported)}

\* Preferred group j has a count for a group of the kind that lists gpus.
Gives(kind, gpus, pgs, supported, j) ==
    /\ pgs[j].kind = kind
    /\ pgs[j].count > 0
    /\ \/ kind # "KIND_GPU"
       \/ gpus # <<>>
       \/ pgs[j].gpus = <<>>
       \/ \E k \in 1..j : Offers(pgs[k], supported)

GivingTo(kind, gpus, pgs, supported, m) ==
    {j \in 1..m : Gives(kind, gpus, pgs, supported, j)}

LEMMA OffersSupported ==
    ASSUME NEW supported, NEW pg \in Group, pg.kind = "KIND_GPU"
    PROVE  Offers(pg, supported) <=> Supported(pg.gpus, supported) # <<>>
<1>1. pg.gpus \in Seq(Int)
  BY DEF Group
<1>2. /\ Supported(pg.gpus, supported) \in Seq(Int)
      /\ Range(Supported(pg.gpus, supported)) = Range(pg.gpus) \cap supported
  BY <1>1, SupportedFacts
<1>3. Supported(pg.gpus, supported) = <<>> <=> Range(pg.gpus) \cap supported = {}
  BY <1>2, RangeEmpty
<1> QED
  BY <1>3 DEF Offers

\* One turn of the loop, field by field.
LEMMA ApplyFacts ==
    ASSUME NEW names, NEW g \in Groups(names), NEW pg \in Group, NEW supported
    PROVE  LET h      == ApplyPreferred(g, pg, supported)
               listed == Supported(pg.gpus, supported)
               fill   == g.kind = "KIND_GPU" /\ g.gpus = <<>> /\ pg.gpus # <<>>
           IN /\ h \in Groups(names)
              /\ h.name = g.name
              /\ h.kind = g.kind
              /\ h.gpus = IF g.kind = pg.kind /\ fill THEN listed ELSE g.gpus
              /\ h.count = IF /\ g.kind = pg.kind
                             /\ ~(fill /\ listed = <<>>)
                             /\ g.count < 1
                             /\ pg.count > 0
                          THEN pg.count ELSE g.count
<1> DEFINE listed == Supported(pg.gpus, supported)
           fill   == g.kind = "KIND_GPU" /\ g.gpus = <<>> /\ pg.gpus # <<>>
<1>1. listed \in Seq(Int) /\ pg.count \in Int /\ g.count \in Int /\ g.gpus \in Seq(Int)
  BY SupportedFacts DEF Group, Groups
<1> HIDE DEF listed
<1>2. CASE g.kind # pg.kind \/ (fill /\ listed = <<>>)
  <2>1. ApplyPreferred(g, pg, supported) = g
    BY <1>2 DEF ApplyPreferred, listed
  <2> QED
    BY <1>2, <2>1 DEF listed
<1>3. CASE ~(g.kind # pg.kind \/ (fill /\ listed = <<>>))
  <2>1. ApplyPreferred(g, pg, supported) =
          [g EXCEPT !.gpus  = IF fill THEN listed ELSE @,
                    !.count = IF @ < 1 /\ pg.count > 0 THEN pg.count ELSE @]
    BY <1>3 DEF ApplyPreferred, listed
  <2>2. ApplyPreferred(g, pg, supported) =
          [name |-> g.name, kind |-> g.kind,
           count |-> IF g.count < 1 /\ pg.count > 0 THEN pg.count ELSE g.count,
           gpus |-> IF fill THEN listed ELSE g.gpus]
    BY <2>1 DEF Groups
  <2> HIDE DEF fill
  <2>3. ApplyPreferred(g, pg, supported) \in Groups(names)
    BY <1>1, <2>2 DEF Groups
  <2> QED
    BY <1>3, <2>2, <2>3 DEF listed, fill
<1> QED
  BY <1>2, <1>3

IsTurns(after, g, pgs, supported, m) ==
    after = [n \in 0..m |->
               IF n = 0 THEN g
               ELSE ApplyPreferred(after[n - 1], pgs[n], supported)]

LEMMA TurnsExist ==
    ASSUME NEW g, NEW pgs, NEW supported, NEW m \in Nat
    PROVE  \E after : IsTurns(after, g, pgs, supported, m)
<1> DEFINE S == {n \in Nat : \E after : IsTurns(after, g, pgs, supported, n)}
<1>1. 0 \in S
  <2>1. IsTurns([n \in 0..0 |-> g], g, pgs, supported, 0)
    BY DEF IsTurns
  <2> QED
    BY <2>1
<1>2. ASSUME NEW n \in Nat, n \in S
      PROVE  n + 1 \in S
  <2>1. PICK after : IsTurns(after, g, pgs, supported, n)
    BY <1>2
  <2> DEFINE last == ApplyPreferred(after[n], pgs[n + 1], supported)
             more == [k \in 0..n + 1 |-> IF k = n + 1 THEN last ELSE after[k]]
  <2>2. ASSUME NEW k \in 0..n + 1
        PROVE  more[k] = IF k = 0 THEN g
                         ELSE ApplyPreferred(more[k - 1], pgs[k], supported)
    <3>1. CASE k = 0
      BY <3>1, <2>1 DEF IsTurns
    <3>2. CASE k = n + 1
      <4>1. more[k] = last /\ more[k - 1] = after[n] /\ k # 0
        BY <3>2
      <4>2. last = ApplyPreferred(after[n], pgs[k], supported)
        BY <3>2
      <4> HIDE DEF last, more
      <4> QED
        BY <4>1, <4>2
    <3>3. CASE k \in 1..n
      <4>1. more[k] = after[k] /\ more[k - 1] = after[k - 1]
        BY <3>3
      <4>2. k \in 0..n /\ k # 0
        BY <3>3
      <4>3. after[k] = ApplyPreferred(after[k - 1], pgs[k], supported)
        BY <2>1, <4>2 DEF IsTurns
      <4> HIDE DEF last, more
      <4> QED
        BY <4>1, <4>2, <4>3
    <3> QED
      BY <3>1, <3>2, <3>3
  <2>3. IsTurns(more, g, pgs, supported, n + 1)
    BY <2>2 DEF IsTurns
  <2> QED
    BY <2>3
<1> HIDE DEF S
<1>3. Nat \subseteq S
  BY <1>1, <1>2, SetInduction
<1> QED
  BY <1>3 DEF S

LEMMA TurnsAreTurns ==
    ASSUME NEW g, NEW pgs \in Seq(Group), NEW supported
    PROVE  IsTurns(Turns(g, pgs, supported), g, pgs, supported, Len(pgs))
<1>1. Len(pgs) \in Nat
  OBVIOUS
<1>2. \E after : IsTurns(after, g, pgs, supported, Len(pgs))
  BY <1>1, TurnsExist
<1> QED
  BY <1>2 DEF Turns, IsTurns

LEMMA MinOfMore ==
    ASSUME NEW m \in Nat, NEW S \in SUBSET (1..m)
    PROVE  Min(S \cup {m + 1}) = IF S = {} THEN m + 1 ELSE Min(S)
<1> DEFINE T == S \cup {m + 1}
<1>1. S \in SUBSET Nat /\ T \in SUBSET Nat
  OBVIOUS
<1>2. Min(T) \in T /\ \A k \in T : Min(T) <= k
  BY <1>1, MinIsLeast
<1>3. CASE S = {}
  BY <1>2, <1>3
<1>4. CASE S # {}
  <2>1. Min(S) \in S /\ \A k \in S : Min(S) <= k
    BY <1>1, <1>4, MinIsLeast
  <2>2. Min(S) \in 1..m /\ Min(T) <= Min(S) /\ Min(T) \in Nat
    BY <1>1, <1>2, <2>1
  <2>3. Min(T) # m + 1
    BY <2>2
  <2>4. Min(S) <= Min(T)
    BY <1>2, <2>1, <2>3
  <2>5. Min(T) = Min(S)
    BY <2>2, <2>4
  <2> QED
    BY <1>4, <2>5
<1> QED
  BY <1>3, <1>4

\* What the loop has made of a group of a resolved kind after m turns: its GPUs
\* are its own, or those supported of the first preferred group that offers
\* any, and so is its count.
AfterTurns(h, g, pgs, supported, m) ==
    LET offering == OfferingTo(pgs, supported, m)
        giving   == GivingTo(g.kind, g.gpus, pgs, supported, m)
    IN /\ h.name = g.name
       /\ h.kind = g.kind
       /\ h.gpus = IF g.kind = "KIND_GPU" /\ g.gpus = <<>> /\ offering # {}
                   THEN Supported(pgs[Min(offering)].gpus, supported) ELSE g.gpus
       /\ h.count = IF g.count < 1 /\ giving # {}
                    THEN pgs[Min(giving)].count ELSE g.count

LEMMA OneMoreTurn ==
    ASSUME NEW names, NEW g \in Groups(names), NEW h \in Groups(names),
           NEW pgs \in Seq(Group), NEW supported,
           NEW m \in Nat, m < Len(pgs), AfterTurns(h, g, pgs, supported, m)
    PROVE  AfterTurns(ApplyPreferred(h, pgs[m + 1], supported),
                      g, pgs, supported, m + 1)
<1> DEFINE pg     == pgs[m + 1]
           next   == ApplyPreferred(h, pg, supported)
           listed == Supported(pg.gpus, supported)
           off    == OfferingTo(pgs, supported, m)
           off1   == OfferingTo(pgs, supported, m + 1)
           giv    == GivingTo(g.kind, g.gpus, pgs, supported, m)
           giv1   == GivingTo(g.kind, g.gpus, pgs, supported, m + 1)
           fill   == h.kind = "KIND_GPU" /\ h.gpus = <<>> /\ pg.gpus # <<>>
           open   == g.kind = "KIND_GPU" /\ g.gpus = <<>>
           gives  == Gives(g.kind, g.gpus, pgs, supported, m + 1)
<1>1. pg \in Group /\ pg.gpus \in Seq(Int) /\ pg.count \in Int
  <2>1. m + 1 \in 1..Len(pgs)
    OBVIOUS
  <2>2. pg \in Group
    BY <2>1
  <2> QED
    BY <2>2 DEF Group
<1>2. /\ off \in SUBSET (1..m)
      /\ off1 = off \cup (IF Offers(pg, supported) THEN {m + 1} ELSE {})
  BY DEF OfferingTo
<1>3. /\ giv \in SUBSET (1..m)
      /\ giv1 = giv \cup (IF gives THEN {m + 1} ELSE {})
  BY DEF GivingTo
<1>4. /\ off # {} => off1 # {} /\ Min(off1) = Min(off)
      /\ off = {} /\ Offers(pg, supported) => off1 # {} /\ Min(off1) = m + 1
      /\ off = {} /\ ~Offers(pg, supported) => off1 = {}
  <2> HIDE DEF off, off1
  <2>1. CASE Offers(pg, supported)
    BY <1>2, <2>1, MinOfMore
  <2>2. CASE ~Offers(pg, supported)
    BY <1>2, <2>2
  <2> QED
    BY <2>1, <2>2
<1>5. /\ giv # {} => giv1 # {} /\ Min(giv1) = Min(giv)
      /\ giv = {} /\ gives => giv1 # {} /\ Min(giv1) = m + 1
      /\ giv = {} /\ ~gives => giv1 = {}
  <2> HIDE DEF giv, giv1
  <2>1. CASE gives
    BY <1>3, <2>1, MinOfMore
  <2>2. CASE ~gives
    BY <1>3, <2>2
  <2> QED
    BY <2>1, <2>2
<1>6. /\ h.name = g.name
      /\ h.kind = g.kind
      /\ h.gpus = IF open /\ off # {} THEN Supported(pgs[Min(off)].gpus, supported)
                  ELSE g.gpus
      /\ h.count = IF g.count < 1 /\ giv # {} THEN pgs[Min(giv)].count ELSE g.count
  BY DEF AfterTurns
<1>7. /\ next.name = h.name
      /\ next.kind = h.kind
      /\ next.gpus = IF h.kind = pg.kind /\ fill THEN listed ELSE h.gpus
      /\ next.count = IF /\ h.kind = pg.kind
                        /\ ~(fill /\ listed = <<>>)
                        /\ h.count < 1
                        /\ pg.count > 0
                     THEN pg.count ELSE h.count
  BY <1>1, ApplyFacts
<1>8. Offers(pg, supported) <=> pg.kind = "KIND_GPU" /\ listed # <<>>
  BY <1>1, OffersSupported DEF Offers
<1>9. off # {} => LET first == pgs[Min(off)] IN
                     Supported(first.gpus, supported) # <<>>
  <2> SUFFICES ASSUME off # {}
               PROVE  Supported(pgs[Min(off)].gpus, supported) # <<>>
    OBVIOUS
  <2>1. Min(off) \in off
    BY <1>2, MinIsLeast
  <2>2. Min(off) \in 1..Len(pgs) /\ Offers(pgs[Min(off)], supported)
    BY <1>2, <2>1 DEF OfferingTo
  <2>3. pgs[Min(off)] \in Group /\ pgs[Min(off)].kind = "KIND_GPU"
    BY <2>2 DEF Offers
  <2> QED
    BY <2>2, <2>3, OffersSupported
<1>10. giv # {} => pgs[Min(giv)].count > 0 /\ pgs[Min(giv)].count \in Int
  <2> SUFFICES ASSUME giv # {}
               PROVE  pgs[Min(giv)].count > 0 /\ pgs[Min(giv)].count \in Int
    OBVIOUS
  <2>1. Min(giv) \in giv
    BY <1>3, MinIsLeast
  <2>2. Min(giv) \in 1..Len(pgs)
    BY <1>3, <2>1
  <2>3. pgs[Min(giv)].count > 0
    BY <2>1 DEF GivingTo, Gives
  <2>4. pgs[Min(giv)] \in Group
    BY <2>2
  <2> QED
    BY <2>3, <2>4 DEF Group
<1>11. (\E k \in 1..m + 1 : Offers(pgs[k], supported)) <=>
          off # {} \/ Offers(pg, supported)
  BY DEF OfferingTo
<1>12. gives <=> /\ pg.kind = g.kind
                 /\ pg.count > 0
                 /\ \/ ~open
                    \/ pg.gpus = <<>>
                    \/ off # {} \/ Offers(pg, supported)
  BY <1>11 DEF Gives
<1>13. g.count \in Int
  BY DEF Groups
<1> HIDE DEF pg, next, listed, off, off1, giv, giv1, gives
<1>14. next.gpus = IF open /\ off1 # {}
                   THEN Supported(pgs[Min(off1)].gpus, supported) ELSE g.gpus
  <2>1. CASE ~open
    BY <1>6, <1>7, <2>1
  <2>2. CASE open /\ off # {}
    BY <1>4, <1>6, <1>7, <1>9, <2>2
  <2>3. CASE open /\ off = {} /\ Offers(pg, supported)
    <3>1. pg.gpus # <<>>
      <4>1. Range(pg.gpus) # {}
        BY <2>3 DEF Offers
      <4> QED
        BY <1>1, <4>1, RangeEmpty
    <3>2. next.gpus = listed
      BY <1>6, <1>7, <1>8, <2>3, <3>1
    <3> QED
      BY <1>4, <2>3, <3>2 DEF listed, pg
  <2>4. CASE open /\ off = {} /\ ~Offers(pg, supported)
    <3>1. off1 = {}
      BY <1>4, <2>4
    <3>2. next.gpus = <<>>
      BY <1>6, <1>7, <1>8, <2>4
    <3> QED
      BY <2>4, <3>1, <3>2
  <2> QED
    BY <2>1, <2>2, <2>3, <2>4
<1>15. next.count = IF g.count < 1 /\ giv1 # {}
                    THEN pgs[Min(giv1)].count ELSE g.count
  <2>1. CASE ~(g.count < 1)
    BY <1>6, <1>7, <1>13, <2>1
  <2>2. CASE g.count < 1 /\ giv # {}
    BY <1>5, <1>6, <1>7, <1>10, <1>13, <2>2
  <2>3. CASE g.count < 1 /\ giv = {}
    <3>1. h.count = g.count
      BY <1>6, <2>3
    <3>2. gives <=> /\ h.kind = pg.kind
                    /\ ~(fill /\ listed = <<>>)
                    /\ pg.count > 0
      BY <1>6, <1>8, <1>9, <1>12
    <3>3. next.count = IF gives THEN pg.count ELSE g.count
      BY <1>7, <2>3, <3>1, <3>2
    <3> QED
      BY <1>5, <2>3, <3>3 DEF pg
  <2> QED
    BY <2>1, <2>2, <2>3
<1>16. next.name = g.name /\ next.kind = g.kind
  BY <1>6, <1>7
<1> QED
  BY <1>14, <1>15, <1>16 DEF AfterTurns, next, off1, giv1, pg

LEMMA TurnsFacts ==
    ASSUME NEW names, NEW g \in Groups(names), NEW pgs \in Seq(Group), NEW supported
    PROVE  LET last == Turns(g, pgs, supported)[Len(pgs)]
           IN  last \in Groups(names) /\ AfterTurns(last, g, pgs, supported, Len(pgs))
<1> DEFINE after == Turns(g, pgs, supported)
           N == {n \in Nat : n <= Len(pgs) =>
                    /\ after[n] \in Groups(names)
                    /\ AfterTurns(after[n], g, pgs, supported, n)}
<1>1. Len(pgs) \in Nat
  OBVIOUS
<1>2. IsTurns(after, g, pgs, supported, Len(pgs))
  BY TurnsAreTurns
<1> HIDE DEF after
<1>3. 0 \in N
  <2>1. after[0] = g
    BY <1>1, <1>2 DEF IsTurns
  <2>2. OfferingTo(pgs, supported, 0) = {}
    BY DEF OfferingTo
  <2>3. GivingTo(g.kind, g.gpus, pgs, supported, 0) = {}
    BY DEF GivingTo
  <2>4. AfterTurns(g, g, pgs, supported, 0)
    BY <2>2, <2>3 DEF AfterTurns
  <2> QED
    BY <2>1, <2>4
<1>4. ASSUME NEW n \in Nat, n \in N
      PROVE  n + 1 \in N
  <2> SUFFICES ASSUME n + 1 <= Len(pgs)
               PROVE  /\ after[n + 1] \in Groups(names)
                      /\ AfterTurns(after[n + 1], g, pgs, supported, n + 1)
    OBVIOUS
  <2>1. after[n] \in Groups(names) /\ AfterTurns(after[n], g, pgs, supported, n)
    BY <1>1, <1>4
  <2>2. n < Len(pgs) /\ n + 1 \in 1..Len(pgs)
    BY <1>1
  <2>3. after[n + 1] = ApplyPreferred(after[n], pgs[n + 1], supported)
    <3>1. n + 1 \in 0..Len(pgs) /\ n + 1 # 0 /\ (n + 1) - 1 = n
      BY <1>1
    <3>2. after[n + 1] = ApplyPreferred(after[(n + 1) - 1], pgs[n + 1], supported)
      BY <1>2, <3>1 DEF IsTurns
    <3> QED
      BY <3>1, <3>2
  <2>4. pgs[n + 1] \in Group
    BY <2>2
  <2>5. after[n + 1] \in Groups(names)
    BY <2>1, <2>3, <2>4, ApplyFacts
  <2> QED
    BY <2>1, <2>2, <2>3, <2>5, OneMoreTurn
<1> HIDE DEF N
<1>5. Len(pgs) \in N
  BY <1>1, <1>3, <1>4, SetInduction
<1> QED
  BY <1>1, <1>5 DEF N, after

-----------------------------------------------------------------------------
(* A completed group *)

LEMMA ResolveFacts ==
    ASSUME NEW names, NEW g \in Groups(names), NEW supported
    PROVE  LET r == ResolveKind(g, supported)
           IN /\ r \in Groups(names)
              /\ r.name = g.name /\ r.count = g.count /\ r.gpus = g.gpus
              /\ r.kind \in Kinds \ {"KIND_AUTO"}
              /\ r.kind = IF g.kind # "KIND_AUTO" THEN g.kind
                          ELSE IF supported # {} /\ Range(g.gpus) \subseteq supported
                          THEN "KIND_GPU" ELSE "KIND_CPU"
BY DEF ResolveKind, AllSupported, Groups, Kinds

\* The GPUs and the count that the i-th group gets.
GpusOf(kind, gpus, pgs, supported) ==
    LET offering == OfferingTo(pgs, supported, Len(pgs))
    IN IF kind # "KIND_GPU" \/ gpus # <<>> THEN gpus
       ELSE IF offering = {} THEN InOrder(supported)
       ELSE Supported(pgs[Min(offering)].gpus, supported)

CountOf(kind, gpus, count, pgs, supported, name) ==
    LET giving == GivingTo(kind, gpus, pgs, supported, Len(pgs))
    IN IF count >= 1 THEN count
       ELSE IF giving # {} THEN pgs[Min(giving)].count
       ELSE IF kind = "KIND_CPU" /\ name \in ManyInstanceBackends THEN 2 ELSE 1

LEMMA FirstOffering ==
    ASSUME NEW pgs \in Seq(Group), NEW supported,
           OfferingTo(pgs, supported, Len(pgs)) # {}
    PROVE  LET j == Min(OfferingTo(pgs, supported, Len(pgs)))
           IN /\ j \in 1..Len(pgs) /\ pgs[j] \in Group
              /\ Offers(pgs[j], supported)
              /\ Supported(pgs[j].gpus, supported) # <<>>
              /\ Supported(pgs[j].gpus, supported) \in Seq(Int)
              /\ Range(Supported(pgs[j].gpus, supported)) =
                    Range(pgs[j].gpus) \cap supported
<1> DEFINE off == OfferingTo(pgs, supported, Len(pgs))
           j   == Min(off)
<1>1. Len(pgs) \in Nat /\ off \in SUBSET Nat
  BY DEF OfferingTo
<1>2. j \in off
  BY <1>1, MinIsLeast
<1>3. j \in 1..Len(pgs) /\ Offers(pgs[j], supported)
  BY <1>2 DEF OfferingTo
<1> HIDE DEF j
<1>4. pgs[j] \in Group /\ pgs[j].kind = "KIND_GPU" /\ pgs[j].gpus \in Seq(Int)
  <2>1. pgs[j] \in Group
    BY <1>3
  <2> QED
    BY <1>3, <2>1 DEF Group, Offers
<1>5. Supported(pgs[j].gpus, supported) # <<>>
  BY <1>3, <1>4, OffersSupported
<1>6. /\ Supported(pgs[j].gpus, supported) \in Seq(Int)
      /\ Range(Supported(pgs[j].gpus, supported)) = Range(pgs[j].gpus) \cap supported
  BY <1>4, SupportedFacts
<1> QED
  BY <1>3, <1>4, <1>5, <1>6 DEF j

LEMMA FirstGiving ==
    ASSUME NEW kind, NEW gpus, NEW pgs \in Seq(Group), NEW supported,
           GivingTo(kind, gpus, pgs, supported, Len(pgs)) # {}
    PROVE  LET j == Min(GivingTo(kind, gpus, pgs, supported, Len(pgs)))
           IN pgs[j].count \in Int /\ pgs[j].count > 0
<1> DEFINE giv == GivingTo(kind, gpus, pgs, supported, Len(pgs))
           j   == Min(giv)
<1>1. Len(pgs) \in Nat /\ giv \in SUBSET Nat
  BY DEF GivingTo
<1>2. j \in giv
  BY <1>1, MinIsLeast
<1>3. j \in 1..Len(pgs) /\ pgs[j].count > 0
  BY <1>2 DEF GivingTo, Gives
<1> HIDE DEF j
<1>4. pgs[j] \in Group
  BY <1>3
<1> QED
  BY <1>3, <1>4 DEF j, Group

\* c is what the i-th group g is completed to, field by field: the name, the
\* kind, the GPUs and the count it was given, or else what the preferences and
\* the machine make of them.
IsCompleted(c, g, i, pgs, supported, name) ==
    LET kind == ResolveKind(g, supported).kind
    IN /\ c.name = IF g.name # NoName THEN g.name ELSE DefaultName(i - 1)
       /\ c.kind = kind
       /\ c.gpus = GpusOf(kind, g.gpus, pgs, supported)
       /\ c.count = CountOf(kind, g.gpus, g.count, pgs, supported, name)
       /\ c.count >= 1

LEMMA CompletedFacts ==
    ASSUME NEW names, NEW g \in Groups(names), NEW i \in Nat,
           NEW pgs \in Seq(Group), NEW name,
           NEW supported \in SUBSET Nat, IsFiniteSet(supported)
    PROVE  LET c == Completed(g, i, pgs, supported, name)
           IN /\ c \in Groups(names \cup {DefaultName(i - 1)})
              /\ IsCompleted(c, g, i, pgs, supported, name)
<1> DEFINE all    == names \cup {DefaultName(i - 1)}
           named  == [g EXCEPT !.name = IF @ # NoName THEN @ ELSE DefaultName(i - 1)]
           r      == ResolveKind(named, supported)
           chosen == Turns(r, pgs, supported)[Len(pgs)]
           filled == FillCount(chosen, name)
           c      == FillGpus(filled, supported)
           kind   == ResolveKind(g, supported).kind
           off    == OfferingTo(pgs, supported, Len(pgs))
           giv    == GivingTo(kind, g.gpus, pgs, supported, Len(pgs))
<1>1. Completed(g, i, pgs, supported, name) = c
  BY DEF Completed
<1>2. /\ named \in Groups(all)
      /\ named.name = IF g.name # NoName THEN g.name ELSE DefaultName(i - 1)
      /\ named.kind = g.kind /\ named.count = g.count /\ named.gpus = g.gpus
  BY DEF Groups
<1> HIDE DEF named
<1>3. /\ r \in Groups(all)
      /\ r.name = named.name /\ r.count = g.count /\ r.gpus = g.gpus
      /\ r.kind = kind /\ kind \in Kinds
  <2>1. /\ r \in Groups(all)
        /\ r.name = named.name /\ r.count = named.count /\ r.gpus = named.gpus
        /\ r.kind \in Kinds
        /\ r.kind = IF named.kind # "KIND_AUTO" THEN named.kind
                    ELSE IF supported # {} /\ Range(named.gpus) \subseteq supported
                    THEN "KIND_GPU" ELSE "KIND_CPU"
    BY <1>2, ResolveFacts
  <2>2. kind = IF g.kind # "KIND_AUTO" THEN g.kind
               ELSE IF supported # {} /\ Range(g.gpus) \subseteq supported
               THEN "KIND_GPU" ELSE "KIND_CPU"
    BY ResolveFacts
  <2> QED
    BY <1>2, <2>1, <2>2
<1> HIDE DEF r
<1>4. chosen \in Groups(all) /\ AfterTurns(chosen, r, pgs, supported, Len(pgs))
  BY <1>3, TurnsFacts
<1> HIDE DEF chosen
<1>5. /\ chosen.name = named.name
      /\ chosen.kind = kind
      /\ chosen.gpus = IF kind = "KIND_GPU" /\ g.gpus = <<>> /\ off # {}
                       THEN Supported(pgs[Min(off)].gpus, supported) ELSE g.gpus
      /\ chosen.count = IF g.count < 1 /\ giv # {}
                        THEN pgs[Min(giv)].count ELSE g.count
  BY <1>3, <1>4 DEF AfterTurns
<1>6. off # {} => Supported(pgs[Min(off)].gpus, supported) # <<>>
  BY FirstOffering
<1>7. giv # {} => pgs[Min(giv)].count \in Int /\ pgs[Min(giv)].count > 0
  BY FirstGiving
<1>8. g.count \in Int /\ chosen.count \in Int /\ chosen.gpus \in Seq(Int)
  BY <1>4 DEF Groups
<1> HIDE DEF kind, off, giv
<1>9. /\ filled \in Groups(all)
      /\ filled.name = chosen.name
      /\ filled.kind = kind
      /\ filled.gpus = chosen.gpus
      /\ filled.count = IF chosen.count < 1
                        THEN IF kind = "KIND_CPU" /\ name \in ManyInstanceBackends
                             THEN 2 ELSE 1
                        ELSE chosen.count
  <2>1. CASE chosen.count < 1
    <3> DEFINE n == IF kind = "KIND_CPU" /\ name \in ManyInstanceBackends THEN 2 ELSE 1
    <3>1. filled = [chosen EXCEPT !.count = n]
      BY <1>5, <2>1 DEF FillCount, SetDefaultInstanceCount
    <3>2. n \in Int
      OBVIOUS
    <3> HIDE DEF n, filled
    <3>3. /\ filled \in Groups(all) /\ filled.count = n
          /\ filled.name = chosen.name /\ filled.kind = chosen.kind
          /\ filled.gpus = chosen.gpus
      BY <1>4, <3>1, <3>2 DEF Groups
    <3> QED
      BY <1>5, <2>1, <3>3 DEF n
  <2>2. CASE ~(chosen.count < 1)
    <3>1. filled = chosen
      BY <2>2 DEF FillCount
    <3> QED
      BY <1>4, <1>5, <2>2, <3>1
  <2> QED
    BY <2>1, <2>2
<1> HIDE DEF filled
<1>10. InOrder(supported) \in Seq(Int)
  BY InOrderFacts
<1>11. /\ c \in Groups(all)
       /\ c.name = chosen.name
       /\ c.kind = kind
       /\ c.gpus = IF kind = "KIND_GPU" /\ chosen.gpus = <<>>
                   THEN InOrder(supported) ELSE chosen.gpus
       /\ c.count = filled.count
  BY <1>9, <1>10 DEF FillGpus, Groups
<1> HIDE DEF c
<1>12. c.gpus = GpusOf(kind, g.gpus, pgs, supported)
  BY <1>5, <1>6, <1>11 DEF GpusOf, off
<1>13. /\ c.count = CountOf(kind, g.gpus, g.count, pgs, supported, name)
       /\ c.count >= 1
  <2>1. CASE g.count >= 1
    BY <1>5, <1>8, <1>9, <1>11, <2>1 DEF CountOf
  <2>2. CASE g.count < 1 /\ giv # {}
    BY <1>5, <1>7, <1>8, <1>9, <1>11, <2>2 DEF CountOf, giv
  <2>3. CASE g.count < 1 /\ giv = {}
    BY <1>5, <1>8, <1>9, <1>11, <2>3 DEF CountOf, giv
  <2> QED
    BY <1>8, <2>1, <2>2, <2>3
<1> QED
  BY <1>1, <1>2, <1>5, <1>11, <1>12, <1>13 DEF kind, IsCompleted

\* The GPUs of a group that lists none: those the first preference which
\* offers any lists, or all, and none only if there are none.
IsPlaced(got, pgs, supported) ==
    LET offering == OfferingTo(pgs, supported, Len(pgs))
    IN /\ got \in Seq(Int)
       /\ got = <<>> <=> supported = {}
       /\ Range(got) = IF offering = {} THEN supported
                       ELSE Range(pgs[Min(offering)].gpus) \cap supported

LEMMA GpusPlaced ==
    ASSUME NEW pgs \in Seq(Group),
           NEW supported \in SUBSET Nat, IsFiniteSet(supported)
    PROVE  IsPlaced(GpusOf("KIND_GPU", <<>>, pgs, supported), pgs, supported)
<1> DEFINE got == GpusOf("KIND_GPU", <<>>, pgs, supported)
           off == OfferingTo(pgs, supported, Len(pgs))
           listed == Supported(pgs[Min(off)].gpus, supported)
<1>1. CASE off = {}
  <2>1. got = InOrder(supported)
    BY <1>1 DEF GpusOf
  <2>2. InOrder(supported) \in Seq(Int) /\ Range(InOrder(supported)) = supported
    BY InOrderFacts
  <2>3. got = <<>> <=> supported = {}
    BY <2>1, <2>2, RangeEmpty
  <2> QED
    BY <1>1, <2>1, <2>2, <2>3 DEF IsPlaced
<1>2. CASE off # {}
  <2>1. got = listed
    BY <1>2 DEF GpusOf
  <2>2. /\ listed # <<>> /\ listed \in Seq(Int)
        /\ Range(listed) = Range(pgs[Min(off)].gpus) \cap supported
    BY <1>2, FirstOffering
  <2>3. Range(listed) # {}
    BY <2>2, RangeEmpty
  <2> HIDE DEF got, listed, off
  <2> QED
    BY <1>2, <2>1, <2>2, <2>3 DEF IsPlaced, got, off
<1> QED
  BY <1>1, <1>2

LEMMA GpusKept ==
    ASSUME NEW kind, NEW gpus, NEW pgs, NEW supported,
           kind # "KIND_GPU" \/ gpus # <<>>
    PROVE  GpusOf(kind, gpus, pgs, supported) = gpus
BY DEF GpusOf

\* A completed group is complete: a second pass changes nothing.
LEMMA CompletedAgain ==
    ASSUME NEW names, NEW g \in Groups(names), NEW i \in Nat,
           NEW pgs \in Seq(Group), NEW name,
           NEW supported \in SUBSET Nat, IsFiniteSet(supported)
    PROVE  LET h == Completed(g, i, pgs, supported, name)
           IN Completed(h, i, pgs, supported, name) = h
<1> DEFINE all  == names \cup {DefaultName(i - 1)}
           kind == ResolveKind(g, supported).kind
           h    == Completed(g, i, pgs, supported, name)
           d    == Completed(h, i, pgs, supported, name)
<1>0. h \in Groups(all) /\ IsCompleted(h, g, i, pgs, supported, name)
  BY CompletedFacts
<1>1. /\ h \in Groups(all)
      /\ h.name = IF g.name # NoName THEN g.name ELSE DefaultName(i - 1)
      /\ h.kind = kind
      /\ h.gpus = GpusOf(kind, g.gpus, pgs, supported)
      /\ h.count >= 1
  BY <1>0 DEF IsCompleted
<1> HIDE DEF h
<1>2. /\ d \in Groups(all \cup {DefaultName(i - 1)})
      /\ d.name = IF h.name # NoName THEN h.name ELSE DefaultName(i - 1)
      /\ d.kind = ResolveKind(h, supported).kind
      /\ d.gpus = GpusOf(ResolveKind(h, supported).kind, h.gpus, pgs, supported)
      /\ d.count = CountOf(ResolveKind(h, supported).kind, h.gpus, h.count,
                          pgs, supported, name)
  <2>1. /\ d \in Groups(all \cup {DefaultName(i - 1)})
        /\ IsCompleted(d, h, i, pgs, supported, name)
    BY <1>1, CompletedFacts
  <2> QED
    BY <2>1 DEF IsCompleted
<1> HIDE DEF d
<1>3. kind # "KIND_AUTO"
  BY ResolveFacts
<1>4. ResolveKind(h, supported).kind = h.kind
  BY <1>1, <1>3 DEF ResolveKind
<1>5. d.name = h.name
  <2>1. DefaultName(i - 1) # NoName
    BY DEF DefaultName, NoName
  <2> QED
    BY <1>1, <1>2, <2>1
<1>6. d.count = h.count
  BY <1>1, <1>2 DEF CountOf
<1>7. d.gpus = h.gpus
  <2> HIDE DEF kind
  <2>1. CASE h.kind # "KIND_GPU" \/ h.gpus # <<>>
    BY <1>2, <1>4, <2>1, GpusKept
  <2>2. CASE h.kind = "KIND_GPU" /\ h.gpus = <<>>
    <3>1. g.gpus = <<>>
      BY <1>1, <2>2, GpusKept
    <3>2. h.gpus = GpusOf("KIND_GPU", <<>>, pgs, supported)
      BY <1>1, <2>2, <3>1
    <3>3. d.gpus = GpusOf("KIND_GPU", <<>>, pgs, supported)
      BY <1>2, <1>4, <2>2
    <3> QED
      BY <3>2, <3>3
  <2> QED
    BY <2>1, <2>2
<1>8. d = h
  <2>1. /\ d = [name |-> d.name, kind |-> d.kind, count |-> d.count, gpus |-> d.gpus]
        /\ h = [name |-> h.name, kind |-> h.kind, count |-> h.count, gpus |-> h.gpus]
    BY <1>1, <1>2 DEF Groups
  <2> QED
    BY <1>2, <1>4, <1>5, <1>6, <1>7, <2>1
<1> QED
  BY <1>8 DEF d, h

-----------------------------------------------------------------------------
(* The group of a configuration that gives none *)

UsableOf(pgs, supported) == {j \in DOMAIN pgs : Usable(pgs[j], supported)}

LEMMA DefaultFacts ==
    ASSUME NEW pgs \in Seq(Group), NEW supported
    PROVE  LET d      == DefaultGroup(pgs, supported)
               usable == UsableOf(pgs, supported)
               pg     == pgs[Min(usable)]
           IN /\ d \in Groups({ModelName})
              /\ usable = {} => d = NewGroup
              /\ usable # {} =>
                    /\ pg \in Group
                    /\ Usable(pg, supported)
                    /\ d.kind = pg.kind
                    /\ pg.kind = "KIND_GPU" => Range(d.gpus) \subseteq supported
                    /\ pg.kind = "KIND_AUTO" => d.gpus = pg.gpus
                    /\ pg.kind \notin {"KIND_GPU", "KIND_AUTO"} => d.gpus = <<>>
<1> DEFINE d      == DefaultGroup(pgs, supported)
           usable == UsableOf(pgs, supported)
           pg     == pgs[Min(usable)]
           listed == Supported(pg.gpus, supported)
           gpus   == CASE pg.kind = "KIND_GPU"  -> listed
                       [] pg.kind = "KIND_AUTO" -> pg.gpus
                       [] OTHER                 -> <<>>
<1>1. CASE usable = {}
  <2>1. d = NewGroup
    BY <1>1 DEF DefaultGroup, UsableOf
  <2>2. NewGroup \in Groups({ModelName})
    BY DEF NewGroup, Groups, Kinds
  <2> QED
    BY <1>1, <2>1, <2>2
<1>2. CASE usable # {}
  <2>1. usable \in SUBSET Nat
    BY DEF UsableOf
  <2>2. Min(usable) \in usable
    BY <1>2, <2>1, MinIsLeast
  <2>3. Min(usable) \in DOMAIN pgs /\ Usable(pg, supported)
    BY <2>2 DEF UsableOf
  <2>4. pg \in Group
    BY <2>3
  <2>5. d = [NewGroup EXCEPT !.kind = pg.kind, !.count = pg.count, !.gpus = gpus]
    BY <1>2 DEF DefaultGroup, UsableOf
  <2> HIDE DEF usable, pg, listed
  <2>6. pg.kind \in Kinds /\ pg.count \in Int /\ pg.gpus \in Seq(Int)
    BY <2>4 DEF Group
  <2>7. listed \in Seq(Int) /\ Range(listed) \subseteq supported
    BY <2>6, SupportedFacts DEF listed
  <2>8. gpus \in Seq(Int)
    BY <2>6, <2>7
  <2> HIDE DEF gpus
  <2>9. d = [name |-> ModelName, kind |-> pg.kind, count |-> pg.count, gpus |-> gpus]
    BY <2>5 DEF NewGroup
  <2>10. d \in Groups({ModelName})
    BY <2>6, <2>8, <2>9 DEF Groups
  <2>11. d.kind = pg.kind /\ d.gpus = gpus
    BY <2>9
  <2>12. /\ pg.kind = "KIND_GPU" => gpus = listed
         /\ pg.kind = "KIND_AUTO" => gpus = pg.gpus
         /\ pg.kind \notin {"KIND_GPU", "KIND_AUTO"} => gpus = <<>>
    BY <2>6 DEF gpus
  <2> HIDE DEF d
  <2> QED
    BY <1>2, <2>3, <2>4, <2>7, <2>10, <2>11, <2>12 DEF d, usable, pg
<1> QED
  BY <1>1, <1>2

-----------------------------------------------------------------------------
(* The inductive invariant *)

InputsOK ==
    /\ tested \in BOOLEAN
    /\ devices \in SUBSET Nat /\ IsFiniteSet(devices)
    /\ given \in Seq(Group) /\ preferred \in Seq(Group)
    /\ ensemble \in BOOLEAN
    /\ backend \in {"onnxruntime", "pytorch"}

\* How far the two calls have come, and what that makes of the groups.
Progress ==
    \/ status \in {"loaded", "query failed"} /\ groups = given
    \/ /\ status \in {"normalized", ValidateInstanceGroup(groups, GetSupportedGPUs)}
       /\ \/ ensemble /\ groups = given
          \/ ~ensemble /\ GetSupportedGPUs.ok /\ groups = NormalizedGroups(given)

IInv == InputsOK /\ Progress

LEMMA InitIInv == Init => IInv
<1> SUFFICES ASSUME Init PROVE IInv
  OBVIOUS
<1>1. PICK input \in Inputs : given = input[1] /\ preferred = input[2]
  BY DEF Init
<1>2. input \in Seq(Group) \X Seq(Group)
  BY InputsAssumption
<1>3. given \in Seq(Group) /\ preferred \in Seq(Group)
  BY <1>1, <1>2
<1>4. devices \in SUBSET Nat /\ IsFiniteSet(devices) /\ tested \in BOOLEAN
  BY DevicesAssumption, ConditionsAssumption DEF Init
<1> QED
  BY <1>3, <1>4 DEF Init, IInv, InputsOK, Progress

LEMMA InputsKept ==
    ASSUME IInv, UNCHANGED inputs
    PROVE  InputsOK'
BY DEF IInv, InputsOK, inputs

LEMMA NormalizeIInv == IInv /\ Normalize => IInv'
<1> SUFFICES ASSUME IInv, Normalize PROVE IInv'
  OBVIOUS
<1>1. InputsOK'
  BY InputsKept DEF Normalize
<1>2. groups = given
  <2>1. "loaded" \notin {"query failed", "normalized"}
    OBVIOUS
  <2>2. ValidateInstanceGroup(groups, GetSupportedGPUs) # "loaded"
    BY DEF ValidateInstanceGroup, GroupError
  <2> QED
    BY <2>2 DEF IInv, Progress, Normalize
<1>3. CASE UNCHANGED groups /\ (ensemble \/ status' = "query failed")
  BY <1>1, <1>2, <1>3 DEF IInv, Progress, Normalize, inputs
<1>4. CASE ~ensemble /\ GetSupportedGPUs.ok /\ groups' = NormalizedGroups(groups)
  <2>1. NormalizedGroups(given)' = NormalizedGroups(given)
    BY DEF Normalize, inputs, NormalizedGroups, GetSupportedGPUs
  <2>2. GetSupportedGPUs.ok'
    BY <1>4 DEF Normalize, inputs, GetSupportedGPUs
  <2> QED
    BY <1>1, <1>2, <1>4, <2>1, <2>2 DEF IInv, Progress, Normalize, inputs
<1> QED
  BY <1>3, <1>4 DEF Normalize

LEMMA ValidateIInv == IInv /\ Validate => IInv'
<1> SUFFICES ASSUME IInv, Validate PROVE IInv'
  OBVIOUS
<1>1. InputsOK'
  BY InputsKept DEF Validate
<1>2. GetSupportedGPUs' = GetSupportedGPUs
  BY DEF Validate, inputs, GetSupportedGPUs
<1>3. NormalizedGroups(given)' = NormalizedGroups(given)
  BY DEF Validate, inputs, NormalizedGroups, GetSupportedGPUs
<1>4. status' = ValidateInstanceGroup(groups, GetSupportedGPUs)'
  BY <1>2 DEF Validate
<1> QED
  BY <1>1, <1>2, <1>3, <1>4 DEF IInv, Progress, Validate, inputs

LEMMA StutterIInv == IInv /\ UNCHANGED vars => IInv'
<1> SUFFICES ASSUME IInv, UNCHANGED vars PROVE IInv'
  OBVIOUS
<1>1. UNCHANGED <<inputs, groups, status>>
  BY DEF vars
<1>2. InputsOK'
  BY <1>1, InputsKept
<1>3. GetSupportedGPUs' = GetSupportedGPUs
  BY <1>1 DEF inputs, GetSupportedGPUs
<1>4. NormalizedGroups(given)' = NormalizedGroups(given)
  BY <1>1 DEF inputs, NormalizedGroups, GetSupportedGPUs
<1> QED
  BY <1>1, <1>2, <1>3, <1>4 DEF IInv, Progress, inputs

\* The inputs stay what they were, and the groups are given, normalized or
\* validated as the outcome says (backend_model.cc:63-71).
THEOREM Invariance == Spec => []IInv
<1>1. IInv /\ [Next]_vars => IInv'
  BY NormalizeIInv, ValidateIInv, StutterIInv DEF Next
<1> QED
  BY InitIInv, <1>1, PTL DEF Spec

-----------------------------------------------------------------------------
(* What the invariant says of a normalized configuration *)

StartNames == {NoName, GivenName, ModelName}

LEMMA StartFacts ==
    ASSUME IInv
    PROVE  Start \in Seq(Groups(StartNames)) /\ Start # <<>>
<1>1. preferred \in Seq(Group) /\ given \in Seq(Group)
  BY DEF IInv, InputsOK
<1>2. CASE given = <<>>
  <2> DEFINE d == DefaultGroup(preferred, GetSupportedGPUs.gpus)
  <2>1. d \in Groups({ModelName})
    BY <1>1, DefaultFacts
  <2> HIDE DEF d
  <2>2. d \in Groups(StartNames)
    BY <2>1 DEF Groups, StartNames
  <2>3. Start = <<d>>
    BY <1>2 DEF Start, d
  <2> QED
    BY <2>2, <2>3
<1>3. CASE given # <<>>
  <2>1. Group \subseteq Groups(StartNames)
    BY DEF Group, Groups, StartNames
  <2>2. given \in Seq(Groups(StartNames))
    BY <1>1, <2>1
  <2> QED
    BY <1>3, <2>2 DEF Start
<1> QED
  BY <1>2, <1>3

LEMMA NormalizedFacts ==
    ASSUME IInv, Normalized
    PROVE  /\ GetSupportedGPUs.ok
           /\ GetSupportedGPUs.gpus = devices
           /\ groups = NormalizedGroups(given)
           /\ status \in {"normalized", ValidateInstanceGroup(groups, GetSupportedGPUs)}
           /\ devices \in SUBSET Nat /\ IsFiniteSet(devices)
           /\ preferred \in Seq(Group)
BY DEF IInv, InputsOK, Progress, Normalized, GetSupportedGPUs

\* Every group is its start completed.
LEMMA GroupsFacts ==
    ASSUME IInv, Normalized
    PROVE  /\ groups = [i \in DOMAIN Start |->
                         Completed(Start[i], i, preferred, devices, backend)]
           /\ DOMAIN Start = 1..Len(Start) /\ Len(Start) \in Nat \ {0}
           /\ \A i \in DOMAIN Start :
                 /\ Start[i] \in Groups(StartNames)
                 /\ groups[i] \in Groups(StartNames \cup {DefaultName(i - 1)})
                 /\ IsCompleted(groups[i], Start[i], i, preferred, devices, backend)
<1>1. /\ GetSupportedGPUs.gpus = devices
      /\ groups = NormalizedGroups(given)
      /\ devices \in SUBSET Nat /\ IsFiniteSet(devices)
      /\ preferred \in Seq(Group)
  BY NormalizedFacts
<1>2. groups = [i \in DOMAIN Start |->
                  Completed(Start[i], i, preferred, devices, backend)]
  BY <1>1 DEF NormalizedGroups, NormalizeInstanceGroup, Start
<1>3. Start \in Seq(Groups(StartNames)) /\ Start # <<>>
  BY StartFacts
<1> HIDE DEF Start
<1>4. DOMAIN Start = 1..Len(Start) /\ Len(Start) \in Nat \ {0}
  BY <1>3
<1>5. ASSUME NEW i \in DOMAIN Start
      PROVE  /\ Start[i] \in Groups(StartNames)
             /\ groups[i] \in Groups(StartNames \cup {DefaultName(i - 1)})
             /\ IsCompleted(groups[i], Start[i], i, preferred, devices, backend)
  <2>1. Start[i] \in Groups(StartNames) /\ i \in Nat
    BY <1>3, <1>4
  <2>2. groups[i] = Completed(Start[i], i, preferred, devices, backend)
    BY <1>2
  <2> DEFINE c == Completed(Start[i], i, preferred, devices, backend)
  <2>3. /\ c \in Groups(StartNames \cup {DefaultName(i - 1)})
        /\ IsCompleted(c, Start[i], i, preferred, devices, backend)
    BY <1>1, <2>1, CompletedFacts
  <2> HIDE DEF c
  <2> QED
    BY <2>1, <2>2, <2>3 DEF c
<1> QED
  BY <1>2, <1>4, <1>5

-----------------------------------------------------------------------------
(* The safety properties *)

\* Every group of a normalized configuration has a name, a resolved kind and
\* instances to create (model_config_utils.cc:345-398).
THEOREM Complete == Spec => []ValidatedComplete
<1>1. IInv => ValidatedComplete
  <2> SUFFICES ASSUME IInv, Normalized
               PROVE  /\ groups # <<>>
                      /\ \A i \in DOMAIN groups : /\ groups[i].name # NoName
                                                 /\ groups[i].kind # "KIND_AUTO"
                                                 /\ groups[i].count >= 1
    BY DEF ValidatedComplete
  <2>1. DOMAIN groups = DOMAIN Start /\ 1 \in DOMAIN Start
    BY GroupsFacts
  <2>2. groups # <<>>
    BY <2>1
  <2>3. ASSUME NEW i \in DOMAIN groups
        PROVE  /\ groups[i].name # NoName
               /\ groups[i].kind # "KIND_AUTO"
               /\ groups[i].count >= 1
    <3>1. /\ Start[i] \in Groups(StartNames)
          /\ IsCompleted(groups[i], Start[i], i, preferred, devices, backend)
      BY <2>1, GroupsFacts
    <3>2. ResolveKind(Start[i], devices).kind # "KIND_AUTO"
      BY <3>1, ResolveFacts
    <3>3. DefaultName(i - 1) # NoName
      BY DEF DefaultName, NoName
    <3> QED
      BY <3>1, <3>2, <3>3 DEF IsCompleted
  <2> QED
    BY <2>2, <2>3
<1> QED
  BY <1>1, Invariance, PTL

\* The configuration stays well-formed, its names those that were given or
\* that are formed from the model's, and the outcome one of those that the two
\* calls have.
THEOREM TypeCorrect == Spec => []TypeOK
<1> DEFINE Typed == \A i \in DOMAIN groups :
                       groups[i] \in Groups({NoName, ModelName, GivenName,
                                            <<"model", i - 1>>})
<1>1. ASSUME IInv, groups = given
      PROVE  Typed
  <2>1. given \in Seq(Group)
    BY <1>1 DEF IInv, InputsOK
  <2>2. \A i \in DOMAIN given : given[i] \in Group
    BY <2>1
  <2> QED
    BY <1>1, <2>2 DEF Group, Groups
<1>2. ASSUME IInv, Normalized
      PROVE  Typed
  <2> SUFFICES ASSUME NEW i \in DOMAIN groups
               PROVE  groups[i] \in Groups({NoName, ModelName, GivenName,
                                           <<"model", i - 1>>})
    OBVIOUS
  <2>1. groups[i] \in Groups(StartNames \cup {DefaultName(i - 1)})
    BY <1>2, GroupsFacts
  <2>2. StartNames \cup {DefaultName(i - 1)} =
          {NoName, ModelName, GivenName, <<"model", i - 1>>}
    BY DEF StartNames, DefaultName
  <2> QED
    BY <2>1, <2>2
<1>3. ASSUME IInv
      PROVE  Typed
  <2>1. groups = given \/ Normalized
    BY <1>3 DEF IInv, Progress, Normalized, ValidateInstanceGroup, GroupError
  <2> QED
    BY <1>1, <1>2, <1>3, <2>1
<1>4. ASSUME IInv
      PROVE  status \in {"loaded", "normalized", "accepted", "no instance groups",
                   "query failed", "no GPUs available", "no GPUs specified",
                   "unsupported GPU", "GPUs for KIND_CPU", "unexpected kind"}
  <2>1. ValidateInstanceGroup(groups, GetSupportedGPUs) \in
          {"accepted", "no instance groups", "query failed",
           "no GPUs available", "no GPUs specified",
           "unsupported GPU", "GPUs for KIND_CPU", "unexpected kind"}
    <3> DEFINE wrong == {i \in DOMAIN groups :
                           GroupError(groups[i], GetSupportedGPUs.gpus) # "none"}
    <3>1. ASSUME wrong # {}
          PROVE  GroupError(groups[Min(wrong)], GetSupportedGPUs.gpus) # "none"
      <4>1. DOMAIN groups \in SUBSET Nat
        <5>1. groups = given \/ Normalized
          BY <1>4 DEF IInv, Progress, Normalized, ValidateInstanceGroup, GroupError
        <5>2. given \in Seq(Group)
          BY <1>4 DEF IInv, InputsOK
        <5>3. CASE groups = given
          BY <5>2, <5>3
        <5>4. CASE Normalized
          BY <1>4, <5>4, GroupsFacts
        <5> QED
          BY <5>1, <5>3, <5>4
      <4>2. wrong \in SUBSET Nat
        BY <4>1
      <4>3. Min(wrong) \in wrong
        BY <3>1, <4>2, MinIsLeast
      <4> QED
        BY <4>3
    <3>2. \A g : GroupError(g, GetSupportedGPUs.gpus) \in
            {"none", "no GPUs available", "no GPUs specified",
             "unsupported GPU", "GPUs for KIND_CPU", "unexpected kind"}
      BY DEF GroupError
    <3> QED
      BY <3>1, <3>2 DEF ValidateInstanceGroup
  <2> QED
    BY <1>4, <2>1 DEF IInv, Progress
<1>5. IInv => TypeOK
  BY <1>3, <1>4 DEF TypeOK, Groups
<1> QED
  BY <1>5, Invariance, PTL

\* Normalization overrides nothing that a configuration gives
\* (model_config_utils.cc:349-406).
THEOREM GivenKept == Spec => []ExplicitKept
<1>1. IInv => ExplicitKept
  <2> SUFFICES ASSUME IInv, Normalized, given # <<>>
               PROVE  /\ DOMAIN groups = DOMAIN given
                      /\ \A i \in DOMAIN given :
                            /\ given[i].name # NoName => groups[i].name = given[i].name
                            /\ given[i].kind # "KIND_AUTO" =>
                                  groups[i].kind = given[i].kind
                            /\ given[i].gpus # <<>> => groups[i].gpus = given[i].gpus
                            /\ given[i].count >= 1 => groups[i].count = given[i].count
    BY DEF ExplicitKept
  <2>1. Start = given
    BY DEF Start
  <2>2. DOMAIN groups = DOMAIN given
    BY <2>1, GroupsFacts
  <2>3. ASSUME NEW i \in DOMAIN given
        PROVE  /\ given[i].name # NoName => groups[i].name = given[i].name
               /\ given[i].kind # "KIND_AUTO" => groups[i].kind = given[i].kind
               /\ given[i].gpus # <<>> => groups[i].gpus = given[i].gpus
               /\ given[i].count >= 1 => groups[i].count = given[i].count
    <3>1. IsCompleted(groups[i], given[i], i, preferred, devices, backend)
      BY <2>1, GroupsFacts
    <3>2. given[i].kind # "KIND_AUTO" =>
            ResolveKind(given[i], devices).kind = given[i].kind
      BY DEF ResolveKind
    <3> QED
      BY <3>1, <3>2 DEF IsCompleted, GpusOf, CountOf
  <2> QED
    BY <2>2, <2>3
<1> QED
  BY <1>1, Invariance, PTL

\* A normalized configuration is normalized already
\* (model_config_utils.cc:298-408).
THEOREM NormalizedOnce == Spec => []Idempotent
<1>1. IInv => Idempotent
  <2> SUFFICES ASSUME IInv, Normalized
               PROVE  NormalizedGroups(groups) = groups
    BY DEF Idempotent
  <2> DEFINE Again(i) == Completed(groups[i], i, preferred, devices, backend)
  <2>1. /\ GetSupportedGPUs.gpus = devices
        /\ devices \in SUBSET Nat /\ IsFiniteSet(devices)
        /\ preferred \in Seq(Group)
    BY NormalizedFacts
  <2>2. /\ groups = [i \in DOMAIN Start |->
                       Completed(Start[i], i, preferred, devices, backend)]
        /\ DOMAIN Start = 1..Len(Start) /\ Len(Start) \in Nat \ {0}
        /\ \A i \in DOMAIN Start : Start[i] \in Groups(StartNames)
    BY GroupsFacts
  <2>3. ASSUME NEW i \in DOMAIN groups
        PROVE  Again(i) = groups[i]
    <3>1. i \in Nat /\ Start[i] \in Groups(StartNames)
      BY <2>2
    <3>2. groups[i] = Completed(Start[i], i, preferred, devices, backend)
      BY <2>2
    <3> QED
      BY <2>1, <3>1, <3>2, CompletedAgain
  <2>4. groups # <<>>
    BY <2>2
  <2>5. NormalizedGroups(groups) = [i \in DOMAIN groups |-> Again(i)]
    BY <2>1, <2>4 DEF NormalizedGroups, NormalizeInstanceGroup
  <2>6. groups = [i \in DOMAIN groups |-> groups[i]]
    BY <2>2
  <2> HIDE DEF Again
  <2> QED
    BY <2>3, <2>5, <2>6
<1> QED
  BY <1>1, Invariance, PTL

\* The preferred groups of the property are those of the lemmas.
LEMMA OfferingIs ==
    ASSUME preferred \in Seq(Group)
    PROVE  Offering = OfferingTo(preferred, devices, Len(preferred))
<1>1. DOMAIN preferred = 1..Len(preferred)
  OBVIOUS
<1> QED
  BY <1>1 DEF Offering, OfferingTo, Offers, Range

\* A group for GPUs that lists none gets those that the first preference with
\* any on this machine lists, or all there are (model_config_utils.cc:379-405).
THEOREM Placed == Spec => []PlacedAsPreferred
<1>1. IInv => PlacedAsPreferred
  <2> SUFFICES ASSUME IInv, Normalized, NEW i \in DOMAIN groups,
                      groups[i].kind = "KIND_GPU", Start[i].gpus = <<>>
               PROVE  Range(groups[i].gpus) =
                        IF Offering = {} THEN devices
                        ELSE Range(preferred[Min(Offering)].gpus) \cap devices
    BY DEF PlacedAsPreferred
  <2>1. /\ preferred \in Seq(Group)
        /\ devices \in SUBSET Nat /\ IsFiniteSet(devices)
    BY NormalizedFacts
  <2>2. IsCompleted(groups[i], Start[i], i, preferred, devices, backend)
    BY GroupsFacts
  <2>3. groups[i].gpus = GpusOf("KIND_GPU", <<>>, preferred, devices)
    BY <2>2 DEF IsCompleted
  <2>4. IsPlaced(groups[i].gpus, preferred, devices)
    BY <2>1, <2>3, GpusPlaced
  <2> QED
    BY <2>1, <2>4, OfferingIs DEF IsPlaced
<1> QED
  BY <1>1, Invariance, PTL

\* A count comes from the configuration, else from the first preference of the
\* kind that has one and is not passed over, else from the backend's default
\* (model_config_utils.cc:373-398).
THEOREM Counted == Spec => []CountAsPreferred
<1>1. IInv => CountAsPreferred
  <2> DEFINE Giving(i) == {j \in DOMAIN preferred :
                /\ preferred[j].kind = groups[i].kind
                /\ preferred[j].count > 0
                /\ \/ groups[i].kind # "KIND_GPU"
                   \/ Start[i].gpus # <<>>
                   \/ preferred[j].gpus = <<>>
                   \/ \E k \in Offering : k <= j}
  <2> SUFFICES ASSUME IInv, Normalized, NEW i \in DOMAIN groups
               PROVE  groups[i].count =
                        IF Start[i].count >= 1 THEN Start[i].count
                        ELSE IF Giving(i) # {} THEN preferred[Min(Giving(i))].count
                        ELSE IF groups[i].kind = "KIND_CPU" /\ backend = "onnxruntime"
                        THEN 2 ELSE 1
    BY DEF CountAsPreferred
  <2> DEFINE kind == groups[i].kind
             giv  == GivingTo(kind, Start[i].gpus, preferred, devices, Len(preferred))
  <2>1. preferred \in Seq(Group)
    BY NormalizedFacts
  <2>2. IsCompleted(groups[i], Start[i], i, preferred, devices, backend)
    BY GroupsFacts
  <2>3. groups[i].count = CountOf(kind, Start[i].gpus, Start[i].count,
                                 preferred, devices, backend)
    BY <2>2 DEF IsCompleted
  <2>4. Giving(i) = giv
    <3>1. DOMAIN preferred = 1..Len(preferred)
      BY <2>1
    <3>2. \A j \in 1..Len(preferred) : (\E k \in Offering : k <= j) <=>
             \E k \in 1..j : Offers(preferred[k], devices)
      BY <2>1, OfferingIs DEF OfferingTo
    <3> QED
      BY <3>1, <3>2 DEF GivingTo, Gives
  <2>5. backend \in ManyInstanceBackends <=> backend = "onnxruntime"
    BY DEF IInv, InputsOK, ManyInstanceBackends
  <2> HIDE DEF Giving
  <2> QED
    BY <2>3, <2>4, <2>5 DEF CountOf
<1> QED
  BY <1>1, Invariance, PTL

-----------------------------------------------------------------------------
(* Validation *)

\* The groups are accepted exactly if there is nothing wrong with any.
LEMMA AcceptedIs ==
    ASSUME NEW gs, DOMAIN gs \in SUBSET Nat, gs # <<>>,
           NEW query, query.ok
    PROVE  ValidateInstanceGroup(gs, query) = "accepted" <=>
             \A i \in DOMAIN gs : GroupError(gs[i], query.gpus) = "none"
<1> DEFINE wrong == {i \in DOMAIN gs : GroupError(gs[i], query.gpus) # "none"}
<1>1. CASE wrong = {}
  BY <1>1 DEF ValidateInstanceGroup
<1>2. CASE wrong # {}
  <2>1. wrong \in SUBSET Nat
    OBVIOUS
  <2>2. Min(wrong) \in wrong
    BY <1>2, <2>1, MinIsLeast
  <2>3. ValidateInstanceGroup(gs, query) = GroupError(gs[Min(wrong)], query.gpus)
    BY <1>2 DEF ValidateInstanceGroup
  <2>4. GroupError(gs[Min(wrong)], query.gpus) # "accepted"
    BY DEF GroupError
  <2> QED
    BY <1>2, <2>3, <2>4
<1> QED
  BY <1>1, <1>2

LEMMA NoErrorIs ==
    ASSUME NEW g, NEW supported
    PROVE  GroupError(g, supported) = "none" <=>
             \/ /\ g.kind = "KIND_GPU" /\ g.gpus # <<>>
                /\ Range(g.gpus) \subseteq supported
             \/ g.kind = "KIND_CPU" /\ g.gpus = <<>>
BY DEF GroupError, AllSupported

\* A configuration with a verdict, in terms of its groups.
LEMMA VerdictIs ==
    ASSUME IInv, Normalized, status # "normalized"
    PROVE  status = "accepted" <=>
             \A i \in DOMAIN groups : GroupError(groups[i], devices) = "none"
<1>1. /\ GetSupportedGPUs.ok
      /\ GetSupportedGPUs.gpus = devices
      /\ status = ValidateInstanceGroup(groups, GetSupportedGPUs)
  BY NormalizedFacts
<1>2. DOMAIN groups \in SUBSET Nat /\ groups # <<>>
  BY GroupsFacts
<1> QED
  BY <1>1, <1>2, AcceptedIs

\* An accepted configuration has instances to create, and places for them
\* (model_config_utils.cc:190-249).
THEOREM Placeable == Spec => []AcceptedPlaceable
<1>1. IInv => AcceptedPlaceable
  <2> SUFFICES ASSUME IInv, status = "accepted", ~ensemble
               PROVE  /\ groups # <<>>
                      /\ \A i \in DOMAIN groups :
                            /\ groups[i].count >= 1
                            /\ \/ /\ groups[i].kind = "KIND_GPU"
                                  /\ groups[i].gpus # <<>>
                                  /\ Range(groups[i].gpus) \subseteq devices
                               \/ groups[i].kind = "KIND_CPU" /\ groups[i].gpus = <<>>
    BY DEF AcceptedPlaceable
  <2>1. Normalized
    BY DEF Normalized
  <2>2. \A i \in DOMAIN groups : GroupError(groups[i], devices) = "none"
    BY <2>1, VerdictIs
  <2>3. groups # <<>>
    BY <2>1, GroupsFacts
  <2>4. ASSUME NEW i \in DOMAIN groups
        PROVE  groups[i].count >= 1
    <3>1. IsCompleted(groups[i], Start[i], i, preferred, devices, backend)
      BY <2>1, GroupsFacts
    <3> QED
      BY <3>1 DEF IsCompleted
  <2> QED
    BY <2>2, <2>3, <2>4, NoErrorIs
<1> QED
  BY <1>1, Invariance, PTL

LEMMA RangeOfEmpty == Range(<<>>) = {}
BY DEF Range

\* What a group must start from to pass validation.
Feasible(g) ==
    /\ g.kind # "KIND_MODEL"
    /\ g.kind = "KIND_CPU" => g.gpus = <<>>
    /\ g.kind = "KIND_GPU" => devices # {}
    /\ Range(g.gpus) \subseteq devices

\* That is what is documented, but for the departures.
LEMMA FeasibleDocumented ==
    ASSUME NEW g, g.kind \in Kinds
    PROVE  Feasible(g) <=> Documented(g) /\ ~Departing(g)
<1>1. CASE g.kind = "KIND_CPU"
  BY <1>1, RangeOfEmpty DEF Feasible, Documented, Departing
<1>2. CASE g.kind # "KIND_CPU"
  BY <1>2 DEF Feasible, Documented, Departing, Kinds
<1> QED
  BY <1>1, <1>2

\* A group passes exactly if what it started from is feasible.
LEMMA FeasibleIs ==
    ASSUME IInv, Normalized, NEW i \in DOMAIN groups
    PROVE  GroupError(groups[i], devices) = "none" <=> Feasible(Start[i])
<1> DEFINE g    == Start[i]
           c    == groups[i]
           kind == ResolveKind(g, devices).kind
<1>1. /\ devices \in SUBSET Nat /\ IsFiniteSet(devices)
      /\ preferred \in Seq(Group)
  BY NormalizedFacts
<1>2. g \in Groups(StartNames) /\ IsCompleted(c, g, i, preferred, devices, backend)
  BY GroupsFacts
<1> HIDE DEF g, c
<1>3. g.kind \in Kinds /\ g.gpus \in Seq(Int)
  BY <1>2 DEF Groups
<1>4. c.kind = kind /\ c.gpus = GpusOf(kind, g.gpus, preferred, devices)
  BY <1>2 DEF IsCompleted
<1>5. kind = IF g.kind # "KIND_AUTO" THEN g.kind
             ELSE IF devices # {} /\ Range(g.gpus) \subseteq devices
             THEN "KIND_GPU" ELSE "KIND_CPU"
  BY <1>2, ResolveFacts
<1> HIDE DEF kind
<1>6. g.gpus = <<>> <=> Range(g.gpus) = {}
  BY <1>3, RangeEmpty
<1>7. GroupError(c, devices) = "none" <=>
        \/ kind = "KIND_GPU" /\ devices # {} /\ Range(g.gpus) \subseteq devices
        \/ kind = "KIND_CPU" /\ g.gpus = <<>>
  <2>1. CASE kind = "KIND_GPU" /\ g.gpus = <<>>
    <3>1. IsPlaced(c.gpus, preferred, devices)
      BY <1>1, <1>4, <2>1, GpusPlaced
    <3>2. (c.gpus = <<>> <=> devices = {}) /\ Range(c.gpus) \subseteq devices
      BY <3>1 DEF IsPlaced
    <3> QED
      BY <1>4, <1>6, <2>1, <3>2, NoErrorIs
  <2>2. CASE kind # "KIND_GPU" \/ g.gpus # <<>>
    <3>1. c.gpus = g.gpus
      BY <1>4, <2>2, GpusKept
    <3> QED
      BY <1>4, <1>6, <2>2, <3>1, NoErrorIs
  <2> QED
    BY <2>1, <2>2
<1>8. Feasible(g) <=> /\ g.kind # "KIND_MODEL"
                      /\ g.kind = "KIND_CPU" => g.gpus = <<>>
                      /\ g.kind = "KIND_GPU" => devices # {}
                      /\ Range(g.gpus) \subseteq devices
  BY DEF Feasible
<1>9. GroupError(c, devices) = "none" <=> Feasible(g)
  <2>1. CASE g.kind = "KIND_AUTO"
    BY <1>5, <1>6, <1>7, <1>8, <2>1
  <2>2. CASE g.kind = "KIND_GPU"
    BY <1>5, <1>7, <1>8, <2>2
  <2>3. CASE g.kind = "KIND_CPU"
    BY <1>5, <1>6, <1>7, <1>8, <2>3
  <2>4. CASE g.kind = "KIND_MODEL"
    BY <1>5, <1>7, <1>8, <2>4
  <2> QED
    BY <1>3, <2>1, <2>2, <2>3, <2>4 DEF Kinds
<1> QED
  BY <1>9 DEF g, c

\* The group made for a configuration that gives none passes, unless it is made
\* from a preference that departs from the documents.
LEMMA DefaultPasses ==
    ASSUME devices \in SUBSET Nat, preferred \in Seq(Group),
           UsableNow # {} => ~Departing(preferred[Min(UsableNow)])
    PROVE  Feasible(DefaultGroup(preferred, devices))
<1> DEFINE d      == DefaultGroup(preferred, devices)
           usable == UsableOf(preferred, devices)
           pg     == preferred[Min(usable)]
<1>1. /\ usable = {} => d = NewGroup
      /\ usable # {} =>
            /\ pg \in Group
            /\ Usable(pg, devices)
            /\ d.kind = pg.kind
            /\ pg.kind = "KIND_GPU" => Range(d.gpus) \subseteq devices
            /\ pg.kind = "KIND_AUTO" => d.gpus = pg.gpus
            /\ pg.kind \notin {"KIND_GPU", "KIND_AUTO"} => d.gpus = <<>>
  BY DefaultFacts
<1>2. usable # {} => ~Departing(pg)
  <2>1. UsableNow = usable
    BY DEF UsableNow, UsableOf, Usable
  <2> QED
    BY <2>1
<1>3. Feasible(d) <=> /\ d.kind # "KIND_MODEL"
                      /\ d.kind = "KIND_CPU" => d.gpus = <<>>
                      /\ d.kind = "KIND_GPU" => devices # {}
                      /\ Range(d.gpus) \subseteq devices
  BY DEF Feasible
<1> HIDE DEF d, usable, pg
<1>4. CASE usable = {}
  <2>1. d.kind = "KIND_AUTO" /\ d.gpus = <<>>
    BY <1>1, <1>4 DEF NewGroup
  <2> QED
    BY <1>3, <2>1, RangeOfEmpty DEF d
<1>5. CASE usable # {}
  <2>1. pg.kind \in Kinds
    BY <1>1, <1>5 DEF Group
  <2>2. pg.kind = "KIND_GPU" => devices # {}
    BY <1>1, <1>5 DEF Usable
  <2>3. d.kind = pg.kind
    BY <1>1, <1>5
  <2>4. Feasible(d)
    <3>1. CASE pg.kind = "KIND_AUTO"
      BY <1>1, <1>2, <1>3, <1>5, <2>3, <3>1 DEF Departing
    <3>2. CASE pg.kind = "KIND_GPU"
      BY <1>1, <1>3, <1>5, <2>2, <2>3, <3>2
    <3>3. CASE pg.kind = "KIND_CPU"
      BY <1>1, <1>3, <1>5, <2>3, <3>3, RangeOfEmpty
    <3>4. CASE pg.kind = "KIND_MODEL"
      BY <1>2, <1>5, <3>4 DEF Departing
    <3> QED
      BY <2>1, <3>1, <3>2, <3>3, <3>4 DEF Kinds
  <2> QED
    BY <2>4 DEF d
<1> QED
  BY <1>4, <1>5

\* Validation accepts nothing that the documents exclude, and all that they let a
\* group ask for but for the two departures (model_config_utils.cc:316-343,
\* 190-249).
THEOREM Accepted == Spec => []DocumentedAccepted
<1>1. IInv => DocumentedAccepted
  <2> SUFFICES ASSUME IInv, Normalized, status # "normalized"
               PROVE  /\ status = "accepted" =>
                            \A i \in DOMAIN given : Documented(given[i])
                      /\ /\ \A i \in DOMAIN given :
                               Documented(given[i]) /\ ~Departing(given[i])
                         /\ given = <<>> /\ UsableNow # {} =>
                               ~Departing(preferred[Min(UsableNow)])
                         => status = "accepted"
    BY DEF DocumentedAccepted, Normalized
  <2>1. status = "accepted" <=> \A i \in DOMAIN groups : Feasible(Start[i])
    BY VerdictIs, FeasibleIs
  <2>2. DOMAIN groups = DOMAIN Start
    BY GroupsFacts
  <2>3. CASE given # <<>>
    <3>1. Start = given
      BY <2>3 DEF Start
    <3>2. ASSUME NEW i \in DOMAIN given
          PROVE  Feasible(given[i]) <=>
                   Documented(given[i]) /\ ~Departing(given[i])
      <4>1. Start[i] \in Groups(StartNames)
        BY <2>2, <3>1, <3>2, GroupsFacts
      <4>2. given[i].kind \in Kinds
        BY <3>1, <4>1 DEF Groups
      <4> QED
        BY <4>2, FeasibleDocumented
    <3> QED
      BY <2>1, <2>2, <2>3, <3>1, <3>2
  <2>4. CASE given = <<>>
    <3>1. /\ GetSupportedGPUs.gpus = devices
          /\ devices \in SUBSET Nat /\ preferred \in Seq(Group)
      BY NormalizedFacts
    <3>2. Start = <<DefaultGroup(preferred, devices)>>
      BY <2>4, <3>1 DEF Start
    <3>3. DOMAIN Start = {1} /\ Start[1] = DefaultGroup(preferred, devices)
      BY <3>2
    <3>4. status = "accepted" <=> Feasible(DefaultGroup(preferred, devices))
      BY <2>1, <2>2, <3>3
    <3>5. (UsableNow # {} => ~Departing(preferred[Min(UsableNow)])) =>
            Feasible(DefaultGroup(preferred, devices))
      BY <3>1, DefaultPasses
    <3>6. \A i \in DOMAIN given : Documented(given[i])
      BY <2>4
    <3> QED
      BY <2>4, <3>4, <3>5, <3>6
  <2> QED
    BY <2>3, <2>4
<1> QED
  BY <1>1, Invariance, PTL
=============================================================================
