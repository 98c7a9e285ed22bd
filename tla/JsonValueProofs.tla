-------------------------- MODULE JsonValueProofs --------------------------
(***************************************************************************)
(* What Json::Value promises about the memory of its documents, for any    *)
(* number of values, documents and elements.                               *)
(***************************************************************************)
EXTENDS JsonValue, NatRecursion

-----------------------------------------------------------------------------
(* Reachability *)

\* What the recursive function of Reach computes.
Further(near, m) == near \cup UNION {Kids(m[a]) : a \in near}
IsReach(from, m) ==
    from = [near \in SUBSET Addresses |->
               LET further == near \cup UNION {Kids(m[a]) : a \in near}
               IN IF further = near THEN near ELSE from[further]]

\* The addresses that are in every set around near which no table leads out of.
Around(near, m) ==
    {T \in SUBSET Addresses :
        near \subseteq T /\ \A a \in T : Kids(m[a]) \subseteq T}
Least(near, m) == {a \in Addresses : \A T \in Around(near, m) : a \in T}

LEMMA LeastFacts ==
    ASSUME NEW m, \A a \in Addresses : Kids(m[a]) \subseteq Addresses,
           NEW near \in SUBSET Addresses
    PROVE  /\ near \subseteq Least(near, m)
           /\ Least(near, m) \in Around(near, m)
           /\ Further(near, m) \in SUBSET Addresses
           /\ Further(near, m) = near => Least(near, m) = near
           /\ Least(Further(near, m), m) = Least(near, m)
<1>1. near \subseteq Least(near, m)
  BY DEF Least, Around
<1>2. ASSUME NEW a \in Least(near, m)
      PROVE  Kids(m[a]) \subseteq Least(near, m)
  <2>1. a \in Addresses /\ Kids(m[a]) \subseteq Addresses
    BY DEF Least
  <2>2. \A T \in Around(near, m) : Kids(m[a]) \subseteq T
    BY DEF Least, Around
  <2> QED
    BY <2>1, <2>2 DEF Least
<1>3. Least(near, m) \in Around(near, m)
  BY <1>1, <1>2 DEF Around, Least
<1>4. Further(near, m) \in SUBSET Addresses
  BY DEF Further
<1>5. ASSUME Further(near, m) = near
      PROVE  Least(near, m) = near
  <2>1. near \in Around(near, m)
    BY <1>5 DEF Around, Further
  <2> QED
    BY <1>1, <2>1 DEF Least
<1>6. Around(Further(near, m), m) = Around(near, m)
  <2>1. near \subseteq Further(near, m)
    BY DEF Further
  <2>2. ASSUME NEW T \in Around(near, m)
        PROVE  Further(near, m) \subseteq T
    BY DEF Around, Further
  <2> QED
    BY <2>1, <2>2 DEF Around
<1>7. Least(Further(near, m), m) = Least(near, m)
  BY <1>6 DEF Least
<1> QED
  BY <1>1, <1>3, <1>4, <1>5, <1>7

LEMMA ReachExists ==
    ASSUME NEW m, \A a \in Addresses : Kids(m[a]) \subseteq Addresses
    PROVE  \E from : IsReach(from, m)
<1> DEFINE least == [near \in SUBSET Addresses |-> Least(near, m)]
<1>1. ASSUME NEW near \in SUBSET Addresses
      PROVE  least[near] = IF Further(near, m) = near THEN near
                           ELSE least[Further(near, m)]
  BY LeastFacts
<1>2. least = [near \in SUBSET Addresses |->
                  IF Further(near, m) = near THEN near
                  ELSE least[Further(near, m)]]
  BY <1>1
<1> HIDE DEF least
<1>3. IsReach(least, m)
  BY <1>2 DEF IsReach, Further
<1> QED
  BY <1>3

Rest(near) == Cardinality(Addresses \ near)

\* There is only one such function: the sets it is applied to grow.
LEMMA ReachUnique ==
    ASSUME NEW m, \A a \in Addresses : Kids(m[a]) \subseteq Addresses,
           NEW from, IsReach(from, m)
    PROVE  \A near \in SUBSET Addresses : from[near] = Least(near, m)
<1> DEFINE N == {n \in Nat : \A near \in SUBSET Addresses :
                    Rest(near) <= n => from[near] = Least(near, m)}
<1>1. ASSUME NEW near \in SUBSET Addresses
      PROVE  /\ IsFiniteSet(Addresses \ near)
             /\ Rest(near) \in Nat
             /\ from[near] = IF Further(near, m) = near THEN near
                             ELSE from[Further(near, m)]
  <2>1. IsFiniteSet(Addresses \ near)
    BY AddressesAssumption, FS_Subset
  <2> QED
    BY <2>1, FS_CardinalityType DEF IsReach, Further, Rest
<1>2. ASSUME NEW near \in SUBSET Addresses, Further(near, m) # near
      PROVE  Rest(Further(near, m)) < Rest(near)
  <2>1. near \subseteq Further(near, m) /\ Further(near, m) \subseteq Addresses
    BY LeastFacts DEF Further
  <2>2. Addresses \ Further(near, m) \subseteq Addresses \ near
    BY <2>1
  <2>3. Addresses \ Further(near, m) # Addresses \ near
    BY <1>2, <2>1
  <2>4. IsFiniteSet(Addresses \ near)
    BY <1>1
  <2>5. /\ Rest(Further(near, m)) <= Rest(near)
        /\ Rest(Further(near, m)) # Rest(near)
    BY <2>2, <2>3, <2>4, FS_Subset DEF Rest
  <2>6. Further(near, m) \in SUBSET Addresses
    BY <2>1
  <2>7. Rest(near) \in Nat /\ Rest(Further(near, m)) \in Nat
    BY <1>1, <2>6
  <2> QED
    BY <2>5, <2>7
<1>3. 0 \in N
  <2> SUFFICES ASSUME NEW near \in SUBSET Addresses, Rest(near) <= 0
               PROVE  from[near] = Least(near, m)
    OBVIOUS
  <2>1. Further(near, m) \in SUBSET Addresses
    BY LeastFacts
  <2>2. Rest(near) \in Nat /\ Rest(Further(near, m)) \in Nat
    BY <1>1, <2>1
  <2>3. Further(near, m) = near
    BY <1>2, <2>2
  <2> QED
    BY <1>1, <2>3, LeastFacts
<1>4. ASSUME NEW n \in Nat, n \in N
      PROVE  n + 1 \in N
  <2> SUFFICES ASSUME NEW near \in SUBSET Addresses, Rest(near) <= n + 1
               PROVE  from[near] = Least(near, m)
    OBVIOUS
  <2>1. Further(near, m) \in SUBSET Addresses
    BY LeastFacts
  <2>2. CASE Further(near, m) = near
    BY <1>1, <2>2, LeastFacts
  <2>3. CASE Further(near, m) # near
    <3>1. Rest(Further(near, m)) <= n
      <4>1. Rest(near) \in Nat /\ Rest(Further(near, m)) \in Nat
        BY <1>1, <2>1
      <4> QED
        BY <1>2, <2>3, <4>1
    <3>2. from[Further(near, m)] = Least(Further(near, m), m)
      BY <1>4, <2>1, <3>1
    <3> QED
      BY <1>1, <2>3, <3>2, LeastFacts
  <2> QED
    BY <2>2, <2>3
<1> HIDE DEF N
<1>5. Nat \subseteq N
  BY <1>3, <1>4, SetInduction
<1>6. ASSUME NEW near \in SUBSET Addresses
      PROVE  from[near] = Least(near, m)
  <2>1. Rest(near) \in Nat /\ Rest(near) \in N
    BY <1>1, <1>5
  <2> QED
    BY <2>1 DEF N
<1> QED
  BY <1>6

LEMMA ReachIsLeast ==
    ASSUME NEW m, \A a \in Addresses : Kids(m[a]) \subseteq Addresses,
           NEW S \in SUBSET Addresses
    PROVE  Reach(S, m) = Least(S, m)
<1> DEFINE from == CHOOSE f : IsReach(f, m)
<1>1. IsReach(from, m)
  BY ReachExists
<1>2. Reach(S, m) = from[S]
  BY DEF Reach, IsReach
<1> HIDE DEF from
<1> QED
  BY <1>1, <1>2, ReachUnique

\* What is reached holds what it started from, is closed, and lies in every
\* closed set around that.
LEMMA ReachFacts ==
    ASSUME NEW m, \A a \in Addresses : Kids(m[a]) \subseteq Addresses,
           NEW S \in SUBSET Addresses
    PROVE  /\ S \subseteq Reach(S, m)
           /\ Reach(S, m) \subseteq Addresses
           /\ \A a \in Reach(S, m) : Kids(m[a]) \subseteq Reach(S, m)
           /\ \A T \in SUBSET Addresses :
                 S \subseteq T /\ (\A a \in T : Kids(m[a]) \subseteq T)
                     => Reach(S, m) \subseteq T
<1>1. Reach(S, m) = Least(S, m)
  BY ReachIsLeast
<1>2. S \subseteq Least(S, m) /\ Least(S, m) \in Around(S, m)
  BY LeastFacts
<1>3. ASSUME NEW T \in SUBSET Addresses,
             S \subseteq T, \A a \in T : Kids(m[a]) \subseteq T
      PROVE  Least(S, m) \subseteq T
  BY <1>3 DEF Least, Around
<1> QED
  BY <1>1, <1>2, <1>3 DEF Around

-----------------------------------------------------------------------------
(* The tables of documents and elements *)

\* The tables in values vs and memory m, and what pool they belong to.
Tabs(vs, m) == [t \in Tables |-> IF t[1] = "root" THEN vs[t[2]].root ELSE m[t[2]]]
Owns(vs, h) == [t \in Tables |-> IF t[1] = "root" THEN vs[t[2]].alloc ELSE h[t[2]]]

\* The table that a value stands for.
At(vs, v) == IF vs[v].ref = None THEN <<"root", v>> ELSE <<"mem", vs[v].ref>>

\* A content that is a table has as many names as elements, and a pool.
Fit(c, owner) ==
    /\ Len(c.names) = Len(c.elems)
    /\ owner = None => c.kind \notin {"object", "array"}

\* What documents have in common, when those in X exchanged contents.
LEMMA JoinedFacts ==
    ASSUME NEW X
    PROVE  /\ \A p : Joined(p, p, X)
           /\ \A p, q : Joined(p, q, X) => Joined(q, p, X)
           /\ \A p, q, o : Joined(p, q, X) /\ Joined(q, o, X) => Joined(p, o, X)
           /\ \A p, q : X \subseteq Pools /\ Joined(p, q, X)
                           => (p = None <=> q = None)
  BY PoolsAssumption DEF Joined

LEMMA JoinedNone ==
    ASSUME NEW X, X \subseteq Pools, NEW p, NEW q, Joined(p, q, X)
    PROVE  p = None <=> q = None
  BY PoolsAssumption DEF Joined

LEMMA JoinedBoth ==
    ASSUME NEW X, NEW p, NEW q, NEW o, Joined(p, o, X), Joined(q, o, X)
    PROVE  Joined(p, q, X)
  BY DEF Joined

LEMMA JoinedMore ==
    ASSUME NEW X, NEW Y, X \subseteq Y, NEW p, NEW q, Joined(p, q, X)
    PROVE  Joined(p, q, Y)
  BY DEF Joined

\* The slots of each table are in the table's pool, or in one of a document
\* that exchanged contents with it; no two are the same and none is its own.
Sound(tab, own, h, X) ==
    /\ X \subseteq Pools
    /\ tab \in [Tables -> Contents]
    /\ \A t \in Tables :
          /\ Fit(tab[t], own[t])
          /\ \A i \in 1..Len(tab[t].elems) :
                /\ Joined(h[tab[t].elems[i]], own[t], X) /\ own[t] # None
                /\ t # <<"mem", tab[t].elems[i]>>
    /\ \A t, u \in Tables :
          \A i \in 1..Len(tab[t].elems), j \in 1..Len(tab[u].elems) :
             tab[t].elems[i] = tab[u].elems[j] => t = u /\ i = j

\* An element is no member of itself.
LEMMA SlotApart ==
    ASSUME NEW tab, NEW own, NEW h, NEW X, Sound(tab, own, h, X),
           NEW t, t \in Tables, NEW i, i \in 1..Len(tab[t].elems)
    PROVE  t # <<"mem", tab[t].elems[i]>>
  BY DEF Sound

LEMMA ContentsFacts ==
    ASSUME NEW c \in Contents
    PROVE  /\ c.names \in Seq(Names \cup {Item})
           /\ c.elems \in Seq(Addresses)
           /\ Len(c.elems) \in Nat /\ Len(c.names) \in Nat
           /\ \A i \in 1..Len(c.elems) : c.elems[i] \in Addresses
           /\ \A i \in 1..Len(c.names) : c.names[i] \in Names \cup {Item}
  BY DEF Contents

LEMMA EmptyContents ==
    /\ Null \in Contents /\ Null.elems = <<>> /\ Null.names = <<>>
    /\ Null.kind = "null"
    /\ \A x \in Scalars : /\ Scalar(x) \in Contents
                          /\ Scalar(x).elems = <<>> /\ Scalar(x).names = <<>>
                          /\ Scalar(x).kind = "scalar"
    /\ \A kind \in {"object", "array"} :
          /\ EmptyTable(kind) \in Contents
          /\ EmptyTable(kind).elems = <<>> /\ EmptyTable(kind).names = <<>>
          /\ EmptyTable(kind).kind = kind
  BY DEF Contents, Content, Null, Scalar, EmptyTable

\* What content d keeps of content c when its pool goes from o to o2: a first
\* part of the slots, each in its pool.
Thinner(d, o2, h2, c, o, h) ==
    /\ Fit(d, o2)
    /\ Len(d.elems) <= Len(c.elems)
    /\ \A i \in 1..Len(d.elems) :
          d.elems[i] = c.elems[i] /\ o2 = o /\ h2[c.elems[i]] = h[c.elems[i]]

\* Tables that keep the first of their slots, or lose all, stay sound.
LEMMA Thinned ==
    ASSUME NEW tab, NEW own, NEW h, NEW X, Sound(tab, own, h, X),
           NEW tab2 \in [Tables -> Contents], NEW own2, NEW h2,
           \A t \in Tables : Thinner(tab2[t], own2[t], h2, tab[t], own[t], h)
    PROVE  Sound(tab2, own2, h2, X)
<1> USE DEF Thinner
<1>1. ASSUME NEW t \in Tables, NEW i \in 1..Len(tab2[t].elems)
      PROVE  i \in 1..Len(tab[t].elems) /\ tab2[t].elems[i] = tab[t].elems[i]
  <2>1. tab[t] \in Contents /\ tab2[t] \in Contents
    BY DEF Sound
  <2>2. Len(tab[t].elems) \in Nat /\ Len(tab2[t].elems) \in Nat
    BY <2>1, ContentsFacts
  <2> QED
    BY <2>2
<1>2. ASSUME NEW t \in Tables, NEW i \in 1..Len(tab2[t].elems)
      PROVE  /\ Joined(h2[tab2[t].elems[i]], own2[t], X) /\ own2[t] # None
             /\ t # <<"mem", tab2[t].elems[i]>>
  <2>1. i \in 1..Len(tab[t].elems) /\ tab2[t].elems[i] = tab[t].elems[i]
    BY <1>1
  <2>2. /\ Joined(h[tab[t].elems[i]], own[t], X) /\ own[t] # None
        /\ t # <<"mem", tab[t].elems[i]>>
    BY <2>1 DEF Sound
  <2>3. own2[t] = own[t] /\ h2[tab[t].elems[i]] = h[tab[t].elems[i]]
    OBVIOUS
  <2> QED
    BY <2>1, <2>2, <2>3
<1>3. ASSUME NEW t \in Tables, NEW u \in Tables,
             NEW i \in 1..Len(tab2[t].elems), NEW j \in 1..Len(tab2[u].elems),
             tab2[t].elems[i] = tab2[u].elems[j]
      PROVE  t = u /\ i = j
  <2>1. i \in 1..Len(tab[t].elems) /\ j \in 1..Len(tab[u].elems)
    BY <1>1
  <2>2. tab[t].elems[i] = tab[u].elems[j]
    BY <1>1, <1>3
  <2> QED
    BY <2>1, <2>2 DEF Sound
<1>4. X \subseteq Pools
  BY DEF Sound
<1> QED
  BY <1>2, <1>3, <1>4 DEF Sound

\* So do tables that change places within their pool, or their joined pools.
LEMMA Exchanged ==
    ASSUME NEW tab, NEW own, NEW h, NEW X, Sound(tab, own, h, X),
           NEW from \in [Tables -> Tables],
           \A t, u \in Tables : from[t] = from[u] => t = u,
           NEW tab2 \in [Tables -> Contents], NEW own2,
           \A t \in Tables :
              tab2[t] = tab[from[t]] /\ Joined(own2[t], own[from[t]], X),
           \A t \in Tables : \A i \in 1..Len(tab2[t].elems) :
              t # <<"mem", tab2[t].elems[i]>>
    PROVE  Sound(tab2, own2, h, X)
<1>1. ASSUME NEW t \in Tables
      PROVE  /\ Fit(tab2[t], own2[t])
             /\ \A i \in 1..Len(tab2[t].elems) :
                   Joined(h[tab2[t].elems[i]], own2[t], X) /\ own2[t] # None
  <2>1. from[t] \in Tables /\ X \subseteq Pools
    BY DEF Sound
  <2>2. /\ Fit(tab[from[t]], own[from[t]])
        /\ \A i \in 1..Len(tab[from[t]].elems) :
              /\ Joined(h[tab[from[t]].elems[i]], own[from[t]], X)
              /\ own[from[t]] # None
    BY <2>1 DEF Sound
  <2>3. own2[t] = None <=> own[from[t]] = None
    BY <2>1, JoinedNone
  <2>4. Fit(tab2[t], own2[t])
    BY <2>2, <2>3 DEF Fit
  <2>5. ASSUME NEW i \in 1..Len(tab2[t].elems)
        PROVE  Joined(h[tab2[t].elems[i]], own2[t], X) /\ own2[t] # None
    <3>1. /\ Joined(h[tab2[t].elems[i]], own[from[t]], X)
          /\ Joined(own[from[t]], own2[t], X)
      BY <2>2, JoinedFacts
    <3> QED
      BY <2>2, <2>3, <3>1, JoinedFacts
  <2> QED
    BY <2>4, <2>5
<1>2. ASSUME NEW t \in Tables, NEW u \in Tables,
             NEW i \in 1..Len(tab2[t].elems), NEW j \in 1..Len(tab2[u].elems),
             tab2[t].elems[i] = tab2[u].elems[j]
      PROVE  t = u /\ i = j
  <2>1. from[t] = from[u] /\ i = j
    BY <1>2 DEF Sound
  <2> QED
    BY <2>1
<1>3. X \subseteq Pools
  BY DEF Sound
<1> QED
  BY <1>1, <1>2, <1>3 DEF Sound

\* More documents may have exchanged contents than have.
LEMMA Widened ==
    ASSUME NEW tab, NEW own, NEW h, NEW X, Sound(tab, own, h, X),
           NEW Y, X \subseteq Y, Y \subseteq Pools
    PROVE  Sound(tab, own, h, Y)
<1>1. ASSUME NEW t \in Tables, NEW i \in 1..Len(tab[t].elems)
      PROVE  /\ Joined(h[tab[t].elems[i]], own[t], Y) /\ own[t] # None
             /\ t # <<"mem", tab[t].elems[i]>>
  <2>1. /\ Joined(h[tab[t].elems[i]], own[t], X) /\ own[t] # None
        /\ t # <<"mem", tab[t].elems[i]>>
    BY DEF Sound
  <2> QED
    BY <2>1, JoinedMore
<1> QED
  BY <1>1 DEF Sound

\* What is no slot of any table.
Unused(tab, s) ==
    \A t \in Tables : \A i \in 1..Len(tab[t].elems) : tab[t].elems[i] # s

LEMMA FreeUnused ==
    ASSUME NEW tab, NEW own, NEW h, NEW X, Sound(tab, own, h, X),
           NEW s, h[s] = None
    PROVE  Unused(tab, s)
<1> SUFFICES ASSUME NEW t \in Tables, NEW i \in 1..Len(tab[t].elems)
             PROVE  tab[t].elems[i] # s
  BY DEF Unused
<1>1. Joined(h[tab[t].elems[i]], own[t], X) /\ own[t] # None /\ X \subseteq Pools
  BY DEF Sound
<1> QED
  BY <1>1, JoinedFacts

\* A table c with one more slot s.
With(c, name, s) ==
    [c EXCEPT !.names = Append(@, name), !.elems = Append(@, s)]

LEMMA WithFacts ==
    ASSUME NEW c \in Contents, NEW name \in Names \cup {Item}, NEW s \in Addresses
    PROVE  /\ With(c, name, s) \in Contents
           /\ With(c, name, s).kind = c.kind
           /\ Len(With(c, name, s).names) = Len(c.names) + 1
           /\ Len(With(c, name, s).elems) = Len(c.elems) + 1
           /\ \A i \in 1..Len(c.elems) : With(c, name, s).elems[i] = c.elems[i]
           /\ \A i \in 1..Len(c.names) : With(c, name, s).names[i] = c.names[i]
           /\ With(c, name, s).elems[Len(c.elems) + 1] = s
           /\ With(c, name, s).names[Len(c.names) + 1] = name
<1>1. /\ With(c, name, s).names = Append(c.names, name)
      /\ With(c, name, s).elems = Append(c.elems, s)
      /\ With(c, name, s).kind = c.kind
      /\ With(c, name, s).scalar = c.scalar
  BY DEF With, Contents
<1>2. /\ Append(c.names, name) \in Seq(Names \cup {Item})
      /\ Append(c.elems, s) \in Seq(Addresses)
  BY ContentsFacts
<1>3. With(c, name, s) \in Contents
  BY <1>2 DEF With, Contents
<1> QED
  BY <1>1, <1>3, ContentsFacts

\* A slot of no table may be added to a table of its pool.
LEMMA Linked ==
    ASSUME NEW tab, NEW own, NEW h, NEW X, Sound(tab, own, h, X),
           NEW s \in Addresses, Unused(tab, s), NEW name \in Names \cup {Item},
           NEW t \in Tables, t # <<"mem", s>>,
           Joined(h[s], own[t], X), own[t] # None
    PROVE  Sound([tab EXCEPT ![t] = With(tab[t], name, s)], own, h, X)
<1> DEFINE c == tab[t]
           d == With(c, name, s)
           tab2 == [tab EXCEPT ![t] = d]
           n == Len(c.elems)
<1>1. c \in Contents /\ n \in Nat
  BY ContentsFacts DEF Sound
<1>2. /\ d \in Contents /\ d.kind = c.kind
      /\ Len(d.names) = Len(c.names) + 1 /\ Len(d.elems) = n + 1
      /\ \A i \in 1..n : d.elems[i] = c.elems[i]
      /\ d.elems[n + 1] = s
  <2> HIDE DEF c
  <2> QED
    BY SMTT(30), <1>1, WithFacts DEF d, n
<1>3. /\ tab2 \in [Tables -> Contents] /\ tab2[t] = d
      /\ \A u \in Tables \ {t} : tab2[u] = tab[u]
  BY <1>2 DEF Sound
<1>4. Fit(d, own[t])
  BY <1>2 DEF Sound, Fit
<1> HIDE DEF d, tab2
<1>5. ASSUME NEW u \in Tables, NEW i \in 1..Len(tab2[u].elems)
      PROVE  \/ u = t /\ i = n + 1 /\ tab2[u].elems[i] = s
             \/ i \in 1..Len(tab[u].elems) /\ tab2[u].elems[i] = tab[u].elems[i]
  <2>1. CASE u = t
    <3>1. i \in 1..n + 1
      BY <1>2, <1>3, <2>1
    <3>2. i = n + 1 \/ i \in 1..n
      BY <1>1, <3>1
    <3> QED
      BY <1>2, <1>3, <2>1, <3>2
  <2>2. CASE u # t
    BY <1>3, <2>2
  <2> QED
    BY <2>1, <2>2
<1>6. ASSUME NEW u \in Tables, NEW i \in 1..Len(tab2[u].elems)
      PROVE  /\ Joined(h[tab2[u].elems[i]], own[u], X) /\ own[u] # None
             /\ u # <<"mem", tab2[u].elems[i]>>
  BY <1>5 DEF Sound
<1>7. ASSUME NEW u \in Tables, NEW w \in Tables,
             NEW i \in 1..Len(tab2[u].elems), NEW j \in 1..Len(tab2[w].elems),
             tab2[u].elems[i] = tab2[w].elems[j]
      PROVE  u = w /\ i = j
  <2>1. CASE tab2[u].elems[i] = s
    <3>1. u = t /\ i = n + 1
      BY <1>5, <2>1 DEF Unused
    <3>2. tab2[w].elems[j] = s
      BY <1>7, <2>1
    <3>3. w = t /\ j = n + 1
      BY <1>5, <3>2 DEF Unused
    <3> QED
      BY <3>1, <3>3
  <2>2. CASE tab2[u].elems[i] # s
    <3>1. i \in 1..Len(tab[u].elems) /\ tab2[u].elems[i] = tab[u].elems[i]
      BY <1>5, <2>2
    <3>2. j \in 1..Len(tab[w].elems) /\ tab2[w].elems[j] = tab[w].elems[j]
      BY <1>5, <1>7, <2>2
    <3>3. tab[u].elems[i] = tab[w].elems[j]
      BY <1>7, <3>1, <3>2
    <3> QED
      BY <3>1, <3>2, <3>3 DEF Sound
  <2> QED
    BY <2>1, <2>2
<1>8. ASSUME NEW u \in Tables
      PROVE  Fit(tab2[u], own[u])
  BY <1>3, <1>4 DEF Sound
<1>9. Sound(tab2, own, h, X)
  <2>1. X \subseteq Pools
    BY DEF Sound
  <2> QED
    BY <1>3, <1>6, <1>7, <1>8, <2>1 DEF Sound
<1> QED
  BY <1>9 DEF tab2, d

-----------------------------------------------------------------------------
(* The inductive invariant *)

\* TypeOK, of values vs, memory m and pools h.
Typed(vs, m, h) ==
    /\ vs \in [Values -> [pool : Pools \cup {None}, root : Contents,
                          ref : Addresses \cup {None}, alloc : Pools \cup {None}]]
    /\ m \in [Addresses -> Contents]
    /\ h \in [Addresses -> Pools \cup {None}]

Documents(vs) ==
    \A v \in Values :
        /\ vs[v].pool # None => vs[v].ref = None /\ vs[v].alloc = vs[v].pool
        /\ vs[v].alloc # None => vs[v].ref # None \/ vs[v].pool # None
        /\ \A w \in Values \ {v} : vs[v].pool = None \/ vs[v].pool # vs[w].pool

\* A value refers to an element of the document that it takes its memory from,
\* or of one joined with it.
References(vs, h, X) ==
    \A v \in Values :
        vs[v].ref # None =>
            Joined(h[vs[v].ref], vs[v].alloc, X) /\ vs[v].alloc # None

Good(vs, m, h, X) ==
    /\ Typed(vs, m, h)
    /\ Documents(vs)
    /\ References(vs, h, X)
    /\ Sound(Tabs(vs, m), Owns(vs, h), h, X)

IInv == Good(values, mem, home, crossed)

LEMMA TableCases ==
    /\ \A t \in Tables : \/ \E v \in Values : t = <<"root", v>>
                         \/ \E a \in Addresses : t = <<"mem", a>>
    /\ \A v \in Values : <<"root", v>> \in Tables
    /\ \A a \in Addresses : <<"mem", a>> \in Tables
    /\ \A v, a : <<"root", v>> # <<"mem", a>>
    /\ \A v, w : <<"root", v>> = <<"root", w>> => v = w
    /\ \A a, b : <<"mem", a>> = <<"mem", b>> => a = b
<1>1. /\ \A v, a : <<"root", v>> # <<"mem", a>>
      /\ \A v, w : <<"root", v>> = <<"root", w>> => v = w
      /\ \A a, b : <<"mem", a>> = <<"mem", b>> => a = b
  OBVIOUS
<1>2. /\ \A t \in Tables : \/ \E v \in Values : t = <<"root", v>>
                           \/ \E a \in Addresses : t = <<"mem", a>>
      /\ \A v \in Values : <<"root", v>> \in Tables
      /\ \A a \in Addresses : <<"mem", a>> \in Tables
  BY DEF Tables
<1> QED
  BY <1>1, <1>2

LEMMA TabsAt ==
    ASSUME NEW vs, NEW m
    PROVE  /\ \A v \in Values : Tabs(vs, m)[<<"root", v>>] = vs[v].root
           /\ \A a \in Addresses : Tabs(vs, m)[<<"mem", a>>] = m[a]
  BY TableCases DEF Tabs

LEMMA OwnsAt ==
    ASSUME NEW vs, NEW h
    PROVE  /\ \A v \in Values : Owns(vs, h)[<<"root", v>>] = vs[v].alloc
           /\ \A a \in Addresses : Owns(vs, h)[<<"mem", a>>] = h[a]
  BY TableCases DEF Owns

LEMMA TypedFacts ==
    ASSUME NEW vs, NEW m, NEW h, Typed(vs, m, h)
    PROVE  /\ \A v \in Values : /\ vs[v].pool \in Pools \cup {None}
                                /\ vs[v].root \in Contents
                                /\ vs[v].ref \in Addresses \cup {None}
                                /\ vs[v].alloc \in Pools \cup {None}
           /\ \A a \in Addresses : m[a] \in Contents /\ h[a] \in Pools \cup {None}
  BY DEF Typed

LEMMA TabsType ==
    ASSUME NEW vs, NEW m, NEW h, Typed(vs, m, h)
    PROVE  Tabs(vs, m) \in [Tables -> Contents]
<1>1. ASSUME NEW t \in Tables
      PROVE  Tabs(vs, m)[t] \in Contents
  <2>1. CASE \E v \in Values : t = <<"root", v>>
    <3>1. PICK v \in Values : t = <<"root", v>>
      BY <2>1
    <3>2. Tabs(vs, m)[t] = vs[v].root
      BY <3>1, TabsAt
    <3> QED
      BY <3>2, TypedFacts
  <2>2. CASE \E a \in Addresses : t = <<"mem", a>>
    <3>1. PICK a \in Addresses : t = <<"mem", a>>
      BY <2>2
    <3>2. Tabs(vs, m)[<<"mem", a>>] = m[a]
      BY TabsAt
    <3> QED
      BY <3>1, <3>2, TypedFacts
  <2> QED
    BY <2>1, <2>2, TableCases
<1> QED
  BY <1>1 DEF Tabs

LEMMA KidsAre ==
    ASSUME NEW c \in Contents
    PROVE  /\ Kids(c) \subseteq Addresses
           /\ \A i \in 1..Len(c.elems) : c.elems[i] \in Kids(c)
           /\ \A a \in Kids(c) : \E i \in 1..Len(c.elems) : c.elems[i] = a
           /\ Size(c) = Len(c.elems)
<1>1. DOMAIN c.elems = 1..Len(c.elems)
  BY ContentsFacts
<1> QED
  BY <1>1, ContentsFacts DEF Kids, Range, Size

LEMMA NullFit == ASSUME NEW p PROVE Fit(Null, p)
  BY EmptyContents DEF Fit


\* The addresses that the values vs begin at; a set that holds all they reach.
Seen(vs) == (UNION {Kids(vs[v].root) \cup {vs[v].ref} : v \in Values}) \ {None}
Holds(T, vs, m) ==
    /\ T \in SUBSET Addresses
    /\ \A a \in T : Kids(m[a]) \subseteq T
    /\ \A v \in Values : /\ Kids(vs[v].root) \subseteq T
                         /\ vs[v].ref # None => vs[v].ref \in T

\* The function f on T, and nothing elsewhere.
Only(f, T, nothing) == [a \in Addresses |-> IF a \in T THEN f[a] ELSE nothing]

\* What the values reach is the least such set.
LEMMA SeenFacts ==
    ASSUME NEW vs, NEW m,
           \A v \in Values : /\ vs[v].root \in Contents
                             /\ vs[v].ref \in Addresses \cup {None},
           \A a \in Addresses : m[a] \in Contents
    PROVE  /\ Holds(Reach(Seen(vs), m), vs, m)
           /\ \A T : Holds(T, vs, m) => Reach(Seen(vs), m) \subseteq T
<1>1. ASSUME NEW v \in Values
      PROVE  /\ Kids(vs[v].root) \subseteq Addresses
             /\ Kids(vs[v].root) \subseteq Seen(vs)
             /\ vs[v].ref # None => vs[v].ref \in Seen(vs)
  <2>1. Kids(vs[v].root) \subseteq Addresses
    BY KidsAre
  <2>2. None \notin Kids(vs[v].root)
    BY <2>1, AddressesAssumption
  <2>3. Kids(vs[v].root) \cup {vs[v].ref}
            \in {Kids(vs[w].root) \cup {vs[w].ref} : w \in Values}
    OBVIOUS
  <2>4. Kids(vs[v].root) \cup {vs[v].ref} \subseteq Seen(vs) \cup {None}
    BY <2>3 DEF Seen
  <2> QED
    BY <2>1, <2>2, <2>4
<1>2. ASSUME NEW x \in Seen(vs)
      PROVE  /\ x # None
             /\ \E v \in Values : x \in Kids(vs[v].root) \/ x = vs[v].ref
  <2>1. PICK S \in {Kids(vs[v].root) \cup {vs[v].ref} : v \in Values} : x \in S
    BY DEF Seen
  <2>2. PICK v \in Values : S = Kids(vs[v].root) \cup {vs[v].ref}
    BY <2>1
  <2> QED
    BY <2>1, <2>2 DEF Seen
<1>3. Seen(vs) \in SUBSET Addresses
  BY <1>1, <1>2
<1>4. \A a \in Addresses : Kids(m[a]) \subseteq Addresses
  BY KidsAre
<1>5. Holds(Reach(Seen(vs), m), vs, m)
  <2>1. /\ Seen(vs) \subseteq Reach(Seen(vs), m)
        /\ Reach(Seen(vs), m) \subseteq Addresses
        /\ \A a \in Reach(Seen(vs), m) : Kids(m[a]) \subseteq Reach(Seen(vs), m)
    BY <1>3, <1>4, ReachFacts
  <2> QED
    BY <1>1, <2>1 DEF Holds
<1>6. ASSUME NEW T, Holds(T, vs, m)
      PROVE  Reach(Seen(vs), m) \subseteq T
  <2>1. T \in SUBSET Addresses /\ \A a \in T : Kids(m[a]) \subseteq T
    BY <1>6 DEF Holds
  <2>2. Seen(vs) \subseteq T
    BY <1>2, <1>6 DEF Holds
  <2> QED
    BY <1>3, <1>4, <2>1, <2>2, ReachFacts
<1> QED
  BY <1>5, <1>6

\* Dropping what is in no such set keeps all as it should be.
LEMMA OnlyGood ==
    ASSUME NEW vs, NEW m, NEW h, NEW X, Good(vs, m, h, X), NEW T, Holds(T, vs, m)
    PROVE  Good(vs, Only(m, T, Null), Only(h, T, None), X)
<1> DEFINE m2 == Only(m, T, Null)
           h2 == Only(h, T, None)
<1>1. Typed(vs, m, h)
  BY DEF Good
<1>2. \A v \in Values : vs[v].root \in Contents /\ vs[v].ref \in Addresses \cup {None}
  BY <1>1, TypedFacts
<1>3. \A a \in Addresses : m[a] \in Contents /\ h[a] \in Pools \cup {None}
  BY <1>1, TypedFacts
<1>4. /\ T \subseteq Addresses
      /\ \A a \in T : Kids(m[a]) \subseteq T
      /\ \A v \in Values : /\ Kids(vs[v].root) \subseteq T
                           /\ vs[v].ref # None => vs[v].ref \in T
  BY DEF Holds
<1>5. /\ \A a \in T : m2[a] = m[a] /\ h2[a] = h[a]
      /\ \A a \in Addresses \ T : m2[a] = Null /\ h2[a] = None
  BY <1>4 DEF Only
<1>6. Typed(vs, m2, h2)
  BY <1>1, <1>3, EmptyContents DEF Typed, Only
<1> HIDE DEF m2, h2
<1>7. References(vs, h2, X)
  BY <1>4, <1>5 DEF Good, References
<1>8. Sound(Tabs(vs, m2), Owns(vs, h2), h2, X)
  <2> DEFINE tab == Tabs(vs, m)
             own == Owns(vs, h)
             tab2 == Tabs(vs, m2)
             own2 == Owns(vs, h2)
  <2>1. Sound(tab, own, h, X)
    BY DEF Good
  <2>2. tab2 \in [Tables -> Contents]
    BY <1>6, TabsType
  <2>3. ASSUME NEW t \in Tables, NEW c \in Contents, Kids(c) \subseteq T,
               tab2[t] = c, tab[t] = c, own2[t] = own[t]
        PROVE  Thinner(tab2[t], own2[t], h2, tab[t], own[t], h)
    <3> HIDE DEF tab, own, tab2, own2
    <3>1. Fit(tab2[t], own2[t])
      BY <2>1, <2>3 DEF Sound
    <3>2. Len(c.elems) \in Nat /\ \A i \in 1..Len(c.elems) : c.elems[i] \in T
      BY <2>3, KidsAre, ContentsFacts
    <3>3. \A i \in 1..Len(c.elems) : h2[c.elems[i]] = h[c.elems[i]]
      BY <1>5, <3>2
    <3> QED
      BY <2>3, <3>1, <3>2, <3>3 DEF Thinner
  <2>4. ASSUME NEW t \in Tables, tab2[t] = Null
        PROVE  Thinner(tab2[t], own2[t], h2, tab[t], own[t], h)
    <3> HIDE DEF tab, own, tab2, own2
    <3>1. tab[t] \in Contents
      BY <2>1 DEF Sound
    <3>2. Len(tab[t].elems) \in Nat
      BY <3>1, ContentsFacts
    <3> QED
      BY <2>4, <3>2, EmptyContents, NullFit DEF Thinner
  <2>5. ASSUME NEW t \in Tables
        PROVE  Thinner(tab2[t], own2[t], h2, tab[t], own[t], h)
    <3>1. CASE \E v \in Values : t = <<"root", v>>
      <4>1. PICK v \in Values : t = <<"root", v>>
        BY <3>1
      <4>2. tab[t] = vs[v].root /\ tab2[t] = vs[v].root /\ own2[t] = own[t]
        BY <4>1, TabsAt, OwnsAt
      <4> HIDE DEF tab, own, tab2, own2
      <4> QED
        BY <1>2, <1>4, <2>3, <4>2
    <3>2. CASE \E a \in T : t = <<"mem", a>>
      <4>1. PICK a \in T : t = <<"mem", a>>
        BY <3>2
      <4>2. a \in Addresses
        BY <1>4
      <4>3. m2[a] = m[a] /\ h2[a] = h[a]
        BY <1>5
      <4>4. tab[t] = m[a] /\ tab2[t] = m[a] /\ own2[t] = own[t]
        BY <4>1, <4>2, <4>3, TabsAt, OwnsAt
      <4> HIDE DEF tab, own, tab2, own2
      <4> QED
        BY <1>3, <1>4, <2>3, <4>2, <4>4
    <3>3. CASE \E a \in Addresses \ T : t = <<"mem", a>>
      <4>1. PICK a \in Addresses \ T : t = <<"mem", a>>
        BY <3>3
      <4>2. m2[a] = Null
        BY <1>5
      <4>3. tab2[<<"mem", a>>] = m2[a]
        BY TabsAt
      <4>4. tab2[t] = Null
        BY <4>1, <4>2, <4>3
      <4> HIDE DEF tab, own, tab2, own2
      <4> QED
        BY <2>4, <4>4
    <3> HIDE DEF tab, own, tab2, own2
    <3> QED
      BY <3>1, <3>2, <3>3, TableCases
  <2> HIDE DEF tab, own, tab2, own2
  <2>6. Sound(tab2, own2, h2, X)
    BY <2>1, <2>2, <2>5, Thinned
  <2> QED
    BY <2>6 DEF tab2, own2
<1> QED
  BY <1>6, <1>7, <1>8 DEF Good, m2, h2

\* Commit drops what no value reaches.
LEMMA CommitGood ==
    ASSUME NEW vs, NEW m, NEW h, NEW X, Good(vs, m, h, X), Commit(vs, m, h),
           crossed' = X
    PROVE  IInv'
<1>1. Typed(vs, m, h)
  BY DEF Good
<1>2. /\ \A v \in Values : /\ vs[v].root \in Contents
                           /\ vs[v].ref \in Addresses \cup {None}
      /\ \A a \in Addresses : m[a] \in Contents
  BY <1>1, TypedFacts
<1> DEFINE T == Reach(Seen(vs), m)
<1>3. Holds(T, vs, m)
  BY <1>2, SeenFacts
<1>4. values' = vs /\ mem' = Only(m, T, Null) /\ home' = Only(h, T, None)
  BY DEF Commit, Only, Seen
<1> HIDE DEF T
<1>5. Good(vs, Only(m, T, Null), Only(h, T, None), X)
  BY <1>3, OnlyGood
<1> QED
  BY <1>4, <1>5 DEF IInv

\* To drop more than it keeps beforehand makes no difference to it.
LEMMA CommitOnly ==
    ASSUME NEW vs, NEW m, NEW h, Commit(vs, m, h), Typed(vs, m, h),
           NEW T, Holds(T, vs, m), NEW m2, NEW h2, Typed(vs, m2, h2),
           \A a \in T : m2[a] = m[a] /\ h2[a] = h[a]
    PROVE  Commit(vs, m2, h2)
<1> DEFINE used == Reach(Seen(vs), m)
           used2 == Reach(Seen(vs), m2)
<1>1. /\ \A v \in Values : /\ vs[v].root \in Contents
                           /\ vs[v].ref \in Addresses \cup {None}
      /\ \A a \in Addresses : m[a] \in Contents
      /\ \A a \in Addresses : m2[a] \in Contents
  BY TypedFacts
<1>2. /\ Holds(used, vs, m)
      /\ \A U : Holds(U, vs, m) => used \subseteq U
      /\ Holds(used2, vs, m2)
      /\ \A U : Holds(U, vs, m2) => used2 \subseteq U
  BY <1>1, SeenFacts
<1>3. /\ values' = vs /\ mem' = Only(m, used, Null) /\ home' = Only(h, used, None)
  BY DEF Commit, Only, Seen
<1>4. Commit(vs, m2, h2) <=>
          /\ values' = vs
          /\ mem' = Only(m2, used2, Null) /\ home' = Only(h2, used2, None)
  BY DEF Commit, Only, Seen
<1> HIDE DEF used, used2
<1>5. used \subseteq T
  BY <1>2
<1>6. used2 \subseteq used
  <2>1. Holds(used, vs, m2)
    BY <1>2, <1>5 DEF Holds
  <2> QED
    BY <1>2, <2>1
<1>7. used \subseteq used2
  <2>1. Holds(used2, vs, m)
    BY <1>2, <1>5, <1>6 DEF Holds
  <2> QED
    BY <1>2, <2>1
<1>8. used2 = used
  BY <1>6, <1>7
<1>9. /\ Only(m2, used2, Null) = Only(m, used, Null)
      /\ Only(h2, used2, None) = Only(h, used, None)
  BY <1>5, <1>8 DEF Only
<1> QED
  BY <1>3, <1>4, <1>9

LEMMA TablesAgree ==
    ASSUME NEW S, NEW f \in [Tables -> S], NEW R, NEW g \in [Tables -> R],
           \A v \in Values : f[<<"root", v>>] = g[<<"root", v>>],
           \A a \in Addresses : f[<<"mem", a>>] = g[<<"mem", a>>]
    PROVE  f = g
<1>1. ASSUME NEW t \in Tables
      PROVE  f[t] = g[t]
  <2>1. CASE \E v \in Values : t = <<"root", v>>
    BY <2>1
  <2>2. CASE \E a \in Addresses : t = <<"mem", a>>
    BY <2>2
  <2> QED
    BY <2>1, <2>2, TableCases
<1> QED
  BY <1>1

LEMMA OwnsType ==
    ASSUME NEW vs, NEW m, NEW h, Typed(vs, m, h)
    PROVE  Owns(vs, h) \in [Tables -> Pools \cup {None}]
<1>1. ASSUME NEW t \in Tables
      PROVE  Owns(vs, h)[t] \in Pools \cup {None}
  <2>1. CASE \E v \in Values : t = <<"root", v>>
    <3>1. PICK v \in Values : t = <<"root", v>>
      BY <2>1
    <3>2. Owns(vs, h)[t] = vs[v].alloc
      BY <3>1, OwnsAt
    <3> QED
      BY <3>2, TypedFacts
  <2>2. CASE \E a \in Addresses : t = <<"mem", a>>
    <3>1. PICK a \in Addresses : t = <<"mem", a>>
      BY <2>2
    <3>2. Owns(vs, h)[<<"mem", a>>] = h[a]
      BY OwnsAt
    <3> QED
      BY <3>1, <3>2, TypedFacts
  <2> QED
    BY <2>1, <2>2, TableCases
<1> QED
  BY <1>1 DEF Owns

\* A value stands for a table of its document.
LEMMA AtFacts ==
    ASSUME IInv, NEW v \in Values
    PROVE  /\ At(values, v) \in Tables
           /\ Tabs(values, mem)[At(values, v)] = AsValue(v)
           /\ Joined(Owns(values, home)[At(values, v)], values[v].alloc, crossed)
           /\ AsValue(v) \in Contents
           /\ Fit(AsValue(v), values[v].alloc)
<1>1. Typed(values, mem, home) /\ References(values, home, crossed)
  BY DEF IInv, Good
<1>2. values[v].ref \in Addresses \cup {None}
  BY <1>1, TypedFacts
<1>3. /\ At(values, v) \in Tables
      /\ Tabs(values, mem)[At(values, v)] = AsValue(v)
      /\ Joined(Owns(values, home)[At(values, v)], values[v].alloc, crossed)
  <2>1. CASE values[v].ref = None
    <3>1. Owns(values, home)[<<"root", v>>] = values[v].alloc
      BY OwnsAt
    <3> QED
      BY <2>1, <3>1, TableCases, TabsAt, JoinedFacts DEF At, AsValue
  <2>2. CASE values[v].ref # None
    <3>1. values[v].ref \in Addresses
      BY <1>2, <2>2
    <3>2. Joined(home[values[v].ref], values[v].alloc, crossed)
      BY <1>1, <2>2 DEF References
    <3>3. Owns(values, home)[<<"mem", values[v].ref>>] = home[values[v].ref]
      BY <3>1, OwnsAt
    <3>4. Tabs(values, mem)[<<"mem", values[v].ref>>] = mem[values[v].ref]
      BY <3>1, TabsAt
    <3> QED
      BY <2>2, <3>1, <3>2, <3>3, <3>4, TableCases DEF At, AsValue
  <2> QED
    BY <2>1, <2>2
<1>4. Sound(Tabs(values, mem), Owns(values, home), home, crossed)
  BY DEF IInv, Good
<1> HIDE DEF Tabs, Owns
<1>5. /\ AsValue(v) \in Contents /\ crossed \subseteq Pools
      /\ Fit(AsValue(v), Owns(values, home)[At(values, v)])
  BY <1>3, <1>4 DEF Sound
<1>6. Owns(values, home)[At(values, v)] = None <=> values[v].alloc = None
  BY <1>3, <1>5, JoinedNone
<1> QED
  BY <1>3, <1>5, <1>6 DEF Fit

\* A content may be put where a value refers to if the tables stay sound.
LEMMA StoreGood ==
    ASSUME NEW v \in Values, NEW c \in Contents, NEW m, NEW h, NEW X,
           Typed(values, m, h), Documents(values), References(values, h, X),
           Sound([Tabs(values, m) EXCEPT ![At(values, v)] = c],
                 Owns(values, h), h, X),
           Store(v, c, m, h), crossed' = X
    PROVE  IInv'
<1>1. /\ Tabs(values, m) \in [Tables -> Contents]
      /\ Owns(values, h) \in [Tables -> Pools \cup {None}]
  BY TabsType, OwnsType
<1>2. CASE values[v].ref = None
  <2> DEFINE vs == [values EXCEPT ![v].root = c]
  <2>1. Commit(vs, m, h)
    BY <1>2 DEF Store
  <2>2. Typed(vs, m, h)
    BY DEF Typed
  <2>3. ASSUME NEW w \in Values
        PROVE  /\ vs[w].pool = values[w].pool /\ vs[w].ref = values[w].ref
               /\ vs[w].alloc = values[w].alloc
               /\ vs[w].root = IF w = v THEN c ELSE values[w].root
    BY DEF Typed
  <2> HIDE DEF vs
  <2>4. Documents(vs) /\ References(vs, h, X)
    BY <2>3 DEF Documents, References
  <2>5. Tabs(vs, m) = [Tabs(values, m) EXCEPT ![<<"root", v>>] = c]
    <3> DEFINE tab == [Tabs(values, m) EXCEPT ![<<"root", v>>] = c]
    <3>1. tab \in [Tables -> Contents] /\ Tabs(vs, m) \in [Tables -> Contents]
      BY <1>1, <2>2, TabsType
    <3>2. ASSUME NEW w \in Values
          PROVE  Tabs(vs, m)[<<"root", w>>] = tab[<<"root", w>>]
      BY <1>1, <2>3, TabsAt, TableCases
    <3>3. ASSUME NEW a \in Addresses
          PROVE  Tabs(vs, m)[<<"mem", a>>] = tab[<<"mem", a>>]
      BY <1>1, TabsAt, TableCases
    <3> HIDE DEF tab
    <3>4. Tabs(vs, m) = tab
      BY <3>1, <3>2, <3>3, TablesAgree
    <3> QED
      BY <3>4 DEF tab
  <2>6. Owns(vs, h) = Owns(values, h)
    <3>1. ASSUME NEW w \in Values
          PROVE  Owns(vs, h)[<<"root", w>>] = Owns(values, h)[<<"root", w>>]
      BY <2>3, OwnsAt
    <3>2. ASSUME NEW a \in Addresses
          PROVE  Owns(vs, h)[<<"mem", a>>] = Owns(values, h)[<<"mem", a>>]
      BY OwnsAt
    <3>3. Owns(vs, h) \in [Tables -> Pools \cup {None}]
      BY <2>2, OwnsType
    <3> QED
      BY <1>1, <3>1, <3>2, <3>3, TablesAgree
  <2>7. Sound(Tabs(vs, m), Owns(vs, h), h, X)
    BY <1>2, <2>5, <2>6 DEF At
  <2>8. Good(vs, m, h, X)
    BY <2>2, <2>4, <2>7 DEF Good
  <2> QED
    BY <2>1, <2>8, CommitGood
<1>3. CASE values[v].ref # None
  <2> DEFINE r == values[v].ref
             m2 == [m EXCEPT ![r] = c]
  <2>1. Commit(values, m2, h) /\ r \in Addresses
    BY <1>3, TypedFacts DEF Store
  <2>2. Typed(values, m2, h)
    BY <2>1 DEF Typed
  <2>3. \A a \in Addresses : m2[a] = IF a = r THEN c ELSE m[a]
    BY DEF Typed
  <2> HIDE DEF r, m2
  <2>4. Tabs(values, m2) = [Tabs(values, m) EXCEPT ![<<"mem", r>>] = c]
    <3> DEFINE tab == [Tabs(values, m) EXCEPT ![<<"mem", r>>] = c]
    <3>1. tab \in [Tables -> Contents] /\ Tabs(values, m2) \in [Tables -> Contents]
      BY <1>1, <2>2, TabsType
    <3>2. ASSUME NEW w \in Values
          PROVE  Tabs(values, m2)[<<"root", w>>] = tab[<<"root", w>>]
      BY <1>1, TabsAt, TableCases
    <3>3. ASSUME NEW a \in Addresses
          PROVE  Tabs(values, m2)[<<"mem", a>>] = tab[<<"mem", a>>]
      BY <1>1, <2>3, TabsAt, TableCases
    <3> HIDE DEF tab
    <3>4. Tabs(values, m2) = tab
      BY <3>1, <3>2, <3>3, TablesAgree
    <3> QED
      BY <3>4 DEF tab
  <2>5. Sound(Tabs(values, m2), Owns(values, h), h, X)
    BY <1>3, <2>4 DEF At, r
  <2>6. Good(values, m2, h, X)
    BY <2>2, <2>5 DEF Good
  <2> QED
    BY <2>1, <2>6, CommitGood
<1> QED
  BY <1>2, <1>3

-----------------------------------------------------------------------------
(* Writing to the tables *)

\* A content without members.
Bare(c) == c \in Contents /\ c.elems = <<>> /\ c.names = <<>>

LEMMA BareFacts ==
    ASSUME NEW c, Bare(c)
    PROVE  /\ Len(c.elems) = 0 /\ Len(c.names) = 0
           /\ \A p : p # None => Fit(c, p)
           /\ \A p : c.kind \notin {"object", "array"} => Fit(c, p)
  BY DEF Bare, Fit

LEMMA BareContents ==
    /\ Bare(Null) /\ \A p : Fit(Null, p)
    /\ \A x \in Scalars : Bare(Scalar(x)) /\ \A p : Fit(Scalar(x), p)
    /\ \A kind \in {"object", "array"} : Bare(EmptyTable(kind))
  BY EmptyContents DEF Bare, Fit

\* A table may be replaced by a content without members, in any pool.
LEMMA Emptied ==
    ASSUME NEW tab, NEW own, NEW h, NEW X, Sound(tab, own, h, X),
           NEW t \in Tables, NEW c, Bare(c), NEW own2, Fit(c, own2[t]),
           \A u \in Tables \ {t} : own2[u] = own[u]
    PROVE  Sound([tab EXCEPT ![t] = c], own2, h, X)
<1> DEFINE tab2 == [tab EXCEPT ![t] = c]
<1>1. tab2 \in [Tables -> Contents] /\ tab2[t] = c
  BY DEF Sound, Bare
<1>2. \A u \in Tables \ {t} : tab2[u] = tab[u]
  BY DEF Sound
<1> HIDE DEF tab2
<1>3. ASSUME NEW u \in Tables
      PROVE  Thinner(tab2[u], own2[u], h, tab[u], own[u], h)
  <2>1. tab[u] \in Contents /\ Fit(tab[u], own[u])
    BY DEF Sound
  <2>2. Len(tab[u].elems) \in Nat
    BY <2>1, ContentsFacts
  <2>3. CASE u = t
    BY <1>1, <2>2, <2>3, BareFacts DEF Thinner
  <2>4. CASE u # t
    BY <1>2, <2>1, <2>2, <2>4 DEF Thinner
  <2> QED
    BY <2>3, <2>4
<1>4. Sound(tab2, own2, h, X)
  BY <1>1, <1>3, Thinned
<1> QED
  BY <1>4 DEF tab2

\* A free address may get a content without members, in any pool.
LEMMA Allocated ==
    ASSUME NEW tab, NEW own, NEW h, NEW X, Sound(tab, own, h, X),
           NEW s \in Addresses, h[s] = None, NEW c, Bare(c),
           NEW own2, NEW h2, Fit(c, own2[<<"mem", s>>]),
           \A t \in Tables \ {<<"mem", s>>} : own2[t] = own[t],
           \A a \in Addresses \ {s} : h2[a] = h[a]
    PROVE  /\ Sound([tab EXCEPT ![<<"mem", s>>] = c], own2, h2, X)
           /\ Unused([tab EXCEPT ![<<"mem", s>>] = c], s)
<1> DEFINE t == <<"mem", s>>
           tab2 == [tab EXCEPT ![t] = c]
<1>1. t \in Tables
  BY TableCases
<1>2. tab2 \in [Tables -> Contents] /\ tab2[t] = c
  BY <1>1 DEF Sound, Bare
<1>3. \A u \in Tables \ {t} : tab2[u] = tab[u]
  BY DEF Sound
<1>4. \A u \in Tables \ {t} : own2[u] = own[u]
  OBVIOUS
<1>5. Fit(c, own2[t])
  OBVIOUS
<1> HIDE DEF tab2, t
<1>6. Unused(tab, s)
  BY FreeUnused
<1>7. ASSUME NEW u \in Tables
      PROVE  /\ Fit(tab2[u], own2[u])
             /\ Len(tab2[u].elems) <= Len(tab[u].elems)
             /\ \A i \in 1..Len(tab2[u].elems) :
                   /\ tab2[u].elems[i] = tab[u].elems[i]
                   /\ own2[u] = own[u]
                   /\ h2[tab[u].elems[i]] = h[tab[u].elems[i]]
                   /\ tab2[u].elems[i] # s
  <2>1. tab[u] \in Contents /\ Fit(tab[u], own[u])
    BY DEF Sound
  <2>2. Len(tab[u].elems) \in Nat
    BY <2>1, ContentsFacts
  <2>3. CASE u = t
    BY <1>2, <1>5, <2>2, <2>3, BareFacts
  <2>4. CASE u # t
    <3>1. tab2[u] = tab[u] /\ own2[u] = own[u]
      BY <1>3, <1>4, <2>4
    <3>2. \A i \in 1..Len(tab[u].elems) : tab[u].elems[i] \in Addresses \ {s}
      BY <1>6, <2>1, ContentsFacts DEF Unused
    <3> QED
      BY <2>1, <2>2, <3>1, <3>2
  <2> QED
    BY <2>3, <2>4
<1>8. \A u \in Tables : Thinner(tab2[u], own2[u], h2, tab[u], own[u], h)
  BY <1>7 DEF Thinner
<1>9. Sound(tab2, own2, h2, X)
  <2>1. Sound(tab, own, h, X)
    OBVIOUS
  <2> QED
    BY ONLY <1>2, <1>8, <2>1, Thinned
<1>10. Unused(tab2, s)
  BY <1>7 DEF Unused
<1> QED
  BY <1>9, <1>10 DEF tab2, t

LEMMA SlotFacts ==
    ASSUME Free # {}
    PROVE  Slot \in Addresses /\ home[Slot] = None
<1>1. Free \in SUBSET Nat
  BY AddressesAssumption DEF Free
<1>2. Min(Free) \in Free
  BY <1>1, MinIsLeast
<1> QED
  BY <1>2 DEF Slot, Free

LEMMA TabsSet ==
    ASSUME NEW vs, NEW m, NEW h, Typed(vs, m, h), NEW a \in Addresses, NEW c \in Contents
    PROVE  /\ Typed(vs, [m EXCEPT ![a] = c], h)
         /\  
         /\ Tabs(vs, [m EXCEPT ![a] = c]) = [Tabs(vs, m) EXCEPT ![<<"mem", a>>] = c]
<1> DEFINE m2 == [m EXCEPT ![a] = c]
           tab == Tabs(vs, m)
           tab2 == [tab EXCEPT ![<<"mem", a>>] = c]
<1>1. Typed(vs, m2, h)
  BY DEF Typed
<1>2. \A b \in Addresses : m2[b] = IF b = a THEN c ELSE m[b]
  BY DEF Typed
<1>3. tab \in [Tables -> Contents] /\ <<"mem", a>> \in Tables
  BY TabsType, TableCases
<1> HIDE DEF m2
<1>4. Tabs(vs, m2) \in [Tables -> Contents]
  BY <1>1, TabsType
<1>5. \A v \in Values : tab[<<"root", v>>] = vs[v].root
                        /\ Tabs(vs, m2)[<<"root", v>>] = vs[v].root
  BY TabsAt
<1>6. ASSUME NEW b \in Addresses
      PROVE  tab[<<"mem", b>>] = m[b] /\ Tabs(vs, m2)[<<"mem", b>>] = m2[b]
  <2>1. tab[<<"mem", b>>] = m[b]
    BY TabsAt
  <2>2. Tabs(vs, m2)[<<"mem", b>>] = m2[b]
    BY TabsAt
  <2> QED
    BY <2>1, <2>2
<1> HIDE DEF tab
<1>7. tab2 \in [Tables -> Contents]
  BY <1>3
<1>8. ASSUME NEW v \in Values
      PROVE  Tabs(vs, m2)[<<"root", v>>] = tab2[<<"root", v>>]
  BY <1>3, <1>5, TableCases
<1>9. ASSUME NEW b \in Addresses
      PROVE  Tabs(vs, m2)[<<"mem", b>>] = tab2[<<"mem", b>>]
  BY <1>2, <1>3, <1>6, TableCases
<1> HIDE DEF tab2
<1>10. Tabs(vs, m2) = tab2
  BY <1>4, <1>7, <1>8, <1>9, TablesAgree
<1> QED
  BY <1>1, <1>10 DEF m2, tab2, tab

\* All tables but that of the element s have the pool they had.
OthersOwned(own2, own, s) ==
    \A t \in Tables \ {<<"mem", s>>} : own2[t] = own[t]

LEMMA OwnsOther ==
    ASSUME NEW vs, NEW h, NEW h2, NEW s, \A a \in Addresses \ {s} : h2[a] = h[a]
    PROVE  OthersOwned(Owns(vs, h2), Owns(vs, h), s)
<1> SUFFICES ASSUME NEW t \in Tables, t # <<"mem", s>>
             PROVE  Owns(vs, h2)[t] = Owns(vs, h)[t]
  BY DEF OthersOwned
<1>1. CASE \E w \in Values : t = <<"root", w>>
  BY <1>1, OwnsAt
<1>2. CASE \E a \in Addresses : t = <<"mem", a>>
  <2>1. PICK a \in Addresses : t = <<"mem", a>>
    BY <1>2
  <2>2. Owns(vs, h2)[<<"mem", a>>] = h2[a]
    BY OwnsAt
  <2>3. Owns(vs, h)[<<"mem", a>>] = h[a]
    BY OwnsAt
  <2>4. a # s
    BY <2>1
  <2> QED
    BY <2>1, <2>2, <2>3, <2>4
<1> QED
  BY <1>1, <1>2, TableCases

\* A new element at a free address, added to the table of a value.  The table
\* may have lost a member before (tab and c, in place of the state's).
LEMMA Grown ==
    ASSUME IInv, NEW v \in Values, NEW name \in Names \cup {Item}, Free # {},
           NEW X, crossed \subseteq X,
           NEW tab, Sound(tab, Owns(values, home), home, X),
           NEW c, tab[At(values, v)] = c, values[v].alloc # None,
           NEW d, Bare(d), \A p : p # None => Fit(d, p),
           NEW h, h = InDocumentOf(v, {Slot})
    PROVE  /\ At(values, v) # <<"mem", Slot>>
           /\ With(c, name, Slot) \in Contents
           /\ Typed(values, mem, h)
           /\ References(values, h, X)
           /\ Sound([[tab EXCEPT ![<<"mem", Slot>>] = d]
                         EXCEPT ![At(values, v)] = With(c, name, Slot)],
                    Owns(values, h), h, X)
<1> DEFINE own == Owns(values, home)
           own2 == Owns(values, h)
           t == At(values, v)
           p == values[v].alloc
           tab2 == [tab EXCEPT ![<<"mem", Slot>>] = d]
<1>1. Slot \in Addresses /\ home[Slot] = None
  BY SlotFacts
<1>2. Typed(values, mem, home) /\ References(values, home, crossed)
      /\ crossed \subseteq Pools
  BY DEF IInv, Good, Sound
<1>3. t \in Tables /\ Joined(own[t], p, crossed)
  BY AtFacts
<1>4. t # <<"mem", Slot>>
  <2>1. CASE values[v].ref = None
    BY <2>1, TableCases DEF At
  <2>2. CASE values[v].ref # None
    <3>1. Joined(home[values[v].ref], p, crossed) /\ p # None
      BY <1>2, <2>2 DEF References
    <3>2. home[values[v].ref] # None
      BY <1>2, <3>1, JoinedNone
    <3> QED
      BY <1>1, <2>2, <3>2, TableCases DEF At
  <2> QED
    BY <2>1, <2>2
<1>5. \A a \in Addresses : h[a] = IF a = Slot THEN p ELSE home[a]
  BY DEF InDocumentOf
<1>6. h \in [Addresses -> Pools \cup {None}]
  BY <1>2, TypedFacts DEF InDocumentOf
<1>7. Typed(values, mem, h)
  BY <1>2, <1>6 DEF Typed
<1>8. ASSUME NEW w \in Values, values[w].ref # None
      PROVE  Joined(h[values[w].ref], values[w].alloc, X) /\ values[w].alloc # None
  <2>1. values[w].ref \in Addresses
    BY <1>2, <1>8, TypedFacts
  <2>2. Joined(home[values[w].ref], values[w].alloc, crossed)
        /\ values[w].alloc # None
    BY <1>2, <1>8 DEF References
  <2>3. home[values[w].ref] # None
    BY <1>2, <2>2, JoinedNone
  <2>4. h[values[w].ref] = home[values[w].ref]
    BY <1>1, <1>5, <2>1, <2>3
  <2> QED
    BY <2>2, <2>4, JoinedMore
<1>9. References(values, h, X)
  BY <1>8 DEF References
<1>10. own2[<<"mem", Slot>>] = p
  <2>1. own2[<<"mem", Slot>>] = h[Slot]
    BY <1>1, OwnsAt
  <2> HIDE DEF own2
  <2> QED
    BY <1>1, <1>5, <2>1
<1>11. ASSUME NEW u \in Tables \ {<<"mem", Slot>>}
       PROVE  own2[u] = own[u]
  <2>1. \A a \in Addresses \ {Slot} : h[a] = home[a]
    BY <1>5
  <2>2. OthersOwned(own2, own, Slot)
    BY ONLY <2>1, OwnsOther
  <2> QED
    BY <2>2 DEF OthersOwned
<1> HIDE DEF own, own2, t, p
<1>12. Fit(d, own2[<<"mem", Slot>>])
  BY <1>10 DEF p
<1>13. \A a \in Addresses \ {Slot} : h[a] = home[a]
  BY <1>5
<1>14. Sound(tab, own, home, X)
  BY DEF own
<1>15. Sound(tab2, own2, h, X) /\ Unused(tab2, Slot)
  <2>1. Bare(d) /\ Slot \in Addresses /\ home[Slot] = None
    BY <1>1
  <2>2. \A u \in Tables \ {<<"mem", Slot>>} : own2[u] = own[u]
    BY <1>11
  <2> QED
    BY ONLY <1>12, <1>13, <1>14, <2>1, <2>2, Allocated
<1>16. tab2[t] = c /\ c \in Contents
  BY <1>3, <1>4, <1>14 DEF Sound, t
<1>17. Joined(h[Slot], own2[t], X) /\ own2[t] # None
  <2>1. h[Slot] = p /\ own2[t] = own[t] /\ p # None
    BY <1>1, <1>3, <1>4, <1>5, <1>11 DEF p
  <2>2. Joined(p, own[t], crossed)
    BY <1>3, JoinedFacts
  <2>3. own[t] # None
    BY <1>2, <2>1, <2>2, JoinedFacts
  <2>4. Joined(p, own[t], X)
    BY <2>2, JoinedMore
  <2> QED
    BY <2>1, <2>3, <2>4
<1> HIDE DEF tab2
<1>18. Sound([tab2 EXCEPT ![t] = With(tab2[t], name, Slot)], own2, h, X)
  BY <1>1, <1>3, <1>4, <1>15, <1>17, Linked
<1>19. Sound([tab2 EXCEPT ![t] = With(c, name, Slot)], own2, h, X)
  BY <1>16, <1>18
<1>20. With(c, name, Slot) \in Contents
  BY <1>1, <1>16, WithFacts
<1> QED
  BY <1>4, <1>7, <1>9, <1>19, <1>20 DEF own, own2, t, tab2

\* A table has a pool.
LEMMA TakesFacts ==
    ASSUME IInv, NEW v \in Values, NEW name, Takes(v, name)
    PROVE  Free # {} /\ values[v].alloc # None
<1>1. Fit(AsValue(v), values[v].alloc)
  BY AtFacts
<1> QED
  BY <1>1 DEF Takes, Fit

LEMMA SetGood ==
    ASSUME IInv, NEW v \in Values, NEW x \in Scalars, Set(v, x)
    PROVE  IInv'
<1>1. At(values, v) \in Tables
  BY AtFacts
<1>2. Sound([Tabs(values, mem) EXCEPT ![At(values, v)] = Scalar(x)],
            Owns(values, home), home, crossed)
  BY <1>1, BareContents, Emptied DEF IInv, Good
<1>3. Scalar(x) \in Contents
  BY EmptyContents
<1>4. Store(v, Scalar(x), mem, home) /\ crossed' = crossed
  BY DEF Set
<1> QED
  BY <1>2, <1>3, <1>4, StoreGood DEF IInv, Good

LEMMA AddScalarGood ==
    ASSUME IInv, NEW v \in Values, NEW x \in Scalars,
           NEW name \in Names \cup {Item}, AddScalar(v, name, x)
    PROVE  IInv'
<1> DEFINE h == InDocumentOf(v, {Slot})
           c == AsValue(v)
           d == Scalar(x)
           m == [mem EXCEPT ![Slot] = d]
<1>1. Free # {} /\ values[v].alloc # None
  BY TakesFacts DEF AddScalar
<1>2. Tabs(values, mem)[At(values, v)] = c
  BY AtFacts
<1>3. Bare(d) /\ (\A p : Fit(d, p)) /\ d \in Contents
  BY BareContents, EmptyContents
<1>4. /\ Sound(Tabs(values, mem), Owns(values, home), home, crossed)
      /\ Documents(values)
  BY DEF IInv, Good
<1>5. Slot \in Addresses
  BY <1>1, SlotFacts
<1>6. AddMember(c, name) = With(c, name, Slot)
  BY DEF AddMember, With
<1>7. Store(v, AddMember(c, name), m, h) /\ crossed' = crossed
  BY DEF AddScalar
<1> HIDE DEF h, c, d, m
<1>8. /\ With(c, name, Slot) \in Contents
      /\ Typed(values, mem, h)
      /\ References(values, h, crossed)
      /\ Sound([[Tabs(values, mem) EXCEPT ![<<"mem", Slot>>] = d]
                    EXCEPT ![At(values, v)] = With(c, name, Slot)],
               Owns(values, h), h, crossed)
  BY <1>1, <1>2, <1>3, <1>4, Grown DEF h
<1>9. /\ Typed(values, m, h)
      /\ Tabs(values, m) = [Tabs(values, mem) EXCEPT ![<<"mem", Slot>>] = d]
  <2>1. d \in Contents
    BY <1>3
  <2>2. Typed(values, mem, h)
    BY <1>8
  <2>3. Typed(values, [mem EXCEPT ![Slot] = d], h)
    BY <1>5, <2>1, <2>2, TabsSet
  <2>4. Tabs(values, [mem EXCEPT ![Slot] = d])
            = [Tabs(values, mem) EXCEPT ![<<"mem", Slot>>] = d]
    BY <1>5, <2>1, <2>2, TabsSet
  <2> QED
    BY <2>3, <2>4 DEF m
<1> QED
  BY <1>4, <1>6, <1>7, <1>8, <1>9, StoreGood

\* Two tables of a pool, or of joined pools, may change places.
LEMMA Swapped ==
    ASSUME NEW tab, NEW own, NEW h, NEW X, Sound(tab, own, h, X),
           NEW t \in Tables, NEW u \in Tables, Joined(own[t], own[u], X),
           \A i \in 1..Len(tab[u].elems) : t # <<"mem", tab[u].elems[i]>>,
           \A i \in 1..Len(tab[t].elems) : u # <<"mem", tab[t].elems[i]>>,
           NEW tab2, tab2 = [w \in Tables |-> IF w = t THEN tab[u]
                                              ELSE IF w = u THEN tab[t] ELSE tab[w]]
    PROVE  Sound(tab2, own, h, X)
<1> DEFINE from == [w \in Tables |-> IF w = t THEN u ELSE IF w = u THEN t ELSE w]
<1>1. from \in [Tables -> Tables]
  OBVIOUS
<1>2. \A v, w \in Tables : from[v] = from[w] => v = w
  OBVIOUS
<1>3. \A w \in Tables : tab2[w] = tab[from[w]] /\ Joined(own[w], own[from[w]], X)
  BY JoinedFacts
<1>4. tab2 \in [Tables -> Contents]
  BY DEF Sound
<1>5. \A w \in Tables : \A i \in 1..Len(tab2[w].elems) :
         w # <<"mem", tab2[w].elems[i]>>
  BY DEF Sound
<1> HIDE DEF from
<1>6. Sound(tab, own, h, X)
  OBVIOUS
<1> QED
  BY ONLY <1>1, <1>2, <1>3, <1>4, <1>5, <1>6, Exchanged

LEMMA AddValueGood ==
    ASSUME IInv, NEW v \in Values, NEW w \in Values,
           NEW name \in Names \cup {Item}, AddValue(v, name, w)
    PROVE  IInv'
<1> DEFINE X == Crossing(v, w)
           h == InDocumentOf(v, {Slot})
           c == AsValue(v)
           got == AsValue(w)
           r == values[w].ref
           t == At(values, v)
           new == <<"mem", Slot>>
           old == <<"mem", r>>
           tab == Tabs(values, mem)
           m1 == [mem EXCEPT ![Slot] = got]
           m == [m1 EXCEPT ![r] = Null]
           more == With(c, name, Slot)
           grown == [[tab EXCEPT ![new] = Null] EXCEPT ![t] = more]
           tab2 == [[[tab EXCEPT ![new] = got] EXCEPT ![old] = Null]
                        EXCEPT ![t] = more]
<1>1. Moves(v, name, w) /\ Store(v, AddMember(c, name), m, h) /\ crossed' = X
  BY DEF AddValue
<1>2. Free # {} /\ values[v].alloc # None
  BY <1>1, TakesFacts DEF Moves
<1>3. Slot \in Addresses /\ home[Slot] = None
  BY <1>2, SlotFacts
<1>4. /\ Typed(values, mem, home) /\ Documents(values)
      /\ References(values, home, crossed)
      /\ Sound(tab, Owns(values, home), home, crossed)
  BY DEF IInv, Good
<1>5. r \in Addresses
  BY <1>1, <1>4, TypedFacts DEF Moves
<1>6. Joined(home[r], values[w].alloc, crossed) /\ values[w].alloc # None
  BY <1>1, <1>4, <1>5 DEF References, Moves
<1>6a. crossed \subseteq X /\ X \subseteq Pools
       /\ Joined(values[w].alloc, values[v].alloc, X)
  <2>1. crossed \subseteq Pools
    BY <1>4 DEF Sound
  <2>2. values[w].alloc \in Pools /\ values[v].alloc \in Pools
    BY <1>2, <1>4, <1>6, TypedFacts
  <2> QED
    BY <2>1, <2>2 DEF Crossing, Joined
<1>6b. Joined(home[r], values[v].alloc, X)
  BY <1>6, <1>6a, JoinedMore, JoinedFacts
<1>7. r # Slot
  BY <1>2, <1>3, <1>6a, <1>6b, JoinedFacts
<1>7a. Sound(tab, Owns(values, home), home, X)
  BY <1>4, <1>6a, Widened
<1> HIDE DEF X
<1>8. got \in Contents /\ got = mem[r]
  BY <1>1, <1>4, <1>5, TypedFacts DEF AsValue, Moves
<1>9. values[v].ref # r
  <2>1. \A a \in Addresses : Kids(mem[a]) \subseteq Addresses
    BY <1>4, TypedFacts, KidsAre
  <2>2. {r} \subseteq Reach({r}, mem)
    BY <1>5, <2>1, ReachFacts
  <2> QED
    BY <1>1, <2>2 DEF Moves
<1>10. tab \in [Tables -> Contents]
  BY <1>4, TabsType
<1>11. /\ t \in Tables /\ tab[t] = c
       /\ new \in Tables /\ old \in Tables /\ tab[old] = got
  BY <1>3, <1>5, <1>8, AtFacts, TableCases, TabsAt
<1>12. t # old /\ new # old
  BY <1>5, <1>7, <1>9, TableCases DEF At
<1>13. AddMember(c, name) = more
  BY DEF AddMember, With
<1>14. Null \in Contents
  BY EmptyContents
<1> HIDE DEF h, c, got, r, t, tab
<1>15. /\ t # new /\ more \in Contents
       /\ Typed(values, mem, h) /\ References(values, h, X)
       /\ Sound(grown, Owns(values, h), h, X)
  <2>1. Sound(tab, Owns(values, home), home, X) /\ crossed \subseteq X
    BY <1>6a, <1>7a
  <2>2. tab[At(values, v)] = c
    BY <1>11 DEF t
  <2>3. Bare(Null) /\ \A p : Fit(Null, p)
    BY BareContents
  <2> QED
    BY <1>2, <2>1, <2>2, <2>3, Grown DEF h, t
<1>16. Joined(Owns(values, h)[new], Owns(values, h)[old], X)
  <2>1. h[Slot] = values[v].alloc /\ h[r] = home[r]
    BY <1>3, <1>5, <1>7 DEF InDocumentOf, h
  <2>2. Owns(values, h)[new] = h[Slot]
    BY <1>3, OwnsAt
  <2>3. Owns(values, h)[old] = h[r]
    BY <1>5, OwnsAt
  <2> QED
    BY <1>6b, <2>1, <2>2, <2>3, JoinedFacts
<1>16a. \A i \in 1..Len(got.elems) : new # <<"mem", got.elems[i]>>
  <2>1. Unused(tab, Slot)
    BY <1>3, <1>7a, FreeUnused
  <2>2. \A i \in 1..Len(got.elems) : got.elems[i] # Slot
    BY <1>11, <2>1 DEF Unused
  <2> QED
    BY <2>2, TableCases
<1> HIDE DEF more, new, old
<1>17. grown \in [Tables -> Contents]
  BY <1>10, <1>14, <1>15
<1>18. tab2 = [x \in Tables |-> IF x = new THEN grown[old]
                                ELSE IF x = old THEN grown[new] ELSE grown[x]]
  <2>1. grown[new] = Null /\ grown[old] = got
    BY <1>10, <1>11, <1>12, <1>15
  <2>2. ASSUME NEW x \in Tables, x # new, x # old
        PROVE  tab2[x] = grown[x]
    BY <1>10, <2>2
  <2>3. tab2[new] = got /\ tab2[old] = Null
    BY <1>10, <1>11, <1>12, <1>15
  <2>4. tab2 = [x \in Tables |-> tab2[x]]
    BY <1>10
  <2> HIDE DEF tab2, grown
  <2>5. ASSUME NEW x \in Tables
        PROVE  tab2[x] = IF x = new THEN grown[old]
                         ELSE IF x = old THEN grown[new] ELSE grown[x]
    BY <2>1, <2>2, <2>3
  <2> QED
    BY <2>4, <2>5
<1> HIDE DEF grown, tab2
<1>19. Sound(tab2, Owns(values, h), h, X)
  <2>1. grown[new] = Null /\ grown[old] = got
    BY <1>10, <1>11, <1>12, <1>15 DEF grown
  <2>2. \A i \in 1..Len(grown[new].elems) : old # <<"mem", grown[new].elems[i]>>
    <3>1. 1..Len(Null.elems) = {}
      BY EmptyContents
    <3> QED
      BY <2>1, <3>1
  <2>3. \A i \in 1..Len(grown[old].elems) : new # <<"mem", grown[old].elems[i]>>
    BY <1>16a, <2>1
  <2>4. new \in Tables /\ old \in Tables /\ Sound(grown, Owns(values, h), h, X)
    BY <1>11, <1>15
  <2> QED
    BY ONLY <1>16, <1>18, <2>2, <2>3, <2>4, Swapped
<1>20. /\ Typed(values, m, h)
       /\ Tabs(values, m) = [[tab EXCEPT ![new] = got] EXCEPT ![old] = Null]
  <2>1. /\ Typed(values, m1, h)
        /\ Tabs(values, m1) = [tab EXCEPT ![new] = got]
    <3>1. Typed(values, mem, h) /\ Slot \in Addresses /\ got \in Contents
      BY <1>3, <1>8, <1>15
    <3>2. Typed(values, [mem EXCEPT ![Slot] = got], h)
      BY <3>1, TabsSet
    <3>3. Tabs(values, [mem EXCEPT ![Slot] = got])
              = [Tabs(values, mem) EXCEPT ![<<"mem", Slot>>] = got]
      BY <3>1, TabsSet
    <3> QED
      BY <3>2, <3>3 DEF m1, tab, new
  <2> HIDE DEF m1
  <2>4. Typed(values, m1, h) /\ r \in Addresses /\ Null \in Contents
    BY <1>5, <1>14, <2>1
  <2>2. Typed(values, [m1 EXCEPT ![r] = Null], h)
    BY ONLY <2>4, TabsSet
  <2>3. Tabs(values, [m1 EXCEPT ![r] = Null])
            = [Tabs(values, m1) EXCEPT ![<<"mem", r>>] = Null]
    BY ONLY <2>4, TabsSet
  <2> QED
    BY <2>1, <2>2, <2>3 DEF m, old
<1> HIDE DEF m
<1>21. Sound([Tabs(values, m) EXCEPT ![At(values, v)] = more], Owns(values, h), h, X)
  BY <1>19, <1>20 DEF tab2, t
<1> QED
  BY <1>1, <1>4, <1>13, <1>15, <1>20, <1>21, StoreGood

LEMMA FreePoolFacts ==
    ASSUME FreePools # {}
    PROVE  /\ Min(FreePools) \in Pools /\ Min(FreePools) # None
           /\ \A w \in Values : values[w].pool # Min(FreePools)
<1>1. FreePools \in SUBSET Nat
  BY PoolsAssumption DEF FreePools
<1>2. Min(FreePools) \in FreePools
  BY <1>1, MinIsLeast
<1> QED
  BY <1>2 DEF FreePools

SetTo(vs, v, p, root, ref, alloc) ==
    [vs EXCEPT ![v] = [pool |-> p, root |-> root, ref |-> ref, alloc |-> alloc]]

\* The members of a value that a step sets, one by one.
LEMMA ValueSet ==
    ASSUME NEW vs, NEW m, NEW h, Typed(vs, m, h), NEW v \in Values,
           NEW p \in Pools \cup {None}, NEW root \in Contents,
           NEW ref \in Addresses \cup {None}, NEW alloc \in Pools \cup {None}
    PROVE  LET vs2 == SetTo(vs, v, p, root, ref, alloc)
           IN  /\ Typed(vs2, m, h)
               /\ vs2[v].pool = p /\ vs2[v].root = root
               /\ vs2[v].ref = ref /\ vs2[v].alloc = alloc
               /\ \A w \in Values \ {v} : vs2[w] = vs[w]
               /\ Tabs(vs2, m) = [Tabs(vs, m) EXCEPT ![<<"root", v>>] = root]
               /\ Owns(vs2, h) = [Owns(vs, h) EXCEPT ![<<"root", v>>] = alloc]
<1> DEFINE vs2 == SetTo(vs, v, p, root, ref, alloc)
<1>1. /\ vs2[v].pool = p /\ vs2[v].root = root
      /\ vs2[v].ref = ref /\ vs2[v].alloc = alloc
      /\ \A w \in Values \ {v} : vs2[w] = vs[w]
  BY DEF Typed, SetTo
<1>2. Typed(vs2, m, h)
  BY DEF Typed, SetTo
<1> HIDE DEF vs2
<1>3. <<"root", v>> \in Tables
  BY TableCases
<1>4. Tabs(vs2, m) = [Tabs(vs, m) EXCEPT ![<<"root", v>>] = root]
  <2> DEFINE tab == [Tabs(vs, m) EXCEPT ![<<"root", v>>] = root]
  <2>1. /\ Tabs(vs, m) \in [Tables -> Contents]
        /\ Tabs(vs2, m) \in [Tables -> Contents]
        /\ tab \in [Tables -> Contents]
    BY <1>2, TabsType
  <2>2. ASSUME NEW w \in Values
        PROVE  Tabs(vs2, m)[<<"root", w>>] = tab[<<"root", w>>]
    <3>1. /\ Tabs(vs, m)[<<"root", w>>] = vs[w].root
          /\ Tabs(vs2, m)[<<"root", w>>] = vs2[w].root
      <4>1. Tabs(vs, m)[<<"root", w>>] = vs[w].root
        BY ONLY TabsAt
      <4>2. Tabs(vs2, m)[<<"root", w>>] = vs2[w].root
        BY ONLY TabsAt
      <4> QED
        BY <4>1, <4>2
    <3>2. CASE w = v
      BY <1>1, <1>3, <2>1, <3>1, <3>2
    <3>3. CASE w # v
      BY <1>1, <2>1, <3>1, <3>3, TableCases
    <3> QED
      BY <3>2, <3>3
  <2>3. ASSUME NEW a \in Addresses
        PROVE  Tabs(vs2, m)[<<"mem", a>>] = tab[<<"mem", a>>]
    BY <2>1, TabsAt, TableCases
  <2> HIDE DEF tab
  <2>4. Tabs(vs2, m) = tab
    BY <2>1, <2>2, <2>3, TablesAgree
  <2> QED
    BY <2>4 DEF tab
<1>5. Owns(vs2, h) = [Owns(vs, h) EXCEPT ![<<"root", v>>] = alloc]
  <2> DEFINE own == [Owns(vs, h) EXCEPT ![<<"root", v>>] = alloc]
  <2>1. /\ Owns(vs, h) \in [Tables -> Pools \cup {None}]
        /\ Owns(vs2, h) \in [Tables -> Pools \cup {None}]
        /\ own \in [Tables -> Pools \cup {None}]
    BY <1>2, OwnsType
  <2>2. ASSUME NEW w \in Values
        PROVE  Owns(vs2, h)[<<"root", w>>] = own[<<"root", w>>]
    <3>1. /\ Owns(vs, h)[<<"root", w>>] = vs[w].alloc
          /\ Owns(vs2, h)[<<"root", w>>] = vs2[w].alloc
      <4>1. Owns(vs, h)[<<"root", w>>] = vs[w].alloc
        BY ONLY OwnsAt
      <4>2. Owns(vs2, h)[<<"root", w>>] = vs2[w].alloc
        BY ONLY OwnsAt
      <4> QED
        BY <4>1, <4>2
    <3>2. CASE w = v
      BY <1>1, <1>3, <2>1, <3>1, <3>2
    <3>3. CASE w # v
      BY <1>1, <2>1, <3>1, <3>3, TableCases
    <3> QED
      BY <3>2, <3>3
  <2>3. ASSUME NEW a \in Addresses
        PROVE  Owns(vs2, h)[<<"mem", a>>] = own[<<"mem", a>>]
    BY <2>1, OwnsAt, TableCases
  <2> HIDE DEF own
  <2>4. Owns(vs2, h) = own
    BY <2>1, <2>2, <2>3, TablesAgree
  <2> QED
    BY <2>4 DEF own
<1> QED
  BY <1>1, <1>2, <1>4, <1>5 DEF vs2

\* A value may lose what it stood for, for a content without members.
LEMMA ValueReset ==
    ASSUME NEW vs, NEW m, NEW h, Typed(vs, m, h), NEW X,
           Sound(Tabs(vs, m), Owns(vs, h), h, X), NEW v \in Values,
           NEW p \in Pools \cup {None}, NEW root, Bare(root),
           NEW ref \in Addresses \cup {None}, NEW alloc \in Pools \cup {None},
           Fit(root, alloc)
    PROVE  LET vs2 == SetTo(vs, v, p, root, ref, alloc)
           IN  /\ Typed(vs2, m, h)
               /\ vs2[v].pool = p /\ vs2[v].root = root
               /\ vs2[v].ref = ref /\ vs2[v].alloc = alloc
               /\ \A w \in Values \ {v} : vs2[w] = vs[w]
               /\ Sound(Tabs(vs2, m), Owns(vs2, h), h, X)
<1> DEFINE vs2 == SetTo(vs, v, p, root, ref, alloc)
           t == <<"root", v>>
           own2 == Owns(vs2, h)
<1>1. root \in Contents
  BY DEF Bare
<1> HIDE DEF vs2
<1>2. /\ Typed(vs2, m, h)
      /\ vs2[v].pool = p /\ vs2[v].root = root
      /\ vs2[v].ref = ref /\ vs2[v].alloc = alloc
      /\ \A w \in Values \ {v} : vs2[w] = vs[w]
      /\ Tabs(vs2, m) = [Tabs(vs, m) EXCEPT ![t] = root]
      /\ own2 = [Owns(vs, h) EXCEPT ![t] = alloc]
  BY <1>1, ValueSet DEF vs2
<1>3. t \in Tables
  BY TableCases
<1>4. Owns(vs, h) \in [Tables -> Pools \cup {None}]
  BY OwnsType
<1>5. own2[t] = alloc /\ \A u \in Tables \ {t} : own2[u] = Owns(vs, h)[u]
  BY <1>2, <1>3, <1>4
<1> HIDE DEF t, own2
<1>6. Fit(root, own2[t])
  BY <1>5
<1>7. Sound([Tabs(vs, m) EXCEPT ![t] = root], own2, h, X)
  BY <1>3, <1>5, <1>6, Emptied
<1> QED
  BY <1>2, <1>7 DEF own2, vs2

LEMMA ConstructGood ==
    ASSUME IInv, NEW v \in Values, NEW kind \in {"object", "array"},
           Construct(v, kind)
    PROVE  IInv'
<1> DEFINE p == Min(FreePools)
           c == EmptyTable(kind)
<1>1. /\ p \in Pools /\ p # None
      /\ \A w \in Values : values[w].pool # p
  BY FreePoolFacts DEF Construct
<1>2. /\ values' = SetTo(values, v, p, c, None, p)
      /\ mem' = mem /\ home' = home /\ crossed' = crossed
  BY DEF Construct, Document, SetTo
<1>3. /\ Typed(values, mem, home) /\ Documents(values)
      /\ References(values, home, crossed)
      /\ Sound(Tabs(values, mem), Owns(values, home), home, crossed)
  BY DEF IInv, Good
<1>4. Bare(c) /\ Fit(c, p)
  BY <1>1, BareContents, BareFacts
<1> HIDE DEF p, c
<1>5. /\ Typed(values', mem, home)
      /\ values'[v].pool = p /\ values'[v].root = c
      /\ values'[v].ref = None /\ values'[v].alloc = p
      /\ \A w \in Values \ {v} : values'[w] = values[w]
      /\ Sound(Tabs(values', mem), Owns(values', home), home, crossed)
  <2> DEFINE vs == SetTo(values, v, p, c, None, p)
  <2>1. /\ p \in Pools \cup {None} /\ v \in Values
        /\ None \in Addresses \cup {None}
    BY <1>1
  <2>2. /\ Typed(values, mem, home)
        /\ Sound(Tabs(values, mem), Owns(values, home), home, crossed)
    BY <1>3
  <2>3. /\ Typed(vs, mem, home)
        /\ vs[v].pool = p /\ vs[v].root = c
        /\ vs[v].ref = None /\ vs[v].alloc = p
        /\ \A w \in Values \ {v} : vs[w] = values[w]
        /\ Sound(Tabs(vs, mem), Owns(vs, home), home, crossed)
    BY ONLY <1>4, <2>1, <2>2, ValueReset
  <2>4. values' = vs
    BY <1>2
  <2> HIDE DEF vs
  <2> QED
    BY ONLY <2>3, <2>4
<1>6. Documents(values')
  BY <1>1, <1>3, <1>5 DEF Documents
<1>7. References(values', home, crossed)
  BY <1>1, <1>3, <1>5 DEF References
<1> QED
  BY <1>2, <1>5, <1>6, <1>7 DEF IInv, Good

\* The slots of what a value stands for are in its pool, or one joined with it.
LEMMA SlotsOwned ==
    ASSUME IInv, NEW v \in Values, NEW i \in 1..Size(AsValue(v))
    PROVE  /\ AsValue(v).elems[i] \in Addresses
           /\ Joined(home[AsValue(v).elems[i]], values[v].alloc, crossed)
           /\ values[v].alloc # None
<1> DEFINE tab == Tabs(values, mem)
           own == Owns(values, home)
           t == At(values, v)
<1>1. /\ t \in Tables /\ tab[t] = AsValue(v)
      /\ Joined(own[t], values[v].alloc, crossed)
      /\ AsValue(v) \in Contents
  BY AtFacts
<1>2. Sound(tab, own, home, crossed)
  BY DEF IInv, Good
<1>3. i \in 1..Len(AsValue(v).elems)
  BY DEF Size
<1> HIDE DEF tab, own, t
<1>4. \A j \in 1..Len(tab[t].elems) :
         Joined(home[tab[t].elems[j]], own[t], crossed) /\ own[t] # None
  BY <1>1, <1>2 DEF Sound
<1>5. Joined(home[AsValue(v).elems[i]], own[t], crossed) /\ own[t] # None
  BY <1>1, <1>3, <1>4
<1>6. crossed \subseteq Pools
  BY <1>2 DEF Sound
<1>7. Joined(home[AsValue(v).elems[i]], values[v].alloc, crossed)
  BY <1>1, <1>5, JoinedFacts
<1>8. values[v].alloc # None
  BY <1>1, <1>5, <1>6, JoinedNone
<1> QED
  BY <1>1, <1>3, <1>7, <1>8, ContentsFacts

LEMMA FindGood ==
    ASSUME IInv, NEW v \in Values, NEW w \in Values, NEW i, Find(v, i, w)
    PROVE  IInv'
<1> DEFINE p == values[v].alloc
           a == AsValue(v).elems[i]
<1>1. /\ values' = SetTo(values, w, None, Null, a, p)
      /\ mem' = mem /\ home' = home /\ crossed' = crossed
      /\ values[w] = Empty
      /\ i \in 1..Size(AsValue(v))
  BY DEF Find, Element, SetTo
<1>2. /\ Typed(values, mem, home) /\ Documents(values)
      /\ References(values, home, crossed)
      /\ Sound(Tabs(values, mem), Owns(values, home), home, crossed)
  BY DEF IInv, Good
<1>3. a \in Addresses /\ Joined(home[a], p, crossed) /\ p # None
  BY <1>1, SlotsOwned
<1>4. p \in Pools \cup {None}
  BY <1>2, TypedFacts
<1>5. Bare(Null) /\ Fit(Null, p)
  BY BareContents
<1> HIDE DEF p, a
<1>6. /\ Typed(values', mem, home)
      /\ values'[w].pool = None /\ values'[w].root = Null
      /\ values'[w].ref = a /\ values'[w].alloc = p
      /\ \A u \in Values \ {w} : values'[u] = values[u]
      /\ Sound(Tabs(values', mem), Owns(values', home), home, crossed)
  <2>1. a \in Addresses \cup {None} /\ None \in Pools \cup {None} /\ w \in Values
    BY <1>3
  <2> QED
    BY ONLY <1>1, <1>2, <1>4, <1>5, <2>1, ValueReset
<1>7. Documents(values')
  BY <1>2, <1>3, <1>6, AddressesAssumption DEF Documents
<1>8. References(values', home, crossed)
  BY <1>2, <1>3, <1>6 DEF References
<1> QED
  BY <1>1, <1>6, <1>7, <1>8 DEF IInv, Good

\* A free address may get a content without members, in any pool.
LEMMA AllocatedIn ==
    ASSUME NEW vs, NEW m, NEW h, Typed(vs, m, h), NEW X,
           Sound(Tabs(vs, m), Owns(vs, h), h, X),
           NEW s \in Addresses, h[s] = None, NEW c, Bare(c),
           NEW p \in Pools \cup {None}, Fit(c, p)
    PROVE  LET m2 == [m EXCEPT ![s] = c]
               h2 == [h EXCEPT ![s] = p]
           IN  /\ Typed(vs, m2, h2)
               /\ Sound(Tabs(vs, m2), Owns(vs, h2), h2, X)
               /\ Unused(Tabs(vs, m2), s)
<1> DEFINE m2 == [m EXCEPT ![s] = c]
           h2 == [h EXCEPT ![s] = p]
           t == <<"mem", s>>
           own == Owns(vs, h)
           own2 == Owns(vs, h2)
           tab == Tabs(vs, m)
<1>1. h2[s] = p /\ \A a \in Addresses \ {s} : h2[a] = h[a]
  BY DEF Typed
<1>2. c \in Contents
  BY DEF Bare
<1>3. Typed(vs, m2, h2)
  BY <1>2 DEF Typed
<1>4. Tabs(vs, m2) = [tab EXCEPT ![t] = c]
  BY <1>2, TabsSet
<1> HIDE DEF m2, h2
<1>5. own2[t] = p
  BY <1>1, OwnsAt
<1>6. \A u \in Tables \ {t} : own2[u] = own[u]
  <2>1. \A a \in Addresses \ {s} : h2[a] = h[a]
    BY <1>1
  <2>2. OthersOwned(own2, own, s)
    BY ONLY <2>1, OwnsOther
  <2> QED
    BY <2>2 DEF OthersOwned
<1> HIDE DEF own, own2, tab
<1>7. Fit(c, own2[t])
  BY <1>5
<1>8. Sound(tab, own, h, X)
  BY DEF tab, own
<1>9. Sound([tab EXCEPT ![t] = c], own2, h2, X) /\ Unused([tab EXCEPT ![t] = c], s)
  <2>1. /\ s \in Addresses /\ h[s] = None /\ Bare(c)
        /\ \A a \in Addresses \ {s} : h2[a] = h[a]
    BY <1>1
  <2> QED
    BY ONLY <1>6, <1>7, <1>8, <2>1, Allocated
<1> QED
  BY <1>3, <1>4, <1>9 DEF m2, h2, own2, tab

\* A reference stays one when a free address is taken.
LEMMA ReferenceKept ==
    ASSUME IInv, NEW s \in Addresses, home[s] = None, NEW p,
           NEW w \in Values, values[w].ref # None
    PROVE  /\ values[w].alloc # None
         /\  
         /\ Joined([home EXCEPT ![s] = p][values[w].ref], values[w].alloc, crossed)
<1>1. values[w].ref \in Addresses /\ home \in [Addresses -> Pools \cup {None}]
  BY TypedFacts DEF IInv, Good, Typed
<1>2. /\ Joined(home[values[w].ref], values[w].alloc, crossed)
      /\ values[w].alloc # None /\ crossed \subseteq Pools
  BY DEF IInv, Good, References, Sound
<1>3. home[values[w].ref] # None
  BY <1>2, JoinedFacts
<1>4. [home EXCEPT ![s] = p][values[w].ref] = home[values[w].ref]
  BY <1>1, <1>3
<1> QED
  BY <1>2, <1>4

LEMMA ConstructChildGood ==
    ASSUME IInv, NEW v \in Values, NEW d \in Values,
           NEW kind \in {"object", "array"}, ConstructChild(v, d, kind)
    PROVE  IInv'
<1> DEFINE p == values[d].pool
           c == EmptyTable(kind)
           vs == SetTo(values, v, None, Null, Slot, p)
           m == [mem EXCEPT ![Slot] = c]
           h == [home EXCEPT ![Slot] = p]
<1>1. Commit(vs, m, h) /\ p # None /\ Free # {} /\ crossed' = crossed
  BY DEF ConstructChild, Element, SetTo
<1>2. Slot \in Addresses /\ home[Slot] = None
  BY <1>1, SlotFacts
<1>3. /\ Typed(values, mem, home) /\ Documents(values)
      /\ References(values, home, crossed)
      /\ Sound(Tabs(values, mem), Owns(values, home), home, crossed)
  BY DEF IInv, Good
<1>4. p \in Pools \cup {None}
  BY <1>3, TypedFacts
<1>5. Bare(Null) /\ Fit(Null, p) /\ Bare(c) /\ Fit(c, p)
  BY <1>1, BareContents, BareFacts
<1>6. h[Slot] = p
  BY <1>2, <1>3 DEF Typed
<1> HIDE DEF p, c
<1>7. /\ Typed(vs, mem, home)
      /\ vs[v].pool = None /\ vs[v].root = Null
      /\ vs[v].ref = Slot /\ vs[v].alloc = p
      /\ \A w \in Values \ {v} : vs[w] = values[w]
      /\ Sound(Tabs(vs, mem), Owns(vs, home), home, crossed)
  <2>1. /\ p \in Pools \cup {None} /\ v \in Values /\ None \in Pools \cup {None}
        /\ Slot \in Addresses \cup {None}
    BY <1>2, <1>4
  <2> QED
    BY ONLY <1>3, <1>5, <2>1, ValueReset DEF vs
<1> HIDE DEF vs
<1>8. /\ Typed(vs, m, h)
      /\ Sound(Tabs(vs, m), Owns(vs, h), h, crossed)
  BY ONLY <1>2, <1>4, <1>5, <1>7, AllocatedIn
<1>9. Documents(vs)
  BY <1>2, <1>3, <1>7, AddressesAssumption DEF Documents
<1>10. References(vs, h, crossed)
  <2>1. ASSUME NEW w \in Values \ {v}, values[w].ref # None
        PROVE  Joined(h[values[w].ref], values[w].alloc, crossed)
               /\ values[w].alloc # None
    BY <1>2, <2>1, ReferenceKept
  <2> QED
    BY <1>1, <1>6, <1>7, <2>1, JoinedFacts DEF References
<1>11. Good(vs, m, h, crossed)
  BY <1>8, <1>9, <1>10 DEF Good
<1> QED
  BY <1>1, <1>11, CommitGood

LEMMA ParseGood ==
    ASSUME IInv, NEW v \in Values, NEW name \in Names, NEW x \in Scalars,
           Parse(v, name, x)
    PROVE  IInv'
<1> DEFINE p == IF values[v].pool = None THEN Min(FreePools) ELSE values[v].pool
           c == EmptyTable("object")
           d == Scalar(x)
           more == With(c, name, Slot)
           t == <<"root", v>>
           vs1 == SetTo(values, v, p, c, None, p)
           vs == SetTo(vs1, v, p, more, None, p)
           m == [mem EXCEPT ![Slot] = d]
           h == [home EXCEPT ![Slot] = p]
<1>1. /\ Typed(values, mem, home) /\ Documents(values)
      /\ References(values, home, crossed)
      /\ Sound(Tabs(values, mem), Owns(values, home), home, crossed)
  BY DEF IInv, Good
<1>2. vs = [values EXCEPT ![v] = Document(p, AddMember(c, name))]
  <2>1. AddMember(c, name) = more
    BY DEF AddMember, With
  <2>2. SetTo(vs1, v, p, more, None, p) = SetTo(values, v, p, more, None, p)
    BY <1>1 DEF SetTo, Typed
  <2> HIDE DEF vs1, more, c, p
  <2> QED
    BY <2>1, <2>2 DEF SetTo, Document
<1>3. Commit(vs, m, h) /\ Free # {} /\ values[v].ref = None /\ crossed' = crossed
  BY <1>2 DEF Parse
<1>4. /\ p \in Pools \cup {None} /\ p # None
      /\ \A w \in Values \ {v} : values[w].pool # p
  <2>1. CASE values[v].pool = None
    BY <2>1, FreePoolFacts DEF Parse
  <2>2. CASE values[v].pool # None
    BY <1>1, <2>2, TypedFacts DEF Documents
  <2> QED
    BY <2>1, <2>2
<1>5. Slot \in Addresses /\ home[Slot] = None
  BY <1>3, SlotFacts
<1>6. Bare(c) /\ Fit(c, p) /\ Bare(d) /\ Fit(d, p) /\ c \in Contents
  BY <1>4, BareContents, BareFacts, EmptyContents
<1>7. h[Slot] = p
  BY <1>5, <1>1 DEF Typed
<1>8. more \in Contents
  BY <1>5, <1>6, WithFacts
<1> HIDE DEF p, c, d, more, vs
<1>9. /\ Typed(vs1, mem, home)
      /\ vs1[v].pool = p /\ vs1[v].root = c
      /\ vs1[v].ref = None /\ vs1[v].alloc = p
      /\ \A w \in Values \ {v} : vs1[w] = values[w]
      /\ Sound(Tabs(vs1, mem), Owns(vs1, home), home, crossed)
  <2>1. v \in Values /\ None \in Addresses \cup {None}
    OBVIOUS
  <2> QED
    BY ONLY <1>1, <1>4, <1>6, <2>1, ValueReset DEF vs1
<1> HIDE DEF vs1
<1>10. /\ Typed(vs1, m, h)
       /\ Sound(Tabs(vs1, m), Owns(vs1, h), h, crossed)
       /\ Unused(Tabs(vs1, m), Slot)
  BY ONLY <1>4, <1>5, <1>6, <1>9, AllocatedIn
<1> HIDE DEF m, h
<1>11. /\ t \in Tables /\ Tabs(vs1, m)[t] = c /\ Owns(vs1, h)[t] = p
  BY <1>9, TableCases, TabsAt, OwnsAt
<1>12. /\ Typed(vs, m, h)
       /\ vs[v].pool = p /\ vs[v].root = more
       /\ vs[v].ref = None /\ vs[v].alloc = p
       /\ \A w \in Values \ {v} : vs[w] = vs1[w]
       /\ Tabs(vs, m) = [Tabs(vs1, m) EXCEPT ![t] = more]
       /\ Owns(vs, h) = [Owns(vs1, h) EXCEPT ![t] = p]
  <2>1. v \in Values /\ None \in Addresses \cup {None}
    OBVIOUS
  <2> QED
    BY ONLY <1>4, <1>8, <1>10, <2>1, ValueSet DEF vs
<1> HIDE DEF t
<1>13. Owns(vs, h) = Owns(vs1, h)
  <2>1. Owns(vs1, h) \in [Tables -> Pools \cup {None}]
    BY <1>10, OwnsType
  <2> QED
    BY <1>11, <1>12, <2>1
<1>14. Sound(Tabs(vs, m), Owns(vs, h), h, crossed)
  <2>1. /\ name \in Names \cup {Item} /\ Joined(h[Slot], Owns(vs1, h)[t], crossed)
        /\ Owns(vs1, h)[t] # None /\ Slot \in Addresses /\ t # <<"mem", Slot>>
    BY <1>4, <1>5, <1>7, <1>11, JoinedFacts, TableCases DEF t
  <2>2. Sound([Tabs(vs1, m) EXCEPT ![t] = With(Tabs(vs1, m)[t], name, Slot)],
              Owns(vs1, h), h, crossed)
    BY ONLY <1>10, <1>11, <2>1, Linked
  <2> QED
    BY <1>11, <1>12, <1>13, <2>2 DEF more
<1>15. Documents(vs)
  BY <1>1, <1>4, <1>9, <1>12 DEF Documents
<1>16. References(vs, h, crossed)
  <2>1. ASSUME NEW w \in Values \ {v}, values[w].ref # None
        PROVE  Joined(h[values[w].ref], values[w].alloc, crossed)
               /\ values[w].alloc # None
    BY <1>5, <2>1, ReferenceKept DEF h
  <2> QED
    BY <1>9, <1>12, <2>1 DEF References
<1>17. Good(vs, m, h, crossed)
  BY <1>12, <1>14, <1>15, <1>16 DEF Good
<1> QED
  BY <1>3, <1>17, CommitGood

\* Documents that no table takes memory of have exchanged nothing.
LEMMA Narrowed ==
    ASSUME NEW tab, NEW own, NEW h, NEW X, Sound(tab, own, h, X), NEW p,
           \A t \in Tables : \A i \in 1..Len(tab[t].elems) :
              h[tab[t].elems[i]] # p /\ own[t] # p
    PROVE  Sound(tab, own, h, X \ {p})
<1>1. ASSUME NEW t \in Tables, NEW i \in 1..Len(tab[t].elems)
      PROVE  /\ Joined(h[tab[t].elems[i]], own[t], X \ {p}) /\ own[t] # None
             /\ t # <<"mem", tab[t].elems[i]>>
  <2>1. /\ Joined(h[tab[t].elems[i]], own[t], X) /\ own[t] # None
        /\ t # <<"mem", tab[t].elems[i]>>
    BY DEF Sound
  <2>2. h[tab[t].elems[i]] # p /\ own[t] # p
    OBVIOUS
  <2> QED
    BY <2>1, <2>2 DEF Joined
<1>2. X \ {p} \subseteq Pools
  BY DEF Sound
<1> QED
  BY <1>1, <1>2 DEF Sound

\* What a value gets to is closed, and begins at its root or where it refers to.
LEMMA ReachedFacts ==
    ASSUME IInv, NEW v \in Values
    PROVE  /\ Reached(v) \subseteq Addresses
           /\ \A a \in Reached(v) : Kids(mem[a]) \subseteq Reached(v)
           /\ Kids(values[v].root) \subseteq Reached(v)
           /\ values[v].ref # None => values[v].ref \in Reached(v)
           /\ \A T \in SUBSET Addresses :
                 /\ Kids(values[v].root) \subseteq T
                 /\ values[v].ref # None => values[v].ref \in T
                 /\ \A a \in T : Kids(mem[a]) \subseteq T
                 => Reached(v) \subseteq T
<1> DEFINE S == (Kids(values[v].root) \cup {values[v].ref}) \ {None}
<1>1. Typed(values, mem, home)
  BY DEF IInv, Good
<1>2. /\ values[v].root \in Contents /\ values[v].ref \in Addresses \cup {None}
      /\ \A a \in Addresses : mem[a] \in Contents
  BY <1>1, TypedFacts
<1>3. /\ Kids(values[v].root) \subseteq Addresses
      /\ \A a \in Addresses : Kids(mem[a]) \subseteq Addresses
  BY <1>2, KidsAre
<1>4. S \in SUBSET Addresses
  BY <1>2, <1>3
<1>5. /\ Kids(values[v].root) \subseteq S
      /\ values[v].ref # None => values[v].ref \in S
      /\ S \subseteq Kids(values[v].root) \cup {values[v].ref}
      /\ None \notin S
  BY <1>3, AddressesAssumption
<1>6. Reached(v) = Reach(S, mem)
  BY DEF Reached
<1> HIDE DEF S
<1>7. /\ S \subseteq Reach(S, mem)
      /\ Reach(S, mem) \subseteq Addresses
      /\ \A a \in Reach(S, mem) : Kids(mem[a]) \subseteq Reach(S, mem)
      /\ \A T \in SUBSET Addresses :
            S \subseteq T /\ (\A a \in T : Kids(mem[a]) \subseteq T)
                => Reach(S, mem) \subseteq T
  BY <1>3, <1>4, ReachFacts
<1>8. ASSUME NEW T \in SUBSET Addresses, Kids(values[v].root) \subseteq T,
             values[v].ref # None => values[v].ref \in T
      PROVE  S \subseteq T
  BY <1>5, <1>8
<1> QED
  BY <1>5, <1>6, <1>7, <1>8

\* The memory of a document that nothing else gets to may go with it.
Gone(v) == {a \in Addresses : home[a] # None /\ home[a] = values[v].pool}
MemWithout(v) == [a \in Addresses |-> IF a \in Gone(v) THEN Null ELSE mem[a]]
HomeWithout(v) == [a \in Addresses |-> IF a \in Gone(v) THEN None ELSE home[a]]
Others(v) == UNION {Reached(w) : w \in Values \ {v}}

LEMMA GoneGood ==
    ASSUME IInv, NEW v \in Values, Unreferenced(v),
           NEW vs, vs = [values EXCEPT ![v] = Empty]
    PROVE  /\ Holds(Others(v), vs, MemWithout(v))
           /\ Typed(vs, MemWithout(v), HomeWithout(v))
           /\ \A a \in Others(v) : MemWithout(v)[a] = mem[a] /\ HomeWithout(v)[a] = home[a]
           /\ Good(vs, Only(mem, Others(v), Null), Only(home, Others(v), None),
                   crossed \ {values[v].pool})
<1> DEFINE T == Others(v)
           m == MemWithout(v)
           h == HomeWithout(v)
           p == values[v].pool
           m2 == Only(mem, T, Null)
           h2 == Only(home, T, None)
           tab2 == Tabs(vs, m2)
           own2 == Owns(vs, h2)
<1>1. /\ Typed(values, mem, home) /\ Documents(values)
      /\ References(values, home, crossed)
      /\ Sound(Tabs(values, mem), Owns(values, home), home, crossed)
  BY DEF IInv, Good
<1>2. vs = SetTo(values, v, None, Null, None, None)
  BY DEF Empty, SetTo
<1>3. /\ Typed(vs, mem, home)
      /\ vs[v].pool = None /\ vs[v].root = Null
      /\ vs[v].ref = None /\ vs[v].alloc = None
      /\ \A w \in Values \ {v} : vs[w] = values[w]
      /\ Sound(Tabs(vs, mem), Owns(vs, home), home, crossed)
  <2>1. /\ v \in Values /\ None \in Addresses \cup {None} /\ None \in Pools \cup {None}
        /\ Bare(Null) /\ Fit(Null, None)
    BY BareContents
  <2> QED
    BY ONLY <1>1, <1>2, <2>1, ValueReset
<1>4. /\ \A w \in Values \ {v} : /\ Reached(w) \subseteq T
                                 /\ Kids(values[w].root) \subseteq Reached(w)
                               /\  
                               /\ values[w].ref # None => values[w].ref \in Reached(w)
      /\ \A a \in T : \E w \in Values \ {v} : a \in Reached(w)
  BY ReachedFacts DEF Others
<1>5. ASSUME NEW a \in T
      PROVE  /\ a \in Addresses /\ Kids(mem[a]) \subseteq T
             /\ home[a] # p /\ a \notin Gone(v)
  <2>1. PICK w \in Values \ {v} : a \in Reached(w)
    BY <1>4
  <2>2. a \in Addresses /\ Kids(mem[a]) \subseteq Reached(w)
    BY <2>1, ReachedFacts
  <2>3. home[a] # p
    BY <2>1 DEF Unreferenced
  <2> QED
    BY <1>4, <2>1, <2>2, <2>3 DEF Gone
<1>6. \A w \in Values \ {v} : values[w].alloc = None \/ values[w].alloc # p
  BY DEF Unreferenced
<1>7. Kids(Null) = {}
  <2>1. Null \in Contents /\ 1..Len(Null.elems) = {}
    BY EmptyContents
  <2> QED
    BY <2>1, KidsAre
<1> HIDE DEF T, p
<1>8. ASSUME NEW w \in Values
      PROVE  /\ Kids(vs[w].root) \subseteq T
             /\ vs[w].ref # None => vs[w].ref \in T
  <2>1. CASE w = v
    BY <1>3, <1>7, <2>1
  <2>2. CASE w # v
    BY <1>3, <1>4, <2>2
  <2> QED
    BY <2>1, <2>2
<1>9. Holds(T, vs, mem)
  BY <1>5, <1>8 DEF Holds
<1>10. \A a \in T : m[a] = mem[a] /\ h[a] = home[a]
  BY <1>5 DEF MemWithout, HomeWithout
<1>11. Typed(vs, m, h)
  <2>1. m \in [Addresses -> Contents]
    BY <1>1, TypedFacts, EmptyContents DEF MemWithout
  <2>2. h \in [Addresses -> Pools \cup {None}]
    BY <1>1, TypedFacts DEF HomeWithout
  <2> QED
    BY <1>3, <2>1, <2>2 DEF Typed
<1> HIDE DEF m, h
<1>12. Holds(T, vs, m)
  BY <1>9, <1>10 DEF Holds
<1>13. Documents(vs)
  BY <1>1, <1>3 DEF Documents
<1>14. References(vs, home, crossed)
  BY <1>1, <1>3 DEF References
<1>15. Good(vs, m2, h2, crossed)
  <2>1. Good(vs, mem, home, crossed)
    BY <1>3, <1>13, <1>14 DEF Good
  <2> QED
    BY <1>9, <2>1, OnlyGood
<1>16. /\ \A a \in T : m2[a] = mem[a] /\ h2[a] = home[a]
       /\ \A a \in Addresses \ T : m2[a] = Null
  BY <1>5 DEF Only
<1> HIDE DEF m2, h2
<1>17. ASSUME NEW t \in Tables, NEW i \in 1..Len(tab2[t].elems)
       PROVE  h2[tab2[t].elems[i]] # p /\ own2[t] # p
  <2>1. Sound(tab2, own2, h2, crossed)
    BY <1>15 DEF Good
  <2>2. tab2[t] \in Contents /\ own2[t] # None
    BY <2>1 DEF Sound
  <2>3. tab2[t].elems[i] \in Kids(tab2[t])
    BY <2>2, KidsAre
  <2>4. CASE \E w \in Values : t = <<"root", w>>
    <3>1. PICK w \in Values : t = <<"root", w>>
      BY <2>4
    <3>2. tab2[<<"root", w>>] = vs[w].root
      BY ONLY <3>1, TabsAt
    <3>3. own2[<<"root", w>>] = vs[w].alloc
      BY ONLY <3>1, OwnsAt
    <3> HIDE DEF tab2, own2
    <3>4. tab2[t].elems[i] \in T
      BY <1>8, <2>3, <3>1, <3>2
    <3>5. w # v
      BY <1>3, <2>2, <3>1, <3>3
    <3> QED
      BY <1>3, <1>5, <1>6, <1>16, <2>2, <3>1, <3>3, <3>4, <3>5
  <2>5. CASE \E a \in Addresses : t = <<"mem", a>>
    <3>1. PICK a \in Addresses : t = <<"mem", a>>
      BY <2>5
    <3>2. tab2[<<"mem", a>>] = m2[a]
      BY TabsAt
    <3>3. own2[<<"mem", a>>] = h2[a]
      BY OwnsAt
    <3> HIDE DEF tab2, own2
    <3>4. a \in T
      BY <1>7, <1>16, <2>3, <3>1, <3>2
    <3>5. tab2[t].elems[i] \in T
      BY <1>5, <1>16, <2>3, <3>1, <3>2, <3>4
    <3> QED
      BY <1>5, <1>16, <3>1, <3>3, <3>4, <3>5
  <2> HIDE DEF tab2, own2
  <2> QED
    BY <2>4, <2>5, TableCases
<1>18. Sound(tab2, own2, h2, crossed \ {p})
  <2>1. Sound(tab2, own2, h2, crossed)
    BY <1>15 DEF Good
  <2> HIDE DEF tab2, own2
  <2> QED
    BY <1>17, <2>1, Narrowed
<1>19. References(vs, h2, crossed \ {p})
  <2> SUFFICES ASSUME NEW w \in Values, vs[w].ref # None
               PROVE  /\ Joined(h2[vs[w].ref], vs[w].alloc, crossed \ {p})
                      /\ vs[w].alloc # None
    BY DEF References
  <2>1. /\ Joined(h2[vs[w].ref], vs[w].alloc, crossed) /\ vs[w].alloc # None
        /\ vs[w].ref \in T
    BY <1>8, <1>15 DEF Good, References
  <2>2. w # v
    BY <1>3
  <2>3. vs[w].alloc # p
    BY <1>3, <1>6, <2>1, <2>2
  <2>4. h2[vs[w].ref] # p
    BY <1>5, <1>16, <2>1
  <2> QED
    BY <2>1, <2>3, <2>4 DEF Joined
<1>20. Good(vs, m2, h2, crossed \ {p})
  BY <1>13, <1>15, <1>18, <1>19 DEF Good
<1> QED
  BY <1>10, <1>11, <1>12, <1>20 DEF T, m, h, m2, h2, p

LEMMA DestroyGood ==
    ASSUME IInv, NEW v \in Values, Destroy(v)
    PROVE  IInv'
<1> DEFINE vs == [values EXCEPT ![v] = Empty]
           m == MemWithout(v)
           h == HomeWithout(v)
           m2 == Only(mem, Others(v), Null)
           h2 == Only(home, Others(v), None)
<1>1. Unreferenced(v)
  BY DEF Destroy
<1>2. Commit(vs, m, h) /\ crossed' = crossed \ {values[v].pool}
  BY DEF Destroy, Replace, MemWithout, HomeWithout, Gone
<1> HIDE DEF vs
<1>3. /\ Holds(Others(v), vs, m) /\ Typed(vs, m, h)
      /\ \A a \in Others(v) : m[a] = mem[a] /\ h[a] = home[a]
      /\ Good(vs, m2, h2, crossed \ {values[v].pool})
  BY <1>1, GoneGood DEF vs
<1>4. \A a \in Others(v) : m2[a] = m[a] /\ h2[a] = h[a]
  BY <1>3 DEF Only, Holds
<1>5. Typed(vs, m2, h2)
  BY <1>3 DEF Good
<1> HIDE DEF m, h, m2, h2
<1>6. Commit(vs, m2, h2)
  BY <1>2, <1>3, <1>4, <1>5, CommitOnly
<1> QED
  BY <1>2, <1>3, <1>6, CommitGood

\* Two values may change places.
LEMMA ValuesSwapped ==
    ASSUME NEW vs, NEW m, NEW h, NEW X, Good(vs, m, h, X),
           NEW v \in Values, NEW w \in Values,
           NEW vs2, vs2 = [u \in Values |-> IF u = v THEN vs[w]
                                            ELSE IF u = w THEN vs[v] ELSE vs[u]]
    PROVE  Good(vs2, m, h, X)
<1> DEFINE other(u) == IF u = v THEN w ELSE IF u = w THEN v ELSE u
           from == [t \in Tables |-> IF t[1] = "root" THEN <<"root", other(t[2])>>
                                     ELSE t]
<1>1. \A u \in Values : other(u) \in Values /\ vs2[u] = vs[other(u)]
  OBVIOUS
<1>2. \A u, x \in Values : other(u) = other(x) => u = x
  OBVIOUS
<1>3. Typed(vs2, m, h)
  BY DEF Good, Typed
<1> HIDE DEF other
<1>4. Documents(vs2)
  BY <1>1, <1>2 DEF Good, Documents
<1>5. References(vs2, h, X)
  BY <1>1 DEF Good, References
<1>6. \A u \in Values : from[<<"root", u>>] = <<"root", other(u)>>
  BY TableCases
<1>7. \A a \in Addresses : from[<<"mem", a>>] = <<"mem", a>>
  BY TableCases
<1> HIDE DEF from
<1>8. from \in [Tables -> Tables]
  <2>1. ASSUME NEW t \in Tables
        PROVE  from[t] \in Tables
    BY <1>1, <1>6, <1>7, TableCases
  <2> QED
    BY <2>1 DEF from
<1>9. ASSUME NEW t \in Tables, NEW u \in Tables, from[t] = from[u]
      PROVE  t = u
  <2>1. CASE \E x \in Values : t = <<"root", x>>
    <3>1. PICK x \in Values : t = <<"root", x>>
      BY <2>1
    <3>2. PICK y \in Values : u = <<"root", y>>
      BY <1>6, <1>7, <1>9, <3>1, TableCases
    <3>3. other(x) = other(y)
      BY <1>6, <1>9, <3>1, <3>2, TableCases
    <3> QED
      BY <1>2, <3>1, <3>2, <3>3
  <2>2. CASE \E a \in Addresses : t = <<"mem", a>>
    <3>1. PICK a \in Addresses : t = <<"mem", a>>
      BY <2>2
    <3>2. PICK b \in Addresses : u = <<"mem", b>>
      BY <1>6, <1>7, <1>9, <3>1, TableCases
    <3> QED
      BY <1>7, <1>9, <3>1, <3>2
  <2> QED
    BY <2>1, <2>2, TableCases
<1> DEFINE tab == Tabs(vs, m)
           own == Owns(vs, h)
           tab2 == Tabs(vs2, m)
           own2 == Owns(vs2, h)
<1>10. ASSUME NEW t \in Tables
       PROVE  tab2[t] = tab[from[t]] /\ own2[t] = own[from[t]]
  <2>1. CASE \E x \in Values : t = <<"root", x>>
    <3>1. PICK x \in Values : t = <<"root", x>>
      BY <2>1
    <3>2. tab2[<<"root", x>>] = vs2[x].root
      BY TabsAt
    <3>3. tab[<<"root", other(x)>>] = vs[other(x)].root
      BY <1>1, TabsAt
    <3>4. own2[<<"root", x>>] = vs2[x].alloc
      BY OwnsAt
    <3>5. own[<<"root", other(x)>>] = vs[other(x)].alloc
      BY <1>1, OwnsAt
    <3> HIDE DEF tab, own, tab2, own2
    <3> QED
      BY <1>1, <1>6, <3>1, <3>2, <3>3, <3>4, <3>5
  <2>2. CASE \E a \in Addresses : t = <<"mem", a>>
    <3>1. PICK a \in Addresses : t = <<"mem", a>>
      BY <2>2
    <3>2. tab2[<<"mem", a>>] = m[a]
      BY TabsAt
    <3>3. tab[<<"mem", a>>] = m[a]
      BY TabsAt
    <3>4. own2[<<"mem", a>>] = h[a]
      BY OwnsAt
    <3>5. own[<<"mem", a>>] = h[a]
      BY OwnsAt
    <3> HIDE DEF tab, own, tab2, own2
    <3> QED
      BY <1>7, <3>1, <3>2, <3>3, <3>4, <3>5
  <2> HIDE DEF tab, own, tab2, own2
  <2> QED
    BY <2>1, <2>2, TableCases
<1>11. tab2 \in [Tables -> Contents]
  BY <1>3, TabsType
<1>12. Sound(tab, own, h, X)
  BY DEF Good
<1> HIDE DEF tab, own, tab2, own2
<1>13. ASSUME NEW t \in Tables, NEW i \in 1..Len(tab2[t].elems)
       PROVE  t # <<"mem", tab2[t].elems[i]>>
  <2>1. CASE \E x \in Values : t = <<"root", x>>
    BY <2>1, TableCases
  <2>2. CASE \E a \in Addresses : t = <<"mem", a>>
    <3>1. tab2[t] = tab[t]
      BY <1>7, <1>10, <2>2
    <3> QED
      BY <1>12, <3>1 DEF Sound
  <2> QED
    BY <2>1, <2>2, TableCases
<1>14. \A t \in Tables : tab2[t] = tab[from[t]] /\ Joined(own2[t], own[from[t]], X)
  BY <1>10, JoinedFacts
<1>15. Sound(tab2, own2, h, X)
  BY ONLY <1>8, <1>9, <1>11, <1>12, <1>13, <1>14, Exchanged
<1> QED
  BY <1>3, <1>4, <1>5, <1>15 DEF Good, tab2, own2

LEMMA MoveGood ==
    ASSUME IInv, NEW v \in Values, NEW w \in Values, Move(v, w)
    PROVE  IInv'
<1> DEFINE without == [values EXCEPT ![v] = Empty]
           vs == [[values EXCEPT ![w] = Empty] EXCEPT ![v] = values[w]]
           T == Others(v)
           X == crossed \ {values[v].pool}
           m == MemWithout(v)
           h == HomeWithout(v)
           m2 == Only(mem, T, Null)
           h2 == Only(home, T, None)
<1>1. v # w /\ Unreferenced(v)
  BY DEF Move
<1>2. Commit(vs, m, h) /\ crossed' = X
  BY DEF Move, Replace, MemWithout, HomeWithout, Gone
<1>3. vs = [u \in Values |-> IF u = v THEN without[w]
                             ELSE IF u = w THEN without[v] ELSE without[u]]
  BY <1>1 DEF IInv, Good, Typed
<1> HIDE DEF without, vs
<1>4. /\ Holds(T, without, m) /\ Typed(without, m, h)
      /\ \A a \in T : m[a] = mem[a] /\ h[a] = home[a]
      /\ Good(without, m2, h2, X)
  BY <1>1, GoneGood DEF without
<1>5. Good(vs, m2, h2, X)
  <2>1. Good(without, m2, h2, X) /\ v \in Values /\ w \in Values
    BY <1>4
  <2> QED
    BY ONLY <1>3, <2>1, ValuesSwapped
<1>6. \A a \in T : m2[a] = m[a] /\ h2[a] = h[a]
  BY <1>4 DEF Only, Holds
<1>7. Typed(vs, m2, h2)
  BY <1>5 DEF Good
<1> HIDE DEF m, h, m2, h2, T, X
<1>8. Typed(vs, m, h)
  BY <1>4, <1>7 DEF Typed
<1>9. Holds(T, vs, m)
  BY <1>3, <1>4 DEF Holds
<1>10. Commit(vs, m2, h2)
  BY <1>2, <1>6, <1>7, <1>8, <1>9, CommitOnly
<1> QED
  BY <1>2, <1>5, <1>10, CommitGood

LEMMA SwapGood ==
    ASSUME IInv, NEW v \in Values, NEW w \in Values, Swap(v, w)
    PROVE  IInv'
<1> DEFINE X == Crossing(v, w)
           tab == Tabs(values, mem)
           own == Owns(values, home)
           t == At(values, v)
           u == At(values, w)
           tab2 == Tabs(values', mem')
           own2 == Owns(values', home')
<1>1. /\ Typed(values, mem, home) /\ Documents(values)
      /\ References(values, home, crossed)
      /\ Sound(tab, own, home, crossed)
  BY DEF IInv, Good
<1>2. /\ t \in Tables /\ tab[t] = AsValue(v)
      /\ u \in Tables /\ tab[u] = AsValue(w)
      /\ Joined(own[t], values[v].alloc, crossed)
      /\ Joined(own[u], values[w].alloc, crossed)
      /\ AsValue(v) \in Contents /\ AsValue(w) \in Contents
  BY AtFacts
<1>3. /\ v # w /\ values[v].alloc # None /\ values[w].alloc # None
      /\ home' = home /\ crossed' = X
  BY DEF Swap
<1>4. /\ values' = [values EXCEPT
            ![v].root = IF values[v].ref = None THEN AsValue(w) ELSE @,
            ![w].root = IF values[w].ref = None THEN AsValue(v) ELSE @]
      /\ mem' = [a \in Addresses |->
            IF a = values[v].ref THEN AsValue(w)
            ELSE IF a = values[w].ref THEN AsValue(v) ELSE mem[a]]
  BY DEF Swap
<1>5. Typed(values', mem', home')
  BY <1>1, <1>2, <1>3, <1>4 DEF Typed
<1>6. \A x \in Values :
         /\ values'[x].pool = values[x].pool /\ values'[x].ref = values[x].ref
         /\ values'[x].alloc = values[x].alloc
         /\ values'[x].root = IF x = v /\ values[v].ref = None THEN AsValue(w)
                              ELSE IF x = w /\ values[w].ref = None THEN AsValue(v)
                              ELSE values[x].root
  BY <1>1, <1>3, <1>4 DEF Typed
<1>6a. crossed \subseteq X /\ X \subseteq Pools
       /\ Joined(values[v].alloc, values[w].alloc, X)
  <2>1. crossed \subseteq Pools
    BY <1>1 DEF Sound
  <2>2. values[v].alloc \in Pools /\ values[w].alloc \in Pools
    BY <1>1, <1>3, TypedFacts
  <2> QED
    BY <2>1, <2>2 DEF Crossing, Joined
<1> HIDE DEF X
<1>7. Documents(values') /\ References(values', home', X)
  <2>1. Documents(values')
    BY <1>1, <1>6 DEF Documents
  <2>2. ASSUME NEW x \in Values, values'[x].ref # None
        PROVE  Joined(home'[values'[x].ref], values'[x].alloc, X)
               /\ values'[x].alloc # None
    <3>1. Joined(home[values[x].ref], values[x].alloc, crossed)
          /\ values[x].alloc # None
      BY <1>1, <1>6, <2>2 DEF References
    <3> QED
      BY <1>3, <1>6, <1>6a, <3>1, JoinedMore
  <2> QED
    BY <2>1, <2>2 DEF References
<1>8. tab2 \in [Tables -> Contents] /\ own2 \in [Tables -> Pools \cup {None}]
  BY <1>5, TabsType, OwnsType
<1>9. own2 = own
  <2>1. ASSUME NEW x \in Values
        PROVE  own2[<<"root", x>>] = own[<<"root", x>>]
    <3>1. own2[<<"root", x>>] = values'[x].alloc
      BY OwnsAt
    <3>2. own[<<"root", x>>] = values[x].alloc
      BY OwnsAt
    <3> QED
      BY <1>6, <3>1, <3>2
  <2>2. ASSUME NEW a \in Addresses
        PROVE  own2[<<"mem", a>>] = own[<<"mem", a>>]
    <3>1. own2[<<"mem", a>>] = home'[a]
      BY OwnsAt
    <3>2. own[<<"mem", a>>] = home[a]
      BY OwnsAt
    <3> QED
      BY <1>3, <3>1, <3>2
  <2>3. own \in [Tables -> Pools \cup {None}]
    BY <1>1, OwnsType
  <2> HIDE DEF own, own2
  <2> QED
    BY <1>8, <2>1, <2>2, <2>3, TablesAgree
<1> DEFINE swapped == [x \in Tables |-> IF x = t THEN tab[u]
                                        ELSE IF x = u THEN tab[t] ELSE tab[x]]
<1>10. tab2 = swapped
  <2>1. swapped \in [Tables -> Contents]
    <3>1. tab \in [Tables -> Contents]
      BY <1>1, TabsType
    <3> QED
      BY <1>2, <3>1
  <2>2. /\ \A x \in Values : (<<"root", x>> = t) <=> (x = v /\ values[v].ref = None)
        /\ \A x \in Values : (<<"root", x>> = u) <=> (x = w /\ values[w].ref = None)
    BY TableCases DEF At
  <2>3. /\ \A a \in Addresses : (<<"mem", a>> = t) <=> a = values[v].ref
        /\ \A a \in Addresses : (<<"mem", a>> = u) <=> a = values[w].ref
    BY TableCases, AddressesAssumption DEF At
  <2>4. ASSUME NEW x \in Values
        PROVE  tab2[<<"root", x>>] = swapped[<<"root", x>>]
    <3>1. tab2[<<"root", x>>] = values'[x].root
      BY TabsAt
    <3>2. tab[<<"root", x>>] = values[x].root
      BY TabsAt
    <3>3. <<"root", x>> \in Tables
      BY TableCases
    <3> HIDE DEF tab, tab2, t, u
    <3> QED
      BY <1>2, <1>6, <2>2, <3>1, <3>2, <3>3
  <2>5. ASSUME NEW a \in Addresses
        PROVE  tab2[<<"mem", a>>] = swapped[<<"mem", a>>]
    <3>1. tab2[<<"mem", a>>] = mem'[a]
      BY TabsAt
    <3>2. tab[<<"mem", a>>] = mem[a]
      BY TabsAt
    <3>3. <<"mem", a>> \in Tables
      BY TableCases
    <3> HIDE DEF tab, tab2, t, u
    <3> QED
      BY <1>2, <1>4, <2>3, <3>1, <3>2, <3>3
  <2> HIDE DEF swapped, tab2
  <2> QED
    BY <1>8, <2>1, <2>4, <2>5, TablesAgree
<1>11. /\ \A i \in 1..Len(tab[u].elems) : t # <<"mem", tab[u].elems[i]>>
       /\ \A i \in 1..Len(tab[t].elems) : u # <<"mem", tab[t].elems[i]>>
  <2>1. \A a \in Addresses : Kids(mem[a]) \subseteq Addresses
    BY <1>1, TypedFacts, KidsAre
  <2>2. ASSUME NEW x \in Values
        PROVE  Kids(AsValue(x)) \subseteq Reach(Kids(AsValue(x)), mem)
    <3>1. Kids(AsValue(x)) \in SUBSET Addresses
      BY AtFacts, KidsAre
    <3> QED
      BY <2>1, <3>1, ReachFacts
  <2>3. /\ values[v].ref \notin Kids(AsValue(w))
        /\ values[w].ref \notin Kids(AsValue(v))
    BY <2>2 DEF Swap
  <2>4. ASSUME NEW x \in Values, NEW c \in Contents, NEW i \in 1..Len(c.elems),
               values[x].ref \notin Kids(c)
        PROVE  At(values, x) # <<"mem", c.elems[i]>>
    <3>1. c.elems[i] \in Kids(c)
      BY KidsAre
    <3> QED
      BY <2>4, <3>1, TableCases DEF At
  <2> QED
    BY <1>2, <2>3, <2>4
<1> HIDE DEF tab, own, t, u, tab2, own2
<1>12. Sound(tab, own, home, X)
  BY <1>1, <1>6a, Widened
<1>13. Joined(own[t], own[u], X)
  <2>1. Joined(own[t], values[v].alloc, X) /\ Joined(own[u], values[w].alloc, X)
    BY <1>2, <1>6a, JoinedMore
  <2> QED
    BY <1>6a, <2>1, JoinedFacts
<1>14. Sound(tab2, own, home, X)
  <2>1. t \in Tables /\ u \in Tables
    BY <1>2
  <2> QED
    BY ONLY <1>10, <1>11, <1>12, <1>13, <2>1, Swapped
<1>15. Sound(tab2, own2, home', X)
  BY <1>3, <1>9, <1>14
<1> QED
  BY <1>3, <1>5, <1>7, <1>15 DEF IInv, Good, tab2, own2

-----------------------------------------------------------------------------
(* Copying a document *)

LEMMA CopiedFacts ==
    ASSUME NEW c \in Contents, NEW R, Kids(c) \subseteq R,
           NEW at \in [R -> Addresses]
    PROVE  /\ Copied(c, at) \in Contents
           /\ Copied(c, at).kind = c.kind /\ Copied(c, at).names = c.names
           /\ Len(Copied(c, at).elems) = Len(c.elems)
           /\ \A i \in 1..Len(c.elems) :
                 c.elems[i] \in R /\ Copied(c, at).elems[i] = at[c.elems[i]]
<1> DEFINE new == [i \in DOMAIN c.elems |-> at[c.elems[i]]]
<1>1. /\ Copied(c, at).elems = new /\ Copied(c, at).kind = c.kind
      /\ Copied(c, at).names = c.names /\ Copied(c, at).scalar = c.scalar
      /\ Copied(c, at) = [c EXCEPT !.elems = new]
  BY DEF Copied, Contents
<1>2. /\ Len(c.elems) \in Nat /\ DOMAIN c.elems = 1..Len(c.elems)
      /\ \A i \in 1..Len(c.elems) : c.elems[i] \in R
  BY ContentsFacts, KidsAre
<1>3. new \in [1..Len(c.elems) -> Addresses]
  BY <1>2
<1>4. new \in Seq(Addresses) /\ Len(new) = Len(c.elems)
  BY <1>2, <1>3
<1>5. \A i \in 1..Len(c.elems) : new[i] = at[c.elems[i]]
  BY <1>2
<1> HIDE DEF new
<1>6. Copied(c, at) \in Contents
  BY <1>1, <1>4 DEF Contents
<1> QED
  BY <1>1, <1>2, <1>4, <1>5, <1>6

\* The tables D of tab2 are copies of those that src gives in tab, in the pool
\* p, with each element r at the free address at[r]; all else is as in tab.
CopiedTables(tab, own, h, X, R, at, D, src, p, tab2, own2, h2) ==
    /\ Sound(tab, own, h, X)
    /\ at \in [R -> Addresses]
    /\ \A r, q \in R : at[r] = at[q] => r = q
    /\ \A r \in R : h[at[r]] = None /\ h2[at[r]] = p
    /\ D \in SUBSET Tables /\ src \in [D -> Tables]
    /\ \A t, u \in D : src[t] = src[u] => t = u
    /\ \A t \in D : Kids(tab[src[t]]) \subseteq R
    /\ \A t \in D, r \in R : t = <<"mem", at[r]>> => src[t] = <<"mem", r>>
    /\ p # None
    /\ tab2 \in [Tables -> Contents]
    /\ \A t \in D : tab2[t] = Copied(tab[src[t]], at) /\ own2[t] = p
    /\ \A t \in Tables \ D : tab2[t] = tab[t] /\ own2[t] = own[t]
    /\ \A a \in Addresses : h[a] # None => h2[a] = h[a]

\* They are sound.
LEMMA Copying ==
    ASSUME NEW tab, NEW own, NEW h, NEW X, NEW R, NEW at, NEW D, NEW src, NEW p,
           NEW tab2, NEW own2, NEW h2,
           CopiedTables(tab, own, h, X, R, at, D, src, p, tab2, own2, h2),
           NEW s, h[s] = None, \A r \in R : at[r] # s
    PROVE  Sound(tab2, own2, h2, X) /\ Unused(tab2, s)
<1> USE DEF CopiedTables
<1>0. ASSUME NEW t \in D
      PROVE  /\ src[t] \in Tables
             /\ tab2[t].names = tab[src[t]].names
             /\ tab2[t].kind = tab[src[t]].kind
             /\ Len(tab2[t].elems) = Len(tab[src[t]].elems)
             /\ \A i \in 1..Len(tab[src[t]].elems) :
                   /\ tab[src[t]].elems[i] \in R
                   /\ tab2[t].elems[i] = at[tab[src[t]].elems[i]]
  <2> DEFINE c == tab[src[t]]
  <2>1. src[t] \in Tables
    OBVIOUS
  <2>2. /\ c \in Contents /\ Kids(c) \subseteq R /\ at \in [R -> Addresses]
        /\ tab2[t] = Copied(c, at)
    BY <2>1 DEF Sound
  <2> HIDE DEF c
  <2>3. /\ Copied(c, at).kind = c.kind /\ Copied(c, at).names = c.names
        /\ Len(Copied(c, at).elems) = Len(c.elems)
        /\ \A i \in 1..Len(c.elems) :
              c.elems[i] \in R /\ Copied(c, at).elems[i] = at[c.elems[i]]
    BY ONLY <2>2, CopiedFacts
  <2> QED
    BY <2>1, <2>2, <2>3 DEF c
<1>1. ASSUME NEW t \in D, NEW i \in 1..Len(tab2[t].elems)
      PROVE  /\ i \in 1..Len(tab[src[t]].elems)
             /\ tab[src[t]].elems[i] \in R
             /\ tab2[t].elems[i] = at[tab[src[t]].elems[i]]
  BY <1>0
<1>2. ASSUME NEW t \in Tables \ D, NEW i \in 1..Len(tab2[t].elems)
      PROVE  /\ i \in 1..Len(tab[t].elems) /\ tab2[t].elems[i] = tab[t].elems[i]
             /\ tab[t].elems[i] \in Addresses
             /\ Joined(h[tab[t].elems[i]], own[t], X) /\ own[t] # None
             /\ t # <<"mem", tab[t].elems[i]>> /\ h[tab[t].elems[i]] # None
  <2>1. tab[t] \in Contents
    BY DEF Sound
  <2>2. i \in 1..Len(tab[t].elems) /\ tab2[t].elems[i] = tab[t].elems[i]
    OBVIOUS
  <2>3. tab[t].elems[i] \in Addresses
    BY <2>1, <2>2, ContentsFacts
  <2>4. /\ Joined(h[tab[t].elems[i]], own[t], X) /\ own[t] # None
        /\ t # <<"mem", tab[t].elems[i]>> /\ X \subseteq Pools
    BY <2>2 DEF Sound
  <2>5. h[tab[t].elems[i]] # None
    BY <2>4, JoinedNone
  <2> QED
    BY <2>2, <2>3, <2>4, <2>5
<1>3. ASSUME NEW t \in Tables
      PROVE  Fit(tab2[t], own2[t])
  <2>1. CASE t \in D
    <3>1. Fit(tab[src[t]], own[src[t]])
      BY <1>0, <2>1 DEF Sound
    <3> QED
      BY <1>0, <2>1, <3>1 DEF Fit
  <2>2. CASE t \notin D
    BY <2>2 DEF Sound
  <2> QED
    BY <2>1, <2>2
<1>4. ASSUME NEW t \in Tables, NEW i \in 1..Len(tab2[t].elems)
      PROVE  /\ Joined(h2[tab2[t].elems[i]], own2[t], X) /\ own2[t] # None
             /\ t # <<"mem", tab2[t].elems[i]>>
  <2>1. CASE t \in D
    <3> DEFINE r == tab[src[t]].elems[i]
    <3>1. r \in R /\ tab2[t].elems[i] = at[r] /\ i \in 1..Len(tab[src[t]].elems)
      BY <1>1, <2>1
    <3>2. h2[tab2[t].elems[i]] = p /\ own2[t] = p /\ p # None
      BY <2>1, <3>1
    <3>3. src[t] # <<"mem", r>>
      <4>1. src[t] \in Tables
        BY <1>0, <2>1
      <4>2. Sound(tab, own, h, X)
        OBVIOUS
      <4> QED
        BY ONLY <3>1, <4>1, <4>2, SlotApart DEF r
    <3>4. t # <<"mem", at[r]>>
      BY <2>1, <3>1, <3>3
    <3> QED
      BY <3>1, <3>2, <3>4, JoinedFacts
  <2>2. CASE t \notin D
    <3>1. /\ tab2[t].elems[i] = tab[t].elems[i] /\ tab[t].elems[i] \in Addresses
          /\ Joined(h[tab[t].elems[i]], own[t], X) /\ own[t] # None
          /\ t # <<"mem", tab[t].elems[i]>> /\ h[tab[t].elems[i]] # None
      BY <1>2, <2>2
    <3>2. own2[t] = own[t] /\ h2[tab[t].elems[i]] = h[tab[t].elems[i]]
      BY <2>2, <3>1
    <3> QED
      BY <3>1, <3>2
  <2> QED
    BY <2>1, <2>2
<1>5. ASSUME NEW t \in Tables, NEW u \in Tables,
             NEW i \in 1..Len(tab2[t].elems), NEW j \in 1..Len(tab2[u].elems),
             tab2[t].elems[i] = tab2[u].elems[j]
      PROVE  t = u /\ i = j
  <2>1. CASE t \in D /\ u \in D
    <3>0. /\ tab[src[t]].elems[i] \in R
          /\ tab2[t].elems[i] = at[tab[src[t]].elems[i]]
          /\ tab[src[u]].elems[j] \in R
          /\ tab2[u].elems[j] = at[tab[src[u]].elems[j]]
      BY <1>1, <1>5, <2>1
    <3>1. tab[src[t]].elems[i] = tab[src[u]].elems[j]
      <4>1. \A r, q \in R : at[r] = at[q] => r = q
        OBVIOUS
      <4> QED
        BY ONLY <1>5, <3>0, <4>1
    <3>2. /\ i \in 1..Len(tab[src[t]].elems) /\ j \in 1..Len(tab[src[u]].elems)
          /\ src[t] \in Tables /\ src[u] \in Tables
      BY <1>0, <1>1, <2>1
    <3>3. src[t] = src[u] /\ i = j
      BY <3>1, <3>2 DEF Sound
    <3> QED
      BY <2>1, <3>3
  <2>2. CASE t \notin D /\ u \notin D
    <3>1. tab[t].elems[i] = tab[u].elems[j]
      BY <1>2, <1>5, <2>2
    <3> QED
      BY <1>2, <2>2, <3>1 DEF Sound
  <2>3. CASE t \in D /\ u \notin D
    <3>1. h[tab2[t].elems[i]] = None
      BY <1>1, <2>3
    <3>2. h[tab2[u].elems[j]] # None
      BY <1>2, <2>3
    <3> QED
      BY <1>5, <3>1, <3>2
  <2>4. CASE t \notin D /\ u \in D
    <3>1. h[tab2[u].elems[j]] = None
      BY <1>1, <2>4
    <3>2. h[tab2[t].elems[i]] # None
      BY <1>2, <2>4
    <3> QED
      BY <1>5, <3>1, <3>2
  <2> QED
    BY <2>1, <2>2, <2>3, <2>4
<1>6. Unused(tab2, s)
  <2> SUFFICES ASSUME NEW t \in Tables, NEW i \in 1..Len(tab2[t].elems)
               PROVE  tab2[t].elems[i] # s
    BY DEF Unused
  <2>1. CASE t \in D
    BY <1>1, <2>1
  <2>2. CASE t \notin D
    BY <1>2, <2>2
  <2> QED
    BY <2>1, <2>2
<1>7. X \subseteq Pools
  BY DEF Sound
<1> QED
  BY <1>3, <1>4, <1>5, <1>6, <1>7 DEF Sound

LEMMA CopiesFacts ==
    ASSUME NEW R, NEW F, NEW at, at \in Injection(R, F)
    PROVE  /\ at \in [R -> F]
           /\ \A r, q \in R : at[r] = at[q] => r = q
           /\ \A r \in R : at[r] \in Range(at)
           /\ \A a \in Range(at) :
                 /\ a \in F
                 /\ AntiFunction(at)[a] \in R
                 /\ at[AntiFunction(at)[a]] = a
<1>1. at \in [R -> F] /\ \A r, q \in R : at[r] = at[q] => r = q
  BY DEF Injection, IsInjective
<1>2. \A r \in R : at[r] \in Range(at)
  BY <1>1 DEF Range
<1>3. ASSUME NEW a \in Range(at)
      PROVE  \E r \in R : at[r] = a
  BY <1>1 DEF Range
<1>4. ASSUME NEW a \in Range(at)
      PROVE  a \in F /\ AntiFunction(at)[a] \in R /\ at[AntiFunction(at)[a]] = a
  <2>1. AntiFunction(at)[a] = CHOOSE r \in R : a \in Range(at) => at[r] = a
    BY <1>1 DEF AntiFunction, Inverse
  <2> QED
    BY <1>1, <1>3, <1>4, <2>1
<1> QED
  BY <1>1, <1>2, <1>4

LEMMA AddDocumentGood ==
    ASSUME IInv, NEW v \in Values, NEW w \in Values,
           NEW name \in Names \cup {Item}, AddDocument(v, name, w)
    PROVE  IInv'
<1> DEFINE c == AsValue(v)
           root == values[w].root
           R == Reach(Kids(root), mem)
           at == CHOOSE f \in Copies(w) : TRUE
           from == AntiFunction(at)
           S == {Slot} \cup Range(at)
           p == values[v].alloc
           h == InDocumentOf(v, S)
           m == [a \in Addresses |->
                    CASE a = Slot -> Copied(root, at)
                      [] a \in Range(at) -> Copied(mem[from[a]], at)
                      [] OTHER -> mem[a]]
           tab == Tabs(values, mem)
           own == Owns(values, home)
           tab2 == Tabs(values, m)
           own2 == Owns(values, h)
           t == At(values, v)
<1>1. /\ v # w /\ Takes(v, name) /\ Copies(w) # {}
      /\ Store(v, AddMember(c, name), m, h) /\ crossed' = crossed
  BY DEF AddDocument
<1>2. Free # {} /\ p # None
  BY <1>1, TakesFacts
<1>3. Slot \in Addresses /\ home[Slot] = None
  BY <1>2, SlotFacts
<1>4. /\ Typed(values, mem, home) /\ Documents(values)
      /\ References(values, home, crossed) /\ crossed \subseteq Pools
      /\ Sound(tab, own, home, crossed)
  BY DEF IInv, Good, Sound
<1>5. /\ t \in Tables /\ tab[t] = c /\ Joined(own[t], p, crossed) /\ c \in Contents
  BY AtFacts
<1>6. root \in Contents /\ p \in Pools \cup {None}
  BY <1>4, TypedFacts
<1>7. /\ Kids(root) \subseteq R /\ R \subseteq Addresses
      /\ \A a \in R : Kids(mem[a]) \subseteq R
  <2>1. \A a \in Addresses : Kids(mem[a]) \subseteq Addresses
    BY <1>4, TypedFacts, KidsAre
  <2>2. Kids(root) \in SUBSET Addresses
    BY <1>6, KidsAre
  <2> QED
    BY <2>1, <2>2, ReachFacts
<1>8. at \in Injection(R, Free \ {Slot})
  BY <1>1 DEF Copies
<1> HIDE DEF root, R, at, c
<1>9. /\ at \in [R -> Free \ {Slot}]
      /\ \A r, q \in R : at[r] = at[q] => r = q
      /\ \A r \in R : at[r] \in Range(at)
      /\ \A a \in Range(at) :
            a \in Free \ {Slot} /\ from[a] \in R /\ at[from[a]] = a
  BY <1>8, CopiesFacts
<1>10. at \in [R -> Addresses]
  BY <1>9 DEF Free
<1>11. S \in SUBSET Addresses /\ \A a \in S : home[a] = None
  BY <1>3, <1>9 DEF Free
<1> HIDE DEF from
<1>12. /\ m[Slot] = Copied(root, at)
       /\ \A a \in Range(at) : m[a] = Copied(mem[from[a]], at)
       /\ \A a \in Addresses \ S : m[a] = mem[a]
  BY <1>3, <1>9, <1>11
<1>13. ASSUME NEW a \in Addresses
       PROVE  m[a] \in Contents
  <2>1. CASE a = Slot
    BY <1>6, <1>7, <1>10, <1>12, <2>1, CopiedFacts
  <2>2. CASE a \in Range(at)
    <3>1. from[a] \in R /\ Kids(mem[from[a]]) \subseteq R
      BY <1>7, <1>9, <2>2
    <3>2. mem[from[a]] \in Contents
      BY <1>4, <1>7, <3>1, TypedFacts
    <3>3. Copied(mem[from[a]], at) \in Contents
      BY ONLY <1>10, <3>1, <3>2, CopiedFacts
    <3> QED
      BY <1>12, <2>2, <3>3
  <2>3. CASE a \notin S
    BY <1>4, <1>12, <2>3, TypedFacts
  <2> QED
    BY <2>1, <2>2, <2>3
<1>14. h \in [Addresses -> Pools \cup {None}]
  BY <1>4, <1>6, TypedFacts DEF InDocumentOf
<1>15. Typed(values, m, h)
  BY <1>4, <1>13, <1>14 DEF Typed
<1>16. \A a \in Addresses : h[a] = IF a \in S THEN p ELSE home[a]
  BY DEF InDocumentOf
<1> HIDE DEF h, m, p
<1>17. References(values, h, crossed)
  <2> SUFFICES ASSUME NEW x \in Values, values[x].ref # None
               PROVE  Joined(h[values[x].ref], values[x].alloc, crossed)
                      /\ values[x].alloc # None
    BY DEF References
  <2>1. values[x].ref \in Addresses
    BY <1>4, TypedFacts
  <2>2. /\ Joined(home[values[x].ref], values[x].alloc, crossed)
        /\ values[x].alloc # None
    BY <1>4 DEF References
  <2>3. home[values[x].ref] # None
    BY <1>4, <2>2, JoinedFacts
  <2>4. h[values[x].ref] = home[values[x].ref]
    BY <1>11, <1>16, <2>1, <2>3
  <2> QED
    BY <2>2, <2>4
<1> DEFINE D == {<<"mem", a>> : a \in S}
           src == [x \in D |-> IF x[2] = Slot THEN <<"root", w>>
                               ELSE <<"mem", from[x[2]]>>]
<1>18. /\ \A a \in S : <<"mem", a>> \in D
       /\ \A x \in D : \E a \in S : x = <<"mem", a>>
       /\ \A a \in Addresses : <<"mem", a>> \in D => a \in S
       /\ \A x \in Values : <<"root", x>> \notin D
       /\ D \in SUBSET Tables
  BY <1>11, TableCases
<1>19. /\ src[<<"mem", Slot>>] = <<"root", w>>
       /\ \A a \in Range(at) : src[<<"mem", a>>] = <<"mem", from[a]>>
       /\ src \in [D -> Tables]
  <2>1. \A a \in S : src[<<"mem", a>>] = IF a = Slot THEN <<"root", w>>
                                          ELSE <<"mem", from[a]>>
    OBVIOUS
  <2>2. ASSUME NEW x \in D
        PROVE  src[x] \in Tables
    BY <1>7, <1>9, <1>18, <2>1, TableCases
  <2> QED
    BY <1>9, <2>1, <2>2
<1>20. ASSUME NEW x \in D
       PROVE  \/ x = <<"mem", Slot>> /\ src[x] = <<"root", w>>
              \/ \E a \in Range(at) :
                    x = <<"mem", a>> /\ src[x] = <<"mem", from[a]>>
  <2> HIDE DEF D, src
  <2>1. PICK a \in S : x = <<"mem", a>>
    BY <1>18
  <2> QED
    BY <1>19, <2>1
<1> HIDE DEF D, src, S
<1>21. \A x, y \in D : src[x] = src[y] => x = y
  BY <1>9, <1>20, TableCases
<1>22. tab[<<"root", w>>] = root /\ \A r \in R : tab[<<"mem", r>>] = mem[r]
  BY <1>7, TabsAt DEF root
<1>23. ASSUME NEW a \in Addresses
       PROVE  /\ tab2[<<"mem", a>>] = m[a] /\ own2[<<"mem", a>>] = h[a]
              /\ tab[<<"mem", a>>] = mem[a] /\ own[<<"mem", a>>] = home[a]
  <2>1. tab2[<<"mem", a>>] = m[a]
    BY TabsAt
  <2>2. own2[<<"mem", a>>] = h[a]
    BY OwnsAt
  <2>3. tab[<<"mem", a>>] = mem[a]
    BY TabsAt
  <2>4. own[<<"mem", a>>] = home[a]
    BY OwnsAt
  <2> QED
    BY <2>1, <2>2, <2>3, <2>4
<1>24. ASSUME NEW x \in Values
       PROVE  /\ tab2[<<"root", x>>] = tab[<<"root", x>>]
              /\ own2[<<"root", x>>] = own[<<"root", x>>]
  <2>1. tab2[<<"root", x>>] = values[x].root
    BY TabsAt
  <2>2. own2[<<"root", x>>] = values[x].alloc
    BY OwnsAt
  <2>3. tab[<<"root", x>>] = values[x].root
    BY TabsAt
  <2>4. own[<<"root", x>>] = values[x].alloc
    BY OwnsAt
  <2> QED
    BY <2>1, <2>2, <2>3, <2>4
<1>25. tab2 \in [Tables -> Contents]
  BY <1>15, TabsType
<1> HIDE DEF tab, own, tab2, own2
<1>26. Slot \in S /\ \A a \in Range(at) : a \in S
  BY DEF S
<1>27. ASSUME NEW x \in D
       PROVE  /\ tab2[x] = Copied(tab[src[x]], at) /\ own2[x] = p
              /\ Kids(tab[src[x]]) \subseteq R
  <2>1. CASE x = <<"mem", Slot>> /\ src[x] = <<"root", w>>
    BY <1>3, <1>7, <1>12, <1>16, <1>22, <1>23, <1>26, <2>1
  <2>2. CASE \E a \in Range(at) : x = <<"mem", a>> /\ src[x] = <<"mem", from[a]>>
    <3>1. PICK a \in Range(at) : x = <<"mem", a>> /\ src[x] = <<"mem", from[a]>>
      BY <2>2
    <3>2. a \in Addresses /\ a \in S /\ from[a] \in R
      BY <1>9, <1>11, <1>26
    <3>3. m[a] = Copied(mem[from[a]], at) /\ tab[src[x]] = mem[from[a]]
      BY <1>12, <1>22, <3>1, <3>2
    <3> QED
      BY <1>7, <1>16, <1>23, <3>1, <3>2, <3>3
  <2> QED
    BY <1>20, <2>1, <2>2
<1>28. ASSUME NEW x \in Tables \ D
       PROVE  tab2[x] = tab[x] /\ own2[x] = own[x]
  <2>1. CASE \E a \in Addresses : x = <<"mem", a>>
    <3>1. PICK a \in Addresses : x = <<"mem", a>>
      BY <2>1
    <3>2. a \notin S
      BY <1>18, <3>1
    <3> QED
      BY <1>12, <1>16, <1>23, <3>1, <3>2
  <2>2. CASE \E y \in Values : x = <<"root", y>>
    BY <1>24, <2>2
  <2> QED
    BY <2>1, <2>2, TableCases
<1>28a. ASSUME NEW x \in D, NEW r \in R, x = <<"mem", at[r]>>
        PROVE  src[x] = <<"mem", r>>
  <2>1. at[r] # Slot /\ at[r] \in Range(at) /\ from[at[r]] \in R
        /\ at[from[at[r]]] = at[r]
    BY <1>9
  <2>2. from[at[r]] = r
    BY <1>9, <2>1
  <2> QED
    BY <1>20, <1>28a, <2>1, <2>2, TableCases
<1>29. Sound(tab2, own2, h, crossed) /\ Unused(tab2, Slot)
  <2>1. \A r \in R : home[at[r]] = None /\ h[at[r]] = p /\ at[r] # Slot
    BY <1>9, <1>10, <1>11, <1>16, <1>26
  <2>2. \A a \in Addresses : home[a] # None => h[a] = home[a]
    BY <1>11, <1>16
  <2>3. /\ \A x \in D : Kids(tab[src[x]]) \subseteq R
        /\ \A x \in D : tab2[x] = Copied(tab[src[x]], at) /\ own2[x] = p
        /\ \A x \in Tables \ D : tab2[x] = tab[x] /\ own2[x] = own[x]
        /\ \A x \in D, r \in R : x = <<"mem", at[r]>> => src[x] = <<"mem", r>>
    BY <1>27, <1>28, <1>28a
  <2>4. /\ \A r, q \in R : at[r] = at[q] => r = q
        /\ \A r \in R : home[at[r]] = None
        /\ D \in SUBSET Tables /\ src \in [D -> Tables]
        /\ \A r \in R : h[at[r]] = p
        /\ home[Slot] = None
        /\ \A r \in R : at[r] # Slot
    BY <1>3, <1>9, <1>18, <1>19, <2>1
  <2>5. Sound(tab, own, home, crossed) /\ p # None
    BY <1>2, <1>4 DEF p
  <2>6. CopiedTables(tab, own, home, crossed, R, at, D, src, p, tab2, own2, h)
    BY <1>10, <1>21, <1>25, <2>1, <2>2, <2>3, <2>4, <2>5 DEF CopiedTables
  <2> QED
    BY ONLY <2>4, <2>6, Copying
<1>30. t \notin D
  <2> SUFFICES ASSUME t \in D PROVE FALSE
    OBVIOUS
  <2>1. PICK a \in S : t = <<"mem", a>>
    BY <1>18
  <2>2. values[v].ref # None /\ values[v].ref = a
    BY <2>1, TableCases DEF At
  <2>3. home[values[v].ref] # None
    BY <1>4, <2>2, JoinedFacts DEF References
  <2> QED
    BY <1>11, <2>2, <2>3
<1>31. tab2[t] = c /\ Joined(own2[t], p, crossed) /\ t # <<"mem", Slot>>
  BY <1>5, <1>18, <1>26, <1>28, <1>30
<1> HIDE DEF t
<1>32. Joined(h[Slot], own2[t], crossed) /\ own2[t] # None
  <2>1. h[Slot] = p /\ p # None
    BY <1>2, <1>3, <1>16, <1>26 DEF p
  <2> QED
    BY <1>4, <1>31, <2>1, JoinedFacts
<1>33. Sound([tab2 EXCEPT ![t] = With(c, name, Slot)], own2, h, crossed)
  <2>1. Sound([tab2 EXCEPT ![t] = With(tab2[t], name, Slot)], own2, h, crossed)
    <3>1. Slot \in Addresses /\ t \in Tables /\ name \in Names \cup {Item}
      BY <1>3, <1>5
    <3> QED
      BY ONLY <1>29, <1>31, <1>32, <3>1, Linked
  <2> QED
    BY <1>31, <2>1
<1>34. With(c, name, Slot) \in Contents /\ AddMember(c, name) = With(c, name, Slot)
  BY <1>3, <1>5, WithFacts DEF AddMember, With
<1> QED
  BY <1>1, <1>4, <1>15, <1>17, <1>33, <1>34, StoreGood DEF tab2, own2, t

-----------------------------------------------------------------------------
(* Removing a member *)

\* A table c whose last slot takes the place of slot i.
Without(c, i) ==
    [c EXCEPT !.names = Front([@ EXCEPT ![i] = c.names[Size(c)]]),
              !.elems = Front(@)]

LEMMA FrontFacts ==
    ASSUME NEW S, NEW s \in Seq(S), Len(s) > 0
    PROVE  /\ Front(s) \in Seq(S)
           /\ Len(Front(s)) = Len(s) - 1
           /\ \A j \in 1..Len(s) - 1 : Front(s)[j] = s[j]
<1> DEFINE n == Len(s) - 1
<1>1. n \in Nat /\ Front(s) = SubSeq(s, 1, n) /\ n <= Len(s)
  BY DEF Front
<1> HIDE DEF n
<1>2. SubSeq(s, 1, n) \in Seq(S)
  BY <1>1
<1>3. Len(SubSeq(s, 1, n)) = n
  BY <1>1
<1>4. \A j \in 1..n : SubSeq(s, 1, n)[j] = s[j]
  BY <1>1
<1> QED
  BY <1>1, <1>2, <1>3, <1>4 DEF n

LEMMA WithoutFacts ==
    ASSUME NEW c \in Contents, Len(c.names) = Len(c.elems), NEW i \in 1..Len(c.elems)
    PROVE  /\ Without(c, i) \in Contents
           /\ Without(c, i).kind = c.kind
           /\ Len(Without(c, i).names) = Len(c.elems) - 1
           /\ Len(Without(c, i).elems) = Len(c.elems) - 1
           /\ \A j \in 1..Len(c.elems) - 1 :
                 /\ Without(c, i).elems[j] = c.elems[j]
                 /\ Without(c, i).names[j] =
                       IF j = i THEN c.names[Len(c.elems)] ELSE c.names[j]
<1> DEFINE n == Len(c.elems)
           names == [c.names EXCEPT ![i] = c.names[n]]
<1>1. /\ c.names \in Seq(Names \cup {Item}) /\ c.elems \in Seq(Addresses)
      /\ n \in Nat /\ n > 0 /\ c.names[n] \in Names \cup {Item}
  BY ContentsFacts
<1>2. /\ names \in Seq(Names \cup {Item}) /\ Len(names) = n
      /\ \A j \in 1..n : names[j] = IF j = i THEN c.names[n] ELSE c.names[j]
  BY <1>1
<1>3. /\ Without(c, i).names = Front(names) /\ Without(c, i).elems = Front(c.elems)
      /\ Without(c, i).kind = c.kind /\ Without(c, i).scalar = c.scalar
      /\ Without(c, i) = [c EXCEPT !.names = Front(names), !.elems = Front(c.elems)]
  BY DEF Without, Contents, Size
<1> HIDE DEF names
<1>4. /\ Front(names) \in Seq(Names \cup {Item}) /\ Len(Front(names)) = n - 1
      /\ \A j \in 1..n - 1 : Front(names)[j] = names[j]
  BY <1>1, <1>2, FrontFacts
<1>5. /\ Front(c.elems) \in Seq(Addresses) /\ Len(Front(c.elems)) = n - 1
      /\ \A j \in 1..n - 1 : Front(c.elems)[j] = c.elems[j]
  BY <1>1, FrontFacts
<1>6. Without(c, i) \in Contents
  BY <1>3, <1>4, <1>5 DEF Contents
<1>7. \A j \in 1..n - 1 : j \in 1..n
  BY <1>1
<1> HIDE DEF n
<1>8. \A j \in 1..n - 1 : names[j] = IF j = i THEN c.names[n] ELSE c.names[j]
  BY <1>2, <1>7
<1> QED
  BY <1>3, <1>4, <1>5, <1>6, <1>8 DEF n

\* A member of an object may go, the last one in its place.
LEMMA Removing ==
    ASSUME IInv, NEW v \in Values,
           NEW i \in 1..Size(AsValue(v)),
           NEW c2, c2 = RemoveMember(AsValue(v), i, mem)[1],
           NEW m, m = RemoveMember(AsValue(v), i, mem)[2]
    PROVE  /\ c2 \in Contents
           /\ Typed(values, m, home)
           /\ At(values, v) \in Tables
           /\ Sound([Tabs(values, m) EXCEPT ![At(values, v)] = c2],
                    Owns(values, home), home, crossed)
<1> DEFINE c == AsValue(v)
           n == Len(c.elems)
           e == c.elems[i]
           l == c.elems[n]
           m1 == [mem EXCEPT ![e] = mem[l]]
           tab == Tabs(values, mem)
           own == Owns(values, home)
           t == At(values, v)
           te == <<"mem", e>>
           tl == <<"mem", l>>
           tab1 == [x \in Tables |-> IF x = te THEN tab[tl]
                                     ELSE IF x = tl THEN tab[te] ELSE tab[x]]
           tab2 == [tab1 EXCEPT ![tl] = Null]
           tab3 == [tab2 EXCEPT ![t] = c2]
<1>1. c2 = Without(c, i) /\ m = [m1 EXCEPT ![l] = Null]
  BY DEF RemoveMember, Without, Size
<1>2. Typed(values, mem, home) /\ Sound(tab, own, home, crossed)
  BY DEF IInv, Good
<1>3. t \in Tables /\ tab[t] = c /\ c \in Contents
  BY AtFacts
<1>4. Len(c.names) = n
  BY AtFacts DEF Fit
<1>5. n \in Nat /\ i \in 1..n /\ n \in 1..n
  BY <1>3, ContentsFacts DEF Size
<1>6. e \in Addresses /\ l \in Addresses /\ e \in Kids(c) /\ l \in Kids(c)
  BY <1>3, <1>5, ContentsFacts, KidsAre
<1>7. /\ Joined(home[e], own[t], crossed) /\ Joined(home[l], own[t], crossed)
      /\ t # te /\ t # tl
  BY <1>2, <1>3, <1>5 DEF Sound
<1>8. te \in Tables /\ tl \in Tables
  BY <1>6, TableCases
<1>9. Joined(own[te], own[tl], crossed) /\ tab[tl] = mem[l] /\ mem[l] \in Contents
  <2>1. own[te] = home[e]
    BY <1>6, OwnsAt
  <2>2. own[tl] = home[l]
    BY <1>6, OwnsAt
  <2>3. tab[tl] = mem[l]
    BY <1>6, TabsAt
  <2>4. Joined(home[e], home[l], crossed)
    BY <1>7, JoinedBoth
  <2> QED
    BY <1>2, <1>6, <2>1, <2>2, <2>3, <2>4, TypedFacts
<1>10. /\ \A j \in 1..Len(tab[tl].elems) : te # <<"mem", tab[tl].elems[j]>>
       /\ \A j \in 1..Len(tab[te].elems) : tl # <<"mem", tab[te].elems[j]>>
  <2>1. ASSUME NEW u \in Tables, u # t, NEW j \in 1..Len(tab[u].elems)
        PROVE  tab[u].elems[j] # e /\ tab[u].elems[j] # l
    BY <1>2, <1>3, <1>5, <2>1 DEF Sound
  <2> QED
    BY <1>7, <1>8, <2>1, TableCases
<1>11. Null \in Contents
  BY EmptyContents
<1>12. tab \in [Tables -> Contents]
  BY <1>2, TabsType
<1> HIDE DEF c, n, e, l
<1>13. /\ Typed(values, m1, home)
       /\ Tabs(values, m1) = [tab EXCEPT ![te] = mem[l]]
  <2>1. Typed(values, [mem EXCEPT ![e] = mem[l]], home)
    BY <1>2, <1>6, <1>9, TabsSet
  <2>2. Tabs(values, [mem EXCEPT ![e] = mem[l]])
            = [Tabs(values, mem) EXCEPT ![<<"mem", e>>] = mem[l]]
    BY <1>2, <1>6, <1>9, TabsSet
  <2> QED
    BY <2>1, <2>2
<1> HIDE DEF m1
<1>14. /\ Typed(values, m, home)
       /\ Tabs(values, m) = [[tab EXCEPT ![te] = mem[l]] EXCEPT ![tl] = Null]
  <2>1. Typed(values, m1, home) /\ l \in Addresses /\ Null \in Contents
    BY <1>6, <1>11, <1>13
  <2>2. Typed(values, [m1 EXCEPT ![l] = Null], home)
    BY ONLY <2>1, TabsSet
  <2>3. Tabs(values, [m1 EXCEPT ![l] = Null])
            = [Tabs(values, m1) EXCEPT ![<<"mem", l>>] = Null]
    BY ONLY <2>1, TabsSet
  <2> QED
    BY <1>1, <1>13, <2>2, <2>3
<1> HIDE DEF tab, own, t, te, tl
<1>15. Sound(tab1, own, home, crossed)
  BY <1>2, <1>8, <1>9, <1>10, Swapped
<1>16. Tabs(values, m) = tab2
  BY <1>8, <1>9, <1>12, <1>14
<1>17. tab2[t] = c
  BY <1>3, <1>7, <1>12
<1> HIDE DEF tab1
<1>18. Sound(tab2, own, home, crossed)
  BY <1>8, <1>15, BareContents, Emptied
<1> HIDE DEF tab2
<1>19. /\ c2 \in Contents /\ Len(c2.names) = n - 1 /\ Len(c2.elems) = n - 1
       /\ c2.kind = c.kind
       /\ \A j \in 1..n - 1 : c2.elems[j] = c.elems[j]
  BY <1>1, <1>3, <1>4, <1>5, WithoutFacts DEF n
<1>20. Sound(tab3, own, home, crossed)
  <2>1. /\ tab3 \in [Tables -> Contents] /\ tab3[t] = c2
        /\ \A u \in Tables \ {t} : tab3[u] = tab2[u]
    BY <1>3, <1>18, <1>19 DEF Sound
  <2> HIDE DEF tab3
  <2>2. ASSUME NEW u \in Tables
        PROVE  Thinner(tab3[u], own[u], home, tab2[u], own[u], home)
    <3>1. tab2[u] \in Contents /\ Fit(tab2[u], own[u])
      BY <1>18 DEF Sound
    <3>2. CASE u = t
      <4>1. tab3[u] = c2 /\ tab2[u] = c /\ Len(c.elems) = n
        BY <1>17, <2>1, <3>2 DEF n
      <4>2. Len(c2.names) = Len(c2.elems) /\ c2.kind = c.kind
        BY <1>19
      <4>3. Fit(c2, own[u])
        BY <3>1, <4>1, <4>2 DEF Fit
      <4> QED
        BY <1>5, <1>19, <4>1, <4>3 DEF Thinner
    <3>3. CASE u # t
      <4>1. Len(tab2[u].elems) \in Nat
        BY <3>1, ContentsFacts
      <4> QED
        BY <2>1, <3>1, <3>3, <4>1 DEF Thinner
    <3> QED
      BY <3>2, <3>3
  <2> QED
    BY <1>18, <2>1, <2>2, Thinned
<1> QED
  BY <1>3, <1>14, <1>16, <1>19, <1>20 DEF own, t

\* The first member of a name is a member.
LEMMA FoundFacts ==
    ASSUME NEW c \in Contents, NEW name, FindMember(c, name) # {}
    PROVE  /\ Min(FindMember(c, name)) \in 1..Size(c)
           /\ c.names[Min(FindMember(c, name))] = name
           /\ \A i \in 1..Size(c) :
                 c.names[i] = name => Min(FindMember(c, name)) <= i
<1>1. FindMember(c, name) \in SUBSET Nat
  BY DEF FindMember
<1>2. /\ Min(FindMember(c, name)) \in FindMember(c, name)
      /\ \A i \in FindMember(c, name) : Min(FindMember(c, name)) <= i
  BY <1>1, MinIsLeast
<1> QED
  BY <1>2 DEF FindMember

LEMMA RemoveNamedGood ==
    ASSUME IInv, NEW v \in Values, NEW name \in Names, RemoveNamed(v, name)
    PROVE  IInv'
<1> DEFINE c == AsValue(v)
           i == Min(FindMember(c, name))
           r == RemoveMember(c, i, mem)
<1>1. /\ FindMember(c, name) # {} /\ Store(v, r[1], r[2], home)
      /\ crossed' = crossed
  BY DEF RemoveNamed
<1>2. i \in 1..Size(c)
  BY <1>1, AtFacts, FoundFacts
<1>3. Documents(values) /\ References(values, home, crossed)
  BY DEF IInv, Good
<1> HIDE DEF i
<1>4. /\ r[1] \in Contents /\ Typed(values, r[2], home)
      /\ Sound([Tabs(values, r[2]) EXCEPT ![At(values, v)] = r[1]],
               Owns(values, home), home, crossed)
  BY <1>2, Removing
<1> HIDE DEF r
<1> QED
  BY <1>1, <1>3, <1>4, StoreGood

LEMMA LastWritten ==
    ASSUME NEW S, NEW f \in [Tables -> S], NEW t, NEW u, t # u,
           NEW c, NEW d, NEW e
    PROVE  [[[f EXCEPT ![t] = c] EXCEPT ![u] = d] EXCEPT ![t] = e]
               = [[f EXCEPT ![u] = d] EXCEPT ![t] = e]
<1> DEFINE g == [[[f EXCEPT ![t] = c] EXCEPT ![u] = d] EXCEPT ![t] = e]
           k == [[f EXCEPT ![u] = d] EXCEPT ![t] = e]
<1>1. g = [x \in Tables |-> g[x]] /\ k = [x \in Tables |-> k[x]]
  OBVIOUS
<1>2. \A x \in Tables : g[x] = k[x]
  OBVIOUS
<1> QED
  BY <1>1, <1>2

LEMMA SetStringObjectGood ==
    ASSUME IInv, NEW v \in Values, NEW name \in Names, NEW x \in Scalars,
           SetStringObject(v, name, x)
    PROVE  IInv'
<1> DEFINE h == InDocumentOf(v, {Slot})
           c == AsValue(v)
           d == Scalar(x)
           named == FindMember(c, name)
           i == Min(named)
           r == RemoveMember(c, i, mem)
           set == SetMember(c, name, x, mem)
<1>1. /\ Takes(v, name) /\ Store(v, set[1], set[2], h)
      /\ crossed' = crossed /\ moved' = moved
  BY DEF SetStringObject
<1>2. CASE named = {}
  <2>1. /\ set[1] = AddMember(c, name) /\ set[2] = [mem EXCEPT ![Slot] = d]
    BY <1>2 DEF SetMember
  <2>2. AddScalar(v, name, x)
    BY <1>1, <2>1 DEF AddScalar
  <2> QED
    BY <2>2, AddScalarGood
<1>3. CASE named # {}
  <2> DEFINE m1 == r[2]
             c1 == r[1]
             m == [m1 EXCEPT ![Slot] = d]
             t == At(values, v)
             new == <<"mem", Slot>>
             tab == [Tabs(values, m1) EXCEPT ![t] = c1]
             more == With(c1, name, Slot)
  <2>1. set[1] = more /\ set[2] = m
    BY <1>3 DEF SetMember, AddMember, With
  <2>2. Free # {} /\ values[v].alloc # None
    BY <1>1, TakesFacts
  <2>3. Slot \in Addresses
    BY <2>2, SlotFacts
  <2>4. i \in 1..Size(c)
    BY <1>3, AtFacts, FoundFacts
  <2>5. Typed(values, mem, home) /\ Documents(values)
    BY DEF IInv, Good
  <2>6. Bare(d) /\ (\A p : Fit(d, p)) /\ d \in Contents
    BY BareContents, EmptyContents
  <2>7. Store(v, more, m, h)
    BY <1>1, <2>1
  <2> HIDE DEF i, set, d
  <2>8. /\ c1 \in Contents /\ Typed(values, m1, home) /\ t \in Tables
        /\ Sound(tab, Owns(values, home), home, crossed)
    BY <2>4, Removing
  <2> HIDE DEF m1, c1, c
  <2>9. tab[t] = c1
    BY <2>8, TabsType
  <2> HIDE DEF tab
  <2>10. /\ t # new /\ more \in Contents
         /\ Typed(values, mem, h) /\ References(values, h, crossed)
       /\  
       /\ Sound([[tab EXCEPT ![new] = d] EXCEPT ![t] = more], Owns(values, h), h, crossed)
    BY <2>2, <2>6, <2>8, <2>9, Grown
  <2> HIDE DEF h
  <2>11. Typed(values, m1, h)
    BY <2>8, <2>10 DEF Typed
  <2>12. /\ Typed(values, m, h)
         /\ Tabs(values, m) = [Tabs(values, m1) EXCEPT ![new] = d]
    <3>1. Typed(values, [m1 EXCEPT ![Slot] = d], h)
      BY <2>3, <2>6, <2>11, TabsSet
    <3>2. Tabs(values, [m1 EXCEPT ![Slot] = d])
              = [Tabs(values, m1) EXCEPT ![<<"mem", Slot>>] = d]
      BY <2>3, <2>6, <2>11, TabsSet
    <3> QED
      BY <3>1, <3>2
  <2>13. Tabs(values, m1) \in [Tables -> Contents]
    BY <2>8, TabsType
  <2>14. t # new
    BY <2>10
  <2> HIDE DEF m, t, new, more
  <2>15. [[tab EXCEPT ![new] = d] EXCEPT ![t] = more]
             = [Tabs(values, m) EXCEPT ![t] = more]
    BY ONLY <2>12, <2>13, <2>14, LastWritten DEF tab
  <2> QED
    BY <1>1, <2>5, <2>7, <2>10, <2>12, <2>15, StoreGood DEF t
<1> QED
  BY <1>2, <1>3

-----------------------------------------------------------------------------
(* The invariant *)

LEMMA InitGood == Init => IInv
<1> SUFFICES ASSUME Init PROVE IInv
  OBVIOUS
<1>1. /\ crossed = {}
      /\ \A v \in Values : values[v] = Empty
      /\ \A a \in Addresses : mem[a] = Null /\ home[a] = None
  BY DEF Init
<1>2. Typed(values, mem, home)
  BY EmptyContents DEF Init, Typed, Empty
<1>3. Documents(values) /\ References(values, home, crossed)
  BY <1>1 DEF Documents, References, Empty
<1> DEFINE tab == Tabs(values, mem)
           own == Owns(values, home)
<1>4. tab \in [Tables -> Contents]
  BY <1>2, TabsType
<1>5. ASSUME NEW t \in Tables
      PROVE  tab[t] = Null
  <2>1. CASE \E v \in Values : t = <<"root", v>>
    <3>1. PICK v \in Values : t = <<"root", v>>
      BY <2>1
    <3>2. tab[<<"root", v>>] = values[v].root
      BY TabsAt
    <3> QED
      BY <1>1, <3>1, <3>2 DEF Empty
  <2>2. CASE \E a \in Addresses : t = <<"mem", a>>
    <3>1. PICK a \in Addresses : t = <<"mem", a>>
      BY <2>2
    <3>2. tab[<<"mem", a>>] = mem[a]
      BY TabsAt
    <3> QED
      BY <1>1, <3>1, <3>2
  <2> QED
    BY <2>1, <2>2, TableCases
<1> HIDE DEF tab, own
<1>6. ASSUME NEW t \in Tables
      PROVE  Fit(tab[t], own[t]) /\ 1..Len(tab[t].elems) = {}
  <2>1. Len(Null.elems) = 0
    BY EmptyContents
  <2> QED
    BY <1>5, <2>1, NullFit
<1>7. Sound(tab, own, home, crossed)
  BY <1>1, <1>4, <1>6 DEF Sound
<1> QED
  BY <1>2, <1>3, <1>7 DEF IInv, Good, tab, own

LEMMA StepGood == IInv /\ [Next]_vars => IInv'
<1> SUFFICES ASSUME IInv, [Next]_vars PROVE IInv'
  OBVIOUS
<1>1. CASE UNCHANGED vars
  <2>1. values' = values /\ mem' = mem /\ home' = home /\ crossed' = crossed
    BY <1>1 DEF vars
  <2> QED
    BY <2>1 DEF IInv
<1>2. CASE Next
  <2>1. PICK v \in Values :
          \/ Destroy(v)
          \/ \E x \in Scalars : Set(v, x) \/ AppendScalar(v, x)
          \/ \E kind \in {"object", "array"} : Construct(v, kind)
          \/ \E w \in Values, kind \in {"object", "array"} : ConstructChild(v, w, kind)
          \/ \E w \in Values : Move(v, w) \/ Swap(v, w)
          \/ \E w \in Values, i \in Addresses : Find(v, i, w)
          \/ \E name \in Names \cup {Item}, w \in Values :
                AddDocument(v, name, w) \/ AddValue(v, name, w)
          \/ \E name \in Names : RemoveNamed(v, name)
          \/ \E name \in Names, x \in Scalars :
                \/ Parse(v, name, x) \/ AddScalar(v, name, x)
                \/ SetStringObject(v, name, x)
    BY <1>2 DEF Next
  <2>2. CASE Destroy(v)
    BY <2>2, DestroyGood
  <2>3. ASSUME NEW x \in Scalars, Set(v, x) \/ AppendScalar(v, x)
        PROVE  IInv'
    BY <2>3, SetGood, AddScalarGood DEF AppendScalar
  <2>4. ASSUME NEW kind \in {"object", "array"}, Construct(v, kind)
        PROVE  IInv'
    BY <2>4, ConstructGood
  <2>5. ASSUME NEW w \in Values, NEW kind \in {"object", "array"},
               ConstructChild(v, w, kind)
        PROVE  IInv'
    BY <2>5, ConstructChildGood
  <2>6. ASSUME NEW w \in Values, Move(v, w) \/ Swap(v, w)
        PROVE  IInv'
    BY <2>6, MoveGood, SwapGood
  <2>7. ASSUME NEW w \in Values, NEW i \in Addresses, Find(v, i, w)
        PROVE  IInv'
    BY <2>7, FindGood
  <2>8. ASSUME NEW name \in Names \cup {Item}, NEW w \in Values,
               AddDocument(v, name, w) \/ AddValue(v, name, w)
        PROVE  IInv'
    BY <2>8, AddDocumentGood, AddValueGood
  <2>9. ASSUME NEW name \in Names, RemoveNamed(v, name)
        PROVE  IInv'
    BY <2>9, RemoveNamedGood
  <2>10. ASSUME NEW name \in Names, NEW x \in Scalars,
                Parse(v, name, x) \/ AddScalar(v, name, x) \/ SetStringObject(v, name, x)
         PROVE  IInv'
    BY <2>10, ParseGood, AddScalarGood, SetStringObjectGood
  <2> QED
    BY <2>1, <2>2, <2>3, <2>4, <2>5, <2>6, <2>7, <2>8, <2>9, <2>10
<1> QED
  BY <1>1, <1>2

\* The members of every Json::Value fit together, and no element of any
\* document is a slot of two tables or of another document's table, whatever
\* calls of json.h are made.
THEOREM Invariance == Spec => []IInv
<1> QED
  BY InitGood, StepGood, PTL DEF Spec

LEMMA MovedValues == Spec => [](moved \subseteq Values)
<1>1. Init => moved \subseteq Values
  BY DEF Init
<1>2. moved \subseteq Values /\ [Next]_vars => (moved \subseteq Values)'
  <2> SUFFICES ASSUME moved \subseteq Values, [Next]_vars
               PROVE  moved' \subseteq Values
    OBVIOUS
  <2>1. CASE UNCHANGED vars
    BY <2>1 DEF vars
  <2>2. CASE Next
    <3>1. PICK v \in Values :
            \/ Destroy(v)
            \/ \E w \in Values : Move(v, w)
            \/ \E w \in Values, i \in Addresses : Find(v, i, w)
            \/ moved' = moved
      <4>1. /\ \A u, kind : Construct(u, kind) => moved' = moved
            /\ \A u, w, kind : ConstructChild(u, w, kind) => moved' = moved
        BY DEF Construct, ConstructChild
      <4>2. /\ \A u, x : Set(u, x) => moved' = moved
            /\ \A u, x : AppendScalar(u, x) => moved' = moved
            /\ \A u, name, x : AddScalar(u, name, x) => moved' = moved
            /\ \A u, name, x : Parse(u, name, x) => moved' = moved
            /\ \A u, name, x : SetStringObject(u, name, x) => moved' = moved
        BY DEF Set, AppendScalar, AddScalar, Parse, SetStringObject
      <4>3. /\ \A u, w : Swap(u, w) => moved' = moved
            /\ \A u, name, w : AddDocument(u, name, w) => moved' = moved
            /\ \A u, name, w : AddValue(u, name, w) => moved' = moved
            /\ \A u, name : RemoveNamed(u, name) => moved' = moved
        BY DEF Swap, AddDocument, AddValue, RemoveNamed
      <4> QED
        BY <2>2, <4>1, <4>2, <4>3 DEF Next
    <3>2. CASE Destroy(v)
      BY <3>2 DEF Destroy
    <3>3. CASE \E w \in Values : Move(v, w)
      BY <3>3 DEF Move
    <3>4. CASE \E w \in Values, i \in Addresses : Find(v, i, w)
      BY <3>4 DEF Find
    <3> QED
      BY <3>1, <3>2, <3>3, <3>4
  <2> QED
    BY <2>1, <2>2
<1> QED
  BY <1>1, <1>2, PTL DEF Spec

\* document_, value_ and allocator_ of a Json::Value fit together: a document
\* refers to no element and takes its memory from itself, no two documents
\* share their memory.
THEOREM TypeCorrect == Spec => []TypeOK
<1>1. IInv /\ moved \subseteq Values => TypeOK
  BY DEF IInv, Good, Typed, Documents, Sound, TypeOK
<1> QED
  BY <1>1, Invariance, MovedValues, PTL

LEMMA MemoryOwned ==
    ASSUME IInv, NEW v \in Values
    PROVE  \A a \in Reached(v) : Joined(home[a], values[v].alloc, crossed)
<1> DEFINE p == values[v].alloc
           T == {a \in Addresses : Joined(home[a], p, crossed)}
<1>1. /\ Typed(values, mem, home) /\ References(values, home, crossed)
      /\ Sound(Tabs(values, mem), Owns(values, home), home, crossed)
  BY DEF IInv, Good
<1>2. values[v].root \in Contents /\ values[v].ref \in Addresses \cup {None}
  BY <1>1, TypedFacts
<1>3. ASSUME NEW t \in Tables, Joined(Owns(values, home)[t], p, crossed),
             NEW k \in Kids(Tabs(values, mem)[t])
      PROVE  k \in T
  <2> DEFINE c == Tabs(values, mem)[t]
             o == Owns(values, home)[t]
  <2>1. /\ c \in Contents
        /\ \A i \in 1..Len(c.elems) : Joined(home[c.elems[i]], o, crossed)
    BY <1>1 DEF Sound
  <2> HIDE DEF c, o
  <2>2. PICK i \in 1..Len(c.elems) : c.elems[i] = k
    BY <1>3, <2>1, KidsAre DEF c
  <2>3. k \in Addresses
    BY <2>1, <2>2, ContentsFacts
  <2>4. Joined(home[k], o, crossed)
    BY <2>1, <2>2
  <2>5. Joined(o, p, crossed)
    BY <1>3 DEF o
  <2>6. Joined(home[k], p, crossed)
    BY <2>4, <2>5, JoinedFacts
  <2> QED
    BY <2>3, <2>6
<1>4. ASSUME NEW k \in Kids(values[v].root)
      PROVE  k \in T
  <2>1. Tabs(values, mem)[<<"root", v>>] = values[v].root
    BY TabsAt
  <2>2. Owns(values, home)[<<"root", v>>] = p
    BY OwnsAt
  <2>3. <<"root", v>> \in Tables /\ Joined(p, p, crossed)
    BY TableCases, JoinedFacts
  <2> HIDE DEF T, p
  <2> QED
    BY <1>3, <2>1, <2>2, <2>3
<1>5. ASSUME NEW a \in T, NEW k \in Kids(mem[a])
      PROVE  k \in T
  <2>1. Tabs(values, mem)[<<"mem", a>>] = mem[a]
    BY TabsAt
  <2>2. Owns(values, home)[<<"mem", a>>] = home[a]
    BY OwnsAt
  <2>3. <<"mem", a>> \in Tables /\ Joined(home[a], p, crossed)
    BY TableCases
  <2> HIDE DEF T, p
  <2> QED
    BY <1>3, <2>1, <2>2, <2>3
<1>6. values[v].ref # None => values[v].ref \in T
  BY <1>1, <1>2 DEF References
<1>7. T \in SUBSET Addresses /\ \A a \in T : Joined(home[a], p, crossed)
  OBVIOUS
<1> HIDE DEF T
<1>8. Reached(v) \subseteq T
  BY <1>4, <1>5, <1>6, <1>7, ReachedFacts
<1> QED
  BY <1>7, <1>8

\* Add and Append copy a document, so that all that a value reaches lies in the
\* memory of its document, unless contents of a value in a document were moved
\* between that and another one (json.h:179, 246, 264).
THEOREM MemoryKept == Spec => []NodesOwned
<1>1. ASSUME IInv PROVE NodesOwned
  <2> SUFFICES ASSUME NEW v \in Values
               PROVE  /\ Size(AsValue(v)) > 0 => values[v].alloc # None
                      /\ \A a \in Reached(v) :
                            Joined(home[a], values[v].alloc, crossed)
    BY DEF NodesOwned
  <2>1. ASSUME Size(AsValue(v)) > 0
        PROVE  values[v].alloc # None
    <3>1. AsValue(v) \in Contents
      BY <1>1, AtFacts
    <3>2. 1 \in 1..Size(AsValue(v))
      BY <2>1, <3>1, ContentsFacts DEF Size
    <3> QED
      BY <1>1, <3>2, SlotsOwned
  <2>2. \A a \in Reached(v) : Joined(home[a], values[v].alloc, crossed)
    BY <1>1, MemoryOwned
  <2> QED
    BY <2>1, <2>2
<1> QED
  BY <1>1, Invariance, PTL

\* No element has two parents after any Add, Append, Swap, Remove or move, so
\* that no write through one Json::Value shows in another place.
THEOREM ElementsUnshared == Spec => []NodesUnshared
<1>1. ASSUME IInv PROVE NodesUnshared
  <2>1. \A t \in Tables : TableOf(t) = Tabs(values, mem)[t]
    BY DEF Tabs, TableOf
  <2>2. Sound(Tabs(values, mem), Owns(values, home), home, crossed)
    BY <1>1 DEF IInv, Good
  <2> QED
    BY <2>1, <2>2 DEF Sound, NodesUnshared, Slots, Size
<1> QED
  BY <1>1, Invariance, PTL

-----------------------------------------------------------------------------
(* Overwriting a member *)

\* An object whose members have different names.
Unique(c) ==
    /\ c \in Contents
    /\ Len(c.names) = Len(c.elems)
    /\ \A i, j \in 1..Len(c.elems) : c.names[i] = c.names[j] => i = j

LEMMA NamesFacts ==
    ASSUME NEW c, Unique(c)
    PROVE  /\ \A i \in 1..Len(c.elems) : c.names[i] \in Range(c.names)
           /\ \A name \in Range(c.names) :
                 \E i \in 1..Len(c.elems) : name = c.names[i]
<1>1. DOMAIN c.names = 1..Len(c.elems)
  BY ContentsFacts DEF Unique
<1> QED
  BY <1>1 DEF Range

\* Each of them is the first of its name.
LEMMA MembersFacts ==
    ASSUME NEW c, Unique(c), NEW m
    PROVE  /\ \A i \in 1..Len(c.elems) : Members(c, m)[c.names[i]] = m[c.elems[i]]
           /\ Members(c, m) = [name \in Range(c.names) |-> Members(c, m)[name]]
<1>1. ASSUME NEW i \in 1..Len(c.elems)
      PROVE  Min(FindMember(c, c.names[i])) = i
  <2>1. i \in FindMember(c, c.names[i])
    BY <1>1 DEF FindMember, Size
  <2>2. /\ Min(FindMember(c, c.names[i])) \in 1..Len(c.elems)
        /\ c.names[Min(FindMember(c, c.names[i]))] = c.names[i]
    BY <2>1, FoundFacts DEF Size, Unique
  <2> QED
    BY <1>1, <2>2 DEF Unique
<1>2. /\ \A name \in Range(c.names) :
            Members(c, m)[name] = m[c.elems[Min(FindMember(c, name))]]
      /\ Members(c, m) = [name \in Range(c.names) |-> Members(c, m)[name]]
  BY DEF Members
<1> QED
  BY <1>1, <1>2, NamesFacts

\* The function f gives the members of c in m.
Reads(f, c, m) ==
    /\ f = [name \in Range(c.names) |-> f[name]]
    /\ \A i \in 1..Len(c.elems) : f[c.names[i]] = m[c.elems[i]]

LEMMA MembersAre ==
    ASSUME NEW c, Unique(c), NEW m, NEW f, Reads(f, c, m)
    PROVE  Members(c, m) = f
<1> USE DEF Reads
<1>1. ASSUME NEW name \in Range(c.names)
      PROVE  Members(c, m)[name] = f[name]
  <2>1. PICK i \in 1..Len(c.elems) : name = c.names[i]
    BY NamesFacts
  <2>2. Members(c, m)[c.names[i]] = m[c.elems[i]]
    BY MembersFacts
  <2> QED
    BY <2>1, <2>2
<1>2. Members(c, m) = [name \in Range(c.names) |-> Members(c, m)[name]]
  BY MembersFacts
<1> QED
  BY <1>1, <1>2

\* An object whose members can be set in the state's memory.
Writable(c) ==
    /\ Unique(c)
    /\ \A i \in 1..Len(c.elems) : c.elems[i] \in Addresses /\ c.elems[i] # Slot
    /\ \A i, j \in 1..Len(c.elems) : c.elems[i] = c.elems[j] => i = j
    /\ Slot \in Addresses
    /\ mem \in [Addresses -> Contents]

LEMMA OverwriteFacts ==
    ASSUME IInv, NEW v \in Values, NEW name \in Names, Takes(v, name),
           IsInjective(AsValue(v).names)
    PROVE  Writable(AsValue(v))
<1> DEFINE c == AsValue(v)
           n == Len(c.elems)
           t == At(values, v)
           tab == Tabs(values, mem)
           own == Owns(values, home)
<1>1. /\ t \in Tables /\ tab[t] = c /\ c \in Contents
      /\ Fit(c, values[v].alloc)
  BY AtFacts
<1>2. Sound(tab, own, home, crossed) /\ Typed(values, mem, home)
  BY DEF IInv, Good
<1>3. Slot \in Addresses /\ home[Slot] = None
  BY TakesFacts, SlotFacts
<1>4. IsInjective(c.names)
  OBVIOUS
<1> HIDE DEF t, tab, own, c
<1>5. n \in Nat /\ Len(c.names) = n
  BY <1>1, ContentsFacts DEF Fit
<1>6. \A i \in 1..n : c.elems[i] \in Addresses /\ c.elems[i] # Slot
  BY <1>1, <1>2, <1>3, ContentsFacts, FreeUnused DEF Unused
<1>7. \A i, j \in 1..n : c.elems[i] = c.elems[j] => i = j
  BY <1>1, <1>2 DEF Sound
<1>8. \A i, j \in 1..n : c.names[i] = c.names[j] => i = j
  <2>1. DOMAIN c.names = 1..n
    BY <1>1, <1>5, ContentsFacts
  <2> QED
    BY <1>4, <2>1 DEF IsInjective
<1> QED
  BY <1>1, <1>2, <1>3, <1>5, <1>6, <1>7, <1>8 DEF Typed, Unique, Writable, c

Overwritten(c, name, x) ==
    [k \in Range(c.names) \cup {name} |->
        IF k = name THEN Scalar(x) ELSE Members(c, mem)[k]]

LEMMA MemberAdded ==
    ASSUME NEW c, Writable(c), NEW name \in Names, NEW x \in Scalars,
           FindMember(c, name) = {}
    PROVE  Members(AddMember(c, name), [mem EXCEPT ![Slot] = Scalar(x)])
               = Overwritten(c, name, x)
<1> DEFINE n == Len(c.elems)
           m == [mem EXCEPT ![Slot] = Scalar(x)]
           d == With(c, name, Slot)
           f == Overwritten(c, name, x)
<1>1. /\ Unique(c) /\ c \in Contents /\ Len(c.names) = n /\ n \in Nat
      /\ \A i \in 1..n : c.elems[i] \in Addresses /\ c.elems[i] # Slot
      /\ \A i, j \in 1..n : c.names[i] = c.names[j] => i = j
      /\ Slot \in Addresses
      /\ mem \in [Addresses -> Contents]
  BY ContentsFacts DEF Writable, Unique
<1>2. \A i \in 1..n : c.names[i] # name
  BY DEF FindMember, Size
<1>3. /\ d \in Contents /\ Len(d.names) = n + 1 /\ Len(d.elems) = n + 1
      /\ \A i \in 1..n : d.elems[i] = c.elems[i] /\ d.names[i] = c.names[i]
      /\ d.elems[n + 1] = Slot /\ d.names[n + 1] = name
  <2>1. c \in Contents /\ name \in Names \cup {Item} /\ Slot \in Addresses
    BY <1>1
  <2> QED
    BY <1>1, <2>1, WithFacts
<1>4. /\ \A i \in 1..n : c.names[i] \in Range(c.names)
      /\ \A k \in Range(c.names) : \E i \in 1..n : k = c.names[i]
      /\ \A i \in 1..n : Members(c, mem)[c.names[i]] = mem[c.elems[i]]
  <2>1. /\ \A i \in 1..n : c.names[i] \in Range(c.names)
        /\ \A k \in Range(c.names) : \E i \in 1..n : k = c.names[i]
    BY <1>1, NamesFacts
  <2>2. ASSUME NEW i \in 1..n
        PROVE  Members(c, mem)[c.names[i]] = mem[c.elems[i]]
    BY <1>1, MembersFacts
  <2> QED
    BY <2>1, <2>2
<1> HIDE DEF d, n
<1>5. /\ \A i \in 1..n : i \in 1..n + 1
      /\ n + 1 \in 1..n + 1
      /\ \A i \in 1..n + 1 : i \in 1..n \/ i = n + 1
  BY <1>1
<1>6. \A i, j \in 1..n + 1 : d.names[i] = d.names[j] => i = j
  BY <1>1, <1>2, <1>3, <1>5
<1>7. Unique(d)
  BY <1>3, <1>6 DEF Unique
<1>8. /\ \A i \in 1..n + 1 : d.names[i] \in Range(d.names)
      /\ \A k \in Range(d.names) : \E i \in 1..n + 1 : k = d.names[i]
  BY <1>3, <1>7, NamesFacts
<1>9. ASSUME NEW k
      PROVE  k \in Range(d.names) <=> k \in Range(c.names) \cup {name}
  <2>1. ASSUME k \in Range(d.names)
        PROVE  k \in Range(c.names) \cup {name}
    <3>1. PICK i \in 1..n + 1 : k = d.names[i]
      BY <1>8, <2>1
    <3> QED
      BY <1>3, <1>4, <1>5, <3>1
  <2>2. name \in Range(d.names)
    BY <1>3, <1>5, <1>8
  <2>3. ASSUME k \in Range(c.names)
        PROVE  k \in Range(d.names)
    <3>1. PICK i \in 1..n : k = c.names[i]
      BY <1>4, <2>3
    <3>2. d.names[i] = k /\ i \in 1..n + 1
      BY <1>3, <1>5, <3>1
    <3> QED
      BY <1>8, <3>2
  <2> QED
    BY <2>1, <2>2, <2>3
<1>10. /\ f = [k \in Range(d.names) |-> f[k]]
       /\ \A k \in Range(d.names) :
             f[k] = IF k = name THEN Scalar(x) ELSE Members(c, mem)[k]
  <2>1. Range(d.names) = Range(c.names) \cup {name}
    BY <1>9
  <2> QED
    BY <2>1 DEF Overwritten
<1>11. /\ m[Slot] = Scalar(x)
       /\ \A i \in 1..n : m[c.elems[i]] = mem[c.elems[i]]
  BY <1>1
<1> HIDE DEF f
<1>12. ASSUME NEW i \in 1..n + 1
       PROVE  f[d.names[i]] = m[d.elems[i]]
  <2>1. CASE i = n + 1
    BY <1>3, <1>8, <1>10, <1>11, <2>1
  <2>2. CASE i \in 1..n
    <3>1. /\ d.names[i] = c.names[i] /\ c.names[i] # name
          /\ d.elems[i] = c.elems[i] /\ d.names[i] \in Range(d.names)
      BY <1>2, <1>3, <1>5, <1>8, <2>2
    <3> QED
      BY <1>4, <1>10, <1>11, <2>2, <3>1
  <2> QED
    BY <1>5, <2>1, <2>2
<1>13. Members(d, m) = f
  <2>1. Reads(f, d, m)
    BY <1>3, <1>10, <1>12 DEF Reads
  <2> QED
    BY <1>7, <2>1, MembersAre
<1> QED
  BY <1>13 DEF d, f, With, AddMember

LEMMA MemberReplaced ==
    ASSUME NEW c, Writable(c), NEW name \in Names, NEW x \in Scalars,
           NEW i \in 1..Len(c.elems), c.names[i] = name
    PROVE  LET r == RemoveMember(c, i, mem)
           IN  Members(AddMember(r[1], name), [r[2] EXCEPT ![Slot] = Scalar(x)])
                   = Overwritten(c, name, x)
<1> DEFINE n == Len(c.elems)
           c1 == Without(c, i)
           d == With(c1, name, Slot)
           m1 == [mem EXCEPT ![c.elems[i]] = mem[c.elems[n]], ![c.elems[n]] = Null]
           m == [m1 EXCEPT ![Slot] = Scalar(x)]
           f == Overwritten(c, name, x)
<1>1. /\ Unique(c) /\ c \in Contents /\ Len(c.names) = n /\ n \in Nat
      /\ \A j \in 1..n : c.elems[j] \in Addresses /\ c.elems[j] # Slot
      /\ \A j, k \in 1..n : c.elems[j] = c.elems[k] => j = k
      /\ \A j, k \in 1..n : c.names[j] = c.names[k] => j = k
      /\ Slot \in Addresses
      /\ mem \in [Addresses -> Contents]
  BY ContentsFacts DEF Writable, Unique
<1>2. /\ c1 \in Contents /\ Len(c1.names) = n - 1 /\ Len(c1.elems) = n - 1
      /\ \A j \in 1..n - 1 :
            /\ c1.elems[j] = c.elems[j]
            /\ c1.names[j] = IF j = i THEN c.names[n] ELSE c.names[j]
  BY <1>1, WithoutFacts
<1>3. /\ \A j \in 1..n : c.names[j] \in Range(c.names)
      /\ \A k \in Range(c.names) : \E j \in 1..n : k = c.names[j]
  BY <1>1, NamesFacts
<1>4. ASSUME NEW j \in 1..n
      PROVE  Members(c, mem)[c.names[j]] = mem[c.elems[j]]
  BY <1>1, MembersFacts
<1>5. /\ RemoveMember(c, i, mem)[1] = c1
      /\ RemoveMember(c, i, mem)[2] = m1
      /\ AddMember(c1, name) = d
  BY DEF RemoveMember, Without, AddMember, With, Size
<1>6. i \in 1..n
  OBVIOUS
<1> HIDE DEF n, c1
<1>7. /\ n - 1 \in Nat /\ n \in 1..n
      /\ \A j \in 1..n - 1 : j \in 1..n /\ j # n
      /\ \A j \in 1..n : j \in 1..n - 1 \/ j = n
  BY <1>1, <1>6
<1>8. /\ d \in Contents /\ Len(d.names) = n /\ Len(d.elems) = n
      /\ d.elems[n] = Slot /\ d.names[n] = name
      /\ \A j \in 1..n - 1 :
            /\ d.elems[j] = c.elems[j]
            /\ d.names[j] = IF j = i THEN c.names[n] ELSE c.names[j]
  <2>1. c1 \in Contents /\ name \in Names \cup {Item} /\ Slot \in Addresses
    BY <1>1, <1>2
  <2>2. /\ d \in Contents
        /\ Len(d.names) = Len(c1.names) + 1 /\ Len(d.elems) = Len(c1.elems) + 1
        /\ \A j \in 1..Len(c1.elems) : d.elems[j] = c1.elems[j]
        /\ \A j \in 1..Len(c1.names) : d.names[j] = c1.names[j]
        /\ d.elems[Len(c1.elems) + 1] = Slot
        /\ d.names[Len(c1.names) + 1] = name
    BY ONLY <2>1, WithFacts
  <2>3. n - 1 + 1 = n
    BY <1>1
  <2> QED
    BY <1>2, <2>2, <2>3
<1> HIDE DEF d
<1>9. ASSUME NEW j \in 1..n, NEW k \in 1..n, d.names[j] = d.names[k]
      PROVE  j = k
  BY <1>1, <1>6, <1>7, <1>8, <1>9
<1>10. Unique(d)
  BY <1>8, <1>9 DEF Unique
<1>11. /\ \A j \in 1..n : d.names[j] \in Range(d.names)
       /\ \A k \in Range(d.names) : \E j \in 1..n : k = d.names[j]
  BY <1>8, <1>10, NamesFacts
<1>12. ASSUME NEW k
       PROVE  k \in Range(d.names) <=> k \in Range(c.names) \cup {name}
  <2>1. ASSUME k \in Range(d.names)
        PROVE  k \in Range(c.names) \cup {name}
    <3>1. PICK j \in 1..n : k = d.names[j]
      BY <1>11, <2>1
    <3> QED
      BY <1>3, <1>7, <1>8, <3>1
  <2>2. name \in Range(d.names)
    BY <1>7, <1>8, <1>11
  <2>3. ASSUME k \in Range(c.names), k # name
        PROVE  k \in Range(d.names)
    <3>1. PICK j \in 1..n : k = c.names[j]
      BY <1>3, <2>3
    <3>2. j # i
      BY <2>3, <3>1
    <3>3. CASE j = n
      <4>1. i \in 1..n - 1
        BY <1>6, <1>7, <3>2, <3>3
      <4>2. d.names[i] = k
        BY <1>8, <3>1, <3>3, <4>1
      <4> QED
        BY <1>6, <1>11, <4>2
    <3>4. CASE j \in 1..n - 1
      <4>1. d.names[j] = k
        BY <1>8, <3>1, <3>2, <3>4
      <4> QED
        BY <1>11, <4>1
    <3> QED
      BY <1>7, <3>3, <3>4
  <2> QED
    BY <2>1, <2>2, <2>3
<1>13. /\ f = [k \in Range(d.names) |-> f[k]]
       /\ \A k \in Range(d.names) :
             f[k] = IF k = name THEN Scalar(x) ELSE Members(c, mem)[k]
  <2>1. Range(d.names) = Range(c.names) \cup {name}
    BY <1>12
  <2> QED
    BY <2>1 DEF Overwritten
<1> HIDE DEF f
<1>14. /\ m[Slot] = Scalar(x)
       /\ \A j \in 1..n - 1 :
             m[c.elems[j]] = IF j = i THEN mem[c.elems[n]] ELSE mem[c.elems[j]]
  <2>1. m1 = [a \in Addresses |-> IF a = c.elems[n] THEN Null
                                  ELSE IF a = c.elems[i] THEN mem[c.elems[n]]
                                  ELSE mem[a]]
    BY <1>1, <1>6, <1>7
  <2>2. \A a \in Addresses : m[a] = IF a = Slot THEN Scalar(x) ELSE m1[a]
    BY <2>1
  <2> HIDE DEF m, m1
  <2>3. ASSUME NEW j \in 1..n - 1
        PROVE  m[c.elems[j]] = IF j = i THEN mem[c.elems[n]] ELSE mem[c.elems[j]]
    <3>1. /\ j \in 1..n /\ c.elems[j] \in Addresses /\ c.elems[j] # Slot
          /\ c.elems[j] # c.elems[n]
      BY <1>1, <1>7
    <3>2. c.elems[j] = c.elems[i] <=> j = i
      BY <1>1, <1>6, <3>1
    <3> QED
      BY <2>1, <2>2, <3>1, <3>2
  <2> QED
    BY <1>1, <2>2, <2>3
<1> HIDE DEF m
<1>15. ASSUME NEW j \in 1..n
       PROVE  f[d.names[j]] = m[d.elems[j]]
  <2>1. CASE j = n
    BY <1>8, <1>11, <1>13, <1>14, <2>1
  <2>2. CASE j \in 1..n - 1 /\ j = i
    <3>1. d.names[j] = c.names[n] /\ d.elems[j] = c.elems[j] /\ c.names[n] # name
      BY <1>1, <1>6, <1>7, <1>8, <2>2
    <3>2. f[d.names[j]] = Members(c, mem)[c.names[n]]
      BY <1>11, <1>13, <3>1
    <3>3. m[d.elems[j]] = mem[c.elems[n]]
      BY <1>14, <2>2, <3>1
    <3> QED
      BY <1>4, <1>7, <3>2, <3>3
  <2>3. CASE j \in 1..n - 1 /\ j # i
    <3>1. d.names[j] = c.names[j] /\ d.elems[j] = c.elems[j] /\ c.names[j] # name
      BY <1>1, <1>6, <1>7, <1>8, <2>3
    <3>2. f[d.names[j]] = Members(c, mem)[c.names[j]]
      BY <1>11, <1>13, <3>1
    <3>3. m[d.elems[j]] = mem[c.elems[j]]
      BY <1>14, <2>3, <3>1
    <3> QED
      BY <1>4, <3>2, <3>3
  <2> QED
    BY <1>7, <2>1, <2>2, <2>3
<1>16. Reads(f, d, m)
  BY <1>8, <1>13, <1>15 DEF Reads
<1>17. Members(d, m) = f
  BY <1>10, <1>16, MembersAre
<1> QED
  BY <1>5, <1>17 DEF f, m

\* SetStringObject sets the member that a later lookup by name finds, and leaves
\* all other members as they were, though removal moves the last one to another
\* place, for every object of unique names (json.h:222).
THEOREM OverwriteFound == Spec => []OverwriteVisible
<1>1. ASSUME IInv PROVE OverwriteVisible
  <2> SUFFICES ASSUME NEW v \in Values, NEW name \in Names, NEW x \in Scalars,
                      Takes(v, name), IsInjective(AsValue(v).names)
               PROVE  LET c == AsValue(v)
                          r == SetMember(c, name, x, mem)
                      IN  Members(r[1], r[2]) = Overwritten(c, name, x)
    BY DEF OverwriteVisible, Overwritten
  <2> DEFINE c == AsValue(v)
             named == FindMember(c, name)
             i == Min(named)
  <2>1. Writable(c)
    BY <1>1, OverwriteFacts
  <2>2. CASE named = {}
    BY <2>1, <2>2, MemberAdded DEF SetMember
  <2>3. CASE named # {}
    <3>1. i \in 1..Len(c.elems) /\ c.names[i] = name
      BY <2>1, <2>3, FoundFacts DEF Writable, Unique, Size
    <3>2. SetMember(c, name, x, mem) =
              LET r == RemoveMember(c, i, mem)
              IN <<AddMember(r[1], name), [r[2] EXCEPT ![Slot] = Scalar(x)]>>
      BY <2>3 DEF SetMember
    <3> HIDE DEF c, i
    <3> DEFINE r == RemoveMember(c, i, mem)
    <3>3. Members(AddMember(r[1], name), [r[2] EXCEPT ![Slot] = Scalar(x)])
              = Overwritten(c, name, x)
      BY <2>1, <3>1, MemberReplaced
    <3>4. /\ SetMember(c, name, x, mem)[1] = AddMember(r[1], name)
          /\ SetMember(c, name, x, mem)[2] = [r[2] EXCEPT ![Slot] = Scalar(x)]
      BY <3>2
    <3> HIDE DEF r
    <3>5. Members(SetMember(c, name, x, mem)[1], SetMember(c, name, x, mem)[2])
              = Overwritten(c, name, x)
      BY <3>3, <3>4
    <3> QED
      BY <3>5 DEF c
  <2> QED
    BY <2>2, <2>3
<1> QED
  BY <1>1, Invariance, PTL

=============================================================================
