----------------------------- MODULE JsonValue -----------------------------
(***************************************************************************)
(* The JSON values of common/json.h over rapidjson: documents with a pool  *)
(* of memory each, and values that refer to elements of a document.        *)
(*                                                                         *)
(* An element lives at an address, allocated in a pool and freed with it.  *)
(* The content at an address is a scalar, null, or the table of an object  *)
(* or array: the names and addresses of its members.                       *)
(*                                                                         *)
(* Where the code reads freed or foreign memory without a check, the model *)
(* assumes a caller who does not go there.  No comment of the code asks it *)
(* of callers, but for the second point:                                   *)
(*   - a document goes after all that refers to its memory;                *)
(*   - a value that was moved from is not parsed, set or swapped;          *)
(*   - a value is not added to, or swapped with, one that it contains;     *)
(*   - no value refers to the last member of an object when a member of it *)
(*     is removed (the next member to be added takes that place), or into  *)
(*     a table that outgrows its capacity and is moved in memory.          *)
(* Values of two documents are added and swapped freely, and a value may   *)
(* refer to a member that is removed or replaced by another.               *)
(***************************************************************************)
EXTENDS Integers, SequencesExt

CONSTANTS
    Values,         \* the Json::Value objects of a caller
    Addresses,      \* 1..n: the bound on the elements of all documents
    Pools,          \* integers: the bound on the documents
    Names, Scalars, None

ASSUME AddressesAssumption ==
    Addresses \subseteq Nat /\ IsFiniteSet(Addresses) /\ None \notin Addresses
ASSUME PoolsAssumption == Pools \subseteq Nat /\ None \notin Pools

VARIABLES
    values,     \* values[v]: the members of the object; pool and root are of
                \* its document_, ref is value_ and alloc is allocator_
    mem,        \* mem[a]: the content at address a
    home,       \* home[a]: the pool that a is allocated in
    moved,      \* the values whose document_, moved from, has no allocator
    crossed     \* history: the documents that exchanged contents, uncopied

vars == <<values, mem, home, moved, crossed>>

Content(kind, names, elems, scalar) ==
    [kind |-> kind, names |-> names, elems |-> elems, scalar |-> scalar]

Null == Content("null", <<>>, <<>>, None)
Scalar(x) == Content("scalar", <<>>, <<>>, x)
EmptyTable(kind) == Content(kind, <<>>, <<>>, None)
Item == "item"      \* stands for the name where there is none, in an array

\* A default value, or one that was moved from; a document; a value in one.
Empty == [pool |-> None, root |-> Null, ref |-> None, alloc |-> None]
Document(p, root) == [pool |-> p, root |-> root, ref |-> None, alloc |-> p]
Element(p, a) == [pool |-> None, root |-> Null, ref |-> a, alloc |-> p]

Init ==
    /\ values = [v \in Values |-> Empty]
    /\ mem = [a \in Addresses |-> Null]
    /\ home = [a \in Addresses |-> None]
    /\ moved = {}
    /\ crossed = {}

-----------------------------------------------------------------------------
(* Reading *)

AsValue(v) == IF values[v].ref = None THEN values[v].root ELSE mem[values[v].ref]

Size(c) == Len(c.elems)
Kids(c) == Range(c.elems)
FindMember(c, name) == {i \in 1..Size(c) : c.names[i] = name}

\* The addresses of S, and in m all that can be reached from them.
Reach(S, m) ==
    LET from[near \in SUBSET Addresses] ==
            LET further == near \cup UNION {Kids(m[a]) : a \in near}
            IN IF further = near THEN near ELSE from[further]
    IN from[S]

Free == {a \in Addresses : home[a] = None}
FreePools == Pools \ ({values[v].pool : v \in Values} \cup {None})

\* All addresses that a value gets to.
Reached(v) == Reach((Kids(values[v].root) \cup {values[v].ref}) \ {None}, mem)

\* No other value takes memory from the document of v or gets to any of it.
Unreferenced(v) ==
    \A w \in Values \ {v} :
        /\ values[w].alloc = None \/ values[w].alloc # values[v].pool
        /\ \A a \in Reached(w) : home[a] # values[v].pool

\* A value refers to the last member of c.
LastHeld(c) == \E w \in Values : values[w].ref = Last(c.elems)

\* Memory of p and of q may be in one table: they are one document, or both
\* have exchanged contents.
Joined(p, q, X) == p = q \/ {p, q} \subseteq X
Crossing(v, w) ==
    IF values[v].alloc = values[w].alloc THEN crossed
    ELSE crossed \cup {values[v].alloc, values[w].alloc}

-----------------------------------------------------------------------------
(* Writing *)

\* The new state; what no value reaches is dropped from it.  (A document keeps
\* the memory until it goes itself, which nothing can tell.)
Commit(vs, m, h) ==
    LET seen == (UNION {Kids(vs[v].root) \cup {vs[v].ref} : v \in Values}) \ {None}
        used == Reach(seen, m)
    IN /\ values' = vs
       /\ mem' = [a \in Addresses |-> IF a \in used THEN m[a] ELSE Null]
       /\ home' = [a \in Addresses |-> IF a \in used THEN h[a] ELSE None]

\* The content c is put where v refers to, the rest of the memory is m and h.
Store(v, c, m, h) ==
    IF values[v].ref = None
    THEN Commit([values EXCEPT ![v].root = c], m, h)
    ELSE Commit(values, [m EXCEPT ![values[v].ref] = c], h)

\* The address of a new member, and a table with one more.
Slot == Min(Free)
AddMember(c, name) ==
    [c EXCEPT !.names = Append(@, name), !.elems = Append(@, Slot)]
InDocumentOf(v, S) ==
    [a \in Addresses |-> IF a \in S THEN values[v].alloc ELSE home[a]]

\* Mutant: the members behind the one that is removed go with it.
RemoveMemberCut(c, i, m) ==
    <<[c EXCEPT !.names = SubSeq(@, 1, i - 1), !.elems = SubSeq(@, 1, i - 1)], m>>

\* The last member is moved to the place of the one that is removed, and null
\* is left of it.
RemoveMember(c, i, m) ==
    LET n == Size(c)
    IN <<[c EXCEPT !.names = Front([@ EXCEPT ![i] = c.names[n]]),
                   !.elems = Front(@)],
         [m EXCEPT ![c.elems[i]] = m[c.elems[n]], ![c.elems[n]] = Null]>>

\* The value v becomes new; a document that it was goes with its memory.
Replace(v, new, rest) ==
    LET gone == {a \in Addresses : home[a] # None /\ home[a] = values[v].pool}
    IN /\ Commit([rest EXCEPT ![v] = new],
              [a \in Addresses |-> IF a \in gone THEN Null ELSE mem[a]],
              [a \in Addresses |-> IF a \in gone THEN None ELSE home[a]])
       /\ crossed' = crossed \ {values[v].pool}

-----------------------------------------------------------------------------
(* Values and documents *)

\* A top-level document.
Construct(v, kind) ==
    /\ values[v] = Empty /\ v \notin moved
    /\ FreePools # {}
    /\ LET p == Min(FreePools)
       IN values' = [values EXCEPT ![v] = Document(p, EmptyTable(kind))]
    /\ UNCHANGED <<mem, home, moved, crossed>>

\* An object or array in the memory of a document, not yet part of it.
ConstructChild(v, d, kind) ==
    /\ values[v] = Empty /\ v \notin moved
    /\ values[d].pool # None
    /\ Free # {}
    /\ LET p == values[d].pool
       IN Commit([values EXCEPT ![v] = Element(p, Slot)],
                 [mem EXCEPT ![Slot] = EmptyTable(kind)],
                 [home EXCEPT ![Slot] = p])
    /\ UNCHANGED <<moved, crossed>>

\* Mutant: w keeps what it had.
MoveCopied(v, w) ==
    /\ v # w
    /\ values[w] # Empty
    /\ Unreferenced(v)
    /\ Replace(v, values[w], values)
    /\ moved' = (moved \ {v}) \cup {w}

\* Move assignment: what v had goes, and w is left empty.
Move(v, w) ==
    /\ v # w
    /\ values[w] # Empty
    /\ Unreferenced(v)
    /\ Replace(v, values[w], [values EXCEPT ![w] = Empty])
    /\ moved' = (moved \ {v}) \cup {w}

Destroy(v) ==
    /\ values[v] # Empty \/ v \in moved
    /\ Unreferenced(v)
    /\ Replace(v, Empty, values)
    /\ moved' = moved \ {v}

\* A text with one member replaces the root.  A text with an error, or a value
\* that is not a document, leaves all as it was.
Parse(v, name, x) ==
    /\ values[v].ref = None /\ v \notin moved
    /\ values[v].pool # None \/ FreePools # {}
    /\ Free # {}
    /\ LET p == IF values[v].pool = None THEN Min(FreePools) ELSE values[v].pool
       IN Commit([values EXCEPT ![v] =
                    Document(p, AddMember(EmptyTable("object"), name))],
                 [mem EXCEPT ![Slot] = Scalar(x)],
                 [home EXCEPT ![Slot] = p])
    /\ UNCHANGED <<moved, crossed>>

-----------------------------------------------------------------------------
(* Members and elements *)

\* A value of the right kind has room for one more member; on another kind
\* the functions below return an error.
Takes(v, name) ==
    /\ AsValue(v).kind = IF name = Item THEN "array" ELSE "object"
    /\ Free # {}

\* AddString, AddInt and the like.
AddScalar(v, name, x) ==
    /\ Takes(v, name)
    /\ Store(v, AddMember(AsValue(v), name),
             [mem EXCEPT ![Slot] = Scalar(x)], InDocumentOf(v, {Slot}))
    /\ UNCHANGED <<moved, crossed>>

\* AppendString, AppendInt and the like.
AppendScalar(v, x) == AddScalar(v, Item, x)

\* Mutant: the root of a document is moved, not copied.
AddDocumentMoved(v, name, w) ==
    /\ v # w /\ values[w].ref = None /\ Unreferenced(w)
    /\ Takes(v, name)
    /\ Store(v, AddMember(AsValue(v), name),
             [mem EXCEPT ![Slot] = values[w].root], InDocumentOf(v, {Slot}))
    /\ UNCHANGED <<moved, crossed>>

\* The elements of a document, each with the address of its copy.
Copies(w) == Injection(Reach(Kids(values[w].root), mem), Free \ {Slot})
Copied(c, at) == [c EXCEPT !.elems = [i \in DOMAIN @ |-> at[@[i]]]]

\* Add and Append of a document: its elements are copied.
AddDocument(v, name, w) ==
    LET at   == CHOOSE f \in Copies(w) : TRUE
        from == AntiFunction(at)
    IN /\ v # w /\ values[w].ref = None
       /\ Takes(v, name)
       /\ Copies(w) # {}
       /\ Store(v, AddMember(AsValue(v), name),
                [a \in Addresses |->
                    CASE a = Slot -> Copied(values[w].root, at)
                      [] a \in Range(at) -> Copied(mem[from[a]], at)
                      [] OTHER -> mem[a]],
                InDocumentOf(v, {Slot} \cup Range(at)))
       /\ UNCHANGED <<moved, crossed>>

\* A value in a document, not v and not around it, can be moved to v.
Moves(v, name, w) ==
    /\ v # w
    /\ values[w].ref # None
    /\ values[v].ref \notin Reach({values[w].ref}, mem)
    /\ Takes(v, name)

\* Mutant: the value stays where it was as well.
AddValueCopied(v, name, w) ==
    /\ Moves(v, name, w)
    /\ Store(v, AddMember(AsValue(v), name),
             [mem EXCEPT ![Slot] = AsValue(w)], InDocumentOf(v, {Slot}))
    /\ crossed' = Crossing(v, w)
    /\ UNCHANGED moved

\* Add and Append of a value in a document: its content is moved, and null is
\* left in its place.  Nothing asks which document that is.
AddValue(v, name, w) ==
    /\ Moves(v, name, w)
    /\ Store(v, AddMember(AsValue(v), name),
             [mem EXCEPT ![Slot] = AsValue(w), ![values[w].ref] = Null],
             InDocumentOf(v, {Slot}))
    /\ crossed' = Crossing(v, w)
    /\ UNCHANGED moved

\* Find, At, MemberAsObject and the like make an unused value refer to an
\* element; of several members of one name, the first.
Find(v, i, w) ==
    LET c == AsValue(v)
    IN /\ values[w] = Empty
       /\ i \in 1..Size(c)
       /\ c.kind = "object" => i = Min(FindMember(c, c.names[i]))
       /\ values' = [values EXCEPT ![w] = Element(values[v].alloc, c.elems[i])]
       /\ moved' = moved \ {w}
       /\ UNCHANGED <<mem, home, crossed>>

\* SetInt, SetString and the like, on a document or a value in one: SetString
\* takes its memory from there.
Set(v, x) ==
    /\ values[v].alloc # None
    /\ Store(v, Scalar(x), mem, home)
    /\ UNCHANGED <<moved, crossed>>

\* The contents of two values change places, in whatever documents they are.
Swap(v, w) ==
    /\ v # w
    /\ values[v].alloc # None /\ values[w].alloc # None
    /\ values[v].ref \notin Reach(Kids(AsValue(w)), mem)
    /\ values[w].ref \notin Reach(Kids(AsValue(v)), mem)
    /\ values' = [values EXCEPT
          ![v].root = IF values[v].ref = None THEN AsValue(w) ELSE @,
          ![w].root = IF values[w].ref = None THEN AsValue(v) ELSE @]
    /\ mem' = [a \in Addresses |->
          IF a = values[v].ref THEN AsValue(w)
          ELSE IF a = values[w].ref THEN AsValue(v) ELSE mem[a]]
    /\ crossed' = Crossing(v, w)
    /\ UNCHANGED <<home, moved>>

RemoveNamed(v, name) ==
    LET c == AsValue(v)
        r == RemoveMember(c, Min(FindMember(c, name)), mem)
    IN /\ c.kind = "object"
       /\ FindMember(c, name) # {}
       /\ ~LastHeld(c)
       /\ Store(v, r[1], r[2], home)
       /\ UNCHANGED <<moved, crossed>>

\* The first member of the name is removed, if there is one, and a new one is
\* added.
SetMember(c, name, x, m) ==
    LET named == FindMember(c, name)
        r == IF named = {} THEN <<c, m>> ELSE RemoveMember(c, Min(named), m)
    IN <<AddMember(r[1], name), [r[2] EXCEPT ![Slot] = Scalar(x)]>>

SetStringObject(v, name, x) ==
    LET c == AsValue(v)
        r == SetMember(c, name, x, mem)
    IN /\ Takes(v, name)
       /\ FindMember(c, name) # {} => ~LastHeld(c)
       /\ Store(v, r[1], r[2], InDocumentOf(v, {Slot}))
       /\ UNCHANGED <<moved, crossed>>

Next ==
    \E v \in Values :
        \/ Destroy(v)
        \/ \E x \in Scalars : Set(v, x) \/ AppendScalar(v, x)
        \/ \E kind \in {"object", "array"} : Construct(v, kind)
        \/ \E w \in Values, kind \in {"object", "array"} : ConstructChild(v, w, kind)
        \/ \E w \in Values : Move(v, w) \/ Swap(v, w)
        \/ \E w \in Values, i \in Addresses : Find(v, i, w)
        \/ \E name \in Names \cup {Item}, w \in Values :
              AddDocument(v, name, w) \/ AddValue(v, name, w)
        \/ \E name \in Names : RemoveNamed(v, name)
        \/ \E name \in Names, x \in Scalars :
              \/ Parse(v, name, x) \/ AddScalar(v, name, x)
              \/ SetStringObject(v, name, x)

Spec == Init /\ [][Next]_vars

-----------------------------------------------------------------------------
(* Properties *)

Contents ==
    [kind : {"null", "scalar", "object", "array"},
     names : Seq(Names \cup {Item}), elems : Seq(Addresses),
     scalar : Scalars \cup {None}]

\* The members of a value fit together: it is a document, refers to an element,
\* or is a plain value of its own, and no two documents have the same memory
\* (document_, value_ and allocator_ of Json::Value).
TypeOK ==
    /\ values \in [Values -> [pool : Pools \cup {None}, root : Contents,
                              ref : Addresses \cup {None}, alloc : Pools \cup {None}]]
    /\ mem \in [Addresses -> Contents]
    /\ home \in [Addresses -> Pools \cup {None}]
    /\ moved \subseteq Values /\ crossed \subseteq Pools
    /\ \A v \in Values :
          /\ values[v].pool # None =>
                values[v].ref = None /\ values[v].alloc = values[v].pool
          /\ values[v].alloc # None =>
                values[v].ref # None \/ values[v].pool # None
          /\ \A w \in Values \ {v} :
                values[v].pool = None \/ values[v].pool # values[w].pool

\* All that a value can reach lies in the memory its allocator_ stands for, so
\* none of it goes before the document does, unless contents were moved (Add,
\* Append or Swap of a value that is not a document) between that document and
\* another: to add a document makes no two depend on each other, for it is
\* copied.  An object or array is never found without an allocator.
NodesOwned ==
    \A v \in Values :
        /\ Size(AsValue(v)) > 0 => values[v].alloc # None
        /\ \A a \in Reached(v) :
              Joined(home[a], values[v].alloc, crossed)

\* The tables of all documents and elements.
Tables == {<<"root", v>> : v \in Values} \cup {<<"mem", a>> : a \in Addresses}
TableOf(t) == IF t[1] = "root" THEN values[t[2]].root ELSE mem[t[2]]
Slots(t) == 1..Size(TableOf(t))

\* An element is a slot of one table at most: after any Add, Append, Swap,
\* Remove or move no element has two parents, and no write through one value
\* shows in another place.
NodesUnshared ==
    \A t, u \in Tables : \A i \in Slots(t), j \in Slots(u) :
        TableOf(t).elems[i] = TableOf(u).elems[j] => t = u /\ i = j

\* The members of an object, as a reader sees them.
Members(c, m) ==
    [name \in Range(c.names) |-> m[c.elems[Min(FindMember(c, name))]]]

\* SetStringObject sets the member that a later lookup finds, and leaves the
\* members of other names as they were, for any object whose names are unique.
\* (Of several members of one name the first is removed and the new one comes
\* last, so that a lookup finds the second.)
OverwriteVisible ==
    \A v \in Values, name \in Names, x \in Scalars :
        LET c == AsValue(v)
            r == SetMember(c, name, x, mem)
        IN Takes(v, name) /\ IsInjective(c.names) =>
              Members(r[1], r[2]) =
                  [n \in Range(c.names) \cup {name} |->
                      IF n = name THEN Scalar(x) ELSE Members(c, mem)[n]]

=============================================================================
