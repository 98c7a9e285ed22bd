---------------------------- MODULE MCJsonValue ----------------------------
(* Two documents, three values and three elements, not all of them at once. *)
EXTENDS JsonValue

MCAddresses == 1..3
MCPools == 1..2
Symmetry == Permutations(Values) \cup Permutations(Names)

Elements == {a \in Addresses : home[a] # None}
InUse == {v \in Values : values[v] # Empty} \cup moved

\* The bound: a third element is used by two values at most, and as long as
\* nothing was moved between values or documents.
Bounded ==
    /\ 3 \in Elements => Cardinality(InUse) <= 2
    /\ Cardinality(Elements) = 3 => moved = {} /\ crossed = {}
=============================================================================
