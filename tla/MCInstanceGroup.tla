--------------------------- MODULE MCInstanceGroup ---------------------------
(***************************************************************************)
(* Instances of InstanceGroup for TLC: every configuration of up to one    *)
(* group with up to two preferred groups, and of two groups with up to one.*)
(***************************************************************************)
EXTENDS InstanceGroup

\* The build reports no device, or the two of an NT22 or NT30.
BuildDevices == {{}, {0, 1}}

\* GPU 2 is on no machine.
GpuLists == {<<>>, <<0, 2>>, <<2>>}

Records(names, counts, lists) ==
    [name : names, kind : Kinds, count : counts, gpus : lists]

Single    == Records({NoName}, {-1, 3}, GpuLists \cup {<<0>>})
Small     == Records({<<"given">>, NoName}, {0}, {<<>>, <<0>>})
Preferred == Records({NoName}, {0, 3}, GpuLists)
                \cup Records({NoName}, {5}, {<<1>>})

NoGroup  == {<<>>}
OneOf(S) == {<<g>> : g \in S}
TwoOf(S) == {<<g, h>> : g, h \in S}

OnePreferred == NoGroup \cup OneOf(Preferred)

AllInputs ==
    ((NoGroup \cup OneOf(Single)) \X (OnePreferred \cup TwoOf(Preferred)))
        \cup (TwoOf(Small) \X OnePreferred)

FewInputs == (NoGroup \cup OneOf(Single)) \X OnePreferred

BothConditions == BOOLEAN
AsItStands == {FALSE}
Repaired == {TRUE}
=============================================================================
