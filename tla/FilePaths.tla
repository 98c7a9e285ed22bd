----------------------------- MODULE FilePaths -----------------------------
(***************************************************************************)
(* The operations on paths of core/file_utils.cc.  A path is a sequence of *)
(* characters, of which only the separator and the dot are told apart.     *)
(***************************************************************************)
EXTENDS Integers, SequencesExt

Sep == "/"

IsAbsolutePath(path) == path # <<>> /\ path[1] = Sep

AddSegment(joined, seg) ==
    IF joined = <<>> THEN seg
    ELSE IF IsAbsolutePath(seg)
    THEN joined \o (IF Last(joined) = Sep THEN Tail(seg) ELSE seg)
    ELSE (IF Last(joined) = Sep THEN joined ELSE Append(joined, Sep)) \o seg

JoinPath(segments) ==
    LET joined[i \in 0..Len(segments)] ==
            IF i = 0 THEN <<>> ELSE AddSegment(joined[i - 1], segments[i])
    IN joined[Len(segments)]

\* The last character that is no separator, or the first of all.
NameEnd(path) == Max({1} \cup {i \in DOMAIN path : path[i] # Sep})

\* The last separator before it, 0 if there is none.
NameStart(path) ==
    Max({0} \cup {i \in 1..NameEnd(path) : path[i] = Sep})

BaseName(path) ==
    IF path = <<>> \/ path[NameEnd(path)] = Sep THEN <<>>
    ELSE SubSeq(path, NameStart(path) + 1, NameEnd(path))

\* Mutant: the directory of a name in the root is empty.
DirNameRootless(path) ==
    IF path = <<>> THEN path
    ELSE IF path[NameEnd(path)] = Sep THEN <<Sep>>
    ELSE IF NameStart(path) = 0 THEN <<".">>
    ELSE SubSeq(path, 1, NameStart(path) - 1)

DirName(path) ==
    IF path = <<>> THEN path
    ELSE IF path[NameEnd(path)] = Sep THEN <<Sep>>
    ELSE IF NameStart(path) = 0 THEN <<".">>
    ELSE IF NameStart(path) = 1 THEN <<Sep>>
    ELSE SubSeq(path, 1, NameStart(path) - 1)

\* A comparison of the texts: neither path is resolved.
IsChildPathEscapingParentPath(child_path, parent_path) ==
    ~IsPrefix(parent_path, child_path)
=============================================================================
