---------------------------- MODULE Conversions ----------------------------
(***************************************************************************)
(* The pure functions of the program against reference definitions.  A     *)
(* behaviour builds an argument up, element by element, so that its states *)
(* are all the arguments up to the bounds; the invariants say what the     *)
(* functions return for each.                                              *)
(***************************************************************************)
EXTENDS ModelConfig, BackendConfig, FilePaths, StatusCodes

CONSTANTS
    Dimensions, MaxDims,     \* the dimensions and the length of shapes
    BatchSizes,              \* the sizes of a batch
    Sizes, MaxShape,         \* the dimensions, but for the wildcard, and the
                             \* length of the shapes that are compared
    PathChars, MaxPath,      \* the characters and the length of paths
    Settings, MaxSettings,   \* the <<section, key, value>> of command lines
    TextChars                \* the characters that mistype a type's name

\* One size alone could not tell a wildcard from it.
ASSUME ArgumentsAssumption ==
    /\ Dimensions \subseteq Int
    /\ BatchSizes \subseteq Int
    /\ Sizes \subseteq Nat \ {0}
    /\ \E m, n \in Sizes : m # n

VARIABLES
    sort,       \* "dims", "path", "settings", "text" or "edited"
    item        \* the argument, a sequence

vars == <<sort, item>>

Init ==
    \/ sort \in {"dims", "path", "settings"} /\ item = <<>>
    \/ sort = "text" /\ item \in Range(DataTypeToProtocolString)

Grow(s, elements, bound) ==
    /\ sort = s
    /\ Len(item) < bound
    /\ \E e \in elements : item' = Append(item, e)
    /\ UNCHANGED sort

\* A character of a type's name is dropped, replaced or added.
Edit ==
    /\ sort = "text"
    /\ sort' = "edited"
    /\ \/ \E i \in DOMAIN item : item' = RemoveAt(item, i)
       \/ \E i \in DOMAIN item, c \in TextChars : item' = ReplaceAt(item, i, c)
       \/ \E i \in 1..Len(item) + 1, c \in TextChars : item' = InsertAt(item, i, c)

Next ==
    \/ Grow("dims", Dimensions, MaxDims)
    \/ Grow("path", PathChars, MaxPath)
    \/ Grow("settings", Settings, MaxSettings)
    \/ Edit

Spec == Init /\ [][Next]_vars

-----------------------------------------------------------------------------
(* Sizes and shapes *)

\* The size of a batch (model_config.cc:113) is -1 for a shape with a
\* wildcard or a type without a size, and the exact number of bytes whenever
\* that fits an int64_t, even if a part of the product does not; so for a
\* shape that validation accepts (model_config_utils.cc:124), a size of zero
\* or below -1 can only come from an overflow.  The one exception is the
\* shape without dimensions, whose size for TYPE_STRING is zero.
SizesExact ==
    sort = "dims" =>
        \A dtype \in DataTypes, b \in BatchSizes :
            LET size  == GetDataTypeByteSize[dtype]
                bytes == Product(item) * size * (IF b > 1 THEN b ELSE 1)
                got   == GetBatchByteSize(b, dtype, item)
                io    == [name |-> "x", data_type |-> dtype, dims |-> item]
            IN CASE item = <<>> -> Fits(b * size) => got = b * size
                 [] item # <<>> /\ (WILDCARD_DIM \in Range(item) \/ size = 0)
                      -> got = -1
                 [] OTHER -> /\ Fits(bytes) => got = bytes
                             /\ ValidateIOShape(io) /\ got < 1 => ~Fits(bytes)

Shapes == BoundedSeq(Sizes \cup {WILDCARD_DIM}, MaxShape)

\* The concrete shapes a shape stands for.
Instances(dims) ==
    {s \in [DOMAIN dims -> Sizes] :
        \A i \in DOMAIN dims : dims[i] \in {s[i], WILDCARD_DIM}}

\* Two shapes match with wildcards (model_config.cc:173) exactly when some
\* concrete shape is one of both, and literally (model_config.cc:147) exactly
\* when they stand for the same concrete shapes.
WildcardsMeet ==
    sort = "dims" /\ item \in Shapes =>
        \A other \in Shapes :
            /\ CompareDimsWithWildcard(item, other)
                  <=> Instances(item) \cap Instances(other) # {}
            /\ CompareDims(item, other) <=> Instances(item) = Instances(other)

-----------------------------------------------------------------------------
(* Names and codes *)

\* A type is read back from its name (model_config.cc:234, 270), and no text
\* with a character more, less or other names a type, unless it is another
\* type's own name; a status keeps its code through an error of the C
\* interface and back (status.cc:11, 35), and success alone becomes none.
NamesRoundTrip ==
    sort \in {"text", "edited"} =>
        LET dtype == ProtocolStringToDataType(item, Len(item))
        IN /\ sort = "text" => dtype # "TYPE_INVALID"
           /\ dtype # "TYPE_INVALID" => item = DataTypeToProtocolString[dtype]
           /\ \A c \in Codes :
                 /\ ReturnIfServerError(CreateError(c)) = c
                 /\ CreateError(c) = NoError <=> c = "SUCCESS"

-----------------------------------------------------------------------------
(* Paths *)

\* The names with the one that ends here, unless it leads nowhere.
Closed(names, name) ==
    IF name = <<>> \/ name = <<".">> THEN names ELSE Append(names, name)

\* The names of a path, between its separators.
Names(path) ==
    LET read[i \in 0..Len(path)] ==
            IF i = 0 THEN [names |-> <<>>, name |-> <<>>]
            ELSE LET before == read[i - 1]
                 IN IF path[i] = Sep
                    THEN [names |-> Closed(before.names, before.name), name |-> <<>>]
                    ELSE [before EXCEPT !.name = Append(@, path[i])]
        all == read[Len(path)]
    IN Closed(all.names, all.name)

\* The directory and the base name of a path (file_utils.cc:67, 85) make up
\* its names, in order, and joined again (file_utils.cc:42) give the same names,
\* from the root if it did; the names of joined segments are those of the
\* segments.  A name ".." is a name like any other here: nothing resolves it.
PathsSplit ==
    sort = "path" =>
        LET dir  == DirName(item)
            base == BaseName(item)
        IN /\ Sep \notin Range(base)
           /\ Names(item) = Names(dir) \o Names(base)
           /\ IsAbsolutePath(dir) <=> IsAbsolutePath(item)
           /\ Names(JoinPath(<<dir, base>>)) = Names(item)
           /\ \A i \in 0..Len(item) :
                 LET parent == SubSeq(item, 1, i)
                     child  == SubSeq(item, i + 1, Len(item))
                     joined == JoinPath(<<parent, child>>)
                 IN Names(joined) = Names(parent) \o Names(child)

-----------------------------------------------------------------------------
(* Settings *)

\* Where the settings give a key, for a backend or globally.
Given(section, key) ==
    {i \in DOMAIN item : item[i][1] = section /\ item[i][2] = key}

SettingsFor(section) ==
    LET own[i \in 0..Len(item)] ==
            IF i = 0 THEN <<>>
            ELSE IF item[i][1] = section
            THEN Append(own[i - 1], <<item[i][2], item[i][3]>>)
            ELSE own[i - 1]
    IN own[Len(item)]

\* The map the command line builds, with the sections that have a setting.
CommandLine ==
    [section \in {item[i][1] : i \in DOMAIN item} |-> SettingsFor(section)]

\* A backend is created with each key once (backend_model.cc:153), its value
\* the last given for the backend, else the last given globally, and with the
\* default of a key that neither gives (backend_model.cc:183).  What the
\* program looks up itself (backend_config.cc:33) is the first global value,
\* so that the two may differ where a key is given more than once.
SettingsResolved ==
    sort = "settings" =>
        \A name \in {s[1] : s \in Settings} \ {""} :
            LET config == SetBackendConfigDefaults(
                              ResolveBackendConfigs(CommandLine, name))
                keys   == {item[i][2] : i \in {j \in DOMAIN item :
                                                 item[j][1] \in {"", name}}}
            IN /\ DOMAIN config = keys \cup {"default-max-batch-size"}
               /\ \A k \in DOMAIN config :
                     LET own    == Given(name, k)
                         global == Given("", k)
                     IN /\ config[k] = IF own # {} THEN item[Max(own)][3]
                                       ELSE IF global # {} THEN item[Max(global)][3]
                                       ELSE "4"
                        /\ GlobalSetting(CommandLine, k) =
                              IF global # {} THEN item[Min(global)][3] ELSE Missing
=============================================================================
