---------------------------- MODULE ModelConfig ----------------------------
(***************************************************************************)
(* The pure functions over a model's configuration: the sizes and the      *)
(* comparison of shapes, the names of the data types                       *)
(* (core/model_config.cc) and the checks of a configuration                *)
(* (core/model_config_utils.cc).                                           *)
(*                                                                         *)
(* A shape is a sequence of dimensions, a text a sequence of characters,   *)
(* an input or output a record of the fields the checks read.              *)
(***************************************************************************)
EXTENDS Integers, SequencesExt

CONSTANT Width      \* the bits of an int64_t, 64 in the program

ASSUME WidthAssumption == Width \in Nat \ {0}

WILDCARD_DIM == -1

TwoTo[n \in 0..Width] == IF n = 0 THEN 1 ELSE 2 * TwoTo[n - 1]

\* What the hardware leaves of a result in Width bits, in two's complement.
Wrap(n) ==
    LET m == n % TwoTo[Width]
    IN IF m < TwoTo[Width - 1] THEN m ELSE m - TwoTo[Width]

\* The numbers that it leaves as they are.
Fits(n) == -TwoTo[Width - 1] <= n /\ n < TwoTo[Width - 1]

-----------------------------------------------------------------------------
(* Sizes *)

Product(dims) ==
    LET product[i \in 0..Len(dims)] ==
            IF i = 0 THEN 1 ELSE product[i - 1] * dims[i]
    IN product[Len(dims)]

\* The same as the loop computes it.
WrappedProduct(dims) ==
    LET cnt[i \in 0..Len(dims)] ==
            IF i = 0 THEN 1 ELSE Wrap(cnt[i - 1] * dims[i])
    IN cnt[Len(dims)]

\* Mutant: a wildcard is multiplied like any other dimension.
GetElementCountBlind(dims) == IF dims = <<>> THEN 0 ELSE WrappedProduct(dims)

\* The first dimension starts the product, so that no dimension counts zero.
GetElementCount(dims) ==
    IF WILDCARD_DIM \in Range(dims) THEN -1
    ELSE IF dims = <<>> THEN 0
    ELSE WrappedProduct(dims)

GetDataTypeByteSize ==
    [TYPE_INVALID |-> 0, TYPE_BOOL |-> 1, TYPE_STRING |-> 0,
     TYPE_UINT8 |-> 1, TYPE_UINT16 |-> 2, TYPE_UINT32 |-> 4, TYPE_UINT64 |-> 8,
     TYPE_INT8 |-> 1, TYPE_INT16 |-> 2, TYPE_INT32 |-> 4, TYPE_INT64 |-> 8,
     TYPE_FP16 |-> 2, TYPE_FP32 |-> 4, TYPE_FP64 |-> 8, TYPE_BF16 |-> 2]

DataTypes == DOMAIN GetDataTypeByteSize

GetByteSize(dtype, dims) ==
    LET size == GetDataTypeByteSize[dtype]
        cnt  == GetElementCount(dims)
    IN IF size = 0 \/ cnt = -1 THEN -1 ELSE Wrap(cnt * size)

\* A batch of tensors; a shape without dimensions is the batch's own.
GetBatchByteSize(batch_size, dtype, dims) ==
    LET bs == GetByteSize(dtype, dims)
    IN IF dims = <<>> THEN Wrap(batch_size * GetDataTypeByteSize[dtype])
       ELSE IF bs = -1 THEN -1
       ELSE Wrap(IF batch_size > 1 THEN batch_size * bs ELSE bs)

-----------------------------------------------------------------------------
(* Comparison *)

\* Mutant: only the dimensions that both shapes have are compared.
CompareDimsWithWildcardShort(dims0, dims1) ==
    \A i \in DOMAIN dims0 \cap DOMAIN dims1 :
        WILDCARD_DIM \in {dims0[i], dims1[i]} \/ dims0[i] = dims1[i]

CompareDims(dims0, dims1) ==
    /\ Len(dims0) = Len(dims1)
    /\ \A i \in DOMAIN dims0 : dims0[i] = dims1[i]

CompareDimsWithWildcard(dims0, dims1) ==
    /\ Len(dims0) = Len(dims1)
    /\ \A i \in DOMAIN dims0 :
          WILDCARD_DIM \in {dims0[i], dims1[i]} \/ dims0[i] = dims1[i]

-----------------------------------------------------------------------------
(* Names of data types *)

DataTypeToProtocolString ==
    [TYPE_BOOL |-> <<"B", "O", "O", "L">>,
     TYPE_UINT8 |-> <<"U", "I", "N", "T", "8">>,
     TYPE_UINT16 |-> <<"U", "I", "N", "T", "1", "6">>,
     TYPE_UINT32 |-> <<"U", "I", "N", "T", "3", "2">>,
     TYPE_UINT64 |-> <<"U", "I", "N", "T", "6", "4">>,
     TYPE_INT8 |-> <<"I", "N", "T", "8">>,
     TYPE_INT16 |-> <<"I", "N", "T", "1", "6">>,
     TYPE_INT32 |-> <<"I", "N", "T", "3", "2">>,
     TYPE_INT64 |-> <<"I", "N", "T", "6", "4">>,
     TYPE_FP16 |-> <<"F", "P", "1", "6">>,
     TYPE_FP32 |-> <<"F", "P", "3", "2">>,
     TYPE_FP64 |-> <<"F", "P", "6", "4">>,
     TYPE_STRING |-> <<"B", "Y", "T", "E", "S">>,
     TYPE_BF16 |-> <<"B", "F", "1", "6">>]

NamedTypes == DOMAIN DataTypeToProtocolString

\* The lengths that the branch of a type lets through, for a text that is
\* followed by more of the buffer; the types in B are compared to its end.
LengthsOf(dtype) ==
    CASE dtype \in {"TYPE_INT16", "TYPE_INT32", "TYPE_INT64"}    -> {4, 5}
      [] dtype \in {"TYPE_UINT16", "TYPE_UINT32", "TYPE_UINT64"} -> {5, 6}
      [] dtype \in {"TYPE_STRING", "TYPE_BOOL", "TYPE_BF16"}     -> 4..6
      [] OTHER -> {Len(DataTypeToProtocolString[dtype])}

\* Mutant: the tests of the length are left out.
NamesTypePrefix(dtype, text, len) ==
    IsPrefix(DataTypeToProtocolString[dtype], text)

\* text is what the pointer leads to, up to the terminating null.
NamesType(dtype, text, len) ==
    /\ len \in LengthsOf(dtype)
    /\ IF dtype \in {"TYPE_STRING", "TYPE_BOOL", "TYPE_BF16"}
       THEN text = DataTypeToProtocolString[dtype]
       ELSE IsPrefix(DataTypeToProtocolString[dtype], text)

ProtocolStringToDataType(text, len) ==
    IF \E t \in NamedTypes : NamesType(t, text, len)
    THEN CHOOSE t \in NamedTypes : NamesType(t, text, len)
    ELSE "TYPE_INVALID"

-----------------------------------------------------------------------------
(* Checks *)

BackendTypes == {"qnn", "pytorch", "onnxruntime"}

GetBackendType(backend) ==
    IF backend \in BackendTypes THEN backend ELSE "unknown"

GetBackendTypeFromPlatform(platform) ==
    CASE platform = "qualcomm"         -> "qnn"
      [] platform = "pytorch_libtorch" -> "pytorch"
      [] platform = "onnxruntime_onnx" -> "onnxruntime"
      [] OTHER                         -> "unknown"

\* Mutant: the dimensions of an input or output are not looked at.
ValidateIOShapeAnyDims(io) ==
    io.name # "" /\ io.data_type # "TYPE_INVALID" /\ io.dims # <<>>

ValidateIOShape(io) ==
    /\ io.name # ""
    /\ io.data_type # "TYPE_INVALID"
    /\ io.dims # <<>>
    /\ \A i \in DOMAIN io.dims : io.dims[i] >= 1 \/ io.dims[i] = WILDCARD_DIM

ValidateModelInput(io) ==
    /\ ValidateIOShape(io)
    /\ io.format \in {"FORMAT_NHWC", "FORMAT_NCHW"} => Len(io.dims) = 3

ValidateModelOutput(io) == ValidateIOShape(io)

ValidateModelIOConfig(config) ==
    /\ \A i \in DOMAIN config.input : ValidateModelInput(config.input[i])
    /\ \A i \in DOMAIN config.output : ValidateModelOutput(config.output[i])

ValidateModelConfig(config) ==
    /\ config.name # ""
    /\ config.platform # "" \/ config.backend # ""
    /\ GetBackendType(config.backend) \in
          {"unknown", GetBackendTypeFromPlatform(config.platform)}
=============================================================================
