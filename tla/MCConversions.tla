--------------------------- MODULE MCConversions ---------------------------
(***************************************************************************)
(* Arguments for Conversions: integers of eight bits, so that a few        *)
(* dimensions overflow them.                                               *)
(***************************************************************************)
EXTENDS Conversions

ShapeDimensions == {-2, -1, 0, 1, 2, 3, 15, 64}
Batches == -1..2
SomeSizes == 1..3
Characters == {"/", ".", "a"}
CommandLineSettings ==
    {"", "onnx", "torch"}
        \X {"default-max-batch-size", "threads"} \X {"4", "8"}
NameChars == {"I", "U", "F", "B", "1", "6", "8", "L", "x"}
Numbers == {"4", "8"}
=============================================================================
