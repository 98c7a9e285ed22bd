---------------------------- MODULE MCModelLoad ----------------------------
(***************************************************************************)
(* Two slots, two backend names and one library that both can serve.       *)
(***************************************************************************)
EXTENDS ModelLoad

CONSTANTS s1, s2

Input(name, dims, optional) ==
    [name |-> name, data_type |-> "TYPE_FP32", format |-> "FORMAT_NONE",
     dims |-> dims, optional |-> optional]

Config(name, platform, backend_name, runtime, inputs, provided) ==
    [name |-> name, platform |-> platform, backend |-> backend_name,
     runtime |-> runtime, input |-> inputs, output |-> <<>>,
     is_config_provided |-> provided]

Own == <<"own.so">>
X == Input("x", <<-1, 2>>, FALSE)

\* Good ones, one of which gives a name twice and one a shape of more elements
\* than 16 bits count, and one for each step that refuses a configuration.
SomeLoads == {
    Config("m", "onnxruntime_onnx", "onnxruntime", <<>>, <<X>>, TRUE),
    Config("m", "onnxruntime_onnx", "onnxruntime", Own,
           <<X, Input("x", <<2>>, FALSE)>>, TRUE),
    Config("m", "", "tensorflow", Own, <<X, Input("y", <<256, 256>>, TRUE)>>, TRUE),
    Config("m", "", "", Own, <<X>>, TRUE),
    Config("m", "", "tensorflow", Own, <<Input("x", <<2, 0>>, FALSE)>>, TRUE),
    Config("m", "onnxruntime_onnx", "onnxruntime", <<>>, <<X>>, FALSE)}

AtModel(s) == << <<"model", s>>, Own>>
AtVersion(s) == << <<"version", s>>, Own>>
AtBackend == << <<"backend", "onnxruntime">>, <<RuntimePrefix, "onnxruntime">> >>

AllLibs == {AtModel(s1), AtVersion(s1), AtBackend}
SomeFiles == {AllLibs, {AtBackend}}

Globals(mcc) ==
    << <<"backend-directory", "dir">>, <<"auto-complete-config", "true">>,
       <<"min-compute-capability", mcc>>, <<"threads", "4">> >>

Map(mcc, version) ==
    [n \in {"", "tensorflow"} |->
        IF n = "" THEN Globals(mcc)
        ELSE << <<"threads", "8">>, <<"version", version>> >>]

\* Good for both names, good for the one and refused for the other, and refused.
SomeCommandLines == {Map("6.0", "2"), Map("8", "1"), Map("none", "2")}
SomeNumerals == {"6.0", "4", "8", "2", "1"}
SomeSlots == {s1, s2}
=============================================================================
