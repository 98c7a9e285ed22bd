--------------------------- MODULE BackendConfig ---------------------------
(***************************************************************************)
(* The settings that the command line gives for backends, looked up        *)
(* (core/backend_config.cc) and resolved for one backend                   *)
(* (core/backend_model.cc).                                                *)
(*                                                                         *)
(* A configuration is a sequence of <<key, value>> as the command line     *)
(* gave them, repeated keys included.  A map has the configuration of each *)
(* backend it names, and under "" the global one.                          *)
(***************************************************************************)
EXTENDS Integers, SequencesExt

CONSTANT Numerals   \* the values that std::stod reads as a number

Missing == "(missing)"

\* The first setting of the key.
BackendConfiguration(config, key) ==
    LET at == {i \in DOMAIN config : config[i][1] = key}
    IN IF at = {} THEN Missing ELSE config[Min(at)][2]

Section(map, name) == IF name \in DOMAIN map THEN map[name] ELSE <<>>

GlobalSetting(map, key) == BackendConfiguration(Section(map, ""), key)

\* Of the three settings that every load reads, the last must be a number;
\* any text is a truth value.
GlobalsGiven(map) ==
    /\ GlobalSetting(map, "backend-directory") # Missing
    /\ GlobalSetting(map, "auto-complete-config") # Missing
    /\ GlobalSetting(map, "min-compute-capability") \in Numerals

\* A name stays as it is, but version 1 of TensorFlow is refused.
SpecializeBackendName(map, name) ==
    name = "tensorflow" =>
        BackendConfiguration(Section(map, name), "version") \in {Missing, "2"}

\* The fraction of a device's memory that loads may use, "error" if unknown.
ModelLoadGpuFraction(map, device_key) ==
    LET limit == GlobalSetting(map, device_key)
    IN CASE "" \notin DOMAIN map -> "error"
         [] "" \in DOMAIN map /\ limit = Missing -> "1.0"
         [] OTHER -> IF limit \in Numerals THEN limit ELSE "error"

-----------------------------------------------------------------------------
(* The configuration a backend is created with: a function of its keys *)

Override(config, setting) ==
    [k \in DOMAIN config \cup {setting[1]} |->
        IF k = setting[1] THEN setting[2] ELSE config[k]]

\* Each setting in its turn.
Accumulate(settings) ==
    LET config[i \in 0..Len(settings)] ==
            IF i = 0 THEN [k \in {} |-> ""] ELSE Override(config[i - 1], settings[i])
    IN config[Len(settings)]

\* Mutant: the global settings override those of the backend.
ResolveBackendConfigsSwapped(map, name) ==
    Accumulate(Section(map, name) \o Section(map, ""))

ResolveBackendConfigs(map, name) ==
    Accumulate(Section(map, "") \o Section(map, name))

SetBackendConfigDefaults(config) ==
    IF "default-max-batch-size" \in DOMAIN config THEN config
    ELSE Override(config, <<"default-max-batch-size", "4">>)
=============================================================================
