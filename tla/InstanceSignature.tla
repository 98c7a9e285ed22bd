-------------------------- MODULE InstanceSignature --------------------------
(***************************************************************************)
(* BackendModelInstance::Signature, which identifies an instance by its    *)
(* device and group configuration and is hashed for unordered containers.  *)
(*                                                                         *)
(* C++ initializes members in the order of their declaration: hash_ comes  *)
(* first and reads device_id_ and group_config_ while these hold whatever  *)
(* the memory held.  That is undefined behaviour; of its outcomes this     *)
(* module has those in which the reads yield some device and some          *)
(* configuration.                                                          *)
(***************************************************************************)
EXTENDS FiniteSets, Integers

CONSTANTS
    Instances, Devices,
    GroupConfigs,   \* instance groups: records of name, count and rest
    None

VARIABLE signatures     \* signatures[i]: the signature of i, None before

vars == signatures

Init == signatures = [i \in Instances |-> None]

-----------------------------------------------------------------------------

\* The text of a configuration with one name and one count for all.
InstanceConfigSignature(config) ==
    [config EXCEPT !.name = "[Normalized]", !.count = 1]

EquivalentInInstanceConfig(lhs, rhs) == lhs.rest = rhs.rest

\* The hash of a text stands for the text: equal texts hash alike.
HashOf(device, config) == <<device, InstanceConfigSignature(config)>>

\* operator== of two signatures.
EqualSignatures(s, t) ==
    /\ s.device = t.device
    /\ EquivalentInInstanceConfig(s.config, t.config)

Construct(i, device, config) ==
    /\ signatures[i] = None
    /\ \E leftDevice \in Devices, leftConfig \in GroupConfigs :
          signatures' = [signatures EXCEPT ![i] =
             [hash |-> HashOf(leftDevice, leftConfig),
              device |-> device, config |-> config]]

Next ==
    \E i \in Instances, device \in Devices, config \in GroupConfigs :
        Construct(i, device, config)

Spec == Init /\ [][Next]_vars

-----------------------------------------------------------------------------

\* Signatures that compare equal have the same hash, which std::hash needs to
\* find an instance again whatever the name and count of its group
\* (Signature::Hash and operator== of backend_model_instance.h).
EqualSignaturesHashAlike ==
    \A i, j \in Instances :
        /\ signatures[i] # None /\ signatures[j] # None
        /\ EqualSignatures(signatures[i], signatures[j])
        => signatures[i].hash = signatures[j].hash

=============================================================================
