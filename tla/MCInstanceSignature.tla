------------------------- MODULE MCInstanceSignature -------------------------
(* Two instances, and groups that differ in name, count or anything else. *)
EXTENDS InstanceSignature

MCGroupConfigs ==
    [name : {"a", "b"}, count : {1, 2}, rest : {"cpu", "gpu"}]
=============================================================================
