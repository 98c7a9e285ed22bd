-------------------------- MODULE MCBackendManager --------------------------
(***************************************************************************)
(* Instances of BackendManager for TLC.                                    *)
(***************************************************************************)
EXTENDS BackendManagerRefines, TLC

CONSTANTS t1, t2, t3, m1, m2, b1, b2, b3, onnx, torch, liba, libb

\* Every library is asked for under one name only.
OneName == {[name |-> onnx, lib |-> liba], [name |-> torch, lib |-> libb]}

\* The model repository asks for one library under two names as well.
TwoNames == OneName \cup {[name |-> torch, lib |-> liba]}

TwoNamesOneLib == {[name |-> onnx, lib |-> liba], [name |-> torch, lib |-> liba]}

Symmetry == Permutations(Threads) \cup Permutations(Backends)
               \cup Permutations(Managers)
=============================================================================
