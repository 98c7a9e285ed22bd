--------------------------- MODULE MCSharedLibrary ---------------------------
(***************************************************************************)
(* Instances of SharedLibrary for TLC.                                     *)
(***************************************************************************)
EXTENDS SharedLibrary

CONSTANTS t1, t2, t3, liba, libb
=============================================================================
