--------------------------- MODULE MCRuntimeSyncer ---------------------------
(* Small instances of RuntimeSyncer.                                         *)
EXTENDS RuntimeSyncer
=============================================================================
