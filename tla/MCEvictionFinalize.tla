------------------------- MODULE MCEvictionFinalize -------------------------
(***************************************************************************)
(* EvictionFinalize for TLC.                                               *)
(***************************************************************************)
EXTENDS EvictionFinalize
=============================================================================
