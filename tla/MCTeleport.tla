----------------------------- MODULE MCTeleport -----------------------------
(* The move of one session, for TLC: the bounds are in the .cfg files.     *)
EXTENDS Teleport
=============================================================================
