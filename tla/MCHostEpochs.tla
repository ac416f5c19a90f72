---------------------------- MODULE MCHostEpochs ----------------------------
(* Small instances of HostEpochs for TLC.                                  *)
EXTENDS HostEpochs, TLC

CONSTANTS c1, c2, c3

CallSymmetry == Permutations(Call)
=============================================================================
