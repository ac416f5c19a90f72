------------------------- MODULE MCSandboxOwnership -------------------------
(* Small instances of SandboxOwnership for TLC.                            *)
EXTENDS SandboxOwnership, TLC

CONSTANTS h1, h2, s1, s2, s3, w1, w2

Symmetry == Permutations(Host) \cup Permutations(Sandbox) \cup Permutations(Worker)
=============================================================================
