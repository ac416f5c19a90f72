---------------------------- MODULE MCSessionOps ----------------------------
(* Small instances of SessionOps for TLC.                                  *)
EXTENDS SessionOps

CONSTANTS p1, s1, k1, deliver, boot

\* Prompts are enqueued unkeyed, boots under a key.
EnqueueVerbs == {<<deliver, NoKey>>, <<boot, k1>>}
=============================================================================
