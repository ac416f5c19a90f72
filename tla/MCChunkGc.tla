----------------------------- MODULE MCChunkGc -----------------------------
(* A small instance of ChunkGc: one chunk, in the middle one of three shards, *)
(* and one manifest that names it, recorded twice, by either of two sources.  *)
EXTENDS ChunkGc, TLC

CONSTANTS c1, m1, r1, r2

MCChunksOf == m1 :> {c1}
MCShardOf == c1 :> 1
MCQueries == <<"snapshot", "cold">>
=============================================================================
