SPECIFICATION FairSpec
CONSTANTS
    c1 = c1
    m1 = m1
    r1 = r1
    r2 = r2
    NoReplica = NoReplica
    Chunk = {c1}
    Manifest = {m1}
    Replica = {r1, r2}
    ChunksOf <- MCChunksOf
    ShardOf <- MCShardOf
    Queries <- MCQueries
    ShardCount = 3
    PerTick = 1
    MaxRounds = 2
    BatchSize = 1
    MaxPins = 2
    MaxFaults = 1
INVARIANT TypeOK
PROPERTIES
    KeptSinceCollect
    CursorNeverSkips
    GarbageCollected
