---------------------------- MODULE ChunkGcProofs ----------------------------
(***************************************************************************)
(* Proofs about ChunkGc for any chunks, manifests, replicas, shards, batch *)
(* sizes, rounds and faults.                                               *)
(***************************************************************************)
EXTENDS ChunkGc, SequenceTheorems, TLAPS

SweepType ==
    [at : Steps, pass : {"promote", "drain"}, start : Shard,
     i : 0 .. PerTick, q : 1 .. Len(Queries), refs : SUBSET Manifest,
     fetched : SUBSET Manifest, chunks : SUBSET Chunk, rounds : 0 .. MaxRounds,
     gen : Nat, cut : SUBSET Chunk, batch : SUBSET Chunk, short : {"no", "yes"},
     done : SUBSET Chunk, next : Shard]

(* The counters of a sweep are within the tick, and a collection begins    *)
(* with nothing read.                                                      *)
CountersOK(w) ==
    /\ w.rounds < MaxRounds
    /\ w.i < PerTick
    /\ w.at # "read" => w.refs = {} /\ w.fetched = {} /\ w.q = 1

(* A batch is of this tick's shards, also while it is collected for again. *)
BatchOK(w) ==
    w.at \in {"read", "gen", "check", "delete"} =>
        \A c \in w.batch : ShardOf[c] \in TickShards(w.start)

(* The chunks of a manifest that this tick's pin set has to hold.          *)
Held(m, w) == \A c \in ChunksOf[m] : ShardOf[c] \in TickShards(w.start) => c \in w.chunks

(* Of the rows S that have been listed since the collection began: a round *)
(* has the refs of those whose source it has queried, the pin set has the  *)
(* chunks of every manifest fetched, and once the collection has ended it  *)
(* has the chunks of every row.                                            *)
CollectOK(w, S) ==
    /\ w.at = "read" =>
          /\ \A m \in w.fetched : Held(m, w)
          /\ \A row \in S : \A j \in 1 .. (w.q - 1) : row[2] = Queries[j] => row[1] \in w.refs
    /\ w.at \in {"gen", "list", "check", "delete"} => \A row \in S : Held(row[1], w)

Good(w, S) == w \in SweepType /\ CountersOK(w) /\ BatchOK(w) /\ CollectOK(w, S)

SweepsOK == sweep \in [Replica -> SweepType] /\ \A r \in Replica : Good(sweep[r], since[r])

(* What is listed since the collection began is listed.                    *)
SinceOK ==
    /\ since \in [Replica -> SUBSET (Manifest \X Source)]
    /\ \A r \in Replica : \A row \in since[r] : row[1] \in pins[row[2]]

(* The holder of the lease sweeps from the cursor on.                      *)
LeaseOK ==
    /\ lease \in [by : Replica \cup {NoReplica}, stale : {"no", "yes"}, next : Shard]
    /\ \A r \in Replica :
          lease.by = r /\ sweep[r].at # "idle" => sweep[r].start = lease.next

(* The store, the candidates, the pins and the counters have their types.  *)
DataOK ==
    /\ store \subseteq Chunk
    /\ cand \in [Chunk -> {"none", "young", "expired"}]
    /\ pins \in [Source -> SUBSET Manifest]
    /\ put \subseteq Manifest
    /\ gen \in Nat
    /\ pinned \in 0 .. MaxPins
    /\ faults \in 0 .. MaxFaults

IInv == DataOK /\ SweepsOK /\ SinceOK /\ LeaseOK

-----------------------------------------------------------------------------
(* Constants and shards                                                    *)

LEMMA Constants ==
    /\ Len(Queries) \in Nat \ {0}
    /\ \A j \in 1 .. Len(Queries) : Queries[j] \in Source
    /\ \A s \in Source : \E j \in 1 .. Len(Queries) : Queries[j] = s
    /\ "snapshot" \in Source
    /\ ShardCount \in Nat \ {0} /\ PerTick \in Nat \ {0} /\ MaxRounds \in Nat \ {0}
    /\ 0 \in Shard
<1>1. Len(Queries) \in Nat
  BY GcConstants, LenProperties
<1>2. \E j \in 1 .. Len(Queries) : Queries[j] = "snapshot"
  BY GcConstants
<1>3. Len(Queries) # 0
  BY <1>1, <1>2
<1> QED
  BY <1>1, <1>2, <1>3, GcConstants DEF Source, Shard

LEMMA ShardTypes ==
    ASSUME NEW b \in Shard, NEW i \in Nat
    PROVE  /\ ShardAt(b, i) \in Shard
           /\ i < PerTick => ShardAt(b, i) \in TickShards(b)
<1>1. (b + i) \in Nat /\ ShardCount \in Nat \ {0} /\ PerTick \in Nat
  BY Constants DEF Shard
<1>2. (b + i) % ShardCount \in 0 .. ShardCount - 1
  BY <1>1
<1>3. i < PerTick => i \in 0 .. PerTick - 1
  BY <1>1
<1> QED
  BY <1>2, <1>3 DEF ShardAt, Shard, TickShards

-----------------------------------------------------------------------------
(* One sweep: every way it can change keeps it good                        *)

LEMMA AsleepGood == \A S : Good(Asleep, S)
BY Constants DEF Good, Asleep, SweepType, Steps, CountersOK, BatchOK, CollectOK

LEMMA ClaimGood ==
    ASSUME NEW b \in Shard, NEW S
    PROVE  Good([Asleep EXCEPT !.at = "mark", !.start = b, !.next = b], S)
<1> DEFINE v == [Asleep EXCEPT !.at = "mark", !.start = b, !.next = b]
<1>1. v \in SweepType
  BY AsleepGood DEF Good, SweepType, Steps
<1>2. v.at = "mark" /\ v.rounds = 0 /\ v.i = 0 /\ v.refs = {} /\ v.fetched = {} /\ v.q = 1
  BY DEF Asleep
<1> HIDE DEF v
<1>3. Good(v, S)
  BY <1>1, <1>2, Constants DEF Good, CountersOK, BatchOK, CollectOK
<1> QED
  BY <1>3 DEF v

(* A row that leaves the lists makes no sweep worse.                       *)
LEMMA FewerRows ==
    ASSUME NEW w, NEW S, NEW T \in SUBSET S, Good(w, S)
    PROVE  Good(w, T)
BY DEF Good, CollectOK

LEMMA MarkGood ==
    ASSUME NEW w, NEW S, Good(w, S), w.at = "mark", NEW C \in SUBSET Chunk
    PROVE  Good([w EXCEPT !.at = "walk", !.chunks = C], S)
BY DEF Good, SweepType, Steps, CountersOK, BatchOK, CollectOK

LEMMA ListShardGood ==
    ASSUME NEW w, NEW S, Good(w, S), w.at = "walk", NEW B \in SUBSET Chunk
    PROVE  Good([w EXCEPT !.at = "upsert", !.batch = B], S)
BY DEF Good, SweepType, Steps, CountersOK, BatchOK, CollectOK

LEMMA WalkedType ==
    ASSUME NEW w \in SweepType, CountersOK(w), w.at # "read"
    PROVE  /\ WalkedOne(w) \in SweepType
           /\ WalkedOne(w).rounds < MaxRounds
           /\ WalkedOne(w).refs = {} /\ WalkedOne(w).fetched = {} /\ WalkedOne(w).q = 1
           /\ WalkedOne(w).start = w.start /\ WalkedOne(w).at = "walk"
<1>1. w.i + 1 \in 0 .. PerTick /\ w.i + 1 \in Nat /\ w.start \in Shard
  BY Constants DEF SweepType, CountersOK
<1>2. ShardAt(w.start, w.i + 1) \in Shard
  BY <1>1, ShardTypes
<1> QED
  BY <1>1, <1>2 DEF WalkedOne, SweepType, Steps, CountersOK

LEMMA WalkedGood ==
    ASSUME NEW w, NEW S, Good(w, S), w.at # "read", WalkedOne(w).i < PerTick
    PROVE  Good(WalkedOne(w), S)
BY WalkedType DEF Good, CountersOK, BatchOK, CollectOK

(* A collection that begins has to have nothing yet.                       *)
LEMMA PromoteGood ==
    ASSUME NEW w \in SweepType, NEW S, NEW C \in SUBSET Chunk,
           w.rounds < MaxRounds, w.refs = {}, w.fetched = {}, w.q = 1
    PROVE  Good([Collecting(w, "promote") EXCEPT !.i = 0, !.batch = {}, !.cut = C], S)
<1> DEFINE v == [Collecting(w, "promote") EXCEPT !.i = 0, !.batch = {}, !.cut = C]
<1>0. 0 \in 0 .. PerTick
  BY Constants
<1>1. v \in SweepType
  BY <1>0 DEF Collecting, SweepType, Steps
<1>2. /\ v.at = "read" /\ v.rounds = w.rounds /\ v.i = 0 /\ v.fetched = {}
      /\ v.q = 1 /\ v.batch = {}
  BY DEF Collecting, SweepType
<1> HIDE DEF v
<1>3. Good(v, S)
  BY <1>1, <1>2, Constants DEF Good, CountersOK, BatchOK, CollectOK
<1> QED
  BY <1>3 DEF v

LEMMA RecollectGood ==
    ASSUME NEW w, NEW S, NEW T, Good(w, S), w.at = "check"
    PROVE  Good(Collecting(w, "drain"), T)
<1> DEFINE v == Collecting(w, "drain")
<1>1. v \in SweepType
  BY DEF Good, Collecting, SweepType, Steps
<1>2. /\ v.at = "read" /\ v.rounds = w.rounds /\ v.i = w.i /\ v.fetched = w.fetched
      /\ v.q = w.q /\ v.batch = w.batch /\ v.start = w.start
  BY DEF Collecting, Good, SweepType
<1>3. w.fetched = {} /\ w.q = 1 /\ w.rounds < MaxRounds /\ w.i < PerTick
  BY DEF Good, CountersOK
<1> HIDE DEF v
<1>4. Good(v, T)
  BY <1>1, <1>2, <1>3 DEF Good, CountersOK, BatchOK, CollectOK
<1> QED
  BY <1>4 DEF v

LEMMA GenGood ==
    ASSUME NEW w, NEW S, Good(w, S), w.at = "gen", NEW g \in Nat
    PROVE  Good([w EXCEPT !.gen = g, !.at = IF w.pass = "promote" THEN "list" ELSE "delete"], S)
BY DEF Good, SweepType, Steps, CountersOK, BatchOK, CollectOK, Held

LEMMA CheckedGood ==
    ASSUME NEW w, NEW S, Good(w, S), w.at = "check"
    PROVE  Good([w EXCEPT !.at = "delete"], S)
BY DEF Good, SweepType, Steps, CountersOK, BatchOK, CollectOK, Held

LEMMA OverGood ==
    ASSUME NEW w \in SweepType, NEW S
    PROVE  Good(Over(w), S)
<1>1. Over(w) \in SweepType
  BY AsleepGood DEF Over, Good, SweepType, Steps
<1>2. /\ Over(w).at = "release" /\ Over(w).rounds = 0 /\ Over(w).i = 0
      /\ Over(w).refs = {} /\ Over(w).fetched = {} /\ Over(w).q = 1
  BY DEF Over, Asleep
<1> QED
  BY <1>1, <1>2, Constants DEF Good, CountersOK, BatchOK, CollectOK

LEMMA NextShardGood ==
    ASSUME NEW w, NEW S, Good(w, S), w.at \in {"list", "delete"}
    PROVE  Good(NextShard(w), S)
<1>1. CASE w.i + 1 < PerTick
  <2> DEFINE v == [w EXCEPT !.at = "list", !.i = w.i + 1]
  <2>1. w.i + 1 \in 0 .. PerTick
    BY <1>1, Constants DEF Good, SweepType
  <2>2. v \in SweepType
    BY <2>1 DEF Good, SweepType, Steps
  <2>3. /\ v.at = "list" /\ v.i = w.i + 1 /\ v.rounds = w.rounds /\ v.refs = w.refs
        /\ v.fetched = w.fetched /\ v.q = w.q /\ v.start = w.start /\ v.chunks = w.chunks
    BY DEF Good, SweepType
  <2> HIDE DEF v
  <2>4. Good(v, S)
    BY <1>1, <2>2, <2>3 DEF Good, CountersOK, BatchOK, CollectOK, Held
  <2> QED
    BY <1>1, <2>4 DEF NextShard, v
<1>2. CASE ~(w.i + 1 < PerTick)
  BY <1>2, OverGood DEF NextShard, Good
<1> QED
  BY <1>1, <1>2

LEMMA ListedGood ==
    ASSUME NEW w, NEW S, Good(w, S), w.at = "list", NEW B \in SUBSET Expired(w),
           NEW x \in {"no", "yes"}
    PROVE  Good([w EXCEPT !.at = "check", !.batch = B, !.short = x], S)
<1>1. w.start \in Shard /\ w.i \in Nat /\ w.i < PerTick /\ w.cut \in SUBSET Chunk
  BY DEF Good, SweepType, CountersOK
<1>2. \A c \in B : c \in Chunk /\ ShardOf[c] \in TickShards(w.start)
  BY <1>1, ShardTypes DEF Expired
<1>3. [w EXCEPT !.at = "check", !.batch = B, !.short = x] \in SweepType
  BY <1>2 DEF Good, SweepType, Steps
<1> QED
  BY <1>2, <1>3 DEF Good, SweepType, CountersOK, BatchOK, CollectOK, Held

LEMMA DeletingGood ==
    ASSUME NEW w, NEW S, Good(w, S), w.at = "delete", NEW D \in SUBSET Chunk,
           NEW B \in SUBSET w.batch
    PROVE  Good([w EXCEPT !.done = D], S) /\ Good([w EXCEPT !.batch = B], S)
BY DEF Good, SweepType, CountersOK, BatchOK, CollectOK, Held

LEMMA ClearedGood ==
    ASSUME NEW w, NEW S, Good(w, S), w.at = "delete"
    PROVE  LET v == [w EXCEPT !.pass = "promote", !.cut = @ \ w.batch, !.batch = {},
                              !.done = {}, !.short = "no"]
           IN  Good(v, S) /\ v.at = "delete" /\ Good([v EXCEPT !.at = "list"], S)
BY DEF Good, SweepType, Steps, CountersOK, BatchOK, CollectOK, Held

LEMMA OtherCutGood ==
    ASSUME NEW w, NEW S, Good(w, S), NEW C \in SUBSET Chunk
    PROVE  Good([w EXCEPT !.cut = C], S)
BY DEF Good, SweepType, CountersOK, BatchOK, CollectOK, Held

(* A query adds the refs of its source.                                    *)
LEMMA QueryGood ==
    ASSUME NEW w, NEW S \in SUBSET (Manifest \X Source), Good(w, S), w.at = "read",
           NEW P \in SUBSET Manifest,
           \A row \in S : row[2] = Queries[w.q] => row[1] \in P,
           w.q < Len(Queries)
    PROVE  Good([w EXCEPT !.refs = w.refs \cup P, !.q = w.q + 1], S)
<1> DEFINE v == [w EXCEPT !.refs = w.refs \cup P, !.q = w.q + 1]
<1>0. w.q + 1 \in 1 .. Len(Queries) /\ w.refs \cup P \in SUBSET Manifest /\ w.q \in Nat
  BY Constants DEF Good, SweepType
<1>1. v \in SweepType
  BY <1>0 DEF Good, SweepType
<1>2. /\ v.at = "read" /\ v.rounds = w.rounds /\ v.i = w.i /\ v.fetched = w.fetched
      /\ v.q = w.q + 1 /\ v.batch = w.batch /\ v.start = w.start /\ v.chunks = w.chunks
      /\ v.refs = w.refs \cup P
  BY DEF Good, SweepType
<1> HIDE DEF v
<1>3. ASSUME NEW row \in S, NEW j \in 1 .. (v.q - 1), row[2] = Queries[j]
      PROVE  row[1] \in v.refs
  <2>1. j = w.q \/ j \in 1 .. (w.q - 1)
    BY <1>0, <1>2
  <2> QED
    BY <1>2, <1>3, <2>1 DEF Good, CollectOK
<1>4. Good(v, S)
  BY <1>1, <1>2, <1>3 DEF Good, CountersOK, BatchOK, CollectOK, Held
<1> QED
  BY <1>4 DEF v

(* The last query of a round ends it: whether the set converged, is used   *)
(* as it is or is read again, it holds what was fetched, and that is what  *)
(* the round has read.                                                     *)
LEMMA ConvergeGood ==
    ASSUME NEW w, NEW S \in SUBSET (Manifest \X Source), Good(w, S), w.at = "read",
           NEW P \in SUBSET Manifest,
           \A row \in S : row[2] = Queries[w.q] => row[1] \in P,
           ~(w.q < Len(Queries))
    PROVE  Good(Converge(w.refs \cup P, w), S)
<1> DEFINE refs == w.refs \cup P
           new == refs \ w.fetched
           v == [w EXCEPT !.chunks = w.chunks \cup Fetched(new, w),
                          !.fetched = w.fetched \cup new,
                          !.rounds = w.rounds + 1, !.refs = {}, !.q = 1]
           u == [v EXCEPT !.at = "gen", !.fetched = {}, !.rounds = 0]
<1>1. /\ new \in SUBSET Manifest /\ Fetched(new, w) \in SUBSET Chunk
      /\ w.chunks \cup Fetched(new, w) \in SUBSET Chunk
      /\ w.fetched \cup new \in SUBSET Manifest
      /\ w.rounds + 1 \in 0 .. MaxRounds /\ 1 \in 1 .. Len(Queries) /\ 0 \in 0 .. MaxRounds
  BY Constants DEF Good, SweepType, CountersOK, Fetched
<1>2. v \in SweepType
  BY <1>1 DEF Good, SweepType
<1>3. /\ v.at = "read" /\ v.rounds = w.rounds + 1 /\ v.i = w.i
      /\ v.fetched = w.fetched \cup new /\ v.refs = {} /\ v.q = 1
      /\ v.batch = w.batch /\ v.start = w.start
      /\ v.chunks = w.chunks \cup Fetched(new, w)
  BY DEF Good, SweepType
<1>4. u \in SweepType
  BY <1>1, <1>2 DEF SweepType, Steps
<1>5. /\ u.at = "gen" /\ u.rounds = 0 /\ u.i = v.i /\ u.fetched = {} /\ u.refs = v.refs
      /\ u.q = v.q /\ u.batch = v.batch /\ u.start = v.start /\ u.chunks = v.chunks
  BY <1>2 DEF SweepType
<1>6. \A row \in S : row[1] \in refs /\ row[1] \in Manifest
  <2> SUFFICES ASSUME NEW row \in S PROVE row[1] \in refs /\ row[1] \in Manifest
    OBVIOUS
  <2>1. row[1] \in Manifest /\ row[2] \in Source
    OBVIOUS
  <2>2. PICK j \in 1 .. Len(Queries) : Queries[j] = row[2]
    BY <2>1, Constants
  <2>3. w.q \in 1 .. Len(Queries)
    BY DEF Good, SweepType
  <2>4. j = w.q \/ j \in 1 .. (w.q - 1)
    BY <2>3, Constants
  <2> QED
    BY <2>1, <2>2, <2>4 DEF Good, CollectOK
<1>7. Converge(refs, w) = IF new = {} \/ v.rounds >= MaxRounds THEN u ELSE v
  BY DEF Converge
<1> HIDE DEF refs, u, v
<1>8. ASSUME NEW m \in w.fetched \cup new PROVE Held(m, v)
  <2>1. CASE m \in w.fetched
    BY <2>1, <1>3 DEF Good, CollectOK, Held
  <2>2. CASE m \in new
    <3>1. ChunksOf[m] \in SUBSET Chunk
      BY <2>2, <1>1, GcConstants
    <3> QED
      BY <2>2, <3>1, <1>3 DEF Held, Fetched
  <2> QED
    BY <2>1, <2>2
<1>9. \A row \in S : Held(row[1], v)
  BY <1>6, <1>8
<1>10. \A row \in S : Held(row[1], u)
  BY <1>9, <1>5 DEF Held
<1>11. Good(u, S)
  BY <1>3, <1>4, <1>5, <1>10, Constants DEF Good, CountersOK, BatchOK, CollectOK
<1>12. ~(v.rounds >= MaxRounds) => Good(v, S)
  <2> SUFFICES ASSUME ~(v.rounds >= MaxRounds) PROVE Good(v, S)
    OBVIOUS
  <2>1. v.rounds < MaxRounds
    BY <1>1, <1>3, Constants
  <2>2. CountersOK(v) /\ BatchOK(v)
    BY <1>3, <2>1 DEF Good, CountersOK, BatchOK
  <2>3. CollectOK(v, S)
    BY <1>3, <1>8 DEF CollectOK
  <2> QED
    BY <1>2, <2>2, <2>3 DEF Good
<1> QED
  BY <1>7, <1>11, <1>12 DEF refs

-----------------------------------------------------------------------------
(* Initial states and steps                                                *)

LEMMA InitIInv == Init => IInv
<1> SUFFICES ASSUME Init PROVE IInv
  OBVIOUS
<1>1. DataOK
  BY Constants, GcConstants DEF Init, DataOK
<1>2. SweepsOK
  BY AsleepGood DEF Init, SweepsOK, Good
<1>3. SinceOK
  BY DEF Init, SinceOK
<1>4. LeaseOK
  BY Constants, GcConstants DEF Init, LeaseOK, Asleep
<1> QED
  BY <1>1, <1>2, <1>3, <1>4 DEF IInv

(* One replica's sweep changes, with the rows it has to keep.              *)
LEMMA OneSweep ==
    ASSUME SweepsOK, since \in [Replica -> SUBSET (Manifest \X Source)], NEW r \in Replica,
           NEW x, NEW S \in SUBSET (Manifest \X Source), Good(x, S),
           sweep' = [sweep EXCEPT ![r] = x],
           since' = [since EXCEPT ![r] = S]
    PROVE  SweepsOK'
BY DEF SweepsOK, Good

LEMMA OneSweepSame ==
    ASSUME SweepsOK, NEW r \in Replica, NEW x, Good(x, since[r]),
           sweep' = [sweep EXCEPT ![r] = x], UNCHANGED since
    PROVE  SweepsOK'
BY DEF SweepsOK, Good

(* The rows listed now.                                                    *)
LEMMA RowsListed ==
    ASSUME DataOK
    PROVE  /\ Rows \in SUBSET (Manifest \X Source)
           /\ \A row \in Rows : row[1] \in pins[row[2]]
BY DEF DataOK, Rows

LEMMA RecordSince ==
    ASSUME DataOK, SinceOK, NEW m \in Manifest, NEW s \in Source, Record(m, s)
    PROVE  SinceOK'
<1>1. /\ since' \in [Replica -> SUBSET (Manifest \X Source)]
      /\ \A r \in Replica : since'[r] = since[r] \ {<<n, s>> : n \in pins[s] \ Listed(m, s)}
      /\ pins' = [pins EXCEPT ![s] = Listed(m, s)]
  BY DEF Record, SinceOK
<1>2. ASSUME NEW r \in Replica, NEW row \in since'[r]
      PROVE  row[1] \in pins'[row[2]]
  <2>1. row \in since[r] /\ row \in Manifest \X Source /\ row[1] \in pins[row[2]]
        /\ row \notin {<<n, s>> : n \in pins[s] \ Listed(m, s)}
    BY <1>1, <1>2 DEF SinceOK
  <2>2. row = <<row[1], row[2]>>
    BY <2>1
  <2>3. CASE row[2] = s
    BY <1>1, <2>1, <2>2, <2>3 DEF DataOK
  <2>4. CASE row[2] # s
    BY <1>1, <2>1, <2>4 DEF DataOK
  <2> QED
    BY <2>3, <2>4
<1> QED
  BY <1>1, <1>2 DEF SinceOK

LEMMA PromoteBegins ==
    ASSUME DataOK, SweepsOK, SinceOK, NEW r \in Replica, NEW w \in SweepType,
           w.rounds < MaxRounds, w.refs = {}, w.fetched = {}, w.q = 1, BeginPromote(r, w)
    PROVE  SweepsOK'
<1> DEFINE C == {c \in Chunk : cand[c] = "expired"}
           x == [Collecting(w, "promote") EXCEPT !.i = 0, !.batch = {}, !.cut = C]
<1>1. Good(x, Rows)
  BY PromoteGood
<1>2. sweep' = [sweep EXCEPT ![r] = x] /\ since' = [since EXCEPT ![r] = Rows]
  BY DEF BeginPromote
<1> HIDE DEF x
<1> QED
  BY <1>1, <1>2, RowsListed, OneSweep DEF SinceOK

LEMMA DataStep == DataOK /\ [Next]_vars => DataOK'
<1> SUFFICES ASSUME DataOK, [Next]_vars PROVE DataOK'
  OBVIOUS
<1>1. ASSUME NEW m \in Manifest, PutChunks(m) PROVE DataOK'
  BY <1>1, GcConstants DEF PutChunks, DataOK
<1>2. ASSUME NEW m \in Manifest, NEW s \in Source, Publish(m, s) PROVE DataOK'
  BY <1>2, Constants, GcConstants DEF Publish, Record, Listed, DataOK
<1>3. ASSUME NEW m \in Manifest, NEW s \in Source, Repin(m, s) PROVE DataOK'
  BY <1>3, Constants, GcConstants DEF Repin, Record, Listed, DataOK
<1>4. ASSUME NEW m \in Manifest, Retire(m) PROVE DataOK'
  BY <1>4, Constants DEF Retire, DataOK
<1>5. ASSUME NEW m \in Manifest, Abandon(m) PROVE DataOK'
  BY <1>5 DEF Abandon, DataOK
<1>6. ASSUME NEW c \in Chunk, Expire(c) PROVE DataOK'
  BY <1>6 DEF Expire, DataOK
<1>7. CASE LeaseAges
  BY <1>7, GcConstants DEF LeaseAges, DataOK
<1>8. ASSUME NEW r \in Replica, Claim(r) PROVE DataOK'
  BY <1>8 DEF Claim, DataOK
<1>9. ASSUME NEW r \in Replica, MarkCollect(r) PROVE DataOK'
  BY <1>9 DEF MarkCollect, DataOK
<1>10. ASSUME NEW r \in Replica, ReadRefs(r) PROVE DataOK'
  BY <1>10 DEF ReadRefs, DataOK
<1>11. ASSUME NEW r \in Replica, ListShard(r) PROVE DataOK'
  BY <1>11 DEF ListShard, DataOK
<1>12. ASSUME NEW r \in Replica, Upsert(r) PROVE DataOK'
  BY <1>12 DEF Upsert, DataOK
<1>13. ASSUME NEW r \in Replica, ReadGeneration(r) PROVE DataOK'
  BY <1>13 DEF ReadGeneration, DataOK
<1>14. ASSUME NEW r \in Replica, ListExpired(r) PROVE DataOK'
  BY <1>14 DEF ListExpired, DataOK
<1>15. ASSUME NEW r \in Replica, CheckGeneration(r) PROVE DataOK'
  BY <1>15 DEF CheckGeneration, DataOK
<1>16. ASSUME NEW r \in Replica, ClearRows(r) PROVE DataOK'
  BY <1>16 DEF ClearRows, DataOK
<1>17. ASSUME NEW r \in Replica, Release(r) PROVE DataOK'
  BY <1>17 DEF Release, DataOK
<1>18. ASSUME NEW r \in Replica, NEW c \in Chunk, DeleteOne(r, c) PROVE DataOK'
  BY <1>18 DEF DeleteOne, DataOK
<1>19. ASSUME NEW r \in Replica, NEW c \in Chunk, DeleteFails(r, c) PROVE DataOK'
  BY <1>19, GcConstants, SMTT(30) DEF DeleteFails, DataOK
<1>20. ASSUME NEW r \in Replica, CallFails(r) PROVE DataOK'
  BY <1>20, GcConstants DEF CallFails, DataOK
<1>21. ASSUME NEW r \in Replica, BudgetSpent(r) PROVE DataOK'
  BY <1>21, GcConstants DEF BudgetSpent, DataOK
<1>22. ASSUME NEW r \in Replica, Crash(r) PROVE DataOK'
  BY <1>22, GcConstants DEF Crash, DataOK
<1>23. CASE UNCHANGED vars
  BY <1>23 DEF vars, DataOK
<1> QED
  BY <1>1, <1>2, <1>3, <1>4, <1>5, <1>6, <1>7, <1>8, <1>9, <1>10, <1>11,
     <1>12, <1>13, <1>14, <1>15, <1>16, <1>17, <1>18, <1>19, <1>20, <1>21,
     <1>22, <1>23
     DEF Next, SweepStep

LEMMA SinceStep == DataOK /\ SinceOK /\ [Next]_vars => SinceOK'
<1> SUFFICES ASSUME DataOK, SinceOK, [Next]_vars PROVE SinceOK'
  OBVIOUS
<1>1. ASSUME NEW m \in Manifest, PutChunks(m) PROVE SinceOK'
  BY <1>1 DEF PutChunks, SinceOK
<1>2. ASSUME NEW m \in Manifest, NEW s \in Source, Publish(m, s) PROVE SinceOK'
  BY <1>2, RecordSince DEF Publish
<1>3. ASSUME NEW m \in Manifest, NEW s \in Source, Repin(m, s) PROVE SinceOK'
  BY <1>3, RecordSince DEF Repin
<1>4. ASSUME NEW m \in Manifest, Retire(m) PROVE SinceOK'
  BY <1>4 DEF Retire, DataOK, SinceOK
<1>5. ASSUME NEW m \in Manifest, Abandon(m) PROVE SinceOK'
  BY <1>5 DEF Abandon, SinceOK
<1>6. ASSUME NEW c \in Chunk, Expire(c) PROVE SinceOK'
  BY <1>6 DEF Expire, SinceOK
<1>7. CASE LeaseAges
  BY <1>7 DEF LeaseAges, SinceOK
<1>8. ASSUME NEW r \in Replica, Claim(r) PROVE SinceOK'
  BY <1>8 DEF Claim, SinceOK
<1>9. ASSUME NEW r \in Replica, MarkCollect(r) PROVE SinceOK'
  BY <1>9 DEF MarkCollect, SinceOK
<1>10. ASSUME NEW r \in Replica, ReadRefs(r) PROVE SinceOK'
  BY <1>10 DEF ReadRefs, SinceOK
<1>11. ASSUME NEW r \in Replica, ListShard(r) PROVE SinceOK'
  BY <1>11 DEF ListShard, SinceOK
<1>12. ASSUME NEW r \in Replica, Upsert(r) PROVE SinceOK'
  <2>1. CASE UNCHANGED since
    BY <1>12, <2>1 DEF Upsert, SinceOK
  <2>2. CASE since' = [since EXCEPT ![r] = Rows]
    BY <1>12, <2>2, RowsListed DEF Upsert, SinceOK
  <2> QED
    BY <1>12, <2>1, <2>2 DEF Upsert, BeginPromote
<1>13. ASSUME NEW r \in Replica, ReadGeneration(r) PROVE SinceOK'
  BY <1>13 DEF ReadGeneration, SinceOK
<1>14. ASSUME NEW r \in Replica, ListExpired(r) PROVE SinceOK'
  BY <1>14 DEF ListExpired, SinceOK
<1>15. ASSUME NEW r \in Replica, CheckGeneration(r) PROVE SinceOK'
  <2>1. CASE UNCHANGED since
    BY <1>15, <2>1 DEF CheckGeneration, SinceOK
  <2>2. CASE since' = [since EXCEPT ![r] = Rows]
    BY <1>15, <2>2, RowsListed DEF CheckGeneration, SinceOK
  <2> QED
    BY <1>15, <2>1, <2>2 DEF CheckGeneration, BeginPromote
<1>16. ASSUME NEW r \in Replica, ClearRows(r) PROVE SinceOK'
  BY <1>16 DEF ClearRows, SinceOK
<1>17. ASSUME NEW r \in Replica, Release(r) PROVE SinceOK'
  BY <1>17 DEF Release, SinceOK
<1>18. ASSUME NEW r \in Replica, NEW c \in Chunk, DeleteOne(r, c) PROVE SinceOK'
  BY <1>18 DEF DeleteOne, SinceOK
<1>19. ASSUME NEW r \in Replica, NEW c \in Chunk, DeleteFails(r, c) PROVE SinceOK'
  BY <1>19 DEF DeleteFails, SinceOK
<1>20. ASSUME NEW r \in Replica, CallFails(r) PROVE SinceOK'
  <2>1. CASE UNCHANGED since
    BY <1>20, <2>1 DEF CallFails, SinceOK
  <2>2. CASE since' = [since EXCEPT ![r] = Rows]
    BY <1>20, <2>2, RowsListed DEF CallFails, SinceOK
  <2> QED
    BY <1>20, <2>1, <2>2 DEF CallFails, BeginPromote
<1>21. ASSUME NEW r \in Replica, BudgetSpent(r) PROVE SinceOK'
  <2>1. CASE UNCHANGED since
    BY <1>21, <2>1 DEF BudgetSpent, SinceOK
  <2>2. CASE since' = [since EXCEPT ![r] = Rows]
    BY <1>21, <2>2, RowsListed DEF BudgetSpent, SinceOK
  <2> QED
    BY <1>21, <2>1, <2>2 DEF BudgetSpent, BeginPromote
<1>22. ASSUME NEW r \in Replica, Crash(r) PROVE SinceOK'
  BY <1>22 DEF Crash, SinceOK
<1>23. CASE UNCHANGED vars
  BY <1>23 DEF vars, SinceOK
<1> QED
  BY <1>1, <1>2, <1>3, <1>4, <1>5, <1>6, <1>7, <1>8, <1>9, <1>10, <1>11,
     <1>12, <1>13, <1>14, <1>15, <1>16, <1>17, <1>18, <1>19, <1>20, <1>21,
     <1>22, <1>23
     DEF Next, SweepStep

(* A sweep keeps the shard it started at.                                  *)
LEMMA StartKept ==
    ASSUME NEW w \in SweepType
    PROVE  /\ Over(w).start = w.start
           /\ NextShard(w).start = w.start
           /\ \A p : Collecting(w, p).start = w.start
           /\ WalkedOne(w).start = w.start
<1>1. Over(w).start = w.start
  BY DEF Over, Asleep
<1>2. NextShard(w).start = w.start
  BY <1>1 DEF NextShard, SweepType
<1> QED
  BY <1>1, <1>2 DEF Collecting, WalkedOne, SweepType

LEMMA BeginStart ==
    ASSUME SweepsOK, NEW r \in Replica, NEW w \in SweepType, BeginPromote(r, w)
    PROVE  sweep'[r].start = w.start
<1> DEFINE x == Collecting(w, "promote")
           C == {c \in Chunk : cand[c] = "expired"}
<1>1. x.start = w.start /\ x \in SweepType
  BY DEF Collecting, SweepType, Steps
<1> HIDE DEF x
<1>2. [x EXCEPT !.i = 0, !.batch = {}, !.cut = C].start = x.start
  BY <1>1 DEF SweepType
<1>3. sweep'[r] = [x EXCEPT !.i = 0, !.batch = {}, !.cut = C]
  BY DEF BeginPromote, SweepsOK, x
<1> QED
  BY <1>1, <1>2, <1>3

(* The cursor moves with the lease, and a sweep keeps the shard it started *)
(* at for as long as it goes on.                                           *)
LEMMA LeaseStep == SweepsOK /\ LeaseOK /\ [Next]_vars => LeaseOK'
<1> SUFFICES ASSUME SweepsOK, LeaseOK, [Next]_vars PROVE LeaseOK'
  OBVIOUS
<1>1. ASSUME NEW m \in Manifest, PutChunks(m) PROVE LeaseOK'
  BY <1>1 DEF PutChunks, LeaseOK
<1>2. ASSUME NEW m \in Manifest, NEW s \in Source, Publish(m, s) PROVE LeaseOK'
  BY <1>2 DEF Publish, Record, LeaseOK
<1>3. ASSUME NEW m \in Manifest, NEW s \in Source, Repin(m, s) PROVE LeaseOK'
  BY <1>3 DEF Repin, Record, LeaseOK
<1>4. ASSUME NEW m \in Manifest, Retire(m) PROVE LeaseOK'
  BY <1>4 DEF Retire, LeaseOK
<1>5. ASSUME NEW m \in Manifest, Abandon(m) PROVE LeaseOK'
  BY <1>5 DEF Abandon, LeaseOK
<1>6. ASSUME NEW c \in Chunk, Expire(c) PROVE LeaseOK'
  BY <1>6 DEF Expire, LeaseOK
<1>7. CASE LeaseAges
  BY <1>7 DEF LeaseAges, LeaseOK
<1>8. ASSUME NEW r \in Replica, Claim(r) PROVE LeaseOK'
  BY <1>8, GcConstants DEF Claim, LeaseOK, SweepsOK, SweepType, Asleep
<1>9. ASSUME NEW r \in Replica, MarkCollect(r) PROVE LeaseOK'
  <2>1. \A t \in Replica : sweep'[t].at = "idle" \/ sweep'[t].start = sweep[t].start
    BY <1>9 DEF MarkCollect, SweepsOK, SweepType
  <2>2. sweep[r].at # "idle" /\ \A t \in Replica \ {r} : sweep'[t].at = sweep[t].at
    BY <1>9 DEF MarkCollect, SweepsOK, SweepType
  <2> QED
    BY <1>9, <2>1, <2>2 DEF MarkCollect, LeaseOK
<1>10. ASSUME NEW r \in Replica, ReadRefs(r) PROVE LeaseOK'
  <2>1. \A t \in Replica : sweep'[t].at = "idle" \/ sweep'[t].start = sweep[t].start
    BY <1>10 DEF ReadRefs, Converge, SweepsOK, SweepType
  <2>2. sweep[r].at # "idle" /\ \A t \in Replica \ {r} : sweep'[t].at = sweep[t].at
    BY <1>10 DEF ReadRefs, Converge, SweepsOK, SweepType
  <2> QED
    BY <1>10, <2>1, <2>2 DEF ReadRefs, LeaseOK
<1>11. ASSUME NEW r \in Replica, ListShard(r) PROVE LeaseOK'
  <2>1. \A t \in Replica : sweep'[t].at = "idle" \/ sweep'[t].start = sweep[t].start
    BY <1>11 DEF ListShard, SweepsOK, SweepType
  <2>2. sweep[r].at # "idle" /\ \A t \in Replica \ {r} : sweep'[t].at = sweep[t].at
    BY <1>11 DEF ListShard, SweepsOK, SweepType
  <2> QED
    BY <1>11, <2>1, <2>2 DEF ListShard, LeaseOK
<1>12. ASSUME NEW r \in Replica, Upsert(r) PROVE LeaseOK'
  <2>1. \A t \in Replica : sweep'[t].at = "idle" \/ sweep'[t].start = sweep[t].start
    <3>1. sweep[r] \in SweepType /\ sweep \in [Replica -> SweepType]
      BY DEF SweepsOK
    <3>2. sweep'[r].start = sweep[r].start
      <4>1. CASE sweep' = [sweep EXCEPT ![r] = WalkedOne(sweep[r])]
        BY <4>1, <3>1, StartKept
      <4>2. CASE BeginPromote(r, WalkedOne(sweep[r]))
        BY <1>12, <4>2, <3>1, BeginStart, WalkedType DEF Upsert, SweepsOK, Good
      <4> QED
        BY <1>12, <4>1, <4>2 DEF Upsert
    <3>3. \A t \in Replica \ {r} : sweep'[t] = sweep[t]
      BY <1>12, <3>1 DEF Upsert, BeginPromote
    <3> QED
      BY <3>2, <3>3
  <2>2. sweep[r].at # "idle" /\ \A t \in Replica \ {r} : sweep'[t].at = sweep[t].at
    BY <1>12 DEF Upsert, WalkedOne, BeginPromote, Collecting, SweepsOK, SweepType
  <2> QED
    BY <1>12, <2>1, <2>2 DEF Upsert, LeaseOK
<1>13. ASSUME NEW r \in Replica, ReadGeneration(r) PROVE LeaseOK'
  <2>1. \A t \in Replica : sweep'[t].at = "idle" \/ sweep'[t].start = sweep[t].start
    BY <1>13 DEF ReadGeneration, SweepsOK, SweepType
  <2>2. sweep[r].at # "idle" /\ \A t \in Replica \ {r} : sweep'[t].at = sweep[t].at
    BY <1>13 DEF ReadGeneration, SweepsOK, SweepType
  <2> QED
    BY <1>13, <2>1, <2>2 DEF ReadGeneration, LeaseOK
<1>14. ASSUME NEW r \in Replica, ListExpired(r) PROVE LeaseOK'
  <2>1. \A t \in Replica : sweep'[t].at = "idle" \/ sweep'[t].start = sweep[t].start
    <3>1. sweep[r] \in SweepType /\ sweep \in [Replica -> SweepType]
      BY DEF SweepsOK
    <3>2. sweep'[r].start = sweep[r].start
      <4>1. CASE sweep' = [sweep EXCEPT ![r] = NextShard(sweep[r])]
        BY <4>1, <3>1, StartKept
      <4>2. ASSUME NEW b, NEW x, sweep' = [sweep EXCEPT ![r] =
                     [sweep[r] EXCEPT !.at = "check", !.batch = b, !.short = x]]
            PROVE  sweep'[r].start = sweep[r].start
        BY <4>2, <3>1 DEF SweepType
      <4> QED
        BY <1>14, <4>1, <4>2 DEF ListExpired
    <3>3. \A t \in Replica \ {r} : sweep'[t] = sweep[t]
      BY <1>14, <3>1 DEF ListExpired
    <3> QED
      BY <3>2, <3>3
  <2>2. sweep[r].at # "idle" /\ \A t \in Replica \ {r} : sweep'[t].at = sweep[t].at
    BY <1>14 DEF ListExpired, NextShard, Over, SweepsOK, SweepType
  <2> QED
    BY <1>14, <2>1, <2>2 DEF ListExpired, LeaseOK
<1>15. ASSUME NEW r \in Replica, CheckGeneration(r) PROVE LeaseOK'
  <2>1. \A t \in Replica : sweep'[t].at = "idle" \/ sweep'[t].start = sweep[t].start
    <3>1. sweep[r] \in SweepType /\ sweep \in [Replica -> SweepType]
      BY DEF SweepsOK
    <3>2. sweep'[r].start = sweep[r].start
      <4>1. CASE sweep' = [sweep EXCEPT ![r] = [sweep[r] EXCEPT !.at = "delete"]]
        BY <4>1, <3>1 DEF SweepType
      <4>2. CASE sweep' = [sweep EXCEPT ![r] = Collecting(sweep[r], "drain")]
        BY <4>2, <3>1, StartKept
      <4> QED
        BY <1>15, <4>1, <4>2 DEF CheckGeneration
    <3>3. \A t \in Replica \ {r} : sweep'[t] = sweep[t]
      BY <1>15, <3>1 DEF CheckGeneration
    <3> QED
      BY <3>2, <3>3
  <2>2. sweep[r].at # "idle" /\ \A t \in Replica \ {r} : sweep'[t].at = sweep[t].at
    BY <1>15 DEF CheckGeneration, Collecting, SweepsOK, SweepType
  <2> QED
    BY <1>15, <2>1, <2>2 DEF CheckGeneration, LeaseOK
<1>16. ASSUME NEW r \in Replica, ClearRows(r) PROVE LeaseOK'
  <2>1. \A t \in Replica : sweep'[t].at = "idle" \/ sweep'[t].start = sweep[t].start
    BY <1>16 DEF ClearRows, NextShard, Over, SweepsOK, SweepType
  <2>2. sweep[r].at # "idle" /\ \A t \in Replica \ {r} : sweep'[t].at = sweep[t].at
    BY <1>16 DEF ClearRows, NextShard, Over, SweepsOK, SweepType
  <2> QED
    BY <1>16, <2>1, <2>2 DEF ClearRows, LeaseOK
<1>17. ASSUME NEW r \in Replica, Release(r) PROVE LeaseOK'
  BY <1>17, GcConstants DEF Release, Owns, LeaseOK, SweepsOK, SweepType, Asleep
<1>18. ASSUME NEW r \in Replica, NEW c \in Chunk, DeleteOne(r, c) PROVE LeaseOK'
  <2>1. \A t \in Replica : sweep'[t].at = "idle" \/ sweep'[t].start = sweep[t].start
    BY <1>18 DEF DeleteOne, SweepsOK, SweepType
  <2>2. sweep[r].at # "idle" /\ \A t \in Replica \ {r} : sweep'[t].at = sweep[t].at
    BY <1>18 DEF DeleteOne, SweepsOK, SweepType
  <2> QED
    BY <1>18, <2>1, <2>2 DEF DeleteOne, LeaseOK
<1>19. ASSUME NEW r \in Replica, NEW c \in Chunk, DeleteFails(r, c) PROVE LeaseOK'
  <2>1. \A t \in Replica : sweep'[t].at = "idle" \/ sweep'[t].start = sweep[t].start
    BY <1>19 DEF DeleteFails, SweepsOK, SweepType
  <2>2. sweep[r].at # "idle" /\ \A t \in Replica \ {r} : sweep'[t].at = sweep[t].at
    BY <1>19 DEF DeleteFails, SweepsOK, SweepType
  <2> QED
    BY <1>19, <2>1, <2>2 DEF DeleteFails, LeaseOK
<1>20. ASSUME NEW r \in Replica, CallFails(r) PROVE LeaseOK'
  <2>1. \A t \in Replica : sweep'[t].at = "idle" \/ sweep'[t].start = sweep[t].start
    <3>1. sweep[r] \in SweepType /\ sweep \in [Replica -> SweepType]
      BY DEF SweepsOK
    <3>2. sweep'[r].start = sweep[r].start
      <4>1. CASE BeginPromote(r, sweep[r])
        BY <4>1, <3>1, BeginStart
      <4>2. CASE sweep[r].at \in {"walk", "upsert"} /\ BeginPromote(r, WalkedOne(sweep[r]))
        BY <4>2, <3>1, BeginStart, WalkedType DEF SweepsOK, Good
      <4>3. CASE sweep' = [sweep EXCEPT ![r] = Over(sweep[r])]
        BY <4>3, <3>1, StartKept
      <4> QED
        BY <1>20, <4>1, <4>2, <4>3 DEF CallFails
    <3>3. \A t \in Replica \ {r} : sweep'[t] = sweep[t]
      BY <1>20, <3>1 DEF CallFails, BeginPromote
    <3> QED
      BY <3>2, <3>3
  <2>2. sweep[r].at # "idle" /\ \A t \in Replica \ {r} : sweep'[t].at = sweep[t].at
    BY <1>20 DEF CallFails, BeginPromote, WalkedOne, Collecting, Over, SweepsOK, SweepType
  <2> QED
    BY <1>20, <2>1, <2>2 DEF CallFails, LeaseOK
<1>21. ASSUME NEW r \in Replica, BudgetSpent(r) PROVE LeaseOK'
  <2>1. \A t \in Replica : sweep'[t].at = "idle" \/ sweep'[t].start = sweep[t].start
    <3>1. sweep[r] \in SweepType /\ sweep \in [Replica -> SweepType]
      BY DEF SweepsOK
    <3>2. sweep'[r].start = sweep[r].start
      <4>1. CASE BeginPromote(r, sweep[r])
        BY <4>1, <3>1, BeginStart
      <4>2. CASE sweep' = [sweep EXCEPT ![r] = Over(sweep[r])]
        BY <4>2, <3>1, StartKept
      <4> QED
        BY <1>21, <4>1, <4>2 DEF BudgetSpent
    <3>3. \A t \in Replica \ {r} : sweep'[t] = sweep[t]
      BY <1>21, <3>1 DEF BudgetSpent, BeginPromote
    <3> QED
      BY <3>2, <3>3
  <2>2. sweep[r].at # "idle" /\ \A t \in Replica \ {r} : sweep'[t].at = sweep[t].at
    BY <1>21 DEF BudgetSpent, BeginPromote, Collecting, Over, SweepsOK, SweepType
  <2> QED
    BY <1>21, <2>1, <2>2 DEF BudgetSpent, LeaseOK
<1>22. ASSUME NEW r \in Replica, Crash(r) PROVE LeaseOK'
  BY <1>22 DEF Crash, LeaseOK, SweepsOK, SweepType, Asleep
<1>23. CASE UNCHANGED vars
  BY <1>23 DEF vars, LeaseOK
<1> QED
  BY <1>1, <1>2, <1>3, <1>4, <1>5, <1>6, <1>7, <1>8, <1>9, <1>10, <1>11,
     <1>12, <1>13, <1>14, <1>15, <1>16, <1>17, <1>18, <1>19, <1>20, <1>21,
     <1>22, <1>23
     DEF Next, SweepStep

LEMMA SweepsStep ==
    DataOK /\ SweepsOK /\ SinceOK /\ LeaseOK /\ [Next]_vars => SweepsOK'
<1> SUFFICES ASSUME DataOK, SweepsOK, SinceOK, LeaseOK, [Next]_vars PROVE SweepsOK'
  OBVIOUS
<1>1. ASSUME NEW m \in Manifest, PutChunks(m) PROVE SweepsOK'
  BY <1>1 DEF PutChunks, SweepsOK
<1>2. ASSUME NEW m \in Manifest, NEW s \in Source, Publish(m, s) PROVE SweepsOK'
  <2>1. UNCHANGED sweep /\ since' \in [Replica -> SUBSET (Manifest \X Source)]
        /\ \A t \in Replica : since'[t] \in SUBSET since[t]
    BY <1>2 DEF Publish, Record, SinceOK
  <2> QED
    BY <2>1, FewerRows DEF SweepsOK
<1>3. ASSUME NEW m \in Manifest, NEW s \in Source, Repin(m, s) PROVE SweepsOK'
  <2>1. UNCHANGED sweep /\ since' \in [Replica -> SUBSET (Manifest \X Source)]
        /\ \A t \in Replica : since'[t] \in SUBSET since[t]
    BY <1>3 DEF Repin, Record, SinceOK
  <2> QED
    BY <2>1, FewerRows DEF SweepsOK
<1>4. ASSUME NEW m \in Manifest, Retire(m) PROVE SweepsOK'
  <2>1. UNCHANGED sweep /\ since' \in [Replica -> SUBSET (Manifest \X Source)]
        /\ \A t \in Replica : since'[t] \in SUBSET since[t]
    BY <1>4 DEF Retire, SinceOK
  <2> QED
    BY <2>1, FewerRows DEF SweepsOK
<1>5. ASSUME NEW m \in Manifest, Abandon(m) PROVE SweepsOK'
  BY <1>5 DEF Abandon, SweepsOK
<1>6. ASSUME NEW c \in Chunk, Expire(c) PROVE SweepsOK'
  BY <1>6 DEF Expire, SweepsOK
<1>7. CASE LeaseAges
  BY <1>7 DEF LeaseAges, SweepsOK
<1>8. ASSUME NEW r \in Replica, Claim(r) PROVE SweepsOK'
  <2>1. lease.next \in Shard
    BY DEF LeaseOK
  <2> QED
    BY <1>8, <2>1, ClaimGood, OneSweepSame DEF Claim
<1>9. ASSUME NEW r \in Replica, MarkCollect(r) PROVE SweepsOK'
  BY <1>9, MarkGood, OneSweepSame DEF SweepsOK, MarkCollect, Fetched
<1>10. ASSUME NEW r \in Replica, ReadRefs(r) PROVE SweepsOK'
  <2> DEFINE w == sweep[r]
             P == pins[Queries[w.q]]
  <2>1. w.q \in 1 .. Len(Queries) /\ Queries[w.q] \in Source
    BY Constants DEF SweepsOK, Good, SweepType
  <2>2. P \in SUBSET Manifest
    BY <2>1 DEF DataOK
  <2>3. since[r] \in SUBSET (Manifest \X Source)
        /\ \A row \in since[r] : row[2] = Queries[w.q] => row[1] \in P
    BY DEF SinceOK
  <2>4. Good(w, since[r]) /\ w.at = "read" /\ UNCHANGED since
    BY <1>10 DEF SweepsOK, ReadRefs
  <2>5. CASE w.q < Len(Queries)
    <3>1. sweep' = [sweep EXCEPT ![r] = [w EXCEPT !.refs = w.refs \cup P, !.q = w.q + 1]]
      BY <1>10, <2>5 DEF ReadRefs
    <3>2. Good([w EXCEPT !.refs = w.refs \cup P, !.q = w.q + 1], since[r])
      BY <2>2, <2>3, <2>4, <2>5, QueryGood
    <3> QED
      BY <3>1, <3>2, <2>4, OneSweepSame
  <2>6. CASE ~(w.q < Len(Queries))
    <3>1. sweep' = [sweep EXCEPT ![r] = Converge(w.refs \cup P, w)]
      BY <1>10, <2>6 DEF ReadRefs
    <3>2. Good(Converge(w.refs \cup P, w), since[r])
      BY <2>2, <2>3, <2>4, <2>6, ConvergeGood
    <3> QED
      BY <3>1, <3>2, <2>4, OneSweepSame
  <2> QED
    BY <2>5, <2>6
<1>11. ASSUME NEW r \in Replica, ListShard(r) PROVE SweepsOK'
  <2>1. {c \in store \ sweep[r].chunks : ShardOf[c] = ShardAt(sweep[r].start, sweep[r].i)}
          \in SUBSET Chunk
    BY DEF DataOK
  <2> QED
    BY <1>11, <2>1, ListShardGood, OneSweepSame DEF SweepsOK, ListShard
<1>12. ASSUME NEW r \in Replica, Upsert(r) PROVE SweepsOK'
  <2> DEFINE w == WalkedOne(sweep[r])
  <2>1. sweep[r].at = "upsert" /\ Good(sweep[r], since[r])
    BY <1>12 DEF Upsert, SweepsOK
  <2>2. CASE w.i < PerTick
    <3>1. sweep' = [sweep EXCEPT ![r] = w] /\ UNCHANGED since
      BY <1>12, <2>2 DEF Upsert
    <3> QED
      BY <2>1, <2>2, <3>1, WalkedGood, OneSweepSame
  <2>3. CASE ~(w.i < PerTick)
    <3>1. BeginPromote(r, w)
      BY <1>12, <2>3 DEF Upsert
    <3>2. w \in SweepType /\ w.rounds < MaxRounds /\ w.refs = {} /\ w.fetched = {} /\ w.q = 1
      BY <2>1, WalkedType DEF Good
    <3> QED
      BY <3>1, <3>2, PromoteBegins
  <2> QED
    BY <2>2, <2>3
<1>13. ASSUME NEW r \in Replica, ReadGeneration(r) PROVE SweepsOK'
  BY <1>13, GenGood, OneSweepSame DEF SweepsOK, ReadGeneration, DataOK
<1>14. ASSUME NEW r \in Replica, ListExpired(r) PROVE SweepsOK'
  <2> DEFINE w == sweep[r]
  <2>1. Good(w, since[r]) /\ w.at = "list" /\ UNCHANGED since
    BY <1>14 DEF ListExpired, SweepsOK
  <2>2. CASE Expired(w) = {}
    BY <1>14, <2>1, <2>2, NextShardGood, OneSweepSame DEF ListExpired
  <2>3. ASSUME NEW b \in SUBSET Expired(w), NEW x \in {"no", "yes"},
               sweep' = [sweep EXCEPT ![r] = [w EXCEPT !.at = "check", !.batch = b, !.short = x]]
        PROVE  SweepsOK'
    BY <2>1, <2>3, ListedGood, OneSweepSame
  <2> QED
    BY <1>14, <2>2, <2>3 DEF ListExpired
<1>15. ASSUME NEW r \in Replica, CheckGeneration(r) PROVE SweepsOK'
  <2> DEFINE w == sweep[r]
  <2>1. Good(w, since[r]) /\ w.at = "check"
    BY <1>15 DEF CheckGeneration, SweepsOK
  <2>2. CASE gen = w.gen
    BY <1>15, <2>1, <2>2, CheckedGood, OneSweepSame DEF CheckGeneration
  <2>3. CASE gen # w.gen
    <3>1. Good(Collecting(w, "drain"), Rows)
      BY <2>1, RecollectGood
    <3> QED
      BY <1>15, <2>3, <3>1, RowsListed, OneSweep DEF CheckGeneration, SinceOK
  <2> QED
    BY <2>2, <2>3
<1>16. ASSUME NEW r \in Replica, ClearRows(r) PROVE SweepsOK'
  <2> DEFINE w == sweep[r]
             v == [w EXCEPT !.pass = "promote", !.cut = w.cut \ w.batch, !.batch = {},
                            !.done = {}, !.short = "no"]
  <2>1. Good(w, since[r]) /\ w.at = "delete" /\ UNCHANGED since
    BY <1>16 DEF ClearRows, SweepsOK
  <2>2. Good(v, since[r]) /\ v.at = "delete" /\ Good([v EXCEPT !.at = "list"], since[r])
    BY <2>1, ClearedGood
  <2>3. Good(Over(v), since[r]) /\ Good(NextShard(v), since[r])
    BY <2>2, OverGood, NextShardGood DEF Good
  <2>4. \A t \in Replica \ {r} : sweep'[t] = [sweep[t] EXCEPT !.cut = sweep[t].cut \ w.batch]
    BY <1>16 DEF ClearRows
  <2>5. sweep'[r] \in {Over(v), NextShard(v), [v EXCEPT !.at = "list"]}
    BY <1>16 DEF ClearRows
  <2> HIDE DEF v
  <2>6. \A t \in Replica : Good(sweep'[t], since[t])
    <3>1. Good(sweep'[r], since[r])
      BY <2>2, <2>3, <2>5
    <3>2. ASSUME NEW t \in Replica \ {r} PROVE Good(sweep'[t], since[t])
      <4>1. Good(sweep[t], since[t])
        BY DEF SweepsOK
      <4>2. sweep[t].cut \ w.batch \in SUBSET Chunk
        BY <4>1 DEF Good, SweepType
      <4>3. Good([sweep[t] EXCEPT !.cut = sweep[t].cut \ w.batch], since[t])
        BY <4>1, <4>2, OtherCutGood
      <4> QED
        BY <4>3, <2>4
    <3> QED
      BY <3>1, <3>2
  <2>7. sweep' = [t \in Replica |-> sweep'[t]]
    BY <1>16 DEF ClearRows
  <2> QED
    BY <2>1, <2>6, <2>7 DEF SweepsOK, Good
<1>17. ASSUME NEW r \in Replica, Release(r) PROVE SweepsOK'
  <2>1. sweep' = [sweep EXCEPT ![r] = Asleep] /\ since' = [since EXCEPT ![r] = {}]
    BY <1>17 DEF Release
  <2> QED
    BY <2>1, AsleepGood, OneSweep DEF SinceOK
<1>18. ASSUME NEW r \in Replica, NEW c \in Chunk, DeleteOne(r, c) PROVE SweepsOK'
  <2> DEFINE w == sweep[r]
  <2>1. Good(w, since[r]) /\ w.at = "delete" /\ UNCHANGED since
        /\ w.done \cup {c} \in SUBSET Chunk
    BY <1>18 DEF DeleteOne, SweepsOK, Good, SweepType
  <2>2. sweep' = [sweep EXCEPT ![r] = [w EXCEPT !.done = w.done \cup {c}]]
    BY <1>18 DEF DeleteOne
  <2> QED
    BY <2>1, <2>2, DeletingGood, OneSweepSame
<1>19. ASSUME NEW r \in Replica, NEW c \in Chunk, DeleteFails(r, c) PROVE SweepsOK'
  <2> DEFINE w == sweep[r]
  <2>1. Good(w, since[r]) /\ w.at = "delete" /\ UNCHANGED since
    BY <1>19 DEF DeleteFails, SweepsOK
  <2>2. sweep' = [sweep EXCEPT ![r] = [w EXCEPT !.batch = w.batch \ {c}]]
    BY <1>19 DEF DeleteFails
  <2> QED
    BY <2>1, <2>2, DeletingGood, OneSweepSame
<1>20. ASSUME NEW r \in Replica, CallFails(r) PROVE SweepsOK'
  <2> DEFINE w == sweep[r]
  <2>1. Good(w, since[r])
    BY DEF SweepsOK
  <2>2. CASE w.at = "mark" /\ BeginPromote(r, w)
    BY <2>1, <2>2, PromoteBegins DEF Good, CountersOK
  <2>3. CASE w.at \in {"walk", "upsert"} /\ BeginPromote(r, WalkedOne(w))
    BY <2>1, <2>3, PromoteBegins, WalkedType DEF Good
  <2>4. CASE sweep' = [sweep EXCEPT ![r] = Over(w)] /\ UNCHANGED since
    BY <2>1, <2>4, OverGood, OneSweepSame DEF Good
  <2> QED
    BY <1>20, <2>2, <2>3, <2>4 DEF CallFails
<1>21. ASSUME NEW r \in Replica, BudgetSpent(r) PROVE SweepsOK'
  <2> DEFINE w == sweep[r]
  <2>1. Good(w, since[r])
    BY DEF SweepsOK
  <2>2. CASE w.at = "walk" /\ BeginPromote(r, w)
    BY <2>1, <2>2, PromoteBegins DEF Good, CountersOK
  <2>3. CASE sweep' = [sweep EXCEPT ![r] = Over(w)] /\ UNCHANGED since
    BY <2>1, <2>3, OverGood, OneSweepSame DEF Good
  <2> QED
    BY <1>21, <2>2, <2>3 DEF BudgetSpent
<1>22. ASSUME NEW r \in Replica, Crash(r) PROVE SweepsOK'
  <2>1. sweep' = [sweep EXCEPT ![r] = Asleep] /\ since' = [since EXCEPT ![r] = {}]
    BY <1>22 DEF Crash
  <2> QED
    BY <2>1, AsleepGood, OneSweep DEF SinceOK
<1>23. CASE UNCHANGED vars
  BY <1>23 DEF vars, SweepsOK
<1> QED
  BY <1>1, <1>2, <1>3, <1>4, <1>5, <1>6, <1>7, <1>8, <1>9, <1>10, <1>11,
     <1>12, <1>13, <1>14, <1>15, <1>16, <1>17, <1>18, <1>19, <1>20, <1>21,
     <1>22, <1>23
     DEF Next, SweepStep

-----------------------------------------------------------------------------
(* Theorems                                                                *)

LEMMA Invariance == Spec => []IInv
<1>1. IInv /\ [Next]_vars => IInv'
  BY DataStep, SinceStep, LeaseStep, SweepsStep DEF IInv
<1> QED
  BY <1>1, InitIInv, PTL DEF Spec

(* The store, the candidates, the pin sources, the lease and every sweep   *)
(* keep their types: no round, shard or query counter of a sweep passes    *)
(* its end, for any number of shards, sources and rounds.                  *)
THEOREM TypeCorrect == Spec => []TypeOK
<1>1. IInv => TypeOK
  BY DEF IInv, DataOK, SweepsOK, SweepType, SinceOK, LeaseOK, TypeOK
<1> QED
  BY <1>1, Invariance, PTL

(* A delete takes a chunk of the batch that the pin set lacks, and the pin *)
(* set has the chunks of every row that was listed throughout.             *)
LEMMA DeleteSpares ==
    ASSUME IInv, NEW r \in Replica, NEW c \in Chunk, DeleteOne(r, c)
    PROVE  /\ c \in sweep'[r].done \ sweep[r].done
           /\ \A row \in since[r] : c \notin ChunksOf[row[1]]
<1> DEFINE w == sweep[r]
<1>1. Good(w, since[r]) /\ w \in SweepType
  BY DEF IInv, SweepsOK
<1>2. w.at = "delete" /\ c \in w.batch /\ c \notin w.chunks /\ c \notin w.done
  BY DEF DeleteOne, Doomed
<1>3. ShardOf[c] \in TickShards(w.start)
  BY <1>1, <1>2 DEF Good, BatchOK
<1>4. \A row \in since[r] : c \notin ChunksOf[row[1]]
  BY <1>1, <1>2, <1>3 DEF Good, CollectOK, Held
<1>5. sweep'[r] = [w EXCEPT !.done = w.done \cup {c}]
  BY DEF DeleteOne, IInv, SweepsOK
<1>6. c \in sweep'[r].done
  BY <1>1, <1>5 DEF SweepType
<1> QED
  BY <1>2, <1>4, <1>6

(* No sweep deletes a chunk that a row listed ever since its drain began   *)
(* to collect names: for any number of sources, manifests, replicas and    *)
(* shards, whatever rows come and go between the queries and whoever takes *)
(* the lease over.                                                         *)
THEOREM ListedIsKept == Spec => KeptSinceCollect
<1> DEFINE Step == \A c \in store \ store' :
                      \E r \in Replica : /\ c \in sweep'[r].done \ sweep[r].done
                                        /\ \A row \in since[r] : c \notin ChunksOf[row[1]]
<1>1. IInv /\ [Next]_vars => [Step]_vars
  <2> SUFFICES ASSUME IInv, Next, NEW c \in store \ store'
               PROVE  \E r \in Replica : /\ c \in sweep'[r].done \ sweep[r].done
                                         /\ \A row \in since[r] : c \notin ChunksOf[row[1]]
    OBVIOUS
  <2>1. \E r \in Replica, d \in Chunk : DeleteOne(r, d)
    BY DEF Next, SweepStep, PutChunks, Publish, Repin, Record, Retire, Abandon, Expire, LeaseAges,
           Claim, MarkCollect, ReadRefs, ListShard, Upsert, ReadGeneration, ListExpired,
           CheckGeneration, ClearRows, Release, DeleteFails, CallFails, BudgetSpent, Crash
  <2>2. PICK r \in Replica, d \in Chunk : DeleteOne(r, d)
    BY <2>1
  <2>3. c = d
    BY <2>2 DEF DeleteOne
  <2> QED
    BY <2>2, <2>3, DeleteSpares
<1> QED
  BY <1>1, Invariance, PTL DEF Spec, KeptSinceCollect

(* The cursor of the shards is moved only by a sweep that began at it:     *)
(* replicas that were overtaken, crashed or restarted never move it, so    *)
(* that no shard is passed over.                                           *)
THEOREM CursorFollowsSweep == Spec => CursorNeverSkips
<1> DEFINE Step == lease'.next # lease.next =>
                      \E r \in Replica : /\ sweep[r].at = "release"
                                        /\ sweep[r].start = lease.next
                                        /\ lease'.next = sweep[r].next
<1>1. IInv /\ [Next]_vars => [Step]_vars
  <2> SUFFICES ASSUME IInv, Next, lease'.next # lease.next
               PROVE  \E r \in Replica : /\ sweep[r].at = "release"
                                         /\ sweep[r].start = lease.next
                                         /\ lease'.next = sweep[r].next
    OBVIOUS
  <2>1. \E r \in Replica : Release(r)
    <3>1. ~LeaseAges
      BY DEF LeaseAges, IInv, LeaseOK
    <3>2. \A r \in Replica : ~Claim(r)
      BY DEF Claim
    <3>3. lease' # lease
      OBVIOUS
    <3> QED
      BY <3>1, <3>2, <3>3
         DEF Next, SweepStep, PutChunks, Publish, Repin, Record, Retire, Abandon, Expire,
             MarkCollect, ReadRefs, ListShard, Upsert, ReadGeneration, ListExpired,
             CheckGeneration, ClearRows, DeleteOne, DeleteFails, CallFails, BudgetSpent, Crash
  <2>2. PICK r \in Replica : Release(r)
    BY <2>1
  <2>3. lease.by = r /\ lease'.next = sweep[r].next /\ sweep[r].at = "release"
    BY <2>2 DEF Release, Owns
  <2> QED
    BY <2>3 DEF IInv, LeaseOK
<1> QED
  BY <1>1, Invariance, PTL DEF Spec, CursorNeverSkips

=============================================================================
