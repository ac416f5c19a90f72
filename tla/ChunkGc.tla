------------------------------ MODULE ChunkGc ------------------------------
(***************************************************************************)
(* The chunk garbage collector: coordinator replicas sweep a shared,       *)
(* content-addressed blob store while writers upload chunks and record     *)
(* the manifests that reference them.                                      *)
(*                                                                         *)
(* A chunk is pinned when a live manifest of one of the pin sources names  *)
(* it.  A sweep runs under a lease with a shard cursor.  Its mark pass     *)
(* records the unpinned chunks of this tick's shards as candidates; its    *)
(* promote pass deletes the candidates whose grace has expired, after      *)
(* checking them against a pin set it reads by several queries that are    *)
(* not one transaction.                                                    *)
(***************************************************************************)
EXTENDS Integers, FiniteSets, Sequences

CONSTANTS
    Chunk,      \* content hashes
    Manifest,   \* manifest references (id and version)
    Replica,    \* coordinator replicas
    ChunksOf,   \* the chunks a manifest names
    Queries,    \* the pin sources in the order they are queried
    ShardOf,    \* the hash-prefix shard of a chunk
    ShardCount, \* number of shards (256 in the code)
    PerTick,    \* shards one tick covers
    MaxRounds,  \* rounds of a pin set collection
    BatchSize,  \* candidates per promote batch
    MaxPins,    \* bound: rows recorded by writers
    MaxFaults,  \* bound: failed calls, spent budgets, crashes, early takeovers
    NoReplica   \* nobody holds the lease

\* Shards are numbered, and a tick, a round and a batch are never empty.
ASSUME GcConstants ==
    /\ ChunksOf \in [Manifest -> SUBSET Chunk]
    /\ Queries \in Seq({"image", "snapshot", "cold"})
    /\ "snapshot" \in {Queries[i] : i \in 1 .. Len(Queries)}
    /\ ShardCount \in Nat \ {0}
    /\ ShardOf \in [Chunk -> 0 .. ShardCount - 1]
    /\ PerTick \in 1 .. ShardCount
    /\ MaxRounds \in Nat \ {0}
    /\ BatchSize \in Nat \ {0}
    /\ MaxPins \in Nat
    /\ MaxFaults \in Nat
    /\ NoReplica \notin Replica

VARIABLES
    store,  \* chunks in the blob store
    cand,   \* chunk_gc_candidates: no row, a row inside its grace, an expired row
    pins,   \* the manifests each pin source lists
    put,    \* manifests whose chunks a writer has uploaded but not recorded
    gen,    \* chunk_generation
    lease,  \* chunk_gc_sweep_state: claimed_by, whether claimed_at is stale, next_shard
    sweep,  \* the sweep of each replica
    since,  \* history: rows listed without a break since the drain's collection began
    pinned, \* rows recorded so far
    faults  \* faults so far

vars == <<store, cand, pins, put, gen, lease, sweep, since, pinned, faults>>

Shard == 0 .. ShardCount - 1

\* collect_manifest_refs queries enabled images (and their bases), recoverable
\* snapshots and cold bases, in this order.
Source == {Queries[i] : i \in 1 .. Len(Queries)}

\* Rows are (manifest, source) pairs.
Rows == UNION {{<<m, s>> : m \in pins[s]} : s \in Source}
Live(c) == \E s \in Source : \E m \in pins[s] : c \in ChunksOf[m]

\* Steps of a sweep.  The collection (read) is shared by the promote pass and
\* the re-collection inside its drain.
Steps == {"idle", "mark", "walk", "upsert", "read", "gen", "list", "check",
          "delete", "release"}

Asleep == [at |-> "idle", pass |-> "promote", start |-> 0, i |-> 0, q |-> 1,
           refs |-> {}, fetched |-> {}, chunks |-> {}, rounds |-> 0,
           gen |-> 0, cut |-> {}, batch |-> {}, short |-> "no", done |-> {}, next |-> 0]

Init ==
    /\ store = {}
    /\ cand = [c \in Chunk |-> "none"]
    /\ pins = [s \in Source |-> {}]
    /\ put = {}
    /\ gen = 0
    /\ lease = [by |-> NoReplica, stale |-> "no", next |-> 0]
    /\ sweep = [r \in Replica |-> Asleep]
    /\ since = [r \in Replica |-> {}]
    /\ pinned = 0
    /\ faults = 0

-----------------------------------------------------------------------------
(* Writers. *)

\* put_chunk for every chunk of a manifest: a HEAD that finds the object skips
\* the PUT; either way the object is there when the call returns.  (A chunk
\* deleted before the last one is put is a chunk deleted right after.)
PutChunks(m) ==
    /\ m \notin put
    /\ pinned < MaxPins
    /\ store' = store \cup ChunksOf[m]
    /\ put' = put \cup {m}
    /\ UNCHANGED <<cand, pins, gen, lease, sweep, since, pinned, faults>>

\* record_snapshot, upsert_enabled_image and upsert_cold_base.  An image and a
\* cold base are rows keyed by their image and content key, so the new manifest
\* replaces the old one (one image and one content key are modelled); a
\* snapshot is a new row.  Only the first two bump the generation, in the
\* transaction that writes the row.
Listed(m, s) == IF s = "snapshot" THEN pins[s] \cup {m} ELSE {m}
Bumps(s) == s # "cold"

Record(m, s) ==
    /\ m \notin pins[s]
    /\ pinned < MaxPins
    /\ pins' = [pins EXCEPT ![s] = Listed(m, s)]
    /\ gen' = IF Bumps(s) THEN gen + 1 ELSE gen
    /\ since' = [r \in Replica |-> since[r] \ {<<n, s>> : n \in pins[s] \ Listed(m, s)}]
    /\ put' = put \ {m}
    /\ pinned' = pinned + 1

\* A writer records the manifest it has uploaded completely.
Publish(m, s) ==
    /\ m \in put
    /\ Record(m, s)
    /\ UNCHANGED <<store, cand, lease, sweep, faults>>

\* A manifest that is listed is listed by a second source too: a captured base
\* becomes an enabled image's base, a session's first snapshot names its image's
\* disk.
Repin(m, s) ==
    /\ s # "cold"
    /\ \E t \in Source : m \in pins[t]
    /\ m \notin put
    /\ Record(m, s)
    /\ UNCHANGED <<store, cand, lease, sweep, faults>>

\* prune_session_snapshots, prune_orphan_base_snapshots, and record_snapshot
\* demoting a row to unrecoverable: the row leaves the list, with a bump.
Retire(m) ==
    /\ m \in pins["snapshot"]
    /\ pins' = [pins EXCEPT !["snapshot"] = @ \ {m}]
    /\ gen' = gen + 1
    /\ since' = [r \in Replica |-> since[r] \ {<<m, "snapshot">>}]
    /\ UNCHANGED <<store, cand, put, lease, sweep, pinned, faults>>

\* A writer dies, or its upload fails: the chunks it put are garbage.
Abandon(m) ==
    /\ m \in put
    /\ put' = put \ {m}
    /\ UNCHANGED <<store, cand, pins, gen, lease, sweep, since, pinned, faults>>

-----------------------------------------------------------------------------
(* Time. *)

\* first_seen_at is sticky, so a row that exists expires.
Expire(c) ==
    /\ cand[c] = "young"
    /\ cand' = [cand EXCEPT ![c] = "expired"]
    /\ UNCHANGED <<store, pins, put, gen, lease, sweep, since, pinned, faults>>

\* claimed_at ages past stale_after.  The holder is normally gone; a live one
\* that is overtaken counts as a fault.
LeaseAges ==
    /\ lease.by # NoReplica
    /\ lease.stale = "no"
    /\ LET alive == sweep[lease.by].at # "idle"
       IN  /\ alive => faults < MaxFaults
           /\ faults' = IF alive THEN faults + 1 ELSE faults
    /\ lease' = [lease EXCEPT !.stale = "yes"]
    /\ UNCHANGED <<store, cand, pins, put, gen, sweep, since, pinned>>

-----------------------------------------------------------------------------
(* The sweep. *)

\* Mutant of ShardAt: the tick does not wrap past the last shard.
ShardPastEnd(b, i) == b + i

\* The i-th shard of a tick that started at shard b.
ShardAt(b, i) == (b + i) % ShardCount
TickShards(b) == {ShardAt(b, i) : i \in 0 .. PerTick - 1}

\* The pin set is dropped before the promote pass, or a batch of its drain,
\* collects a new one.
Collecting(w, pass) == [w EXCEPT !.at = "read", !.pass = pass, !.chunks = {}]

\* claim_chunk_gc_sweep: free, or held past stale_after.
MayClaim == lease.by = NoReplica \/ lease.stale = "yes"

Claim(r) ==
    /\ sweep[r].at = "idle"
    /\ MayClaim
    /\ lease' = [by |-> r, stale |-> "no", next |-> lease.next]
    /\ sweep' = [sweep EXCEPT ![r] = [Asleep EXCEPT !.at = "mark", !.start = lease.next,
                                                    !.next = lease.next]]
    /\ UNCHANGED <<store, cand, pins, put, gen, since, pinned, faults>>

\* The manifests read are immutable: fetch_into keeps their hashes in the tick's
\* shards.
Fetched(new, w) ==
    {c \in Chunk : (\E m \in new : c \in ChunksOf[m]) /\ ShardOf[c] \in TickShards(w.start)}

\* The mark pass collects too.  It is one step here: a live chunk its queries
\* miss is marked, as is one recorded after the collection, and the promote
\* pass checks both again.
MarkCollect(r) ==
    LET w == sweep[r] IN
    /\ w.at = "mark"
    /\ sweep' = [sweep EXCEPT ![r] = [w EXCEPT !.at = "walk",
                    !.chunks = Fetched(UNION {pins[s] : s \in Source}, w)]]
    /\ UNCHANGED <<store, cand, pins, put, gen, lease, since, pinned, faults>>

\* The refs of a round are in: converged when none is new; else the new ones are
\* fetched, and at MaxRounds the set is used as it is.
Converge(refs, w) ==
    LET new == refs \ w.fetched
        v == [w EXCEPT !.chunks = @ \cup Fetched(new, w), !.fetched = @ \cup new,
                       !.rounds = @ + 1, !.refs = {}, !.q = 1]
    IN  IF new = {} \/ v.rounds >= MaxRounds
        THEN [v EXCEPT !.at = "gen", !.fetched = {}, !.rounds = 0]
        ELSE v

\* Mutant of ReadRefs: the last query is left out.
ReadRefsButLast(r) ==
    LET w == sweep[r]
        refs == w.refs \cup pins[Queries[w.q]] IN
    /\ w.at = "read"
    /\ sweep' = [sweep EXCEPT ![r] =
                    IF w.q < Len(Queries) - 1 THEN [w EXCEPT !.refs = refs, !.q = @ + 1]
                                              ELSE Converge(refs, w)]
    /\ UNCHANGED <<store, cand, pins, put, gen, lease, since, pinned, faults>>

\* collect_manifest_refs: one query per source, not one transaction.
ReadRefs(r) ==
    LET w == sweep[r]
        refs == w.refs \cup pins[Queries[w.q]] IN
    /\ w.at = "read"
    /\ sweep' = [sweep EXCEPT ![r] =
                    IF w.q < Len(Queries) THEN [w EXCEPT !.refs = refs, !.q = @ + 1]
                                          ELSE Converge(refs, w)]
    /\ UNCHANGED <<store, cand, pins, put, gen, lease, since, pinned, faults>>

\* walk_shard: the keys of the shard that the pin set does not hold.
ListShard(r) ==
    LET w == sweep[r] IN
    /\ w.at = "walk"
    /\ sweep' = [sweep EXCEPT ![r] =
                    [w EXCEPT !.at = "upsert",
                              !.batch = {c \in store \ w.chunks :
                                            ShardOf[c] = ShardAt(w.start, w.i)}]]
    /\ UNCHANGED <<store, cand, pins, put, gen, lease, since, pinned, faults>>

\* Mutant of WalkedOne: the report keeps the shard the sweep started at.
WalkedInPlace(w) == [w EXCEPT !.at = "walk", !.batch = {}, !.i = @ + 1]

\* The shard is done, successfully or not: the report's cursor passes it.
WalkedOne(w) == [w EXCEPT !.at = "walk", !.batch = {}, !.i = @ + 1,
                          !.next = ShardAt(w.start, w.i + 1)]

\* The promote pass runs whether the mark pass failed or not.  It fixes its
\* cutoff, the rows expired by now, and collects a pin set of its own.
BeginPromote(r, w) ==
    /\ sweep' = [sweep EXCEPT ![r] = [Collecting(w, "promote") EXCEPT
                    !.i = 0, !.batch = {}, !.cut = {c \in Chunk : cand[c] = "expired"}]]
    /\ since' = [since EXCEPT ![r] = Rows]

\* upsert_chunk_gc_candidates: first_seen_at of an existing row is kept.
Upsert(r) ==
    LET w == WalkedOne(sweep[r]) IN
    /\ sweep[r].at = "upsert"
    /\ cand' = [c \in Chunk |-> IF c \in sweep[r].batch /\ cand[c] = "none" THEN "young"
                                                                            ELSE cand[c]]
    /\ IF w.i < PerTick THEN sweep' = [sweep EXCEPT ![r] = w] /\ UNCHANGED since
                        ELSE BeginPromote(r, w)
    /\ UNCHANGED <<store, pins, put, gen, lease, pinned, faults>>

\* pin_gen is read after the collection; the first time the drain starts, a
\* re-collection goes on with the batch it was made for.
ReadGeneration(r) ==
    LET w == sweep[r] IN
    /\ w.at = "gen"
    /\ sweep' = [sweep EXCEPT ![r] = [w EXCEPT !.gen = gen,
                    !.at = IF w.pass = "promote" THEN "list" ELSE "delete"]]
    /\ UNCHANGED <<store, cand, pins, put, gen, lease, since, pinned, faults>>

Expired(w) == {c \in w.cut : ShardOf[c] = ShardAt(w.start, w.i)}

\* The drain is over, or goes on with the next shard of the tick.
Over(w) == [Asleep EXCEPT !.at = "release", !.start = w.start, !.next = w.next]
NextShard(w) == IF w.i + 1 < PerTick THEN [w EXCEPT !.at = "list", !.i = @ + 1]
                                     ELSE Over(w)

\* list_expired_gc_candidates_in_range, without an order; an empty page ends
\* the shard.
ListExpired(r) ==
    LET w == sweep[r] IN
    /\ w.at = "list"
    /\ IF Expired(w) = {}
       THEN sweep' = [sweep EXCEPT ![r] = NextShard(w)]
       ELSE \E b \in SUBSET Expired(w) :
                /\ b = Expired(w) \/ Cardinality(b) = BatchSize
                /\ Cardinality(b) \in 1 .. BatchSize
                /\ sweep' = [sweep EXCEPT ![r] = [w EXCEPT !.at = "check", !.batch = b,
                              !.short = IF Cardinality(b) < BatchSize THEN "yes" ELSE "no"]]
    /\ UNCHANGED <<store, cand, pins, put, gen, lease, since, pinned, faults>>

\* The generation moved since pin_gen: drop the pin set and collect again.
CheckGeneration(r) ==
    LET w == sweep[r] IN
    /\ w.at = "check"
    /\ IF gen = w.gen
       THEN /\ sweep' = [sweep EXCEPT ![r] = [w EXCEPT !.at = "delete"]]
            /\ UNCHANGED since
       ELSE /\ sweep' = [sweep EXCEPT ![r] = Collecting(w, "drain")]
            /\ since' = [since EXCEPT ![r] = Rows]
    /\ UNCHANGED <<store, cand, pins, put, gen, lease, pinned, faults>>

\* delete_one, for the candidates promote_batch does not rescue.
Doomed(w) == w.batch \ w.chunks

DeleteOne(r, c) ==
    LET w == sweep[r] IN
    /\ w.at = "delete"
    /\ c \in Doomed(w) \ w.done
    /\ store' = store \ {c}
    /\ sweep' = [sweep EXCEPT ![r] = [w EXCEPT !.done = @ \cup {c}]]
    /\ UNCHANGED <<cand, pins, put, gen, lease, since, pinned, faults>>

\* The delete fails: the candidate leaves the batch, its row stays.
DeleteFails(r, c) ==
    LET w == sweep[r] IN
    /\ w.at = "delete"
    /\ c \in Doomed(w) \ w.done
    /\ faults < MaxFaults
    /\ faults' = faults + 1
    /\ sweep' = [sweep EXCEPT ![r] = [w EXCEPT !.batch = @ \ {c}]]
    /\ UNCHANGED <<store, cand, pins, put, gen, lease, since, pinned>>

\* delete_gc_candidates clears the rows of the deleted and the rescued.  When
\* nothing was resolved the drain stops; a short page ends the shard.  A row
\* marked again later is younger than the cutoff of any drain under way.
ClearRows(r) ==
    LET w == sweep[r] IN
    /\ w.at = "delete"
    /\ Doomed(w) = w.done
    /\ cand' = [c \in Chunk |-> IF c \in w.batch THEN "none" ELSE cand[c]]
    /\ LET v == [w EXCEPT !.pass = "promote", !.cut = @ \ w.batch, !.batch = {},
                          !.done = {}, !.short = "no"]
       IN  sweep' = [s \in Replica |->
                        CASE s # r -> [sweep[s] EXCEPT !.cut = @ \ w.batch]
                          [] s = r /\ w.batch = {} -> Over(v)
                          [] s = r /\ w.batch # {} /\ w.short = "yes" -> NextShard(v)
                          [] OTHER -> [v EXCEPT !.at = "list"]]
    /\ UNCHANGED <<store, pins, put, gen, lease, since, pinned, faults>>

\* Mutant of Owns: the release is not guarded by the claim.
OwnsAlways(r) == TRUE

\* release_chunk_gc_sweep: the cursor is written only under one's own claim.
Owns(r) == lease.by = r

Release(r) ==
    /\ sweep[r].at = "release"
    /\ lease' = IF Owns(r) THEN [by |-> NoReplica, stale |-> "no", next |-> sweep[r].next]
                           ELSE lease
    /\ sweep' = [sweep EXCEPT ![r] = Asleep]
    /\ since' = [since EXCEPT ![r] = {}]
    /\ UNCHANGED <<store, cand, pins, put, gen, pinned, faults>>

-----------------------------------------------------------------------------
(* Faults of a sweep. *)

\* A query, a manifest fetch, a listing or the removal of the rows fails.  In
\* the mark pass the promote pass still runs (and the cursor has passed a shard
\* whose walk failed); in the promote pass the sweep ends with its report.
CallFails(r) ==
    LET w == sweep[r] IN
    /\ faults < MaxFaults
    /\ faults' = faults + 1
    /\ \/ /\ w.at = "mark"
          /\ BeginPromote(r, w)
       \/ /\ w.at \in {"walk", "upsert"}
          /\ BeginPromote(r, WalkedOne(w))
       \/ /\ \/ w.at \in {"read", "gen", "list", "check"}
             \/ w.at = "delete" /\ Doomed(w) = w.done
          /\ sweep' = [sweep EXCEPT ![r] = Over(w)]
          /\ UNCHANGED since
    /\ UNCHANGED <<store, cand, pins, put, gen, lease, pinned>>

\* The mark budget stops the walk at a shard boundary; the promote budget stops
\* the drain before its next page.
BudgetSpent(r) ==
    LET w == sweep[r] IN
    /\ faults < MaxFaults
    /\ faults' = faults + 1
    /\ \/ /\ w.at = "walk"
          /\ BeginPromote(r, w)
       \/ /\ w.at = "list"
          /\ sweep' = [sweep EXCEPT ![r] = Over(w)]
          /\ UNCHANGED since
    /\ UNCHANGED <<store, cand, pins, put, gen, lease, pinned>>

\* The pod dies; the lease stays claimed until it is stale.
Crash(r) ==
    /\ sweep[r].at # "idle"
    /\ faults < MaxFaults
    /\ faults' = faults + 1
    /\ sweep' = [sweep EXCEPT ![r] = Asleep]
    /\ since' = [since EXCEPT ![r] = {}]
    /\ UNCHANGED <<store, cand, pins, put, gen, lease, pinned>>

-----------------------------------------------------------------------------
SweepStep(r) ==
    \/ MarkCollect(r) \/ ReadRefs(r) \/ ListShard(r) \/ Upsert(r)
    \/ ReadGeneration(r) \/ ListExpired(r) \/ CheckGeneration(r) \/ ClearRows(r)
    \/ Release(r)
    \/ \E c \in Chunk : DeleteOne(r, c)

Next ==
    \/ \E m \in Manifest : \/ PutChunks(m)
                           \/ \E s \in Source : Publish(m, s) \/ Repin(m, s)
                           \/ Retire(m)
                           \/ Abandon(m)
    \/ \E c \in Chunk : Expire(c)
    \/ LeaseAges
    \/ \E r \in Replica : \/ Claim(r)
                          \/ SweepStep(r)
                          \/ \E c \in Chunk : DeleteFails(r, c)
                          \/ CallFails(r)
                          \/ BudgetSpent(r)
                          \/ Crash(r)

Spec == Init /\ [][Next]_vars

\* The sweep loop of every replica ticks on (a claim is tried every interval,
\* a sweep that began goes on or dies), and time passes.
FairSpec ==
    /\ Spec
    /\ WF_vars(LeaseAges)
    /\ \A c \in Chunk : WF_vars(Expire(c))
    /\ \A r \in Replica : WF_vars(SweepStep(r))
    /\ WF_vars(\E r \in Replica : Claim(r))

-----------------------------------------------------------------------------
(* Properties. *)

TypeOK ==
    /\ store \subseteq Chunk
    /\ cand \in [Chunk -> {"none", "young", "expired"}]
    /\ pins \in [Source -> SUBSET Manifest]
    /\ put \subseteq Manifest
    /\ gen \in Nat
    /\ lease \in [by : Replica \cup {NoReplica}, stale : {"no", "yes"}, next : Shard]
    /\ sweep \in [Replica ->
          [at : Steps, pass : {"promote", "drain"}, start : Shard,
           i : 0 .. PerTick, q : 1 .. Len(Queries), refs : SUBSET Manifest,
           fetched : SUBSET Manifest, chunks : SUBSET Chunk, rounds : 0 .. MaxRounds,
           gen : Nat, cut : SUBSET Chunk, batch : SUBSET Chunk, short : {"no", "yes"}, done : SUBSET Chunk,
           next : Shard]]
    /\ since \in [Replica -> SUBSET (Manifest \X Source)]
    /\ pinned \in 0 .. MaxPins
    /\ faults \in 0 .. MaxFaults

\* A chunk named by a row that has been listed ever since the drain last began
\* to collect is never deleted, however the queries, other rows coming and
\* going, a takeover of the lease and a second sweep interleave with it.
KeptSinceCollect ==
    [][\A c \in store \ store' :
          \E r \in Replica : /\ c \in sweep'[r].done \ sweep[r].done
                            /\ \A row \in since[r] : c \notin ChunksOf[row[1]]]_vars

\* The cursor moves only by a sweep that started where the cursor is, to the
\* shard after the last one it reached: a holder that was overtaken never moves
\* it, so that no shard is passed over unscanned.
CursorNeverSkips ==
    [][lease'.next # lease.next =>
          \E r \in Replica : /\ sweep[r].at = "release"
                            /\ sweep[r].start = lease.next
                            /\ lease'.next = sweep[r].next]_vars

\* A stored chunk that nobody references and nobody is uploading is deleted in
\* the end, unless it is referenced or uploaded again: through crashes, failed
\* passes and takeovers, whatever shard it is in.
Unused(c) == c \in store /\ ~Live(c) /\ \A m \in put : c \notin ChunksOf[m]
GarbageCollected == \A c \in Chunk : Unused(c) ~> ~Unused(c)

=============================================================================
