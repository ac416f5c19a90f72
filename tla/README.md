# Verification of engrams: lanes, epochs, ownership, eviction, moves, collection, delivery, placement

engrams runs coding agents in Firecracker microVMs. A *coordinator* (several
identical replicas over one Postgres database) decides which host runs which
session; a *host agent* on every machine boots, checkpoints and destroys the
VMs. Replicas share nothing but the database, hosts share nothing with the
replicas but RPCs and heartbeats, and any of them may stop at any point. This
directory holds TLA+ models of the part of that system where these facts meet,
the TLC configurations that check them, and TLAPS proofs.

Contents

1. Inventory of the system
2. Plan
3. Modules and the code
4. Runs
5. Fairness
6. What the checks found
7. Proofs
8. What is not modelled

## 1. Inventory of the system

| Component | State it keeps | Operations | Interacts through |
|---|---|---|---|
| Session operation log (`engram-coordinator/src/session_ops.rs`, `engram-postgres/src/lib.rs` `op_*`) | `session_ops` rows (state, epoch, step, attempts, `not_before`, `heartbeat_at`), `sessions.current_epoch` | enqueue, claim of the head, exclusive inline claim, step, heartbeat, finish, requeue with backoff, wake, cancel, reclaim of stale rows | transactions and partial unique indexes; the epoch of a claim fences every later write |
| Session verbs (`session_verbs.rs`, `api/snapshot.rs`) | the step marker of the op; the session row | create_boot, resume (full, re-use, shortcut, rebuild), evict, deliver, exec, teleport, destroy | fenced and guarded writes of the session row; RPCs to a host |
| Host loss (`dead_host.rs`, `reconcile.rs`, `api/host_http.rs`) | `hosts.status` and lease, `sessions.{status,host_id,sandbox_id}`, strikes, `sandbox_tombstones`, sightings | heartbeat reconcile, dead-host detector, straggler sweep, settle, entomb, ack by absence | heartbeats; the row, unfenced but guarded |
| Host fencing epochs (`engram-host-agent/src/session_epochs.rs`) | one file per session | read, compare, rename in every lifecycle RPC | the epoch that the coordinator sends |
| Host reaper (`teardown_reconcile.rs`) | strikes per unbound VM | reap after confirmed absence, repair a binding | lookup RPC to the coordinator |
| Eviction (`idle_detector.rs`, `idle_evictor.rs`, host `eviction_finalize.rs`, `engram-host-core/src/finalize.rs`) | Evicting rows; the durable staged job on the host | nominate, capture, finalize, settle to Idle, fallback | evict op, finalize reports |
| Host bindings and capture locks (`bindings.rs`, `capture_lock.rs`) | session to sandbox record, lock table | bind, unbind, lock for checkpoint, evict, destroy | RPC handlers of one host |
| Teleport (`teleport.rs`, host `migration.rs`) | phase cursor in the op, VMs at source and destination | export, import, commit, release, abort | op log, both hosts |
| Placement, queue and boot (`placement.rs`, `queue_scanner.rs`, `session_boot.rs`, `api/sessions.rs`) | budgets that session rows reserve on a host, `queued_at`, boots in progress | pick and reserve, enqueue, sweep, place, dequeue, time out, boot, revive an orphaned pending row | transactions with row locks on `hosts`, guarded writes of the session row, create_boot and Resume ops |
| Outbox delivery (`outbox_delivery.rs`) | prompt rows and their acknowledgements | deliver, confirm, redeliver | deliver ops, harness stream |
| Chunk store and garbage collection (`engram-chunk-store`, `chunk_gc.rs`, `bundle_gc.rs`, `snapshot_blob_gc.rs`, retention sweeps) | chunks, manifests, marks, pins | upload, record, mark, grace, delete | object store and Postgres, never in one transaction |
| Image enable and capture jobs (`enable_scanner.rs`, `capture_job.rs`) | jobs with assignment epochs | assign, report, give up | heartbeats |
| Session volumes (`engram-host-core`, `engram-disk-thin`) | thin-pool volumes, checkpoint chains | create, snapshot, publish, reap | device mapper |
| Fleet operator (`engram-host-operator`) | victim records, cordons, roll waves | scale, drain, upgrade | Kubernetes and the coordinator API |
| Backends, guest agents, API, front ends, simulator | - | drivers and presentation; `engram-dst` simulates the above and has its own oracles | - |

What is hard here. Several *actors* write one session row: the executor of an
op, an older executor of the same op that was only slow, the heartbeat handler
of a host, and the dead-host loop and straggler sweep of each replica. Most
handlers are *several transactions*, so a replica may die between two of them,
and every later one may act on a copy that has become stale. A *partitioned*
host runs its VMs on while the coordinator gives the session to another host.
A VM is destroyed by telling its host so in a heartbeat response, which may be
lost, and the acknowledgement is the *absence* of the VM in a later list.

What correctness means, component by component:

* *op log*: one running op per session; one executor whose writes land; a late
  executor changes nothing; a finished op stays finished; keys deduplicate;
  every op is tried until it ends;
* *host epochs*: once the host has seen the newest epoch and no older call is
  half-way through the gate, no older call ever gets through;
* *ownership*: never two VMs that believe they are the session's; a binding is
  given up only with its VM gone or condemned; a lost host's session is settled;
  VMs nobody names are destroyed;
* *eviction*: what was captured is kept until it is published, a row that says
  recoverable is whole, a session turns Idle only on its own capture, and an
  evicting session does not stay so;
* *teleport*: the guest never runs twice, the source goes only when nothing
  needs it, a move ends unless it meets one of the few errors that no retry
  mends, and it leaves one VM;
* *garbage collection*: nothing reachable from a recorded manifest is deleted,
  and what is not reachable goes;
* *outbox*: a prompt is not lost, not run twice by one process, and its row is
  pursued to an end as long as its session can be brought back;
* *placement*: a reservation fits when it commits, one boot owns the session, and
  whoever waits is booted, sent back or ended.

`PROJECT.json` lists the components with their status, and under `hazards` the
places in the code where one of these could go wrong and a test would hardly
get there.

## 2. Plan

| Order | Module | State |
|---|---|---|
| 1 | `SessionOps`, with the abstract `SessionLane` it implements | written, checked, proved |
| 2 | `HostEpochs` | written, checked, proved |
| 3 | `SandboxOwnership` (composes claims, resume, detectors, tombstones, hosts) | written, checked, proved |
| 4 | `EvictionFinalize` (evict op, host capture and finalize job, heartbeat settle, resume) | written, checked, proved |
| 5 | `Teleport` (driver, both hosts, overtaken drivers, sweeps) | written, checked, proved |
| 6 | `ChunkGc` (writers, retention, two replicas' sweeps) | written, checked, proved |
| 7 | `Outbox` (API, Deliver op, host link, harness process, event ingest) | written, checked, proved |
| 8 | `Placement` (create, queue sweeps, boots, resume pick, hosts) | written, checked, proved |
| 9 | `CaptureJobs`, bundle and blob collectors, operator | later |

"Proved" is said of the safety properties that runs check; section 7 has the
theorems. No module contains a `RECURSIVE` operator, so theorems can be stated
about all of them. What is left of the plan is row 9.

## 3. Modules and the code

`PROJECT.json` (`map`) gives the source lines of every definition.

### SessionOps

The table `session_ops` and `sessions.current_epoch`. Claims are the heart: a
claim of the head (`op_claim_head`), an enqueue that finds the lane empty
(`op_enqueue_and_claim`) and an inline exclusive claim
(`op_enqueue_and_claim_exclusive`) are each *two* steps here. The first is what
the transaction reads (`ClaimHeadBegin`, `EnqueueBegin`, `ExclusiveBegin`), the
second its epoch bump, stamp and commit (`CommitClaim`), or its failure on the
partial unique index (`ClaimLost`, which rolls the bump back and re-inserts an
enqueue without a claim). Everything else may happen between the two, so the
index is what decides the race, as in the code. Row locks of `FOR UPDATE SKIP
LOCKED` are the open `head` transactions.

`held` are the claims that executors believe they have. A superseded executor
stays in `held` and goes on trying: each of `RecordStep`, `Heartbeat`,
`OpFinish`, `OpRequeue` has the fence of its SQL statement, `FencedWrite` that
of the session row. `ReclaimStale` is one row of `op_reclaim_stale`. A requeue has
no budget, as in `drive_one`; what `MaxAttempts` bounds is how often the model
claims an op.

Time is abstracted to two sets: `due` (`not_before` has passed) and `fresh`
(the heartbeat is recent). `HeartbeatLapses` may make a row stale under a live
executor; that is the timeout racing a late answer. `row` and the `step` field
hold the epoch of the claim that last wrote, which is all the properties need
of a payload.

### SessionLane

What the rest of the coordinator relies on: a lane per session held by at most
one op, an epoch that grows with each grant, writes only by the holder under
the latest epoch. `LaneRefinement` maps `holder` to the set of running ops,
`current` to `epoch` and `written` to `row`.

### HostEpochs

`SessionEpochStore::check_and_advance` of one session: read, compare, replace
by rename, with no lock across the two. `ReadOnly`, `ReadEqual` and `ReadNewer`
are the read with its outcomes, `Advance` and `AdvanceFails` the rename,
`Restart` the agent's. `sealed` is a history variable: the highest epoch that
was in the file while no older call was between its read and its rename.

### SandboxOwnership

One session's row, and everything that writes its binding.

| Variables | Code |
|---|---|
| `row`, `epoch`, `marker`, `snap` | `sessions`, `session_ops.step`, the latest snapshot row |
| `hosts`, `vm` | `hosts` (status, lease) with reachability; the VMs as they are, with the owner their host was told |
| `tombs`, `seen`, `doomed` | `sandbox_tombstones`, `sandbox_unbound_sightings`, tombstones a host has received |
| `task`, `exec` | the handlers and sweeps in progress and their stale copies; executors of resume ops, by epoch |
| `young`, `faults` | which handlers predate the HostLost stamp (T3); the fault budget |
| `astray` | history: VMs the row let go of while they ran and no tombstone named them |

Groups of actions: the heartbeat (`HeartbeatSend`, `HeartbeatTouch`,
`ReconcileStrike`, `FlipProbe`, `FlipClear`, `FlipLose`, `HeartbeatTail`), the
dead-host detector (`LeaseExpires`, `EvictPing`, `MarkDead`), the straggler
sweep (`SweepList`, `SweepEntomb`, `SweepUnbind`, `SweepUnhost`), the settle
both end in (`SettleRead`, `SettleWrite`), the resume op (`Claim` to
`RebuildRelease`), nomination and the two ways an evicting row falls back to
HostLost, the host (`HostDestroys`, `HostReaps`), and failures (`VmDies`,
`Cut`, `Heal`, `HostRestarts`, `TaskDies`, `ExecDies`). Each action is at most
one database transaction or RPC with the local decisions after it, so each
window between two of them is a state.

`Claim` stands for a claim transaction of `SessionOps`: what it takes from that
module is that claims of a session have different, growing epochs and that a
reclaimed executor may be alive. `Holds(e)` is the fence `current_epoch = $e`.
`CanTransition` is `SessionState::can_transition_to` restricted to the statuses
modelled. `Retain`, `RequireUnbound` and `Detach` are the dispositions of
`transition_session`.

Assumptions on time, each a conjunct in the action named:

* **T1** a heartbeat handler ends before the lease it renewed (`LeaseExpires`);
* **T2** a resume binds what it restored within the entomb grace (`MayEntomb`,
  `HostReaps`);
* **T3** a HostLost row is swept (60 s) only after the handlers that were
  running when it was stamped have ended (`Straggler`);
* **T4** a host has one heartbeat in flight (`HeartbeatSend`).

`LetGo` records in `astray` what three writes of the code let go of without a
tombstone (section 6, `own_release`); `SingleOwner` speaks of the other VMs, and
`StraysReaped` of all.

The assumptions are not enforced by the code but by its constants. They exclude a boot that
is slower than `UNBOUND_ENTOMB_GRACE` and a heartbeat handler that outlives the
host's 30 s client timeout.

### EvictionFinalize

One session, its sandboxes, and the captures that evictions take of them.

| Variables | Code |
|---|---|
| `sess`, `evict`, `asc`, `row`, `tomb` | the session row; the evict op; a returning user's ascent between its probe and its flip; snapshot rows; tombstones |
| `vm`, `disk`, `chain` | the VM; its transient and its published checkpoint volume, named by their capture; the chain of memory checkpoints (`behind`: the dirty bitmap was consumed and the manifest is older) |
| `cap`, `pend`, `fin`, `job` | a capture whose record is not yet written; `pending_finalizes`; the durable finalize record; the running job with its stage in memory |
| `adv`, `hb`, `store` | checkpoint records to advertise; each advert's heartbeat; parts in the object store |
| `redriven`, `spoilt`, `used`, `faults` | the startup redrive has run; sandboxes for which the exceptions below hold; budgets |

`Capture` and `PersistRecord` are `snapshot_begin`, each leg of the job is one
step with its upload and one with its persist where a crash between the two
matters (`DiskLeg`, `PersistDisk`), `Fail` is the retry or quarantine of
`attempt`, `PersistCheckpoint`, `DeleteRecord` and `TerminalDestroy` are
`run_terminal`. `Restart` is everything before the agent serves (chain heads,
volume sweep), `ResumePendingFinalizes` the redrive, which is *spawned* and may
come later. `RecordSnapshot`, `Settle`, `Acknowledge` are one advert's way
through the heartbeat. `spoilt` marks the sandboxes for which the code gives up
its promise: torn down before the record was durable, torn down or captured
again before the redrive, with a quarantined capture, or with one that was
unwound or dropped.

A lost call has two sides. `LoseAnswer` is the coordinator's: the attempt ends while
the host goes on. The handler runs inside the connection's task
(`grpc_server.rs:375`), so when the connection goes the host may also drop it:
`CaptureUnwinds` is that drop while the guard `CaptureUnwind` is armed
(`pooled_backend.rs:177`), or a create that fails, which poisons the chain first;
`DropPersist` is the drop after the guard was defused, during the write of the
record. A drop before the create consumes nothing and is an attempt that failed.
The unwind's discard and resume are a spawned task outside the capture lock; they
are one step here, and since a retry's capture may overlap them in the code, every
unwound sandbox is spoilt.

### Teleport

One move of one session, from `Src` to whatever VMs its restores make on the
destination, and `New`, a VM that an unrelated resume binds.

| Variables | Code |
|---|---|
| `row`, `drv` | the teleport row (phase, kind, export, destination); the driver: where it is between two calls, the VM of its restore, its attempts |
| `late`, `gate` | the last call of an overtaken driver, on its way or past its host's gate (`in`); the hosts that have served the newer epoch since it was sent or let in |
| `vm`, `mem` | VMs (`staged`, `fetched`, `pulling`, `cut` are those of a live restore; `refrozen` is a source that a late call paused after its host served the successor); the source's presetup, held snapshot or export, and whether its state was served (`taken`: a late capture has the presetup) |
| `sess`, `snap`, `tomb`, `up` | the session row, whether a recoverable snapshot exists, tombstones, hosts that are up |
| `lost` | a driver crashed or missed an answer (history) |

The driver's actions carry the names of the functions of `teleport.rs`; each is
one call or one database statement. An overtaken driver keeps the call it was
about to make; `Refuses` is the epoch gate of `HostEpochs`, abstracted to "a host
that served the newer epoch refuses the older", which `SealHolds` proves of it. The
gate is asked once, when a call arrives (`LateEnter`, `grpc_server.rs:360` and `600`);
the call waits for its locks and acts later (`LateSource`, `LateDest`), whatever the
host has served meanwhile, or is dropped (`LateDropped`, `CallsEnd`).
`Owned` is the coordinator's answer to the host's sweeps.

### ChunkGc

`pins` are the manifests that the three lists of `collect_manifest_refs` name,
`store` the chunks, `cand` the candidate rows, `gen` the chunk generation,
`lease` the sweep claim with its cursor, `sweep` the replicas' sweeps. `put` are
manifests whose chunks are uploaded and whose row is not yet written. A sweep is
one step per query, listing, delete or row removal. The mark pass's collection is
a single step: what it misses is marked, and the promote pass decides. `since`
is a history variable: the rows that have been listed ever since the sweep's
last collection began. Grace periods and staleness may end at any moment.

### Outbox

`rows` is `session_outbox`, `op`, `owner`, `exec` the Deliver op (of `SessionOps`
it takes that one op runs and that a reclaimed executor may be alive, unfenced
towards the outbox), `withdraw` the dequeue request between its read, its call
and its delete, `link`, `wire`, `harness` the connection and the process
(`seen_prompt_ids`, the queue, events not yet acknowledged), `post` and `log` the
ingest of an event: append, then ack, in two steps. `started` records what the
processes consumed. `AttachSignal` is the waiting-state announcement that makes
every row due and wakes the op. `status` is active, idle, *owned* (evacuating, lost
with its host or another state that some scanner moves on) or terminal:
`AwaitResume` and `AwaitScanner` back off without counting an attempt of the row,
and a resume may fail every time (`ResumeFails`).

### Placement

| Variables | Code |
|---|---|
| `row`, `queue`, `late` | session rows with the budgets they reserve; the queued ones by `queued_at`; those past the queue timeout |
| `hosts` | schedulable or not, `allocatable_mib` (0: unmeasured), CPU budget |
| `tx` | the open pick of each placer: rows still to lock, rows held, the host it chose |
| `sweep`, `at` | what is left of a scanner's listing, and its place within the entry at the front |
| `boot`, `op` | the boot pipelines of each session (`Direct` is the request's task); its create_boot ops, by key |
| `resume`, `resumes`, `faults` | the Resume op as far as it looks for a place; budgets |

`LockHost` takes one row at a time in key order, `CreatePick` and `PlacePick` are
the sum and the choice, `CreatePlaced`, `CreateQueued` and `PlaceCommit` the
commit; `Unlocked` keeps heartbeats and cordons from a row that a pick holds. A
sweep is one step per entry and statement. `Partitioned` is `partition_queue`,
`StopClass` and `StopSweep` are its two breaks. `RestoreAndBind` to `Condemn` are
`boot_on_reserved_host` with what the request's task and create_boot make of its
end. The budget of boot attempts is abstract: any failure may be the last one. A
place is given up by `Evict` (the whole eviction, which is `EvictionFinalize`) or
`Destroy`. `booked` marks what a create or a scanner reserved, in contrast to a
resume, which previews, picks and binds without a reservation. Every host has
disk, and the order of candidates is open.

## 4. Runs

| Run | Checks | Bounds | Shows |
|---|---|---|---|
| `ops_lane` | `TypeOK`, `FencesAgree`, `SingleWriter`, `KeysUnique`, `NoWriteAfterSuccessor`, `LaneRefinement`, `TriedUntilEnded` | 1 session, 1 pod, 2 ops, 2 attempts, 2 open transactions, 1 crash | claims race and executors are superseded; one writer, the lane is implemented, every op is tried until it ends |
| `host_epochs` | `SealHolds`, `NoOlderAccepted` | 3 calls, 3 epochs | a sealed epoch is final across races, write errors and restarts |
| `own_safety` | `TypeOK`, `SingleOwner`, `LetsGoCondemned` | 1 host, 3 VMs, 1 sweep, 2 claims, grace 2, 1 fault | a partition, a crash or a restart while detectors and two resumes, one perhaps reclaimed and alive, write the binding |
| `own_release` | `NeverClearedUntombed` (violated) | 1 host, 2 VMs, 1 sweep, 2 claims, no fault | the first finding of section 6 |
| `own_live` | `HostLostSettles`, `StraysReaped` | 1 host, 2 VMs, 1 sweep, 1 claim, grace 2, 1 fault | HostLost is transient; VMs nobody names go |
| `evict_safety` | `TypeOK`, `CaptureKept`, `RowsWholeUnlessSpoilt`, `HeadIsDurable`, `SettlesOnOwnCapture` | 2 sandboxes, 2 captures, 2 op attempts, 1 finalize attempt, 1 return, 1 fault | what an eviction captured is kept and recorded whole, unless the sandbox was spoilt |
| `evict_live` | `EvictionEnds`, `CaptureLands` | 1 sandbox, 2 captures, 2 op and 2 finalize attempts, 1 fault | evictions end; durable captures reach the coordinator, unless the sandbox was spoilt |
| `teleport` | `TypeOK`, `HostsNeverFork`, `SettledRuns`, `SourceKept`, `MoveEndsUnlessStranded`, `NothingLeftBehind` | 4 destination VMs, 1 retry of a restore, 1 resume, 3 faults | one guest, no source lost too early, moves end but for the named exceptions and clean up |
| `teleport_fork` | `NoLiveFork` (violated) | as `teleport` | the finding of section 6 |
| `gc_sweep` | `TypeOK`, `KeptSinceCollect`, `CursorNeverSkips`, `GarbageCollected` | 1 chunk, 1 manifest, 2 replicas, 3 shards one per tick, 2 rounds, 2 pins, 1 fault | what is listed is kept, no shard is skipped, garbage goes |
| `outbox` | `TypeOK`, `RunsOncePerProcess`, `AckedHasOutcome`, `RowPursued` | 1 prompt beside a run that may be going on, 2 executors, 2 attempts, 1 fault | redelivery is safe, and a row stays open only while its session does not come back |
| `placement` | `TypeOK`, `SomePickGoesOn`, `CommitsFit`, `FirstBootWins`, `AdmissionEnds` | 2 sessions of one class, 2 hosts for one session each (one without a CPU budget, one cordoned at first), 1 scanner, 1 executor beside the request's boot, 1 resume, 1 fault | row locks are not waited for in a circle, reservations fit, boots do not take each other's row, waiting ends |

Why the bounds are enough to be interesting:

* *Op log.* Sessions are independent (no statement reads two sessions' rows
  except the reclaim, which treats each by itself), so one session suffices.
  Two ops give a head and a successor in one lane; two attempts give a
  superseded executor and its successor; two open transactions are a race for
  the index. One pod is enough for that: its tasks race with each other, and
  only `Crash` looks at pods. The proofs drop all these bounds. `TriedUntilEnded`
  speaks of an op until it has ended or used up the attempts of the model; that an
  older op which is retried for ever does not starve a younger one is argued in
  `session_ops.rs:885` with the length of backoffs, which the model does not have.
* *Host epochs.* Three calls of three epochs are two racing and one that comes
  later. Proved without the bound.
* *Ownership.* The re-use and rebuild plans of a resume start at the second claim,
  when the first may still be alive. A grace of two ticks needs two strikes with a
  reset between them. The invariant of the proof, which implies `SingleOwner`, was
  checked on larger instances too (edits of `MCSandboxOwnership.cfg`): two hosts
  with two VMs, one claim and one fault (466k states), three claims and three VMs
  without a fault (1.6M), two sweeps, two claims and one fault (6.0M). What
  `LetsGoCondemned` needs besides (`RInv`) was checked on the run's own instance and
  simulated with two hosts, two sweeps, four claims and two faults.
* *Eviction.* Two captures are the retried eviction of one sandbox or those of a
  sandbox and of the one a resume made after it; one finalize attempt makes a
  single failure a quarantine, two (`evict_live`) let it be retried. The invariant
  of the proof was checked on one sandbox with two captures and four faults (11.4M
  states), and on the run's own instance.
* *Teleport.* A restore may be started by the driver, by the driver that overtook
  it, by the late call of the first and by a retry: four destination VMs. Three
  faults suffice for a lost answer, a dead host and a crash in one behaviour.
* *Collection.* The collector's decisions are per chunk; what matters is how its
  sweep interleaves with the rows that list the chunk, and two pins move a
  manifest from one list to another or replace it. Three shards of which a tick
  walks one make the cursor wrap.
* *Outbox.* Two executors are a reclaimed one and its successor. With one prompt
  and the run of the boot every branch of the harness (start, steer, queue,
  replay, dequeue, turn end) happens.
* *Placement.* Two hosts that fill up with one session each are a queue as soon as
  one is cordoned, an order of locks, and a best fit to choose. The request's boot
  and one executor overlap; the create, the scanner and the resume compete for the
  last place. A cordon, a new measurement and a retry each cost the fault. Larger
  instances are edits of `MCPlacement.cfg`, without `AdmissionEnds`: two scanners
  on one host (693k states) and two executors (594k) show no violation.

`CHECK_DEADLOCK FALSE` except in `gc_sweep`: with the claim, fault and attempt
budgets spent, a model may really stop. Progress is what the liveness properties
are for. Symmetry is declared in `host_epochs`, `own_safety` and `own_release`,
never in a run with a liveness property.

## 5. Fairness

*SessionOps*, `LiveSpec`: a transaction that was begun ends; a pod rescans its
lanes every `RESCAN_INTERVAL`, so a due head of a free lane is claimed; an attempt
ends, in a finish or a requeue, because its RPCs and most attempts have deadlines
(that any attempt is the last one is not assumed); the sweep runs every
`RECLAIM_SWEEP_INTERVAL`; backoffs elapse, and the heartbeat of a row nobody
drives lapses. All of it is weak fairness. Nothing is assumed of steps,
heartbeats, cancels, wakes from events or new enqueues.

*SandboxOwnership*, `FairSpec`: every handler, sweep, settle, executor and host
step that has not died goes on (weak). Three strong assumptions: a host
succeeds again and again in listing its VMs (`running_known`); a dead-host loop
sweeps stragglers in every cycle, whatever candidates it has; a VM that stays
unbound is at some point seen past the entomb grace. Nothing is assumed of
partitions healing, new claims, leases or VMs dying: `StraysReaped` therefore
speaks of a host that stays in reach.

*EvictionFinalize*, `FairSpec`: the op executor, the scanner, the recovery sweep,
the heartbeat loop and spawned jobs run on (weak). Users, captures beyond the
budget and faults are not assumed to happen.

*Teleport*, `FairSpec`: the requeued op and the scanner keep driving an open
move; a restore fetches, loads, drains or times out; hosts act on tombstones and
on ownership answers; the lost-host settle and the missing-VM flip run. All weak,
and only for steps that are not faults. That a harness ever attaches is not assumed:
an attach step may always end in `AttachWaits`.

*ChunkGc*, `FairSpec`: a claim is tried every interval by some replica, a sweep
that began goes on, candidates expire, and a claim grows stale.

*Outbox*, `FairSpec`: executors, timers, the shim's scan, reclaim of a dead
executor, redial, the process's reads and the event ingest go on (weak). Strong
for `Resume \/ ResumeFails`: the op is only claimable while Deliver waits in its
backoff, and whoever ends an op drives the next due op of the lane; it may fail each
time. Nothing is assumed of the scanner that owns a displaced session, nor of the
agent's turns, which may last for ever: a prompt queued behind one ends by its
delivery budget.

*Placement*, `Spec`: the request with its boot task, the scanner and the op lane
run on while their process lives, the backstop is a timer, and time passes (all
weak). Nothing is assumed of cordons, measurements, evictions or deletes, so the
queue is left by its timeout if by nothing else.

## 6. What the checks found

Two runs have a property that is a sentence of the repository's own comments and a
counterexample that is what the code does (`findings` has the quotations).

**A binding is cleared without a tombstone** (`own_release`). `dead_host.rs:224`
says that this never happens. A resume that was reclaimed passes its step `bind`;
its successor dispatches the row, Idle and unbound; the first binds the VM it
restored, which the row's status permits; the restore of the second fails for good,
and its transition to Dead detaches whatever is bound (`api/snapshot.rs:1887`).
Two more writes do the same: `fenced_assign_sandbox` names no expected sandbox, so
it clears the binding that another executor has written since
(`api/snapshot.rs:1035`), and so does the release at the end of a rebuild; and a
rebuild, or a sweep, of a row whose host a stale sweep nulled has no host to
tombstone (`session_verbs.rs:158`). `LetsGoCondemned` excepts exactly these. The VM
runs on, told that it is the session's, until the entomb grace or the host's reaper
gets it (`StraysReaped`). With two hosts it may for that time run beside a
successor: that is why `SingleOwner` leaves the VMs in `astray` out. The attempt to
prove it without that clause showed these windows.

**A lost capture answer forks the guest** (`teleport_fork`). The capture is done,
its answer is lost, `capture_live` rolls back, and the rollback's abort wakes the
source though the restore spawned beside the capture has loaded. `HostsNeverFork`
says what remains: without a lost answer or a crash of the driver the hosts' own
marks keep the guest single.

Further disagreements with comments, each found by TLC on these modules with a
property for it; they have no run of their own:

* **A quarantined diff leaves a stale chain.** Quarantine (`eviction_finalize.rs:655`)
  deletes the staged diff, whose dirty pages the bitmap no longer knows, and keeps
  the in-memory chain, so the next eviction's diff is taken over a manifest that
  lacks them, and its row says recoverable. `pooled_backend.rs:3623` says that the
  eviction "is immune only AFTER its finalize record is durable"; it is not immune
  then either. `RowsWholeUnlessSpoilt` excepts it.
* **A dropped capture leaves a stale chain.** `pooled_backend.rs:3614-3626` says that
  after a failed capture the chain entry is dropped, since the diff consumed the
  dirty bitmap, and "the next capture finds no chain and takes a FULL snapshot". A
  handler that is dropped with its connection runs no error arm: `CaptureUnwind::drop`
  (`:177-236`) discards the disk checkpoint and resumes the guest, and does not touch
  `checkpoint_chains`. The retried eviction's diff is taken over a manifest that
  lacks those pages, and its row says recoverable. A handler dropped after the guard
  was defused (`:4857`) leaves the same chain and a paused guest, and perhaps a
  record that nothing drives before a restart. `session_ops.rs:836-850` keeps the
  coordinator from cancelling these calls because of the unwind; a lost connection
  is not kept off by that. TLC finds the row with one fault when the sandbox is not
  marked; `RowsWholeUnlessSpoilt`, `CaptureKept` and `CaptureLands` except it.
* **A quarantined record is redriven.** `eviction_finalize.rs:619` says that nothing
  re-drives a quarantined record. The quarantine removes the staging directory, and
  then the record with `delete_acked`, which only logs a failure
  (`durable_record.rs:120`). If the record stays, a restarted agent redrives it from
  its stage; past the memory stage it succeeds without the state blobs, and the
  heartbeat's HEADs, which do not look at those, make the row recoverable. Two
  faults are needed; the proof of `HeadIsDurable` met them, and the property now
  excepts the blobs of a spoilt sandbox.
* **Backoff overtakes.** A requeued op waits while younger ops of its lane run;
  `session_op.rs:9` says "strictly in `id` order".
* **The epoch file can go back.** Of two calls in the gate at once the older may
  rename last; `session_epochs.rs:39` says "Highest fencing epoch ever
  accepted". `SealHolds` says how far: not below the calls already inside.
* **A sweep nulls a new binding's host.** The straggler sweep writes `host_id` by
  session id with no guard (`dead_host.rs:303`) from a copy of the row, while
  `reconcile.rs:29` says stale replicas "can't null a freshly-landed binding".
* **Created and unbound.** The park at Created retains the binding the row has by
  then, none if the host was lost meanwhile; `session_verbs.rs:199` calls the
  state "unrepresentable".
* **A flip is not retried.** If the second transaction of `flip_missing` does not
  happen the row is Active and unbound and the next tick does not list it;
  `reconcile.rs:394` says "will retry next tick".
* **The generation is no proof.** `chunk_gc.rs` (above line 684) takes an unchanged
  generation as proof that no manifest moved since the collect, but reads it
  after the collect, and cold bases never bump it.
* **A settle that fails is not retried by the host.** `host_http.rs` says of a
  failed settle that "the host's re-advert retries it", but the advert is
  acknowledged when its row is recorded. The scanner's next eviction settles it.
* **A cancelled evict op is no proof that nothing ran.** `api/snapshot.rs` takes a
  cancellable queued row as proof that the eviction never ran. After a lost
  answer the op is queued again with a finalize under way; the ascent's probe and
  flip are two steps, and the session can end up Active without a sandbox.
* **A move may strand for good**, while ADR 0123 lists the terminal outcomes as the
  only ones: the destination's host is dead in Admitted or Captured; the export
  is gone when a never-loaded restore asks for its abort; the destination VM of a
  committed move was reaped. `Stranded` is the condition. A committed move also
  waits without a bound for the generation of its harness, or for a `start_agent`
  that fails (`teleport.rs:1079`, `1110-1115`); `MoveEndsUnlessStranded` excepts a
  move that waits again and again for ever.
* **A row is given up** (seen in reading). `session_verbs.rs:803-807` says of failed
  deliveries: "deliberately no terminal give-up: the row stays until acked or the
  session dies". From `DELIVER_ROW_MAX_ATTEMPTS` tries on, `deliver` appends
  `prompt_undeliverable` and retires the row (`session_verbs.rs:890`). The waits in
  the states that are not active do not count as tries, so the comment holds of
  those.
* **A withdrawn prompt runs.** The dequeue reads an undelivered row, Deliver
  forwards it, the harness starts it, and the API answers "dequeued". The comment
  in `api/prompt.rs` says the harness must confirm the drop first; the forward is
  fire and forget.
* **A deferred head is overtaken.** `outbox_next_due` takes the oldest *due* row;
  the comments in `deliver` say that only the head is ever forwarded.
* **A prompt can be run by two processes.** If the process dies, or the session is
  evicted, between the append of `run_started` and the ack of the row, the next
  process runs the prompt again; `state.rs:1308` says "exactly once".
* **A timeout can fail a placed session.** `time_out_session` moves whatever status
  the row has by then to Failed, and pending is legal: a sweep that was overtaken
  by a sibling's placement ends the session. The comment above
  `queue_scanner.rs:795` says "Losing the race now means no event at all — correct,
  since the session is actually proceeding".
* **Resumes overbook.** Two resumes, or a resume and a create, preview the same last
  place, which neither locks or reserves; `api/snapshot.rs:1665` says "Resume now
  honors the SAME hard reserved-budget bound as create". `CommitsFit` therefore
  counts what creates and the scanner booked.
* **Two retries that do not come.** If the Resume op is not enqueued after the
  dequeue the session is Idle and no sweep lists it, though `queue_scanner.rs:726`
  says "next sweep retries"; after a failed enqueue of create_boot it is the
  backstop that retries, not a sweep.

Windows that contradict no comment; they are the exceptions in the properties or
only described here:

* `settle_host_lost` reads recoverability and writes the target in two
  statements: a checkpoint recorded between them leaves the session Dead with a
  recoverable snapshot.
* `rebuild_binding` tombstones, then tears down: if the teardown is not
  confirmed, the next claims of the op can re-use the binding and bring the
  session to Active on a VM that is condemned, until its host is told.
* with a reconcile grace of one tick (the least the setting allows; the default is
  three) a stale list and a probe that fails because of a partition are enough to
  let go of a healthy VM.
* `resume_from_idle` logs that it marks the session Dead, but
  `transition_to_dead_if_no_snapshot` does nothing while a demoted snapshot row
  exists; a repeated advert whose HEAD fails demotes a row that was recoverable.
* the startup redrive of finalize records is spawned: a destroy or a capture that
  comes first takes their volumes.
* `fail_move` detaches an Active session that a resume has bound to a VM of its
  own; a source host that dies between a rollback's Active and its abort leaves
  the session Active on a dead host.
* a chunk that a writer found present can be deleted before the manifest is
  recorded; the candidate's grace of 24 hours is what stands against it.
* a manifest that moves, between two queries of one collection, from a list that is
  queried later to one that was queried before is seen in neither; `KeptSinceCollect`
  speaks of a row that is listed throughout, and again the grace stands against it.
* a hold or a capture of an overtaken driver that has passed the source's gate and
  waits for the capture lock (`pooled_backend.rs:4774`, `5094`, `5141-5147`) pauses
  the guest after the successor has rolled the move back: the session is Active on a
  paused VM. The export's TTL wakes the source of a capture; nothing wakes that of a
  hold. `SettledRuns` excepts exactly this state (`refrozen`), and TLC reaches it.
* a resume that is retried up to its budget never demotes an Idle session: the streak
  of terminal failures is consulted only by a resume that fails before the budget
  (`session_verbs.rs:236-266`), and an Idle session at the budget is left alone.
  Deliver then knocks for ever; `RowPursued` says that this, and a session that no
  scanner returns, are the only ways a row stays open.
* redeliveries of a prompt that waits in the harness's queue use up its budget: it
  is reported undeliverable and runs when the turn ends.
* a direct create has no create_boot op: a boot slower than `PENDING_ORPHAN_GRACE`
  is joined by one from the backstop, which fails the session if it finds it
  Created, though the first boot is healthy.
* a resume that is dequeued and queued again has a new `queued_at`: its timeout
  starts over.

## 7. Proofs

`tlapm` checks every obligation of the modules named `...Proofs`. The theorems
hold for all sets of pods, sessions, kinds, keys, calls, hosts, VMs, executors,
prompts, chunks, captures and restores, and all values of the bounds.

**Assumptions** are those of the modules: there is a session; `Deliver`,
`BootKind`, `CancelKind`, `ExclusiveKind` are kinds in use; `NoKey` is not a
key; there are finitely many executors of an outbox (`IsFiniteSet(Worker)`, for
the budget of tries is a count of them); every list of the collector is queried;
the bounds are natural numbers. No fairness is used. What Postgres guarantees is
in the actions: a row lock keeps others from the head, the unique index is
evaluated at commit, an insert under a key waits for uncommitted ones. So are the
assumptions T1 to T4 on time: `SingleOwner` is proved of a system that keeps them.

**SessionOps.** `OneRunning`, `RunningHoldsEpoch` and `FencesAgree` are not
inductive by themselves (`OneRunning` and `RunningHoldsEpoch` are proved in
`LaneExclusion`; the run reads both off the same states as `LaneRefinement`). Their
strengthening is `IInv`:

* `TxOK` what an open transaction read about its own row is still so (a locked
  head is queued, an inserted row invisible), and no two transactions work on
  one row: else `CommitClaim` could stamp a finished op or another's;
* `IdOK` rows from `nextId` on do not exist, so an insert is not an update;
* `HeldOK` claims of a session have pairwise different epochs, none above the
  session's: this makes the bump of a claim or a reclaim fence out *all* older
  executors at once, which is what `FencesAgree` and `SingleWriter` rest on;
* `WrittenOK` nothing was written under an epoch yet to come, which gives the
  monotonicity of `NoWriteAfterSuccessor`;
* `KeysOK` uniqueness of keys including uncommitted rows, which `KeysUnique`
  leaves out and which an insert needs.

Steps shared by several actions are lemmas of their own: `InsertIInv` (both
inserts), `StampIInv` (claim and reclaim), `RollbackIInv` (lost exclusive claim
and crash), `TimeIInv` (steps that change only `due`, `fresh`, `flagged`),
`GiveUpIInv` and `StopIInv` (finish, requeue). From `Spec => []IInv`:
`TypeCorrect`, `LaneExclusion`, `FenceAgreement`, `WriterExclusion`,
`KeyUniqueness`; with `StepRows` (what a step may do to a committed row)
`SuccessorWins` and `FinishedForGood`; with `LaneStep` (every step is a grant,
regrant, write, release or stutter of the lane) `LaneImplemented`.

**HostEpochs.** `IInv` is `TypeOK`, `SealHolds`, `FileWasAccepted` and
`ClaimedOK` (no call carries an epoch that was not claimed, which
`FileWasAccepted` needs of the next rename). `SealIsFinal` and `FileAccepted`
follow, and `OlderRefused` from `SealHolds` in the state before the answer.

**Outbox.** `TypeCorrect` contains a bound that is not a type: no row is tried more
than `MaxTries` times. Each executor that has taken a row will count one more try,
so `BudgetOK` adds the cardinality of the executors that hold the row to the
attempts it has. `ConsumesOnce` needs of the harness that the ids it has queued are
different and seen, and that what the present process consumed is seen and queued
no more (`OnceOK`): the replay after a redial then finds each of them.
`RetiredWithOutcome` needs that the event of a post in progress is the oldest
unacked one and in the log (`PostOK`).

**ChunkGc.** `ListedIsKept` is about a collection that takes several queries while
rows move between the lists. `CollectOK` says how far it got: of the rows that have
been listed ever since it began, those whose list was queried are in `refs`, the
chunks of manifests already fetched are in the pin set, and at its end the chunks
of all of them are, for this tick's shards; `BatchOK` says that a batch has only
chunks of these shards. Nothing is needed of the generation. `CursorFollowsSweep`
needs `LeaseOK`: the holder of the lease, if it sweeps, began at the cursor.

**SandboxOwnership.** The argument is about tombstones. A heartbeat deletes the
tombstone of each VM its list does not have, and the list is older than the delete:
a tombstone can be acknowledged by a list made before the VM came up. `CondemnedOK`
is the invariant that implies `SingleOwner` (`OneOwner`): a running VM that was
told it is the session's, or is about to be told, that the row does not name and
that did not go astray, has a tombstone, and either every heartbeat in flight of
its host has it listed or its host is marked dead, which refuses heartbeats. T1
gives the second for what `MarkDead` condemns (`HandlersOK`), T3 the first for what
a sweep unbinds (`YoungOK`, `SweepsOK`). One lemma per variable says which actions
write it and how (`RowStep`, `TombsStep`, `ListedStep`, `TaskStep`, ...), and
`NextIInv` combines them.

`ReleasesCondemned` is a second argument, about strikes. `flip_missing` clears a
binding without a tombstone, on the word of lists and of a probe that a partition
fails too. It is proved under the hypothesis `Grace >= 2`, since with one tick it is
false; the default is three. `StruckGone`, a VM that struck out while the row names
it does not run, needs that a VM which runs and was struck once is on every list
that may strike it again (`StrikesOK`: the list that struck it was made before it
came up, the next one was not, and a host has one heartbeat in flight). But a strike
addresses the row by session id alone, so it must meet the VM it is for: while a
handler is between its read and its strike the row stays bound to what it read
(`StrikesRow`). Who could take that binding away? Another handler's host is not the
VM's (`ListsOK`); the host is not marked dead under its handler (T1); a sweep lists
only what no such handler is left for (`YoungListed`, `SweptOK`, from T3); the holder
of the lane has no resume under way on an attended session (`HolderOK`, with
`ClaimsOK`), so its fenced writes do not apply; and an unfenced rebind names a VM that
no one else names (`FreshOK`) on an unbound row. The other releases are easier: what
an op clears with a host in its copy was torn down (`TornDown`), and `SweepsOK` has
the tombstone of what a sweep clears.

**EvictionFinalize.** The properties are about what a capture left on the host and
in the store. `LockOK`: the capture lock of a sandbox has one holder, a capture or
a job. `RecordsOK`: a sandbox that is not spoilt has one record that has still to be
published. So the volumes are that record's (`VolumesOK`, which contains
`CaptureKept`), a chain is behind its bitmap only while the capture that consumed it
holds the sandbox or has its record, unless the capture was unwound, which spoils
the sandbox (`ChainOK`, which makes the next capture of any other whole), a job is
at its record's stage or past the blobs when that stage could not be made durable
(`JobOK`), and what stages and adverts name is stored (`StoreOK`, `PublishedOK`).
`MintOK`, sandboxes and captures are numbered as they come, makes the newest
recoverable capture one of the sandbox that settles (`SettlesOnOwn`). Two lemmas
carry most actions: `Climb` for a job that works on its own record and `SteadySnap`
for the captures a step does not touch. `Newest`, the maximum of a set of captures,
is taken from the well-founded order of the naturals.

**Teleport.** `PcPhase` ties where the driver stands to the phase on the row: the
row is written only by the step of its phase, so an overtaking driver always finds
what the overtaken one left. `SessPhase` says which VM the session can be bound to
in which phase, `TombOK` that a destination is gone as soon as it is tombstoned (a
restore never reuses the name) and the source tombstoned only by an end. `LateOK` is
about the call still under way: an `unwind` or a `release` can only be of a phase
the move reached, and once a rollback has woken the source, until and after its end,
the source refuses whatever is late and not yet inside. Of what is inside only a hold
or a capture can still touch a source that was woken, and what they leave is
`refrozen`. With these, `VmOK` says that what a session is
or is about to be settled on runs or is a refrozen source; `SettledSessionRuns` is
read off it, and
`SourceIsKept` from the three actions that can destroy a source (`SourceDestroyed`).
`HostsAloneNeverFork` needs a second invariant, `Clean`, of the behaviours without a
lost driver: while the export is open the source is frozen; while it is open and
unserved no destination has the state, which is what makes `abort_unserved` and the
TTL sweep safe; before the commit at most the driver's own destination is under way,
which makes the abort after a never-loaded restore safe; and next to a rollback that
wakes the source nothing runs or can begin to. `NoLiveFork` shows that the
hypothesis is needed.

**Placement.** `CommitsFit` is about a sum that is formed in one step and committed
in another. `PickedOK` says of a pick that has chosen: its host is among the rows it
holds, and what is booked there with the session to be placed is within the budgets.
It stays so because nobody else can book there or rewrite the row (`HeldOnce`: a host
row has one holder; `HeldUp`: what is held was schedulable when it was locked, and
heartbeats and cordons wait), because only placers book (`BookedOK`: what is booked
reserves), and because the row of the session the pick is for is not booked yet
(`RequestsOK` for a create, `SweepsOK` for the entry at the front of a sweep; the
flip from queued decides whether a sibling was faster). A resume binds without
booking, so it changes the sums that later picks see and not what is booked.
`Load` is a cardinality; the lemmas about it (it is a natural number, it grows with
the set, one session more adds at most its need) come from the library's finite-set
theorems. `NoPickDeadlock` adds `InOrder`: the rows a placer still wants are greater
than those it holds. Of the rows that are waited for, the holder of the greatest
waits for none; `Greatest` is its existence, again from the well-founded order of the
naturals. `FirstBindingStays` needs `BoundOK`, a bound row is created or active, and
what each writer of a row may find. `TypeCorrect` contains that the queue is an order
of the queued rows: appending and taking out keep it free of repetition, and
`QueueLength` turns that into the equality of length and cardinality. Every step is
classified once, as a step of the table, of a host, of a transaction or of a scan,
and the invariant is proved of the classes. Of the constants the proofs use that
sessions and hosts are finitely many, hosts are numbers, and budgets and needs are
natural.

**Only model-checked:**

* the liveness properties (`TriedUntilEnded`, `HostLostSettles`, `StraysReaped`,
  `EvictionEnds`, `CaptureLands`, `MoveEndsUnlessStranded`, `NothingLeftBehind`,
  `GarbageCollected`, `RowPursued`, `AdmissionEnds`), since the prover handles
  neither fairness nor `ENABLED`.

Every other property of a passing run is the statement of a theorem.

## 8. What is not modelled

Of the components modelled:

* statuses parked, unreachable and evacuating by anything but a move, and with
  them parking; the teardown half of destroy; retirement and handoff deadlines of
  hosts; device residue. `SandboxOwnership` starts from a session that was booted,
  `Placement` ends there;
* the disk-only cold boot of a resume, and the resume budget that takes Created
  to Failed;
* strikes of a parked or unreachable session, and a heartbeat that records a
  snapshot it finds not recoverable (`SandboxOwnership`: `snap` only improves);
* eviction on backends without a deferred capture (the composed snapshot), to which
  the pipeline also turns when the host has no binding for the sandbox
  (`idle_evictor.rs:485-501`; `BeginFails` ends the attempt), several disk roles,
  periodic checkpoints between evictions, a job that a redrive starts twice;
* teleport: deferred admission, DELETE of a session that moves, the page server's
  own protocol, a second move;
* collection: bundles and snapshot blobs, which rows retention chooses, the
  duration of a pass against its budget;
* outbox: edits, dequeues of a row that is already retired, tool results, mode
  changes, prompts that ride the boot, the codex adapter;
* host lists that are older than the heartbeat that carries them or that
  under-report; sightings, strikes and the repair of bindings in the host's own
  reaper;
* placement: reservations of capture jobs and of moves, the reasons other than a
  cordon that exclude a host, preferences by bundle and disk, image resolution,
  secrets and egress of a boot; a resume that fails for good or boots cold
  (`ResumeFails` leaves the row Idle), and its bind and its flip to Active as two
  statements; a create_boot that finds its placed session without a host, which takes
  the deletion of a retired host; a listed stay that grows too old after the session
  has left the queue;
* payloads, events and log lines; the numeric values of timeouts (see T1-T4).

Of the rest: image enable and capture jobs and the fleet operator, both of which
have protocol state and are the plan's next modules. Drivers (Firecracker,
userfaultfd, device mapper), the guest, the egress proxy, cloud adapters, the
orchestrator and the front ends are I/O or presentation without protocol state of
their own and are not planned; tests and these are most of the repository's 276 000
lines, so the modelled share of all lines stays small while it covers most of the
coordinator's and host's distributed protocols. `engram-dst`, the repository's
deterministic simulator, is a source of properties (`SingleOwner` is its
`single_ownership` oracle) and not itself a subject.
