-------------------------- MODULE EvictionFinalize --------------------------
(***************************************************************************)
(* Eviction of an idle session: the coordinator's evict operation, the     *)
(* host-owned finalize job that publishes the captured snapshot, and the   *)
(* heartbeat reconcile that settles the session Idle.                      *)
(*                                                                         *)
(* The host pauses the VM, captures it and writes a finalize record before *)
(* it answers; the operation ends there and the session stays Evicting.    *)
(* The job climbs a ladder of durable stages, each one repeatable after a  *)
(* crash, and ends with a checkpoint record that every heartbeat           *)
(* advertises until it is acknowledged.  One session is modelled on one    *)
(* host; each resume gives it a new sandbox.                               *)
(***************************************************************************)
EXTENDS Integers, FiniteSets

CONSTANTS
    MaxSandboxes,        \* bound: sandboxes the session is bound to in turn
    MaxCaptures,         \* bound: snapshot ids minted
    MaxFinalizeAttempts, \* max_attempts of a finalize job (10 in the code)
    MaxEvictAttempts,    \* EVICT_MAX_ATTEMPTS (20 in the code)
    MaxReturns,          \* bound: attempts of a returning user to stop an eviction
    MaxFaults            \* bound: failures, lost messages and restarts

ASSUME EvictionConstants ==
    /\ MaxSandboxes \in Nat \ {0}
    /\ MaxCaptures \in Nat \ {0}
    /\ MaxFinalizeAttempts \in Nat \ {0}
    /\ MaxEvictAttempts \in Nat \ {0}
    /\ MaxReturns \in Nat
    /\ MaxFaults \in Nat

VARIABLES
    sess,     \* the session row: status and bound sandbox
    evict,    \* its latest evict operation: state, nominated, attempts, sandbox
    asc,      \* a returning user's ascent holds the operation lane
    row,      \* snapshots rows: absent, or whether recoverable
    tomb,     \* sandbox_tombstones
    vm,       \* the sandbox's VM
    disk,     \* its disk: the capture of the transient volume, of the checkpoint volume
    chain,    \* its diff chain: none, in step with the dirty bitmap, or behind it
    cap,      \* the capture a snapshot_begin has taken and not yet recorded
    pend,     \* pending_finalizes (in memory)
    fin,      \* the finalize record of each snapshot, and the captured content
    job,      \* the finalize job of each snapshot (in memory)
    adv,      \* checkpoint records on disk: advertised until acknowledged
    hb,       \* the heartbeat handler working on each advertised snapshot
    store,    \* what the blob store holds of each capture
    redriven, \* the host agent has redriven its records since it started
    spoilt,   \* history: sandboxes with a quarantined, overtaken or unwound capture
    used,     \* sandboxes, captures and returns so far
    faults    \* faults so far

hostVars == <<vm, disk, chain, cap, pend, fin, job, adv, store, redriven, spoilt>>
coordVars == <<sess, evict, asc, row, tomb, hb>>
vars == <<sess, evict, asc, row, tomb, hb, vm, disk, chain, cap, pend, fin, job,
          adv, store, redriven, spoilt, used, faults>>

Sandbox == 1 .. MaxSandboxes
Snap == 1 .. MaxCaptures
None == 0

\* FinalizeStage, in the order of its ladder.
Ladder == {"Captured", "DiskUploaded", "MemoryChunked", "BlobsUploaded"}
Status == {"Active", "Evicting", "Idle", "HostLost", "Dead"}
OpState == {"none", "queued", "running", "capturing", "captured", "done",
            "stale", "failed", "cancelled"}
OpEnded == {"none", "done", "stale", "failed", "cancelled"}
Parts == {"disk", "memory", "blobs"}

\* The records resume_pending_finalizes and reconcile_volumes load.
OnDisk(s) == fin[s].st \in Ladder

\* Some finalize job or capture holds the capture lock of the sandbox.
Locked(sb) ==
    \/ cap[sb] # None
    \/ \E s \in Snap : fin[s].sb = sb /\ job[s].pc \notin {"none", "wait"}

Fault == faults < MaxFaults /\ faults' = faults + 1

SessType == [st : Status, sb : Sandbox \cup {None}]
OpType == [st : OpState, nom : BOOLEAN, att : 0 .. MaxEvictAttempts, sb : Sandbox \cup {None}]
DiskType == [taken : 0 .. MaxCaptures, ckpt : 0 .. MaxCaptures]
RecordType == [st : Ladder \cup {"none", "failed", "deleted"}, sb : Sandbox \cup {None},
               att : 0 .. MaxFinalizeAttempts - 1, prev : 0 .. MaxCaptures, diff : BOOLEAN,
               whole : BOOLEAN, staged : BOOLEAN, disk : 0 .. MaxCaptures, mem : BOOLEAN]
JobType == [pc : {"none", "wait", "run", "delete", "destroy"}, st : Ladder,
            att : 0 .. MaxFinalizeAttempts - 1, disk : 0 .. MaxCaptures]
UsedType == [sandboxes : 0 .. MaxSandboxes, captures : 0 .. MaxCaptures,
             returns : 0 .. MaxReturns]

\* Every variable is of its type.
TypeOK ==
    /\ sess \in SessType
    /\ evict \in OpType
    /\ asc \in BOOLEAN
    /\ row \in [Snap -> {"absent", "lost", "recoverable"}]
    /\ tomb \subseteq Sandbox
    /\ vm \in [Sandbox -> {"gone", "running", "paused", "orphan"}]
    /\ disk \in [Sandbox -> DiskType]
    /\ chain \in [Sandbox -> {"none", "synced", "behind"}]
    /\ cap \in [Sandbox -> 0 .. MaxCaptures]
    /\ pend \in [Sandbox -> 0 .. MaxCaptures]
    /\ fin \in [Snap -> RecordType]
    /\ job \in [Snap -> JobType]
    /\ adv \subseteq Snap
    /\ hb \in [Snap -> {"none", "sent", "recorded", "acked"}]
    /\ store \subseteq Parts \X Snap
    /\ redriven \in BOOLEAN
    /\ spoilt \subseteq Sandbox
    /\ used \in UsedType
    /\ faults \in 0 .. MaxFaults

NoRecord == [st |-> "none", sb |-> None, att |-> 0, prev |-> 0, diff |-> FALSE,
             whole |-> FALSE, staged |-> FALSE, disk |-> 0, mem |-> FALSE]
NoJob == [pc |-> "none", st |-> "Captured", att |-> 0, disk |-> 0]

\* An operation that ended; one that was enqueued.
Ended(st) == [st |-> st, nom |-> FALSE, att |-> 0, sb |-> None]
Queued(nom) == [st |-> "queued", nom |-> nom, att |-> 0, sb |-> None]

\* An active session runs on its first sandbox; no capture was taken yet.
Init ==
    /\ sess = [st |-> "Active", sb |-> 1]
    /\ evict = Ended("none")
    /\ asc = FALSE
    /\ row = [s \in Snap |-> "absent"]
    /\ tomb = {}
    /\ vm = [sb \in Sandbox |-> IF sb = 1 THEN "running" ELSE "gone"]
    /\ disk = [sb \in Sandbox |-> [taken |-> 0, ckpt |-> 0]]
    /\ chain = [sb \in Sandbox |-> IF sb = 1 THEN "synced" ELSE "none"]
    /\ cap = [sb \in Sandbox |-> None]
    /\ pend = [sb \in Sandbox |-> None]
    /\ fin = [s \in Snap |-> NoRecord]
    /\ job = [s \in Snap |-> NoJob]
    /\ adv = {}
    /\ hb = [s \in Snap |-> "none"]
    /\ store = {}
    /\ redriven = TRUE
    /\ spoilt = {}
    /\ used = [sandboxes |-> 1, captures |-> 0, returns |-> 0]
    /\ faults = 0

-----------------------------------------------------------------------------
(* The evict operation on the coordinator.                                  *)

\* An idle session is nominated: it turns Evicting and its op is enqueued.
Nominate ==
    /\ sess.st = "Active" /\ sess.sb # None /\ vm[sess.sb] # "gone"
    /\ evict.st \in OpEnded
    /\ sess' = [sess EXCEPT !.st = "Evicting"]
    /\ evict' = Queued(TRUE)
    /\ UNCHANGED <<asc, row, tomb, hb, hostVars, used, faults>>

\* An operator evicts an active session: only the op is enqueued.
AdminEvict ==
    /\ sess.st = "Active" /\ sess.sb # None
    /\ evict.st \in OpEnded
    /\ evict' = Queued(FALSE)
    /\ UNCHANGED <<sess, asc, row, tomb, hb, hostVars, used, faults>>

MayEnter == sess.st = "Evicting" \/ (~evict.nom /\ sess.st = "Active")

\* The op is claimed.  The entry guard skips a session that moved; a nominated
\* one without a sandbox falls back to HostLost.
ClaimEvict ==
    /\ evict.st = "queued" /\ ~asc
    /\ IF MayEnter /\ sess.sb # None
       THEN /\ evict' = [evict EXCEPT !.st = "running", !.att = evict.att + 1,
                                         !.sb = sess.sb]
            /\ sess' = sess
       ELSE /\ evict' = Ended("done")
            /\ sess' = IF MayEnter /\ evict.nom
                       THEN [sess EXCEPT !.st = "HostLost"] ELSE sess
    /\ UNCHANGED <<asc, row, tomb, hb, hostVars, used, faults>>

\* The verdict on a failed attempt: retry, or, once the budget is spent, fail,
\* with a nominated session falling back to HostLost on its retained binding.
EndAttempt ==
    IF evict.att < MaxEvictAttempts
    THEN /\ evict' = [evict EXCEPT !.st = "queued", !.sb = None]
         /\ sess' = sess
    ELSE /\ evict' = Ended("failed")
         /\ sess' = IF evict.nom /\ sess.st \in {"Active", "Evicting"}
                    THEN [sess EXCEPT !.st = "HostLost"] ELSE sess

\* The host refuses or cannot answer: the sandbox is gone or unbound, the host
\* restarted under the call, or it can take no more captures.
BeginFails ==
    /\ \/ /\ evict.st = "running"
          /\ \/ vm[evict.sb] \in {"gone", "orphan"}
             \/ used.captures = MaxCaptures
          /\ pend[evict.sb] = None
       \/ evict.st = "capturing" /\ cap[evict.sb] = None
    /\ EndAttempt
    /\ UNCHANGED <<asc, row, tomb, hb, hostVars, used, faults>>

\* The coordinator loses the call while the host goes on with it; CaptureUnwinds and
\* DropPersist are the host's side of a connection that goes with it.
LoseAnswer ==
    /\ evict.st \in {"running", "capturing", "captured"}
    /\ Fault
    /\ EndAttempt
    /\ UNCHANGED <<asc, row, tomb, hb, hostVars, used>>

\* finish_eviction_d5: the op ends, the session stays Evicting.
FinishEviction ==
    /\ evict.st = "captured"
    /\ evict' = Ended("done")
    /\ sess' = IF sess.st = "Active" THEN [sess EXCEPT !.st = "Evicting"] ELSE sess
    /\ UNCHANGED <<asc, row, tomb, hb, hostVars, used, faults>>

\* EVICT_SETTLE_GRACE passes after the op ended.
GraceEnds ==
    /\ evict.st = "done" /\ sess.st = "Evicting"
    /\ evict' = Ended("stale")
    /\ UNCHANGED <<sess, asc, row, tomb, hb, hostVars, used, faults>>

\* The evict ops after which the scanner mints another one.
RemintsButStale == {"none", "failed", "cancelled"}
Remints == {"none", "stale", "failed", "cancelled"}

\* The scanner advances an Evicting session.
ScannerAdvance ==
    /\ sess.st = "Evicting"
    /\ \/ /\ sess.sb = None
          /\ sess' = [sess EXCEPT !.st = "HostLost"]
          /\ evict' = evict
       \/ /\ sess.sb # None /\ evict.st \in Remints
          /\ evict' = Queued(TRUE)
          /\ sess' = sess
    /\ UNCHANGED <<asc, row, tomb, hb, hostVars, used, faults>>

\* A user returns: the queued evict op is cancelled, the lane claimed, and the
\* VM probed; a live one lets the ascent go on.
AscendProbe ==
    /\ sess.st = "Evicting" /\ evict.st = "queued" /\ ~asc
    /\ used.returns < MaxReturns
    /\ used' = [used EXCEPT !.returns = used.returns + 1]
    /\ evict' = Ended("cancelled")
    /\ asc' = (sess.sb # None /\ vm[sess.sb] # "gone")
    /\ UNCHANGED <<sess, row, tomb, hb, hostVars, faults>>

\* The ascent flips the session back to Active, from any status with that edge.
AscendFlip ==
    /\ asc
    /\ asc' = FALSE
    /\ sess' = IF sess.st \in {"Evicting", "Idle"}
               THEN [sess EXCEPT !.st = "Active"] ELSE sess
    /\ UNCHANGED <<evict, row, tomb, hb, hostVars, used, faults>>

\* The ascent's coordinator dies; the redriven resume finds nothing to cancel.
AscendDies ==
    /\ asc
    /\ Fault
    /\ asc' = FALSE
    /\ UNCHANGED <<sess, evict, row, tomb, hb, hostVars, used>>

-----------------------------------------------------------------------------
(* The host: capture, finalize job, teardown and restart.                   *)

\* snapshot_begin finds the sandbox's finalize still in flight.
BeginObserves ==
    /\ evict.st = "running" /\ pend[evict.sb] # None
    /\ evict' = [evict EXCEPT !.st = "captured"]
    /\ UNCHANGED <<sess, asc, row, tomb, hb, hostVars, used, faults>>

\* The memory of a capture is whole when it is a full one, or when the diff was
\* taken over the chain's newest manifest.  The durable chain head goes first, and
\* the dirty bitmap is consumed: the chain in memory is behind from here on.
Capture(sb) ==
    LET s == used.captures + 1 IN
    /\ evict.st = "running" /\ evict.sb = sb
    /\ vm[sb] \in {"running", "paused"} /\ pend[sb] = None /\ ~Locked(sb)
    /\ used.captures < MaxCaptures
    /\ used' = [used EXCEPT !.captures = s]
    /\ evict' = [evict EXCEPT !.st = "capturing"]
    /\ vm' = [vm EXCEPT ![sb] = "paused"]
    /\ disk' = [disk EXCEPT ![sb].taken = s]
    /\ fin' = [fin EXCEPT ![s] = [NoRecord EXCEPT !.sb = sb, !.prev = disk[sb].ckpt,
                                    !.diff = (chain[sb] # "none"),
                                    !.whole = (chain[sb] # "behind"), !.staged = TRUE]]
    /\ chain' = [chain EXCEPT ![sb] = IF chain[sb] = "none" THEN "none" ELSE "behind"]
    /\ cap' = [cap EXCEPT ![sb] = s]
    /\ spoilt' = IF \E r \in Snap : fin[r].sb = sb /\ OnDisk(r)
                 THEN spoilt \cup {sb} ELSE spoilt
    /\ UNCHANGED <<sess, asc, row, tomb, hb, pend, job, adv, store, redriven, faults>>

Answered(st) == IF st = "capturing" THEN "captured" ELSE st

\* The record is durable: the sandbox is pending, the job starts under the
\* capture's lock, and the call answers.
PersistRecord(sb) ==
    LET s == cap[sb] IN
    /\ s # None
    /\ cap' = [cap EXCEPT ![sb] = None]
    /\ fin' = [fin EXCEPT ![s].st = "Captured"]
    /\ pend' = [pend EXCEPT ![sb] = s]
    /\ job' = [job EXCEPT ![s] = [NoJob EXCEPT !.pc = "run"]]
    /\ evict' = [evict EXCEPT !.st = Answered(evict.st)]
    /\ UNCHANGED <<sess, asc, row, tomb, hb, vm, disk, chain, adv, store, redriven,
                   spoilt, used, faults>>

\* The chain after the staging directory of a diff was removed.
NotPoisoned(s, c) == c
Poisoned(s, c) == IF fin[s].diff THEN "none" ELSE c

\* The record cannot be written: the staged capture is removed.
PersistRecordFails(sb) ==
    LET s == cap[sb] IN
    /\ s # None
    /\ Fault
    /\ cap' = [cap EXCEPT ![sb] = None]
    /\ fin' = [fin EXCEPT ![s].staged = FALSE]
    /\ chain' = [chain EXCEPT ![sb] = Poisoned(s, chain[sb])]
    /\ UNCHANGED <<coordVars, vm, disk, pend, job, adv, store, redriven, spoilt, used>>

\* The create fails, or the call's connection is lost and the handler dropped, while
\* nothing owns the capture.  A task outside the capture lock discards its disk and
\* resumes the guest.  Only a failed create poisons the chain; a dropped one leaves
\* it in memory, behind the bitmap it consumed.
CaptureUnwinds(sb) ==
    LET s == cap[sb] IN
    /\ s # None
    /\ Fault
    /\ cap' = [cap EXCEPT ![sb] = None]
    /\ vm' = [vm EXCEPT ![sb] = IF vm[sb] = "paused" THEN "running" ELSE vm[sb]]
    /\ disk' = [disk EXCEPT ![sb].taken = 0]
    /\ \E c \in {chain[sb], Poisoned(s, chain[sb])} : chain' = [chain EXCEPT ![sb] = c]
    /\ spoilt' = spoilt \cup {sb}
    /\ UNCHANGED <<coordVars, pend, fin, job, adv, store, redriven, used>>

\* The handler is dropped while it writes the record, its guard defused: the guest
\* stays paused, and a record that was written has no job until a restart.
DropPersist(sb) ==
    LET s == cap[sb] IN
    /\ s # None
    /\ Fault
    /\ cap' = [cap EXCEPT ![sb] = None]
    /\ \E st \in {"none", "Captured"} : fin' = [fin EXCEPT ![s].st = st]
    /\ spoilt' = spoilt \cup {sb}
    /\ UNCHANGED <<coordVars, vm, disk, chain, pend, job, adv, store, redriven, used>>

Stepping(s, st) == job[s].pc = "run" /\ job[s].st = st

\* plan_finalize_retry: att counts the failed pass.
QuarantinesLate(att) == att > MaxFinalizeAttempts
Quarantines(att) == att >= MaxFinalizeAttempts

\* A failed pass: another attempt from the stage in memory, its count persisted
\* when the disk allows; or, out of attempts, quarantine: the sandbox is no longer
\* pending, the record moves to failed/ (or stays, when its removal fails) and the
\* staged capture goes.
Fail(s, st) ==
    LET att == job[s].att + 1 IN
    \/ /\ ~Quarantines(att)
       /\ job' = [job EXCEPT ![s] = [pc |-> "run", st |-> st, att |-> att, disk |-> 0]]
       /\ \/ fin' = [fin EXCEPT ![s].st = st, ![s].att = att]
          \/ fin' = fin
       /\ UNCHANGED <<pend, spoilt>>
    \/ /\ Quarantines(att)
       /\ job' = [job EXCEPT ![s] = NoJob]
       /\ pend' = [pend EXCEPT ![fin[s].sb] = None]
       /\ \E kept \in {fin[s].st, "failed"} :
              fin' = [fin EXCEPT ![s].st = kept, ![s].staged = FALSE]
       /\ spoilt' = spoilt \cup {fin[s].sb}

\* The disk leg: publish the transient volume; one that is gone was published by
\* an earlier attempt only if the checkpoint volume is newer than at the capture.
DiskLeg(s) ==
    LET sb == fin[s].sb
        d == IF disk[sb].taken # 0 THEN disk[sb].taken ELSE disk[sb].ckpt
    IN
    /\ Stepping(s, "Captured") /\ job[s].disk = 0
    /\ \/ /\ disk[sb].taken # 0 \/ disk[sb].ckpt > fin[s].prev
          /\ disk' = [disk EXCEPT ![sb] = [taken |-> 0, ckpt |-> d]]
          /\ store' = store \cup {<<"disk", d>>}
          /\ job' = [job EXCEPT ![s].disk = d]
          /\ UNCHANGED <<fin, pend, spoilt>>
       \/ /\ disk[sb].taken = 0 /\ disk[sb].ckpt <= fin[s].prev
          /\ Fail(s, "Captured")
          /\ UNCHANGED <<disk, store>>
    /\ UNCHANGED <<coordVars, vm, chain, cap, adv, redriven, used, faults>>

\* The disk stage is durable.
PersistDisk(s) ==
    /\ Stepping(s, "Captured") /\ job[s].disk # 0
    /\ job' = [job EXCEPT ![s].st = "DiskUploaded", ![s].disk = 0]
    /\ fin' = [fin EXCEPT ![s].st = "DiskUploaded", ![s].disk = job[s].disk]
    /\ UNCHANGED <<coordVars, vm, disk, chain, cap, pend, adv, store, redriven, spoilt,
                   used, faults>>

\* The memory leg publishes the staged memory, if it is there, and its stage is durable.
PersistMemory(s) ==
    /\ Stepping(s, "DiskUploaded")
    /\ job' = [job EXCEPT ![s].st = "MemoryChunked"]
    /\ fin' = [fin EXCEPT ![s].st = "MemoryChunked", ![s].mem = fin[s].staged]
    /\ store' = IF fin[s].staged THEN store \cup {<<"memory", s>>} ELSE store
    /\ UNCHANGED <<coordVars, vm, disk, chain, cap, pend, adv, redriven, spoilt, used,
                   faults>>

BlobsOf(s) == IF fin[s].staged THEN {<<"blobs", s>>} ELSE {}

\* The state and sidecar blobs are uploaded and the stage is durable.
UploadBlobs(s) ==
    /\ Stepping(s, "MemoryChunked")
    /\ job' = [job EXCEPT ![s].st = "BlobsUploaded"]
    /\ fin' = [fin EXCEPT ![s].st = "BlobsUploaded"]
    /\ store' = store \cup BlobsOf(s)
    /\ UNCHANGED <<coordVars, vm, disk, chain, cap, pend, adv, redriven, spoilt, used,
                   faults>>

\* A leg fails.  The disk and memory stages roll back in memory; a blobs stage whose
\* persist failed stays advanced in memory.
LegFails(s) ==
    /\ job[s].pc = "run"
    /\ Fault
    /\ \/ Fail(s, job[s].st) /\ store' = store
       \/ /\ job[s].st = "MemoryChunked"
          /\ Fail(s, "BlobsUploaded")
          /\ store' = store \cup BlobsOf(s)
    /\ UNCHANGED <<coordVars, vm, disk, chain, cap, adv, redriven, used>>

\* The stage from which the terminal leg writes the checkpoint record.
TerminalAfterMemory == "MemoryChunked"
TerminalStage == "BlobsUploaded"

\* The terminal leg: the checkpoint record is durable ...
PersistCheckpoint(s) ==
    /\ Stepping(s, TerminalStage)
    /\ adv' = adv \cup {s}
    /\ job' = [job EXCEPT ![s].pc = "delete"]
    /\ UNCHANGED <<coordVars, vm, disk, chain, cap, pend, fin, store, redriven, spoilt,
                   used, faults>>

\* ... then the finalize record is removed, best effort, and nothing is pending ...
DeleteRecord(s) ==
    /\ job[s].pc = "delete"
    /\ \/ fin' = [fin EXCEPT ![s].st = "deleted"] /\ faults' = faults
       \/ fin' = fin /\ Fault
    /\ pend' = [pend EXCEPT ![fin[s].sb] = None]
    /\ job' = [job EXCEPT ![s].pc = "destroy"]
    /\ UNCHANGED <<coordVars, vm, disk, chain, cap, adv, store, redriven, spoilt, used>>

\* The transient volume a teardown leaves behind: a pending finalize still
\* publishes from it.
ReleasedAlways(sb) == 0
Released(sb) == IF pend[sb] = None THEN 0 ELSE disk[sb].taken

\* destroy: the binding, the VM, its chain and, unless a finalize is pending, its
\* volumes go.  A VM the backend cannot destroy is left without the rest.
Destroy(sb, left) ==
    /\ vm' = [vm EXCEPT ![sb] = left]
    /\ chain' = [chain EXCEPT ![sb] = "none"]
    /\ disk' = [disk EXCEPT ![sb].taken = Released(sb)]
    /\ spoilt' = IF /\ pend[sb] = None
                    /\ cap[sb] # None \/ \E s \in Snap : fin[s].sb = sb /\ OnDisk(s)
                 THEN spoilt \cup {sb} ELSE spoilt

\* ... then the job destroys its sandbox and ends.
TerminalDestroy(s) ==
    /\ job[s].pc = "destroy"
    /\ Destroy(fin[s].sb, "gone")
    /\ job' = [job EXCEPT ![s] = NoJob]
    /\ UNCHANGED <<coordVars, cap, pend, fin, adv, store, redriven, used, faults>>

\* The terminal destroy fails; the tombstone owns the VM.
TerminalDestroyFails(s) ==
    /\ job[s].pc = "destroy" /\ vm[fin[s].sb] # "gone"
    /\ Fault
    /\ Destroy(fin[s].sb, "orphan")
    /\ job' = [job EXCEPT ![s] = NoJob]
    /\ UNCHANGED <<coordVars, cap, pend, fin, adv, store, redriven, used>>

\* The host destroys a sandbox it was told is disowned; its absence clears the row.
ReapTombstone(sb) ==
    /\ sb \in tomb
    /\ Destroy(sb, "gone")
    /\ tomb' = tomb \ {sb}
    /\ UNCHANGED <<sess, evict, asc, row, hb, cap, pend, fin, job, adv, store, redriven,
                   used, faults>>

\* The host agent restarts, with or without its VMs.  What was in memory is gone;
\* chains come back from the durable heads, and volumes of sandboxes that are
\* neither alive nor named by a finalize record are deleted.
Restart(survive) ==
    /\ Fault
    /\ LET alive == {sb \in Sandbox : survive /\ vm[sb] # "gone"}
           kept == alive \cup {fin[s].sb : s \in {r \in Snap : OnDisk(r)}}
       IN /\ vm' = [sb \in Sandbox |-> IF sb \in alive THEN vm[sb] ELSE "gone"]
          /\ chain' = [sb \in Sandbox |->
                          IF sb \in alive /\ chain[sb] = "synced" THEN "synced" ELSE "none"]
          /\ disk' = [sb \in Sandbox |->
                          IF sb \in kept THEN disk[sb] ELSE [disk[sb] EXCEPT !.taken = 0]]
    /\ cap' = [sb \in Sandbox |-> None]
    /\ pend' = [sb \in Sandbox |-> None]
    /\ job' = [s \in Snap |-> NoJob]
    /\ redriven' = FALSE
    /\ UNCHANGED <<coordVars, fin, adv, store, spoilt, used>>

\* The records whose job the restarted agent spawns.
RedrivablePastDisk == {s \in Snap : OnDisk(s) /\ job[s].pc = "none" /\ fin[s].st # "Captured"}
Redrivable == {s \in Snap : OnDisk(s) /\ job[s].pc = "none"}

\* The spawned redrive loads the records: each is pending again and its job waits
\* for the capture lock.
ResumePendingFinalizes ==
    /\ ~redriven
    /\ redriven' = TRUE
    /\ job' = [s \in Snap |->
                 IF s \in Redrivable
                 THEN [pc |-> "wait", st |-> fin[s].st, att |-> fin[s].att, disk |-> 0]
                 ELSE job[s]]
    /\ \E p \in [Sandbox -> 0 .. MaxCaptures] :
           /\ \A sb \in Sandbox :
                 LET mine == {s \in Redrivable : fin[s].sb = sb} IN
                 IF mine = {} THEN p[sb] = pend[sb] ELSE p[sb] \in mine
           /\ pend' = p
    /\ UNCHANGED <<coordVars, vm, disk, chain, cap, fin, adv, store, spoilt, used, faults>>

\* The capture lock is free: the redriven job runs.
StartJob(s) ==
    /\ job[s].pc = "wait" /\ ~Locked(fin[s].sb)
    /\ job' = [job EXCEPT ![s].pc = "run"]
    /\ UNCHANGED <<coordVars, vm, disk, chain, cap, pend, fin, adv, store, redriven,
                   spoilt, used, faults>>

-----------------------------------------------------------------------------
(* The heartbeat reconcile, recovery and resume.                            *)

\* The host's heartbeat carries the checkpoint record.
Advertise(s) ==
    /\ s \in adv /\ hb[s] = "none"
    /\ hb' = [hb EXCEPT ![s] = "sent"]
    /\ UNCHANGED <<sess, evict, asc, row, tomb, hostVars, used, faults>>

\* The handler checks the manifests in the store and records the row, recoverable
\* when every HEAD succeeds.
RecordSnapshot(s) ==
    /\ hb[s] = "sent"
    /\ hb' = [hb EXCEPT ![s] = "recorded"]
    /\ \/ row' = [row EXCEPT ![s] = "recoverable"] /\ faults' = faults
       \/ row' = [row EXCEPT ![s] = "lost"] /\ Fault
    /\ UNCHANGED <<sess, evict, asc, tomb, hostVars, used>>

\* settle_evicted_session_idle's CAS.
SettlesAny(s) == row[s] = "recoverable" /\ sess.st = "Evicting" /\ sess.sb # None
Settles(s) == row[s] = "recoverable" /\ sess = [st |-> "Evicting", sb |-> fin[s].sb]

\* The settle: detach, entomb and turn Idle in one transaction, or change nothing.
\* The advert is acknowledged either way, a failed settle included.
Settle(s) ==
    /\ hb[s] = "recorded"
    /\ hb' = [hb EXCEPT ![s] = "acked"]
    /\ \/ /\ Settles(s)
          /\ sess' = [st |-> "Idle", sb |-> None]
          /\ tomb' = tomb \cup {sess.sb}
          /\ faults' = faults
       \/ ~Settles(s) /\ UNCHANGED <<sess, tomb, faults>>
       \/ Settles(s) /\ Fault /\ UNCHANGED <<sess, tomb>>
    /\ UNCHANGED <<evict, asc, row, hostVars, used>>

\* The response reaches the host, which deletes the record.
Acknowledge(s) ==
    /\ hb[s] = "acked"
    /\ hb' = [hb EXCEPT ![s] = "none"]
    /\ adv' = adv \ {s}
    /\ UNCHANGED <<sess, evict, asc, row, tomb, vm, disk, chain, cap, pend, fin, job,
                   store, redriven, spoilt, used, faults>>

\* The handler dies, or its response is lost: the host advertises again.
LoseHeartbeat(s) ==
    /\ hb[s] # "none"
    /\ Fault
    /\ hb' = [hb EXCEPT ![s] = "none"]
    /\ UNCHANGED <<sess, evict, asc, row, tomb, hostVars, used>>

Recoverable == {s \in Snap : row[s] = "recoverable"}

\* The snapshot a resume restores: the newest recoverable one.
DurableHead == CHOOSE s \in Recoverable : \A r \in Recoverable : r <= s

\* The host's running set no longer has an Active session's sandbox.
ReconcileMissing ==
    /\ sess.st = "Active" /\ sess.sb # None /\ vm[sess.sb] = "gone"
    /\ sess' = [sess EXCEPT !.st = "HostLost"]
    /\ UNCHANGED <<evict, asc, row, tomb, hb, hostVars, used, faults>>

\* recovery_target: HostLost turns Idle over a recoverable snapshot, Dead without.
RecoverHostLost ==
    /\ sess.st = "HostLost"
    /\ sess' = [st |-> IF Recoverable # {} THEN "Idle" ELSE "Dead", sb |-> None]
    /\ tomb' = tomb \cup ({sess.sb} \ {None})
    /\ UNCHANGED <<evict, asc, row, hb, hostVars, used, faults>>

\* A resume restores the durable head into a new sandbox and seeds its chain, unless
\* the head's manifest is not to be had, and the first capture is a full one.
ResumeFromIdle ==
    LET sb == used.sandboxes + 1 IN
    /\ sess.st = "Idle" /\ Recoverable # {}
    /\ evict.st \in OpEnded /\ ~asc
    /\ used.sandboxes < MaxSandboxes
    /\ used' = [used EXCEPT !.sandboxes = sb]
    /\ sess' = [st |-> "Active", sb |-> sb]
    /\ vm' = [vm EXCEPT ![sb] = "running"]
    /\ \E c \in {"synced", "none"} : chain' = [chain EXCEPT ![sb] = c]
    /\ UNCHANGED <<evict, asc, row, tomb, hb, disk, cap, pend, fin, job, adv, store,
                   redriven, spoilt, faults>>

-----------------------------------------------------------------------------
\* The steps of the job of a snapshot.
JobStep(s) ==
    \/ StartJob(s) \/ DiskLeg(s) \/ PersistDisk(s) \/ PersistMemory(s) \/ UploadBlobs(s)
    \/ PersistCheckpoint(s) \/ DeleteRecord(s) \/ TerminalDestroy(s)

\* The steps of the heartbeat that carries a snapshot.
HeartbeatStep(s) ==
    Advertise(s) \/ RecordSnapshot(s) \/ Settle(s) \/ Acknowledge(s)

HostStep ==
    \/ \E sb \in Sandbox : Capture(sb) \/ PersistRecord(sb) \/ ReapTombstone(sb)
    \/ BeginObserves \/ ResumePendingFinalizes
    \/ \E s \in Snap : JobStep(s) \/ HeartbeatStep(s)

CoordinatorStep ==
    \/ ClaimEvict \/ BeginFails \/ FinishEviction \/ GraceEnds \/ ScannerAdvance
    \/ AscendFlip \/ ReconcileMissing \/ RecoverHostLost

UserStep == Nominate \/ AdminEvict \/ AscendProbe \/ ResumeFromIdle

FaultStep ==
    \/ LoseAnswer \/ AscendDies
    \/ \E sb \in Sandbox : PersistRecordFails(sb) \/ CaptureUnwinds(sb) \/ DropPersist(sb)
    \/ \E s \in Snap : LegFails(s) \/ TerminalDestroyFails(s) \/ LoseHeartbeat(s)
    \/ \E survive \in BOOLEAN : Restart(survive)

Next == HostStep \/ CoordinatorStep \/ UserStep \/ FaultStep

Spec == Init /\ [][Next]_vars

\* The op executor, the scanner, the recovery sweep, the heartbeat loop and the
\* spawned jobs all run for ever; nothing makes a user return or a fault happen.
Fairness ==
    /\ WF_vars(ClaimEvict) /\ WF_vars(BeginFails) /\ WF_vars(FinishEviction)
    /\ WF_vars(GraceEnds) /\ WF_vars(ScannerAdvance) /\ WF_vars(AscendFlip)
    /\ WF_vars(ReconcileMissing) /\ WF_vars(RecoverHostLost)
    /\ WF_vars(BeginObserves) /\ WF_vars(ResumePendingFinalizes)
    /\ \A sb \in Sandbox : WF_vars(Capture(sb)) /\ WF_vars(PersistRecord(sb))
                           /\ WF_vars(ReapTombstone(sb))
    /\ \A s \in Snap : WF_vars(JobStep(s)) /\ WF_vars(HeartbeatStep(s))

FairSpec == Spec /\ Fairness

-----------------------------------------------------------------------------
\* The content a row names is the capture's own: its disk and its memory belong to
\* the same pause and no dirty page is missing.
Whole(s) == fin[s].whole /\ fin[s].mem /\ fin[s].disk = s

\* A capture that still has to publish its disk can: until the disk stage is
\* durable, the transient volume or the published checkpoint of the capture is on
\* the host, across teardowns, restarts and volume sweeps.  It may be lost only
\* when the sandbox was torn down before its record was written, torn down or
\* captured again before a restarted agent had redriven its records, or when a
\* capture of it was quarantined, or unwound or dropped before its job started.
CaptureKept ==
    \A s \in Snap :
        fin[s].st = "Captured" /\ fin[s].sb \notin spoilt =>
            s \in {disk[fin[s].sb].taken, disk[fin[s].sb].ckpt}

\* A recoverable row names the whole capture, whichever stages were repeated after
\* a crash and whichever attempts failed, unless the sandbox was spoilt.  A dropped
\* capture spoils it: CaptureUnwind's drop consumed the dirty bitmap and leaves the
\* chain, and the next diff over that chain lacks the pages.
RowsWholeUnlessSpoilt ==
    \A s \in Recoverable : fin[s].sb \notin spoilt => Whole(s)

\* What a resume restores is in the blob store: every part the durable head names,
\* the state blobs included, which no HEAD of the reconcile checked.  The blobs may be
\* missing when the sandbox was spoilt: a quarantine removes them from staging, and a
\* record it could not remove is redriven by a restarted agent all the same.
HeadIsDurable ==
    Recoverable # {} =>
        LET s == DurableHead IN
        /\ <<"disk", fin[s].disk>> \in store
        /\ fin[s].mem => <<"memory", s>> \in store
        /\ fin[s].mem /\ fin[s].sb \notin spoilt => <<"blobs", s>> \in store

\* An eviction settles Idle only on a capture of the sandbox it detaches: an advert
\* that is repeated after the session moved to another sandbox settles nothing.
SettlesOnOwnCapture ==
    [][sess.st = "Evicting" /\ sess'.st = "Idle" =>
           fin[DurableHead'].sb = sess.sb]_vars

\* An eviction ends: the session leaves Evicting, settled, recovered or ascended,
\* whatever answer, settle, acknowledgement or restart failed on the way.
EvictionEnds == sess.st = "Evicting" ~> sess.st # "Evicting"

\* A durable finalize record ends as a row, across restarts, unless the sandbox was
\* spoilt, which a quarantine does, and a handler dropped before it started the job.
CaptureLands ==
    \A s \in Snap : OnDisk(s) ~> (row[s] # "absent" \/ fin[s].sb \in spoilt)
=============================================================================
