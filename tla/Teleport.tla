------------------------------ MODULE Teleport ------------------------------
(***************************************************************************)
(* A teleport: the durable move of a running session from one host to      *)
(* another, with the two host agents that carry it out.                    *)
(*                                                                         *)
(* The session_teleports row is the journal.  A driver claims the          *)
(* session's operation lane, reads the phase on the row and runs the step  *)
(* of that phase: some calls to the hosts, then one fenced write.  A       *)
(* driver that lost the lane writes nothing, but a call it has sent may    *)
(* still arrive, unless the host has already served its successor.  The    *)
(* host checks that once, as the call arrives; the call acts later.        *)
(*                                                                         *)
(* One session makes one move.  VM 1 is the source, the VMs of Dst are     *)
(* restored on the destination host, each by a restore call of its own,    *)
(* and New is what an ordinary resume starts on some third host.  A dead   *)
(* host has lost its VMs; partitioned hosts are the subject of HostEpochs  *)
(* and SandboxOwnership.                                                   *)
(***************************************************************************)
EXTENDS Integers, FiniteSets

CONSTANTS
    MaxRestores,        \* bound: VMs the destination holds at a time
    MaxRestoreAttempts, \* attempts before a lost destination fails the move (3)
    MaxResumes,         \* bound: resumes of the session by its user
    MaxFaults           \* bound: crashes, lost answers, restarts, timeouts

ASSUME TeleportConstants ==
    /\ MaxRestores \in Nat \ {0}
    /\ MaxRestoreAttempts \in Nat
    /\ MaxResumes \in Nat
    /\ MaxFaults \in Nat

VARIABLES
    sess,    \* the session row: status and bound VM
    row,     \* the teleport: phase, kind, whether an export was recorded, dest VM
    drv,     \* the driver that holds the lane: where it is, the VM it restores, attempts
    late,    \* a call of an overtaken driver, on its way or past its host's gate
    gate,    \* hosts that have served a newer epoch since that call was sent or let in
    vm,      \* every VM
    mem,     \* what the source's agent holds in memory for the source VM
    up,      \* hosts that are not dead
    snap,    \* the session's latest snapshot is recoverable
    tomb,    \* sandbox_tombstones
    lost,    \* history: a driver crashed, was overtaken, or missed an answer
    resumes, \* resumes so far
    faults   \* faults so far

vars == <<sess, row, drv, late, gate, vm, mem, up, snap, tomb, lost, resumes, faults>>

Src == 1
Dst == 2 .. MaxRestores + 1
New == MaxRestores + 2
VM == 1 .. New
None == 0

HostOf(v) == IF v = Src THEN "src" ELSE IF v \in Dst THEN "dst" ELSE "other"

Phase == {"none", "Admitted", "Captured", "Restored", "Committed", "Attached",
          "RollingBack", "Done", "Aborted", "Failed"}
Ended == row.ph \in {"Done", "Aborted", "Failed"}
Open == row.ph # "none" /\ ~Ended

\* Where a driver stands: waiting for the lane, reading the row, or inside the
\* step of the row's phase, named after what it did last.
Pc == {"idle", "top", "held", "spawned", "captured", "joining", "restored",
       "aborted", "failing", "unmoored", "detached", "unwound", "woken",
       "activated", "released"}

\* The calls of a step that reach a host after its driver was overtaken.
SourceCall == {"hold", "presetup", "capture", "abort", "unserved", "wake", "release"}
DestCall == {"move", "restore", "unwind"}
Call == SourceCall \cup DestCall
NoCall == [op |-> "none", live |-> FALSE, dest |-> None, in |-> FALSE]

\* A live destination is staged until it fetches the source's state, pulling
\* until it has all of the memory, and cut when it lost its page server; never
\* and failed are restores that ended before and after the load began.  A source
\* is refrozen by a late call that its host let in before it served the successor.
VmState == {"gone", "running", "frozen", "refrozen", "staged", "fetched", "pulling",
            "cut", "never", "failed"}
Executes(v) == vm[v] \in {"running", "pulling", "cut"}

\* Every variable is of its type.
TypeOK ==
    /\ sess \in [st : {"Active", "Created", "Evacuating", "HostLost", "Idle", "Dead",
                       "Failed"}, sb : VM \cup {None}]
    /\ row \in [ph : Phase, kind : {"live", "snapshot"}, exp : BOOLEAN,
                dest : Dst \cup {None}]
    /\ drv \in [pc : Pc, v : Dst \cup {None}, att : 0 .. MaxRestoreAttempts + 1]
    /\ late \in [op : Call \cup {"none"}, live : BOOLEAN, dest : Dst \cup {None},
                 in : BOOLEAN]
    /\ gate \subseteq {"src", "dst"}
    /\ vm \in [VM -> VmState]
    /\ mem \in {"none", "held", "presetup", "taken", "open", "served"}
    /\ up \subseteq {"src", "dst", "other"}
    /\ snap \in BOOLEAN
    /\ tomb \subseteq VM
    /\ lost \in BOOLEAN
    /\ resumes \in 0 .. MaxResumes
    /\ faults \in 0 .. MaxFaults
    \* A committed move names its destination, and only the lane's holder is
    \* inside a step.
    /\ row.ph \in {"Restored", "Committed", "Attached"} => row.dest # None
    /\ Ended => drv.pc = "idle"

Init ==
    /\ sess = [st |-> "Active", sb |-> Src]
    /\ row = [ph |-> "none", kind |-> "live", exp |-> FALSE, dest |-> None]
    /\ drv = [pc |-> "idle", v |-> None, att |-> 0]
    /\ late = NoCall
    /\ gate = {}
    /\ vm = [v \in VM |-> IF v = Src THEN "running" ELSE "gone"]
    /\ mem = "none"
    /\ up = {"src", "dst", "other"}
    /\ snap \in BOOLEAN
    /\ tomb = {}
    /\ lost = FALSE
    /\ resumes = 0
    /\ faults = 0

Fault == faults < MaxFaults /\ faults' = faults + 1
NoFault == UNCHANGED <<faults, lost>>
\* A fault the coordinator suffers: a crash, or an answer that never came.
DriverFault == Fault /\ lost' = TRUE

-----------------------------------------------------------------------------
(* The row and the session, written under the driver's epoch.              *)

Goto(pc) == drv' = [drv EXCEPT !.pc = pc, !.v = None]
\* A host serves a call of the current epoch, and none of an older one after.
Seen(h) == gate' = IF late = NoCall THEN {} ELSE gate \cup {h}
Quiet == UNCHANGED gate

\* teleport_advance: the phase moves and the driver reads the row again.
Advance(ph) == row' = [row EXCEPT !.ph = ph] /\ Goto("top")
RollbackBegin == Advance("RollingBack")

\* recovery_target, and the exception for a session parked at Created.
RecoveryTarget(ok) == IF ok THEN "Idle" ELSE "Dead"
SettleTarget(st, ok) == IF st = "Created" /\ ~ok THEN "Failed" ELSE RecoveryTarget(ok)

\* can_transition_to, for the resting states.
Edge(from, to) ==
    \/ to = "Idle" /\ from \in {"Active", "Created", "Evacuating", "HostLost"}
    \/ to = "Dead" /\ from \in {"Active", "Evacuating", "HostLost", "Idle"}
    \/ to = "Failed" /\ from \in {"Active", "Created"}

\* teleport_settle: the session's resting state, the source's tombstone and the
\* failed row in one transaction; nothing when the session has no such edge.
TeleportSettle(ok) ==
    IF Edge(sess.st, SettleTarget(sess.st, ok))
    THEN /\ row' = [row EXCEPT !.ph = "Failed", !.dest = None]
         /\ sess' = [st |-> SettleTarget(sess.st, ok), sb |-> None]
         /\ tomb' = tomb \cup {Src}
         /\ Goto("idle")
    ELSE /\ Goto("idle")
         /\ UNCHANGED <<row, sess, tomb>>

\* The lane: an operation of the open move is always queued again, by the
\* requeue of the last one or by the scanner.
AttemptsNext == IF drv.att > MaxRestoreAttempts THEN drv.att ELSE drv.att + 1
Claim ==
    /\ drv.pc = "idle"
    /\ ~Ended
    /\ drv' = [drv EXCEPT !.pc = "top", !.att = AttemptsNext]
    /\ UNCHANGED <<sess, row, late, vm, mem, up, snap, tomb, resumes>>
    /\ Quiet /\ NoFault

\* admit: the row and Active -> Evacuating in one transaction.
Admit ==
    /\ drv.pc = "top"
    /\ row.ph = "none"
    /\ sess = [st |-> "Active", sb |-> Src]
    /\ row' = [row EXCEPT !.ph = "Admitted"]
    /\ sess' = [sess EXCEPT !.st = "Evacuating"]
    /\ UNCHANGED <<drv, late, vm, mem, up, snap, tomb, resumes>>
    /\ Quiet /\ NoFault

\* drive_inner: a session that already rests unbound ends the move, whatever
\* its phase.
Rests == sess.sb = None /\ sess.st \in {"Idle", "Dead"}
SettleRested ==
    /\ drv.pc = "top"
    /\ Open
    /\ Rests
    /\ row' = [row EXCEPT !.ph = "Failed", !.dest = None]
    /\ Goto("idle")
    /\ UNCHANGED <<sess, late, vm, mem, up, snap, tomb, resumes>>
    /\ Quiet /\ NoFault

\* The driver runs the step of this phase.
At(ph) == drv.pc = "top" /\ row.ph = ph /\ ~Rests

-----------------------------------------------------------------------------
(* What the hosts do when a call arrives.                                  *)

\* snapshot_hold: pause, capture and stay paused; the answer is remembered.
CanHold == "src" \in up /\ (mem = "held" \/ vm[Src] = "running")
HostHold == vm' = [vm EXCEPT ![Src] = "frozen"] /\ mem' = "held"

\* migration_presetup: the running guest's export is prepared.
CanPresetup == "src" \in up /\ vm[Src] = "running"
HostPresetup == mem' = "presetup" /\ UNCHANGED vm

\* migration_capture_postcopy: consumes the presetup, freezes the guest and
\* opens the export.
CanCapture == "src" \in up /\ mem = "presetup" /\ vm[Src] = "running"
HostCapture == vm' = [vm EXCEPT ![Src] = "frozen"] /\ mem' = "open"

\* migration_abort: consumes the export, the guest runs again in place.
Exported == "src" \in up /\ mem \in {"open", "served"}
HostAbort == vm' = [vm EXCEPT ![Src] = "running"] /\ mem' = "none"

\* abort_unserved: only while no destination has fetched the state.
UnservedAny == Exported
Unserved == "src" \in up /\ mem = "open"

\* resume: idempotent on a running guest, forgets the held snapshot.
HostResume ==
    /\ vm' = [vm EXCEPT ![Src] = "running"]
    /\ mem' = IF mem = "held" THEN "none" ELSE mem
\* source_gone: the host is dead, or it no longer knows the VM.
SourceGoneVm == "src" \in up /\ vm[Src] = "gone"
SourceGone == "src" \notin up \/ vm[Src] = "gone"

\* The rollback's call: abort the export, or resume when there is none.
HostWake(live) == IF live /\ Exported THEN HostAbort ELSE HostResume

\* destroy and migration_commit of the source.
HostRelease == vm' = [vm EXCEPT ![Src] = "gone"] /\ mem' = "none"

\* restore: a new VM on every call, the least name no one uses.
Unused(v) == vm[v] = "gone" /\ v \notin {row.dest, drv.v, late.dest, sess.sb} \cup tomb
Fresh(v) == Unused(v) /\ \A w \in Dst : Unused(w) => v <= w
HostRestore(v, live) == vm' = [vm EXCEPT ![v] = IF live THEN "staged" ELSE "running"]

-----------------------------------------------------------------------------
(* Admitted: capture.                                                      *)

\* A live move is set up first; the export's id goes to the row.
Presetup ==
    /\ At("Admitted") /\ row.kind = "live" /\ ~row.exp
    /\ CanPresetup
    /\ HostPresetup
    /\ row' = [row EXCEPT !.exp = TRUE]
    /\ Seen("src")
    /\ UNCHANGED <<sess, drv, late, up, snap, tomb, resumes>>
    /\ NoFault

\* The source refuses a post-copy of this guest: the kind changes in place.
Downgrade ==
    /\ At("Admitted") /\ row.kind = "live" /\ ~row.exp
    /\ CanPresetup
    /\ row' = [row EXCEPT !.kind = "snapshot"]
    /\ Seen("src")
    /\ UNCHANGED <<sess, drv, late, vm, mem, up, snap, tomb, resumes>>
    /\ NoFault

\* Any other error rolls back, the lost answer included.
PresetupFails ==
    /\ At("Admitted") /\ row.kind = "live" /\ ~row.exp
    /\ RollbackBegin
    /\ \/ ~CanPresetup /\ UNCHANGED <<vm, mem>> /\ NoFault
       \/ CanPresetup /\ UNCHANGED <<vm, mem, lost>> /\ Fault
       \/ CanPresetup /\ HostPresetup /\ DriverFault
    /\ Seen("src")
    /\ UNCHANGED <<sess, late, up, snap, tomb, resumes>>

\* The destination's restore is spawned before the source is captured; with the
\* destination's host gone the operation is retried.
SpawnRestore ==
    /\ At("Admitted") /\ row.kind = "live" /\ row.exp
    /\ IF "dst" \in up /\ "src" \in up
       THEN \E v \in Dst :
              /\ Fresh(v)
              /\ HostRestore(v, TRUE)
              /\ drv' = [drv EXCEPT !.pc = "spawned", !.v = v]
              /\ Seen("dst")
              /\ UNCHANGED row
       ELSE /\ IF "src" \in up THEN Goto("idle") /\ UNCHANGED row ELSE RollbackBegin
            /\ UNCHANGED vm
            /\ Quiet
    /\ UNCHANGED <<sess, late, mem, up, snap, tomb, resumes>>
    /\ NoFault

Capture ==
    /\ drv.pc = "spawned"
    /\ CanCapture
    /\ HostCapture
    /\ drv' = [drv EXCEPT !.pc = "captured"]
    /\ Seen("src")
    /\ UNCHANGED <<sess, row, late, up, snap, tomb, resumes>>
    /\ NoFault

\* Every capture error rolls back: the presetup is gone, the host failed and put
\* it back, or the capture was done and its answer lost.  The spawned restore's
\* call is cancelled.
CaptureFails ==
    /\ \/ drv.pc = "spawned" /\ ~CanCapture /\ NoFault
       \/ drv.pc = "spawned" /\ CanCapture /\ Fault /\ UNCHANGED lost
       \/ drv.pc = "captured" /\ DriverFault
    /\ RollbackBegin
    /\ Seen("src")
    /\ UNCHANGED <<sess, late, vm, mem, up, snap, tomb, resumes>>

RecordCapture ==
    /\ drv.pc = "captured"
    /\ row' = [row EXCEPT !.ph = "Captured"]
    /\ drv' = [drv EXCEPT !.pc = "joining"]
    /\ UNCHANGED <<sess, late, vm, mem, up, snap, tomb, resumes>>
    /\ Quiet /\ NoFault

\* A snapshot move holds the source; its snapshot is recorded, then the phase.
Hold ==
    /\ At("Admitted") /\ row.kind = "snapshot"
    /\ CanHold
    /\ HostHold
    /\ Goto("held")
    /\ Seen("src")
    /\ UNCHANGED <<sess, row, late, up, snap, tomb, resumes>>
    /\ NoFault

HoldFails ==
    /\ At("Admitted") /\ row.kind = "snapshot"
    /\ RollbackBegin
    /\ \/ ~CanHold /\ UNCHANGED <<vm, mem>> /\ NoFault
       \/ CanHold /\ UNCHANGED <<vm, mem, lost>> /\ Fault
       \/ CanHold /\ HostHold /\ DriverFault
    /\ Seen("src")
    /\ UNCHANGED <<sess, late, up, snap, tomb, resumes>>

RecordHold ==
    /\ drv.pc = "held"
    /\ snap' \in BOOLEAN
    /\ Advance("Captured")
    /\ UNCHANGED <<sess, late, vm, mem, up, tomb, resumes>>
    /\ Quiet /\ NoFault

-----------------------------------------------------------------------------
(* Captured: restore.                                                      *)

\* A later driver restores a live move again; with no destination it retries.
RestoreLive ==
    /\ At("Captured") /\ row.kind = "live"
    /\ IF "dst" \in up
       THEN \E v \in Dst :
              /\ Fresh(v)
              /\ HostRestore(v, TRUE)
              /\ drv' = [drv EXCEPT !.pc = "joining", !.v = v]
              /\ Seen("dst")
       ELSE Goto("idle") /\ UNCHANGED vm /\ Quiet
    /\ UNCHANGED <<sess, row, late, mem, up, snap, tomb, resumes>>
    /\ NoFault

RestoreSnapshot ==
    /\ At("Captured") /\ row.kind = "snapshot"
    /\ "dst" \in up
    /\ \E v \in Dst :
         /\ Fresh(v)
         /\ HostRestore(v, FALSE)
         /\ drv' = [drv EXCEPT !.pc = "restored", !.v = v]
    /\ Seen("dst")
    /\ UNCHANGED <<sess, row, late, mem, up, snap, tomb, resumes>>
    /\ NoFault

\* Any error of a snapshot restore rolls back, the lost answer included.
RestoreFails ==
    /\ At("Captured") /\ row.kind = "snapshot"
    /\ RollbackBegin
    /\ \/ "dst" \notin up /\ UNCHANGED vm /\ NoFault /\ Quiet
       \/ /\ "dst" \in up
          /\ Seen("dst")
          /\ \/ UNCHANGED vm /\ Fault /\ UNCHANGED lost
             \/ DriverFault /\ \E v \in Dst : Fresh(v) /\ HostRestore(v, FALSE)
    /\ UNCHANGED <<sess, late, mem, up, snap, tomb, resumes>>

\* finish_live_restore: the destination runs.
JoinOk ==
    /\ drv.pc = "joining"
    /\ Executes(drv.v)
    /\ drv' = [drv EXCEPT !.pc = "restored"]
    /\ UNCHANGED <<sess, row, late, vm, mem, up, snap, tomb, resumes>>
    /\ Quiet /\ NoFault

\* It never loaded the state: abort the export and roll back.  An export that
\* is already gone, or a dead source, is an error of the step: retried.
JoinNever ==
    /\ drv.pc = "joining"
    /\ vm[drv.v] = "never"
    /\ IF Exported
       THEN /\ vm' = [vm EXCEPT ![Src] = "running", ![drv.v] = "gone"]
            /\ mem' = "none"
            /\ Goto("aborted")
       ELSE /\ vm' = [vm EXCEPT ![drv.v] = "gone"]
            /\ Goto("idle")
            /\ UNCHANGED mem
    /\ Seen("src")
    /\ UNCHANGED <<sess, row, late, up, snap, tomb, resumes>>
    /\ NoFault

\* Any other failure, a lost answer among them: the source may run again only
\* if it can tell that its state was never served; otherwise the restore is
\* retried, and in the end the move fails with the source condemned.
JoinFails ==
    /\ drv.pc = "joining"
    /\ \/ vm[drv.v] \in {"failed", "gone"} /\ NoFault
       \/ vm[drv.v] \notin {"failed", "gone"} /\ DriverFault
    /\ LET ended == IF vm[drv.v] = "failed" THEN [vm EXCEPT ![drv.v] = "gone"] ELSE vm
       IN  IF Unserved
           THEN /\ vm' = [ended EXCEPT ![Src] = "running"]
                /\ mem' = "none"
                /\ Goto("aborted")
           ELSE /\ vm' = ended
                /\ Goto(IF drv.att <= MaxRestoreAttempts THEN "idle" ELSE "failing")
                /\ UNCHANGED mem
    /\ Seen("src")
    /\ UNCHANGED <<sess, row, late, up, snap, tomb, resumes>>

\* The destination answers NotFound or AlreadyExists: no abort, the rollback
\* finds out what is left.
JoinLost ==
    /\ drv.pc = "joining"
    /\ vm[drv.v] = "failed"
    /\ vm' = [vm EXCEPT ![drv.v] = "gone"]
    /\ RollbackBegin
    /\ UNCHANGED <<sess, late, mem, up, snap, tomb, resumes>>
    /\ Quiet /\ NoFault

RecordAbort ==
    /\ drv.pc = "aborted"
    /\ RollbackBegin
    /\ UNCHANGED <<sess, late, vm, mem, up, snap, tomb, resumes>>
    /\ Quiet /\ NoFault

\* The patch of a completed restore: phase and dest_sandbox_id together.
NamedNot(v) == [row EXCEPT !.ph = "Restored"]
Named(v) == [row EXCEPT !.ph = "Restored", !.dest = v]
RecordRestore ==
    /\ drv.pc = "restored"
    /\ row' = Named(drv.v)
    /\ Goto("top")
    /\ UNCHANGED <<sess, late, vm, mem, up, snap, tomb, resumes>>
    /\ Quiet /\ NoFault

-----------------------------------------------------------------------------
(* Restored: commit.  Committed: attach.  Attached: release.               *)

\* teleport_commit: the session's binding and the phase in one statement.
Commit ==
    /\ At("Restored")
    /\ IF sess = [st |-> "Evacuating", sb |-> Src]
       THEN sess' = [sess EXCEPT !.sb = row.dest] /\ Advance("Committed")
       ELSE RollbackBegin /\ UNCHANGED sess
    /\ UNCHANGED <<late, vm, mem, up, snap, tomb, resumes>>
    /\ Quiet /\ NoFault

\* A dead destination fails a committed move.
DestinationGone ==
    /\ At("Committed") \/ At("Attached")
    /\ "dst" \notin up
    /\ Goto("failing")
    /\ UNCHANGED <<sess, row, late, vm, mem, up, snap, tomb, resumes>>
    /\ Quiet /\ NoFault

\* attach: the harness is started and the session is Active, or Created when its
\* harness cannot start.  A destination VM that is gone is retried.
Attach ==
    /\ At("Committed")
    /\ "dst" \in up
    /\ sess.st = "Evacuating"
    /\ IF vm[row.dest] # "gone"
       THEN \E st \in {"Active", "Created"} : sess' = [sess EXCEPT !.st = st] /\ Goto("top")
       ELSE Goto("idle") /\ UNCHANGED sess
    /\ Seen("dst")
    /\ UNCHANGED <<row, late, vm, mem, up, snap, tomb, resumes>>
    /\ NoFault

\* attach_plan waits for the harness's generation and yields without it, as often
\* as it takes; a start_agent error is retried likewise.
AttachWaits ==
    /\ At("Committed")
    /\ "dst" \in up
    /\ sess.st = "Evacuating"
    /\ vm[row.dest] # "gone"
    /\ Goto("idle")
    /\ Seen("dst")
    /\ UNCHANGED <<sess, row, late, vm, mem, up, snap, tomb, resumes>>
    /\ NoFault

\* finish_attach's write, or that of a driver that finds the session attached.
RecordAttach ==
    /\ At("Committed")
    /\ "dst" \in up
    /\ sess.st \in {"Active", "Created"} /\ sess.sb = row.dest
    /\ Advance("Attached")
    /\ UNCHANGED <<sess, late, vm, mem, up, snap, tomb, resumes>>
    /\ Quiet /\ NoFault

\* migration_drain_wait's answers: no destination to ask, the page server lost
\* (the destination is paused and the move fails), or drained.
DrainRetry ==
    /\ At("Attached") /\ row.kind = "live"
    /\ "dst" \in up
    /\ vm[row.dest] = "gone"
    /\ Goto("idle")
    /\ UNCHANGED <<sess, row, late, vm, mem, up, snap, tomb, resumes>>
    /\ Quiet /\ NoFault

PeerLost ==
    /\ At("Attached") /\ row.kind = "live"
    /\ "dst" \in up
    /\ vm[row.dest] \in {"cut", "frozen"}
    /\ vm' = [vm EXCEPT ![row.dest] = "frozen"]
    /\ Goto("failing")
    /\ UNCHANGED <<sess, row, late, mem, up, snap, tomb, resumes>>
    /\ Quiet /\ NoFault

\* release: the destination no longer needs the source.
Drained == row.kind = "snapshot" \/ vm[row.dest] = "running"
Release ==
    /\ At("Attached")
    /\ "dst" \in up
    /\ Drained
    /\ IF "src" \in up THEN HostRelease /\ Seen("src") ELSE UNCHANGED <<vm, mem>> /\ Quiet
    /\ Goto("released")
    /\ UNCHANGED <<sess, row, late, up, snap, tomb, resumes>>
    /\ NoFault

\* teleport_release_source: the tombstone and the row's end.
RecordRelease ==
    /\ drv.pc = "released"
    /\ row' = [row EXCEPT !.ph = "Done", !.dest = None]
    /\ tomb' = tomb \cup {Src}
    /\ Goto("idle")
    /\ UNCHANGED <<sess, late, vm, mem, up, snap, resumes>>
    /\ Quiet /\ NoFault

-----------------------------------------------------------------------------
(* fail_move and rollback.                                                 *)

\* destroy_destination: the recorded VM, on a host that can answer, and its
\* tombstone.
DestroyDestination ==
    IF row.dest = None
    THEN UNCHANGED <<vm, tomb>> /\ Quiet
    ELSE /\ vm' = [vm EXCEPT ![row.dest] = "gone"]
         /\ tomb' = tomb \cup {row.dest}
         /\ IF "dst" \in up THEN Seen("dst") ELSE Quiet

FailDestroy ==
    /\ drv.pc = "failing"
    /\ DestroyDestination
    /\ Goto("unmoored")
    /\ UNCHANGED <<sess, row, late, mem, up, snap, resumes>>
    /\ NoFault

\* An Active session returns through Evacuating, its binding retained.
FailDetach ==
    /\ drv.pc = "unmoored"
    /\ sess' = IF sess.st = "Active" THEN [sess EXCEPT !.st = "Evacuating"] ELSE sess
    /\ Goto("detached")
    /\ UNCHANGED <<row, late, vm, mem, up, snap, tomb, resumes>>
    /\ Quiet /\ NoFault

\* The snapshot counts as evidence only once the move is committed.
FailSettle ==
    /\ drv.pc = "detached"
    /\ TeleportSettle(snap /\ row.ph # "Captured")
    /\ UNCHANGED <<late, vm, mem, up, snap, resumes>>
    /\ Quiet /\ NoFault

RollbackDestroy ==
    /\ At("RollingBack")
    /\ DestroyDestination
    /\ Goto("unwound")
    /\ UNCHANGED <<sess, row, late, mem, up, snap, resumes>>
    /\ NoFault

RollbackWake ==
    /\ drv.pc = "unwound"
    /\ "src" \in up /\ ~SourceGone
    /\ HostWake(row.kind = "live" /\ row.exp)
    /\ Goto("woken")
    /\ Seen("src")
    /\ UNCHANGED <<sess, row, late, up, snap, tomb, resumes>>
    /\ NoFault

\* settle_lost_source: nothing is left to go back to.
RollbackLost ==
    /\ drv.pc = "unwound"
    /\ SourceGone
    /\ TeleportSettle(snap)
    /\ UNCHANGED <<late, vm, mem, up, snap, resumes>>
    /\ Quiet /\ NoFault

\* Active only on the source's acknowledgement; then the row ends.
RollbackActivate ==
    /\ drv.pc = "woken"
    /\ sess' = IF sess.st = "Evacuating" THEN [sess EXCEPT !.st = "Active"] ELSE sess
    /\ Goto("activated")
    /\ UNCHANGED <<row, late, vm, mem, up, snap, tomb, resumes>>
    /\ Quiet /\ NoFault

RollbackEnd ==
    /\ drv.pc = "activated"
    /\ row' = [row EXCEPT !.ph = "Aborted", !.dest = None]
    /\ Goto("idle")
    /\ UNCHANGED <<sess, late, vm, mem, up, snap, tomb, resumes>>
    /\ Quiet /\ NoFault

-----------------------------------------------------------------------------
(* Drivers that die or are overtaken.                                      *)

Crash ==
    /\ drv.pc # "idle"
    /\ DriverFault
    /\ Goto("idle")
    /\ UNCHANGED <<sess, row, late, gate, vm, mem, up, snap, tomb, resumes>>

\* The call the driver is about to make.
CallOf ==
    CASE At("Admitted") /\ row.kind = "snapshot" -> "hold"
      [] At("Admitted") /\ row.kind = "live" /\ ~row.exp -> "presetup"
      [] At("Admitted") /\ row.kind = "live" /\ row.exp -> "move"
      [] drv.pc = "spawned" -> "capture"
      [] drv.pc = "joining" /\ vm[drv.v] = "never" -> "abort"
      [] drv.pc = "joining" /\ vm[drv.v] \in {"failed", "gone"} -> "unserved"
      [] At("Captured") -> "restore"
      [] At("RollingBack") -> "unwind"
      [] drv.pc = "unwound" -> "wake"
      [] At("Attached") /\ Drained -> "release"
      [] OTHER -> "none"

\* A driver stalls past the stale threshold and another one claims the lane; its
\* last call is still under way.
Overtake ==
    /\ drv.pc # "idle"
    /\ late = NoCall
    /\ CallOf # "none"
    /\ DriverFault
    /\ late' = [op |-> CallOf, live |-> row.kind = "live", dest |-> row.dest,
                in |-> FALSE]
    /\ gate' = {}
    /\ drv' = [drv EXCEPT !.pc = "top", !.v = None, !.att = AttemptsNext]
    /\ UNCHANGED <<sess, row, vm, mem, up, snap, tomb, resumes>>

\* check_session_epoch: a host refuses an epoch below one it has served.
RefusesNever(h) == FALSE
Refuses(h) == h \in gate

\* The late call arrives and passes its host's gate, which is not asked again
\* when the call has waited for its locks and acts.  A capture takes the presetup
\* with it.
LateHost == IF late.op \in SourceCall THEN "src" ELSE "dst"
LateEnter ==
    /\ late # NoCall /\ ~late.in
    /\ LateHost \in up /\ ~Refuses(LateHost)
    /\ late.op = "capture" => mem = "presetup"
    /\ late' = [late EXCEPT !.in = TRUE]
    /\ gate' = gate \ {LateHost}
    /\ mem' = IF late.op = "capture" THEN "taken" ELSE mem
    /\ UNCHANGED <<sess, row, drv, vm, up, snap, tomb, resumes>>
    /\ NoFault

\* A late call that pauses the source.
LateFreeze(m) ==
    /\ vm' = [vm EXCEPT ![Src] = IF "src" \in gate THEN "refrozen" ELSE "frozen"]
    /\ mem' = m

\* It acts, or never does.  A step's later calls follow it.  A presetup that
\* comes after the one on the row replaces it under an id nobody will ask for.
LateSource ==
    /\ late.op \in SourceCall /\ late.in
    /\ "src" \in up /\ vm[Src] # "gone"
    /\ \/ late.op = "hold" /\ mem = "held" /\ UNCHANGED <<vm, mem>>
       \/ late.op = "hold" /\ mem # "held" /\ CanHold /\ LateFreeze("held")
       \/ late.op = "presetup" /\ CanPresetup /\ UNCHANGED vm
          /\ mem' = IF row.exp THEN "none" ELSE "presetup"
       \/ late.op = "capture" /\ mem = "taken" /\ vm[Src] = "running" /\ LateFreeze("open")
       \/ late.op = "abort" /\ Exported /\ HostAbort
       \/ late.op = "unserved" /\ Unserved /\ HostAbort
       \/ late.op = "wake" /\ HostWake(late.live)
       \/ late.op = "release" /\ HostRelease
    /\ late' = NoCall /\ gate' = {}
    /\ UNCHANGED <<sess, row, drv, up, snap, tomb, resumes>>
    /\ NoFault

LateDest ==
    /\ late.op \in DestCall /\ late.in
    /\ "dst" \in up
    /\ IF late.op = "unwind"
       THEN /\ vm' = IF late.dest = None THEN vm ELSE [vm EXCEPT ![late.dest] = "gone"]
            /\ tomb' = IF late.dest = None THEN tomb ELSE tomb \cup {late.dest}
       ELSE /\ \E v \in Dst : Fresh(v) /\ HostRestore(v, late.live)
            /\ UNCHANGED tomb
    /\ late' = CASE late.op = "move" -> [late EXCEPT !.op = "capture", !.in = FALSE]
                 [] late.op = "unwind" -> [late EXCEPT !.op = "wake", !.dest = None,
                                                       !.in = FALSE]
                 [] OTHER -> NoCall
    /\ gate' = IF late.op = "restore" THEN {} ELSE gate
    /\ UNCHANGED <<sess, row, drv, mem, up, snap, resumes>>
    /\ NoFault

\* A call that is dropped inside a capture puts the presetup back.
LateDropped ==
    /\ late # NoCall
    /\ late' = NoCall /\ gate' = {}
    /\ mem' = IF mem = "taken" THEN "presetup" ELSE mem
    /\ UNCHANGED <<sess, row, drv, vm, up, snap, tomb, resumes>>
    /\ NoFault

-----------------------------------------------------------------------------
(* The hosts on their own.                                                 *)

HostOnly == UNCHANGED <<sess, row, drv, late, gate, snap, tomb, resumes>>

\* The fetch poller: state.bin is served, and that is remembered at the source.
Fetch(v) ==
    /\ vm[v] = "staged"
    /\ Exported
    /\ vm' = [vm EXCEPT ![v] = "fetched"]
    /\ mem' = "served"
    /\ HostOnly /\ UNCHANGED up /\ NoFault

\* The load gate: sealed by the page server and state.bin staged.
Load(v) ==
    /\ vm[v] = "fetched"
    /\ Exported
    /\ vm' = [vm EXCEPT ![v] = "pulling"]
    /\ HostOnly /\ UNCHANGED <<mem, up>> /\ NoFault

\* The load gate times out: because there is no export and none is coming, or
\* because the network was too slow.  A restore nobody waits for any more may end
\* at any time, its call cancelled or its gate timed out, and is torn down.
GateTimesOut(v) ==
    /\ vm[v] \in {"staged", "fetched"}
    /\ IF drv.v = v /\ (Exported \/ drv.pc = "spawned")
       THEN Fault /\ UNCHANGED lost ELSE NoFault
    /\ vm' = [vm EXCEPT ![v] = IF drv.v = v THEN "never" ELSE "gone"]
    /\ HostOnly /\ UNCHANGED <<mem, up>>

\* Firecracker fails after the load request was sent.
LoadFails(v) ==
    /\ vm[v] = "fetched"
    /\ vm' = [vm EXCEPT ![v] = IF drv.v = v THEN "failed" ELSE "gone"]
    /\ Fault /\ UNCHANGED lost
    /\ HostOnly /\ UNCHANGED <<mem, up>>

\* Nobody awaits a restore that has ended.
ForgetRestore(v) ==
    /\ vm[v] \in {"never", "failed"}
    /\ drv.v # v
    /\ vm' = [vm EXCEPT ![v] = "gone"]
    /\ HostOnly /\ UNCHANGED <<mem, up>> /\ NoFault

\* The destination pulls the last page, or loses the page server.
Drain(v) ==
    /\ vm[v] = "pulling"
    /\ vm' = [vm EXCEPT ![v] = IF "src" \in up /\ mem = "served" THEN "running" ELSE "cut"]
    /\ HostOnly /\ UNCHANGED <<mem, up>> /\ NoFault

\* sandbox_ownership and the unbound sweep: an open move owns both endpoints,
\* and every VM of the destination's host while its own is not named.
OwnedBound(v) == sess.sb = v
OwnedEver(v) ==
    sess.sb = v \/ v = Src \/ v = row.dest \/ (v \in Dst /\ row.dest = None)
Owned(v) ==
    \/ sess.sb = v
    \/ Open /\ (v = Src \/ v = row.dest \/ (v \in Dst /\ row.dest = None))

\* The export's TTL: the sweep resumes a source that still owns the session and
\* has served nothing, rechecking that as it consumes the export.
TtlAbort ==
    /\ Exported
    /\ Unserved
    /\ Owned(Src)
    /\ HostAbort
    /\ Fault /\ UNCHANGED lost
    /\ HostOnly /\ UNCHANGED up

\* A host destroys a VM that is tombstoned or that nobody owns.
Reap(v) ==
    /\ HostOf(v) \in up
    /\ vm[v] \in {"running", "frozen", "refrozen", "pulling", "cut"}
    /\ v \in tomb \/ ~Owned(v)
    /\ vm' = [vm EXCEPT ![v] = "gone"]
    /\ mem' = IF v = Src THEN "none" ELSE mem
    /\ HostOnly /\ UNCHANGED up /\ NoFault

\* An agent that restarts drops the late call it had let in.
InsideAt(h) == late.in /\ LateHost = h
CallsEnd(h) ==
    /\ late' = IF InsideAt(h) THEN NoCall ELSE late
    /\ gate' = IF InsideAt(h) THEN {} ELSE gate

\* The source's agent restarts: the VM survives, exports and presetups do not.
SourceRestarts ==
    /\ "src" \in up
    /\ mem # "none" \/ InsideAt("src")
    /\ mem' = "none"
    /\ CallsEnd("src")
    /\ Fault /\ UNCHANGED lost
    /\ UNCHANGED <<sess, row, drv, vm, up, snap, tomb, resumes>>

\* The destination's agent restarts and reaps what had not drained.
DestRestarts ==
    /\ "dst" \in up
    /\ InsideAt("dst") \/ \E v \in Dst : vm[v] \in {"staged", "fetched", "pulling", "cut"}
    /\ vm' = [v \in VM |-> IF v \in Dst /\ vm[v] \in {"staged", "fetched", "pulling", "cut"}
                           THEN "gone" ELSE vm[v]]
    /\ CallsEnd("dst")
    /\ Fault /\ UNCHANGED lost
    /\ UNCHANGED <<sess, row, drv, mem, up, snap, tomb, resumes>>

\* A host dies with its VMs.  The dead-host sweep unbinds its sessions, except
\* one that is moving away from it.
HostDies(h) ==
    /\ Open
    /\ h \in up
    /\ up' = up \ {h}
    /\ vm' = [v \in VM |-> IF HostOf(v) = h THEN "gone" ELSE vm[v]]
    /\ mem' = IF h = "src" THEN "none" ELSE mem
    /\ sess' = IF h = "dst" /\ sess.sb \in Dst
               THEN [st |-> "HostLost", sb |-> None] ELSE sess
    /\ Fault /\ UNCHANGED lost
    /\ UNCHANGED <<row, drv, late, gate, snap, tomb, resumes>>

-----------------------------------------------------------------------------
(* The rest of the coordinator.                                            *)

\* settle_host_lost.
SettleHostLost ==
    /\ sess.st = "HostLost"
    /\ sess' = [sess EXCEPT !.st = RecoveryTarget(snap)]
    /\ UNCHANGED <<row, drv, late, gate, vm, mem, up, snap, tomb, resumes>>
    /\ NoFault

\* The heartbeat reconcile: an Active session whose VM its host does not list.
FlipMissing ==
    /\ sess.st = "Active"
    /\ vm[sess.sb] = "gone" /\ HostOf(sess.sb) \in up
    /\ sess' = [st |-> "HostLost", sb |-> None]
    /\ UNCHANGED <<row, drv, late, gate, vm, mem, up, snap, tomb, resumes>>
    /\ NoFault

\* The user resumes an Idle session; the lane is free between two attempts of
\* the teleport operation.
Resume ==
    /\ sess.st = "Idle"
    /\ drv.pc = "idle"
    /\ resumes < MaxResumes
    /\ resumes' = resumes + 1
    /\ sess' = [st |-> "Active", sb |-> New]
    /\ vm' = [vm EXCEPT ![New] = "running"]
    /\ UNCHANGED <<row, drv, late, gate, mem, up, snap, tomb>>
    /\ NoFault

-----------------------------------------------------------------------------

Step ==
    \/ Claim \/ Admit \/ SettleRested
    \/ Presetup \/ Downgrade \/ PresetupFails \/ SpawnRestore
    \/ Capture \/ CaptureFails \/ RecordCapture
    \/ Hold \/ HoldFails \/ RecordHold
    \/ RestoreLive \/ RestoreSnapshot \/ RestoreFails
    \/ JoinOk \/ JoinNever \/ JoinFails \/ JoinLost \/ RecordAbort \/ RecordRestore
    \/ Commit \/ DestinationGone \/ Attach \/ AttachWaits \/ RecordAttach
    \/ DrainRetry \/ PeerLost \/ Release \/ RecordRelease
    \/ FailDestroy \/ FailDetach \/ FailSettle
    \/ RollbackDestroy \/ RollbackWake \/ RollbackLost
    \/ RollbackActivate \/ RollbackEnd

DestStep(v) ==
    \/ Fetch(v) \/ Load(v) \/ GateTimesOut(v) \/ ForgetRestore(v) \/ Drain(v)

Next ==
    \/ Step
    \/ Crash \/ Overtake \/ LateEnter \/ LateSource \/ LateDest \/ LateDropped
    \/ \E v \in Dst : DestStep(v) \/ LoadFails(v)
    \/ \E v \in VM : Reap(v)
    \/ TtlAbort \/ SourceRestarts \/ DestRestarts
    \/ \E h \in {"src", "dst"} : HostDies(h)
    \/ SettleHostLost \/ FlipMissing \/ Resume

Spec == Init /\ [][Next]_vars

\* The lane's executor and the scanner keep driving an open move, restores end,
\* hosts act on tombstones and ownership answers, and the sweeps run.
FairSpec ==
    /\ Spec
    /\ WF_vars(Step /\ faults' = faults)
    /\ \A v \in Dst : WF_vars(DestStep(v) /\ faults' = faults)
    /\ \A v \in VM : WF_vars(Reap(v))
    /\ WF_vars(SettleHostLost)
    /\ WF_vars(FlipMissing)

-----------------------------------------------------------------------------
(* Properties.                                                             *)

\* The guest runs twice: the source runs while a VM restored from its state does.
Forked == vm[Src] = "running" /\ \E v \in Dst : Executes(v)

\* Hosts alone never fork the guest: whatever restarts, dies, times out or fails
\* to load, source and destination do not both run as long as no driver crashed
\* or missed an answer (state_served, abort_unserved, the never-loaded marker).
HostsNeverFork == ~lost => ~Forked

\* migration_abort says of itself that an explicit abort carries the knowledge
\* that the destination never loaded the state: in a live move the source is
\* never woken while a destination runs.
NoLiveFork == row.kind = "live" => ~Forked

\* The source VM is destroyed only when nothing can need it: the session is not
\* bound to it and the move is over, or attached with no destination that still
\* pulls its memory from it (release, the TTL and tombstone destroys, and the
\* late destroy of an overtaken driver).
SourceKept ==
    [][vm[Src] # "gone" /\ vm'[Src] = "gone" /\ "src" \in up' =>
         /\ sess.sb # Src
         /\ \/ Ended
            \/ row.ph = "Attached" /\ ~(row.kind = "live" /\ vm[row.dest] = "pulling")]_vars

\* A move that is over leaves an Active session on a VM that runs: never on a
\* frozen source, a poisoned destination or a VM that some late hold, capture or
\* destroy of an overtaken driver took away (rollback, release, the host's epoch
\* gate).  The one exception is a hold or capture that the source let in before
\* it served the rollback and that pauses the guest after it: the gate is asked
\* at the door only.
SettledRuns ==
    Ended /\ sess.st = "Active" /\ HostOf(sess.sb) \in up =>
        vm[sess.sb] = "running" \/ (sess.sb = Src /\ vm[Src] = "refrozen")

\* What no retry mends: a live move whose export is gone or whose destination's
\* host is dead before any destination answered, and a committed move whose
\* destination VM was reaped.  Every step is then an error that is retried.
Stranded ==
    \/ /\ row.kind = "live" /\ row.exp
       /\ row.ph \in {"Admitted", "Captured"}
       /\ "dst" \notin up \/ ~Exported
    \/ row.ph \in {"Committed", "Attached"} /\ vm[row.dest] = "gone"

\* Every move ends, whatever crashes, restarts, times out or is lost on the way,
\* unless it strands for good or waits again and again for a harness that never
\* attaches (the requeue of drive_inner, the scanner, and the error paths of
\* capture, restore, attach, release, fail_move and rollback).
MoveEndsUnlessStranded ==
    <>Open => <>Ended \/ <>[]Stranded \/ []<><<AttachWaits>>_vars

\* A move leaves no VM behind: once it is over, every VM the session is not
\* bound to is destroyed (the tombstone push and the unbound sweep), restores
\* nobody waited for included.
NothingLeftBehind ==
    Ended ~> \A v \in VM : v = sess.sb \/ vm[v] = "gone"
=============================================================================
