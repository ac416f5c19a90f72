-------------------------- MODULE SandboxOwnership --------------------------
(***************************************************************************)
(* Who owns a session's sandbox.                                           *)
(*                                                                         *)
(* sessions.{status, host_id, sandbox_id} is the only binding of a session *)
(* to a microVM.  It is written by the resume op, which is fenced by the   *)
(* epoch of its claim, and by three detectors that are not: the reconcile  *)
(* of a host's heartbeat, the dead-host detector and the straggler sweep,  *)
(* each on any replica and each in several database transactions.  What a  *)
(* binding lets go of is handed to its host by a row of sandbox_tombstones,*)
(* which the host learns of in the answer to a heartbeat.                  *)
(*                                                                         *)
(* The module follows one session.  Time enters through four assumptions,  *)
(* each stated where it is used: T1 a heartbeat handler ends before the    *)
(* lease it renewed does, T2 a resume binds the VM it restored within the  *)
(* entomb grace, T3 a HostLost row is swept after the heartbeat handlers   *)
(* that ran when it was written have ended, T4 a host has one heartbeat in *)
(* flight.                                                                 *)
(***************************************************************************)
EXTENDS Naturals, FiniteSets

CONSTANTS
  Host, Sandbox,
  Worker,     \* sweeps of the dead-host detector running at once, any replica
  None,       \* NULL
  Grace,      \* ENGRAM_RECONCILE_GRACE_TICKS
  MaxEpoch,   \* bound: op claims of the session
  MaxFault    \* bound: partitions, host restarts and tasks that die

ASSUME NoneAssumption == None \notin Host \cup Sandbox
ASSUME TaskAssumption == Host \cap Worker = {}
ASSUME GraceAssumption == Grace \in Nat \ {0}
ASSUME BoundAssumption == MaxEpoch \in Nat /\ MaxFault \in Nat

VARIABLES
  row,     \* the session's row
  epoch,   \* sessions.current_epoch
  marker,  \* session_ops.step of the session's op
  snap,    \* the latest snapshot row: recoverable or not (or none)
  young,   \* handlers still running that ran when the row became HostLost
  hosts,   \* the rows of hosts, and whether the host can be reached
  vm,      \* the microVMs, as they are on their hosts
  tombs,   \* sandbox_tombstones
  seen,    \* sandbox_unbound_sightings
  doomed,  \* tombstones a host has been told of and has not acted on
  task,    \* heartbeat handlers (by host) and detector sweeps (by worker)
  exec,    \* executors of resume ops, by the epoch of their claim
  astray,  \* history: VMs the row let go of while they ran, without a tombstone
  faults

vars == <<row, epoch, marker, snap, young, hosts, vm, tombs, seen, doomed, task,
          exec, astray, faults>>

Status == {"created", "active", "evicting", "idle", "host_lost", "dead"}
Epoch == 1 .. MaxEpoch

RowType == [status : Status, host : Host \cup {None}, sb : Sandbox \cup {None},
            strikes : Nat]
HostType == [status : {"ready", "dead"}, lease : {"live", "expired"},
             net : {"up", "cut"}]
VmType == [state : {"unborn", "running", "gone"}, host : Host \cup {None},
           owner : {"nobody", "session"}]

\* A heartbeat handler runs through the first line of program points, a sweep
\* through the second; both settle.
TaskPc == {"off", "sent", "listed", "struck", "gone", "cleared", "tail",
           "mark", "entomb", "unbind", "unhost",
           "settle", "settling"}
TaskType == [pc : TaskPc, host : Host \cup {None}, sb : Sandbox \cup {None},
             running : SUBSET Sandbox, known : {"known", "unknown"},
             target : {"idle", "dead"}]
Off == [pc |-> "off", host |-> None, sb |-> None, running |-> {},
        known |-> "unknown", target |-> "dead"]

ExecPc == {"off", "dispatch", "redispatch", "retained", "detach", "restore",
           "bind", "rebind", "reuse", "own", "finish", "up", "down",
           "rebuild", "teardown", "release"}
ExecType == [pc : ExecPc, host : Host \cup {None}, sb : Sandbox \cup {None},
             status : Status,      \* of the row as last read
             plan : {"fresh", "created", "shortcut"}]
Ended == [pc |-> "off", host |-> None, sb |-> None, status |-> "idle",
          plan |-> "fresh"]

\* A session that create has brought up, before its first checkpoint.
Init ==
  \E h \in Host, sb \in Sandbox :
    /\ row = [status |-> "active", host |-> h, sb |-> sb, strikes |-> 0]
    /\ epoch = 0 /\ marker = "early" /\ snap = "none" /\ young = {}
    /\ hosts = [x \in Host |-> [status |-> "ready", lease |-> "live", net |-> "up"]]
    /\ vm = [x \in Sandbox |->
               IF x = sb THEN [state |-> "running", host |-> h, owner |-> "session"]
               ELSE [state |-> "unborn", host |-> None, owner |-> "nobody"]]
    /\ tombs = {} /\ seen = {} /\ doomed = {}
    /\ task = [k \in Host \cup Worker |-> Off]
    /\ exec = [e \in Epoch |-> Ended]
    /\ astray = {} /\ faults = 0

On(h) == {sb \in Sandbox : vm[sb].host = h}
RunningOn(h) == {sb \in On(h) : vm[sb].state = "running"}
Reachable(h) == hosts[h].net = "up"
EndTask(k) == task' = [task EXCEPT ![k] = Off] /\ young' = young \ {k}

-----------------------------------------------------------------------------
(* Writes of the session row                                               *)

\* SessionState::can_transition_to.
CanTransition(from, to) ==
  to \in CASE from = "created"   -> {"active", "host_lost", "idle"}
           [] from = "active"    -> {"idle", "host_lost", "evicting", "dead"}
           [] from = "evicting"  -> {"active", "idle", "host_lost", "dead"}
           [] from = "idle"      -> {"active", "created", "dead"}
           [] from = "host_lost" -> {"created", "idle", "dead"}
           [] from = "dead"      -> {}

\* transition_session with disposition Retain, RequireUnbound and Detach.
\* Every one stamps last_active_at.
Stamp(to) == young' = IF to = "host_lost" THEN {h \in Host : task[h].pc # "off"} ELSE {}
Retain(to) ==
  /\ CanTransition(row.status, to)
  /\ row' = [row EXCEPT !.status = to]
  /\ Stamp(to)
RequireUnbound(to) == row.sb = None /\ Retain(to)
Detach(to) ==
  /\ CanTransition(row.status, to)
  /\ row' = [row EXCEPT !.status = to, !.sb = None]
  /\ Stamp(to)

\* assign_session_sandbox_guarded(None, expected): it keeps host_id.
MayUnbind(sb) == row.sb = sb
Unbound == [row EXCEPT !.sb = None, !.strikes = 0]

\* A write that may take the binding from a VM that runs, and that no tombstone
\* of the same procedure goes before.
LetGo ==
  astray' = astray \cup {sb \in Sandbox : /\ row.sb = sb /\ row'.sb # sb
                                          /\ vm[sb].state = "running"}

-----------------------------------------------------------------------------
(* The heartbeat of a host.  T4: one in flight.                            *)

\* The host lists its sandboxes and sends the request; "unknown": the list
\* failed (running_known is false).
HeartbeatSend(h) ==
  /\ task[h].pc = "off" /\ Reachable(h)
  /\ \E k \in {"known", "unknown"} :
       task' = [task EXCEPT ![h] = [Off EXCEPT !.pc = "sent", !.known = k,
                  !.running = IF k = "known" THEN RunningOn(h) ELSE {}]]
  /\ UNCHANGED <<row, epoch, marker, snap, young, hosts, vm, tombs, seen, doomed,
                 exec, astray, faults>>

\* touch_host_heartbeat: a dead host is refused (410), which it only logs; a
\* lease is renewed.  Then list_resident_sandbox_assignments_on_host, and
\* strike_eligible.
StrikeEligible == row.status = "active"
HeartbeatTouch(h) ==
  /\ task[h].pc = "sent"
  /\ \/ /\ hosts[h].status = "dead"
        /\ EndTask(h)
        /\ UNCHANGED hosts
     \/ /\ hosts[h].status = "ready"
        /\ hosts' = [hosts EXCEPT ![h].lease = "live"]
        /\ UNCHANGED young
        /\ \/ /\ task[h].known = "known"
              /\ row.host = h /\ row.sb # None /\ StrikeEligible
              /\ task' = [task EXCEPT ![h].pc = "listed", ![h].sb = row.sb]
           \/ /\ \/ task[h].known = "unknown"
                 \/ ~(row.host = h /\ row.sb # None /\ StrikeEligible)
              /\ task' = [task EXCEPT ![h].pc = "tail"]
  /\ UNCHANGED <<row, epoch, marker, snap, vm, tombs, seen, doomed, exec,
                 astray, faults>>

\* apply_missing_sandbox_strikes.  It addresses the row by session id alone.
StruckOutEarly(n) == n >= Grace - 1
StruckOut(n) == n >= Grace
ReconcileStrike(h) ==
  /\ task[h].pc = "listed"
  /\ \/ /\ task[h].sb \in task[h].running
        /\ row' = [row EXCEPT !.strikes = 0]
        /\ task' = [task EXCEPT ![h].pc = "tail"]
     \/ /\ task[h].sb \notin task[h].running
        /\ ~StruckOut(row.strikes + 1)
        /\ row' = [row EXCEPT !.strikes = row.strikes + 1]
        /\ task' = [task EXCEPT ![h].pc = "tail"]
     \/ /\ task[h].sb \notin task[h].running
        /\ StruckOut(row.strikes + 1)
        /\ row' = [row EXCEPT !.strikes = 0]
        /\ task' = [task EXCEPT ![h].pc = "struck"]
  /\ UNCHANGED <<epoch, marker, snap, young, hosts, vm, tombs, seen, doomed, exec,
                 astray, faults>>

\* flip_missing, up to the probe.  A live process resets the strikes; a probe
\* that fails counts as absence.
Serving(h, sb) == Reachable(h) /\ vm[sb].state = "running"
FlipProbe(h) ==
  /\ task[h].pc = "struck"
  /\ \/ /\ row.status \in {"dead", "idle", "host_lost"}
        /\ task' = [task EXCEPT ![h].pc = "tail"]
        /\ UNCHANGED row
     \/ /\ row.status \notin {"dead", "idle", "host_lost"}
        /\ Serving(h, task[h].sb)
        /\ row' = [row EXCEPT !.strikes = 0]
        /\ task' = [task EXCEPT ![h].pc = "tail"]
     \/ /\ row.status \notin {"dead", "idle", "host_lost"}
        /\ ~Serving(h, task[h].sb)
        /\ task' = [task EXCEPT ![h].pc = "gone"]
        /\ UNCHANGED row
  /\ UNCHANGED <<epoch, marker, snap, young, hosts, vm, tombs, seen, doomed, exec,
                 astray, faults>>

\* The guarded clear of the exact sandbox that struck out: a transaction of
\* its own, without a tombstone.
FlipClear(h) ==
  /\ task[h].pc = "gone"
  /\ \/ /\ MayUnbind(task[h].sb)
        /\ row' = Unbound
        /\ task' = [task EXCEPT ![h].pc = "cleared"]
     \/ /\ ~MayUnbind(task[h].sb)
        /\ task' = [task EXCEPT ![h].pc = "tail"]
        /\ UNCHANGED row
  /\ LetGo
  /\ UNCHANGED <<epoch, marker, snap, young, hosts, vm, tombs, seen, doomed, exec,
                 faults>>

\* The transition to HostLost, a second transaction.
FlipLose(h) ==
  /\ task[h].pc = "cleared"
  /\ \/ /\ RequireUnbound("host_lost")
        /\ task' = [task EXCEPT ![h].pc = "settle"]
     \/ /\ row.sb # None \/ ~CanTransition(row.status, "host_lost")
        /\ task' = [task EXCEPT ![h].pc = "tail"]
        /\ UNCHANGED <<row, young>>
  /\ UNCHANGED <<epoch, marker, snap, hosts, vm, tombs, seen, doomed, exec, astray, faults>>

\* process_sandbox_tombstones, on a list that is known: entomb_stably_unbound
\* tombstones what an earlier heartbeat sighted unbound, once the grace has
\* passed; ack_sandbox_tombstones_by_absence deletes what the list lacks.
\* T2: the grace does not pass while a resume is about to bind.
Binding(sb) == \E e \in Epoch : exec[e].sb = sb /\ exec[e].pc \in {"bind", "rebind"}
MayEntomb(h) == {sb \in task[h].running \cap seen : row.sb # sb /\ ~Binding(sb)}
AckedAll(h) == On(h)
Acked(h) == On(h) \ task[h].running
ProcessTombstones(h, entombed) ==
  /\ entombed \subseteq MayEntomb(h)
  /\ tombs' = (tombs \cup entombed) \ Acked(h)
  /\ seen' = (seen \ On(h)) \cup ((task[h].running \ {row.sb}) \ entombed)

\* The end of the handler: record_snapshot of the checkpoints that a host which
\* ran the session advertises, the tombstones, and the response with those of
\* the host, which a partition loses.
HeartbeatTail(h) ==
  /\ task[h].pc = "tail"
  /\ snap' \in IF On(h) = {} THEN {snap} ELSE {snap, "recoverable"}
  /\ \/ /\ task[h].known = "known"
        /\ \E entombed \in SUBSET Sandbox : ProcessTombstones(h, entombed)
     \/ task[h].known = "unknown" /\ UNCHANGED <<tombs, seen>>
  /\ doomed' = IF Reachable(h) THEN doomed \cup (tombs' \cap On(h)) ELSE doomed
  /\ EndTask(h)
  /\ UNCHANGED <<row, epoch, marker, hosts, vm, exec, astray, faults>>

-----------------------------------------------------------------------------
(* settle_host_lost, the tail of every detector                            *)

\* recovery_target of the snapshot row as it is now.
RecoveryTargetRaw == snap
RecoveryTarget == IF snap = "recoverable" THEN "idle" ELSE "dead"
SettleRead(k) ==
  /\ task[k].pc = "settle"
  /\ task' = [task EXCEPT ![k].pc = "settling", ![k].target = RecoveryTarget]
  /\ UNCHANGED <<row, epoch, marker, snap, young, hosts, vm, tombs, seen, doomed,
                 exec, astray, faults>>

\* The transition, from whatever the status is by now; a Conflict is dropped.
SettleWrite(k) ==
  /\ task[k].pc = "settling"
  /\ \/ RequireUnbound(task[k].target)
     \/ /\ row.sb # None \/ ~CanTransition(row.status, task[k].target)
        /\ UNCHANGED <<row, young>>
  /\ task' = [task EXCEPT ![k] = IF k \in Host THEN [task[k] EXCEPT !.pc = "tail"]
                                 ELSE Off]
  /\ UNCHANGED <<epoch, marker, snap, hosts, vm, tombs, seen, doomed, exec, astray, faults>>

-----------------------------------------------------------------------------
(* The dead-host detector                                                  *)

\* T1: a handler that renewed the lease ends before the lease does.
LeaseExpires(h) ==
  /\ hosts[h].lease = "live" /\ task[h].pc \in {"off", "sent"}
  /\ hosts' = [hosts EXCEPT ![h].lease = "expired"]
  /\ UNCHANGED <<row, epoch, marker, snap, young, vm, tombs, seen, doomed, task,
                 exec, astray, faults>>

\* evict_host_locked, up to the ping: renew_host_lease, or go on to mark.
EvictPing(w, h) ==
  /\ task[w].pc = "off"
  /\ hosts[h].status = "ready" /\ hosts[h].lease = "expired"
  /\ \/ /\ Reachable(h)
        /\ hosts' = [hosts EXCEPT ![h].lease = "live"]
        /\ UNCHANGED task
     \/ /\ ~Reachable(h)
        /\ task' = [task EXCEPT ![w] = [Off EXCEPT !.pc = "mark", !.host = h]]
        /\ UNCHANGED hosts
  /\ UNCHANGED <<row, epoch, marker, snap, young, vm, tombs, seen, doomed, exec, astray, faults>>

\* mark_host_dead_if_lease_expired: one transaction over the host, every
\* session that names it, and the tombstones of what they were bound to.
LostBinding == {row.sb} \ {None}
MarkDead(w) ==
  LET h == task[w].host
      orphaned == row.host = h /\ row.status # "dead"
  IN /\ task[w].pc = "mark"
     /\ \/ /\ hosts[h].status = "dead" \/ hosts[h].lease = "live"
           /\ task' = [task EXCEPT ![w] = Off]
           /\ UNCHANGED <<row, young, hosts, tombs>>
        \/ /\ hosts[h].status = "ready" /\ hosts[h].lease = "expired"
           /\ hosts' = [hosts EXCEPT ![h].status = "dead"]
           /\ \/ /\ orphaned
                 /\ row' = [row EXCEPT !.status = "host_lost", !.host = None, !.sb = None]
                 /\ Stamp("host_lost")
                 /\ tombs' = tombs \cup LostBinding
                 /\ task' = [task EXCEPT ![w] = [Off EXCEPT !.pc = "settle"]]
              \/ /\ ~orphaned
                 /\ task' = [task EXCEPT ![w] = Off]
                 /\ UNCHANGED <<row, young, tombs>>
     /\ UNCHANGED <<epoch, marker, snap, vm, seen, doomed, exec, astray, faults>>

-----------------------------------------------------------------------------
(* The straggler sweep                                                     *)

\* list_host_lost_sessions, and the age of the row (T3: 60 s outlast the
\* handlers).  The rest of the cycle uses this copy of the row.
StragglerBound == row.status = "host_lost" /\ young = {} /\ row.sb # None
Straggler == row.status = "host_lost" /\ young = {}
SweepList(w) ==
  /\ task[w].pc = "off" /\ Straggler
  /\ task' = [task EXCEPT ![w] = [Off EXCEPT !.host = row.host, !.sb = row.sb,
                !.pc = IF row.sb # None THEN "entomb" ELSE "unhost"]]
  /\ UNCHANGED <<row, epoch, marker, snap, young, hosts, vm, tombs, seen, doomed,
                 exec, astray, faults>>

\* The tombstone, then the probe.  A VM that serves is left to its tombstone;
\* the belt destroy of one that does not is without effect here.
SweptTombs(w) == IF task[w].host # None THEN {task[w].sb} ELSE {}
SweepEntomb(w) ==
  /\ task[w].pc = "entomb"
  /\ tombs' = tombs \cup SweptTombs(w)
  /\ task' = [task EXCEPT ![w].pc = "unbind"]
  /\ UNCHANGED <<row, epoch, marker, snap, young, hosts, vm, seen, doomed, exec, astray, faults>>

\* The guarded clear; a Conflict ends the work on this row.
SweepUnbind(w) ==
  /\ task[w].pc = "unbind"
  /\ \/ /\ MayUnbind(task[w].sb)
        /\ row' = Unbound
        /\ task' = [task EXCEPT ![w].pc = "unhost"]
     \/ /\ ~MayUnbind(task[w].sb)
        /\ task' = [task EXCEPT ![w] = Off]
        /\ UNCHANGED row
  /\ IF task[w].host = None THEN LetGo ELSE UNCHANGED astray
  /\ UNCHANGED <<epoch, marker, snap, young, hosts, vm, tombs, seen, doomed, exec,
                 faults>>

\* assign_session_host(None), if the listed copy had a host: no guard.
SweepUnhost(w) ==
  /\ task[w].pc = "unhost"
  /\ row' = IF task[w].host # None THEN [row EXCEPT !.host = None] ELSE row
  /\ task' = [task EXCEPT ![w] = [Off EXCEPT !.pc = "settle"]]
  /\ UNCHANGED <<epoch, marker, snap, young, hosts, vm, tombs, seen, doomed, exec,
                 astray, faults>>

-----------------------------------------------------------------------------
(* Ops of the session                                                      *)

\* A claim of the session's lane by a resume op: a new one, or one that was
\* requeued or reclaimed and still has its marker.  A reclaimed executor may
\* be alive.
Claim(point) ==
  /\ epoch < MaxEpoch
  /\ point = "redispatch" => marker = "bound"
  /\ epoch' = epoch + 1
  /\ marker' = IF point = "redispatch" THEN marker ELSE "early"
  /\ exec' = [exec EXCEPT ![epoch + 1] = [Ended EXCEPT !.pc = point]]
  /\ UNCHANGED <<row, snap, young, hosts, vm, tombs, seen, doomed, task, astray, faults>>

\* An idle session is nominated for eviction (the scan and the transition as
\* one step).
Nominate ==
  /\ row.status = "active" /\ row.sb # None
  /\ Retain("evicting")
  /\ UNCHANGED <<epoch, marker, snap, hosts, vm, tombs, seen, doomed, task, exec,
                 astray, faults>>

\* The eviction scanner meets a nominated row whose binding has gone.
ScannerFallback ==
  /\ row.status = "evicting" /\ row.sb = None
  /\ Retain("host_lost")
  /\ UNCHANGED <<epoch, marker, snap, hosts, vm, tombs, seen, doomed, task, exec,
                 astray, faults>>

\* An evict op of a nominated session claims the lane for the last time of its
\* budget and fails: HostLost, fenced, with the binding retained.
EvictGivesUp ==
  /\ epoch < MaxEpoch
  /\ row.status = "evicting"
  /\ epoch' = epoch + 1
  /\ Retain("host_lost")
  /\ UNCHANGED <<marker, snap, hosts, vm, tombs, seen, doomed, task, exec, astray, faults>>

Holds(e) == epoch = e
At(e, pc) == exec[e].pc = pc
Goto(e, pc) == exec' = [exec EXCEPT ![e].pc = pc]
Stop(e) == exec' = [exec EXCEPT ![e] = Ended]
DbOnly == UNCHANGED <<epoch, snap, hosts, vm, tombs, seen, doomed, task, faults>>

\* derive_resume_plan and the status match of resume_inner: where the executor
\* goes, and by which plan.  The attempt count, which decides between the
\* shortcut and a changed plan, is left open.
FullPlan ==
  CASE row.status = "idle" /\ row.sb # None /\ row.host # None -> <<"retained", "fresh">>
    [] row.status = "idle" /\ (row.sb = None \/ row.host = None) -> <<"restore", "fresh">>
    [] row.status = "created" /\ row.sb # None /\ row.host # None -> <<"reuse", "created">>
    [] OTHER -> <<"off", "fresh">>
ResumePlans(point) ==
  IF point = "redispatch" /\ row.sb # None /\ row.status \in {"idle", "created"}
  THEN { IF row.host = None THEN <<"off", "fresh">> ELSE <<"reuse", "shortcut">>,
         IF row.status = "created" THEN <<"rebuild", "fresh">> ELSE FullPlan }
  ELSE { FullPlan }

\* resume_inner: the fenced step "dispatch", the row, the plan, and the fenced
\* step that opens it ("finish" of a re-use, "restore").
ResumeDispatch(e) ==
  /\ exec[e].pc \in {"dispatch", "redispatch"}
  /\ \/ ~Holds(e) /\ Stop(e) /\ UNCHANGED marker
     \/ /\ Holds(e)
        /\ \E p \in ResumePlans(exec[e].pc) :
             /\ exec' = [exec EXCEPT ![e] =
                  IF p[1] = "off" THEN Ended
                  ELSE [pc |-> p[1], host |-> row.host, sb |-> row.sb,
                        status |-> row.status, plan |-> p[2]]]
             /\ marker' = IF p[1] = "reuse" THEN "bound" ELSE "early"
  /\ UNCHANGED <<row, young, astray>> /\ DbOnly

\* destroy_retained_sandbox: the destroy is confirmed, or the op is retried.
DestroyRetained(e) ==
  /\ exec[e].pc \in {"retained", "teardown"}
  /\ \/ /\ exec[e].host # None /\ Reachable(exec[e].host)
        /\ vm' = [vm EXCEPT ![exec[e].sb].state = "gone"]
        /\ Goto(e, IF exec[e].pc = "retained" THEN "detach" ELSE "release")
     \/ Stop(e) /\ UNCHANGED vm
  /\ UNCHANGED <<row, epoch, marker, snap, young, hosts, tombs, seen, doomed, task,
                 astray, faults>>

\* fenced_assign_sandbox(None, source_host).
ClearRetained(e) ==
  /\ At(e, "detach")
  /\ \/ /\ Holds(e)
        /\ row' = [Unbound EXCEPT !.host = exec[e].host]
        /\ Stamp(row.status)
        /\ Goto(e, "restore")
     \/ ~Holds(e) /\ Stop(e) /\ UNCHANGED <<row, young>>
  /\ LetGo
  /\ UNCHANGED marker /\ DbOnly

\* The restore RPC: a VM nobody owns yet, on a host that takes placements.
RestoreOk(e, h, sb) ==
  /\ At(e, "restore") /\ snap = "recoverable"
  /\ hosts[h].status = "ready" /\ Reachable(h)
  /\ vm[sb].state = "unborn"
  /\ vm' = [vm EXCEPT ![sb] = [state |-> "running", host |-> h, owner |-> "nobody"]]
  /\ exec' = [exec EXCEPT ![e] = [@ EXCEPT !.pc = "bind", !.host = h, !.sb = sb]]
  /\ UNCHANGED <<row, epoch, marker, snap, young, hosts, tombs, seen, doomed, task,
                 astray, faults>>

\* resume_from_idle finds no artifacts: it demotes the snapshot, or, when there
\* is no row, takes the session to Dead.
SnapshotsGone(e) ==
  /\ At(e, "restore")
  /\ snap' = "none"
  /\ \/ UNCHANGED <<row, young>>
     \/ snap = "none" /\ Detach("dead")
  /\ LetGo
  /\ Stop(e)
  /\ UNCHANGED <<epoch, marker, hosts, vm, tombs, seen, doomed, task, faults>>

\* The restore RPC fails: no host can restore the snapshot, Dead and detached by
\* a transition that carries no epoch; any other error is retried.
RestoreFails(e) ==
  /\ At(e, "restore")
  /\ \/ UNCHANGED <<row, young>>
     \/ Detach("dead")
  /\ LetGo
  /\ Stop(e)
  /\ UNCHANGED <<epoch, marker, snap, hosts, vm, tombs, seen, doomed, task, faults>>

\* The step "bind": a fenced executor leaves the VM to the host's reaper.
StepBind(e) ==
  /\ At(e, "bind")
  /\ \/ Holds(e) /\ Goto(e, "rebind") /\ marker' = "bound"
     \/ ~Holds(e) /\ Stop(e) /\ UNCHANGED marker
  /\ UNCHANGED <<row, young, astray>> /\ DbOnly

\* bind_resumed_session: rebind_session_guarded(expect unbound, [Idle]), which
\* carries no epoch.  On Conflict the new VM is destroyed, if the call lands.
MayRebindAny == row.status = "idle"
MayRebind == row.status = "idle" /\ row.sb = None
Rebind(e) ==
  /\ At(e, "rebind")
  /\ \/ /\ MayRebind
        /\ row' = [row EXCEPT !.host = exec[e].host, !.sb = exec[e].sb, !.strikes = 0]
        /\ Goto(e, "own")
        /\ UNCHANGED vm
     \/ /\ ~MayRebind
        /\ \/ vm' = [vm EXCEPT ![exec[e].sb].state = "gone"]
           \/ UNCHANGED vm
        /\ Stop(e)
        /\ UNCHANGED row
  /\ UNCHANGED <<epoch, marker, snap, young, hosts, tombs, seen, doomed, task, astray, faults>>

\* The same call when a plan re-uses the binding it read.
Reuse(e) ==
  /\ At(e, "reuse")
  /\ \/ /\ row.sb = exec[e].sb /\ row.status = exec[e].status
        /\ row' = [row EXCEPT !.host = exec[e].host, !.strikes = 0]
        /\ Goto(e, "own")
     \/ /\ row.sb # exec[e].sb \/ row.status # exec[e].status
        /\ Stop(e)
        /\ UNCHANGED row
  /\ UNCHANGED <<young, marker, astray>> /\ DbOnly

\* bind_session on the host.  A fresh resume then records the step "finish" and
\* reads the row again; the others did so before.
OwnAndStep(e) ==
  /\ At(e, "own")
  /\ \/ /\ Reachable(exec[e].host) /\ vm[exec[e].sb].state = "running"
        /\ vm' = [vm EXCEPT ![exec[e].sb].owner = "session"]
        /\ \/ /\ exec[e].plan = "fresh" /\ Holds(e)
              /\ exec' = [exec EXCEPT ![e] = [@ EXCEPT !.pc = "finish",
                                                       !.status = row.status]]
           \/ exec[e].plan = "fresh" /\ ~Holds(e) /\ Stop(e)
           \/ exec[e].plan # "fresh" /\ Goto(e, "finish")
     \/ Stop(e) /\ UNCHANGED vm
  /\ UNCHANGED <<row, epoch, marker, snap, young, hosts, tombs, seen, doomed, task,
                 astray, faults>>

\* start_agent.
StartAgent(e) ==
  /\ At(e, "finish")
  /\ \/ /\ Reachable(exec[e].host) /\ vm[exec[e].sb].state = "running"
        /\ Goto(e, "up")
     \/ Goto(e, "down")
  /\ UNCHANGED <<row, young, marker, astray>> /\ DbOnly

\* finish_resume_to_active: the fenced flip, with the binding retained.
FinishActive(e) ==
  /\ At(e, "up")
  /\ \/ Holds(e) /\ Retain("active")
     \/ /\ ~Holds(e) \/ ~CanTransition(row.status, "active")
        /\ UNCHANGED <<row, young>>
  /\ Stop(e) /\ UNCHANGED <<marker, astray>> /\ DbOnly

\* The harness did not start: park at Created if the row was read as Idle,
\* then retry; on the shortcut, a deterministic failure rebuilds at once.
FinishParked(e) ==
  /\ At(e, "down")
  /\ \/ /\ exec[e].status = "idle" /\ Holds(e) /\ Retain("created")
        /\ Stop(e) \/ (exec[e].plan = "shortcut" /\ Goto(e, "rebuild"))
     \/ /\ exec[e].status = "idle"
        /\ ~Holds(e) \/ ~CanTransition(row.status, "created")
        /\ Stop(e) /\ UNCHANGED <<row, young>>
     \/ /\ exec[e].status # "idle"
        /\ Stop(e) \/ (exec[e].plan = "shortcut" /\ Goto(e, "rebuild"))
        /\ UNCHANGED <<row, young>>
  /\ UNCHANGED <<marker, astray>> /\ DbOnly

\* rebuild_binding: the tombstone first ...
RebuildEntomb(e) ==
  /\ At(e, "rebuild")
  /\ tombs' = IF exec[e].host # None THEN tombs \cup {exec[e].sb} ELSE tombs
  /\ Goto(e, IF exec[e].host # None THEN "teardown" ELSE "release")
  /\ UNCHANGED <<row, epoch, marker, snap, young, hosts, vm, seen, doomed, task, astray, faults>>

\* ... then the confirmed teardown (DestroyRetained), then one fenced write.
RebuildRelease(e) ==
  /\ At(e, "release")
  /\ \/ Holds(e) /\ Detach("idle")
     \/ /\ ~Holds(e) \/ ~CanTransition(row.status, "idle")
        /\ UNCHANGED <<row, young>>
  /\ LetGo
  /\ Stop(e) /\ UNCHANGED marker /\ DbOnly

-----------------------------------------------------------------------------
(* Hosts and failures                                                      *)

\* The host destroys what a heartbeat response told it to.
HostDestroys(sb) ==
  /\ sb \in doomed
  /\ doomed' = doomed \ {sb}
  /\ vm' = [vm EXCEPT ![sb].state = "gone"]
  /\ UNCHANGED <<row, epoch, marker, snap, young, hosts, tombs, seen, task, exec,
                 astray, faults>>

\* teardown_reconcile: an unbound VM the coordinator confirms nobody's.  T2.
HostReaps(sb) ==
  /\ vm[sb].state = "running" /\ vm[sb].owner = "nobody"
  /\ Reachable(vm[sb].host) /\ row.sb # sb /\ ~Binding(sb)
  /\ vm' = [vm EXCEPT ![sb].state = "gone"]
  /\ UNCHANGED <<row, epoch, marker, snap, young, hosts, tombs, seen, doomed, task,
                 exec, astray, faults>>

VmDies(sb) ==
  /\ vm[sb].state = "running"
  /\ vm' = [vm EXCEPT ![sb].state = "gone"]
  /\ UNCHANGED <<row, epoch, marker, snap, young, hosts, tombs, seen, doomed, task,
                 exec, astray, faults>>

Fault == faults < MaxFault /\ faults' = faults + 1

Cut(h) ==
  /\ Fault /\ Reachable(h)
  /\ hosts' = [hosts EXCEPT ![h].net = "cut"]
  /\ UNCHANGED <<row, epoch, marker, snap, young, vm, tombs, seen, doomed, task, exec,
                 astray>>

Heal(h) ==
  /\ ~Reachable(h)
  /\ hosts' = [hosts EXCEPT ![h].net = "up"]
  /\ UNCHANGED <<row, epoch, marker, snap, young, vm, tombs, seen, doomed, task, exec,
                 astray, faults>>

\* The host agent restarts and registers (upsert_host): the only way back for
\* a host that was marked dead.  Its VMs outlive the agent; what it had still
\* to destroy is forgotten.
HostRestarts(h) ==
  /\ Reachable(h) /\ task[h].pc = "off"
  /\ \/ hosts[h].status = "dead" /\ UNCHANGED faults
     \/ hosts[h].status = "ready" /\ Fault
  /\ hosts' = [hosts EXCEPT ![h].status = "ready", ![h].lease = "live"]
  /\ doomed' = doomed \ On(h)
  /\ UNCHANGED <<row, epoch, marker, snap, young, vm, tombs, seen, task, exec, astray>>

\* The replica running a task or an executor dies, or its database call does.
TaskDies(k) ==
  /\ Fault /\ task[k].pc # "off"
  /\ EndTask(k)
  /\ UNCHANGED <<row, epoch, marker, snap, hosts, vm, tombs, seen, doomed, exec, astray>>
ExecDies(e) ==
  /\ Fault /\ exec[e].pc # "off"
  /\ Stop(e)
  /\ UNCHANGED <<row, epoch, marker, snap, young, hosts, vm, tombs, seen, doomed, task,
                 astray>>

-----------------------------------------------------------------------------
Heartbeat(h) ==
  \/ HeartbeatSend(h) \/ HeartbeatTouch(h) \/ ReconcileStrike(h)
  \/ FlipProbe(h) \/ FlipClear(h) \/ FlipLose(h) \/ HeartbeatTail(h)
Settle(k) == SettleRead(k) \/ SettleWrite(k)
Sweep(w) ==
  \/ \E h \in Host : EvictPing(w, h)
  \/ MarkDead(w) \/ SweepList(w) \/ SweepEntomb(w) \/ SweepUnbind(w) \/ SweepUnhost(w)
Resume(e) ==
  \/ ResumeDispatch(e) \/ DestroyRetained(e) \/ ClearRetained(e)
  \/ \E h \in Host, sb \in Sandbox : RestoreOk(e, h, sb)
  \/ SnapshotsGone(e) \/ RestoreFails(e) \/ StepBind(e) \/ Rebind(e) \/ Reuse(e) \/ OwnAndStep(e)
  \/ StartAgent(e) \/ FinishActive(e) \/ FinishParked(e)
  \/ RebuildEntomb(e) \/ RebuildRelease(e)
HostStep(sb) == HostDestroys(sb) \/ HostReaps(sb)

Next ==
  \/ \E h \in Host : Heartbeat(h) \/ LeaseExpires(h) \/ Cut(h) \/ Heal(h)
                      \/ HostRestarts(h)
  \/ \E w \in Worker : Sweep(w)
  \/ \E k \in Host \cup Worker : Settle(k) \/ TaskDies(k)
  \/ \E e \in Epoch : Resume(e) \/ ExecDies(e)
  \/ \E sb \in Sandbox : HostStep(sb) \/ VmDies(sb)
  \/ Claim("dispatch") \/ Claim("redispatch")
  \/ Nominate \/ ScannerFallback \/ EvictGivesUp

Spec == Init /\ [][Next]_vars

-----------------------------------------------------------------------------
(* Properties                                                              *)

\* Types of the session row, the hosts, the VMs and the tasks of reconcile.rs,
\* dead_host.rs and the resume verb; a settle only writes a recovery target.
TypeOK ==
  /\ row \in RowType
  /\ epoch \in 0 .. MaxEpoch
  /\ marker \in {"early", "bound"}
  /\ snap \in {"none", "recoverable"}
  /\ young \subseteq Host
  /\ hosts \in [Host -> HostType]
  /\ vm \in [Sandbox -> VmType]
  /\ tombs \subseteq Sandbox /\ seen \subseteq Sandbox /\ doomed \subseteq Sandbox
  /\ task \in [Host \cup Worker -> TaskType]
  /\ exec \in [Epoch -> ExecType]
  /\ astray \subseteq Sandbox
  /\ faults \in 0 .. MaxFault

\* At most one VM runs for the session that its host was told is the session's
\* and that no tombstone condemns (the single_ownership oracle of the
\* simulator): partitions, reclaimed executors and racing detectors included.
\* VMs that went astray are left out: the code has writes that let go of a
\* running VM and leave it to the entomb grace.
Owning == {sb \in Sandbox : /\ vm[sb].state = "running"
                            /\ vm[sb].owner = "session"
                            /\ sb \notin tombs}
SingleOwner == \A a, b \in Owning \ astray : a = b

\* Explicit release: while the session lives, no detector and no op lets go of
\* a running VM that is not condemned.  What a binding gives up is gone or has
\* its tombstone: a struck-out VM is gone before flip_missing clears it, and what
\* a dead host or a sweep takes is entombed first.  Three exceptions the code
\* has: the unfenced Dead of a reclaimed resume (RestoreFails); a sweep or a
\* rebuild whose copy of the row names no host, so that there is no tombstone to
\* write; and the clears of a retained and of a rebuilt binding (ClearRetained,
\* RebuildRelease), which are fenced but do not say which VM they expect.
RunningUncondemned(sb) == vm[sb].state = "running" /\ sb \notin tombs'
Writing(e) == exec[e].pc \in {"detach", "release"} /\ Holds(e) /\ exec'[e] # exec[e]
ClearsAnother == \E e \in Epoch : Writing(e) /\ exec[e].sb # row.sb
LeftHostless ==
  \/ \E e \in Epoch : Writing(e) /\ At(e, "release") /\ exec[e].host = None
  \/ \E w \in Worker : task[w].pc = "unbind" /\ task'[w] # task[w] /\ task[w].host = None
LetsGoCondemned ==
  [][row.sb # None /\ row'.sb # row.sb /\ RunningUncondemned(row.sb)
       => row'.status = "dead" \/ ClearsAnother \/ LeftHostless]_vars

\* What dead_host.rs says of every release: no binding is cleared while its VM
\* runs unless the VM's tombstone is recorded.
NeverClearedUntombed ==
  [][row.sb # None /\ row'.sb # row.sb => ~RunningUncondemned(row.sb)]_vars

-----------------------------------------------------------------------------
(* Liveness                                                                *)

\* Replicas and reachable hosts keep running their loops: every heartbeat
\* handler, sweep and executor that does not die goes on; the dead-host loop
\* sweeps in every cycle whatever its candidates; a host lists its sandboxes
\* again and again, and the entomb grace passes.
Fairness ==
  /\ \A h \in Host :
       /\ WF_vars(Heartbeat(h))
       /\ SF_vars(HeartbeatSend(h) /\ task'[h].known = "known")
       /\ SF_vars(HeartbeatTail(h) /\ task[h].known = "known"
                    /\ MayEntomb(h) # {} /\ MayEntomb(h) \subseteq tombs')
  /\ \A k \in Host \cup Worker : WF_vars(Settle(k))
  /\ \A w \in Worker : WF_vars(Sweep(w)) /\ SF_vars(SweepList(w))
  /\ \A e \in Epoch : WF_vars(Resume(e))
  /\ \A sb \in Sandbox : WF_vars(HostStep(sb))
FairSpec == Spec /\ Fairness

\* HostLost is transient: whichever replica dies in the middle, a sweep settles
\* the session (or an op moves it on).
HostLostSettles == row.status = "host_lost" ~> row.status # "host_lost"

\* A VM that no row names does not outlive a host the coordinator can reach:
\* tombstone, sighting or the host's own reaper gets it, or it is bound.
Stray(sb) == vm[sb].state = "running" /\ row.sb # sb
InReach(h) == h # None /\ hosts[h].status = "ready" /\ Reachable(h)
StraysReaped ==
  \A sb \in Sandbox : Stray(sb) ~> ~Stray(sb) \/ ~InReach(vm[sb].host)
=============================================================================
