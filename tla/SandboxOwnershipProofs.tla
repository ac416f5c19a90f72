----------------------- MODULE SandboxOwnershipProofs -----------------------
(***************************************************************************)
(* Proofs about SandboxOwnership: types, one owner whatever detectors,     *)
(* reclaimed executors, partitions and restarts do, and what a binding may *)
(* let go of.                                                              *)
(*                                                                         *)
(* The first argument is about tombstones.  A heartbeat deletes the        *)
(* tombstone of every VM that is not on the list it carries, and the list  *)
(* is older than the delete.  So a VM the row has let go of stays          *)
(* condemned only when no heartbeat in flight carries a list made before   *)
(* the VM came up (Listed), or when the host is marked dead and its        *)
(* heartbeats are refused.  T1 gives the second to the dead-host detector, *)
(* T3 the first to the sweep.                                              *)
(*                                                                         *)
(* The second is about strikes: a VM that struck out twice was missing     *)
(* from a list made while the row named it.                                *)
(***************************************************************************)
EXTENDS SandboxOwnership, TLAPS

\* The VM is on the list of every heartbeat in flight of its host that has one.
Listed(sb) ==
  LET t == task[vm[sb].host]
  IN t.pc = "off" \/ t.known = "unknown" \/ sb \in t.running

\* Its host was told that the VM is the session's, or is about to be told.
Claimed(sb) ==
  \/ vm[sb].owner = "session"
  \/ \E e \in Epoch : exec[e].pc = "own" /\ exec[e].sb = sb

\* A VM that was restored, on the host named with it if one is named.
Born(sb, h) == vm[sb].state # "unborn" /\ (h # None => vm[sb].host = h)

\* Bindings, and the copies executors have of them, name VMs that came up.
BornOK ==
  /\ \A sb \in Sandbox : vm[sb].state = "unborn" <=> vm[sb].host = None
  /\ \A sb \in doomed : vm[sb].host # None
  /\ row.sb # None => Born(row.sb, row.host)
  /\ \A e \in Epoch : exec[e].sb # None => Born(exec[e].sb, exec[e].host)
  /\ \A e \in Epoch :
       exec[e].pc \notin {"off", "dispatch", "redispatch", "restore"} => exec[e].sb # None

\* T1: past the touch, a handler's host is ready and its lease is live.
HandlersOK ==
  \A h \in Host : task[h].pc \notin {"off", "sent"} =>
                    hosts[h].status = "ready" /\ hosts[h].lease = "live"

\* T3: a HostLost row with a binding has young handlers, or they have the VM listed.
YoungOK ==
  row.status = "host_lost" /\ row.sb # None /\ vm[row.sb].state = "running" =>
    Listed(row.sb) \/ vm[row.sb].host \in young

\* What a sweep is about to unbind is listed, and condemned once it had a host.
SweepsOK ==
  \A w \in Worker : task[w].pc \in {"entomb", "unbind"} =>
    /\ task[w].sb # None /\ vm[task[w].sb].state # "unborn"
    /\ vm[task[w].sb].state = "running" => Listed(task[w].sb)
    /\ task[w].pc = "unbind" /\ task[w].host # None =>
         task[w].sb \in tombs \/ vm[task[w].sb].state # "running"

\* A VM that is the session's, runs, and that the row does not name is condemned
\* for good, unless it was let go without a tombstone.
CondemnedOK ==
  \A sb \in Sandbox :
    vm[sb].state = "running" /\ Claimed(sb) /\ sb \notin astray /\ row.sb # sb =>
      sb \in tombs /\ (Listed(sb) \/ hosts[vm[sb].host].status = "dead")

\* A detector that is about to mark a host knows which.
MarksOK == \A w \in Worker : task[w].pc = "mark" => task[w].host # None

IInv == TypeOK /\ BornOK /\ HandlersOK /\ YoungOK /\ SweepsOK /\ MarksOK /\ CondemnedOK

-----------------------------------------------------------------------------
(* Who writes what.                                                        *)

WritesRow ==
  \/ \E h \in Host : ReconcileStrike(h) \/ FlipProbe(h) \/ FlipClear(h)
       \/ FlipLose(h)
  \/ \E w \in Worker : MarkDead(w) \/ SweepUnbind(w) \/ SweepUnhost(w)
  \/ \E k \in Host \cup Worker : SettleWrite(k)
  \/ \E e \in Epoch : ClearRetained(e) \/ SnapshotsGone(e) \/ RestoreFails(e)
       \/ Rebind(e) \/ Reuse(e) \/ FinishActive(e) \/ FinishParked(e)
       \/ RebuildRelease(e)
  \/ Nominate \/ ScannerFallback \/ EvictGivesUp

WritesTask ==
  \/ \E h \in Host : HeartbeatSend(h) \/ HeartbeatTouch(h) \/ ReconcileStrike(h)
       \/ FlipProbe(h) \/ FlipClear(h) \/ FlipLose(h) \/ HeartbeatTail(h)
  \/ \E w \in Worker, h \in Host : EvictPing(w, h)
  \/ \E w \in Worker : MarkDead(w) \/ SweepList(w) \/ SweepEntomb(w)
       \/ SweepUnbind(w) \/ SweepUnhost(w)
  \/ \E k \in Host \cup Worker : SettleRead(k) \/ SettleWrite(k) \/ TaskDies(k)

WritesExec ==
  \/ \E e \in Epoch : ResumeDispatch(e) \/ DestroyRetained(e) \/ ClearRetained(e)
       \/ SnapshotsGone(e) \/ RestoreFails(e) \/ StepBind(e) \/ Rebind(e)
       \/ Reuse(e) \/ OwnAndStep(e) \/ StartAgent(e) \/ FinishActive(e)
       \/ FinishParked(e) \/ RebuildEntomb(e) \/ RebuildRelease(e) \/ ExecDies(e)
  \/ \E e \in Epoch, h \in Host, sb \in Sandbox : RestoreOk(e, h, sb)
  \/ \E point \in {"dispatch", "redispatch"} : Claim(point)

WritesVm ==
  \/ \E e \in Epoch : DestroyRetained(e) \/ Rebind(e) \/ OwnAndStep(e)
  \/ \E e \in Epoch, h \in Host, sb \in Sandbox : RestoreOk(e, h, sb)
  \/ \E sb \in Sandbox : HostDestroys(sb) \/ HostReaps(sb) \/ VmDies(sb)

WritesTombs ==
  \/ \E h \in Host : HeartbeatTail(h)
  \/ \E w \in Worker : MarkDead(w) \/ SweepEntomb(w)
  \/ \E e \in Epoch : RebuildEntomb(e)

WritesHosts ==
  \/ \E h \in Host : HeartbeatTouch(h) \/ LeaseExpires(h) \/ Cut(h) \/ Heal(h)
       \/ HostRestarts(h)
  \/ \E w \in Worker, h \in Host : EvictPing(w, h)
  \/ \E w \in Worker : MarkDead(w)

WritesAstray ==
  \/ \E h \in Host : FlipClear(h)
  \/ \E w \in Worker : SweepUnbind(w)
  \/ \E e \in Epoch : ClearRetained(e) \/ SnapshotsGone(e) \/ RestoreFails(e)
       \/ RebuildRelease(e)

WritesYoung ==
  \/ \E h \in Host : HeartbeatTouch(h) \/ FlipLose(h) \/ HeartbeatTail(h)
  \/ \E w \in Worker : MarkDead(w)
  \/ \E k \in Host \cup Worker : SettleWrite(k) \/ TaskDies(k)
  \/ \E e \in Epoch : ClearRetained(e) \/ SnapshotsGone(e) \/ RestoreFails(e)
       \/ FinishActive(e) \/ FinishParked(e) \/ RebuildRelease(e)
  \/ Nominate \/ ScannerFallback \/ EvictGivesUp

WritesDoomed ==
  \/ \E h \in Host : HeartbeatTail(h) \/ HostRestarts(h)
  \/ \E sb \in Sandbox : HostDestroys(sb)

WritesSmall ==
  \/ \E h \in Host : HeartbeatTail(h) \/ Cut(h) \/ HostRestarts(h)
  \/ \E k \in Host \cup Worker : TaskDies(k)
  \/ \E e \in Epoch : ResumeDispatch(e) \/ SnapshotsGone(e) \/ StepBind(e)
       \/ ExecDies(e)
  \/ \E point \in {"dispatch", "redispatch"} : Claim(point)
  \/ EvictGivesUp

Framed ==
  /\ row' = row \/ WritesRow
  /\ task' = task \/ WritesTask
  /\ exec' = exec \/ WritesExec
  /\ vm' = vm \/ WritesVm
  /\ tombs' = tombs \/ WritesTombs
  /\ hosts' = hosts \/ WritesHosts
  /\ astray' = astray \/ WritesAstray
  /\ young' = young \/ WritesYoung
  /\ doomed' = doomed \/ WritesDoomed
  /\ UNCHANGED <<epoch, marker, snap, seen, faults>> \/ WritesSmall

\* A step changes a variable only through the actions that write it.
LEMMA Frames == ASSUME Next PROVE Framed
<1> USE DEF Framed, WritesRow, WritesTask, WritesExec, WritesVm, WritesTombs, WritesHosts, WritesAstray,
           WritesYoung, WritesDoomed, WritesSmall
<1>1. ASSUME NEW h \in Host, HeartbeatSend(h) PROVE Framed
  BY <1>1 DEF HeartbeatSend
<1>2. ASSUME NEW h \in Host, HeartbeatTouch(h) PROVE Framed
  BY <1>2 DEF HeartbeatTouch
<1>3. ASSUME NEW h \in Host, ReconcileStrike(h) PROVE Framed
  BY <1>3 DEF ReconcileStrike
<1>4. ASSUME NEW h \in Host, FlipProbe(h) PROVE Framed
  BY <1>4 DEF FlipProbe
<1>5. ASSUME NEW h \in Host, FlipClear(h) PROVE Framed
  BY <1>5 DEF FlipClear
<1>6. ASSUME NEW h \in Host, FlipLose(h) PROVE Framed
  BY <1>6 DEF FlipLose
<1>7. ASSUME NEW h \in Host, HeartbeatTail(h) PROVE Framed
  BY <1>7 DEF HeartbeatTail
<1>8. ASSUME NEW h \in Host, LeaseExpires(h) PROVE Framed
  BY <1>8 DEF LeaseExpires
<1>9. ASSUME NEW h \in Host, Cut(h) PROVE Framed
  BY <1>9 DEF Cut
<1>10. ASSUME NEW h \in Host, Heal(h) PROVE Framed
  BY <1>10 DEF Heal
<1>11. ASSUME NEW h \in Host, HostRestarts(h) PROVE Framed
  BY <1>11 DEF HostRestarts
<1>12. ASSUME NEW w \in Worker, NEW h \in Host, EvictPing(w, h) PROVE Framed
  BY <1>12 DEF EvictPing
<1>13. ASSUME NEW w \in Worker, MarkDead(w) PROVE Framed
  BY <1>13 DEF MarkDead
<1>14. ASSUME NEW w \in Worker, SweepList(w) PROVE Framed
  BY <1>14 DEF SweepList
<1>15. ASSUME NEW w \in Worker, SweepEntomb(w) PROVE Framed
  BY <1>15 DEF SweepEntomb
<1>16. ASSUME NEW w \in Worker, SweepUnbind(w) PROVE Framed
  BY <1>16 DEF SweepUnbind
<1>17. ASSUME NEW w \in Worker, SweepUnhost(w) PROVE Framed
  BY <1>17 DEF SweepUnhost
<1>18. ASSUME NEW k \in Host \cup Worker, SettleRead(k) PROVE Framed
  BY <1>18 DEF SettleRead
<1>19. ASSUME NEW k \in Host \cup Worker, SettleWrite(k) PROVE Framed
  BY <1>19 DEF SettleWrite
<1>20. ASSUME NEW k \in Host \cup Worker, TaskDies(k) PROVE Framed
  BY <1>20 DEF TaskDies
<1>21. ASSUME NEW e \in Epoch, ResumeDispatch(e) PROVE Framed
  BY <1>21 DEF ResumeDispatch, DbOnly
<1>22. ASSUME NEW e \in Epoch, DestroyRetained(e) PROVE Framed
  BY <1>22 DEF DestroyRetained
<1>23. ASSUME NEW e \in Epoch, ClearRetained(e) PROVE Framed
  BY <1>23 DEF ClearRetained, DbOnly
<1>24. ASSUME NEW e \in Epoch, NEW h \in Host, NEW sb \in Sandbox, RestoreOk(e, h, sb) PROVE Framed
  BY <1>24 DEF RestoreOk
<1>25. ASSUME NEW e \in Epoch, SnapshotsGone(e) PROVE Framed
  BY <1>25 DEF SnapshotsGone
<1>26. ASSUME NEW e \in Epoch, RestoreFails(e) PROVE Framed
  BY <1>26 DEF RestoreFails
<1>27. ASSUME NEW e \in Epoch, StepBind(e) PROVE Framed
  BY <1>27 DEF StepBind, DbOnly
<1>28. ASSUME NEW e \in Epoch, Rebind(e) PROVE Framed
  BY <1>28 DEF Rebind
<1>29. ASSUME NEW e \in Epoch, Reuse(e) PROVE Framed
  BY <1>29 DEF Reuse, DbOnly
<1>30. ASSUME NEW e \in Epoch, OwnAndStep(e) PROVE Framed
  BY <1>30 DEF OwnAndStep
<1>31. ASSUME NEW e \in Epoch, StartAgent(e) PROVE Framed
  BY <1>31 DEF StartAgent, DbOnly
<1>32. ASSUME NEW e \in Epoch, FinishActive(e) PROVE Framed
  BY <1>32 DEF FinishActive, DbOnly
<1>33. ASSUME NEW e \in Epoch, FinishParked(e) PROVE Framed
  BY <1>33 DEF FinishParked, DbOnly
<1>34. ASSUME NEW e \in Epoch, RebuildEntomb(e) PROVE Framed
  BY <1>34 DEF RebuildEntomb
<1>35. ASSUME NEW e \in Epoch, RebuildRelease(e) PROVE Framed
  BY <1>35 DEF RebuildRelease, DbOnly
<1>36. ASSUME NEW e \in Epoch, ExecDies(e) PROVE Framed
  BY <1>36 DEF ExecDies
<1>37. ASSUME NEW sb \in Sandbox, HostDestroys(sb) PROVE Framed
  BY <1>37 DEF HostDestroys
<1>38. ASSUME NEW sb \in Sandbox, HostReaps(sb) PROVE Framed
  BY <1>38 DEF HostReaps
<1>39. ASSUME NEW sb \in Sandbox, VmDies(sb) PROVE Framed
  BY <1>39 DEF VmDies
<1>40. ASSUME NEW point \in {"dispatch", "redispatch"}, Claim(point) PROVE Framed
  BY <1>40 DEF Claim
<1>41. CASE Nominate
  BY <1>41 DEF Nominate
<1>42. CASE ScannerFallback
  BY <1>42 DEF ScannerFallback
<1>43. CASE EvictGivesUp
  BY <1>43 DEF EvictGivesUp
<1> QED
  BY <1>1, <1>2, <1>3, <1>4, <1>5, <1>6, <1>7, <1>8, <1>9, <1>10, <1>11, <1>12, <1>13, <1>14, <1>15, <1>16, <1>17, <1>18, <1>19, <1>20, <1>21, <1>22, <1>23, <1>24, <1>25, <1>26, <1>27, <1>28, <1>29, <1>30, <1>31, <1>32, <1>33, <1>34, <1>35, <1>36, <1>37, <1>38, <1>39, <1>40, <1>41, <1>42, <1>43
     DEF Next, Heartbeat, Sweep, Settle, Resume, HostStep

-----------------------------------------------------------------------------
(* What a step does to VMs, lists, tombstones and bindings, whichever it is.*)

\* A VM comes up once, stays on its host, and does not run again when it is gone.
VmsSteady ==
  \A sb \in Sandbox : vm[sb].state # "unborn" =>
    /\ vm'[sb].host = vm[sb].host /\ vm'[sb].state # "unborn"
    /\ vm'[sb].state = "running" => vm[sb].state = "running"

VmNext ==
  /\ vm' \in [Sandbox -> VmType]
  /\ VmsSteady
  /\ \A sb \in Sandbox : vm'[sb].state = "unborn" <=> vm'[sb].host = None
  /\ \A sb \in Sandbox : vm'[sb].owner = "session" => Claimed(sb)
  /\ \A sb \in Sandbox : vm[sb].state = "unborn" /\ vm'[sb].state = "running" =>
       vm'[sb].owner = "nobody"

\* The VMs after a step: DestroyRetained, RestoreOk, Rebind, OwnAndStep and the
\* host's own destroys are the only writers.
LEMMA VmStep == ASSUME TypeOK, BornOK, Next PROVE VmNext
<1> USE NoneAssumption DEF VmNext, VmsSteady, Claimed, TypeOK, VmType, Born
<1>1. CASE vm' = vm
  BY <1>1 DEF BornOK
<1>a. ASSUME NEW x \in Sandbox, vm[x].state # "unborn",
             vm' = [vm EXCEPT ![x].state = "gone"]
      PROVE  VmNext
  BY <1>a DEF BornOK
<1>b. ASSUME NEW e \in Epoch, exec[e].pc \in {"retained", "teardown", "rebind", "own"}
      PROVE  exec[e].sb \in Sandbox /\ vm[exec[e].sb].state # "unborn"
  BY <1>b DEF BornOK, ExecType
<1>2. ASSUME NEW e \in Epoch, DestroyRetained(e) PROVE VmNext
  BY <1>1, <1>2, <1>a, <1>b DEF DestroyRetained
<1>3. ASSUME NEW e \in Epoch, Rebind(e) PROVE VmNext
  BY <1>1, <1>3, <1>a, <1>b DEF Rebind, At
<1>4. ASSUME NEW e \in Epoch, OwnAndStep(e) PROVE VmNext
  <2> DEFINE x == exec[e].sb
  <2>1. exec[e].pc = "own" /\ x \in Sandbox /\ vm[x].state # "unborn"
    BY <1>4, <1>b DEF OwnAndStep, At
  <2>2. CASE vm' = [vm EXCEPT ![x].owner = "session"]
    BY <2>1, <2>2 DEF BornOK
  <2> QED
    BY <1>1, <1>4, <2>2 DEF OwnAndStep
<1>5. ASSUME NEW e \in Epoch, NEW h \in Host, NEW sb \in Sandbox, RestoreOk(e, h, sb)
      PROVE  VmNext
  BY <1>5 DEF RestoreOk, BornOK
<1>6. ASSUME NEW sb \in Sandbox, HostDestroys(sb) PROVE VmNext
  BY <1>6 DEF HostDestroys, BornOK
<1>7. ASSUME NEW sb \in Sandbox, HostReaps(sb) PROVE VmNext
  BY <1>7 DEF HostReaps, BornOK
<1>8. ASSUME NEW sb \in Sandbox, VmDies(sb) PROVE VmNext
  BY <1>8 DEF VmDies, BornOK
<1> QED
  BY <1>1, <1>2, <1>3, <1>4, <1>5, <1>6, <1>7, <1>8, Frames DEF Framed, WritesVm

\* Every heartbeat in flight keeps its list, ends, or starts with a new one.
KeepsLists ==
  \A h \in Host :
    \/ task'[h].pc = "off" \/ task'[h].known = "unknown"
    \/ /\ task[h].pc # "off"
       /\ task'[h].known = task[h].known /\ task'[h].running = task[h].running
    \/ RunningOn(h) \subseteq task'[h].running

Touched(h) == task[h].pc \notin {"off", "sent"}

TaskNext ==
  /\ task' \in [Host \cup Worker -> TaskType]
  /\ KeepsLists
  /\ \A h \in Host : Touched(h)' =>
       Touched(h) \/ (hosts'[h].status = "ready" /\ hosts'[h].lease = "live")
  /\ MarksOK'

\* The tasks after a step: lists are only made by HeartbeatSend, and a handler
\* passes the touch of its host only while the host is ready.
LEMMA TaskStep == ASSUME TypeOK, MarksOK, Next PROVE TaskNext
<1> DEFINE Task == Host \cup Worker
<1> USE TaskAssumption, NoneAssumption DEF TaskNext, KeepsLists, Touched, MarksOK
<1>0. task \in [Task -> TaskType]
  BY DEF TypeOK
<1>1. CASE task' = task
  BY <1>0, <1>1 DEF TaskType
<1>2. ASSUME NEW k \in Task, NEW v \in TaskType, task' = [task EXCEPT ![k] = v],
             v.pc # "mark" \/ v.host # None,
             \/ k \in Worker \/ v.pc = "off"
             \/ task[k].pc \notin {"off", "sent"} /\ v.known = task[k].known
                  /\ v.running = task[k].running
      PROVE  TaskNext
  BY <1>0, <1>2 DEF TaskType
<1>3. Off \in TaskType /\ Off.pc = "off"
  BY DEF Off, TaskType, TaskPc
<1> DEFINE ToSettle == [Off EXCEPT !.pc = "settle"]
<1>s. ToSettle \in TaskType /\ ToSettle.pc = "settle"
  BY DEF Off, TaskType, TaskPc
<1> HIDE DEF ToSettle
<1>4. ASSUME NEW k \in Task, NEW p \in TaskPc \ {"mark"}, task' = [task EXCEPT ![k].pc = p],
             k \in Worker \/ task[k].pc \notin {"off", "sent"}
      PROVE  TaskNext
  <2> DEFINE v == [task[k] EXCEPT !.pc = p]
  <2>1. task[k] \in TaskType
    BY <1>0
  <2>2. /\ v \in TaskType /\ v.pc # "mark"
        /\ v.known = task[k].known /\ v.running = task[k].running
    BY <2>1 DEF TaskType
  <2>3. task' = [task EXCEPT ![k] = v]
    BY <1>4
  <2> QED
    BY <1>2, <1>4, <2>2, <2>3
<1>5. ASSUME NEW k \in Task, EndTask(k) PROVE TaskNext
  BY <1>2, <1>3, <1>5 DEF EndTask, Off
<1>6. ASSUME NEW h \in Host, HeartbeatSend(h) PROVE TaskNext
  <2>1. PICK known \in {"known", "unknown"} :
          task' = [task EXCEPT ![h] = [Off EXCEPT !.pc = "sent", !.known = known,
                     !.running = IF known = "known" THEN RunningOn(h) ELSE {}]]
    BY <1>6 DEF HeartbeatSend
  <2> DEFINE v == [Off EXCEPT !.pc = "sent", !.known = known,
                     !.running = IF known = "known" THEN RunningOn(h) ELSE {}]
  <2>2. RunningOn(h) \subseteq Sandbox
    BY DEF RunningOn, On
  <2>3. /\ v \in TaskType /\ v.pc = "sent" /\ v.known = known
        /\ v.running = IF known = "known" THEN RunningOn(h) ELSE {}
    BY <2>2 DEF Off, TaskType, TaskPc
  <2>4. task' = [task EXCEPT ![h] = v]
    BY <2>1
  <2> HIDE DEF v
  <2> QED
    BY <1>0, <2>3, <2>4 DEF TaskType
<1>7. ASSUME NEW h \in Host, HeartbeatTouch(h) PROVE TaskNext
  <2>1. CASE EndTask(h)
    BY <1>5, <2>1
  <2>a. ASSUME hosts[h].status = "ready", hosts' = [hosts EXCEPT ![h].lease = "live"],
               NEW v \in TaskType, task' = [task EXCEPT ![h] = v], task[h].pc = "sent",
               v.known = task[h].known, v.running = task[h].running
        PROVE  TaskNext
    <3>1. hosts'[h].status = "ready" /\ hosts'[h].lease = "live"
      BY <2>a DEF TypeOK, HostType
    <3>2. task' \in [Task -> TaskType]
      BY <1>0, <2>a
    <3>3. task'[h] = v /\ \A x \in Task : x # h => task'[x] = task[x]
      BY <1>0, <2>a
    <3> QED
      BY <2>a, <3>1, <3>2, <3>3
  <2>b. task[h] \in TaskType
    BY <1>0
  <2>2. ASSUME NEW x \in Sandbox \cup {None},
               hosts[h].status = "ready", hosts' = [hosts EXCEPT ![h].lease = "live"],
               task' = [task EXCEPT ![h].pc = "listed", ![h].sb = x], task[h].pc = "sent"
        PROVE  TaskNext
    <3> DEFINE v == [task[h] EXCEPT !.pc = "listed", !.sb = x]
    <3>1. v \in TaskType /\ v.known = task[h].known /\ v.running = task[h].running
      BY <2>b DEF TaskType, TaskPc
    <3>2. task' = [task EXCEPT ![h] = v]
      BY <2>2
    <3> QED
      BY <2>2, <2>a, <3>1, <3>2
  <2>3. ASSUME hosts[h].status = "ready", hosts' = [hosts EXCEPT ![h].lease = "live"],
               task' = [task EXCEPT ![h].pc = "tail"], task[h].pc = "sent"
        PROVE  TaskNext
    <3> DEFINE v == [task[h] EXCEPT !.pc = "tail"]
    <3>1. v \in TaskType /\ v.known = task[h].known /\ v.running = task[h].running
      BY <2>b DEF TaskType, TaskPc
    <3>2. task' = [task EXCEPT ![h] = v]
      BY <2>3
    <3> QED
      BY <2>3, <2>a, <3>1, <3>2
  <2> QED
    BY <1>7, <2>1, <2>2, <2>3 DEF HeartbeatTouch, TypeOK, RowType
<1>8. ASSUME NEW h \in Host, ReconcileStrike(h) PROVE TaskNext
  BY <1>4, <1>8 DEF ReconcileStrike, TaskPc
<1>9. ASSUME NEW h \in Host, FlipProbe(h) PROVE TaskNext
  BY <1>4, <1>9 DEF FlipProbe, TaskPc
<1>10. ASSUME NEW h \in Host, FlipClear(h) PROVE TaskNext
  BY <1>4, <1>10 DEF FlipClear, TaskPc
<1>11. ASSUME NEW h \in Host, FlipLose(h) PROVE TaskNext
  BY <1>4, <1>11 DEF FlipLose, TaskPc
<1>12. ASSUME NEW h \in Host, HeartbeatTail(h) PROVE TaskNext
  BY <1>5, <1>12 DEF HeartbeatTail
<1>13. ASSUME NEW w \in Worker, NEW h \in Host, EvictPing(w, h) PROVE TaskNext
  <2> DEFINE v == [Off EXCEPT !.pc = "mark", !.host = h]
  <2>1. v \in TaskType /\ v.host # None
    BY DEF Off, TaskType, TaskPc
  <2>2. task' = task \/ task' = [task EXCEPT ![w] = v]
    BY <1>13 DEF EvictPing
  <2> HIDE DEF v
  <2> QED
    BY <1>1, <1>2, <2>1, <2>2
<1>14. ASSUME NEW w \in Worker, MarkDead(w) PROVE TaskNext
  <2>1. task' = [task EXCEPT ![w] = Off] \/ task' = [task EXCEPT ![w] = ToSettle]
    BY <1>14 DEF MarkDead, ToSettle
  <2> QED
    BY <1>2, <1>3, <1>s, <2>1
<1>15. ASSUME NEW w \in Worker, SweepList(w) PROVE TaskNext
  <2> DEFINE v == [Off EXCEPT !.host = row.host, !.sb = row.sb,
                     !.pc = IF row.sb # None THEN "entomb" ELSE "unhost"]
  <2>1. v \in TaskType /\ v.pc # "mark"
    BY DEF Off, TaskType, TaskPc, TypeOK, RowType
  <2>2. task' = [task EXCEPT ![w] = v]
    BY <1>15 DEF SweepList
  <2> HIDE DEF v
  <2> QED
    BY <1>2, <2>1, <2>2
<1>16. ASSUME NEW w \in Worker, SweepEntomb(w) PROVE TaskNext
  BY <1>4, <1>16 DEF SweepEntomb, TaskPc
<1>17. ASSUME NEW w \in Worker, SweepUnbind(w) PROVE TaskNext
  <2>1. CASE task' = [task EXCEPT ![w] = Off]
    BY <1>2, <1>3, <2>1
  <2>2. CASE task' = [task EXCEPT ![w].pc = "unhost"]
    BY <1>4, <2>2 DEF TaskPc
  <2> QED
    BY <1>17, <2>1, <2>2 DEF SweepUnbind
<1>18. ASSUME NEW w \in Worker, SweepUnhost(w) PROVE TaskNext
  <2>1. task' = [task EXCEPT ![w] = ToSettle]
    BY <1>18 DEF SweepUnhost, ToSettle
  <2> QED
    BY <1>2, <1>s, <2>1
<1>19. ASSUME NEW k \in Task, SettleRead(k) PROVE TaskNext
  <2> DEFINE v == [task[k] EXCEPT !.pc = "settling", !.target = RecoveryTarget]
  <2>1. task[k] \in TaskType
    BY <1>0
  <2>2. /\ v \in TaskType /\ v.pc # "mark"
        /\ v.known = task[k].known /\ v.running = task[k].running
    BY <2>1 DEF TaskType, TaskPc, RecoveryTarget
  <2>3. task' = [task EXCEPT ![k] = v]
    BY <1>19 DEF SettleRead
  <2> QED
    BY <1>2, <1>19, <2>2, <2>3 DEF SettleRead
<1>20. ASSUME NEW k \in Task, SettleWrite(k) PROVE TaskNext
  <2> DEFINE v == IF k \in Host THEN [task[k] EXCEPT !.pc = "tail"] ELSE Off
  <2>1. task[k] \in TaskType
    BY <1>0
  <2>2. v \in TaskType /\ v.pc # "mark" /\ (k \in Host => v.known = task[k].known
                                          /\ v.running = task[k].running)
    BY <1>3, <2>1 DEF TaskType, TaskPc, Off
  <2>3. task' = [task EXCEPT ![k] = v] /\ task[k].pc = "settling"
    BY <1>20 DEF SettleWrite
  <2> QED
    BY <1>2, <2>2, <2>3
<1>21. ASSUME NEW k \in Task, TaskDies(k) PROVE TaskNext
  BY <1>5, <1>21 DEF TaskDies
<1> QED
  BY <1>1, <1>6, <1>7, <1>8, <1>9, <1>10, <1>11, <1>12, <1>13, <1>14, <1>15, <1>16,
     <1>17, <1>18, <1>19, <1>20, <1>21, Frames DEF Framed, WritesTask

Unplanned == {"off", "dispatch", "redispatch", "restore"}
BornNext(sb, h) == vm'[sb].state # "unborn" /\ (h # None => vm'[sb].host = h)

ExecNext ==
  /\ exec' \in [Epoch -> ExecType]
  /\ \A e \in Epoch : exec'[e].sb # None => BornNext(exec'[e].sb, exec'[e].host)
  /\ \A e \in Epoch : exec'[e].pc \notin Unplanned => exec'[e].sb # None
  /\ \A e \in Epoch : exec'[e].pc = "own" =>
       \/ exec[e].pc = "own" /\ exec'[e].sb = exec[e].sb
       \/ row'.sb = exec'[e].sb

\* The executors after a step: what they name came up, and they reach bind_session
\* only for the VM the row then names.
LEMMA ExecStep == ASSUME TypeOK, BornOK, Next PROVE ExecNext
<1> USE NoneAssumption DEF ExecNext, Unplanned
<1>0. /\ exec \in [Epoch -> ExecType] /\ row \in RowType
      /\ \A i \in Epoch : exec[i] \in ExecType
  BY DEF TypeOK
<1>1. \A sb \in Sandbox, h \in Host \cup {None} : Born(sb, h) => BornNext(sb, h)
  BY VmStep DEF VmNext, VmsSteady, Born, BornNext
<1>2. \A i \in Epoch :
        /\ exec[i].sb # None => BornNext(exec[i].sb, exec[i].host)
        /\ exec[i].pc \notin Unplanned => exec[i].sb # None
  BY <1>0, <1>1 DEF BornOK, ExecType
<1>3. CASE exec' = exec
  BY <1>0, <1>2, <1>3
<1>4. ASSUME NEW e \in Epoch, NEW v \in ExecType, exec' = [exec EXCEPT ![e] = v],
             v.sb # None => BornNext(v.sb, v.host),
             v.pc \notin Unplanned => v.sb # None,
             v.pc = "own" => row'.sb = v.sb
      PROVE  ExecNext
  BY <1>0, <1>2, <1>4
<1>5. ASSUME NEW e \in Epoch, Stop(e) PROVE ExecNext
  <2>1. Ended \in ExecType /\ Ended.sb = None /\ Ended.pc = "off"
    BY DEF Ended, ExecType, ExecPc, Status
  <2> QED
    BY <1>4, <1>5, <2>1 DEF Stop
<1>6. ASSUME NEW e \in Epoch, NEW p \in ExecPc, Goto(e, p),
             exec[e].pc \notin Unplanned \/ p \in Unplanned,
             p = "own" => row'.sb = exec[e].sb
      PROVE  ExecNext
  <2> DEFINE v == [exec[e] EXCEPT !.pc = p]
  <2>1. v \in ExecType /\ v.pc = p /\ v.sb = exec[e].sb /\ v.host = exec[e].host
    BY <1>0 DEF ExecType
  <2>2. exec' = [exec EXCEPT ![e] = v]
    BY <1>6 DEF Goto
  <2> HIDE DEF v
  <2> QED
    BY <1>2, <1>4, <1>6, <2>1, <2>2
<1>7. ASSUME NEW point \in {"dispatch", "redispatch"}, Claim(point) PROVE ExecNext
  <2> DEFINE v == [Ended EXCEPT !.pc = point]
  <2>1. v \in ExecType /\ v.sb = None /\ v.pc = point
    BY DEF Ended, ExecType, ExecPc, Status
  <2>2. epoch + 1 \in Epoch /\ exec' = [exec EXCEPT ![epoch + 1] = v]
    BY <1>7, BoundAssumption DEF Claim, TypeOK, Epoch
  <2> HIDE DEF v
  <2> QED
    BY <1>4, <2>1, <2>2
<1>8. ASSUME NEW e \in Epoch, ResumeDispatch(e) PROVE ExecNext
  <2>1. ASSUME NEW p \in ResumePlans(exec[e].pc), p[1] # "off",
               exec' = [exec EXCEPT ![e] = [pc |-> p[1], host |-> row.host,
                          sb |-> row.sb, status |-> row.status, plan |-> p[2]]]
        PROVE  ExecNext
    <3> DEFINE v == [pc |-> p[1], host |-> row.host, sb |-> row.sb,
                     status |-> row.status, plan |-> p[2]]
    <3>1. \/ p[1] = "restore" /\ p[2] = "fresh"
          \/ /\ row.sb # None
             /\ \/ p[1] \in {"retained", "rebuild"} /\ p[2] = "fresh"
                \/ p[1] = "reuse" /\ p[2] \in {"created", "shortcut"}
      BY <2>1 DEF ResumePlans, FullPlan
    <3>2. v \in ExecType
      BY <1>0, <3>1 DEF ExecType, ExecPc, RowType
    <3>3. v.sb = row.sb /\ v.host = row.host /\ v.pc = p[1]
      OBVIOUS
    <3>4. row.sb # None => BornNext(row.sb, row.host)
      BY <1>0, <1>1 DEF BornOK, RowType
    <3>5. exec' = [exec EXCEPT ![e] = v]
      BY <2>1
    <3> HIDE DEF v
    <3> QED
      BY <1>4, <3>1, <3>2, <3>3, <3>4, <3>5
  <2>2. CASE exec' = [exec EXCEPT ![e] = Ended]
    BY <1>5, <2>2 DEF Stop
  <2> QED
    BY <1>8, <2>1, <2>2 DEF ResumeDispatch, Stop
<1>9. ASSUME NEW e \in Epoch, NEW h \in Host, NEW sb \in Sandbox, RestoreOk(e, h, sb)
      PROVE  ExecNext
  <2> DEFINE v == [exec[e] EXCEPT !.pc = "bind", !.host = h, !.sb = sb]
  <2>1. v \in ExecType /\ v.sb = sb /\ v.pc = "bind" /\ v.host = h
    BY <1>0 DEF ExecType, ExecPc
  <2>2. exec' = [exec EXCEPT ![e] = v]
    BY <1>9 DEF RestoreOk
  <2>3. BornNext(sb, h)
    BY <1>9 DEF RestoreOk, BornNext, TypeOK, VmType
  <2> HIDE DEF v
  <2> QED
    BY <1>4, <2>1, <2>2, <2>3
<1>10. ASSUME NEW e \in Epoch, DestroyRetained(e) PROVE ExecNext
  BY <1>5, <1>6, <1>10 DEF DestroyRetained, ExecPc
<1>11. ASSUME NEW e \in Epoch, ClearRetained(e) PROVE ExecNext
  BY <1>5, <1>6, <1>11 DEF ClearRetained, ExecPc, At
<1>12. ASSUME NEW e \in Epoch, SnapshotsGone(e) \/ RestoreFails(e) \/ FinishActive(e)
                               \/ RebuildRelease(e) \/ ExecDies(e)
       PROVE  ExecNext
  BY <1>5, <1>12 DEF SnapshotsGone, RestoreFails, FinishActive, RebuildRelease, ExecDies
<1>13. ASSUME NEW e \in Epoch, StepBind(e) PROVE ExecNext
  BY <1>5, <1>6, <1>13 DEF StepBind, ExecPc, At
<1>14. ASSUME NEW e \in Epoch, Rebind(e) PROVE ExecNext
  <2>1. CASE MayRebind
    <3>1. row'.sb = exec[e].sb /\ Goto(e, "own") /\ exec[e].pc = "rebind"
      BY <1>0, <1>14, <2>1 DEF Rebind, At, RowType
    <3> QED
      BY <1>6, <3>1 DEF ExecPc
  <2>2. CASE ~MayRebind
    BY <1>5, <1>14, <2>2 DEF Rebind
  <2> QED
    BY <2>1, <2>2
<1>15. ASSUME NEW e \in Epoch, Reuse(e) PROVE ExecNext
  <2>1. CASE row.sb = exec[e].sb /\ row.status = exec[e].status
    <3>1. row'.sb = exec[e].sb /\ Goto(e, "own") /\ exec[e].pc = "reuse"
      BY <1>0, <1>15, <2>1 DEF Reuse, At, RowType
    <3> QED
      BY <1>6, <3>1 DEF ExecPc
  <2> QED
    BY <1>5, <1>15, <2>1 DEF Reuse
<1>16. ASSUME NEW e \in Epoch, OwnAndStep(e) PROVE ExecNext
  <2>1. ASSUME exec[e].pc = "own",
               exec' = [exec EXCEPT ![e] = [@ EXCEPT !.pc = "finish", !.status = row.status]]
        PROVE  ExecNext
    <3> DEFINE v == [exec[e] EXCEPT !.pc = "finish", !.status = row.status]
    <3>1. v \in ExecType /\ v.sb = exec[e].sb /\ v.host = exec[e].host /\ v.pc = "finish"
      BY <1>0 DEF ExecType, ExecPc, RowType
    <3>2. exec' = [exec EXCEPT ![e] = v]
      BY <2>1
    <3> HIDE DEF v
    <3> QED
      BY <1>2, <1>4, <2>1, <3>1, <3>2
  <2> QED
    BY <1>5, <1>6, <1>16, <2>1 DEF OwnAndStep, At, ExecPc
<1>17. ASSUME NEW e \in Epoch, StartAgent(e) PROVE ExecNext
  BY <1>6, <1>17 DEF StartAgent, At, ExecPc
<1>18. ASSUME NEW e \in Epoch, FinishParked(e) PROVE ExecNext
  BY <1>5, <1>6, <1>18 DEF FinishParked, At, ExecPc
<1>19. ASSUME NEW e \in Epoch, RebuildEntomb(e) PROVE ExecNext
  BY <1>6, <1>19 DEF RebuildEntomb, At, ExecPc
<1> QED
  BY <1>3, <1>7, <1>8, <1>9, <1>10, <1>11, <1>12, <1>13, <1>14, <1>15, <1>16, <1>17,
     <1>18, <1>19, Frames DEF Framed, WritesExec

\* The host of a VM that came up is a host.
LEMMA HostOf ==
  ASSUME TypeOK, BornOK, NEW sb \in Sandbox, vm[sb].state # "unborn"
  PROVE  vm[sb].host \in Host
BY DEF TypeOK, BornOK, VmType

\* Listed in the state after a step, also of a VM that state names.
ListedNext(sb) ==
  LET t == task'[vm'[sb].host]
  IN t.pc = "off" \/ t.known = "unknown" \/ sb \in t.running

\* A VM on all the lists in flight of its host stays on them while it runs.
LEMMA ListedStep ==
  ASSUME TypeOK, BornOK, MarksOK, Next,
         NEW sb \in Sandbox, vm[sb].state = "running", vm'[sb].state = "running",
         Listed(sb) \/ task[vm[sb].host].pc = "off"
  PROVE  ListedNext(sb)
<1>1. vm[sb].host \in Host /\ vm'[sb].host = vm[sb].host
  BY HostOf, VmStep DEF VmNext, VmsSteady
<1>2. sb \in RunningOn(vm[sb].host)
  BY DEF RunningOn, On
<1>3. KeepsLists
  BY TaskStep DEF TaskNext
<1> QED
  BY <1>1, <1>2, <1>3 DEF Listed, ListedNext, KeepsLists

HostsNext ==
  /\ hosts' \in [Host -> HostType]
  /\ \A h \in Host : hosts[h].status = "dead" =>
       hosts'[h].status = "dead" \/ task'[h].pc = "off"
  /\ \A h \in Host : Touched(h) /\ hosts[h].status = "ready" /\ hosts[h].lease = "live" =>
       hosts'[h].status = "ready" /\ hosts'[h].lease = "live"

\* The rows of hosts after a step: only a restart brings a dead host back, without
\* a heartbeat in flight, and T1 keeps the lease of a handler's host.
LEMMA HostsStep == ASSUME TypeOK, Next PROVE HostsNext
<1> USE DEF HostsNext, TypeOK, HostType, Touched
<1>1. CASE hosts' = hosts
  BY <1>1
<1>2. ASSUME NEW h \in Host, HeartbeatTouch(h) PROVE HostsNext
  BY <1>1, <1>2 DEF HeartbeatTouch
<1>3. ASSUME NEW h \in Host, LeaseExpires(h) PROVE HostsNext
  BY <1>3 DEF LeaseExpires
<1>4. ASSUME NEW h \in Host, Cut(h) PROVE HostsNext
  BY <1>4 DEF Cut
<1>5. ASSUME NEW h \in Host, Heal(h) PROVE HostsNext
  BY <1>5 DEF Heal
<1>6. ASSUME NEW h \in Host, HostRestarts(h) PROVE HostsNext
  BY <1>6 DEF HostRestarts
<1>7. ASSUME NEW w \in Worker, NEW h \in Host, EvictPing(w, h) PROVE HostsNext
  BY <1>1, <1>7 DEF EvictPing
<1>8. ASSUME NEW w \in Worker, MarkDead(w) PROVE HostsNext
  BY <1>1, <1>8 DEF MarkDead
<1> QED
  BY <1>1, <1>2, <1>3, <1>4, <1>5, <1>6, <1>7, <1>8, Frames DEF Framed, WritesHosts

Condemned(sb) == Listed(sb) \/ hosts[vm[sb].host].status = "dead"

TombsNext ==
  /\ tombs' \subseteq Sandbox
  /\ \A sb \in tombs : vm[sb].state = "running" /\ Condemned(sb) => sb \in tombs'

\* The tombstones after a step: only a heartbeat deletes any, of VMs its list lacks.
LEMMA TombsStep == ASSUME TypeOK, BornOK, HandlersOK, SweepsOK, Next PROVE TombsNext
<1> USE DEF TombsNext
<1>0. tombs \subseteq Sandbox /\ row.sb \in Sandbox \cup {None}
  BY DEF TypeOK, RowType
<1>1. CASE tombs \subseteq tombs' /\ tombs' \subseteq Sandbox
  BY <1>1
<1>2. ASSUME NEW h \in Host, HeartbeatTail(h) PROVE TombsNext
  <2>1. hosts[h].status = "ready" /\ task[h].pc = "tail"
    BY <1>2 DEF HeartbeatTail, HandlersOK
  <2>2. CASE task[h].known = "known"
    <3>1. PICK entombed \in SUBSET Sandbox : tombs' = (tombs \cup entombed) \ Acked(h)
      BY <1>2, <2>2 DEF HeartbeatTail, ProcessTombstones
    <3>2. ASSUME NEW sb \in tombs, vm[sb].state = "running", Condemned(sb)
          PROVE  sb \notin Acked(h)
      BY <1>0, <2>1, <2>2, <3>2 DEF Condemned, Listed, Acked, On
    <3> QED
      BY <1>0, <3>1, <3>2
  <2> QED
    BY <1>0, <1>1, <1>2, <2>2 DEF HeartbeatTail
<1>3. ASSUME NEW w \in Worker, MarkDead(w) PROVE TombsNext
  BY <1>0, <1>1, <1>3 DEF MarkDead, LostBinding
<1>4. ASSUME NEW w \in Worker, SweepEntomb(w) PROVE TombsNext
  <2>1. task[w].sb \in Sandbox
    BY <1>4 DEF SweepEntomb, SweepsOK, TypeOK, TaskType
  <2> QED
    BY <1>0, <1>1, <1>4, <2>1 DEF SweepEntomb, SweptTombs
<1>5. ASSUME NEW e \in Epoch, RebuildEntomb(e) PROVE TombsNext
  <2>1. exec[e].sb \in Sandbox
    BY <1>5 DEF RebuildEntomb, At, BornOK, TypeOK, ExecType
  <2> QED
    BY <1>0, <1>1, <1>5, <2>1 DEF RebuildEntomb
<1> QED
  BY <1>0, <1>1, <1>2, <1>3, <1>4, <1>5, Frames DEF Framed, WritesTombs

\* Once astray, always: it is history.
LEMMA AstrayStep == ASSUME TypeOK, Next PROVE astray \subseteq astray' /\ astray' \subseteq Sandbox
BY Frames DEF Framed, WritesAstray, TypeOK, FlipClear, SweepUnbind, ClearRetained,
     SnapshotsGone, RestoreFails, RebuildRelease, LetGo

SmallNext ==
  /\ epoch' \in 0 .. MaxEpoch
  /\ marker' \in {"early", "bound"}
  /\ snap' \in {"none", "recoverable"}
  /\ seen' \subseteq Sandbox
  /\ faults' \in 0 .. MaxFault

\* The counters, the marker, the snapshot and the sightings keep their types.
LEMMA SmallStep == ASSUME TypeOK, Next PROVE SmallNext
<1> USE BoundAssumption DEF SmallNext
<1>0. SmallNext \/ WritesSmall
  BY Frames DEF Framed, TypeOK
<1>1. ASSUME NEW h \in Host, HeartbeatTail(h) PROVE SmallNext
  BY <1>1 DEF HeartbeatTail, ProcessTombstones, MayEntomb, TypeOK, TaskType
<1>2. ASSUME NEW h \in Host, Cut(h) \/ HostRestarts(h) PROVE SmallNext
  BY <1>2 DEF Cut, HostRestarts, Fault, TypeOK
<1>3. ASSUME NEW k \in Host \cup Worker, TaskDies(k) PROVE SmallNext
  BY <1>3 DEF TaskDies, Fault, TypeOK
<1>4. ASSUME NEW e \in Epoch, ResumeDispatch(e) \/ SnapshotsGone(e) \/ StepBind(e) \/ ExecDies(e)
      PROVE  SmallNext
  BY <1>4 DEF ResumeDispatch, SnapshotsGone, StepBind, ExecDies, Fault, DbOnly, TypeOK
<1>5. ASSUME NEW point \in {"dispatch", "redispatch"}, Claim(point) PROVE SmallNext
  BY <1>5 DEF Claim, TypeOK
<1>6. CASE EvictGivesUp
  BY <1>6 DEF EvictGivesUp, TypeOK
<1> QED
  BY <1>0, <1>1, <1>2, <1>3, <1>4, <1>5, <1>6 DEF WritesSmall

\* What a host was told to destroy came up.
LEMMA DoomedStep ==
  ASSUME TypeOK, BornOK, HandlersOK, SweepsOK, Next
  PROVE  doomed' \subseteq Sandbox /\ \A sb \in doomed' : vm'[sb].host # None
<1>0. /\ doomed \subseteq Sandbox /\ tombs' \subseteq Sandbox
      /\ \A sb \in doomed : vm[sb].host # None
  BY TombsStep DEF TombsNext, TypeOK, BornOK
<1>1. \A sb \in Sandbox : vm[sb].host # None => vm'[sb].host # None
  BY VmStep DEF VmNext, VmsSteady, BornOK
<1>2. ASSUME NEW h \in Host, HeartbeatTail(h)
      PROVE  \A sb \in doomed' : sb \in doomed \/ sb \in tombs' \cap On(h)
  BY <1>2 DEF HeartbeatTail
<1>3. \A h \in Host : \A sb \in On(h) : vm[sb].host # None
  BY NoneAssumption DEF On
<1>4. ASSUME NEW h \in Host, HostRestarts(h) PROVE doomed' \subseteq doomed
  BY <1>4 DEF HostRestarts
<1>5. ASSUME NEW sb \in Sandbox, HostDestroys(sb) PROVE doomed' \subseteq doomed
  BY <1>5 DEF HostDestroys
<1> QED
  BY <1>0, <1>1, <1>2, <1>3, <1>4, <1>5, Frames DEF Framed, WritesDoomed

\* What the row gave up in a step has stopped, is astray, or is condemned.
GivenUp(sb) ==
  \/ vm[sb].state # "running" \/ sb \in astray'
  \/ sb \in tombs' /\ (Listed(sb) \/ hosts'[vm[sb].host].status = "dead")

RowNext ==
  /\ row' \in RowType
  /\ row'.sb # None => BornNext(row'.sb, row'.host)
  /\ row'.sb \in {None, row.sb} \/ row'.status = "idle"
  /\ row.sb # None /\ row'.sb # row.sb => row'.sb = None /\ GivenUp(row.sb)

\* The row after a step: only Rebind names another VM, and only on an unbound row;
\* whoever unbinds has the tombstone recorded, marked the host dead, or is LetGo.
LEMMA RowStep == ASSUME IInv, Next PROVE RowNext
<1> USE NoneAssumption DEF RowNext
<1>a. TypeOK /\ BornOK /\ SweepsOK /\ MarksOK
  BY DEF IInv
<1>b. \A sb \in Sandbox, h \in Host \cup {None} : Born(sb, h) => BornNext(sb, h)
  BY <1>a, VmStep DEF VmNext, VmsSteady, Born, BornNext
<1>c. row \in RowType /\ (row.sb # None => BornNext(row.sb, row.host) /\ BornNext(row.sb, None))
  BY <1>a, <1>b DEF TypeOK, BornOK, RowType, BornNext
<1>d. ASSUME row' \in RowType, row'.sb = row.sb, row'.host \in {None, row.host} PROVE RowNext
  BY <1>c, <1>d
<1>e. ASSUME row' \in RowType, row'.sb = None, row.sb # None => GivenUp(row.sb) PROVE RowNext
  BY <1>e
<1>f. ASSUME row' \in RowType, row'.sb = None, LetGo PROVE RowNext
  BY <1>c, <1>e, <1>f DEF LetGo, GivenUp, RowType
<1>g. ASSUME NEW to \in Status, Retain(to) PROVE RowNext
  BY <1>c, <1>d, <1>g DEF Retain, RowType
<1>h. ASSUME NEW to \in Status, Detach(to), LetGo PROVE RowNext
  BY <1>c, <1>f, <1>h DEF Detach, RowType
<1>i. CASE row' = row
  BY <1>c, <1>d, <1>i
<1>j. Unbound \in RowType /\ Unbound.sb = None
  BY <1>c DEF Unbound, RowType
<1>1. ASSUME NEW h \in Host, ReconcileStrike(h) \/ FlipProbe(h) PROVE RowNext
  BY <1>c, <1>d, <1>i, <1>1 DEF ReconcileStrike, FlipProbe, RowType
<1>2. ASSUME NEW h \in Host, FlipClear(h) PROVE RowNext
  BY <1>f, <1>i, <1>j, <1>2 DEF FlipClear
<1>3. ASSUME NEW h \in Host, FlipLose(h) PROVE RowNext
  BY <1>g, <1>i, <1>3 DEF FlipLose, RequireUnbound, Status
<1>4. ASSUME NEW w \in Worker, MarkDead(w) PROVE RowNext
  <2> DEFINE h == task[w].host
  <2>1. h \in Host
    BY <1>a, <1>4 DEF MarkDead, MarksOK, TypeOK, TaskType
  <2>2. CASE /\ row.host = h /\ hosts' = [hosts EXCEPT ![h].status = "dead"]
             /\ row' = [row EXCEPT !.status = "host_lost", !.host = None, !.sb = None]
             /\ tombs' = tombs \cup LostBinding
    <3>1. row' \in RowType /\ row'.sb = None
      BY <1>c, <2>2 DEF RowType, Status
    <3>2. hosts'[h].status = "dead"
      BY <1>a, <2>1, <2>2 DEF TypeOK, HostType
    <3>3. row.sb # None => row.sb \in tombs' /\ vm[row.sb].host = h
      BY <1>a, <2>1, <2>2 DEF LostBinding, BornOK, Born
    <3> QED
      BY <1>e, <3>1, <3>2, <3>3 DEF GivenUp
  <2> QED
    BY <1>i, <1>4, <2>2 DEF MarkDead
<1>5. ASSUME NEW w \in Worker, SweepUnbind(w) PROVE RowNext
  <2>1. CASE row' = Unbound /\ row.sb = task[w].sb
    <3>1. CASE task[w].host = None
      BY <1>f, <1>j, <1>5, <2>1, <3>1 DEF SweepUnbind
    <3>2. CASE task[w].host # None
      <4>1. GivenUp(row.sb)
        BY <1>a, <1>5, <2>1, <3>2 DEF SweepUnbind, SweepsOK, GivenUp
      <4> QED
        BY <1>e, <1>j, <2>1, <4>1
    <3> QED
      BY <3>1, <3>2
  <2> QED
    BY <1>i, <1>5, <2>1 DEF SweepUnbind, MayUnbind
<1>6. ASSUME NEW w \in Worker, SweepUnhost(w) PROVE RowNext
  BY <1>c, <1>d, <1>i, <1>6 DEF SweepUnhost, RowType
<1>7. ASSUME NEW k \in Host \cup Worker, SettleWrite(k) PROVE RowNext
  <2>1. task[k].target \in Status
    BY <1>a DEF TypeOK, TaskType, Status
  <2> QED
    BY <1>g, <1>i, <1>7, <2>1 DEF SettleWrite, RequireUnbound
<1>8. ASSUME NEW e \in Epoch, ClearRetained(e) PROVE RowNext
  <2>1. exec[e].host \in Host \cup {None}
    BY <1>a DEF TypeOK, ExecType
  <2>2. CASE row' = [Unbound EXCEPT !.host = exec[e].host]
    <3>1. row' \in RowType /\ row'.sb = None
      BY <1>j, <2>1, <2>2 DEF RowType
    <3> QED
      BY <1>f, <1>8, <3>1 DEF ClearRetained
  <2> QED
    BY <1>i, <1>8, <2>2 DEF ClearRetained
<1>9. ASSUME NEW e \in Epoch, SnapshotsGone(e) \/ RestoreFails(e) \/ RebuildRelease(e)
      PROVE  RowNext
  BY <1>h, <1>i, <1>9 DEF SnapshotsGone, RestoreFails, RebuildRelease, Status
<1>10. ASSUME NEW e \in Epoch, Rebind(e) PROVE RowNext
  <2>1. CASE /\ MayRebind
             /\ row' = [row EXCEPT !.host = exec[e].host, !.sb = exec[e].sb, !.strikes = 0]
    <3>1. exec[e].host \in Host \cup {None} /\ exec[e].sb \in Sandbox
      BY <1>a, <1>10 DEF TypeOK, ExecType, BornOK, Rebind, At
    <3>2. BornNext(exec[e].sb, exec[e].host)
      BY <1>a, <1>b, <3>1 DEF BornOK
    <3>3. /\ row' \in RowType /\ row'.sb = exec[e].sb /\ row'.host = exec[e].host
          /\ row'.status = "idle" /\ row.sb = None
      BY <1>c, <2>1, <3>1 DEF RowType, MayRebind
    <3> QED
      BY <3>2, <3>3
  <2> QED
    BY <1>i, <1>10, <2>1 DEF Rebind
<1>11. ASSUME NEW e \in Epoch, Reuse(e) PROVE RowNext
  <2>1. CASE row.sb = exec[e].sb /\ row' = [row EXCEPT !.host = exec[e].host, !.strikes = 0]
    <3>1. exec[e].host \in Host \cup {None} /\ exec[e].sb \in Sandbox
      BY <1>a, <1>11 DEF TypeOK, ExecType, BornOK, Reuse, At
    <3>2. BornNext(exec[e].sb, exec[e].host)
      BY <1>a, <1>b, <3>1 DEF BornOK
    <3>3. row' \in RowType /\ row'.sb = row.sb /\ row'.host = exec[e].host
      BY <1>c, <2>1, <3>1 DEF RowType
    <3> QED
      BY <2>1, <3>2, <3>3
  <2> QED
    BY <1>i, <1>11, <2>1 DEF Reuse
<1>12. ASSUME NEW e \in Epoch, FinishActive(e) \/ FinishParked(e) PROVE RowNext
  BY <1>g, <1>i, <1>12 DEF FinishActive, FinishParked, Status
<1>13. CASE Nominate \/ ScannerFallback \/ EvictGivesUp
  BY <1>g, <1>13 DEF Nominate, ScannerFallback, EvictGivesUp, Status
<1> QED
  BY <1>i, <1>1, <1>2, <1>3, <1>4, <1>5, <1>6, <1>7, <1>8, <1>9, <1>10, <1>11, <1>12,
     <1>13, Frames DEF Framed, WritesRow

StampedAll == {h \in Host : task[h].pc # "off"} \subseteq young'
AgedOnly == row.status = "host_lost" /\ \A h \in young : h \in young' \/ task'[h].pc = "off"

YoungNext ==
  /\ young' \subseteq Host
  /\ row'.status = "host_lost" => StampedAll \/ AgedOnly

\* A row becomes HostLost with every handler in flight young, and each ends before
\* it ages.
LEMMA YoungStep == ASSUME TypeOK, Next PROVE YoungNext
<1> USE DEF YoungNext
<1>a. /\ young \subseteq Host /\ row \in RowType /\ task \in [Host \cup Worker -> TaskType]
  BY DEF TypeOK
<1>b. ASSUME NEW to \in Status, Stamp(to), row'.status = to PROVE YoungNext
  BY <1>b DEF Stamp, StampedAll
<1>c. CASE young' = young /\ row'.status = row.status
  BY <1>a, <1>c DEF AgedOnly
<1>d. ASSUME NEW to \in Status, Retain(to) \/ Detach(to) PROVE YoungNext
  BY <1>a, <1>b, <1>d DEF Retain, Detach, RowType
<1>e. ASSUME NEW k \in Host \cup Worker, EndTask(k), row' = row PROVE YoungNext
  BY <1>a, <1>e DEF EndTask, AgedOnly, Off
<1>1. ASSUME NEW h \in Host, HeartbeatTouch(h) PROVE YoungNext
  BY <1>c, <1>e, <1>1 DEF HeartbeatTouch
<1>2. ASSUME NEW h \in Host, FlipLose(h) PROVE YoungNext
  BY <1>c, <1>d, <1>2 DEF FlipLose, RequireUnbound, Status
<1>3. ASSUME NEW h \in Host, HeartbeatTail(h) PROVE YoungNext
  BY <1>e, <1>3 DEF HeartbeatTail
<1>4. ASSUME NEW w \in Worker, MarkDead(w) PROVE YoungNext
  BY <1>a, <1>b, <1>c, <1>4 DEF MarkDead, Status, RowType
<1>5. ASSUME NEW k \in Host \cup Worker, SettleWrite(k) PROVE YoungNext
  <2>1. task[k].target \in Status
    BY <1>a DEF TaskType, Status
  <2> QED
    BY <1>c, <1>d, <1>5, <2>1 DEF SettleWrite, RequireUnbound
<1>6. ASSUME NEW k \in Host \cup Worker, TaskDies(k) PROVE YoungNext
  BY <1>e, <1>6 DEF TaskDies
<1>7. ASSUME NEW e \in Epoch, ClearRetained(e) PROVE YoungNext
  <2>1. CASE row' = [Unbound EXCEPT !.host = exec[e].host] /\ Stamp(row.status)
    <3>1. row'.status = row.status /\ row.status \in Status
      BY <1>a, <2>1 DEF Unbound, RowType
    <3> QED
      BY <1>b, <2>1, <3>1
  <2> QED
    BY <1>c, <1>7, <2>1 DEF ClearRetained
<1>8. ASSUME NEW e \in Epoch, \/ SnapshotsGone(e) \/ RestoreFails(e) \/ RebuildRelease(e)
                              \/ FinishActive(e) \/ FinishParked(e)
      PROVE  YoungNext
  BY <1>c, <1>d, <1>8 DEF SnapshotsGone, RestoreFails, RebuildRelease, FinishActive,
     FinishParked, Status
<1>9. CASE Nominate \/ ScannerFallback \/ EvictGivesUp
  BY <1>d, <1>9 DEF Nominate, ScannerFallback, EvictGivesUp, Status
<1>10. CASE row' = row /\ young' = young
  BY <1>c, <1>10
<1>11. ASSUME young' = young, WritesRow, ~WritesYoung PROVE row'.status = row.status
  <2>1. ASSUME NEW h \in Host, ReconcileStrike(h) \/ FlipProbe(h) PROVE row'.status = row.status
    BY <1>a, <2>1 DEF ReconcileStrike, FlipProbe, RowType
  <2>2. ASSUME NEW h \in Host, FlipClear(h) PROVE row'.status = row.status
    BY <1>a, <2>2 DEF FlipClear, Unbound, RowType
  <2>3. ASSUME NEW w \in Worker, SweepUnbind(w) PROVE row'.status = row.status
    BY <1>a, <2>3 DEF SweepUnbind, Unbound, RowType
  <2>4. ASSUME NEW w \in Worker, SweepUnhost(w) PROVE row'.status = row.status
    BY <1>a, <2>4 DEF SweepUnhost, RowType
  <2>5. ASSUME NEW e \in Epoch, Rebind(e) \/ Reuse(e) PROVE row'.status = row.status
    BY <1>a, <2>5 DEF Rebind, Reuse, RowType
  <2> QED
    BY <1>11, <2>1, <2>2, <2>3, <2>4, <2>5 DEF WritesRow, WritesYoung
<1> QED
  BY <1>c, <1>1, <1>2, <1>3, <1>4, <1>5, <1>6, <1>7, <1>8, <1>9, <1>10, <1>11, Frames
     DEF Framed, WritesYoung

Sweeping(w) == task[w].pc \in {"entomb", "unbind"}

\* A sweep gets to the binding of a straggler by listing the row, then entombing.
LEMMA SweepTasks ==
  ASSUME TypeOK, Next, NEW w \in Worker, Sweeping(w)'
  PROVE  task'[w] = task[w] \/ SweepList(w) \/ SweepEntomb(w)
<1> DEFINE Goal == task'[w] = task[w] \/ SweepList(w) \/ SweepEntomb(w)
<1> USE TaskAssumption DEF Sweeping
<1>0. task \in [Host \cup Worker -> TaskType] /\ Off.pc = "off"
  BY DEF TypeOK, Off
<1>a. ASSUME NEW k \in Host \cup Worker, NEW v, task' = [task EXCEPT ![k] = v],
             k \in Host \/ v.pc \notin {"entomb", "unbind"}
      PROVE  Goal
  BY <1>0, <1>a
<1>b. ASSUME NEW k \in Host \cup Worker, EndTask(k) PROVE Goal
  BY <1>0, <1>a, <1>b DEF EndTask
<1>1. ASSUME NEW h \in Host, \/ HeartbeatSend(h) \/ HeartbeatTouch(h) \/ ReconcileStrike(h)
                             \/ FlipProbe(h) \/ FlipClear(h) \/ FlipLose(h) \/ HeartbeatTail(h)
      PROVE  task'[w] = task[w]
  BY <1>0, <1>1 DEF HeartbeatSend, HeartbeatTouch, ReconcileStrike, FlipProbe, FlipClear,
     FlipLose, HeartbeatTail, EndTask
<1>2. ASSUME NEW x \in Worker, NEW h \in Host, EvictPing(x, h) PROVE Goal
  BY <1>0, <1>2 DEF EvictPing, Off
<1>3. ASSUME NEW x \in Worker, MarkDead(x) PROVE Goal
  BY <1>0, <1>3 DEF MarkDead, Off
<1>4. ASSUME NEW x \in Worker, SweepList(x) \/ SweepEntomb(x) PROVE Goal
  BY <1>0, <1>4 DEF SweepList, SweepEntomb
<1>5. ASSUME NEW x \in Worker, SweepUnbind(x) PROVE Goal
  BY <1>0, <1>5 DEF SweepUnbind, TaskType
<1>6. ASSUME NEW x \in Worker, SweepUnhost(x) PROVE Goal
  BY <1>0, <1>6 DEF SweepUnhost, Off
<1>7. ASSUME NEW k \in Host \cup Worker, SettleRead(k) PROVE Goal
  BY <1>0, <1>7 DEF SettleRead, TaskType
<1>8. ASSUME NEW k \in Host \cup Worker, SettleWrite(k) PROVE Goal
  BY <1>0, <1>8 DEF SettleWrite, TaskType
<1>9. ASSUME NEW k \in Host \cup Worker, TaskDies(k) PROVE Goal
  BY <1>b, <1>9 DEF TaskDies
<1> QED
  BY <1>1, <1>2, <1>3, <1>4, <1>5, <1>6, <1>7, <1>8, <1>9, Frames DEF Framed, WritesTask

-----------------------------------------------------------------------------
(* The inductive invariant                                                 *)

\* A running session brought up by create satisfies it.
LEMMA InitIInv == ASSUME Init PROVE IInv
<1> USE NoneAssumption
<1>1. PICK h \in Host, sb \in Sandbox :
        /\ row = [status |-> "active", host |-> h, sb |-> sb, strikes |-> 0]
        /\ vm = [x \in Sandbox |->
               IF x = sb THEN [state |-> "running", host |-> h, owner |-> "session"]
               ELSE [state |-> "unborn", host |-> None, owner |-> "nobody"]]
        /\ epoch = 0 /\ marker = "early" /\ snap = "none" /\ young = {}
        /\ hosts = [x \in Host |-> [status |-> "ready", lease |-> "live", net |-> "up"]]
        /\ tombs = {} /\ seen = {} /\ doomed = {}
        /\ task = [k \in Host \cup Worker |-> Off]
        /\ exec = [e \in Epoch |-> Ended]
        /\ astray = {} /\ faults = 0
  BY DEF Init
<1>2. Off \in TaskType /\ Off.pc = "off" /\ Ended \in ExecType /\ Ended.pc = "off" /\ Ended.sb = None
  BY DEF Off, TaskType, TaskPc, Ended, ExecType, ExecPc, Status
<1>3. TypeOK
  BY <1>1, <1>2, BoundAssumption DEF TypeOK, RowType, Status, HostType, VmType
<1>4. BornOK
  BY <1>1, <1>2 DEF BornOK, Born
<1>5. HandlersOK /\ YoungOK /\ SweepsOK /\ MarksOK
  BY <1>1, <1>2 DEF HandlersOK, YoungOK, SweepsOK, MarksOK
<1>6. CondemnedOK
  BY <1>1, <1>2 DEF CondemnedOK
<1> QED
  BY <1>3, <1>4, <1>5, <1>6 DEF IInv

\* Steps that change nothing keep it.
LEMMA StutterIInv == ASSUME IInv, UNCHANGED vars PROVE IInv'
BY DEF IInv, vars, TypeOK, BornOK, Born, HandlersOK, YoungOK, Listed, SweepsOK, MarksOK,
     CondemnedOK, Claimed

\* Types after a step, variable by variable.
LEMMA TypeNext == ASSUME IInv, Next PROVE TypeOK'
<1>1. TypeOK /\ BornOK /\ HandlersOK /\ SweepsOK /\ MarksOK
  BY DEF IInv
<1>2. row' \in RowType /\ young' \subseteq Host /\ SmallNext
  BY <1>1, RowStep, YoungStep, SmallStep DEF RowNext, YoungNext
<1>3. hosts' \in [Host -> HostType] /\ vm' \in [Sandbox -> VmType]
  BY <1>1, HostsStep, VmStep DEF HostsNext, VmNext
<1>4. task' \in [Host \cup Worker -> TaskType] /\ exec' \in [Epoch -> ExecType]
  BY <1>1, TaskStep, ExecStep DEF TaskNext, ExecNext
<1>5. tombs' \subseteq Sandbox /\ doomed' \subseteq Sandbox /\ astray' \subseteq Sandbox
  BY <1>1, TombsStep, DoomedStep, AstrayStep DEF TombsNext
<1> QED
  BY <1>2, <1>3, <1>4, <1>5 DEF TypeOK, SmallNext

\* Every step of every detector, executor and host keeps the invariant.
LEMMA NextIInv == ASSUME IInv, Next PROVE IInv'
<1> USE NoneAssumption
<1>1. TypeOK /\ BornOK /\ HandlersOK /\ YoungOK /\ SweepsOK /\ MarksOK /\ CondemnedOK
  BY DEF IInv
<1>2. TypeOK' /\ MarksOK'
  BY <1>1, TypeNext, TaskStep DEF TaskNext
<1>3. VmNext /\ TaskNext /\ ExecNext /\ HostsNext /\ TombsNext /\ RowNext /\ YoungNext
  BY <1>1, VmStep, TaskStep, ExecStep, HostsStep, TombsStep, RowStep, YoungStep
<1>4. BornOK'
  <2>1. \A sb \in doomed' : vm'[sb].host # None
    BY <1>1, DoomedStep
  <2> QED
    BY <1>3, <2>1 DEF BornOK, Born, BornNext, VmNext, RowNext, ExecNext, Unplanned
<1>5. HandlersOK'
  BY <1>1, <1>3 DEF HandlersOK, TaskNext, HostsNext, Touched
<1>l. ASSUME NEW sb \in Sandbox, vm[sb].state # "unborn", vm'[sb].state = "running",
             Listed(sb) \/ task[vm[sb].host].pc = "off"
      PROVE  ListedNext(sb)
  BY <1>1, <1>3, <1>l, ListedStep DEF VmNext, VmsSteady
<1>6. YoungOK'
  <2> DEFINE sb == row'.sb
  <2>1. SUFFICES ASSUME row'.status = "host_lost", sb # None, vm'[sb].state = "running",
                        ~ListedNext(sb)
                 PROVE  vm'[sb].host \in young'
    BY DEF YoungOK, Listed, ListedNext
  <2>2. row.sb = sb /\ sb \in Sandbox /\ Born(sb, row.host)
    BY <1>1, <1>3, <2>1 DEF RowNext, BornOK, RowType
  <2>3. vm[sb].state = "running" /\ vm'[sb].host = vm[sb].host /\ vm[sb].host \in Host
    BY <1>1, <1>3, <2>1, <2>2, HostOf DEF VmNext, VmsSteady, Born
  <2>4. task[vm[sb].host].pc # "off" /\ ~Listed(sb)
    BY <1>l, <2>1, <2>2, <2>3
  <2>5. CASE StampedAll
    BY <2>3, <2>4, <2>5 DEF StampedAll
  <2>6. CASE AgedOnly
    <3>1. vm[sb].host \in young
      BY <1>1, <2>1, <2>2, <2>3, <2>4, <2>6 DEF AgedOnly, YoungOK
    <3>2. task'[vm[sb].host].pc # "off"
      BY <2>1, <2>3 DEF ListedNext
    <3> QED
      BY <2>3, <2>6, <3>1, <3>2 DEF AgedOnly
  <2> QED
    BY <1>3, <2>1, <2>5, <2>6 DEF YoungNext
<1>7. SweepsOK'
  <2> SUFFICES ASSUME NEW w \in Worker, Sweeping(w)'
               PROVE  LET sb == task'[w].sb
                      IN /\ sb # None /\ vm'[sb].state # "unborn"
                         /\ vm'[sb].state = "running" => ListedNext(sb)
                         /\ task'[w].pc = "unbind" /\ task'[w].host # None =>
                              sb \in tombs' \/ vm'[sb].state # "running"
    BY DEF SweepsOK, Sweeping, Listed, ListedNext
  <2> DEFINE sb == task'[w].sb
  <2>0. task'[w] = task[w] \/ SweepList(w) \/ SweepEntomb(w)
    BY <1>1, SweepTasks
  <2>a. ASSUME sb \in Sandbox, vm[sb].state # "unborn",
               vm[sb].state = "running" => Listed(sb) \/ task[vm[sb].host].pc = "off"
        PROVE  vm'[sb].state # "unborn" /\ (vm'[sb].state = "running" => ListedNext(sb))
    BY <1>3, <1>l, <2>a DEF VmNext, VmsSteady
  <2>1. CASE task'[w] = task[w]
    <3>1. /\ sb \in Sandbox /\ vm[sb].state # "unborn"
          /\ vm[sb].state = "running" => Listed(sb)
          /\ task'[w].pc = "unbind" /\ task'[w].host # None =>
               sb \in tombs \/ vm[sb].state # "running"
      BY <1>1, <2>1 DEF SweepsOK, Sweeping, TypeOK, TaskType
    <3>2. sb \in tombs /\ vm'[sb].state = "running" => sb \in tombs'
      BY <1>3, <3>1 DEF TombsNext, Condemned, VmNext, VmsSteady
    <3>3. vm'[sb].state = "running" => vm[sb].state = "running"
      BY <1>3, <3>1 DEF VmNext, VmsSteady
    <3> QED
      BY <2>a, <3>1, <3>2, <3>3
  <2>2. CASE SweepList(w)
    <3>1. sb = row.sb /\ task'[w].pc = IF row.sb # None THEN "entomb" ELSE "unhost"
      BY <1>1, <2>2 DEF SweepList, Off, TypeOK
    <3>2. sb \in Sandbox /\ vm[sb].state # "unborn" /\ task'[w].pc = "entomb"
      BY <1>1, <3>1 DEF BornOK, Born, Sweeping, TypeOK, RowType
    <3>3. vm[sb].state = "running" => Listed(sb)
      BY <1>1, <2>2, <3>1, <3>2 DEF SweepList, Straggler, YoungOK
    <3> QED
      BY <2>a, <3>2, <3>3
  <2>3. CASE SweepEntomb(w)
    <3>1. sb = task[w].sb /\ task'[w].host = task[w].host
      BY <1>1, <2>3 DEF SweepEntomb, TypeOK, TaskType
    <3>2. /\ sb \in Sandbox /\ vm[sb].state # "unborn"
          /\ vm[sb].state = "running" => Listed(sb)
      BY <1>1, <2>3, <3>1 DEF SweepEntomb, SweepsOK, TypeOK, TaskType
    <3>3. task'[w].host # None => sb \in tombs'
      BY <2>3, <3>1 DEF SweepEntomb, SweptTombs
    <3> QED
      BY <2>a, <3>2, <3>3
  <2> QED
    BY <2>0, <2>1, <2>2, <2>3
<1>8. CondemnedOK'
  <2> SUFFICES ASSUME NEW sb \in Sandbox, vm'[sb].state = "running", Claimed(sb)',
                      sb \notin astray', row'.sb # sb
               PROVE  sb \in tombs' /\ (ListedNext(sb) \/ hosts'[vm'[sb].host].status = "dead")
    BY DEF CondemnedOK, Claimed, Listed, ListedNext
  <2>1. Claimed(sb)
    BY <1>3 DEF Claimed, VmNext, ExecNext
  <2>2. vm[sb].state # "unborn"
    <3>1. ASSUME NEW e \in Epoch, exec'[e].pc = "own", exec'[e].sb = sb
          PROVE  exec[e].pc = "own" /\ exec[e].sb = sb
      BY <1>3, <3>1 DEF ExecNext
    <3>2. ASSUME NEW e \in Epoch, exec[e].pc = "own", exec[e].sb = sb
          PROVE  vm[sb].state # "unborn"
      BY <1>1, <3>2 DEF BornOK, Born
    <3> QED
      BY <1>3, <3>1, <3>2 DEF Claimed, VmNext
  <2>3. vm[sb].state = "running" /\ vm'[sb].host = vm[sb].host /\ vm[sb].host \in Host
    BY <1>1, <1>3, <2>2, HostOf DEF VmNext, VmsSteady
  <2>4. sb \notin astray
    BY <1>1, AstrayStep
  <2>5. Listed(sb) => ListedNext(sb)
    BY <1>l, <2>2
  <2>6. CASE row.sb # sb
    <3>1. sb \in tombs /\ Condemned(sb)
      BY <1>1, <2>1, <2>3, <2>4, <2>6 DEF CondemnedOK, Condemned
    <3>2. sb \in tombs'
      BY <1>3, <2>3, <3>1 DEF TombsNext
    <3>3. CASE hosts[vm[sb].host].status = "dead"
      BY <1>3, <2>3, <3>2, <3>3 DEF HostsNext, ListedNext
    <3> QED
      BY <2>5, <3>1, <3>2, <3>3 DEF Condemned
  <2>7. CASE row.sb = sb
    BY <1>3, <2>3, <2>5, <2>7 DEF RowNext, GivenUp
  <2> QED
    BY <2>6, <2>7
<1> QED
  BY <1>2, <1>4, <1>5, <1>6, <1>7, <1>8 DEF IInv

\* The invariant holds in every state the protocol reaches.
LEMMA Inductive == Spec => []IInv
<1>1. Init => IInv
  BY InitIInv
<1>2. IInv /\ [Next]_vars => IInv'
  BY NextIInv, StutterIInv
<1> QED
  BY <1>1, <1>2, PTL DEF Spec

-----------------------------------------------------------------------------
(* What a binding lets go of.  The hard case is flip_missing, which clears *)
(* without a tombstone: that the VM is gone rests on the strikes, so on    *)
(* the lists of two heartbeats, on the row staying bound to the VM a       *)
(* handler listed, and so on who may write an attended row.                *)

\* A session some loop is to keep up: no resume of the holder is under way.
Attended == row.status \in {"active", "evicting"} \/ (row.status = "host_lost" /\ row.sb # None)
Waiting == {"off", "dispatch", "redispatch"}

\* Epochs that were not claimed have no executor.
ClaimsOK == \A e \in Epoch : e > epoch => exec[e].pc = "off"

\* The holder of the lane has no resume under way on an attended session.
HolderOK == \A e \in Epoch : Attended /\ e = epoch => exec[e].pc \in Waiting

\* A dead session is unbound.
DeadOK == row.status = "dead" => row.sb = None

\* Handlers and sweeps name VMs that came up.
TasksBorn == \A k \in Host \cup Worker : task[k].sb # None => vm[task[k].sb].state # "unborn"

\* A VM that is about to be bound is not named by anyone else.
FreshOK ==
  \A e \in Epoch : exec[e].pc \in {"bind", "rebind"} =>
    /\ exec[e].sb # row.sb
    /\ \A k \in Host \cup Worker : task[k].sb # exec[e].sb
    /\ \A f \in Epoch : f # e => exec[f].sb # exec[e].sb

\* A handler that reconciles a binding read it on its own host, with a list.
Reconciling == {"listed", "struck", "gone"}
ListsOK ==
  \A h \in Host : task[h].pc \in Reconciling =>
    /\ task[h].sb \in Sandbox /\ vm[task[h].sb].host = h
    /\ task[h].known = "known"

\* A handler that listed the row before it became HostLost is young.
YoungListed ==
  \A h \in Host : row.status = "host_lost" /\ row.sb # None /\ task[h].pc = "listed" =>
    h \in young

\* What a sweep is about to unbind is still HostLost, and no handler strikes it.
SweptOK ==
  \A w \in Worker : task[w].pc \in {"entomb", "unbind"} /\ task[w].sb = row.sb =>
    row.status = "host_lost" /\ \A h \in Host : task[h].pc # "listed"

\* A strike, which addresses the row by session id alone, meets the VM it is for.
StrikesRow ==
  \A h \in Host : task[h].pc = "listed" =>
    \/ row.status = "dead"
    \/ row.sb = task[h].sb /\ row.status \in {"active", "evicting", "host_lost"}

\* Once it was struck, a VM that runs is on every list that may strike it again.
StrikesOK ==
  row.strikes > 0 /\ row.sb # None /\ vm[row.sb].state = "running" =>
    LET t == task[vm[row.sb].host]
    IN t.pc \in {"sent", "listed"} /\ t.known = "known" => row.sb \in t.running

\* A VM that struck out does not run.
StruckGone ==
  \A h \in Host : task[h].pc \in {"struck", "gone"} /\ row.sb = task[h].sb =>
    vm[row.sb].state # "running"

\* What the op is about to clear was torn down, if its copy of the row had a host.
TornDown ==
  \A e \in Epoch : exec[e].pc = "detach" \/ (exec[e].pc = "release" /\ exec[e].host # None) =>
    vm[exec[e].sb].state = "gone"

RInv ==
  /\ ClaimsOK /\ HolderOK /\ DeadOK /\ TasksBorn /\ FreshOK /\ ListsOK
  /\ YoungListed /\ SweptOK /\ StrikesRow /\ StrikesOK /\ StruckGone /\ TornDown

Stays(e) == exec'[e] = exec[e]
Ends(e) == exec'[e].pc = "off" /\ exec'[e].sb = None
Starts(e) ==
  /\ e = epoch + 1 /\ epoch' = epoch + 1
  /\ exec'[e].pc \in {"dispatch", "redispatch"} /\ exec'[e].sb = None
Plans(e) ==
  /\ exec[e].pc \in {"dispatch", "redispatch"} /\ epoch = e
  /\ row.status \in {"idle", "created"} /\ row' = row
  /\ exec'[e].sb = row.sb /\ exec'[e].pc \in {"retained", "restore", "reuse", "rebuild"}
Restores(e) ==
  /\ exec[e].pc = "restore" /\ exec'[e].pc = "bind"
  /\ exec'[e].sb \in Sandbox /\ vm[exec'[e].sb].state = "unborn"
  /\ row' = row /\ task' = task
Proceeds(e) ==
  /\ exec[e].pc \notin Waiting
  /\ exec'[e].pc \notin {"bind", "dispatch", "redispatch"}
  /\ exec'[e].sb = exec[e].sb /\ exec'[e].host = exec[e].host
  /\ exec'[e].pc = "rebind" => exec[e].pc = "bind"
  /\ exec'[e].pc = "detach" => vm'[exec[e].sb].state = "gone"
  /\ exec'[e].pc = "release" => exec[e].host = None \/ vm'[exec[e].sb].state = "gone"
Moves(e) == Ends(e) \/ Starts(e) \/ Plans(e) \/ Restores(e) \/ Proceeds(e)

\* Of the executors, a step moves at most one.
ExecMoves == \A e \in Epoch : Stays(e) \/ (Moves(e) /\ \A f \in Epoch : f # e => Stays(f))
\* How a step moves an executor: it ends, is claimed, plans from the row it reads,
\* restores a VM that did not exist, or goes on with what it names.
LEMMA ExecMovesStep == ASSUME TypeOK, BornOK, Next PROVE ExecMoves
<1> USE NoneAssumption DEF ExecMoves, Stays
<1>0. /\ exec \in [Epoch -> ExecType] /\ \A i \in Epoch : exec[i] \in ExecType
      /\ row \in RowType /\ vm \in [Sandbox -> VmType]
  BY DEF TypeOK
<1>1. CASE exec' = exec
  BY <1>1
<1>2. ASSUME NEW e \in Epoch, NEW v, exec' = [exec EXCEPT ![e] = v],
             exec'[e] = v => Moves(e)
      PROVE  ExecMoves
  <2>1. exec'[e] = v /\ \A f \in Epoch : f # e => exec'[f] = exec[f]
    BY <1>0, <1>2
  <2> HIDE DEF Moves
  <2> QED
    BY <1>2, <2>1
<1> USE DEF Moves
<1>3. ASSUME NEW e \in Epoch, Stop(e) PROVE ExecMoves
  <2>1. Ended.pc = "off" /\ Ended.sb = None
    BY DEF Ended
  <2> QED
    BY <1>2, <1>3, <2>1 DEF Stop, Ends
<1>4. ASSUME NEW e \in Epoch, NEW p \in ExecPc, Goto(e, p), exec[e].pc \notin Waiting,
             p \notin {"bind", "dispatch", "redispatch"},
             p = "rebind" => exec[e].pc = "bind",
             p = "detach" => vm'[exec[e].sb].state = "gone",
             p = "release" => exec[e].host = None \/ vm'[exec[e].sb].state = "gone"
      PROVE  ExecMoves
  <2> DEFINE v == [exec[e] EXCEPT !.pc = p]
  <2>1. v.pc = p /\ v.sb = exec[e].sb /\ v.host = exec[e].host
    BY <1>0 DEF ExecType
  <2>2. exec' = [exec EXCEPT ![e] = v]
    BY <1>4 DEF Goto
  <2> HIDE DEF v
  <2>3. exec'[e] = v => Proceeds(e)
    BY <1>4, <2>1 DEF Proceeds
  <2> QED
    BY <1>2, <2>2, <2>3
<1>5. ASSUME NEW point \in {"dispatch", "redispatch"}, Claim(point) PROVE ExecMoves
  <2> DEFINE v == [Ended EXCEPT !.pc = point]
  <2>1. v.sb = None /\ v.pc = point
    BY DEF Ended
  <2>2. epoch + 1 \in Epoch /\ exec' = [exec EXCEPT ![epoch + 1] = v] /\ epoch' = epoch + 1
    BY <1>5, BoundAssumption DEF Claim, TypeOK, Epoch
  <2> HIDE DEF v
  <2>3. exec'[epoch + 1] = v => Starts(epoch + 1)
    BY <2>1, <2>2 DEF Starts
  <2> QED
    BY <1>2, <2>2, <2>3
<1>6. ASSUME NEW e \in Epoch, ResumeDispatch(e) PROVE ExecMoves
  <2>1. ASSUME NEW p \in ResumePlans(exec[e].pc), p[1] # "off",
               exec' = [exec EXCEPT ![e] = [pc |-> p[1], host |-> row.host,
                          sb |-> row.sb, status |-> row.status, plan |-> p[2]]],
               Holds(e), exec[e].pc \in {"dispatch", "redispatch"}, row' = row
        PROVE  ExecMoves
    <3> DEFINE v == [pc |-> p[1], host |-> row.host, sb |-> row.sb,
                     status |-> row.status, plan |-> p[2]]
    <3>1. p[1] \in {"retained", "restore", "reuse", "rebuild"} /\ row.status \in {"idle", "created"}
      BY <2>1 DEF ResumePlans, FullPlan
    <3>2. v.sb = row.sb /\ v.pc = p[1]
      OBVIOUS
    <3>3. exec' = [exec EXCEPT ![e] = v]
      BY <2>1
    <3> HIDE DEF v
    <3>4. exec'[e] = v => Plans(e)
      BY <2>1, <3>1, <3>2 DEF Plans, Holds
    <3> QED
      BY <1>2, <3>3, <3>4
  <2>2. CASE exec' = [exec EXCEPT ![e] = Ended]
    BY <1>3, <2>2 DEF Stop
  <2> QED
    BY <1>6, <2>1, <2>2 DEF ResumeDispatch, Stop
<1>7. ASSUME NEW e \in Epoch, NEW h \in Host, NEW sb \in Sandbox, RestoreOk(e, h, sb)
      PROVE  ExecMoves
  <2> DEFINE v == [exec[e] EXCEPT !.pc = "bind", !.host = h, !.sb = sb]
  <2>1. v.sb = sb /\ v.pc = "bind"
    BY <1>0 DEF ExecType
  <2>2. exec' = [exec EXCEPT ![e] = v]
    BY <1>7 DEF RestoreOk
  <2> HIDE DEF v
  <2>3. exec'[e] = v => Restores(e)
    BY <1>7, <2>1 DEF RestoreOk, Restores, At
  <2> QED
    BY <1>2, <2>2, <2>3
<1>8. ASSUME NEW e \in Epoch, DestroyRetained(e) PROVE ExecMoves
  <2>1. exec[e].sb \in Sandbox
    BY <1>8, <1>0 DEF DestroyRetained, BornOK, ExecType
  <2>2. CASE vm' = [vm EXCEPT ![exec[e].sb].state = "gone"]
    <3>1. vm'[exec[e].sb].state = "gone"
      BY <1>0, <2>1, <2>2 DEF VmType
    <3> QED
      BY <1>3, <1>4, <1>8, <3>1 DEF DestroyRetained, ExecPc, Waiting
  <2> QED
    BY <1>3, <1>8, <2>2 DEF DestroyRetained
<1>9. ASSUME NEW e \in Epoch, ClearRetained(e) PROVE ExecMoves
  BY <1>3, <1>4, <1>9 DEF ClearRetained, ExecPc, At, Waiting
<1>10. ASSUME NEW e \in Epoch, SnapshotsGone(e) \/ RestoreFails(e) \/ FinishActive(e)
                               \/ RebuildRelease(e) \/ ExecDies(e)
       PROVE  ExecMoves
  BY <1>3, <1>10 DEF SnapshotsGone, RestoreFails, FinishActive, RebuildRelease, ExecDies
<1>11. ASSUME NEW e \in Epoch, StepBind(e) PROVE ExecMoves
  BY <1>3, <1>4, <1>11 DEF StepBind, ExecPc, At, Waiting
<1>12. ASSUME NEW e \in Epoch, Rebind(e) \/ Reuse(e) PROVE ExecMoves
  BY <1>3, <1>4, <1>12 DEF Rebind, Reuse, ExecPc, At, Waiting
<1>13. ASSUME NEW e \in Epoch, OwnAndStep(e) PROVE ExecMoves
  <2>1. ASSUME exec[e].pc = "own",
               exec' = [exec EXCEPT ![e] = [@ EXCEPT !.pc = "finish", !.status = row.status]]
        PROVE  ExecMoves
    <3> DEFINE v == [exec[e] EXCEPT !.pc = "finish", !.status = row.status]
    <3>1. v.sb = exec[e].sb /\ v.host = exec[e].host /\ v.pc = "finish"
      BY <1>0 DEF ExecType
    <3>2. exec' = [exec EXCEPT ![e] = v]
      BY <2>1
    <3> HIDE DEF v
    <3>3. exec'[e] = v => Proceeds(e)
      BY <2>1, <3>1 DEF Proceeds, Waiting
    <3> QED
      BY <1>2, <3>2, <3>3
  <2> QED
    BY <1>3, <1>4, <1>13, <2>1 DEF OwnAndStep, At, ExecPc, Waiting
<1>14. ASSUME NEW e \in Epoch, StartAgent(e) PROVE ExecMoves
  BY <1>4, <1>14 DEF StartAgent, At, ExecPc, Waiting
<1>15. ASSUME NEW e \in Epoch, FinishParked(e) PROVE ExecMoves
  BY <1>3, <1>4, <1>15 DEF FinishParked, At, ExecPc, Waiting
<1>16. ASSUME NEW e \in Epoch, RebuildEntomb(e) PROVE ExecMoves
  BY <1>4, <1>16 DEF RebuildEntomb, At, ExecPc, Waiting
<1> QED
  BY <1>1, <1>5, <1>6, <1>7, <1>8, <1>9, <1>10, <1>11, <1>12, <1>13, <1>14, <1>15,
     <1>16, Frames DEF Framed, WritesExec

\* A handler gets on with a binding by sending a list, touching, striking, probing.
LEMMA HandlerTasks ==
  ASSUME TypeOK, Next, NEW h \in Host, task'[h].pc \in {"sent", "listed", "struck", "gone"}
  PROVE  \/ task'[h] = task[h]
         \/ HeartbeatSend(h) \/ HeartbeatTouch(h) \/ ReconcileStrike(h) \/ FlipProbe(h)
<1> DEFINE Goal == \/ task'[h] = task[h]
                   \/ HeartbeatSend(h) \/ HeartbeatTouch(h) \/ ReconcileStrike(h) \/ FlipProbe(h)
<1> USE TaskAssumption
<1>0. task \in [Host \cup Worker -> TaskType] /\ Off.pc = "off"
  BY DEF TypeOK, Off
<1>b. ASSUME NEW k \in Host \cup Worker, EndTask(k) PROVE Goal
  BY <1>0, <1>b DEF EndTask
<1>1. ASSUME NEW g \in Host, \/ HeartbeatSend(g) \/ HeartbeatTouch(g) \/ ReconcileStrike(g)
                             \/ FlipProbe(g)
      PROVE  Goal
  <2>1. CASE g = h
    BY <1>1, <2>1
  <2>2. CASE g # h
    <3>1. task'[h] = task[h]
      BY <1>0, <1>1, <2>2 DEF HeartbeatSend, HeartbeatTouch, ReconcileStrike, FlipProbe, EndTask
    <3> QED
      BY <3>1
  <2> QED
    BY <2>1, <2>2
<1>2. ASSUME NEW g \in Host, FlipClear(g) \/ FlipLose(g) PROVE Goal
  BY <1>0, <1>2 DEF FlipClear, FlipLose, TaskType
<1>3. ASSUME NEW g \in Host, HeartbeatTail(g) PROVE Goal
  BY <1>b, <1>3 DEF HeartbeatTail
<1>4. ASSUME NEW w \in Worker, NEW g \in Host, EvictPing(w, g) PROVE task'[h] = task[h]
  BY <1>0, <1>4 DEF EvictPing
<1>5. ASSUME NEW w \in Worker, \/ MarkDead(w) \/ SweepList(w) \/ SweepEntomb(w)
                               \/ SweepUnbind(w) \/ SweepUnhost(w)
      PROVE  task'[h] = task[h]
  BY <1>0, <1>5 DEF MarkDead, SweepList, SweepEntomb, SweepUnbind, SweepUnhost
<1>6. ASSUME NEW k \in Host \cup Worker, SettleRead(k) PROVE Goal
  BY <1>0, <1>6 DEF SettleRead, TaskType
<1>7. ASSUME NEW k \in Host \cup Worker, SettleWrite(k) PROVE Goal
  BY <1>0, <1>7 DEF SettleWrite, TaskType
<1>8. ASSUME NEW k \in Host \cup Worker, TaskDies(k) PROVE Goal
  BY <1>b, <1>8 DEF TaskDies
<1> QED
  BY <1>1, <1>2, <1>3, <1>4, <1>5, <1>6, <1>7, <1>8, Frames DEF Framed, WritesTask

\* Handlers and sweeps learn of VMs from the row.
LEMMA TaskVms ==
  ASSUME TypeOK, Next
  PROVE  \A k \in Host \cup Worker : task'[k].sb \in {None, task[k].sb, row.sb}
<1> DEFINE Goal == \A k \in Host \cup Worker : task'[k].sb \in {None, task[k].sb, row.sb}
<1> USE TaskAssumption
<1>0. task \in [Host \cup Worker -> TaskType] /\ Off.sb = None
  BY DEF TypeOK, Off
<1>a. ASSUME NEW k \in Host \cup Worker, NEW v, task' = [task EXCEPT ![k] = v],
             v.sb \in {None, task[k].sb, row.sb}
      PROVE  Goal
  BY <1>0, <1>a
<1>b. ASSUME NEW k \in Host \cup Worker, EndTask(k) \/ task' = [task EXCEPT ![k] = Off] PROVE Goal
  BY <1>0, <1>a, <1>b DEF EndTask
<1>c. ASSUME NEW k \in Host \cup Worker, NEW p, task' = [task EXCEPT ![k].pc = p] PROVE Goal
  <2> DEFINE v == [task[k] EXCEPT !.pc = p]
  <2>1. task' = [task EXCEPT ![k] = v] /\ v.sb = task[k].sb
    BY <1>0, <1>c DEF TaskType
  <2> HIDE DEF v
  <2> QED
    BY <1>a, <2>1
<1>d. ASSUME NEW k \in Host \cup Worker, task' = [task EXCEPT ![k] = [Off EXCEPT !.pc = "settle"]]
      PROVE  Goal
  BY <1>0, <1>d DEF Off
<1>1. ASSUME NEW h \in Host, HeartbeatSend(h) PROVE Goal
  BY <1>0, <1>1 DEF HeartbeatSend, Off
<1>2. ASSUME NEW h \in Host, HeartbeatTouch(h) PROVE Goal
  <2>1. CASE task' = [task EXCEPT ![h].pc = "listed", ![h].sb = row.sb]
    <3> DEFINE v == [task[h] EXCEPT !.pc = "listed", !.sb = row.sb]
    <3>1. task' = [task EXCEPT ![h] = v] /\ v.sb = row.sb
      BY <1>0, <2>1 DEF TaskType
    <3> HIDE DEF v
    <3> QED
      BY <1>a, <3>1
  <2> QED
    BY <1>2, <1>b, <1>c, <2>1 DEF HeartbeatTouch
<1>3. ASSUME NEW h \in Host, \/ ReconcileStrike(h) \/ FlipProbe(h) \/ FlipClear(h) \/ FlipLose(h)
      PROVE  Goal
  BY <1>3, <1>c DEF ReconcileStrike, FlipProbe, FlipClear, FlipLose
<1>4. ASSUME NEW h \in Host, HeartbeatTail(h) PROVE Goal
  BY <1>4, <1>b DEF HeartbeatTail
<1>5. ASSUME NEW w \in Worker, NEW h \in Host, EvictPing(w, h) PROVE Goal
  BY <1>0, <1>5 DEF EvictPing, Off
<1>6. ASSUME NEW w \in Worker, MarkDead(w) \/ SweepUnhost(w) PROVE Goal
  BY <1>6, <1>b, <1>d DEF MarkDead, SweepUnhost
<1>7. ASSUME NEW w \in Worker, SweepList(w) PROVE Goal
  BY <1>0, <1>7 DEF SweepList, Off
<1>8. ASSUME NEW w \in Worker, SweepEntomb(w) \/ SweepUnbind(w) PROVE Goal
  BY <1>8, <1>b, <1>c DEF SweepEntomb, SweepUnbind
<1>9. ASSUME NEW k \in Host \cup Worker, SettleRead(k) PROVE Goal
  <2> DEFINE v == [task[k] EXCEPT !.pc = "settling", !.target = RecoveryTarget]
  <2>1. task' = [task EXCEPT ![k] = v] /\ v.sb = task[k].sb
    BY <1>0, <1>9 DEF SettleRead, TaskType
  <2> HIDE DEF v
  <2> QED
    BY <1>a, <2>1
<1>10. ASSUME NEW k \in Host \cup Worker, SettleWrite(k) PROVE Goal
  <2> DEFINE v == IF k \in Host THEN [task[k] EXCEPT !.pc = "tail"] ELSE Off
  <2>1. task' = [task EXCEPT ![k] = v] /\ v.sb \in {None, task[k].sb}
    BY <1>0, <1>10 DEF SettleWrite, TaskType
  <2> HIDE DEF v
  <2> QED
    BY <1>a, <2>1
<1>11. ASSUME NEW k \in Host \cup Worker, TaskDies(k) PROVE Goal
  BY <1>11, <1>b DEF TaskDies
<1> QED
  BY <1>1, <1>2, <1>3, <1>4, <1>5, <1>6, <1>7, <1>8, <1>9, <1>10, <1>11, Frames
     DEF Framed, WritesTask

Rebound ==
  \E f \in Epoch : /\ exec[f].pc = "rebind" /\ row'.sb = exec[f].sb
                   /\ row'.strikes = 0 /\ exec'[f].pc = "own"

RowMoves ==
  /\ row'.sb \in {None, row.sb} \/ Rebound
  /\ row'.strikes \in {0, row.strikes} \/ \E h \in Host : ReconcileStrike(h)
  /\ row'.status = "dead" => row'.sb = None \/ (row.status = "dead" /\ row'.sb = row.sb)
  /\ row.status = "dead" => row'.status = "dead"
  /\ Attended' => Attended \/ \E e \in Epoch : Holds(e) /\ exec'[e].pc = "off"

\* How a step moves the row: only Rebind names a new VM, only a handler strikes, no
\* session leaves Dead, and only the holder's last step makes a session attended.
LEMMA RowMovesStep == ASSUME TypeOK, Next PROVE RowMoves
<1> USE NoneAssumption
<1>0. /\ row \in RowType /\ task \in [Host \cup Worker -> TaskType]
      /\ exec \in [Epoch -> ExecType]
  BY DEF TypeOK
<1>a. ASSUME row' \in RowType, row'.sb \in {None, row.sb}, row'.strikes \in {0, row.strikes},
             row'.status = row.status
      PROVE  RowMoves
  BY <1>a DEF RowMoves, Attended
<1>b. CASE row' = row
  BY <1>0, <1>a, <1>b
<1>c. ASSUME NEW to \in Status, Retain(to)
      PROVE  /\ row' \in RowType /\ row'.sb = row.sb /\ row'.strikes = row.strikes
             /\ row'.status = to /\ row.status # "dead" /\ CanTransition(row.status, to)
  BY <1>0, <1>c DEF Retain, RowType, CanTransition
<1>d. ASSUME NEW to \in Status, Detach(to)
      PROVE  /\ row' \in RowType /\ row'.sb = None /\ row'.strikes = row.strikes
             /\ row'.status = to /\ row.status # "dead" /\ CanTransition(row.status, to)
  BY <1>0, <1>d DEF Detach, RowType, CanTransition
<1>e. Unbound \in RowType /\ Unbound.sb = None /\ Unbound.strikes = 0 /\ Unbound.status = row.status
  BY <1>0 DEF Unbound, RowType
<1>1. ASSUME NEW h \in Host, ReconcileStrike(h) PROVE RowMoves
  <2>1. row'.sb = row.sb /\ row'.status = row.status
    BY <1>0, <1>1 DEF ReconcileStrike, RowType
  <2> QED
    BY <1>1, <2>1 DEF RowMoves, Attended
<1>2. ASSUME NEW h \in Host, FlipProbe(h) PROVE RowMoves
  <2>1. CASE row' = [row EXCEPT !.strikes = 0]
    BY <1>0, <1>a, <2>1 DEF RowType
  <2> QED
    BY <1>b, <1>2, <2>1 DEF FlipProbe
<1>3. ASSUME NEW h \in Host, FlipClear(h) PROVE RowMoves
  BY <1>a, <1>b, <1>e, <1>3 DEF FlipClear
<1>4. ASSUME NEW h \in Host, FlipLose(h) PROVE RowMoves
  <2>1. CASE RequireUnbound("host_lost")
    BY <1>c, <2>1 DEF RequireUnbound, Status, RowMoves, Attended
  <2> QED
    BY <1>b, <1>4, <2>1 DEF FlipLose
<1>5. ASSUME NEW w \in Worker, MarkDead(w) PROVE RowMoves
  <2>1. CASE /\ row' = [row EXCEPT !.status = "host_lost", !.host = None, !.sb = None]
             /\ row.status # "dead"
    <3>1. row'.sb = None /\ row'.status = "host_lost" /\ row'.strikes = row.strikes
      BY <1>0, <2>1 DEF RowType
    <3> QED
      BY <2>1, <3>1 DEF RowMoves, Attended
  <2> QED
    BY <1>b, <1>5, <2>1 DEF MarkDead
<1>6. ASSUME NEW w \in Worker, SweepUnbind(w) PROVE RowMoves
  BY <1>a, <1>b, <1>e, <1>6 DEF SweepUnbind
<1>7. ASSUME NEW w \in Worker, SweepUnhost(w) PROVE RowMoves
  <2>1. CASE row' = [row EXCEPT !.host = None]
    BY <1>0, <1>a, <2>1 DEF RowType
  <2> QED
    BY <1>b, <1>7, <2>1 DEF SweepUnhost
<1>8. ASSUME NEW k \in Host \cup Worker, SettleWrite(k) PROVE RowMoves
  <2>1. task[k].target \in {"idle", "dead"}
    BY <1>0 DEF TaskType
  <2>2. CASE RequireUnbound(task[k].target)
    BY <1>c, <2>1, <2>2 DEF RequireUnbound, Status, RowMoves, Attended
  <2> QED
    BY <1>b, <1>8, <2>2 DEF SettleWrite
<1>9. ASSUME NEW e \in Epoch, ClearRetained(e) PROVE RowMoves
  <2>1. CASE row' = [Unbound EXCEPT !.host = exec[e].host]
    <3>1. row' \in RowType /\ row'.sb = None /\ row'.strikes = 0 /\ row'.status = row.status
      BY <1>0, <1>e, <2>1 DEF RowType, ExecType
    <3> QED
      BY <1>a, <3>1
  <2> QED
    BY <1>b, <1>9, <2>1 DEF ClearRetained
<1>10. ASSUME NEW e \in Epoch, SnapshotsGone(e) \/ RestoreFails(e) PROVE RowMoves
  <2>1. CASE Detach("dead")
    BY <1>d, <2>1 DEF Status, RowMoves, Attended
  <2> QED
    BY <1>b, <1>10, <2>1 DEF SnapshotsGone, RestoreFails
<1>11. ASSUME NEW e \in Epoch, RebuildRelease(e) PROVE RowMoves
  <2>1. CASE Detach("idle")
    BY <1>d, <2>1 DEF Status, RowMoves, Attended
  <2> QED
    BY <1>b, <1>11, <2>1 DEF RebuildRelease
<1>12. ASSUME NEW e \in Epoch, Rebind(e) PROVE RowMoves
  <2>1. CASE /\ row.status = "idle" /\ Goto(e, "own")
             /\ row' = [row EXCEPT !.host = exec[e].host, !.sb = exec[e].sb, !.strikes = 0]
    <3>1. row'.sb = exec[e].sb /\ row'.strikes = 0 /\ row'.status = "idle"
      BY <1>0, <2>1 DEF RowType
    <3>2. exec'[e].pc = "own"
      BY <1>0, <2>1 DEF Goto, ExecType
    <3> QED
      BY <1>12, <2>1, <3>1, <3>2 DEF Rebind, At, RowMoves, Rebound, Attended
  <2> QED
    BY <1>b, <1>12, <2>1 DEF Rebind, MayRebind
<1>13. ASSUME NEW e \in Epoch, Reuse(e) PROVE RowMoves
  <2>1. CASE row' = [row EXCEPT !.host = exec[e].host, !.strikes = 0]
    BY <1>0, <1>a, <2>1 DEF RowType, ExecType
  <2> QED
    BY <1>b, <1>13, <2>1 DEF Reuse
<1>14. ASSUME NEW e \in Epoch, FinishActive(e) PROVE RowMoves
  <2>1. CASE Holds(e) /\ Retain("active")
    <3>1. exec'[e].pc = "off"
      BY <1>0, <1>14 DEF FinishActive, Stop, Ended
    <3> QED
      BY <1>c, <2>1, <3>1 DEF Status, RowMoves, Attended
  <2> QED
    BY <1>b, <1>14, <2>1 DEF FinishActive
<1>15. ASSUME NEW e \in Epoch, FinishParked(e) PROVE RowMoves
  <2>1. CASE Retain("created")
    BY <1>c, <2>1 DEF Status, RowMoves, Attended
  <2> QED
    BY <1>b, <1>15, <2>1 DEF FinishParked
<1>16. CASE Nominate
  BY <1>c, <1>16 DEF Nominate, Status, RowMoves, Attended
<1>17. CASE ScannerFallback \/ EvictGivesUp
  BY <1>c, <1>17 DEF ScannerFallback, EvictGivesUp, Status, RowMoves, Attended
<1> QED
  BY <1>b, <1>1, <1>2, <1>3, <1>4, <1>5, <1>6, <1>7, <1>8, <1>9, <1>10, <1>11, <1>12,
     <1>13, <1>14, <1>15, <1>16, <1>17, Frames DEF Framed, WritesRow

\* The row names the same VM, and is HostLost if it was.
KeepsBinding ==
  /\ row'.sb = row.sb /\ row'.status \in {"active", "evicting", "host_lost"}
  /\ row.status = "host_lost" => row'.status = "host_lost"

\* An attended session keeps its binding, unless a handler that struck it out or a
\* sweep that listed it clears it, its host is marked dead, or it dies.
LEMMA AttendedRow ==
  ASSUME TypeOK, MarksOK, HolderOK, Next, Attended, row.sb # None
  PROVE  \/ KeepsBinding
         \/ row'.sb = None /\ row'.status = "dead"
         \/ row'.sb = None /\ \E h \in Host : task[h].pc = "gone" /\ task[h].sb = row.sb
         \/ row'.sb = None /\ \E w \in Worker : task[w].pc = "unbind" /\ task[w].sb = row.sb
         \/ row'.sb = None /\ row.host \in Host /\ hosts[row.host].lease = "expired"
<1> DEFINE Goal ==
         \/ KeepsBinding
         \/ row'.sb = None /\ row'.status = "dead"
         \/ row'.sb = None /\ \E h \in Host : task[h].pc = "gone" /\ task[h].sb = row.sb
         \/ row'.sb = None /\ \E w \in Worker : task[w].pc = "unbind" /\ task[w].sb = row.sb
         \/ row'.sb = None /\ row.host \in Host /\ hosts[row.host].lease = "expired"
<1> USE NoneAssumption
<1>0. /\ row \in RowType /\ task \in [Host \cup Worker -> TaskType]
      /\ exec \in [Epoch -> ExecType]
      /\ row.status \in {"active", "evicting", "host_lost"}
  BY DEF TypeOK, Attended
<1>h. ASSUME NEW e \in Epoch, Holds(e) PROVE exec[e].pc \in Waiting
  BY <1>h DEF HolderOK, Holds
<1>a. ASSUME row'.sb = row.sb, row'.status = row.status PROVE Goal
  BY <1>0, <1>a DEF KeepsBinding
<1>b. CASE row' = row
  BY <1>a, <1>b
<1>c. Unbound.sb = None
  BY <1>0 DEF Unbound, RowType
<1>1. ASSUME NEW h \in Host, ReconcileStrike(h) \/ FlipProbe(h) PROVE Goal
  <2>1. row'.sb = row.sb /\ row'.status = row.status
    BY <1>0, <1>1 DEF ReconcileStrike, FlipProbe, RowType
  <2> QED
    BY <1>a, <2>1
<1>2. ASSUME NEW h \in Host, FlipClear(h) PROVE Goal
  BY <1>b, <1>c, <1>2 DEF FlipClear, MayUnbind
<1>3. ASSUME NEW h \in Host, FlipLose(h) PROVE Goal
  BY <1>b, <1>3 DEF FlipLose, RequireUnbound
<1>4. ASSUME NEW w \in Worker, MarkDead(w) PROVE Goal
  <2>1. CASE /\ row' = [row EXCEPT !.status = "host_lost", !.host = None, !.sb = None]
             /\ row.host = task[w].host /\ hosts[task[w].host].lease = "expired"
    <3>1. row'.sb = None
      BY <1>0, <2>1 DEF RowType
    <3>2. row.host \in Host
      BY <1>0, <1>4, <2>1 DEF MarkDead, MarksOK, TaskType
    <3> QED
      BY <2>1, <3>1, <3>2
  <2> QED
    BY <1>b, <1>4, <2>1 DEF MarkDead
<1>5. ASSUME NEW w \in Worker, SweepUnbind(w) PROVE Goal
  BY <1>b, <1>c, <1>5 DEF SweepUnbind, MayUnbind
<1>6. ASSUME NEW w \in Worker, SweepUnhost(w) PROVE Goal
  <2>1. row'.sb = row.sb /\ row'.status = row.status
    BY <1>0, <1>6 DEF SweepUnhost, RowType
  <2> QED
    BY <1>a, <2>1
<1>7. ASSUME NEW k \in Host \cup Worker, SettleWrite(k) PROVE Goal
  BY <1>b, <1>7 DEF SettleWrite, RequireUnbound
<1>8. ASSUME NEW e \in Epoch, \/ ClearRetained(e) \/ RebuildRelease(e) \/ FinishActive(e)
      PROVE  Goal
  BY <1>b, <1>h, <1>8 DEF ClearRetained, RebuildRelease, FinishActive, At, Waiting
<1>9. ASSUME NEW e \in Epoch, FinishParked(e) PROVE Goal
  BY <1>b, <1>h, <1>9 DEF FinishParked, At, Waiting
<1>10. ASSUME NEW e \in Epoch, SnapshotsGone(e) \/ RestoreFails(e) PROVE Goal
  <2>1. CASE Detach("dead")
    BY <1>0, <2>1 DEF Detach, RowType
  <2> QED
    BY <1>b, <1>10, <2>1 DEF SnapshotsGone, RestoreFails
<1>11. ASSUME NEW e \in Epoch, Rebind(e) PROVE Goal
  BY <1>0, <1>b, <1>11 DEF Rebind, MayRebind
<1>12. ASSUME NEW e \in Epoch, Reuse(e) PROVE Goal
  <2>1. row'.sb = row.sb /\ row'.status = row.status
    BY <1>0, <1>12 DEF Reuse, RowType
  <2> QED
    BY <1>a, <2>1
<1>13. CASE Nominate \/ ScannerFallback \/ EvictGivesUp
  BY <1>0, <1>13 DEF Nominate, ScannerFallback, EvictGivesUp, Retain, RowType, KeepsBinding
<1> QED
  BY <1>b, <1>1, <1>2, <1>3, <1>4, <1>5, <1>6, <1>7, <1>8, <1>9, <1>10, <1>11, <1>12,
     <1>13, Frames DEF Framed, WritesRow

\* Epochs advance by one.
LEMMA EpochStep == ASSUME TypeOK, Next PROVE epoch' \in {epoch, epoch + 1}
BY Frames DEF Framed, WritesSmall, HeartbeatTail, Cut, HostRestarts, TaskDies,
   ResumeDispatch, SnapshotsGone, StepBind, ExecDies, Claim, EvictGivesUp, DbOnly

\* The session that create brought up, with nothing under way.
LEMMA InitRInv == ASSUME Init PROVE RInv
<1> USE NoneAssumption
<1>1. PICK h \in Host, sb \in Sandbox :
        /\ row = [status |-> "active", host |-> h, sb |-> sb, strikes |-> 0]
        /\ task = [k \in Host \cup Worker |-> Off]
        /\ exec = [e \in Epoch |-> Ended]
  BY DEF Init
<1>2. Off.pc = "off" /\ Off.sb = None /\ Ended.pc = "off" /\ Ended.sb = None
  BY DEF Off, Ended
<1>3. ClaimsOK /\ HolderOK /\ DeadOK /\ TasksBorn /\ FreshOK /\ TornDown
  BY <1>1, <1>2 DEF ClaimsOK, HolderOK, DeadOK, TasksBorn, FreshOK, TornDown, Waiting
<1>4. ListsOK /\ YoungListed /\ SweptOK /\ StrikesRow /\ StruckGone
  BY <1>1, <1>2 DEF ListsOK, YoungListed, SweptOK, StrikesRow, StruckGone, Reconciling
<1>5. StrikesOK
  BY <1>1 DEF StrikesOK
<1> QED
  BY <1>3, <1>4, <1>5 DEF RInv

\* Steps that change nothing keep it.
LEMMA StutterRInv == ASSUME RInv, UNCHANGED vars PROVE RInv'
BY DEF RInv, vars, ClaimsOK, HolderOK, Attended, DeadOK, TasksBorn, FreshOK, ListsOK,
   YoungListed, SweptOK, StrikesRow, StrikesOK, StruckGone, TornDown

\* The executors, and what they and the tasks name, after a step.
LEMMA ExecsKept ==
  ASSUME IInv, RInv, Next
  PROVE  ClaimsOK' /\ HolderOK' /\ TasksBorn' /\ FreshOK' /\ TornDown'
<1> USE NoneAssumption
<1>1. /\ TypeOK /\ BornOK /\ ClaimsOK /\ HolderOK /\ TasksBorn /\ FreshOK /\ TornDown
      /\ TypeOK' /\ BornOK'
  BY NextIInv DEF IInv, RInv
<1>2. VmsSteady /\ ExecMoves /\ RowMoves /\ epoch' \in {epoch, epoch + 1}
  BY <1>1, VmStep, ExecMovesStep, RowMovesStep, EpochStep DEF VmNext
<1>3. \A k \in Host \cup Worker : task'[k].sb \in {None, task[k].sb, row.sb}
  BY <1>1, TaskVms
<1>4. /\ epoch \in Nat /\ Epoch \subseteq Nat
      /\ row \in RowType /\ row.sb \in Sandbox \cup {None}
      /\ \A i \in Epoch : exec[i].sb \in Sandbox \cup {None}
      /\ \A i \in Epoch : exec'[i].sb \in Sandbox \cup {None}
      /\ \A k \in Host \cup Worker : task[k].sb \in Sandbox \cup {None}
  BY <1>1, BoundAssumption DEF TypeOK, Epoch, RowType, ExecType, TaskType
<1>5. /\ row.sb # None => vm[row.sb].state # "unborn"
      /\ \A i \in Epoch : exec[i].sb # None => vm[exec[i].sb].state # "unborn"
  BY <1>1 DEF BornOK, Born
<1>6. ClaimsOK'
  <2> SUFFICES ASSUME NEW e \in Epoch, e > epoch' PROVE exec'[e].pc = "off"
    BY DEF ClaimsOK
  <2>1. e \in Nat /\ e > epoch /\ e # epoch
    BY <1>2, <1>4
  <2>2. exec[e].pc = "off"
    BY <1>1, <2>1 DEF ClaimsOK
  <2>3. ~Starts(e)
    BY <1>4, <2>1 DEF Starts
  <2> QED
    BY <1>2, <2>2, <2>3 DEF ExecMoves, Stays, Moves, Ends, Plans, Restores, Proceeds, Waiting
<1>7. HolderOK'
  <2> SUFFICES ASSUME NEW e \in Epoch, Attended', e = epoch', exec'[e].pc \notin Waiting
               PROVE  FALSE
    BY DEF HolderOK
  <2>1. CASE epoch' = epoch + 1
    <3>1. exec[e].pc = "off"
      BY <1>1, <1>4, <2>1 DEF ClaimsOK
    <3> QED
      BY <1>2, <3>1 DEF ExecMoves, Stays, Moves, Ends, Starts, Plans, Restores, Proceeds, Waiting
  <2>2. CASE epoch' = epoch
    <3>1. exec[e].pc \in Waiting => Plans(e)
      BY <1>2 DEF ExecMoves, Stays, Moves, Ends, Starts, Restores, Proceeds, Waiting
    <3>2. ~Plans(e)
      BY DEF Plans, Attended
    <3>3. ~Attended
      BY <1>1, <2>2, <3>1, <3>2 DEF HolderOK
    <3>4. PICK f \in Epoch : Holds(f) /\ exec'[f].pc = "off"
      BY <1>2, <3>3 DEF RowMoves
    <3>5. f = e
      BY <2>2, <3>4 DEF Holds
    <3> QED
      BY <3>4, <3>5 DEF Waiting
  <2> QED
    BY <1>2, <2>1, <2>2
<1>8. TasksBorn'
  BY <1>2, <1>3, <1>4, <1>5, <1>1 DEF TasksBorn, VmsSteady
<1>9. FreshOK'
  <2> SUFFICES ASSUME NEW e \in Epoch, exec'[e].pc \in {"bind", "rebind"}
               PROVE  /\ exec'[e].sb # row'.sb
                      /\ \A k \in Host \cup Worker : task'[k].sb # exec'[e].sb
                      /\ \A f \in Epoch : f # e => exec'[f].sb # exec'[e].sb
    BY DEF FreshOK
  <2>1. exec'[e].sb \in Sandbox
    BY <1>1, <1>4 DEF BornOK
  <2>2. CASE Restores(e)
    <3>1. vm[exec'[e].sb].state = "unborn"
      BY <2>2 DEF Restores
    <3>2. \A f \in Epoch : f # e => exec'[f] = exec[f]
      BY <1>2, <2>2 DEF ExecMoves, Stays, Restores
    <3>3. row' = row /\ task' = task
      BY <2>2 DEF Restores
    <3> QED
      BY <1>1, <1>5, <2>1, <3>1, <3>2, <3>3 DEF TasksBorn
  <2>3. CASE ~Restores(e)
    <3>1. exec[e].pc \in {"bind", "rebind"} /\ exec'[e].sb = exec[e].sb
      BY <1>2, <2>3 DEF ExecMoves, Stays, Moves, Ends, Starts, Plans, Proceeds
    <3> DEFINE sb == exec[e].sb
    <3>2. /\ sb # row.sb
          /\ \A k \in Host \cup Worker : task[k].sb # sb
          /\ \A f \in Epoch : f # e => exec[f].sb # sb
      BY <1>1, <3>1 DEF FreshOK
    <3>3. sb # row'.sb
      <4>1. CASE Rebound
        <5>1. PICK f \in Epoch : row'.sb = exec[f].sb /\ exec'[f].pc = "own"
          BY <4>1 DEF Rebound
        <5> QED
          BY <3>2, <5>1
      <4> QED
        BY <1>2, <2>1, <3>1, <3>2, <4>1 DEF RowMoves
    <3>4. \A k \in Host \cup Worker : task'[k].sb # sb
      BY <1>3, <2>1, <3>1, <3>2
    <3>5. ASSUME NEW f \in Epoch, f # e PROVE exec'[f].sb # sb
      <4>1. exec'[f].sb \in {None, exec[f].sb, row.sb} \/ Restores(f)
        BY <1>2 DEF ExecMoves, Stays, Moves, Ends, Starts, Plans, Proceeds
      <4>2. Restores(f) => exec'[f].sb # sb
        BY <1>5, <2>1, <3>1 DEF Restores
      <4> QED
        BY <2>1, <3>1, <3>2, <3>5, <4>1, <4>2
    <3> QED
      BY <3>1, <3>3, <3>4, <3>5
  <2> QED
    BY <2>2, <2>3
<1>10. TornDown'
  <2>1. \A sb \in Sandbox : vm[sb].state = "gone" => vm'[sb].state = "gone"
    BY <1>1, <1>2 DEF VmsSteady, TypeOK, VmType
  <2> SUFFICES ASSUME NEW e \in Epoch,
                      exec'[e].pc = "detach" \/ (exec'[e].pc = "release" /\ exec'[e].host # None)
               PROVE  vm'[exec'[e].sb].state = "gone"
    BY DEF TornDown
  <2>2. exec'[e].sb \in Sandbox
    BY <1>1, <1>4 DEF BornOK
  <2>3. CASE Stays(e)
    BY <1>1, <2>1, <2>2, <2>3 DEF Stays, TornDown
  <2>4. CASE Proceeds(e)
    BY <2>4 DEF Proceeds
  <2> QED
    BY <1>2, <2>3, <2>4 DEF ExecMoves, Moves, Ends, Starts, Plans, Restores
<1> QED
  BY <1>6, <1>7, <1>8, <1>9, <1>10

\* What a handler that is about to strike, or has struck, came from.
LEMMA HandlerMoves ==
  ASSUME TypeOK, Next, NEW h \in Host
  PROVE  /\ task'[h].pc = "listed" /\ task'[h] # task[h] =>
              /\ row.status = "active" /\ row.host = h /\ row.sb # None /\ row' = row
              /\ task[h].pc = "sent" /\ task'[h].sb = row.sb
              /\ task'[h].known = "known" /\ task[h].known = "known"
              /\ task'[h].running = task[h].running
         /\ task'[h].pc = "sent" /\ task'[h] # task[h] =>
              row' = row /\ (task'[h].known = "known" => task'[h].running = RunningOn(h))
         /\ task'[h].pc = "struck" /\ task'[h] # task[h] =>
              /\ task[h].pc = "listed" /\ task'[h].sb = task[h].sb
              /\ task'[h].known = task[h].known /\ row'.sb = row.sb
              /\ task[h].sb \notin task[h].running /\ StruckOut(row.strikes + 1)
         /\ task'[h].pc = "gone" /\ task'[h] # task[h] =>
              /\ task[h].pc = "struck" /\ task'[h].sb = task[h].sb
              /\ task'[h].known = task[h].known /\ row' = row
<1>0. task \in [Host \cup Worker -> TaskType] /\ row \in RowType
  BY DEF TypeOK
<1>1. CASE task'[h].pc \notin {"sent", "listed", "struck", "gone"} \/ task'[h] = task[h]
  BY <1>1
<1>2. CASE HeartbeatSend(h)
  BY <1>0, <1>2 DEF HeartbeatSend, Off
<1>3. CASE HeartbeatTouch(h)
  <2>1. CASE task' = [task EXCEPT ![h] = Off]
    BY <1>0, <2>1 DEF Off
  <2>2. CASE task' = [task EXCEPT ![h].pc = "tail"]
    BY <1>0, <2>2 DEF TaskType
  <2>3. CASE /\ task' = [task EXCEPT ![h].pc = "listed", ![h].sb = row.sb]
             /\ row.host = h /\ row.sb # None /\ StrikeEligible /\ task[h].known = "known"
    BY <1>0, <1>3, <2>3 DEF HeartbeatTouch, StrikeEligible, TaskType
  <2> QED
    BY <1>3, <2>1, <2>2, <2>3 DEF HeartbeatTouch, EndTask
<1>4. CASE ReconcileStrike(h)
  <2>1. row'.sb = row.sb
    BY <1>0, <1>4 DEF ReconcileStrike, RowType
  <2>2. CASE task' = [task EXCEPT ![h].pc = "tail"]
    BY <1>0, <2>2 DEF TaskType
  <2>3. CASE /\ task' = [task EXCEPT ![h].pc = "struck"]
             /\ task[h].sb \notin task[h].running /\ StruckOut(row.strikes + 1)
    BY <1>0, <1>4, <2>1, <2>3 DEF ReconcileStrike, TaskType
  <2> QED
    BY <1>4, <2>2, <2>3 DEF ReconcileStrike
<1>5. CASE FlipProbe(h)
  <2>1. CASE task' = [task EXCEPT ![h].pc = "tail"]
    BY <1>0, <2>1 DEF TaskType
  <2>2. CASE task' = [task EXCEPT ![h].pc = "gone"] /\ row' = row
    BY <1>0, <1>5, <2>2 DEF FlipProbe, TaskType
  <2> QED
    BY <1>5, <2>1, <2>2 DEF FlipProbe
<1> QED
  BY <1>1, <1>2, <1>3, <1>4, <1>5, HandlerTasks

\* A sweep that lists or entombs leaves the row, the handlers and the list of young.
LEMMA SweepQuiet ==
  ASSUME TypeOK, NEW w \in Worker, SweepList(w) \/ SweepEntomb(w)
  PROVE  /\ row' = row /\ \A h \in Host : task'[h] = task[h]
         /\ SweepEntomb(w) => task[w].pc = "entomb" /\ task'[w].sb = task[w].sb
         /\ SweepList(w) => row.status = "host_lost" /\ young = {}
<1>0. task \in [Host \cup Worker -> TaskType]
  BY DEF TypeOK
<1>1. CASE SweepList(w)
  <2>1. task[w].pc = "off"
    BY <1>1 DEF SweepList
  <2>2. SweepEntomb(w) => FALSE
    BY <2>1 DEF SweepEntomb
  <2> QED
    BY <1>0, <1>1, <2>2, TaskAssumption DEF SweepList, Straggler
<1>2. CASE SweepEntomb(w)
  <2>1. SweepList(w) => FALSE
    BY <1>2 DEF SweepEntomb, SweepList
  <2> QED
    BY <1>0, <1>2, <2>1, TaskAssumption DEF SweepEntomb, TaskType
<1> QED
  BY <1>1, <1>2

\* The handlers and the row they strike, after a step.
LEMMA HandlersKept ==
  ASSUME IInv, RInv, Next, Grace >= 2
  PROVE  /\ DeadOK' /\ ListsOK' /\ YoungListed' /\ SweptOK' /\ StrikesRow'
         /\ StrikesOK' /\ StruckGone'
<1> USE NoneAssumption
<1>1. /\ TypeOK /\ BornOK /\ HandlersOK /\ SweepsOK /\ MarksOK
      /\ HolderOK /\ DeadOK /\ FreshOK /\ ListsOK /\ YoungListed /\ SweptOK
      /\ StrikesRow /\ StrikesOK /\ StruckGone
  BY DEF IInv, RInv
<1>2. VmsSteady /\ RowMoves /\ YoungNext /\ row' \in RowType
  BY <1>1, VmStep, RowMovesStep, YoungStep, RowStep DEF VmNext, RowNext
<1>3. row \in RowType /\ task \in [Host \cup Worker -> TaskType] /\ row.strikes \in Nat
  BY <1>1 DEF TypeOK, RowType
<1>4. \A h \in Host : task[h].pc \in Reconciling =>
        /\ task[h].sb \in Sandbox /\ vm[task[h].sb].host = h
        /\ task[h].known = "known" /\ vm[task[h].sb].state # "unborn"
  BY <1>1 DEF ListsOK, BornOK
<1>5. \A k \in Host \cup Worker :
        row'.sb = task[k].sb /\ row'.sb # None => row.sb = row'.sb
  <2> SUFFICES ASSUME NEW k \in Host \cup Worker, row'.sb = task[k].sb, row'.sb # None,
                      Rebound
               PROVE  FALSE
    BY <1>2 DEF RowMoves
  <2>1. PICK f \in Epoch : exec[f].pc = "rebind" /\ row'.sb = exec[f].sb
    BY DEF Rebound
  <2> QED
    BY <1>1, <2>1 DEF FreshOK
<1>6. DeadOK'
  BY <1>1, <1>2 DEF DeadOK, RowMoves
<1>7. ListsOK'
  <2> SUFFICES ASSUME NEW h \in Host, task'[h].pc \in Reconciling
               PROVE  /\ task'[h].sb \in Sandbox /\ vm'[task'[h].sb].host = h
                      /\ task'[h].known = "known"
    BY DEF ListsOK
  <2>1. /\ task'[h].sb \in Sandbox /\ vm[task'[h].sb].host = h
        /\ task'[h].known = "known"
    <3>1. CASE task'[h] = task[h]
      BY <1>4, <3>1
    <3>2. CASE task'[h].pc = "listed" /\ task'[h] # task[h]
      <4>1. row.host = h /\ row.sb # None /\ task'[h].sb = row.sb /\ task'[h].known = "known"
        BY <1>1, <3>2, HandlerMoves
      <4> QED
        BY <1>1, <1>3, <4>1 DEF BornOK, Born, RowType
    <3>3. CASE task'[h].pc = "struck" /\ task'[h] # task[h]
      BY <1>1, <1>4, <3>3, HandlerMoves DEF Reconciling
    <3>4. CASE task'[h].pc = "gone" /\ task'[h] # task[h]
      BY <1>1, <1>4, <3>4, HandlerMoves DEF Reconciling
    <3> QED
      BY <3>1, <3>2, <3>3, <3>4 DEF Reconciling
  <2> QED
    BY <1>1, <1>2, <2>1 DEF VmsSteady, BornOK
<1>8. YoungListed'
  <2> SUFFICES ASSUME NEW h \in Host, row'.status = "host_lost", row'.sb # None,
                      task'[h].pc = "listed"
               PROVE  h \in young'
    BY DEF YoungListed
  <2>1. task'[h] = task[h]
    BY <1>1, HandlerMoves
  <2>2. task[h].pc = "listed" /\ task[h].pc # "off"
    BY <2>1
  <2>3. CASE StampedAll
    BY <2>2, <2>3 DEF StampedAll
  <2>4. CASE AgedOnly
    <3>1. row.sb # None
      <4>1. row.status # "dead"
        BY <2>4 DEF AgedOnly
      <4> QED
        BY <1>1, <1>4, <2>2, <4>1 DEF StrikesRow, Reconciling
    <3> QED
      BY <1>1, <2>1, <2>2, <2>4, <3>1 DEF AgedOnly, YoungListed
  <2> QED
    BY <1>2, <2>3, <2>4 DEF YoungNext
<1>9. SweptOK'
  <2> SUFFICES ASSUME NEW w \in Worker, Sweeping(w)', task'[w].sb = row'.sb
               PROVE  row'.status = "host_lost" /\ \A h \in Host : task'[h].pc # "listed"
    BY DEF SweptOK, Sweeping
  <2>a. ASSUME row.status = "host_lost", row'.status = "host_lost",
               \A h \in Host : task[h].pc # "listed"
        PROVE  \A h \in Host : task'[h].pc # "listed"
    BY <1>1, <2>a, HandlerMoves
  <2>b. ASSUME Sweeping(w), row.sb = task[w].sb
        PROVE  row.status = "host_lost" /\ row.sb # None /\ \A h \in Host : task[h].pc # "listed"
    BY <1>1, <2>b DEF SweptOK, SweepsOK, Sweeping
  <2>1. CASE task'[w] = task[w]
    <3>1. Sweeping(w) /\ task[w].sb # None
      BY <1>1, <2>1 DEF Sweeping, SweepsOK
    <3>2. row.sb = task[w].sb /\ row'.sb = row.sb
      BY <1>5, <2>1, <3>1
    <3>3. row.status = "host_lost" /\ row.sb # None /\ \A h \in Host : task[h].pc # "listed"
      BY <2>b, <3>1, <3>2
    <3>4. row'.status = "host_lost"
      BY <1>1, <3>2, <3>3, AttendedRow DEF Attended, KeepsBinding
    <3> QED
      BY <2>a, <3>3, <3>4
  <2>2. CASE SweepList(w)
    <3>1. row' = row /\ row.status = "host_lost" /\ young = {} /\ \A h \in Host : task'[h] = task[h]
      BY <1>1, <2>2, SweepQuiet
    <3>2. row.sb # None
      BY <1>3, <2>2 DEF SweepList, Sweeping, Off
    <3> QED
      BY <1>1, <3>1, <3>2 DEF YoungListed
  <2>3. CASE SweepEntomb(w)
    <3>1. /\ row' = row /\ \A h \in Host : task'[h] = task[h]
          /\ task[w].pc = "entomb" /\ task'[w].sb = task[w].sb
      BY <1>1, <2>3, SweepQuiet
    <3> QED
      BY <2>b, <3>1 DEF Sweeping
  <2> QED
    BY <1>1, <2>1, <2>2, <2>3, SweepTasks
<1>10. StrikesRow'
  <2> SUFFICES ASSUME NEW h \in Host, task'[h].pc = "listed"
               PROVE  \/ row'.status = "dead"
                      \/ row'.sb = task'[h].sb /\ row'.status \in {"active", "evicting", "host_lost"}
    BY DEF StrikesRow
  <2>1. CASE task'[h] # task[h]
    BY <1>1, <2>1, HandlerMoves
  <2>2. CASE task'[h] = task[h] /\ row.status # "dead"
    <3>1. task[h].pc = "listed" /\ task[h].sb # None
      BY <1>4, <2>2 DEF Reconciling
    <3>2. row.sb = task[h].sb /\ row.status \in {"active", "evicting", "host_lost"}
      BY <1>1, <2>2, <3>1 DEF StrikesRow
    <3>3. CASE KeepsBinding
      BY <2>2, <3>2, <3>3 DEF KeepsBinding
    <3>4. ASSUME NEW g \in Host, task[g].pc = "gone", task[g].sb = row.sb PROVE FALSE
      <4>1. g = h
        BY <1>4, <3>1, <3>2, <3>4 DEF Reconciling
      <4> QED
        BY <3>1, <3>4, <4>1
    <3>5. ASSUME NEW w \in Worker, task[w].pc = "unbind", task[w].sb = row.sb PROVE FALSE
      BY <1>1, <3>1, <3>5 DEF SweptOK
    <3>6. ASSUME row.host \in Host, hosts[row.host].lease = "expired" PROVE FALSE
      <4>1. row.host = h
        BY <1>1, <1>4, <3>1, <3>2, <3>6 DEF BornOK, Born, Reconciling
      <4> QED
        BY <1>1, <3>1, <3>6, <4>1 DEF HandlersOK
    <3> QED
      BY <1>1, <3>1, <3>2, <3>3, <3>4, <3>5, <3>6, AttendedRow DEF Attended
  <2>3. CASE row.status = "dead"
    BY <1>2, <2>3 DEF RowMoves
  <2> QED
    BY <2>1, <2>2, <2>3
<1>11. StrikesOK'
  <2> DEFINE sb == row'.sb
             h == vm'[sb].host
  <2> SUFFICES ASSUME row'.strikes > 0, sb # None, vm'[sb].state = "running",
                      task'[h].pc \in {"sent", "listed"}, task'[h].known = "known"
               PROVE  sb \in task'[h].running
    BY DEF StrikesOK
  <2>1. row.sb = sb
    BY <1>2 DEF RowMoves, Rebound
  <2>2. /\ sb \in Sandbox /\ vm[sb].state = "running" /\ vm[sb].host = h /\ h \in Host
    <3>1. sb \in Sandbox /\ vm[sb].state # "unborn"
      BY <1>1, <1>3, <2>1 DEF BornOK, Born, RowType
    <3> QED
      BY <1>1, <1>2, <3>1, HostOf DEF VmsSteady
  <2>3. ASSUME NEW g \in Host, ReconcileStrike(g) PROVE g = h /\ task'[g].pc \notin {"sent", "listed"}
    <3>1. task[g].pc = "listed" /\ task'[g].pc \notin {"sent", "listed"}
      BY <1>3, <2>3 DEF ReconcileStrike, TaskType
    <3>2. row.sb = task[g].sb
      BY <1>1, <2>1, <3>1 DEF StrikesRow, DeadOK
    <3> QED
      BY <1>4, <2>1, <2>2, <3>1, <3>2 DEF Reconciling
  <2>4. row'.strikes = row.strikes
    BY <1>2, <2>3 DEF RowMoves
  <2>5. task[h].pc \in {"sent", "listed"} /\ task[h].known = "known" => sb \in task[h].running
    BY <1>1, <2>1, <2>2, <2>4 DEF StrikesOK
  <2>6. CASE task'[h] = task[h]
    BY <2>5, <2>6
  <2>7. CASE task'[h] # task[h] /\ task'[h].pc = "sent"
    <3>1. task'[h].running = RunningOn(h)
      BY <1>1, <2>2, <2>7, HandlerMoves
    <3> QED
      BY <2>2, <3>1 DEF RunningOn, On
  <2>8. CASE task'[h] # task[h] /\ task'[h].pc = "listed"
    <3>1. task[h].pc = "sent" /\ task[h].known = "known" /\ task'[h].running = task[h].running
      BY <1>1, <2>2, <2>8, HandlerMoves
    <3> QED
      BY <2>5, <3>1
  <2> QED
    BY <2>6, <2>7, <2>8
<1>12. StruckGone'
  <2> SUFFICES ASSUME NEW h \in Host, task'[h].pc \in {"struck", "gone"}, row'.sb = task'[h].sb,
                      vm'[row'.sb].state = "running"
               PROVE  FALSE
    BY DEF StruckGone
  <2>1. task'[h].sb = task[h].sb /\ task[h].pc \in Reconciling
    BY <1>1, HandlerMoves DEF Reconciling
  <2>2. row.sb = row'.sb /\ row.sb = task[h].sb
    BY <1>4, <1>5, <2>1
  <2>3. vm[row.sb].state = "running" /\ vm[row.sb].host = h /\ row.sb \in Sandbox
        /\ task[h].known = "known"
    BY <1>2, <1>4, <2>1, <2>2 DEF VmsSteady
  <2>4. task[h].pc = "listed" /\ task[h].sb \notin task[h].running /\ StruckOut(row.strikes + 1)
    <3>1. task[h].pc \notin {"struck", "gone"}
      BY <1>1, <2>2, <2>3 DEF StruckGone
    <3> QED
      BY <1>1, <3>1, HandlerMoves
  <2>5. row.strikes > 0
    BY <1>3, <2>4, GraceAssumption DEF StruckOut
  <2> QED
    BY <1>1, <2>2, <2>3, <2>4, <2>5 DEF StrikesOK
<1> QED
  BY <1>6, <1>7, <1>8, <1>9, <1>10, <1>11, <1>12

\* A step that clears a binding: what it lets go of is gone or condemned, or it is one
\* of the writes that name no host or another VM.
LEMMA Releases ==
  ASSUME IInv, RInv, Next, row.sb # None, row'.sb # row.sb, RunningUncondemned(row.sb)
  PROVE  row'.status = "dead" \/ ClearsAnother \/ LeftHostless
<1> DEFINE Goal == row'.status = "dead" \/ ClearsAnother \/ LeftHostless
<1> USE NoneAssumption
<1>1. /\ TypeOK /\ BornOK /\ SweepsOK /\ StruckGone /\ TornDown
  BY DEF IInv, RInv
<1>2. /\ row \in RowType /\ task \in [Host \cup Worker -> TaskType]
      /\ exec \in [Epoch -> ExecType] /\ vm[row.sb].state = "running" /\ row.sb \notin tombs'
  BY <1>1 DEF TypeOK, RunningUncondemned
<1>3. ASSUME NEW h \in Host, ReconcileStrike(h) \/ FlipProbe(h) PROVE FALSE
  BY <1>2, <1>3 DEF ReconcileStrike, FlipProbe, RowType
<1>4. ASSUME NEW h \in Host, FlipClear(h) PROVE FALSE
  BY <1>1, <1>2, <1>4 DEF FlipClear, MayUnbind, StruckGone
<1>5. ASSUME NEW h \in Host, FlipLose(h) PROVE FALSE
  BY <1>5 DEF FlipLose, RequireUnbound
<1>6. ASSUME NEW w \in Worker, MarkDead(w) PROVE FALSE
  BY <1>2, <1>6 DEF MarkDead, LostBinding
<1>7. ASSUME NEW w \in Worker, SweepUnbind(w) PROVE Goal
  <2>1. row.sb = task[w].sb /\ task[w].pc = "unbind" /\ tombs' = tombs
    BY <1>7 DEF SweepUnbind, MayUnbind
  <2>2. task[w].host = None
    BY <1>1, <1>2, <2>1 DEF SweepsOK
  <2>3. task'[w] # task[w]
    <3>1. task'[w].pc = "unhost"
      BY <1>2, <1>7, <2>1 DEF SweepUnbind, MayUnbind, TaskType
    <3> QED
      BY <2>1, <3>1
  <2> QED
    BY <2>1, <2>2, <2>3 DEF LeftHostless
<1>8. ASSUME NEW w \in Worker, SweepUnhost(w) PROVE FALSE
  BY <1>2, <1>8 DEF SweepUnhost, RowType
<1>9. ASSUME NEW k \in Host \cup Worker, SettleWrite(k) PROVE FALSE
  BY <1>9 DEF SettleWrite, RequireUnbound
<1>10. ASSUME NEW e \in Epoch, ClearRetained(e) PROVE Goal
  <2>1. exec[e].pc = "detach" /\ Holds(e) /\ Goto(e, "restore")
    BY <1>10 DEF ClearRetained, At
  <2>2. exec[e].sb # row.sb
    BY <1>1, <1>2, <2>1 DEF TornDown
  <2>3. exec'[e].pc = "restore"
    BY <1>2, <2>1 DEF Goto, ExecType
  <2>4. exec'[e] # exec[e]
    BY <2>1, <2>3
  <2> QED
    BY <2>1, <2>2, <2>4 DEF ClearsAnother, Writing
<1>11. ASSUME NEW e \in Epoch, RebuildRelease(e) PROVE Goal
  <2>1. exec[e].pc = "release" /\ Holds(e) /\ Stop(e)
    BY <1>11 DEF RebuildRelease, At
  <2>2. exec'[e].pc = "off"
    BY <1>2, <2>1 DEF Stop, Ended
  <2>3. Writing(e)
    BY <2>1, <2>2 DEF Writing
  <2>4. exec[e].host = None \/ exec[e].sb # row.sb
    BY <1>1, <1>2, <2>1 DEF TornDown
  <2> QED
    BY <2>1, <2>3, <2>4 DEF ClearsAnother, LeftHostless, At
<1>12. ASSUME NEW e \in Epoch, SnapshotsGone(e) \/ RestoreFails(e) PROVE Goal
  <2>1. Detach("dead")
    BY <1>12 DEF SnapshotsGone, RestoreFails
  <2> QED
    BY <1>2, <2>1 DEF Detach, RowType
<1>13. ASSUME NEW e \in Epoch, Rebind(e) PROVE FALSE
  BY <1>13 DEF Rebind, MayRebind
<1>14. ASSUME NEW e \in Epoch, Reuse(e) PROVE FALSE
  BY <1>2, <1>14 DEF Reuse, RowType
<1>15. ASSUME NEW e \in Epoch, FinishActive(e) \/ FinishParked(e) PROVE FALSE
  BY <1>2, <1>15 DEF FinishActive, FinishParked, Retain, RowType
<1>16. CASE Nominate \/ ScannerFallback \/ EvictGivesUp
  BY <1>2, <1>16 DEF Nominate, ScannerFallback, EvictGivesUp, Retain, RowType
<1> QED
  BY <1>3, <1>4, <1>5, <1>6, <1>7, <1>8, <1>9, <1>10, <1>11, <1>12, <1>13, <1>14, <1>15,
     <1>16, Frames DEF Framed, WritesRow

-----------------------------------------------------------------------------
(* Theorems                                                                *)

\* Type correctness: the row, the hosts, the VMs, the handlers and the executors of
\* the detectors and the resume verb keep their types; a settle only ever writes a
\* recovery target, whatever died in the middle.
THEOREM TypeCorrect == Spec => []TypeOK
BY Inductive, PTL DEF IInv

\* Single ownership, for any hosts, VMs, sweeps, claims and faults: of the VMs that
\* did not go astray, at most one runs as the session's without a tombstone, however
\* stale the lists that heartbeats acknowledge tombstones by.
THEOREM OneOwner == Spec => []SingleOwner
<1>1. ASSUME IInv PROVE SingleOwner
  <2> SUFFICES ASSUME NEW a \in Owning \ astray, NEW b \in Owning \ astray PROVE a = b
    BY DEF SingleOwner
  <2>1. row.sb = a /\ row.sb = b
    BY <1>1 DEF IInv, CondemnedOK, Claimed, Owning
  <2> QED
    BY <2>1
<1> QED
  BY <1>1, Inductive, PTL

\* Explicit release, for any hosts, VMs, sweeps, claims and faults, when a handler needs
\* at least two strikes (the default is three; with one, a list made before the VM came
\* up and a probe that a partition fails unbind a healthy VM): while the session lives, a
\* binding is cleared only from a VM that is gone or has its tombstone, but for the writes
\* LetsGoCondemned names.
THEOREM ReleasesCondemned == Grace >= 2 => (Spec => LetsGoCondemned)
<1> SUFFICES ASSUME Grace >= 2 PROVE Spec => LetsGoCondemned
  OBVIOUS
<1>1. Init => IInv /\ RInv
  BY InitIInv, InitRInv
<1>2. IInv /\ RInv /\ [Next]_vars => (IInv /\ RInv)'
  <2>1. ASSUME IInv, RInv, Next PROVE (IInv /\ RInv)'
    BY <2>1, NextIInv, ExecsKept, HandlersKept DEF RInv
  <2> QED
    BY <2>1, StutterIInv, StutterRInv
<1>3. IInv /\ RInv /\ [Next]_vars =>
        [row.sb # None /\ row'.sb # row.sb /\ RunningUncondemned(row.sb)
           => row'.status = "dead" \/ ClearsAnother \/ LeftHostless]_vars
  BY Releases
<1> QED
  BY <1>1, <1>2, <1>3, PTL DEF Spec, LetsGoCondemned
=============================================================================
