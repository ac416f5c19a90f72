--------------------------- MODULE TeleportProofs ---------------------------
(***************************************************************************)
(* Proofs about Teleport, for any number of restores, attempts, resumes    *)
(* and faults.                                                             *)
(***************************************************************************)
EXTENDS Teleport, TLAPS

SessState == {"Active", "Created", "Evacuating", "HostLost", "Idle", "Dead", "Failed"}
SessType == [st : SessState, sb : VM \cup {None}]
RowType == [ph : Phase, kind : {"live", "snapshot"}, exp : BOOLEAN, dest : Dst \cup {None}]
DrvType == [pc : Pc, v : Dst \cup {None}, att : 0 .. MaxRestoreAttempts + 1]
LateType == [op : Call \cup {"none"}, live : BOOLEAN, dest : Dst \cup {None}, in : BOOLEAN]

(* TypeOK without its last two conjuncts.                                  *)
Shape ==
    /\ sess \in SessType
    /\ row \in RowType
    /\ drv \in DrvType
    /\ late \in LateType
    /\ gate \subseteq {"src", "dst"}
    /\ vm \in [VM -> VmState]
    /\ mem \in {"none", "held", "presetup", "taken", "open", "served"}
    /\ up \subseteq {"src", "dst", "other"}
    /\ snap \in BOOLEAN
    /\ tomb \subseteq VM
    /\ lost \in BOOLEAN
    /\ resumes \in 0 .. MaxResumes
    /\ faults \in 0 .. MaxFaults

\* Where the driver stands fits the phase it reads: only the step of a phase
\* writes the row, so what a step did last names the phase.
PcPhase ==
    /\ drv.pc \in {"spawned", "captured", "joining", "restored"} <=> drv.v # None
    /\ drv.pc \in {"held", "spawned", "captured"} => row.ph = "Admitted"
    /\ drv.pc = "held" => row.kind = "snapshot"
    /\ drv.pc \in {"spawned", "captured"} => row.kind = "live" /\ row.exp
    /\ drv.pc \in {"joining", "restored", "aborted"} => row.ph = "Captured"
    /\ drv.pc \in {"joining", "aborted"} => row.kind = "live"
    /\ drv.pc \in {"failing", "unmoored", "detached"} =>
         row.ph \in {"Captured", "Committed", "Attached"}
    /\ drv.pc \in {"failing", "unmoored", "detached"} /\ row.ph = "Captured" =>
         row.kind = "live"
    /\ drv.pc \in {"unwound", "woken", "activated"} => row.ph = "RollingBack"
    /\ drv.pc = "released" => row.ph = "Attached"
    /\ Ended => drv.pc = "idle"
    /\ row.ph \in {"Restored", "Committed", "Attached"} => row.dest # None
    /\ row.ph \in {"none", "Admitted", "Captured", "Done", "Aborted", "Failed"} =>
         row.dest = None

\* The session's binding follows the phase of the move.
SessPhase ==
    /\ sess.sb = None <=> sess.st \in {"HostLost", "Idle", "Dead", "Failed"}
    /\ row.ph \in {"Committed", "Attached", "Done", "Failed"} => sess.sb # Src
    /\ sess.sb \in Dst =>
         row.ph = "Done" \/ (row.ph \in {"Committed", "Attached"} /\ sess.sb = row.dest)

\* A tombstone names a VM that is over.
TombOK ==
    /\ New \notin tomb
    /\ Src \in tomb => row.ph \in {"Done", "Failed"}
    /\ \A v \in Dst : v \in tomb => vm[v] = "gone"

\* What an overtaken driver may still do is what it was about to do in a phase
\* the move has reached.
LateOK ==
    /\ row.ph = "none" => late = NoCall
    /\ late.op = "none" => late = NoCall
    /\ late.op = "unwind" => row.ph \in {"RollingBack", "Aborted", "Failed"}
    /\ late.op = "release" => row.ph \in {"Attached", "Done", "Failed"}
    /\ drv.pc \in {"woken", "activated"} \/ row.ph = "Aborted" =>
         late = NoCall \/ "src" \in gate

\* The VM a session is, or is about to be, settled on runs: the source that was
\* woken, unless a call that was already inside paused it again, the destination
\* of a snapshot, the destination that has drained.  A late release finds a
\* destination that no longer pulls.
VmOK ==
    /\ row.ph = "none" => sess.sb = Src \/ vm[Src] = "gone"
    /\ drv.pc \in {"woken", "activated"} /\ "src" \in up =>
         vm[Src] \in {"running", "refrozen"}
    /\ row.ph = "Aborted" /\ sess.sb = Src /\ "src" \in up =>
         vm[Src] \in {"running", "refrozen"}
    /\ sess.sb = New => vm[New] = "running"
    /\ drv.pc = "restored" /\ row.kind = "snapshot" /\ "dst" \in up =>
         vm[drv.v] = "running"
    /\ row.ph \in {"Restored", "Committed", "Attached"} /\ row.kind = "snapshot"
         /\ "dst" \in up => vm[row.dest] = "running"
    /\ drv.pc \in {"failing", "unmoored", "detached"} /\ row.kind = "snapshot" =>
         "dst" \notin up
    /\ drv.pc = "released" /\ "dst" \in up => vm[row.dest] = "running"
    /\ row.ph = "Done" /\ sess.sb \in Dst /\ "dst" \in up => vm[sess.sb] = "running"
    /\ late.op = "release" /\ row.ph = "Attached" /\ row.kind = "live" =>
         vm[row.dest] \in {"running", "cut", "frozen", "gone"}

\* The export is open.
Serving == mem \in {"open", "served"}

\* While no driver crashed, was overtaken or missed an answer: an open export
\* means a frozen source, an unserved one that no destination has the state, and
\* before the commit at most the driver's own destination is under way.  What a
\* rollback may wake the source next to does not run and cannot begin to.
Clean ==
    ~lost =>
    /\ late = NoCall
    /\ Serving => vm[Src] = "frozen" /\ row.kind = "live" /\ row.exp
    /\ mem = "open" => \A v \in Dst : vm[v] \in {"gone", "staged", "never"}
    /\ ~Forked
    /\ row.ph \in {"none", "Admitted"} /\ drv.pc # "captured" =>
         ~Serving /\ \A v \in Dst : vm[v] \in {"gone", "staged", "never"}
    /\ row.ph \in {"none", "Admitted", "Captured", "Restored"} =>
         \A v \in Dst : v \notin {drv.v, row.dest} => vm[v] = "gone"
    /\ drv.pc = "aborted" => ~Serving
    /\ row.ph = "RollingBack" =>
         \A v \in Dst : v # row.dest \/ drv.pc = "unwound" =>
            ~Executes(v) /\ (Serving => vm[v] = "gone")
    /\ row.kind = "snapshot" /\ (row.ph = "Captured" \/ drv.pc = "held") =>
         vm[Src] # "running"

-----------------------------------------------------------------------------
(* The names of the VMs and their hosts, used as opaque from here on.      *)
LEMMA Names ==
    /\ Src \in VM /\ New \in VM /\ Dst \subseteq VM
    /\ Src \notin Dst /\ New \notin Dst /\ Src # New
    /\ None \notin VM /\ None \notin Dst /\ None # Src /\ None # New
    /\ HostOf(Src) = "src" /\ HostOf(New) = "other"
    /\ \A v \in Dst : HostOf(v) = "dst"
    /\ \A v \in VM : v = Src \/ v \in Dst \/ v = New
  BY TeleportConstants DEF Src, Dst, New, VM, None, HostOf

(* A restore takes a VM that nobody uses.                                  *)
LEMMA FreshIsUnused ==
    ASSUME NEW v \in Dst, Fresh(v)
    PROVE  /\ vm[v] = "gone" /\ v # row.dest /\ v # drv.v /\ v # late.dest
           /\ v # sess.sb /\ v \notin tomb
  BY DEF Fresh, Unused

(* A late call to the source touches no other VM; only a release destroys  *)
(* the source, and one that pauses it after the host has served the        *)
(* successor leaves it refrozen.                                           *)
LEMMA LateSourceWrites ==
    ASSUME vm \in [VM -> VmState],
           mem \in {"none", "held", "presetup", "taken", "open", "served"}, LateSource
    PROVE  /\ late.op \in SourceCall /\ late.in
           /\ UNCHANGED <<sess, row, drv, up, snap, tomb, resumes, faults, lost>>
           /\ late' = NoCall /\ gate' = {}
           /\ vm' \in [VM -> VmState]
           /\ \A v \in VM : v # Src => vm'[v] = vm[v]
           /\ vm'[Src] = "gone" => late.op = "release"
           /\ "src" \in gate /\ late.op # "release" =>
                vm'[Src] \in {vm[Src], "running", "refrozen"}
           /\ mem' \in {"none", "held", "presetup", "taken", "open", "served"}
<1>1. /\ late.op \in SourceCall /\ late.in /\ vm[Src] # "gone"
      /\ UNCHANGED <<sess, row, drv, up, snap, tomb, resumes, faults, lost>>
      /\ late' = NoCall /\ gate' = {}
  BY DEF LateSource, NoFault
<1>2. CASE UNCHANGED vm
  BY <1>1, <1>2
     DEF LateSource, LateFreeze, HostWake, HostAbort, HostResume, HostRelease
<1>3. CASE \E m \in {"held", "open"} : LateFreeze(m)
  BY <1>1, <1>3, Names DEF LateFreeze, VmState
<1>4. CASE HostAbort \/ HostResume
  BY <1>1, <1>4, Names DEF HostAbort, HostResume, VmState
<1>5. CASE late.op = "release" /\ HostRelease
  BY <1>1, <1>5, Names DEF HostRelease, VmState
<1> QED
  BY <1>2, <1>3, <1>4, <1>5 DEF LateSource, HostWake

(* A call that is let in finds its host's gate open.                       *)
LEMMA LateEnterWrites ==
    ASSUME Shape, LateEnter
    PROVE  /\ late # NoCall /\ late' = [late EXCEPT !.in = TRUE] /\ late' \in LateType
           /\ late'.op = late.op /\ late'.dest = late.dest
           /\ UNCHANGED <<sess, row, drv, gate, vm, up, snap, tomb, resumes, faults, lost>>
           /\ mem' \in {mem, "taken"}
<1>1. gate' = gate
  BY DEF LateEnter, Refuses
<1> QED
  BY <1>1 DEF LateEnter, NoFault, Shape, LateType

(* A restart ends the late call that is inside, or touches none.           *)
LEMMA CallsEndWrites ==
    ASSUME Shape, NEW h, CallsEnd(h)
    PROVE  /\ late' \in LateType /\ gate' \subseteq {"src", "dst"}
           /\ (late' = NoCall /\ gate' = {}) \/ (late' = late /\ gate' = gate)
  BY Names DEF CallsEnd, NoCall, Shape, LateType

-----------------------------------------------------------------------------
(* What the writes of the driver make of the records.                      *)

(* The driver moves on and drops the VM it restores.                       *)
LEMMA GotoWrites ==
    ASSUME drv \in DrvType, NEW pc \in Pc, Goto(pc)
    PROVE  /\ drv' \in DrvType /\ drv'.pc = pc /\ drv'.v = None /\ drv'.att = drv.att
  BY DEF Goto, DrvType

(* The driver moves on within a step.                                      *)
LEMMA DrvWrites ==
    ASSUME drv \in DrvType, NEW pc \in Pc, NEW v \in Dst
    PROVE  /\ [drv EXCEPT !.pc = pc] \in DrvType
           /\ [drv EXCEPT !.pc = pc, !.v = v] \in DrvType
  BY DEF DrvType

(* A claim of the lane counts an attempt, up to one beyond the limit.      *)
LEMMA ClaimWrites ==
    ASSUME drv \in DrvType, NEW pc \in Pc
    PROVE  /\ [drv EXCEPT !.pc = pc, !.att = AttemptsNext] \in DrvType
           /\ [drv EXCEPT !.pc = pc, !.v = None, !.att = AttemptsNext] \in DrvType
<1>1. AttemptsNext \in 0 .. MaxRestoreAttempts + 1
  BY TeleportConstants DEF AttemptsNext, DrvType
<1> QED
  BY <1>1 DEF DrvType

(* The patches of the teleport row.                                        *)
LEMMA RowWrites ==
    ASSUME row \in RowType, NEW ph \in Phase
    PROVE  /\ [row EXCEPT !.ph = ph] \in RowType
           /\ [row EXCEPT !.ph = ph, !.dest = None] \in RowType
           /\ [row EXCEPT !.exp = TRUE] \in RowType
           /\ [row EXCEPT !.kind = "snapshot"] \in RowType
  BY DEF RowType

(* teleport_advance changes the phase alone.                               *)
LEMMA AdvanceWrites ==
    ASSUME row \in RowType, drv \in DrvType, NEW ph \in Phase, Advance(ph)
    PROVE  /\ row' \in RowType /\ row'.ph = ph /\ row'.kind = row.kind
           /\ row'.exp = row.exp /\ row'.dest = row.dest
           /\ drv' \in DrvType /\ drv'.pc = "top" /\ drv'.v = None
<1>1. row' = [row EXCEPT !.ph = ph] /\ Goto("top")
  BY DEF Advance
<1>2. "top" \in Pc
  BY DEF Pc
<1> QED
  BY <1>1, <1>2, RowWrites, GotoWrites DEF RowType

(* The writes of the session row.                                          *)
LEMMA SessWrites ==
    ASSUME sess \in SessType, NEW st \in SessState, NEW b \in VM \cup {None}
    PROVE  /\ [sess EXCEPT !.st = st] \in SessType
           /\ [sess EXCEPT !.sb = b] \in SessType
           /\ [st |-> st, sb |-> b] \in SessType
  BY DEF SessType

(* A step is a fault of the driver, of a host, or none.                    *)
LEMMA FaultTypes ==
    ASSUME faults \in 0 .. MaxFaults, lost \in BOOLEAN,
           NoFault \/ DriverFault \/ (Fault /\ UNCHANGED lost)
    PROVE  faults' \in 0 .. MaxFaults /\ lost' \in BOOLEAN
<1>1. faults' = faults \/ (faults < MaxFaults /\ faults' = faults + 1)
  BY DEF NoFault, DriverFault, Fault
<1>2. faults' \in 0 .. MaxFaults
  BY <1>1, TeleportConstants
<1>3. lost' = lost \/ lost' = TRUE
  BY DEF NoFault, DriverFault
<1> QED
  BY <1>2, <1>3

(* A host that serves a call joins the gate.                               *)
LEMMA SeenType ==
    ASSUME gate \subseteq {"src", "dst"}, NEW h \in {"src", "dst"}, Seen(h) \/ Quiet
    PROVE  gate' \subseteq {"src", "dst"}
  BY DEF Seen, Quiet

(* teleport_settle writes the session, the tombstone and the row, or nothing. *)
LEMMA SettleWrites ==
    ASSUME row \in RowType, sess \in SessType, drv \in DrvType, NEW ok \in BOOLEAN,
           TeleportSettle(ok)
    PROVE  /\ drv' \in DrvType /\ drv'.pc = "idle" /\ drv'.v = None
           /\ \/ /\ row' \in RowType /\ row'.ph = "Failed" /\ row'.dest = None
                 /\ row'.kind = row.kind /\ row'.exp = row.exp
                 /\ sess' \in SessType /\ sess'.st \in {"Idle", "Dead", "Failed"}
                 /\ sess'.sb = None
                 /\ tomb' = tomb \cup {Src}
              \/ UNCHANGED <<row, sess, tomb>>
<1> DEFINE t == SettleTarget(sess.st, ok)
<1>1. t \in {"Idle", "Dead", "Failed"}
  BY DEF SettleTarget, RecoveryTarget
<1>2. Goto("idle")
  BY DEF TeleportSettle
<1>3. drv' \in DrvType /\ drv'.pc = "idle" /\ drv'.v = None
  BY <1>2, GotoWrites DEF Pc
<1>4. CASE Edge(sess.st, t)
  <2>1. /\ row' = [row EXCEPT !.ph = "Failed", !.dest = None]
        /\ sess' = [st |-> t, sb |-> None] /\ tomb' = tomb \cup {Src}
    BY <1>4 DEF TeleportSettle
  <2>2. row' \in RowType /\ row'.ph = "Failed" /\ row'.dest = None
        /\ row'.kind = row.kind /\ row'.exp = row.exp
    BY <2>1, RowWrites DEF RowType, Phase
  <2>3. sess' \in SessType /\ sess'.st = t /\ sess'.sb = None
    BY <2>1, <1>1 DEF SessType, SessState
  <2> QED
    BY <1>1, <1>3, <2>1, <2>2, <2>3
<1>5. CASE ~Edge(sess.st, t)
  BY <1>3, <1>5 DEF TeleportSettle
<1> QED
  BY <1>4, <1>5

LEMMA ShapeStep == Shape /\ PcPhase /\ Next => Shape'
<1> SUFFICES ASSUME Shape, PcPhase, Next PROVE Shape'
  OBVIOUS
<1>1. CASE Claim
  <2>1. drv' \in DrvType
    BY <1>1, ClaimWrites DEF Claim, Shape, Pc
  <2>2. gate' \subseteq {"src", "dst"}
    BY <1>1, SeenType DEF Claim, Shape
  <2>3. faults' \in 0 .. MaxFaults /\ lost' \in BOOLEAN
    BY <1>1, FaultTypes DEF Claim, Shape
  <2> QED
    BY <1>1, <2>1, <2>2, <2>3 DEF Claim, Shape
<1>2. CASE Admit
  BY <1>2, Names, TeleportConstants
     DEF Admit, Quiet, NoFault, Shape, SessType, SessState, RowType, DrvType,
         LateType, Phase, Pc, Call, VmState
<1>3. CASE SettleRested
  <2>1. drv' \in DrvType
    BY <1>3, GotoWrites DEF SettleRested, Shape, Pc
  <2>2. row' \in RowType
    BY <1>3, RowWrites DEF SettleRested, Shape, Phase
  <2>3. gate' \subseteq {"src", "dst"}
    BY <1>3, SeenType DEF SettleRested, Shape
  <2>4. faults' \in 0 .. MaxFaults /\ lost' \in BOOLEAN
    BY <1>3, FaultTypes DEF SettleRested, Shape
  <2> QED
    BY <1>3, <2>1, <2>2, <2>3, <2>4 DEF SettleRested, Shape
<1>4. CASE Presetup
  <2>1. row' \in RowType
    BY <1>4, RowWrites DEF Presetup, NoCall, Shape, Phase
  <2>2. vm' \in [VM -> VmState]
    BY <1>4, Names DEF Presetup, HostPresetup, Shape, VmState
  <2>3. gate' \subseteq {"src", "dst"}
    BY <1>4, SeenType DEF Presetup, Shape
  <2>4. faults' \in 0 .. MaxFaults /\ lost' \in BOOLEAN
    BY <1>4, FaultTypes DEF Presetup, Shape
  <2> QED
    BY <1>4, <2>1, <2>2, <2>3, <2>4 DEF Presetup, HostPresetup, Shape
<1>5. CASE Downgrade
  BY <1>5, Names, TeleportConstants
     DEF Downgrade, At, CanPresetup, Seen, NoFault, Rests, NoCall, Shape, SessType,
         SessState, RowType, DrvType, LateType, Phase, Pc, Call, VmState
<1>6. CASE PresetupFails
  <2>1. drv' \in DrvType
    BY <1>6, GotoWrites, AdvanceWrites
       DEF PresetupFails, RollbackBegin, Shape, Pc, Phase
  <2>2. row' \in RowType
    BY <1>6, AdvanceWrites DEF PresetupFails, RollbackBegin, Shape, Phase
  <2>3. gate' \subseteq {"src", "dst"}
    BY <1>6, SeenType DEF PresetupFails, Shape
  <2>4. faults' \in 0 .. MaxFaults /\ lost' \in BOOLEAN
    BY <1>6, FaultTypes DEF PresetupFails, Shape
  <2> QED
    BY <1>6, <2>1, <2>2, <2>3, <2>4
       DEF PresetupFails, RollbackBegin, HostPresetup, Shape
<1>7. CASE SpawnRestore
  <2>1. drv' \in DrvType
    <3>1. CASE \E v \in Dst : drv' = [drv EXCEPT !.pc = "spawned", !.v = v]
      <4>1. PICK v \in Dst : drv' = [drv EXCEPT !.pc = "spawned", !.v = v]
        BY <3>1
      <4> QED
        BY <4>1, DrvWrites DEF Shape, Pc
    <3>2. CASE Goto("idle") \/ RollbackBegin
      BY <3>2, GotoWrites, AdvanceWrites DEF RollbackBegin, Shape, Pc, Phase
    <3> QED
      BY <1>7, <3>1, <3>2 DEF SpawnRestore
  <2>2. row' \in RowType
    BY <1>7, AdvanceWrites DEF SpawnRestore, RollbackBegin, NoCall, Shape, Phase
  <2>3. vm' \in [VM -> VmState]
    BY <1>7, Names DEF SpawnRestore, HostRestore, Shape, VmState
  <2>4. gate' \subseteq {"src", "dst"}
    BY <1>7, SeenType DEF SpawnRestore, Shape
  <2>5. faults' \in 0 .. MaxFaults /\ lost' \in BOOLEAN
    BY <1>7, FaultTypes DEF SpawnRestore, Shape
  <2> QED
    BY <1>7, <2>1, <2>2, <2>3, <2>4, <2>5
       DEF SpawnRestore, HostRestore, RollbackBegin, Shape
<1>8. CASE Capture
  BY <1>8, Names, TeleportConstants
     DEF Capture, CanCapture, HostCapture, Seen, NoFault, NoCall, Shape, SessType,
         SessState, RowType, DrvType, LateType, Phase, Pc, Call, VmState
<1>9. CASE CaptureFails
  <2>1. drv' \in DrvType
    BY <1>9, GotoWrites, AdvanceWrites DEF CaptureFails, RollbackBegin, Shape, Pc, Phase
  <2>2. row' \in RowType
    BY <1>9, AdvanceWrites DEF CaptureFails, RollbackBegin, NoCall, Shape, Phase
  <2>3. gate' \subseteq {"src", "dst"}
    BY <1>9, SeenType DEF CaptureFails, Shape
  <2>4. faults' \in 0 .. MaxFaults /\ lost' \in BOOLEAN
    BY <1>9, FaultTypes DEF CaptureFails, Shape
  <2> QED
    BY <1>9, <2>1, <2>2, <2>3, <2>4 DEF CaptureFails, RollbackBegin, Shape
<1>10. CASE RecordCapture
  BY <1>10, Names, TeleportConstants
     DEF RecordCapture, Quiet, NoFault, Shape, SessType, SessState, RowType, DrvType,
         LateType, Phase, Pc, Call, VmState
<1>11. CASE Hold
  <2>1. drv' \in DrvType
    BY <1>11, GotoWrites DEF Hold, Shape, Pc
  <2>2. vm' \in [VM -> VmState]
    BY <1>11, Names DEF Hold, HostHold, Shape, VmState
  <2>3. gate' \subseteq {"src", "dst"}
    BY <1>11, SeenType DEF Hold, Shape
  <2>4. faults' \in 0 .. MaxFaults /\ lost' \in BOOLEAN
    BY <1>11, FaultTypes DEF Hold, Shape
  <2> QED
    BY <1>11, <2>1, <2>2, <2>3, <2>4 DEF Hold, HostHold, Shape
<1>12. CASE HoldFails
  <2>1. drv' \in DrvType
    BY <1>12, GotoWrites, AdvanceWrites DEF HoldFails, RollbackBegin, Shape, Pc, Phase
  <2>2. row' \in RowType
    BY <1>12, AdvanceWrites DEF HoldFails, RollbackBegin, NoCall, Shape, Phase
  <2>3. vm' \in [VM -> VmState]
    BY <1>12, Names DEF HoldFails, HostHold, Shape, VmState
  <2>4. gate' \subseteq {"src", "dst"}
    BY <1>12, SeenType DEF HoldFails, Shape
  <2>5. faults' \in 0 .. MaxFaults /\ lost' \in BOOLEAN
    BY <1>12, FaultTypes DEF HoldFails, Shape
  <2> QED
    BY <1>12, <2>1, <2>2, <2>3, <2>4, <2>5 DEF HoldFails, RollbackBegin, HostHold, Shape
<1>13. CASE RecordHold
  <2>1. drv' \in DrvType
    BY <1>13, GotoWrites, AdvanceWrites DEF RecordHold, Shape, Pc, Phase
  <2>2. row' \in RowType
    BY <1>13, AdvanceWrites DEF RecordHold, Shape, Phase
  <2>3. gate' \subseteq {"src", "dst"}
    BY <1>13, SeenType DEF RecordHold, Shape
  <2>4. faults' \in 0 .. MaxFaults /\ lost' \in BOOLEAN
    BY <1>13, FaultTypes DEF RecordHold, Shape
  <2> QED
    BY <1>13, <2>1, <2>2, <2>3, <2>4 DEF RecordHold, Shape
<1>14. CASE RestoreLive
  <2>1. drv' \in DrvType
    <3>1. CASE \E v \in Dst : drv' = [drv EXCEPT !.pc = "joining", !.v = v]
      <4>1. PICK v \in Dst : drv' = [drv EXCEPT !.pc = "joining", !.v = v]
        BY <3>1
      <4> QED
        BY <4>1, DrvWrites DEF Shape, Pc
    <3>2. CASE Goto("idle")
      BY <3>2, GotoWrites DEF Shape, Pc
    <3> QED
      BY <1>14, <3>1, <3>2 DEF RestoreLive
  <2>2. vm' \in [VM -> VmState]
    BY <1>14, Names DEF RestoreLive, HostRestore, Shape, VmState
  <2>3. gate' \subseteq {"src", "dst"}
    BY <1>14, SeenType DEF RestoreLive, Shape
  <2>4. faults' \in 0 .. MaxFaults /\ lost' \in BOOLEAN
    BY <1>14, FaultTypes DEF RestoreLive, Shape
  <2> QED
    BY <1>14, <2>1, <2>2, <2>3, <2>4 DEF RestoreLive, HostRestore, Shape
<1>15. CASE RestoreSnapshot
  <2>1. drv' \in DrvType
    <3>1. PICK v \in Dst : drv' = [drv EXCEPT !.pc = "restored", !.v = v]
      BY <1>15 DEF RestoreSnapshot
    <3> QED
      BY <3>1, DrvWrites DEF Shape, Pc
  <2>2. vm' \in [VM -> VmState]
    BY <1>15, Names DEF RestoreSnapshot, HostRestore, Shape, VmState
  <2>3. gate' \subseteq {"src", "dst"}
    BY <1>15, SeenType DEF RestoreSnapshot, Shape
  <2>4. faults' \in 0 .. MaxFaults /\ lost' \in BOOLEAN
    BY <1>15, FaultTypes DEF RestoreSnapshot, Shape
  <2> QED
    BY <1>15, <2>1, <2>2, <2>3, <2>4 DEF RestoreSnapshot, HostRestore, Shape
<1>16. CASE RestoreFails
  <2>1. drv' \in DrvType
    BY <1>16, GotoWrites, AdvanceWrites
       DEF RestoreFails, RollbackBegin, Shape, Pc, Phase
  <2>2. row' \in RowType
    BY <1>16, AdvanceWrites DEF RestoreFails, RollbackBegin, NoCall, Shape, Phase
  <2>3. vm' \in [VM -> VmState]
    BY <1>16, Names DEF RestoreFails, HostRestore, Shape, VmState
  <2>4. gate' \subseteq {"src", "dst"}
    BY <1>16, SeenType DEF RestoreFails, Shape
  <2>5. faults' \in 0 .. MaxFaults /\ lost' \in BOOLEAN
    BY <1>16, FaultTypes DEF RestoreFails, Shape
  <2> QED
    BY <1>16, <2>1, <2>2, <2>3, <2>4, <2>5
       DEF RestoreFails, RollbackBegin, HostRestore, Shape
<1>17. CASE JoinOk
  BY <1>17, Names, TeleportConstants
     DEF JoinOk, Executes, Quiet, NoFault, Shape, SessType, SessState, RowType,
         DrvType, LateType, Phase, Pc, Call, VmState
<1>18. CASE JoinNever
  <2>1. drv' \in DrvType
    BY <1>18, GotoWrites DEF JoinNever, Shape, Pc
  <2>2. vm' \in [VM -> VmState]
    BY <1>18, Names DEF JoinNever, Shape, VmState
  <2>3. gate' \subseteq {"src", "dst"}
    BY <1>18, SeenType DEF JoinNever, Shape
  <2>4. faults' \in 0 .. MaxFaults /\ lost' \in BOOLEAN
    BY <1>18, FaultTypes DEF JoinNever, Shape
  <2> QED
    BY <1>18, <2>1, <2>2, <2>3, <2>4 DEF JoinNever, Shape
<1>19. CASE JoinFails
  <2>1. drv' \in DrvType
    BY <1>19, GotoWrites DEF JoinFails, Shape, Pc
  <2>2. vm' \in [VM -> VmState]
    BY <1>19, Names DEF JoinFails, Shape, VmState
  <2>3. gate' \subseteq {"src", "dst"}
    BY <1>19, SeenType DEF JoinFails, Shape
  <2>4. faults' \in 0 .. MaxFaults /\ lost' \in BOOLEAN
    BY <1>19, FaultTypes DEF JoinFails, Shape
  <2> QED
    BY <1>19, <2>1, <2>2, <2>3, <2>4 DEF JoinFails, Shape
<1>20. CASE RecordAbort
  <2>1. drv' \in DrvType
    BY <1>20, GotoWrites, AdvanceWrites DEF RecordAbort, RollbackBegin, Shape, Pc, Phase
  <2>2. row' \in RowType
    BY <1>20, AdvanceWrites DEF RecordAbort, RollbackBegin, Shape, Phase
  <2>3. gate' \subseteq {"src", "dst"}
    BY <1>20, SeenType DEF RecordAbort, Shape
  <2>4. faults' \in 0 .. MaxFaults /\ lost' \in BOOLEAN
    BY <1>20, FaultTypes DEF RecordAbort, Shape
  <2> QED
    BY <1>20, <2>1, <2>2, <2>3, <2>4 DEF RecordAbort, RollbackBegin, Shape
<1>21. CASE RecordRestore
  <2>1. drv' \in DrvType
    BY <1>21, GotoWrites DEF RecordRestore, Shape, Pc
  <2>2. row' \in RowType
    <3>1. drv.v \in Dst
      BY <1>21 DEF RecordRestore, PcPhase, Shape, DrvType
    <3>2. row' = [row EXCEPT !.ph = "Restored", !.dest = drv.v]
      BY <1>21 DEF RecordRestore, Named
    <3> QED
      BY <3>1, <3>2 DEF Shape, RowType, Phase
  <2>3. gate' \subseteq {"src", "dst"}
    BY <1>21, SeenType DEF RecordRestore, Shape
  <2>4. faults' \in 0 .. MaxFaults /\ lost' \in BOOLEAN
    BY <1>21, FaultTypes DEF RecordRestore, Shape
  <2> QED
    BY <1>21, <2>1, <2>2, <2>3, <2>4 DEF RecordRestore, Shape
<1>22. CASE Commit
  <2>1. drv' \in DrvType
    BY <1>22, GotoWrites, AdvanceWrites DEF Commit, RollbackBegin, Shape, Pc, Phase
  <2>2. row' \in RowType
    BY <1>22, AdvanceWrites DEF Commit, RollbackBegin, Shape, Phase
  <2>3. sess' \in SessType
    BY <1>22, SessWrites, Names DEF Commit, Shape, SessState, RowType
  <2>4. gate' \subseteq {"src", "dst"}
    BY <1>22, SeenType DEF Commit, Shape
  <2>5. faults' \in 0 .. MaxFaults /\ lost' \in BOOLEAN
    BY <1>22, FaultTypes DEF Commit, Shape
  <2> QED
    BY <1>22, <2>1, <2>2, <2>3, <2>4, <2>5 DEF Commit, RollbackBegin, Shape
<1>23. CASE DestinationGone
  <2>1. drv' \in DrvType
    BY <1>23, GotoWrites DEF DestinationGone, Shape, Pc
  <2>2. gate' \subseteq {"src", "dst"}
    BY <1>23, SeenType DEF DestinationGone, Shape
  <2>3. faults' \in 0 .. MaxFaults /\ lost' \in BOOLEAN
    BY <1>23, FaultTypes DEF DestinationGone, Shape
  <2> QED
    BY <1>23, <2>1, <2>2, <2>3 DEF DestinationGone, Shape
<1>24. CASE Attach
  <2>1. drv' \in DrvType
    BY <1>24, GotoWrites DEF Attach, Shape, Pc
  <2>2. sess' \in SessType
    BY <1>24, SessWrites, Names DEF Attach, NoCall, Shape, SessState, RowType
  <2>3. gate' \subseteq {"src", "dst"}
    BY <1>24, SeenType DEF Attach, Shape
  <2>4. faults' \in 0 .. MaxFaults /\ lost' \in BOOLEAN
    BY <1>24, FaultTypes DEF Attach, Shape
  <2> QED
    BY <1>24, <2>1, <2>2, <2>3, <2>4 DEF Attach, Shape
<1>25. CASE RecordAttach
  <2>1. drv' \in DrvType
    BY <1>25, GotoWrites, AdvanceWrites DEF RecordAttach, Shape, Pc, Phase
  <2>2. row' \in RowType
    BY <1>25, AdvanceWrites DEF RecordAttach, Shape, Phase
  <2>3. gate' \subseteq {"src", "dst"}
    BY <1>25, SeenType DEF RecordAttach, Shape
  <2>4. faults' \in 0 .. MaxFaults /\ lost' \in BOOLEAN
    BY <1>25, FaultTypes DEF RecordAttach, Shape
  <2> QED
    BY <1>25, <2>1, <2>2, <2>3, <2>4 DEF RecordAttach, Shape
<1>26. CASE DrainRetry
  <2>1. drv' \in DrvType
    BY <1>26, GotoWrites DEF DrainRetry, Shape, Pc
  <2>2. gate' \subseteq {"src", "dst"}
    BY <1>26, SeenType DEF DrainRetry, Shape
  <2>3. faults' \in 0 .. MaxFaults /\ lost' \in BOOLEAN
    BY <1>26, FaultTypes DEF DrainRetry, Shape
  <2> QED
    BY <1>26, <2>1, <2>2, <2>3 DEF DrainRetry, Shape
<1>27. CASE PeerLost
  <2>1. drv' \in DrvType
    BY <1>27, GotoWrites DEF PeerLost, Shape, Pc
  <2>2. vm' \in [VM -> VmState]
    BY <1>27, Names DEF PeerLost, Shape, VmState
  <2>3. gate' \subseteq {"src", "dst"}
    BY <1>27, SeenType DEF PeerLost, Shape
  <2>4. faults' \in 0 .. MaxFaults /\ lost' \in BOOLEAN
    BY <1>27, FaultTypes DEF PeerLost, Shape
  <2> QED
    BY <1>27, <2>1, <2>2, <2>3, <2>4 DEF PeerLost, Shape
<1>28. CASE Release
  <2>1. drv' \in DrvType
    BY <1>28, GotoWrites DEF Release, Shape, Pc
  <2>2. vm' \in [VM -> VmState]
    BY <1>28, Names DEF Release, HostRelease, Shape, VmState
  <2>3. gate' \subseteq {"src", "dst"}
    BY <1>28, SeenType DEF Release, Shape
  <2>4. faults' \in 0 .. MaxFaults /\ lost' \in BOOLEAN
    BY <1>28, FaultTypes DEF Release, Shape
  <2> QED
    BY <1>28, <2>1, <2>2, <2>3, <2>4 DEF Release, HostRelease, Shape
<1>29. CASE RecordRelease
  <2>1. drv' \in DrvType
    BY <1>29, GotoWrites DEF RecordRelease, Shape, Pc
  <2>2. row' \in RowType
    BY <1>29, RowWrites DEF RecordRelease, Shape, Phase
  <2>3. gate' \subseteq {"src", "dst"}
    BY <1>29, SeenType DEF RecordRelease, Shape
  <2>4. tomb' \subseteq VM
    BY <1>29, Names DEF RecordRelease, Shape, RowType, LateType
  <2>5. faults' \in 0 .. MaxFaults /\ lost' \in BOOLEAN
    BY <1>29, FaultTypes DEF RecordRelease, Shape
  <2> QED
    BY <1>29, <2>1, <2>2, <2>3, <2>4, <2>5 DEF RecordRelease, Shape
<1>30. CASE FailDestroy
  <2>1. drv' \in DrvType
    BY <1>30, GotoWrites DEF FailDestroy, Shape, Pc
  <2>2. vm' \in [VM -> VmState]
    BY <1>30, Names DEF FailDestroy, DestroyDestination, Shape, VmState
  <2>3. gate' \subseteq {"src", "dst"}
    BY <1>30, SeenType DEF FailDestroy, DestroyDestination, Shape
  <2>4. tomb' \subseteq VM
    BY <1>30, Names DEF FailDestroy, DestroyDestination, Shape, RowType, LateType
  <2>5. faults' \in 0 .. MaxFaults /\ lost' \in BOOLEAN
    BY <1>30, FaultTypes DEF FailDestroy, Shape
  <2> QED
    BY <1>30, <2>1, <2>2, <2>3, <2>4, <2>5 DEF FailDestroy, DestroyDestination, Shape
<1>31. CASE FailDetach
  <2>1. drv' \in DrvType
    BY <1>31, GotoWrites DEF FailDetach, Shape, Pc
  <2>2. sess' \in SessType
    BY <1>31, SessWrites, Names DEF FailDetach, Shape, SessState, RowType
  <2>3. gate' \subseteq {"src", "dst"}
    BY <1>31, SeenType DEF FailDetach, Shape
  <2>4. faults' \in 0 .. MaxFaults /\ lost' \in BOOLEAN
    BY <1>31, FaultTypes DEF FailDetach, Shape
  <2> QED
    BY <1>31, <2>1, <2>2, <2>3, <2>4 DEF FailDetach, Shape
<1>32. CASE FailSettle
  <2>1. /\ TeleportSettle(snap /\ row.ph # "Captured")
        /\ (snap /\ row.ph # "Captured") \in BOOLEAN
    BY <1>32 DEF FailSettle, Shape
  <2>2. drv' \in DrvType /\ row' \in RowType /\ sess' \in SessType /\ tomb' \subseteq VM
    BY <2>1, SettleWrites, Names DEF Shape
  <2>3. faults' \in 0 .. MaxFaults /\ lost' \in BOOLEAN
    BY <1>32, FaultTypes DEF FailSettle, Shape
  <2> QED
    BY <1>32, <2>2, <2>3 DEF FailSettle, Quiet, Shape
<1>33. CASE RollbackDestroy
  <2>1. drv' \in DrvType
    BY <1>33, GotoWrites DEF RollbackDestroy, Shape, Pc
  <2>2. vm' \in [VM -> VmState]
    BY <1>33, Names DEF RollbackDestroy, DestroyDestination, Shape, VmState
  <2>3. gate' \subseteq {"src", "dst"}
    BY <1>33, SeenType DEF RollbackDestroy, DestroyDestination, Shape
  <2>4. tomb' \subseteq VM
    BY <1>33, Names DEF RollbackDestroy, DestroyDestination, Shape, RowType, LateType
  <2>5. faults' \in 0 .. MaxFaults /\ lost' \in BOOLEAN
    BY <1>33, FaultTypes DEF RollbackDestroy, Shape
  <2> QED
    BY <1>33, <2>1, <2>2, <2>3, <2>4, <2>5
       DEF RollbackDestroy, DestroyDestination, Shape
<1>34. CASE RollbackWake
  <2>1. drv' \in DrvType
    BY <1>34, GotoWrites DEF RollbackWake, Shape, Pc
  <2>2. vm' \in [VM -> VmState]
    BY <1>34, Names DEF RollbackWake, HostWake, HostAbort, HostResume, Shape, VmState
  <2>3. gate' \subseteq {"src", "dst"}
    BY <1>34, SeenType DEF RollbackWake, Shape
  <2>4. faults' \in 0 .. MaxFaults /\ lost' \in BOOLEAN
    BY <1>34, FaultTypes DEF RollbackWake, Shape
  <2> QED
    BY <1>34, <2>1, <2>2, <2>3, <2>4
       DEF RollbackWake, HostWake, HostAbort, HostResume, Shape
<1>35. CASE RollbackLost
  <2>1. /\ TeleportSettle(snap)
        /\ snap \in BOOLEAN
    BY <1>35 DEF RollbackLost, Shape
  <2>2. drv' \in DrvType /\ row' \in RowType /\ sess' \in SessType /\ tomb' \subseteq VM
    BY <2>1, SettleWrites, Names DEF Shape
  <2>3. faults' \in 0 .. MaxFaults /\ lost' \in BOOLEAN
    BY <1>35, FaultTypes DEF RollbackLost, Shape
  <2> QED
    BY <1>35, <2>2, <2>3 DEF RollbackLost, Quiet, Shape
<1>36. CASE RollbackActivate
  <2>1. drv' \in DrvType
    BY <1>36, GotoWrites DEF RollbackActivate, Shape, Pc
  <2>2. sess' \in SessType
    BY <1>36, SessWrites, Names DEF RollbackActivate, Shape, SessState, RowType
  <2>3. gate' \subseteq {"src", "dst"}
    BY <1>36, SeenType DEF RollbackActivate, Shape
  <2>4. faults' \in 0 .. MaxFaults /\ lost' \in BOOLEAN
    BY <1>36, FaultTypes DEF RollbackActivate, Shape
  <2> QED
    BY <1>36, <2>1, <2>2, <2>3, <2>4 DEF RollbackActivate, Shape
<1>37. CASE RollbackEnd
  <2>1. drv' \in DrvType
    BY <1>37, GotoWrites DEF RollbackEnd, Shape, Pc
  <2>2. row' \in RowType
    BY <1>37, RowWrites DEF RollbackEnd, Shape, Phase
  <2>3. gate' \subseteq {"src", "dst"}
    BY <1>37, SeenType DEF RollbackEnd, Shape
  <2>4. faults' \in 0 .. MaxFaults /\ lost' \in BOOLEAN
    BY <1>37, FaultTypes DEF RollbackEnd, Shape
  <2> QED
    BY <1>37, <2>1, <2>2, <2>3, <2>4 DEF RollbackEnd, Shape
<1>38. CASE Crash
  <2>1. drv' \in DrvType
    BY <1>38, GotoWrites DEF Crash, Shape, Pc
  <2>2. faults' \in 0 .. MaxFaults /\ lost' \in BOOLEAN
    BY <1>38, FaultTypes DEF Crash, Shape
  <2> QED
    BY <1>38, <2>1, <2>2 DEF Crash, Shape
<1>39. CASE Overtake
  <2>1. drv' \in DrvType
    BY <1>39, ClaimWrites DEF Overtake, Shape, Pc
  <2>2. late' \in LateType
    BY <1>39, TeleportConstants
       DEF Overtake, NoCall, CallOf, AttemptsNext, Shape, LateType, Call, SourceCall,
           DestCall, RowType
  <2>3. gate' \subseteq {"src", "dst"}
    BY <1>39, SeenType DEF Overtake, Shape
  <2>4. faults' \in 0 .. MaxFaults /\ lost' \in BOOLEAN
    BY <1>39, FaultTypes DEF Overtake, Shape
  <2> QED
    BY <1>39, <2>1, <2>2, <2>3, <2>4 DEF Overtake, Shape
<1>40. CASE LateSource
  <2>0. late' = NoCall
    BY <1>40 DEF LateSource
  <2>1. late' \in LateType
    BY <2>0 DEF NoCall, LateType
  <2>2. /\ UNCHANGED <<sess, row, drv, up, snap, tomb, resumes, faults, lost>>
        /\ gate' = {} /\ vm' \in [VM -> VmState]
        /\ mem' \in {"none", "held", "presetup", "taken", "open", "served"}
    BY <1>40, LateSourceWrites DEF Shape
  <2> QED
    BY <2>1, <2>2 DEF Shape
<1>41. CASE LateDest
  <2>1. late' \in LateType
    BY <1>41, TeleportConstants
       DEF LateDest, NoCall, Shape, LateType, Call, SourceCall, DestCall, RowType
  <2>2. vm' \in [VM -> VmState]
    BY <1>41, Names DEF LateDest, HostRestore, Shape, VmState
  <2>3. gate' \subseteq {"src", "dst"}
    BY <1>41, SeenType DEF LateDest, Shape
  <2>4. tomb' \subseteq VM
    BY <1>41, Names DEF LateDest, Shape, RowType, LateType
  <2>5. faults' \in 0 .. MaxFaults /\ lost' \in BOOLEAN
    BY <1>41, FaultTypes DEF LateDest, Shape
  <2> QED
    BY <1>41, <2>1, <2>2, <2>3, <2>4, <2>5 DEF LateDest, HostRestore, Shape
<1>42. CASE LateDropped
  BY <1>42, Names, TeleportConstants
     DEF LateDropped, NoCall, NoFault, Shape, SessType, SessState, RowType, DrvType,
         LateType, Phase, Pc, Call, VmState
<1>43. ASSUME NEW v \in Dst, Fetch(v) PROVE Shape'
  BY <1>43, Names, TeleportConstants
     DEF Fetch, Exported, HostOnly, NoFault, Shape, SessType, SessState, RowType,
         DrvType, LateType, Phase, Pc, Call, VmState
<1>44. ASSUME NEW v \in Dst, Load(v) PROVE Shape'
  BY <1>44, Names, TeleportConstants
     DEF Load, Exported, HostOnly, NoFault, Shape, SessType, SessState, RowType,
         DrvType, LateType, Phase, Pc, Call, VmState
<1>45. ASSUME NEW v \in Dst, GateTimesOut(v) PROVE Shape'
  BY <1>45, Names, TeleportConstants
     DEF GateTimesOut, Exported, Fault, NoFault, HostOnly, Shape, SessType, SessState,
         RowType, DrvType, LateType, Phase, Pc, Call, VmState
<1>46. ASSUME NEW v \in Dst, ForgetRestore(v) PROVE Shape'
  BY <1>46, Names, TeleportConstants
     DEF ForgetRestore, HostOnly, NoFault, Shape, SessType, SessState, RowType,
         DrvType, LateType, Phase, Pc, Call, VmState
<1>47. ASSUME NEW v \in Dst, Drain(v) PROVE Shape'
  BY <1>47, Names, TeleportConstants
     DEF Drain, HostOnly, NoFault, Shape, SessType, SessState, RowType, DrvType,
         LateType, Phase, Pc, Call, VmState
<1>48. ASSUME NEW v \in Dst, LoadFails(v) PROVE Shape'
  BY <1>48, Names, TeleportConstants
     DEF LoadFails, Fault, HostOnly, Shape, SessType, SessState, RowType, DrvType,
         LateType, Phase, Pc, Call, VmState
<1>49. ASSUME NEW v \in VM, Reap(v) PROVE Shape'
  BY <1>49, Names, TeleportConstants
     DEF Reap, Owned, HostOnly, NoFault, Open, Ended, Shape, SessType, SessState,
         RowType, DrvType, LateType, Phase, Pc, Call, VmState
<1>50. CASE TtlAbort
  BY <1>50, Names, TeleportConstants
     DEF TtlAbort, Exported, Unserved, Owned, HostAbort, Fault, HostOnly, Open, Ended,
         Shape, SessType, SessState, RowType, DrvType, LateType, Phase, Pc, Call,
         VmState
<1>51. CASE SourceRestarts
  <2>1. faults' \in 0 .. MaxFaults /\ lost' \in BOOLEAN
    BY <1>51, FaultTypes DEF SourceRestarts, Shape
  <2> QED
    BY <1>51, <2>1, CallsEndWrites DEF SourceRestarts, Shape
<1>52. CASE DestRestarts
  <2>1. faults' \in 0 .. MaxFaults /\ lost' \in BOOLEAN
    BY <1>52, FaultTypes DEF DestRestarts, Shape
  <2>2. vm' \in [VM -> VmState]
    BY <1>52 DEF DestRestarts, Shape, VmState
  <2> QED
    BY <1>52, <2>1, <2>2, CallsEndWrites DEF DestRestarts, Shape
<1>53. ASSUME NEW h \in {"src", "dst"}, HostDies(h) PROVE Shape'
  BY <1>53, Names, TeleportConstants
     DEF HostDies, Open, Fault, Ended, Shape, SessType, SessState, RowType, DrvType,
         LateType, Phase, Pc, Call, VmState
<1>54. CASE SettleHostLost
  BY <1>54, Names, TeleportConstants
     DEF SettleHostLost, RecoveryTarget, NoFault, Shape, SessType, SessState, RowType,
         DrvType, LateType, Phase, Pc, Call, VmState
<1>55. CASE FlipMissing
  BY <1>55, Names, TeleportConstants
     DEF FlipMissing, NoFault, Shape, SessType, SessState, RowType, DrvType, LateType,
         Phase, Pc, Call, VmState
<1>56. CASE Resume
  BY <1>56, Names, TeleportConstants
     DEF Resume, NoFault, Shape, SessType, SessState, RowType, DrvType, LateType,
         Phase, Pc, Call, VmState
<1>57. CASE AttachWaits
  <2>1. drv' \in DrvType
    BY <1>57, GotoWrites DEF AttachWaits, Shape, Pc
  <2>2. gate' \subseteq {"src", "dst"}
    BY <1>57, SeenType DEF AttachWaits, Shape
  <2>3. faults' \in 0 .. MaxFaults /\ lost' \in BOOLEAN
    BY <1>57, FaultTypes DEF AttachWaits, Shape
  <2> QED
    BY <1>57, <2>1, <2>2, <2>3 DEF AttachWaits, Shape
<1>58. CASE JoinLost
  <2>1. drv' \in DrvType /\ row' \in RowType
    BY <1>58, AdvanceWrites DEF JoinLost, RollbackBegin, Shape, Phase
  <2>2. vm' \in [VM -> VmState]
    BY <1>58, Names DEF JoinLost, Shape, VmState
  <2>3. gate' \subseteq {"src", "dst"}
    BY <1>58, SeenType DEF JoinLost, Shape
  <2>4. faults' \in 0 .. MaxFaults /\ lost' \in BOOLEAN
    BY <1>58, FaultTypes DEF JoinLost, Shape
  <2> QED
    BY <1>58, <2>1, <2>2, <2>3, <2>4 DEF JoinLost, Shape
<1>59. CASE LateEnter
  BY <1>59, LateEnterWrites DEF Shape
<1> QED
  BY <1>1, <1>2, <1>3, <1>4, <1>5, <1>6, <1>7, <1>8, <1>9, <1>10, <1>11, <1>12, <1>13,
     <1>14, <1>15, <1>16, <1>17, <1>18, <1>19, <1>20, <1>21, <1>22, <1>23, <1>24, <1>25,
     <1>26, <1>27, <1>28, <1>29, <1>30, <1>31, <1>32, <1>33, <1>34, <1>35, <1>36, <1>37,
     <1>38, <1>39, <1>40, <1>41, <1>42, <1>43, <1>44, <1>45, <1>46, <1>47, <1>48, <1>49,
     <1>50, <1>51, <1>52, <1>53, <1>54, <1>55, <1>56, <1>57, <1>58, <1>59
     DEF Next, Step, DestStep

(* Only the step of a phase writes the row.                                   *)
LEMMA PcPhaseStep == Shape /\ PcPhase /\ Next => PcPhase'
<1> SUFFICES ASSUME Shape, PcPhase, Next PROVE PcPhase'
  OBVIOUS
<1>1. CASE Claim
  BY <1>1, Names DEF Claim, Ended, PcPhase
<1>2. CASE Admit
  BY <1>2, Names DEF Admit, PcPhase, Ended
<1>3. CASE SettleRested
  BY <1>3, Names, GotoWrites DEF SettleRested, Open, Ended, PcPhase, Shape, Pc
<1>4. CASE Presetup
  BY <1>4, Names DEF Presetup, At, CanPresetup, HostPresetup, PcPhase, Ended
<1>5. CASE Downgrade
  BY <1>5, Names DEF Downgrade, At, CanPresetup, PcPhase, Ended
<1>6. CASE PresetupFails
  BY <1>6, Names, AdvanceWrites
     DEF PresetupFails, At, CanPresetup, HostPresetup, RollbackBegin, PcPhase, Ended,
         Shape, Pc, Phase
<1>7. CASE SpawnRestore
  <2>1. CASE \E v \in Dst : drv' = [drv EXCEPT !.pc = "spawned", !.v = v] /\ UNCHANGED row
    <3>1. PICK v \in Dst : drv' = [drv EXCEPT !.pc = "spawned", !.v = v] /\ UNCHANGED row
      BY <2>1
    <3>2. drv.pc = "top" /\ row.ph = "Admitted" /\ row.kind = "live" /\ row.exp
      BY <1>7 DEF SpawnRestore, At
    <3> QED
      BY <3>1, <3>2, Names DEF PcPhase, Ended, Shape, DrvType
  <2>2. CASE Goto("idle") /\ UNCHANGED row
    BY <2>2, GotoWrites DEF PcPhase, Ended, Shape, Pc
  <2>3. CASE RollbackBegin
    BY <1>7, <2>3, AdvanceWrites
       DEF SpawnRestore, At, RollbackBegin, PcPhase, Ended, Shape, Phase
  <2> QED
    BY <1>7, <2>1, <2>2, <2>3 DEF SpawnRestore
<1>8. CASE Capture
  BY <1>8, Names DEF Capture, CanCapture, HostCapture, PcPhase, Ended
<1>9. CASE CaptureFails
  BY <1>9, Names, GotoWrites, AdvanceWrites
     DEF CaptureFails, CanCapture, RollbackBegin, PcPhase, Ended, Shape, Pc, Phase
<1>10. CASE RecordCapture
  BY <1>10, Names DEF RecordCapture, PcPhase, Ended
<1>11. CASE Hold
  BY <1>11, Names, GotoWrites DEF Hold, At, CanHold, HostHold, PcPhase, Ended, Shape, Pc
<1>12. CASE HoldFails
  BY <1>12, Names, GotoWrites, AdvanceWrites
     DEF HoldFails, At, RollbackBegin, CanHold, HostHold, PcPhase, Ended, Shape, Pc,
         Phase
<1>13. CASE RecordHold
  BY <1>13, Names, GotoWrites, AdvanceWrites
     DEF RecordHold, PcPhase, Ended, Shape, Pc, Phase
<1>14. CASE RestoreLive
  <2>1. CASE \E v \in Dst : drv' = [drv EXCEPT !.pc = "joining", !.v = v]
    <3>1. PICK v \in Dst : drv' = [drv EXCEPT !.pc = "joining", !.v = v]
      BY <2>1
    <3>2. /\ drv.pc = "top" /\ row.ph = "Captured" /\ row.kind = "live"
          /\ UNCHANGED row
      BY <1>14 DEF RestoreLive, At
    <3> QED
      BY <3>1, <3>2, Names DEF PcPhase, Ended, Shape, DrvType
  <2>2. CASE Goto("idle")
    BY <1>14, <2>2, GotoWrites DEF RestoreLive, PcPhase, Ended, Shape, Pc
  <2> QED
    BY <1>14, <2>1, <2>2 DEF RestoreLive
<1>15. CASE RestoreSnapshot
  BY <1>15, Names DEF RestoreSnapshot, At, HostRestore, PcPhase, Ended
<1>16. CASE RestoreFails
  BY <1>16, Names, GotoWrites, AdvanceWrites
     DEF RestoreFails, At, RollbackBegin, HostRestore, PcPhase, Ended, Shape, Pc,
         Phase
<1>17. CASE JoinOk
  BY <1>17, Names DEF JoinOk, Executes, PcPhase, Ended
<1>18. CASE JoinNever
  BY <1>18, Names, GotoWrites DEF JoinNever, Exported, PcPhase, Ended, Shape, Pc
<1>19. CASE JoinFails
  BY <1>19, Names, GotoWrites DEF JoinFails, Unserved, PcPhase, Ended, Shape, Pc
<1>20. CASE RecordAbort
  BY <1>20, Names, GotoWrites, AdvanceWrites
     DEF RecordAbort, RollbackBegin, PcPhase, Ended, Shape, Pc, Phase
<1>21. CASE RecordRestore
  BY <1>21, Names, GotoWrites DEF RecordRestore, Named, PcPhase, Ended, Shape, Pc
<1>22. CASE Commit
  BY <1>22, Names, GotoWrites, AdvanceWrites
     DEF Commit, At, RollbackBegin, PcPhase, Ended, Shape, Pc, Phase
<1>23. CASE DestinationGone
  BY <1>23, Names, GotoWrites DEF DestinationGone, At, PcPhase, Ended, Shape, Pc
<1>24. CASE Attach
  BY <1>24, Names, GotoWrites DEF Attach, At, PcPhase, Ended, Shape, Pc
<1>25. CASE RecordAttach
  BY <1>25, Names, GotoWrites, AdvanceWrites
     DEF RecordAttach, At, PcPhase, Ended, Shape, Pc, Phase
<1>26. CASE DrainRetry
  BY <1>26, Names, GotoWrites DEF DrainRetry, At, PcPhase, Ended, Shape, Pc
<1>27. CASE PeerLost
  BY <1>27, Names, GotoWrites DEF PeerLost, At, PcPhase, Ended, Shape, Pc
<1>28. CASE Release
  BY <1>28, Names, GotoWrites
     DEF Release, At, Drained, HostRelease, PcPhase, Ended, Shape, Pc
<1>29. CASE RecordRelease
  BY <1>29, Names, GotoWrites DEF RecordRelease, PcPhase, Ended, Shape, Pc
<1>30. CASE FailDestroy
  BY <1>30, Names, GotoWrites
     DEF FailDestroy, DestroyDestination, PcPhase, Ended, Shape, Pc
<1>31. CASE FailDetach
  BY <1>31, Names, GotoWrites DEF FailDetach, PcPhase, Ended, Shape, Pc
<1>32. CASE FailSettle
  BY <1>32, Names, SettleWrites DEF FailSettle, PcPhase, Ended, Shape, Pc
<1>33. CASE RollbackDestroy
  BY <1>33, Names, GotoWrites
     DEF RollbackDestroy, At, DestroyDestination, PcPhase, Ended, Shape, Pc
<1>34. CASE RollbackWake
  BY <1>34, Names, GotoWrites
     DEF RollbackWake, SourceGone, HostWake, Exported, HostAbort, HostResume, PcPhase,
         Ended, Shape, Pc
<1>35. CASE RollbackLost
  BY <1>35, Names, SettleWrites DEF RollbackLost, SourceGone, PcPhase, Ended, Shape, Pc
<1>36. CASE RollbackActivate
  BY <1>36, Names, GotoWrites DEF RollbackActivate, PcPhase, Ended, Shape, Pc
<1>37. CASE RollbackEnd
  BY <1>37, Names, GotoWrites DEF RollbackEnd, PcPhase, Ended, Shape, Pc
<1>38. CASE Crash
  BY <1>38, Names, GotoWrites DEF Crash, PcPhase, Ended, Shape, Pc
<1>39. CASE Overtake
  BY <1>39, Names DEF Overtake, CallOf, At, Drained, PcPhase, Ended
<1>40. CASE LateSource
  BY <1>40, LateSourceWrites, Names
     DEF PcPhase, Ended, SourceCall, Shape
<1>41. CASE LateDest
  BY <1>41, Names DEF LateDest, HostRestore, PcPhase, Ended
<1>42. CASE LateDropped
  BY <1>42, Names DEF LateDropped, PcPhase, Ended
<1>43. ASSUME NEW v \in Dst, Fetch(v) PROVE PcPhase'
  BY <1>43, Names DEF Fetch, Exported, HostOnly, PcPhase, Ended
<1>44. ASSUME NEW v \in Dst, Load(v) PROVE PcPhase'
  BY <1>44, Names DEF Load, Exported, HostOnly, PcPhase, Ended
<1>45. ASSUME NEW v \in Dst, GateTimesOut(v) PROVE PcPhase'
  BY <1>45, Names DEF GateTimesOut, Exported, HostOnly, PcPhase, Ended
<1>46. ASSUME NEW v \in Dst, ForgetRestore(v) PROVE PcPhase'
  BY <1>46, Names DEF ForgetRestore, HostOnly, PcPhase, Ended
<1>47. ASSUME NEW v \in Dst, Drain(v) PROVE PcPhase'
  BY <1>47, Names DEF Drain, HostOnly, PcPhase, Ended
<1>48. ASSUME NEW v \in Dst, LoadFails(v) PROVE PcPhase'
  BY <1>48, Names DEF LoadFails, HostOnly, PcPhase, Ended
<1>49. ASSUME NEW v \in VM, Reap(v) PROVE PcPhase'
  BY <1>49, Names DEF Reap, Owned, HostOnly, Open, Ended, PcPhase
<1>50. CASE TtlAbort
  BY <1>50, Names
     DEF TtlAbort, Exported, Unserved, Owned, HostAbort, HostOnly, Open, Ended,
         PcPhase
<1>51. CASE SourceRestarts
  BY <1>51, CallsEndWrites, Names DEF SourceRestarts, PcPhase, Ended
<1>52. CASE DestRestarts
  BY <1>52, CallsEndWrites, Names
     DEF DestRestarts, PcPhase, Ended
<1>53. ASSUME NEW h \in {"src", "dst"}, HostDies(h) PROVE PcPhase'
  BY <1>53, Names DEF HostDies, Open, Ended, PcPhase
<1>54. CASE SettleHostLost
  BY <1>54, Names DEF SettleHostLost, PcPhase, Ended
<1>55. CASE FlipMissing
  BY <1>55, Names DEF FlipMissing, PcPhase, Ended
<1>56. CASE Resume
  BY <1>56, Names DEF Resume, PcPhase, Ended
<1>57. CASE AttachWaits
  BY <1>57, Names, GotoWrites DEF AttachWaits, At, PcPhase, Ended, Shape, Pc
<1>58. CASE JoinLost
  BY <1>58, Names, AdvanceWrites
     DEF JoinLost, RollbackBegin, PcPhase, Ended, Shape, Pc, Phase
<1>59. CASE LateEnter
  BY <1>59, LateEnterWrites, Names DEF PcPhase, Ended
<1> QED
  BY <1>1, <1>2, <1>3, <1>4, <1>5, <1>6, <1>7, <1>8, <1>9, <1>10, <1>11, <1>12, <1>13,
     <1>14, <1>15, <1>16, <1>17, <1>18, <1>19, <1>20, <1>21, <1>22, <1>23, <1>24, <1>25,
     <1>26, <1>27, <1>28, <1>29, <1>30, <1>31, <1>32, <1>33, <1>34, <1>35, <1>36, <1>37,
     <1>38, <1>39, <1>40, <1>41, <1>42, <1>43, <1>44, <1>45, <1>46, <1>47, <1>48, <1>49,
     <1>50, <1>51, <1>52, <1>53, <1>54, <1>55, <1>56, <1>57, <1>58, <1>59
     DEF Next, Step, DestStep

(* The commit binds the session to the destination, every end unbinds or keeps it. *)
LEMMA SessPhaseStep == Shape /\ PcPhase /\ SessPhase /\ Next => SessPhase'
<1> SUFFICES ASSUME Shape, PcPhase, SessPhase, Next PROVE SessPhase'
  OBVIOUS
<1>1. CASE Claim
  BY <1>1, Names DEF Claim, Ended, SessPhase
<1>2. CASE Admit
  BY <1>2, Names DEF Admit, SessPhase
<1>3. CASE SettleRested
  BY <1>3, Names, GotoWrites
     DEF SettleRested, Open, Rests, Quiet, NoFault, Ended, SessPhase, PcPhase, Shape,
         Pc, DrvType, RowType, SessType, LateType
<1>4. CASE Presetup
  BY <1>4, Names DEF Presetup, At, CanPresetup, HostPresetup, SessPhase
<1>5. CASE Downgrade
  BY <1>5, Names DEF Downgrade, At, CanPresetup, SessPhase
<1>6. CASE PresetupFails
  BY <1>6, Names, AdvanceWrites
     DEF PresetupFails, At, CanPresetup, HostPresetup, RollbackBegin, SessPhase,
         Shape, Pc, Phase
<1>7. CASE SpawnRestore
  BY <1>7, Names, GotoWrites, AdvanceWrites
     DEF SpawnRestore, At, HostRestore, RollbackBegin, SessPhase, Shape, Pc, Phase
<1>8. CASE Capture
  BY <1>8, Names DEF Capture, CanCapture, HostCapture, SessPhase
<1>9. CASE CaptureFails
  BY <1>9, Names, GotoWrites, AdvanceWrites
     DEF CaptureFails, CanCapture, RollbackBegin, SessPhase, PcPhase, Shape, Pc, Phase
<1>10. CASE RecordCapture
  BY <1>10, Names DEF RecordCapture, SessPhase, PcPhase, Shape
<1>11. CASE Hold
  BY <1>11, Names, GotoWrites DEF Hold, At, CanHold, HostHold, SessPhase
<1>12. CASE HoldFails
  BY <1>12, Names, GotoWrites, AdvanceWrites
     DEF HoldFails, At, RollbackBegin, CanHold, HostHold, SessPhase, Shape, Pc, Phase
<1>13. CASE RecordHold
  BY <1>13, Names, GotoWrites, AdvanceWrites
     DEF RecordHold, SessPhase, PcPhase, Shape, Pc, Phase
<1>14. CASE RestoreLive
  BY <1>14, Names, GotoWrites DEF RestoreLive, At, HostRestore, SessPhase
<1>15. CASE RestoreSnapshot
  BY <1>15, Names DEF RestoreSnapshot, At, HostRestore, SessPhase
<1>16. CASE RestoreFails
  BY <1>16, Names, GotoWrites, AdvanceWrites
     DEF RestoreFails, At, RollbackBegin, HostRestore, SessPhase, Shape, Pc, Phase
<1>17. CASE JoinOk
  BY <1>17, Names DEF JoinOk, Executes, SessPhase
<1>18. CASE JoinNever
  BY <1>18, Names, GotoWrites DEF JoinNever, Exported, SessPhase
<1>19. CASE JoinFails
  BY <1>19, Names, GotoWrites DEF JoinFails, Unserved, SessPhase
<1>20. CASE RecordAbort
  BY <1>20, Names, GotoWrites, AdvanceWrites
     DEF RecordAbort, RollbackBegin, SessPhase, PcPhase, Shape, Pc, Phase
<1>21. CASE RecordRestore
  BY <1>21, Names, GotoWrites DEF RecordRestore, Named, SessPhase, PcPhase, Shape, Pc
<1>22. CASE Commit
  BY <1>22, Names, GotoWrites, AdvanceWrites
     DEF Commit, At, RollbackBegin, SessPhase, PcPhase, Shape, Pc, Phase, DrvType,
         RowType
<1>23. CASE DestinationGone
  BY <1>23, Names, GotoWrites DEF DestinationGone, At, SessPhase
<1>24. CASE Attach
  BY <1>24, Names, GotoWrites
     DEF Attach, At, Seen, NoFault, Rests, NoCall, SessPhase, PcPhase, Shape, Pc,
         DrvType, RowType, SessType, LateType
<1>25. CASE RecordAttach
  BY <1>25, Names, GotoWrites, AdvanceWrites
     DEF RecordAttach, At, SessPhase, Shape, Pc, Phase
<1>26. CASE DrainRetry
  BY <1>26, Names, GotoWrites DEF DrainRetry, At, SessPhase
<1>27. CASE PeerLost
  BY <1>27, Names, GotoWrites DEF PeerLost, At, SessPhase
<1>28. CASE Release
  BY <1>28, Names, GotoWrites DEF Release, At, Drained, HostRelease, SessPhase
<1>29. CASE RecordRelease
  BY <1>29, Names, GotoWrites DEF RecordRelease, SessPhase, PcPhase, Shape, Pc
<1>30. CASE FailDestroy
  BY <1>30, Names, GotoWrites DEF FailDestroy, DestroyDestination, SessPhase
<1>31. CASE FailDetach
  BY <1>31, Names, GotoWrites DEF FailDetach, SessPhase
<1>32. CASE FailSettle
  BY <1>32, Names, SettleWrites DEF FailSettle, SessPhase, Shape, Pc
<1>33. CASE RollbackDestroy
  BY <1>33, Names, GotoWrites DEF RollbackDestroy, At, DestroyDestination, SessPhase
<1>34. CASE RollbackWake
  BY <1>34, Names, GotoWrites
     DEF RollbackWake, SourceGone, HostWake, Exported, HostAbort, HostResume,
         SessPhase
<1>35. CASE RollbackLost
  BY <1>35, Names, SettleWrites DEF RollbackLost, SourceGone, SessPhase, Shape, Pc
<1>36. CASE RollbackActivate
  BY <1>36, Names, GotoWrites DEF RollbackActivate, SessPhase
<1>37. CASE RollbackEnd
  BY <1>37, Names, GotoWrites DEF RollbackEnd, SessPhase, PcPhase, Shape, Pc
<1>38. CASE Crash
  BY <1>38, Names, GotoWrites DEF Crash, SessPhase
<1>39. CASE Overtake
  BY <1>39, Names DEF Overtake, CallOf, At, Drained, SessPhase
<1>40. CASE LateSource
  BY <1>40, LateSourceWrites, Names
     DEF SessPhase, SourceCall, Shape
<1>41. CASE LateDest
  BY <1>41, Names DEF LateDest, HostRestore, SessPhase
<1>42. CASE LateDropped
  BY <1>42, Names DEF LateDropped, SessPhase
<1>43. ASSUME NEW v \in Dst, Fetch(v) PROVE SessPhase'
  BY <1>43, Names DEF Fetch, Exported, HostOnly, SessPhase
<1>44. ASSUME NEW v \in Dst, Load(v) PROVE SessPhase'
  BY <1>44, Names DEF Load, Exported, HostOnly, SessPhase
<1>45. ASSUME NEW v \in Dst, GateTimesOut(v) PROVE SessPhase'
  BY <1>45, Names DEF GateTimesOut, Exported, HostOnly, SessPhase
<1>46. ASSUME NEW v \in Dst, ForgetRestore(v) PROVE SessPhase'
  BY <1>46, Names DEF ForgetRestore, HostOnly, SessPhase
<1>47. ASSUME NEW v \in Dst, Drain(v) PROVE SessPhase'
  BY <1>47, Names DEF Drain, HostOnly, SessPhase
<1>48. ASSUME NEW v \in Dst, LoadFails(v) PROVE SessPhase'
  BY <1>48, Names DEF LoadFails, HostOnly, SessPhase
<1>49. ASSUME NEW v \in VM, Reap(v) PROVE SessPhase'
  BY <1>49, Names DEF Reap, Owned, HostOnly, Open, Ended, SessPhase
<1>50. CASE TtlAbort
  BY <1>50, Names
     DEF TtlAbort, Exported, Unserved, Owned, HostAbort, HostOnly, Open, Ended,
         SessPhase
<1>51. CASE SourceRestarts
  BY <1>51, CallsEndWrites, Names DEF SourceRestarts, SessPhase
<1>52. CASE DestRestarts
  BY <1>52, CallsEndWrites, Names
     DEF DestRestarts, SessPhase
<1>53. ASSUME NEW h \in {"src", "dst"}, HostDies(h) PROVE SessPhase'
  BY <1>53, Names DEF HostDies, Open, Ended, SessPhase
<1>54. CASE SettleHostLost
  BY <1>54, Names
     DEF SettleHostLost, RecoveryTarget, NoFault, SessPhase, PcPhase, Shape, DrvType,
         RowType, SessType, LateType
<1>55. CASE FlipMissing
  BY <1>55, Names DEF FlipMissing, SessPhase
<1>56. CASE Resume
  BY <1>56, Names DEF Resume, SessPhase
<1>57. CASE AttachWaits
  BY <1>57, Names, GotoWrites DEF AttachWaits, At, SessPhase, Shape, Pc
<1>58. CASE JoinLost
  BY <1>58, Names, AdvanceWrites
     DEF JoinLost, RollbackBegin, SessPhase, PcPhase, Shape, Pc, Phase
<1>59. CASE LateEnter
  BY <1>59, LateEnterWrites, Names DEF SessPhase
<1> QED
  BY <1>1, <1>2, <1>3, <1>4, <1>5, <1>6, <1>7, <1>8, <1>9, <1>10, <1>11, <1>12, <1>13,
     <1>14, <1>15, <1>16, <1>17, <1>18, <1>19, <1>20, <1>21, <1>22, <1>23, <1>24, <1>25,
     <1>26, <1>27, <1>28, <1>29, <1>30, <1>31, <1>32, <1>33, <1>34, <1>35, <1>36, <1>37,
     <1>38, <1>39, <1>40, <1>41, <1>42, <1>43, <1>44, <1>45, <1>46, <1>47, <1>48, <1>49,
     <1>50, <1>51, <1>52, <1>53, <1>54, <1>55, <1>56, <1>57, <1>58, <1>59
     DEF Next, Step, DestStep

(* A destination is destroyed as it is tombstoned, and its name is never used again. *)
LEMMA TombStep == Shape /\ PcPhase /\ SessPhase /\ TombOK /\ Next => TombOK'
<1> SUFFICES ASSUME Shape, PcPhase, SessPhase, TombOK, Next PROVE TombOK'
  OBVIOUS
<1>1. CASE Claim
  BY <1>1, Names DEF Claim, Ended, TombOK
<1>2. CASE Admit
  BY <1>2, Names DEF Admit, TombOK
<1>3. CASE SettleRested
  BY <1>3, Names, GotoWrites DEF SettleRested, Open, Ended, TombOK
<1>4. CASE Presetup
  BY <1>4, Names DEF Presetup, At, CanPresetup, HostPresetup, TombOK
<1>5. CASE Downgrade
  BY <1>5, Names DEF Downgrade, At, CanPresetup, TombOK
<1>6. CASE PresetupFails
  BY <1>6, Names, AdvanceWrites
     DEF PresetupFails, At, CanPresetup, HostPresetup, RollbackBegin, TombOK, Shape, Pc,
         Phase
<1>7. CASE SpawnRestore
  <2>0. /\ drv.pc = "top" /\ row.ph = "Admitted" /\ row.kind = "live" /\ row.exp
        /\ UNCHANGED <<sess, late, mem, up, tomb, lost>>
    BY <1>7 DEF SpawnRestore, At, NoFault
  <2>1. ASSUME NEW v \in Dst, Fresh(v), vm' = [vm EXCEPT ![v] = "staged"],
               drv' = [drv EXCEPT !.pc = "spawned", !.v = v], Seen("dst"), UNCHANGED row
        PROVE  TombOK'
    BY <2>0, <2>1, Names, FreshIsUnused
       DEF Seen, TombOK, PcPhase, Ended, Shape, SessType, DrvType, RowType, LateType,
           Pc, Phase, SessState
  <2>2. CASE Goto("idle") /\ UNCHANGED <<row, vm, gate>>
    BY <2>0, <2>2, Names, FreshIsUnused, GotoWrites
       DEF TombOK, PcPhase, Ended, Shape, SessType, DrvType, RowType, LateType, Pc,
           Phase, SessState
  <2>3. CASE RollbackBegin /\ UNCHANGED <<vm, gate>>
    BY <2>0, <2>3, Names, FreshIsUnused, AdvanceWrites
       DEF RollbackBegin, TombOK, PcPhase, Ended, Shape, SessType, DrvType, RowType,
           LateType, Pc, Phase, SessState
  <2> QED
    BY <1>7, <2>1, <2>2, <2>3 DEF SpawnRestore, HostRestore, Quiet
<1>8. CASE Capture
  BY <1>8, Names DEF Capture, CanCapture, HostCapture, TombOK
<1>9. CASE CaptureFails
  BY <1>9, Names, GotoWrites, AdvanceWrites
     DEF CaptureFails, CanCapture, RollbackBegin, TombOK, PcPhase, Shape, Pc, Phase
<1>10. CASE RecordCapture
  BY <1>10, Names DEF RecordCapture, TombOK, PcPhase, Shape
<1>11. CASE Hold
  BY <1>11, Names, GotoWrites DEF Hold, At, CanHold, HostHold, TombOK
<1>12. CASE HoldFails
  BY <1>12, Names, GotoWrites, AdvanceWrites
     DEF HoldFails, At, RollbackBegin, CanHold, HostHold, TombOK, Shape, Pc, Phase
<1>13. CASE RecordHold
  BY <1>13, Names, GotoWrites, AdvanceWrites
     DEF RecordHold, TombOK, PcPhase, Shape, Pc, Phase
<1>14. CASE RestoreLive
  <2>0. /\ drv.pc = "top" /\ row.ph = "Captured" /\ row.kind = "live"
        /\ UNCHANGED <<sess, row, late, mem, up, tomb, lost>>
    BY <1>14 DEF RestoreLive, At, NoFault
  <2>1. ASSUME NEW v \in Dst, Fresh(v), vm' = [vm EXCEPT ![v] = "staged"],
               drv' = [drv EXCEPT !.pc = "joining", !.v = v], Seen("dst")
        PROVE  TombOK'
    BY <2>0, <2>1, Names, FreshIsUnused
       DEF Seen, TombOK, PcPhase, Ended, Shape, SessType, DrvType, RowType, LateType,
           Pc, Phase, SessState
  <2>2. CASE Goto("idle") /\ UNCHANGED <<vm, gate>>
    BY <2>0, <2>2, Names, FreshIsUnused, GotoWrites
       DEF TombOK, PcPhase, Ended, Shape, SessType, DrvType, RowType, LateType, Pc,
           Phase, SessState
  <2> QED
    BY <1>14, <2>1, <2>2 DEF RestoreLive, HostRestore, Quiet
<1>15. CASE RestoreSnapshot
  BY <1>15, Names, FreshIsUnused DEF RestoreSnapshot, At, HostRestore, TombOK
<1>16. CASE RestoreFails
  BY <1>16, Names, FreshIsUnused, GotoWrites, AdvanceWrites
     DEF RestoreFails, At, RollbackBegin, HostRestore, TombOK, Shape, Pc, Phase
<1>17. CASE JoinOk
  BY <1>17, Names DEF JoinOk, Executes, TombOK
<1>18. CASE JoinNever
  BY <1>18, Names, GotoWrites DEF JoinNever, Exported, TombOK, Shape, Pc
<1>19. CASE JoinFails
  BY <1>19, Names, GotoWrites DEF JoinFails, Unserved, TombOK, Shape, Pc
<1>20. CASE RecordAbort
  BY <1>20, Names, GotoWrites, AdvanceWrites
     DEF RecordAbort, RollbackBegin, TombOK, PcPhase, Shape, Pc, Phase
<1>21. CASE RecordRestore
  BY <1>21, Names, GotoWrites DEF RecordRestore, Named, TombOK, PcPhase, Shape, Pc
<1>22. CASE Commit
  BY <1>22, Names, GotoWrites, AdvanceWrites DEF Commit, At, RollbackBegin, TombOK
<1>23. CASE DestinationGone
  BY <1>23, Names, GotoWrites DEF DestinationGone, At, TombOK
<1>24. CASE Attach
  BY <1>24, Names, GotoWrites DEF Attach, At, TombOK
<1>25. CASE RecordAttach
  BY <1>25, Names, GotoWrites, AdvanceWrites DEF RecordAttach, At, TombOK
<1>26. CASE DrainRetry
  BY <1>26, Names, GotoWrites DEF DrainRetry, At, TombOK
<1>27. CASE PeerLost
  BY <1>27, Names, GotoWrites DEF PeerLost, At, TombOK
<1>28. CASE Release
  BY <1>28, Names, GotoWrites DEF Release, At, Drained, HostRelease, TombOK, Shape, Pc
<1>29. CASE RecordRelease
  BY <1>29, Names, GotoWrites DEF RecordRelease, TombOK
<1>30. CASE FailDestroy
  BY <1>30, Names, GotoWrites
     DEF FailDestroy, DestroyDestination, TombOK, Shape, Pc, DrvType, RowType
<1>31. CASE FailDetach
  BY <1>31, Names, GotoWrites DEF FailDetach, TombOK
<1>32. CASE FailSettle
  <2>1. /\ TeleportSettle(snap /\ row.ph # "Captured")
        /\ (snap /\ row.ph # "Captured") \in BOOLEAN
    BY <1>32 DEF FailSettle, Shape
  <2>2. UNCHANGED vm
    BY <1>32 DEF FailSettle
  <2> QED
    BY <2>1, <2>2, SettleWrites, Names DEF TombOK, Shape
<1>33. CASE RollbackDestroy
  BY <1>33, Names, GotoWrites
     DEF RollbackDestroy, At, DestroyDestination, TombOK, Shape, Pc, DrvType, RowType
<1>34. CASE RollbackWake
  BY <1>34, Names, GotoWrites
     DEF RollbackWake, SourceGone, HostWake, Exported, HostAbort, HostResume, TombOK,
         Shape, Pc
<1>35. CASE RollbackLost
  BY <1>35, Names, SettleWrites DEF RollbackLost, SourceGone, TombOK, Shape, Pc
<1>36. CASE RollbackActivate
  BY <1>36, Names, GotoWrites DEF RollbackActivate, TombOK
<1>37. CASE RollbackEnd
  BY <1>37, Names, GotoWrites DEF RollbackEnd, TombOK, PcPhase, Shape, Pc
<1>38. CASE Crash
  BY <1>38, Names, GotoWrites DEF Crash, TombOK
<1>39. CASE Overtake
  BY <1>39, Names DEF Overtake, CallOf, At, Drained, TombOK
<1>40. CASE LateSource
  BY <1>40, LateSourceWrites, Names
     DEF TombOK, SourceCall, Shape
<1>41. CASE LateDest
  BY <1>41, Names, FreshIsUnused
     DEF LateDest, Refuses, HostRestore, NoCall, NoFault, TombOK, PcPhase, Shape,
         DrvType, RowType, SessType, LateType
<1>42. CASE LateDropped
  BY <1>42, Names DEF LateDropped, TombOK
<1>43. ASSUME NEW v \in Dst, Fetch(v) PROVE TombOK'
  BY <1>43, Names DEF Fetch, Exported, HostOnly, TombOK
<1>44. ASSUME NEW v \in Dst, Load(v) PROVE TombOK'
  BY <1>44, Names DEF Load, Exported, HostOnly, TombOK
<1>45. ASSUME NEW v \in Dst, GateTimesOut(v) PROVE TombOK'
  BY <1>45, Names DEF GateTimesOut, Exported, HostOnly, TombOK
<1>46. ASSUME NEW v \in Dst, ForgetRestore(v) PROVE TombOK'
  BY <1>46, Names DEF ForgetRestore, HostOnly, TombOK
<1>47. ASSUME NEW v \in Dst, Drain(v) PROVE TombOK'
  BY <1>47, Names DEF Drain, HostOnly, TombOK
<1>48. ASSUME NEW v \in Dst, LoadFails(v) PROVE TombOK'
  BY <1>48, Names DEF LoadFails, HostOnly, TombOK
<1>49. ASSUME NEW v \in VM, Reap(v) PROVE TombOK'
  BY <1>49, Names DEF Reap, Owned, HostOnly, Open, Ended, TombOK
<1>50. CASE TtlAbort
  BY <1>50, Names
     DEF TtlAbort, Exported, Unserved, Owned, HostAbort, HostOnly, Open, Ended, TombOK
<1>51. CASE SourceRestarts
  BY <1>51, CallsEndWrites, Names DEF SourceRestarts, TombOK
<1>52. CASE DestRestarts
  BY <1>52, CallsEndWrites, Names
     DEF DestRestarts, TombOK
<1>53. ASSUME NEW h \in {"src", "dst"}, HostDies(h) PROVE TombOK'
  BY <1>53, Names DEF HostDies, Open, Ended, TombOK
<1>54. CASE SettleHostLost
  BY <1>54, Names DEF SettleHostLost, TombOK
<1>55. CASE FlipMissing
  BY <1>55, Names DEF FlipMissing, TombOK
<1>56. CASE Resume
  BY <1>56, Names DEF Resume, TombOK
<1>57. CASE AttachWaits
  BY <1>57, Names, GotoWrites DEF AttachWaits, At, TombOK, Shape, Pc
<1>58. CASE JoinLost
  BY <1>58, Names, AdvanceWrites
     DEF JoinLost, RollbackBegin, TombOK, PcPhase, Shape, Pc, Phase
<1>59. CASE LateEnter
  BY <1>59, LateEnterWrites, Names DEF TombOK
<1> QED
  BY <1>1, <1>2, <1>3, <1>4, <1>5, <1>6, <1>7, <1>8, <1>9, <1>10, <1>11, <1>12, <1>13,
     <1>14, <1>15, <1>16, <1>17, <1>18, <1>19, <1>20, <1>21, <1>22, <1>23, <1>24, <1>25,
     <1>26, <1>27, <1>28, <1>29, <1>30, <1>31, <1>32, <1>33, <1>34, <1>35, <1>36, <1>37,
     <1>38, <1>39, <1>40, <1>41, <1>42, <1>43, <1>44, <1>45, <1>46, <1>47, <1>48, <1>49,
     <1>50, <1>51, <1>52, <1>53, <1>54, <1>55, <1>56, <1>57, <1>58, <1>59
     DEF Next, Step, DestStep

(* A rollback that woke the source has the source refuse what came before.    *)
LEMMA LateStep == Shape /\ PcPhase /\ LateOK /\ Next => LateOK'
<1> SUFFICES ASSUME Shape, PcPhase, LateOK, Next PROVE LateOK'
  OBVIOUS
<1>1. CASE Claim
  BY <1>1, Names DEF Claim, Ended, Quiet, LateOK, NoCall
<1>2. CASE Admit
  BY <1>2, Names DEF Admit, Quiet, LateOK, NoCall
<1>3. CASE SettleRested
  BY <1>3, Names, GotoWrites
     DEF SettleRested, Open, Quiet, Ended, LateOK, NoCall, Shape, Pc
<1>4. CASE Presetup
  BY <1>4, Names DEF Presetup, At, CanPresetup, HostPresetup, Seen, NoCall, LateOK
<1>5. CASE Downgrade
  BY <1>5, Names DEF Downgrade, At, CanPresetup, Seen, NoCall, LateOK
<1>6. CASE PresetupFails
  BY <1>6, Names, AdvanceWrites
     DEF PresetupFails, At, CanPresetup, HostPresetup, RollbackBegin, Seen, LateOK,
         NoCall, Shape, Pc, Phase
<1>7. CASE SpawnRestore
  <2>0. /\ drv.pc = "top" /\ row.ph = "Admitted" /\ row.kind = "live" /\ row.exp
        /\ UNCHANGED <<sess, late, mem, up, tomb, lost>>
    BY <1>7 DEF SpawnRestore, At, NoFault
  <2>1. ASSUME NEW v \in Dst, Fresh(v), vm' = [vm EXCEPT ![v] = "staged"],
               drv' = [drv EXCEPT !.pc = "spawned", !.v = v], Seen("dst"), UNCHANGED row
        PROVE  LateOK'
    BY <2>0, <2>1, Names DEF Seen, LateOK, NoCall, Shape, DrvType, RowType, Pc, Phase
  <2>2. CASE Goto("idle") /\ UNCHANGED <<row, vm, gate>>
    BY <2>0, <2>2, Names, GotoWrites
       DEF LateOK, NoCall, Shape, DrvType, RowType, Pc, Phase
  <2>3. CASE RollbackBegin /\ UNCHANGED <<vm, gate>>
    BY <2>0, <2>3, Names, AdvanceWrites
       DEF RollbackBegin, LateOK, NoCall, Shape, DrvType, RowType, Pc, Phase
  <2> QED
    BY <1>7, <2>1, <2>2, <2>3 DEF SpawnRestore, HostRestore, Quiet
<1>8. CASE Capture
  BY <1>8, Names DEF Capture, CanCapture, HostCapture, Seen, NoCall, LateOK
<1>9. CASE CaptureFails
  BY <1>9, Names, GotoWrites, AdvanceWrites
     DEF CaptureFails, CanCapture, RollbackBegin, Seen, NoCall, LateOK, PcPhase,
         Shape, Pc, Phase
<1>10. CASE RecordCapture
  BY <1>10, Names DEF RecordCapture, Quiet, LateOK, NoCall, PcPhase, Shape
<1>11. CASE Hold
  BY <1>11, Names, GotoWrites DEF Hold, At, CanHold, HostHold, Seen, NoCall, LateOK
<1>12. CASE HoldFails
  BY <1>12, Names, GotoWrites, AdvanceWrites
     DEF HoldFails, At, RollbackBegin, CanHold, HostHold, Seen, NoCall, LateOK, Shape,
         Pc, Phase
<1>13. CASE RecordHold
  BY <1>13, Names, GotoWrites, AdvanceWrites
     DEF RecordHold, Quiet, LateOK, NoCall, PcPhase, Shape, Pc, Phase
<1>14. CASE RestoreLive
  BY <1>14, Names, GotoWrites
     DEF RestoreLive, At, HostRestore, Seen, Quiet, NoCall, LateOK, Shape, Pc,
         DrvType, RowType
<1>15. CASE RestoreSnapshot
  BY <1>15, Names DEF RestoreSnapshot, At, HostRestore, Seen, NoCall, LateOK
<1>16. CASE RestoreFails
  BY <1>16, Names, GotoWrites, AdvanceWrites
     DEF RestoreFails, At, RollbackBegin, Quiet, Seen, HostRestore, NoCall, LateOK,
         Shape, Pc, Phase
<1>17. CASE JoinOk
  BY <1>17, Names DEF JoinOk, Executes, Quiet, LateOK, NoCall
<1>18. CASE JoinNever
  BY <1>18, Names, GotoWrites DEF JoinNever, Exported, Seen, NoCall, LateOK
<1>19. CASE JoinFails
  BY <1>19, Names, GotoWrites DEF JoinFails, Unserved, Seen, NoCall, LateOK
<1>20. CASE RecordAbort
  BY <1>20, Names, GotoWrites, AdvanceWrites
     DEF RecordAbort, RollbackBegin, Quiet, LateOK, NoCall, PcPhase, Shape, Pc, Phase
<1>21. CASE RecordRestore
  BY <1>21, Names, GotoWrites
     DEF RecordRestore, Named, Quiet, LateOK, NoCall, PcPhase, Shape, Pc
<1>22. CASE Commit
  BY <1>22, Names, GotoWrites, AdvanceWrites
     DEF Commit, At, RollbackBegin, Quiet, LateOK, NoCall, Shape, Pc, Phase
<1>23. CASE DestinationGone
  BY <1>23, Names, GotoWrites DEF DestinationGone, At, Quiet, LateOK, NoCall, Shape, Pc
<1>24. CASE Attach
  BY <1>24, Names, GotoWrites DEF Attach, At, Seen, NoCall, LateOK, Shape, Pc
<1>25. CASE RecordAttach
  BY <1>25, Names, GotoWrites, AdvanceWrites
     DEF RecordAttach, At, Quiet, LateOK, NoCall, Shape, Pc, Phase
<1>26. CASE DrainRetry
  BY <1>26, Names, GotoWrites DEF DrainRetry, At, Quiet, LateOK, NoCall, Shape, Pc
<1>27. CASE PeerLost
  BY <1>27, Names, GotoWrites DEF PeerLost, At, Quiet, LateOK, NoCall, Shape, Pc
<1>28. CASE Release
  BY <1>28, Names, GotoWrites
     DEF Release, At, Drained, HostRelease, Seen, Quiet, NoCall, LateOK, Shape, Pc
<1>29. CASE RecordRelease
  BY <1>29, Names, GotoWrites
     DEF RecordRelease, Quiet, LateOK, NoCall, PcPhase, Shape, Pc
<1>30. CASE FailDestroy
  BY <1>30, Names, GotoWrites
     DEF FailDestroy, DestroyDestination, Quiet, Seen, NoCall, LateOK, Shape, Pc
<1>31. CASE FailDetach
  BY <1>31, Names, GotoWrites DEF FailDetach, Quiet, LateOK, NoCall, Shape, Pc
<1>32. CASE FailSettle
  BY <1>32, Names, SettleWrites DEF FailSettle, Quiet, LateOK, NoCall, Shape, Pc
<1>33. CASE RollbackDestroy
  BY <1>33, Names, GotoWrites
     DEF RollbackDestroy, At, DestroyDestination, Quiet, Seen, NoCall, LateOK, Shape,
         Pc
<1>34. CASE RollbackWake
  BY <1>34, Names, GotoWrites
     DEF RollbackWake, SourceGone, HostWake, Seen, Exported, HostAbort, HostResume,
         NoCall, LateOK
<1>35. CASE RollbackLost
  BY <1>35, Names, SettleWrites
     DEF RollbackLost, SourceGone, Quiet, LateOK, NoCall, Shape, Pc
<1>36. CASE RollbackActivate
  BY <1>36, Names, GotoWrites DEF RollbackActivate, Quiet, LateOK, NoCall
<1>37. CASE RollbackEnd
  BY <1>37, Names, GotoWrites DEF RollbackEnd, Quiet, LateOK, NoCall, PcPhase, Shape, Pc
<1>38. CASE Crash
  BY <1>38, Names, GotoWrites DEF Crash, LateOK, NoCall, Shape, Pc
<1>39. CASE Overtake
  <2>1. /\ late'.op = CallOf /\ drv'.pc = "top" /\ late' # NoCall /\ row' = row
        /\ late'.op # "none"
    BY <1>39 DEF Overtake, NoCall, Shape, DrvType
  <2>2. CallOf = "unwind" => row.ph = "RollingBack"
    BY DEF CallOf, At
  <2>3. CallOf = "release" => row.ph = "Attached"
    BY DEF CallOf, At
  <2>4. row.ph \notin {"none", "Aborted"}
    BY <1>39 DEF Overtake, CallOf, At, PcPhase, Ended
  <2> QED
    BY <2>1, <2>2, <2>3, <2>4 DEF LateOK
<1>40. CASE LateSource
  BY <1>40, LateSourceWrites, Names
     DEF LateOK, NoCall, Shape
<1>41. CASE LateDest
  BY <1>41, Names DEF LateDest, HostRestore, NoCall, LateOK
<1>42. CASE LateDropped
  BY <1>42, Names DEF LateDropped, NoCall, LateOK
<1>43. ASSUME NEW v \in Dst, Fetch(v) PROVE LateOK'
  BY <1>43, Names DEF Fetch, Exported, HostOnly, LateOK, NoCall
<1>44. ASSUME NEW v \in Dst, Load(v) PROVE LateOK'
  BY <1>44, Names DEF Load, Exported, HostOnly, LateOK, NoCall
<1>45. ASSUME NEW v \in Dst, GateTimesOut(v) PROVE LateOK'
  BY <1>45, Names DEF GateTimesOut, Exported, HostOnly, LateOK, NoCall
<1>46. ASSUME NEW v \in Dst, ForgetRestore(v) PROVE LateOK'
  BY <1>46, Names DEF ForgetRestore, HostOnly, LateOK, NoCall
<1>47. ASSUME NEW v \in Dst, Drain(v) PROVE LateOK'
  BY <1>47, Names DEF Drain, HostOnly, LateOK, NoCall
<1>48. ASSUME NEW v \in Dst, LoadFails(v) PROVE LateOK'
  BY <1>48, Names DEF LoadFails, HostOnly, LateOK, NoCall
<1>49. ASSUME NEW v \in VM, Reap(v) PROVE LateOK'
  BY <1>49, Names DEF Reap, Owned, HostOnly, Open, Ended, LateOK, NoCall
<1>50. CASE TtlAbort
  BY <1>50, Names
     DEF TtlAbort, Exported, Unserved, Owned, HostAbort, HostOnly, Open, Ended,
         LateOK, NoCall
<1>51. CASE SourceRestarts
  BY <1>51, CallsEndWrites, Names DEF SourceRestarts, LateOK, NoCall
<1>52. CASE DestRestarts
  BY <1>52, CallsEndWrites, Names
     DEF DestRestarts, LateOK, NoCall
<1>53. ASSUME NEW h \in {"src", "dst"}, HostDies(h) PROVE LateOK'
  BY <1>53, Names DEF HostDies, Open, Ended, LateOK, NoCall
<1>54. CASE SettleHostLost
  BY <1>54, Names DEF SettleHostLost, LateOK, NoCall
<1>55. CASE FlipMissing
  BY <1>55, Names DEF FlipMissing, LateOK, NoCall
<1>56. CASE Resume
  BY <1>56, Names DEF Resume, LateOK, NoCall
<1>57. CASE AttachWaits
  BY <1>57, Names, GotoWrites DEF AttachWaits, At, Seen, LateOK, NoCall, Shape, Pc
<1>58. CASE JoinLost
  BY <1>58, Names, AdvanceWrites
     DEF JoinLost, RollbackBegin, Quiet, LateOK, NoCall, PcPhase, Shape, Pc, Phase
<1>59. CASE LateEnter
  BY <1>59, LateEnterWrites, Names DEF LateOK, NoCall
<1> QED
  BY <1>1, <1>2, <1>3, <1>4, <1>5, <1>6, <1>7, <1>8, <1>9, <1>10, <1>11, <1>12, <1>13,
     <1>14, <1>15, <1>16, <1>17, <1>18, <1>19, <1>20, <1>21, <1>22, <1>23, <1>24, <1>25,
     <1>26, <1>27, <1>28, <1>29, <1>30, <1>31, <1>32, <1>33, <1>34, <1>35, <1>36, <1>37,
     <1>38, <1>39, <1>40, <1>41, <1>42, <1>43, <1>44, <1>45, <1>46, <1>47, <1>48, <1>49,
     <1>50, <1>51, <1>52, <1>53, <1>54, <1>55, <1>56, <1>57, <1>58, <1>59
     DEF Next, Step, DestStep

(* What a settled session is bound to is neither reaped nor frozen.           *)
LEMMA VmStep == Shape /\ PcPhase /\ SessPhase /\ TombOK /\ LateOK /\ VmOK /\ Next => VmOK'
<1> SUFFICES ASSUME Shape, PcPhase, SessPhase, TombOK, LateOK, VmOK, Next PROVE VmOK'
  OBVIOUS
<1>1. CASE Claim
  BY <1>1, Names DEF Claim, Ended, VmOK
<1>2. CASE Admit
  BY <1>2, Names DEF Admit, VmOK
<1>3. CASE SettleRested
  BY <1>3, Names, GotoWrites DEF SettleRested, Open, Ended, VmOK, Shape, Pc
<1>4. CASE Presetup
  BY <1>4, Names DEF Presetup, At, CanPresetup, HostPresetup, NoCall, VmOK
<1>5. CASE Downgrade
  BY <1>5, Names DEF Downgrade, At, CanPresetup, NoCall, VmOK
<1>6. CASE PresetupFails
  BY <1>6, Names, AdvanceWrites
     DEF PresetupFails, At, CanPresetup, HostPresetup, RollbackBegin, VmOK, Shape, Pc,
         Phase
<1>7. CASE SpawnRestore
  <2>0. /\ drv.pc = "top" /\ row.ph = "Admitted" /\ row.kind = "live" /\ row.exp
        /\ UNCHANGED <<sess, late, mem, up, tomb, lost>>
    BY <1>7 DEF SpawnRestore, At, NoFault
  <2>1. ASSUME NEW v \in Dst, Fresh(v), vm' = [vm EXCEPT ![v] = "staged"],
               drv' = [drv EXCEPT !.pc = "spawned", !.v = v], Seen("dst"), UNCHANGED row
        PROVE  VmOK'
    BY <2>0, <2>1, Names, FreshIsUnused
       DEF Seen, VmOK, TombOK, LateOK, PcPhase, SessPhase, Ended, NoCall, Shape,
           SessType, DrvType, RowType, LateType, Pc, Phase, SessState
  <2>2. CASE Goto("idle") /\ UNCHANGED <<row, vm, gate>>
    BY <2>0, <2>2, Names, FreshIsUnused, GotoWrites
       DEF VmOK, TombOK, LateOK, PcPhase, SessPhase, Ended, NoCall, Shape, SessType,
           DrvType, RowType, LateType, Pc, Phase, SessState
  <2>3. CASE RollbackBegin /\ UNCHANGED <<vm, gate>>
    BY <2>0, <2>3, Names, FreshIsUnused, AdvanceWrites
       DEF RollbackBegin, VmOK, TombOK, LateOK, PcPhase, SessPhase, Ended, NoCall,
           Shape, SessType, DrvType, RowType, LateType, Pc, Phase, SessState
  <2> QED
    BY <1>7, <2>1, <2>2, <2>3 DEF SpawnRestore, HostRestore, Quiet
<1>8. CASE Capture
  BY <1>8, Names
     DEF Capture, CanCapture, HostCapture, NoCall, VmOK, TombOK, LateOK, PcPhase,
         SessPhase, Shape, DrvType, RowType
<1>9. CASE CaptureFails
  BY <1>9, Names, GotoWrites, AdvanceWrites
     DEF CaptureFails, CanCapture, RollbackBegin, NoCall, VmOK, Shape, Pc, Phase
<1>10. CASE RecordCapture
  BY <1>10, Names DEF RecordCapture, VmOK
<1>11. CASE Hold
  BY <1>11, Names, GotoWrites DEF Hold, At, CanHold, HostHold, NoCall, VmOK, Shape, Pc
<1>12. CASE HoldFails
  BY <1>12, Names, GotoWrites, AdvanceWrites
     DEF HoldFails, At, RollbackBegin, CanHold, HostHold, NoCall, VmOK, Shape, Pc,
         Phase
<1>13. CASE RecordHold
  BY <1>13, Names, GotoWrites, AdvanceWrites DEF RecordHold, VmOK, Shape, Pc, Phase
<1>14. CASE RestoreLive
  <2>0. /\ drv.pc = "top" /\ row.ph = "Captured" /\ row.kind = "live"
        /\ UNCHANGED <<sess, row, late, mem, up, tomb, lost>>
    BY <1>14 DEF RestoreLive, At, NoFault
  <2>1. ASSUME NEW v \in Dst, Fresh(v), vm' = [vm EXCEPT ![v] = "staged"],
               drv' = [drv EXCEPT !.pc = "joining", !.v = v], Seen("dst")
        PROVE  VmOK'
    BY <2>0, <2>1, Names, FreshIsUnused
       DEF Seen, VmOK, TombOK, LateOK, PcPhase, SessPhase, Ended, NoCall, Shape,
           SessType, DrvType, RowType, LateType, Pc, Phase, SessState
  <2>2. CASE Goto("idle") /\ UNCHANGED <<vm, gate>>
    BY <2>0, <2>2, Names, FreshIsUnused, GotoWrites
       DEF VmOK, TombOK, LateOK, PcPhase, SessPhase, Ended, NoCall, Shape, SessType,
           DrvType, RowType, LateType, Pc, Phase, SessState
  <2> QED
    BY <1>14, <2>1, <2>2 DEF RestoreLive, HostRestore, Quiet
<1>15. CASE RestoreSnapshot
  BY <1>15, Names, FreshIsUnused
     DEF RestoreSnapshot, At, HostRestore, NoCall, VmOK, Shape
<1>16. CASE RestoreFails
  BY <1>16, Names, FreshIsUnused, GotoWrites, AdvanceWrites
     DEF RestoreFails, At, RollbackBegin, HostRestore, NoCall, VmOK, Shape, Pc, Phase
<1>17. CASE JoinOk
  BY <1>17, Names
     DEF JoinOk, Executes, VmOK, TombOK, LateOK, PcPhase, SessPhase, Shape, DrvType,
         RowType
<1>18. CASE JoinNever
  BY <1>18, Names, GotoWrites
     DEF JoinNever, Exported, NoCall, VmOK, TombOK, LateOK, PcPhase, SessPhase, Shape,
         Pc, DrvType, RowType
<1>19. CASE JoinFails
  BY <1>19, Names, GotoWrites
     DEF JoinFails, Unserved, NoCall, VmOK, TombOK, LateOK, PcPhase, SessPhase, Shape,
         Pc, DrvType, RowType
<1>20. CASE RecordAbort
  BY <1>20, Names, GotoWrites, AdvanceWrites
     DEF RecordAbort, RollbackBegin, VmOK, Shape, Pc, Phase
<1>21. CASE RecordRestore
  BY <1>21, Names, GotoWrites DEF RecordRestore, Named, VmOK, Shape, Pc
<1>22. CASE Commit
  BY <1>22, Names, GotoWrites, AdvanceWrites
     DEF Commit, At, RollbackBegin, VmOK, Shape, Pc, Phase, DrvType, RowType
<1>23. CASE DestinationGone
  BY <1>23, Names, GotoWrites DEF DestinationGone, At, VmOK, Shape, Pc
<1>24. CASE Attach
  BY <1>24, Names, GotoWrites
     DEF Attach, At, Seen, NoFault, Rests, NoCall, VmOK, TombOK, LateOK, PcPhase,
         SessPhase, Shape, Pc, DrvType, RowType, SessType, LateType
<1>25. CASE RecordAttach
  BY <1>25, Names, GotoWrites, AdvanceWrites
     DEF RecordAttach, At, VmOK, TombOK, LateOK, PcPhase, SessPhase, Shape, Pc, Phase,
         DrvType, RowType
<1>26. CASE DrainRetry
  BY <1>26, Names, GotoWrites DEF DrainRetry, At, VmOK, Shape, Pc
<1>27. CASE PeerLost
  BY <1>27, Names, GotoWrites DEF PeerLost, At, VmOK, Shape, Pc
<1>28. CASE Release
  BY <1>28, Names, GotoWrites
     DEF Release, At, Drained, HostRelease, NoCall, VmOK, TombOK, LateOK, PcPhase,
         SessPhase, Shape, Pc, DrvType, RowType
<1>29. CASE RecordRelease
  BY <1>29, Names, GotoWrites DEF RecordRelease, VmOK, SessPhase, Shape, Pc
<1>30. CASE FailDestroy
  <2>1. drv.pc = "failing" /\ Goto("unmoored") /\ UNCHANGED <<sess, row, late, up>>
    BY <1>30 DEF FailDestroy
  <2>2. drv'.pc = "unmoored" /\ drv'.v = None
    BY <2>1, GotoWrites DEF Shape, Pc
  <2>3. /\ \A v \in VM : v # row.dest => vm'[v] = vm[v]
        /\ row.dest # None => vm'[row.dest] = "gone"
    BY <1>30, Names DEF FailDestroy, DestroyDestination, Shape, RowType
  <2>4. row.ph \in {"Captured", "Committed", "Attached"} /\ Src # row.dest /\ New # row.dest
    BY <2>1, Names DEF PcPhase, Shape, RowType
  <2>5. row.ph # "Captured" => row.dest # None
    BY <2>4 DEF PcPhase
  <2> QED
    BY <2>1, <2>2, <2>3, <2>4, <2>5, Names DEF VmOK, PcPhase
<1>31. CASE FailDetach
  BY <1>31, Names, GotoWrites DEF FailDetach, VmOK, Shape, Pc
<1>32. CASE FailSettle
  <2>1. /\ TeleportSettle(snap /\ row.ph # "Captured")
        /\ (snap /\ row.ph # "Captured") \in BOOLEAN
    BY <1>32 DEF FailSettle, Shape
  <2>2. UNCHANGED <<vm, late, up>>
    BY <1>32 DEF FailSettle
  <2>3. /\ drv'.pc = "idle"
        /\ (row'.ph = "Failed" /\ sess'.sb = None) \/ UNCHANGED <<row, sess>>
    BY <2>1, SettleWrites DEF Shape
  <2>4. CASE row'.ph = "Failed" /\ sess'.sb = None
    BY <2>2, <2>3, <2>4, Names DEF VmOK
  <2>5. CASE UNCHANGED <<row, sess>>
    BY <2>2, <2>3, <2>5 DEF VmOK
  <2> QED
    BY <2>3, <2>4, <2>5
<1>33. CASE RollbackDestroy
  BY <1>33, Names, GotoWrites
     DEF RollbackDestroy, At, DestroyDestination, NoCall, VmOK, Shape, Pc, DrvType,
         RowType
<1>34. CASE RollbackWake
  BY <1>34, Names, GotoWrites
     DEF RollbackWake, SourceGone, HostWake, Exported, HostAbort, HostResume, NoCall,
         VmOK, TombOK, LateOK, PcPhase, SessPhase, Shape, Pc, DrvType, RowType
<1>35. CASE RollbackLost
  <2>1. /\ TeleportSettle(snap)
        /\ snap \in BOOLEAN
    BY <1>35 DEF RollbackLost, Shape
  <2>2. UNCHANGED <<vm, late, up>>
    BY <1>35 DEF RollbackLost
  <2>3. /\ drv'.pc = "idle"
        /\ (row'.ph = "Failed" /\ sess'.sb = None) \/ UNCHANGED <<row, sess>>
    BY <2>1, SettleWrites DEF Shape
  <2>4. CASE row'.ph = "Failed" /\ sess'.sb = None
    BY <2>2, <2>3, <2>4, Names DEF VmOK
  <2>5. CASE UNCHANGED <<row, sess>>
    BY <2>2, <2>3, <2>5 DEF VmOK
  <2> QED
    BY <2>3, <2>4, <2>5
<1>36. CASE RollbackActivate
  BY <1>36, Names, GotoWrites DEF RollbackActivate, VmOK, Shape, Pc
<1>37. CASE RollbackEnd
  BY <1>37, Names, GotoWrites DEF RollbackEnd, VmOK, Shape, Pc
<1>38. CASE Crash
  BY <1>38, Names, GotoWrites DEF Crash, VmOK, Shape, Pc
<1>39. CASE Overtake
  BY <1>39, Names DEF Overtake, NoCall, CallOf, At, Drained, VmOK
<1>40. CASE LateSource
  <2>1. /\ UNCHANGED <<sess, row, drv, up>> /\ late'.op = "none"
        /\ \A v \in VM : v # Src => vm'[v] = vm[v]
        /\ vm'[Src] = "gone" => late.op = "release"
        /\ "src" \in gate /\ late.op # "release" =>
             vm'[Src] \in {vm[Src], "running", "refrozen"}
    BY <1>40, LateSourceWrites DEF Shape, NoCall
  <2>2. row.ph # "none" /\ late # NoCall
    BY <1>40, LateSourceWrites DEF Shape, LateOK, NoCall
  <2>3. drv.pc \in {"woken", "activated"} \/ row.ph = "Aborted" =>
          "src" \in gate /\ late.op # "release"
    BY <2>2 DEF LateOK, PcPhase
  <2> QED
    BY <2>1, <2>2, <2>3, Names DEF VmOK, PcPhase, SessPhase, Shape, RowType, DrvType
<1>41. CASE LateDest
  BY <1>41, Names, FreshIsUnused
     DEF LateDest, Refuses, HostRestore, NoCall, NoFault, VmOK, TombOK, LateOK,
         PcPhase, SessPhase, Shape, DrvType, RowType, SessType, LateType
<1>42. CASE LateDropped
  BY <1>42, Names DEF LateDropped, NoCall, VmOK
<1>43. ASSUME NEW v \in Dst, Fetch(v) PROVE VmOK'
  BY <1>43, Names DEF Fetch, Exported, HostOnly, VmOK
<1>44. ASSUME NEW v \in Dst, Load(v) PROVE VmOK'
  BY <1>44, Names DEF Load, Exported, HostOnly, VmOK
<1>45. ASSUME NEW v \in Dst, GateTimesOut(v) PROVE VmOK'
  BY <1>45, Names DEF GateTimesOut, Exported, HostOnly, VmOK
<1>46. ASSUME NEW v \in Dst, ForgetRestore(v) PROVE VmOK'
  BY <1>46, Names DEF ForgetRestore, HostOnly, VmOK
<1>47. ASSUME NEW v \in Dst, Drain(v) PROVE VmOK'
  BY <1>47, Names DEF Drain, HostOnly, VmOK
<1>48. ASSUME NEW v \in Dst, LoadFails(v) PROVE VmOK'
  BY <1>48, Names DEF LoadFails, HostOnly, VmOK
<1>49. ASSUME NEW v \in VM, Reap(v) PROVE VmOK'
  BY <1>49, Names
     DEF Reap, Owned, HostOnly, Open, Ended, VmOK, TombOK, LateOK, PcPhase, SessPhase,
         Shape, DrvType, RowType
<1>50. CASE TtlAbort
  BY <1>50, Names
     DEF TtlAbort, Exported, Unserved, Owned, HostAbort, HostOnly, Open, Ended, VmOK
<1>51. CASE SourceRestarts
  BY <1>51, CallsEndWrites, Names DEF SourceRestarts, VmOK, NoCall
<1>52. CASE DestRestarts
  BY <1>52, CallsEndWrites, Names
     DEF DestRestarts, VmOK, NoCall, TombOK, LateOK, PcPhase, SessPhase, Shape,
         DrvType, RowType
<1>53. ASSUME NEW h \in {"src", "dst"}, HostDies(h) PROVE VmOK'
  BY <1>53, Names
     DEF HostDies, Open, Ended, VmOK, TombOK, LateOK, PcPhase, SessPhase, Shape,
         DrvType, RowType
<1>54. CASE SettleHostLost
  BY <1>54, Names DEF SettleHostLost, VmOK
<1>55. CASE FlipMissing
  BY <1>55, Names DEF FlipMissing, VmOK
<1>56. CASE Resume
  BY <1>56, Names DEF Resume, VmOK, SessPhase, Shape
<1>57. CASE AttachWaits
  BY <1>57, Names, GotoWrites DEF AttachWaits, At, VmOK, Shape, Pc
<1>58. CASE JoinLost
  BY <1>58, Names, AdvanceWrites
     DEF JoinLost, RollbackBegin, VmOK, PcPhase, Shape, Pc, Phase
<1>59. CASE LateEnter
  BY <1>59, LateEnterWrites, Names DEF VmOK
<1> QED
  BY <1>1, <1>2, <1>3, <1>4, <1>5, <1>6, <1>7, <1>8, <1>9, <1>10, <1>11, <1>12, <1>13,
     <1>14, <1>15, <1>16, <1>17, <1>18, <1>19, <1>20, <1>21, <1>22, <1>23, <1>24, <1>25,
     <1>26, <1>27, <1>28, <1>29, <1>30, <1>31, <1>32, <1>33, <1>34, <1>35, <1>36, <1>37,
     <1>38, <1>39, <1>40, <1>41, <1>42, <1>43, <1>44, <1>45, <1>46, <1>47, <1>48, <1>49,
     <1>50, <1>51, <1>52, <1>53, <1>54, <1>55, <1>56, <1>57, <1>58, <1>59
     DEF Next, Step, DestStep

(* With no driver lost, one destination at most is under way, and the export  *)
(* tells whether it may run.                                                  *)
LEMMA CleanStep == Shape /\ PcPhase /\ Clean /\ Next => Clean'
<1> SUFFICES ASSUME Shape, PcPhase, Clean, Next PROVE Clean'
  OBVIOUS
<1>1. CASE Claim
  BY <1>1, Names DEF Claim, Ended, NoFault, Clean, Serving, Forked, Executes
<1>2. CASE Admit
  BY <1>2, Names DEF Admit, NoFault, Clean, Serving, Forked, Executes
<1>3. CASE SettleRested
  BY <1>3, Names, GotoWrites
     DEF SettleRested, Open, NoFault, Ended, Clean, Serving, Forked, Executes, Shape,
         Pc
<1>4. CASE Presetup
  BY <1>4, Names
     DEF Presetup, At, CanPresetup, HostPresetup, NoFault, NoCall, Clean, Serving,
         Forked, Executes
<1>5. CASE Downgrade
  BY <1>5, Names
     DEF Downgrade, At, CanPresetup, NoFault, NoCall, Clean, Serving, Forked, Executes
<1>6. CASE PresetupFails
  BY <1>6, Names, AdvanceWrites
     DEF PresetupFails, At, CanPresetup, HostPresetup, RollbackBegin, NoFault, Fault,
         DriverFault, Clean, Serving, Forked, Executes, Shape, Pc, Phase
<1>7. CASE SpawnRestore
  <2>0. /\ drv.pc = "top" /\ row.ph = "Admitted" /\ row.kind = "live" /\ row.exp
        /\ UNCHANGED <<sess, late, mem, up, tomb, lost>>
    BY <1>7 DEF SpawnRestore, At, NoFault
  <2>1. ASSUME NEW v \in Dst, Fresh(v), vm' = [vm EXCEPT ![v] = "staged"],
               drv' = [drv EXCEPT !.pc = "spawned", !.v = v], Seen("dst"), UNCHANGED row
        PROVE  Clean'
    BY <2>0, <2>1, Names, FreshIsUnused
       DEF Seen, Clean, Serving, Forked, Executes, PcPhase, Ended, NoCall, Shape,
           SessType, DrvType, RowType, LateType, Pc, Phase, SessState
  <2>2. CASE Goto("idle") /\ UNCHANGED <<row, vm, gate>>
    BY <2>0, <2>2, Names, FreshIsUnused, GotoWrites
       DEF Clean, Serving, Forked, Executes, PcPhase, Ended, NoCall, Shape, SessType,
           DrvType, RowType, LateType, Pc, Phase, SessState
  <2>3. CASE RollbackBegin /\ UNCHANGED <<vm, gate>>
    BY <2>0, <2>3, Names, FreshIsUnused, AdvanceWrites
       DEF RollbackBegin, Clean, Serving, Forked, Executes, PcPhase, Ended, NoCall,
           Shape, SessType, DrvType, RowType, LateType, Pc, Phase, SessState
  <2> QED
    BY <1>7, <2>1, <2>2, <2>3 DEF SpawnRestore, HostRestore, Quiet
<1>8. CASE Capture
  BY <1>8, Names
     DEF Capture, CanCapture, HostCapture, NoFault, NoCall, Clean, Serving, Forked,
         Executes, PcPhase, Shape
<1>9. CASE CaptureFails
  BY <1>9, Names, GotoWrites, AdvanceWrites
     DEF CaptureFails, CanCapture, NoFault, DriverFault, RollbackBegin, Fault, NoCall,
         Clean, Serving, Forked, Executes, PcPhase, Shape, Pc, Phase
<1>10. CASE RecordCapture
  BY <1>10, Names
     DEF RecordCapture, NoFault, Clean, Serving, Forked, Executes, PcPhase, Shape
<1>11. CASE Hold
  BY <1>11, Names, GotoWrites
     DEF Hold, At, CanHold, HostHold, NoFault, NoCall, Clean, Serving, Forked,
         Executes, PcPhase, Shape, Pc
<1>12. CASE HoldFails
  BY <1>12, Names, GotoWrites, AdvanceWrites
     DEF HoldFails, At, RollbackBegin, CanHold, NoFault, HostHold, DriverFault, Fault,
         NoCall, Clean, Serving, Forked, Executes, Shape, Pc, Phase
<1>13. CASE RecordHold
  BY <1>13, Names, GotoWrites, AdvanceWrites
     DEF RecordHold, NoFault, Clean, Serving, Forked, Executes, PcPhase, Shape, Pc,
         Phase
<1>14. CASE RestoreLive
  <2>0. /\ drv.pc = "top" /\ row.ph = "Captured" /\ row.kind = "live"
        /\ UNCHANGED <<sess, row, late, mem, up, tomb, lost>>
    BY <1>14 DEF RestoreLive, At, NoFault
  <2>1. ASSUME NEW v \in Dst, Fresh(v), vm' = [vm EXCEPT ![v] = "staged"],
               drv' = [drv EXCEPT !.pc = "joining", !.v = v], Seen("dst")
        PROVE  Clean'
    BY <2>0, <2>1, Names, FreshIsUnused
       DEF Seen, Clean, Serving, Forked, Executes, PcPhase, Ended, NoCall, Shape,
           SessType, DrvType, RowType, LateType, Pc, Phase, SessState
  <2>2. CASE Goto("idle") /\ UNCHANGED <<vm, gate>>
    BY <2>0, <2>2, Names, FreshIsUnused, GotoWrites
       DEF Clean, Serving, Forked, Executes, PcPhase, Ended, NoCall, Shape, SessType,
           DrvType, RowType, LateType, Pc, Phase, SessState
  <2> QED
    BY <1>14, <2>1, <2>2 DEF RestoreLive, HostRestore, Quiet
<1>15. CASE RestoreSnapshot
  BY <1>15, Names, FreshIsUnused
     DEF RestoreSnapshot, At, HostRestore, NoFault, NoCall, Clean, Serving, Forked,
         Executes, PcPhase, Shape
<1>16. CASE RestoreFails
  BY <1>16, Names, FreshIsUnused, GotoWrites, AdvanceWrites
     DEF RestoreFails, At, RollbackBegin, NoFault, Fault, DriverFault, HostRestore,
         NoCall, Clean, Serving, Forked, Executes, PcPhase, Shape, Pc, Phase
<1>17. CASE JoinOk
  BY <1>17, Names DEF JoinOk, Executes, NoFault, Clean, Serving, Forked
<1>18. CASE JoinNever
  BY <1>18, Names, GotoWrites
     DEF JoinNever, Exported, NoFault, NoCall, Clean, Serving, Forked, Executes,
         PcPhase, Shape, Pc
<1>19. CASE JoinFails
  BY <1>19, Names, GotoWrites
     DEF JoinFails, NoFault, DriverFault, Unserved, Fault, NoCall, Clean, Serving,
         Forked, Executes, Shape, Pc
<1>20. CASE RecordAbort
  BY <1>20, Names, GotoWrites, AdvanceWrites
     DEF RecordAbort, RollbackBegin, NoFault, Clean, Serving, Forked, Executes,
         PcPhase, Shape, Pc, Phase
<1>21. CASE RecordRestore
  BY <1>21, Names, GotoWrites
     DEF RecordRestore, Named, NoFault, Clean, Serving, Forked, Executes, PcPhase,
         Shape, Pc
<1>22. CASE Commit
  BY <1>22, Names, GotoWrites, AdvanceWrites
     DEF Commit, At, RollbackBegin, NoFault, Clean, Serving, Forked, Executes,
         PcPhase, Shape, Pc, Phase
<1>23. CASE DestinationGone
  BY <1>23, Names, GotoWrites
     DEF DestinationGone, At, NoFault, Clean, Serving, Forked, Executes, Shape, Pc
<1>24. CASE Attach
  BY <1>24, Names, GotoWrites
     DEF Attach, At, NoFault, NoCall, Clean, Serving, Forked, Executes, Shape, Pc
<1>25. CASE RecordAttach
  BY <1>25, Names, GotoWrites, AdvanceWrites
     DEF RecordAttach, At, NoFault, Clean, Serving, Forked, Executes, Shape, Pc, Phase
<1>26. CASE DrainRetry
  BY <1>26, Names, GotoWrites
     DEF DrainRetry, At, NoFault, Clean, Serving, Forked, Executes, Shape, Pc
<1>27. CASE PeerLost
  BY <1>27, Names, GotoWrites
     DEF PeerLost, At, NoFault, Clean, Serving, Forked, Executes, Shape, Pc
<1>28. CASE Release
  BY <1>28, Names, GotoWrites
     DEF Release, At, Drained, HostRelease, NoFault, NoCall, Clean, Serving, Forked,
         Executes, Shape, Pc
<1>29. CASE RecordRelease
  BY <1>29, Names, GotoWrites
     DEF RecordRelease, NoFault, Clean, Serving, Forked, Executes, Shape, Pc
<1>30. CASE FailDestroy
  BY <1>30, Names, GotoWrites
     DEF FailDestroy, DestroyDestination, NoFault, NoCall, Clean, Serving, Forked,
         Executes, PcPhase, Shape, Pc, DrvType, RowType
<1>31. CASE FailDetach
  BY <1>31, Names, GotoWrites
     DEF FailDetach, NoFault, Clean, Serving, Forked, Executes, PcPhase, Shape, Pc
<1>32. CASE FailSettle
  BY <1>32, Names, SettleWrites
     DEF FailSettle, NoFault, Clean, Serving, Forked, Executes, PcPhase, Shape, Pc
<1>33. CASE RollbackDestroy
  BY <1>33, Names, GotoWrites
     DEF RollbackDestroy, At, DestroyDestination, NoFault, NoCall, Clean, Serving,
         Forked, Executes, Shape, Pc, DrvType, RowType
<1>34. CASE RollbackWake
  BY <1>34, Names, GotoWrites
     DEF RollbackWake, SourceGone, HostWake, NoFault, Exported, HostAbort, HostResume,
         NoCall, Clean, Serving, Forked, Executes, PcPhase, Shape, Pc
<1>35. CASE RollbackLost
  BY <1>35, Names, SettleWrites
     DEF RollbackLost, SourceGone, NoFault, Clean, Serving, Forked, Executes, PcPhase,
         Shape, Pc
<1>36. CASE RollbackActivate
  BY <1>36, Names, GotoWrites
     DEF RollbackActivate, NoFault, Clean, Serving, Forked, Executes, PcPhase, Shape,
         Pc
<1>37. CASE RollbackEnd
  BY <1>37, Names, GotoWrites
     DEF RollbackEnd, NoFault, Clean, Serving, Forked, Executes, Shape, Pc
<1>38. CASE Crash
  BY <1>38, Names, GotoWrites
     DEF Crash, DriverFault, Fault, Clean, Serving, Forked, Executes
<1>39. CASE Overtake
  BY <1>39, Names
     DEF Overtake, NoCall, CallOf, DriverFault, At, Drained, Fault, Clean, Serving,
         Forked, Executes
<1>40. CASE LateSource
  BY <1>40, LateSourceWrites, Names
     DEF Clean, Serving, Forked, Executes, NoCall, SourceCall, Shape
<1>41. CASE LateDest
  BY <1>41, Names, FreshIsUnused
     DEF LateDest, HostRestore, NoCall, NoFault, Clean, Serving, Forked, Executes
<1>42. CASE LateDropped
  BY <1>42, Names DEF LateDropped, NoCall, NoFault, Clean, Serving, Forked, Executes
<1>43. ASSUME NEW v \in Dst, Fetch(v) PROVE Clean'
  BY <1>43, Names
     DEF Fetch, Exported, HostOnly, NoFault, Clean, Serving, Forked, Executes
<1>44. ASSUME NEW v \in Dst, Load(v) PROVE Clean'
  BY <1>44, Names
     DEF Load, Exported, HostOnly, NoFault, Clean, Serving, Forked, Executes
<1>45. ASSUME NEW v \in Dst, GateTimesOut(v) PROVE Clean'
  BY <1>45, Names
     DEF GateTimesOut, Exported, Fault, NoFault, HostOnly, Clean, Serving, Forked,
         Executes
<1>46. ASSUME NEW v \in Dst, ForgetRestore(v) PROVE Clean'
  BY <1>46, Names DEF ForgetRestore, HostOnly, NoFault, Clean, Serving, Forked, Executes
<1>47. ASSUME NEW v \in Dst, Drain(v) PROVE Clean'
  BY <1>47, Names DEF Drain, HostOnly, NoFault, Clean, Serving, Forked, Executes
<1>48. ASSUME NEW v \in Dst, LoadFails(v) PROVE Clean'
  BY <1>48, Names DEF LoadFails, Fault, HostOnly, Clean, Serving, Forked, Executes
<1>49. ASSUME NEW v \in VM, Reap(v) PROVE Clean'
  BY <1>49, Names
     DEF Reap, Owned, HostOnly, NoFault, Open, Ended, Clean, Serving, Forked, Executes
<1>50. CASE TtlAbort
  BY <1>50, Names
     DEF TtlAbort, Exported, Unserved, Owned, HostAbort, Fault, HostOnly, Open, Ended,
         Clean, Serving, Forked, Executes
<1>51. CASE SourceRestarts
  BY <1>51, CallsEndWrites, Names
     DEF SourceRestarts, Fault, NoCall, Clean, Serving, Forked, Executes
<1>52. CASE DestRestarts
  BY <1>52, CallsEndWrites, Names
     DEF DestRestarts, Fault, NoCall, Clean, Serving, Forked, Executes
<1>53. ASSUME NEW h \in {"src", "dst"}, HostDies(h) PROVE Clean'
  BY <1>53, Names DEF HostDies, Open, Fault, Ended, Clean, Serving, Forked, Executes
<1>54. CASE SettleHostLost
  BY <1>54, Names DEF SettleHostLost, NoFault, Clean, Serving, Forked, Executes
<1>55. CASE FlipMissing
  BY <1>55, Names DEF FlipMissing, NoFault, Clean, Serving, Forked, Executes
<1>56. CASE Resume
  BY <1>56, Names DEF Resume, NoFault, Clean, Serving, Forked, Executes
<1>57. CASE AttachWaits
  BY <1>57, Names, GotoWrites
     DEF AttachWaits, At, NoFault, Clean, Serving, Forked, Executes, Shape, Pc
<1>58. CASE JoinLost
  BY <1>58, Names, AdvanceWrites
     DEF JoinLost, RollbackBegin, NoFault, Clean, Serving, Forked, Executes, PcPhase,
         Shape, Pc, Phase
<1>59. CASE LateEnter
  BY <1>59, LateEnterWrites, Names DEF Clean, Serving, Forked, Executes, NoCall
<1> QED
  BY <1>1, <1>2, <1>3, <1>4, <1>5, <1>6, <1>7, <1>8, <1>9, <1>10, <1>11, <1>12, <1>13,
     <1>14, <1>15, <1>16, <1>17, <1>18, <1>19, <1>20, <1>21, <1>22, <1>23, <1>24, <1>25,
     <1>26, <1>27, <1>28, <1>29, <1>30, <1>31, <1>32, <1>33, <1>34, <1>35, <1>36, <1>37,
     <1>38, <1>39, <1>40, <1>41, <1>42, <1>43, <1>44, <1>45, <1>46, <1>47, <1>48, <1>49,
     <1>50, <1>51, <1>52, <1>53, <1>54, <1>55, <1>56, <1>57, <1>58, <1>59
     DEF Next, Step, DestStep

-----------------------------------------------------------------------------
(* The inductive invariant and the theorems.                               *)

IInv == Shape /\ PcPhase /\ SessPhase /\ TombOK /\ LateOK /\ VmOK /\ Clean

(* The first state: the session runs on its source and nothing has begun.  *)
LEMMA InitIInv == Init => IInv
<1> SUFFICES ASSUME Init PROVE IInv
  OBVIOUS
<1>1. Shape
  <2>1. sess \in SessType /\ vm \in [VM -> VmState] /\ tomb \subseteq VM /\ gate = {}
    BY Names DEF Init, SessType, SessState, VmState
  <2>2. row \in RowType
    BY DEF Init, RowType, Phase
  <2>3. drv \in DrvType
    BY TeleportConstants DEF Init, DrvType, Pc
  <2>4. late \in LateType
    BY DEF Init, LateType, Call, SourceCall, DestCall, NoCall
  <2>5. resumes \in 0 .. MaxResumes /\ faults \in 0 .. MaxFaults
    BY TeleportConstants DEF Init
  <2> QED
    BY <2>1, <2>2, <2>3, <2>4, <2>5 DEF Init, Shape
<1>2. PcPhase /\ SessPhase /\ TombOK
  BY Names DEF Init, PcPhase, SessPhase, TombOK, Ended
<1>3. LateOK /\ VmOK
  BY Names DEF Init, LateOK, VmOK, NoCall
<1>4. Clean
  BY Names DEF Init, Clean, Serving, Forked, Executes
<1> QED
  BY <1>1, <1>2, <1>3, <1>4 DEF IInv

(* Every step keeps it, and so does stuttering.                            *)
LEMMA IInvStep == IInv /\ [Next]_vars => IInv'
<1> SUFFICES ASSUME IInv, [Next]_vars PROVE IInv'
  OBVIOUS
<1>1. CASE Next
  BY <1>1, ShapeStep, PcPhaseStep, SessPhaseStep, TombStep, LateStep, VmStep, CleanStep
     DEF IInv
<1>2. CASE UNCHANGED vars
  <2>1. Shape'
    BY <1>2 DEF IInv, vars, Shape
  <2>2. PcPhase' /\ SessPhase' /\ TombOK'
    BY <1>2 DEF IInv, vars, PcPhase, SessPhase, TombOK, Ended
  <2>3. LateOK' /\ VmOK'
    BY <1>2 DEF IInv, vars, LateOK, VmOK
  <2>4. Clean'
    BY <1>2 DEF IInv, vars, Clean, Serving, Forked, Executes
  <2> QED
    BY <2>1, <2>2, <2>3, <2>4 DEF IInv
<1> QED
  BY <1>1, <1>2

(* So it holds in every state of every behaviour.                          *)
LEMMA Inductive == Spec => []IInv
  BY InitIInv, IInvStep, PTL DEF Spec

(* The teleport's records keep their types, a committed move names its     *)
(* destination, and only the holder of the lane is inside a step.          *)
THEOREM TypeCorrect == Spec => []TypeOK
<1>1. IInv => TypeOK
  BY DEF IInv, Shape, PcPhase, TypeOK, SessType, SessState, RowType, DrvType, LateType
<1> QED
  BY <1>1, Inductive, PTL

(* The guest never runs twice as long as no driver crashed, was overtaken  *)
(* or missed an answer, whatever the two hosts go through: abort_unserved  *)
(* and the TTL sweep act on the export, the rollback destroys first.       *)
THEOREM HostsAloneNeverFork == Spec => []HostsNeverFork
<1>1. IInv => HostsNeverFork
  BY DEF IInv, Clean, HostsNeverFork
<1> QED
  BY <1>1, Inductive, PTL

(* When a move is over an Active session is bound to a VM that runs, the   *)
(* late calls of overtaken drivers included: once the rollback has woken   *)
(* it, the source lets none of them in, and a drained destination is       *)
(* nobody's to destroy.  A call the source had let in before can still     *)
(* pause it: that state, and no other, is the exception.                   *)
THEOREM SettledSessionRuns == Spec => []SettledRuns
<1>1. ASSUME IInv, Ended, sess.st = "Active", HostOf(sess.sb) \in up
      PROVE  vm[sess.sb] = "running" \/ (sess.sb = Src /\ vm[Src] = "refrozen")
  <2>1. sess.sb \in VM /\ sess.sb # None
    BY <1>1, Names DEF IInv, Shape, SessType, SessPhase
  <2>2. CASE sess.sb = Src
    <3>1. row.ph = "Aborted"
      BY <1>1, <2>2 DEF IInv, SessPhase, Ended
    <3> QED
      BY <1>1, <2>2, <3>1, Names DEF IInv, VmOK
  <2>3. CASE sess.sb \in Dst
    <3>1. row.ph = "Done" /\ "dst" \in up
      BY <1>1, <2>3, Names DEF IInv, SessPhase, Ended
    <3> QED
      BY <1>1, <2>3, <3>1 DEF IInv, VmOK
  <2>4. CASE sess.sb = New
    BY <1>1, <2>4 DEF IInv, VmOK
  <2> QED
    BY <2>1, <2>2, <2>3, <2>4, Names
<1>2. IInv => SettledRuns
  BY <1>1 DEF SettledRuns
<1> QED
  BY <1>2, Inductive, PTL

(* Only the release, the reaper and the late release of an overtaken       *)
(* driver destroy the source on a host that lives.                         *)
Unneeded ==
    /\ sess.sb # Src
    /\ \/ Ended
       \/ row.ph = "Attached" /\ ~(row.kind = "live" /\ vm[row.dest] = "pulling")

LEMMA SourceDestroyed ==
    ASSUME IInv, Next, vm[Src] # "gone", vm'[Src] = "gone", "src" \in up'
    PROVE  Unneeded
<1>0. vm \in [VM -> VmState] /\ row \in RowType /\ late \in LateType /\ drv \in DrvType
  BY DEF IInv, Shape
<1>1. CASE Claim
  BY <1>1, <1>0, Names DEF Claim
<1>2. CASE Admit
  BY <1>2, <1>0, Names DEF Admit
<1>3. CASE SettleRested
  BY <1>3, <1>0, Names DEF SettleRested
<1>4. CASE Presetup
  BY <1>4, <1>0, Names DEF Presetup, HostPresetup
<1>5. CASE Downgrade
  BY <1>5, <1>0, Names DEF Downgrade
<1>6. CASE PresetupFails
  BY <1>6, <1>0, Names DEF PresetupFails, HostPresetup
<1>7. CASE SpawnRestore
  BY <1>7, <1>0, Names DEF SpawnRestore, HostRestore
<1>8. CASE Capture
  BY <1>8, <1>0, Names DEF Capture, HostCapture
<1>9. CASE CaptureFails
  BY <1>9, <1>0, Names DEF CaptureFails
<1>10. CASE RecordCapture
  BY <1>10, <1>0, Names DEF RecordCapture
<1>11. CASE Hold
  BY <1>11, <1>0, Names DEF Hold, HostHold
<1>12. CASE HoldFails
  BY <1>12, <1>0, Names DEF HoldFails, HostHold
<1>13. CASE RecordHold
  BY <1>13, <1>0, Names DEF RecordHold
<1>14. CASE RestoreLive
  BY <1>14, <1>0, Names DEF RestoreLive, HostRestore
<1>15. CASE RestoreSnapshot
  BY <1>15, <1>0, Names DEF RestoreSnapshot, HostRestore
<1>16. CASE RestoreFails
  BY <1>16, <1>0, Names DEF RestoreFails, HostRestore
<1>17. CASE JoinOk
  BY <1>17, <1>0, Names DEF JoinOk
<1>18. CASE JoinNever
  BY <1>18, <1>0, Names DEF JoinNever, IInv, PcPhase, DrvType
<1>19. CASE JoinFails
  BY <1>19, <1>0, Names DEF JoinFails, IInv, PcPhase, DrvType
<1>20. CASE RecordAbort
  BY <1>20, <1>0, Names DEF RecordAbort
<1>21. CASE RecordRestore
  BY <1>21, <1>0, Names DEF RecordRestore
<1>22. CASE Commit
  BY <1>22, <1>0, Names DEF Commit
<1>23. CASE DestinationGone
  BY <1>23, <1>0, Names DEF DestinationGone
<1>24. CASE Attach
  BY <1>24, <1>0, Names DEF Attach
<1>25. CASE RecordAttach
  BY <1>25, <1>0, Names DEF RecordAttach
<1>26. CASE DrainRetry
  BY <1>26, <1>0, Names DEF DrainRetry
<1>27. CASE PeerLost
  BY <1>27, <1>0, Names DEF PeerLost, RowType, LateType
<1>28. CASE Release
  <2>1. row.ph = "Attached" /\ (row.kind = "live" => vm[row.dest] = "running")
    BY <1>28 DEF Release, At, Drained
  <2> QED
    BY <2>1 DEF IInv, SessPhase, Unneeded
<1>29. CASE RecordRelease
  BY <1>29, <1>0, Names DEF RecordRelease
<1>30. CASE FailDestroy
  BY <1>30, <1>0, Names DEF FailDestroy, DestroyDestination, RowType, LateType
<1>31. CASE FailDetach
  BY <1>31, <1>0, Names DEF FailDetach
<1>32. CASE FailSettle
  BY <1>32, <1>0, Names DEF FailSettle
<1>33. CASE RollbackDestroy
  BY <1>33, <1>0, Names DEF RollbackDestroy, DestroyDestination, RowType, LateType
<1>34. CASE RollbackWake
  BY <1>34, <1>0, Names DEF RollbackWake, HostWake, HostAbort, HostResume
<1>35. CASE RollbackLost
  BY <1>35, <1>0, Names DEF RollbackLost
<1>36. CASE RollbackActivate
  BY <1>36, <1>0, Names DEF RollbackActivate
<1>37. CASE RollbackEnd
  BY <1>37, <1>0, Names DEF RollbackEnd
<1>38. CASE Crash
  BY <1>38, <1>0, Names DEF Crash
<1>39. CASE Overtake
  BY <1>39, <1>0, Names DEF Overtake
<1>40. CASE LateSource
  <2>1. late.op = "release"
    BY <1>40, LateSourceWrites DEF IInv, Shape
  <2>2. row.ph \in {"Attached", "Done", "Failed"}
    BY <2>1 DEF IInv, LateOK
  <2> QED
    BY <2>1, <2>2 DEF IInv, SessPhase, VmOK, Unneeded, Ended
<1>41. CASE LateDest
  BY <1>41, <1>0, Names DEF LateDest, HostRestore, RowType, LateType
<1>42. CASE LateDropped
  BY <1>42, <1>0, Names DEF LateDropped
<1>43. ASSUME NEW v \in Dst, Fetch(v) PROVE Unneeded
  BY <1>43, <1>0, Names DEF Fetch, HostOnly
<1>44. ASSUME NEW v \in Dst, Load(v) PROVE Unneeded
  BY <1>44, <1>0, Names DEF Load, HostOnly
<1>45. ASSUME NEW v \in Dst, GateTimesOut(v) PROVE Unneeded
  BY <1>45, <1>0, Names DEF GateTimesOut, HostOnly
<1>46. ASSUME NEW v \in Dst, ForgetRestore(v) PROVE Unneeded
  BY <1>46, <1>0, Names DEF ForgetRestore, HostOnly
<1>47. ASSUME NEW v \in Dst, Drain(v) PROVE Unneeded
  BY <1>47, <1>0, Names DEF Drain, HostOnly
<1>48. ASSUME NEW v \in Dst, LoadFails(v) PROVE Unneeded
  BY <1>48, <1>0, Names DEF LoadFails, HostOnly
<1>49. ASSUME NEW v \in VM, Reap(v) PROVE Unneeded
  <2>1. v = Src /\ (Src \in tomb \/ ~Owned(Src))
    BY <1>49, <1>0, Names DEF Reap
  <2>2. CASE Src \in tomb
    BY <2>2 DEF IInv, TombOK, SessPhase, Unneeded, Ended
  <2>3. CASE ~Owned(Src)
    BY <2>3 DEF IInv, VmOK, Owned, Open, Unneeded
  <2> QED
    BY <2>1, <2>2, <2>3
<1>50. CASE TtlAbort
  BY <1>50, <1>0, Names DEF TtlAbort, HostAbort, HostOnly
<1>51. CASE SourceRestarts
  BY <1>51 DEF SourceRestarts
<1>52. CASE DestRestarts
  BY <1>52, <1>0, Names DEF DestRestarts
<1>53. ASSUME NEW h \in {"src", "dst"}, HostDies(h) PROVE Unneeded
  BY <1>53, <1>0, Names DEF HostDies
<1>54. CASE SettleHostLost
  BY <1>54, <1>0, Names DEF SettleHostLost
<1>55. CASE FlipMissing
  BY <1>55, <1>0, Names DEF FlipMissing
<1>56. CASE Resume
  BY <1>56, <1>0, Names DEF Resume
<1>57. CASE AttachWaits
  BY <1>57 DEF AttachWaits
<1>58. CASE JoinLost
  BY <1>58, <1>0, Names DEF JoinLost, IInv, PcPhase, DrvType
<1>59. CASE LateEnter
  BY <1>59 DEF LateEnter
<1> QED
  BY <1>1, <1>2, <1>3, <1>4, <1>5, <1>6, <1>7, <1>8, <1>9, <1>10, <1>11, <1>12, <1>13,
     <1>14, <1>15, <1>16, <1>17, <1>18, <1>19, <1>20, <1>21, <1>22, <1>23, <1>24, <1>25,
     <1>26, <1>27, <1>28, <1>29, <1>30, <1>31, <1>32, <1>33, <1>34, <1>35, <1>36, <1>37,
     <1>38, <1>39, <1>40, <1>41, <1>42, <1>43, <1>44, <1>45, <1>46, <1>47, <1>48, <1>49,
     <1>50, <1>51, <1>52, <1>53, <1>54, <1>55, <1>56, <1>57, <1>58, <1>59
     DEF Next, Step, DestStep

(* The source VM is destroyed only when the session is bound elsewhere and  *)
(* the move is over, or attached with no destination that still pulls its  *)
(* memory from it.                                                         *)
THEOREM SourceIsKept == Spec => SourceKept
<1> DEFINE Kept == vm[Src] # "gone" /\ vm'[Src] = "gone" /\ "src" \in up' =>
         /\ sess.sb # Src
         /\ \/ Ended
            \/ row.ph = "Attached" /\ ~(row.kind = "live" /\ vm[row.dest] = "pulling")
<1>1. IInv /\ Next => Kept
  BY SourceDestroyed DEF Unneeded
<1>2. IInv /\ [Next]_vars => [Kept]_vars
  BY <1>1
<1> QED
  BY <1>2, Inductive, PTL DEF Spec, SourceKept

=============================================================================
