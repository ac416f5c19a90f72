----------------------- MODULE EvictionFinalizeProofs -----------------------
(***************************************************************************)
(* Proofs about EvictionFinalize: types, and that the content of a capture *)
(* is kept, published whole and stored, whatever stages are repeated after *)
(* a crash.                                                                *)
(*                                                                         *)
(* The argument is about who may touch what a capture left on the host.    *)
(* The capture lock has one holder per sandbox (LockOK), and a sandbox     *)
(* that is not spoilt has one record that still publishes (RecordsOK): so  *)
(* the transient volume and then the checkpoint volume are that record's   *)
(* (VolumesOK), and its job moves them, and nothing else, up the ladder.   *)
(***************************************************************************)
EXTENDS EvictionFinalize, WellFoundedInduction, TLAPS

\* Sandboxes and captures are numbered as they come; an op and the session have the
\* newest sandbox.
OpOK ==
    /\ evict.sb \in {None, used.sandboxes}
    /\ evict.st \in OpEnded => evict.sb = None
    /\ evict.st = "queued" => evict.att < MaxEvictAttempts
MintOK ==
    /\ used.sandboxes \in Sandbox
    /\ sess.sb \in {None, used.sandboxes}
    /\ \A s \in Snap : /\ fin[s].sb <= used.sandboxes
                       /\ fin[s].sb = None <=> s > used.captures
                       /\ fin[s].sb = None => fin[s].st = "none"
    /\ \A s, r \in Snap : s <= r /\ r <= used.captures => fin[s].sb <= fin[r].sb
    /\ \A sb \in Sandbox : disk[sb].taken <= used.captures /\ disk[sb].ckpt <= used.captures

\* A capture in memory is of its sandbox, staged, and has no record yet.
CapsOK ==
    \A sb \in Sandbox : cap[sb] # None =>
        /\ fin[cap[sb]].sb = sb /\ fin[cap[sb]].st = "none" /\ fin[cap[sb]].staged
        /\ chain[sb] # "none" => fin[cap[sb]].diff

\* The capture lock of a sandbox has one holder.
Holds(s) == job[s].pc \notin {"none", "wait"}
LockOK ==
    /\ \A s \in Snap : Holds(s) => cap[fin[s].sb] = None
    /\ \A s, r \in Snap : Holds(s) /\ Holds(r) /\ fin[s].sb = fin[r].sb => s = r

\* Unless it is spoilt, one capture of a sandbox has still to be published.
Sound(s) == fin[s].sb \notin spoilt
RecordsOK ==
    /\ \A s, r \in Snap : OnDisk(s) /\ OnDisk(r) /\ fin[s].sb = fin[r].sb /\ Sound(s) => s = r
    /\ \A s \in Snap : OnDisk(s) /\ Sound(s) => cap[fin[s].sb] = None

\* The volumes of a sandbox that is not spoilt hold that capture's disk.
VolumesOK ==
    /\ \A sb \in Sandbox : cap[sb] # None /\ sb \notin spoilt =>
           disk[sb].taken = cap[sb] /\ disk[sb].ckpt # cap[sb]
    /\ CaptureKept
    /\ \A s \in Snap : fin[s].st = "Captured" /\ Sound(s) /\ disk[fin[s].sb].ckpt = s =>
           disk[fin[s].sb].taken = 0
    /\ \A s \in Snap : job[s].disk # 0 /\ Sound(s) => job[s].disk = s

\* A chain behind its bitmap is the trace of a capture that still holds the sandbox,
\* or has its record.
ChainOK ==
    \A sb \in Sandbox : chain[sb] = "behind" /\ sb \notin spoilt =>
        \/ cap[sb] # None
        \/ \E s \in Snap : fin[s].sb = sb /\ (OnDisk(s) \/ job[s].pc = "destroy")

\* A job that has not ended has its record, and is at the record's stage, or past the
\* blobs when that stage could not be made durable.
AtStage(s) ==
    \/ job[s].st = fin[s].st
    \/ job[s].st = "BlobsUploaded" /\ fin[s].st = "MemoryChunked"
JobOK(s) ==
    /\ job[s].pc \in {"wait", "run", "delete"} => OnDisk(s) /\ AtStage(s)
    /\ job[s].pc = "delete" => job[s].st = "BlobsUploaded"
    /\ job[s].pc # "none" => fin[s].sb # None
    /\ job[s].disk # 0 => Stepping(s, "Captured")

\* What a record has got to, of a capture that is not spoilt.
PastDisk == {"DiskUploaded", "MemoryChunked", "BlobsUploaded", "deleted"}
PastMemory == {"MemoryChunked", "BlobsUploaded", "deleted"}
WholeOK(s) ==
    /\ fin[s].st = "failed" => ~Sound(s)
    /\ fin[s].sb # None /\ cap[fin[s].sb] = s /\ Sound(s) => fin[s].whole
    /\ OnDisk(s) /\ Sound(s) => fin[s].whole /\ fin[s].staged
    /\ fin[s].st \in PastDisk /\ Sound(s) => fin[s].whole /\ fin[s].disk = s
    /\ fin[s].st \in PastMemory /\ Sound(s) => fin[s].mem

\* What stages and jobs name is in the store.
HasBlobs(s) == fin[s].mem /\ Sound(s) => <<"blobs", s>> \in store
StoreOK(s) ==
    /\ fin[s].st \in PastDisk => <<"disk", fin[s].disk>> \in store
    /\ job[s].disk # 0 => <<"disk", job[s].disk>> \in store
    /\ fin[s].mem => <<"memory", s>> \in store
    /\ fin[s].st = "BlobsUploaded" => HasBlobs(s)
    /\ job[s].pc # "none" /\ job[s].st = "BlobsUploaded" => HasBlobs(s)

\* What was advertised, or recorded, is at the end of its ladder and in the store.
Published(s) == s \in adv \/ hb[s] # "none" \/ row[s] # "absent"
PublishedOK(s) ==
    Published(s) =>
        /\ fin[s].st \in PastMemory \cup {"failed"}
        /\ <<"disk", fin[s].disk>> \in store /\ HasBlobs(s)

SandboxesOK == MintOK /\ CapsOK /\ LockOK /\ RecordsOK /\ VolumesOK /\ ChainOK
SnapOK(s) == JobOK(s) /\ WholeOK(s) /\ StoreOK(s) /\ PublishedOK(s)
IInv == TypeOK /\ OpOK /\ SandboxesOK /\ \A s \in Snap : SnapOK(s)

-----------------------------------------------------------------------------
(* What a step leaves alone.                                               *)

\* Captures a step does not touch keep what is known of them: sandboxes are spoilt
\* and parts are stored for good.
Grown == spoilt \subseteq spoilt' /\ store \subseteq store'
SteadyAt(s) ==
    /\ fin'[s] = fin[s] /\ job'[s] = job[s]
    /\ Published(s)' => Published(s)
    /\ fin[s].sb # None /\ cap'[fin[s].sb] = s => cap[fin[s].sb] = s
LEMMA SteadySnap ==
    ASSUME NEW s \in Snap, SnapOK(s), Grown, SteadyAt(s)
    PROVE  SnapOK(s)'
<1> USE DEF Grown, SteadyAt
<1>1. Sound(s)' => Sound(s)
  BY DEF Sound
<1>2. JobOK(s)'
  BY DEF SnapOK, JobOK, OnDisk, AtStage, Stepping
<1>3. WholeOK(s)'
  BY <1>1 DEF SnapOK, WholeOK, OnDisk
<1>4. HasBlobs(s) => HasBlobs(s)'
  BY <1>1 DEF HasBlobs
<1>5. StoreOK(s)'
  BY <1>4 DEF SnapOK, StoreOK
<1>6. PublishedOK(s)'
  BY <1>4 DEF SnapOK, PublishedOK
<1> QED
  BY <1>2, <1>3, <1>5, <1>6 DEF SnapOK

\* The coordinator touches nothing of the host: what is known of sandboxes and
\* captures stays.
CoordOnly ==
    /\ UNCHANGED <<disk, chain, cap, fin, job, store, spoilt>>
    /\ used'.sandboxes = used.sandboxes /\ used'.captures = used.captures
    /\ sess'.sb \in {None, sess.sb}
    /\ \A s \in Snap : Published(s)' => Published(s)
LEMMA CoordKeeps ==
    ASSUME IInv, CoordOnly
    PROVE  SandboxesOK' /\ \A s \in Snap : SnapOK(s)'
<1> USE DEF CoordOnly
<1>1. MintOK'
  BY DEF IInv, SandboxesOK, MintOK
<1>2. CapsOK'
  BY DEF IInv, SandboxesOK, CapsOK
<1>3. LockOK'
  BY DEF IInv, SandboxesOK, LockOK, Holds
<1>4. RecordsOK'
  BY DEF IInv, SandboxesOK, RecordsOK, OnDisk, Sound
<1>5. VolumesOK'
  BY DEF IInv, SandboxesOK, VolumesOK, CaptureKept, Sound
<1>6. ChainOK'
  BY DEF IInv, SandboxesOK, ChainOK, OnDisk
<1>7. \A s \in Snap : SnapOK(s)'
  BY SteadySnap DEF IInv, Grown, SteadyAt
<1> QED
  BY <1>1, <1>2, <1>3, <1>4, <1>5, <1>6, <1>7 DEF SandboxesOK

-----------------------------------------------------------------------------
(* Steps of the coordinator and of heartbeats.                              *)

\* An op that ends, or is enqueued, is one that may be.
LEMMA OpValues ==
    /\ \A st \in OpEnded : /\ Ended(st) \in OpType
                           /\ Ended(st).st = st /\ Ended(st).sb = None
    /\ \A nom \in BOOLEAN : /\ Queued(nom) \in OpType /\ Queued(nom).st = "queued"
                            /\ Queued(nom).sb = None /\ Queued(nom).att = 0
BY EvictionConstants DEF Ended, Queued, OpType, OpState, OpEnded

\* The verdict on an attempt keeps the op and the session well formed.
LEMMA EndAttemptKeeps ==
    ASSUME IInv, EndAttempt, UNCHANGED used
    PROVE  sess' \in SessType /\ sess'.sb = sess.sb /\ evict' \in OpType /\ OpOK'
<1>1. sess \in SessType /\ evict \in OpType /\ OpOK
  BY DEF IInv, TypeOK
<1>2. CASE evict.att < MaxEvictAttempts
  BY <1>1, <1>2 DEF EndAttempt, OpOK, OpType, OpState, OpEnded
<1>3. CASE ~(evict.att < MaxEvictAttempts)
  <2>1. evict' = Ended("failed")
    BY <1>3 DEF EndAttempt
  <2>2. sess' \in SessType /\ sess'.sb = sess.sb
    BY <1>1, <1>3 DEF EndAttempt, SessType, Status
  <2> QED
    BY <1>1, <2>1, <2>2, OpValues DEF OpOK, OpEnded
<1> QED
  BY <1>2, <1>3

CoordStep ==
    \/ Nominate \/ AdminEvict \/ ClaimEvict \/ BeginFails \/ LoseAnswer
    \/ FinishEviction \/ GraceEnds \/ ScannerAdvance \/ AscendProbe \/ AscendFlip
    \/ AscendDies \/ BeginObserves \/ ReconcileMissing \/ RecoverHostLost
    \/ \E s \in Snap : Advertise(s) \/ RecordSnapshot(s) \/ Settle(s) \/ Acknowledge(s)
                         \/ LoseHeartbeat(s)

\* The session and its op after a step of the coordinator.
LEMMA CoordOp ==
    ASSUME IInv, CoordStep
    PROVE  /\ sess' \in SessType /\ sess'.sb \in {None, sess.sb}
           /\ evict' \in OpType /\ OpOK'
<1> DEFINE Goal == /\ sess' \in SessType /\ sess'.sb \in {None, sess.sb}
                   /\ evict' \in OpType /\ OpOK'
<1>0. sess \in SessType /\ evict \in OpType /\ OpOK /\ MintOK /\ used \in UsedType
  BY DEF IInv, TypeOK, SandboxesOK
<1>a. CASE UNCHANGED <<evict, used>> /\ sess' \in SessType /\ sess'.sb \in {None, sess.sb}
  BY <1>0, <1>a DEF OpOK
<1>b. ASSUME NEW st \in OpEnded, evict' = Ended(st),
             sess' \in SessType, sess'.sb \in {None, sess.sb}
      PROVE  Goal
  BY <1>b, OpValues DEF OpOK, OpEnded
<1>c. ASSUME NEW nom \in BOOLEAN, evict' = Queued(nom), UNCHANGED used,
             sess' \in SessType, sess'.sb \in {None, sess.sb}
      PROVE  Goal
  BY <1>c, OpValues, EvictionConstants DEF OpOK, OpEnded
<1>1. CASE Nominate
  BY <1>0, <1>1, <1>c DEF Nominate, SessType, Status
<1>2. CASE AdminEvict
  BY <1>0, <1>2, <1>c DEF AdminEvict
<1>3. CASE ClaimEvict
  <2>1. CASE MayEnter /\ sess.sb # None
    <3> DEFINE v == [evict EXCEPT !.st = "running", !.att = evict.att + 1, !.sb = sess.sb]
    <3>1. evict' = v /\ sess' = sess /\ used' = used /\ evict.att < MaxEvictAttempts
      BY <1>0, <1>3, <2>1 DEF ClaimEvict, OpOK
    <3>a. evict.att + 1 \in 0 .. MaxEvictAttempts /\ sess.sb \in Sandbox \cup {None}
      BY <1>0, <3>1, EvictionConstants DEF OpType, SessType
    <3>2. v \in OpType /\ v.st = "running" /\ v.sb = sess.sb
      BY <1>0, <3>a DEF OpType, OpState
    <3> HIDE DEF v
    <3> QED
      BY <1>0, <3>1, <3>2 DEF MintOK, OpOK, OpEnded
  <2>2. CASE ~(MayEnter /\ sess.sb # None)
    <3>1. sess' \in SessType /\ sess'.sb = sess.sb /\ evict' = Ended("done")
      BY <1>0, <1>3, <2>2 DEF ClaimEvict, SessType, Status
    <3> QED
      BY <1>b, <3>1 DEF OpEnded
  <2> QED
    BY <2>1, <2>2
<1>4. CASE BeginFails
  BY <1>4, EndAttemptKeeps DEF BeginFails
<1>5. CASE LoseAnswer
  BY <1>5, EndAttemptKeeps DEF LoseAnswer
<1>6. CASE FinishEviction
  BY <1>0, <1>6, <1>b DEF FinishEviction, OpEnded, SessType, Status
<1>7. CASE GraceEnds
  BY <1>0, <1>7, <1>b DEF GraceEnds, OpEnded
<1>8. CASE ScannerAdvance
  <2>1. CASE sess' = [sess EXCEPT !.st = "HostLost"] /\ evict' = evict
    BY <1>0, <1>8, <1>a, <2>1 DEF ScannerAdvance, SessType, Status
  <2>2. CASE evict' = Queued(TRUE) /\ sess' = sess
    BY <1>0, <1>8, <1>c, <2>2 DEF ScannerAdvance
  <2> QED
    BY <1>8, <2>1, <2>2 DEF ScannerAdvance
<1>9. CASE AscendProbe
  BY <1>0, <1>9, <1>b DEF AscendProbe, OpEnded
<1>10. CASE AscendFlip
  BY <1>0, <1>10, <1>a DEF AscendFlip, SessType, Status
<1>11. CASE AscendDies
  BY <1>0, <1>11, <1>a DEF AscendDies
<1>12. CASE BeginObserves
  BY <1>0, <1>12 DEF BeginObserves, OpOK, OpType, OpState, OpEnded
<1>13. CASE ReconcileMissing
  BY <1>0, <1>13, <1>a DEF ReconcileMissing, SessType, Status
<1>14. CASE RecoverHostLost
  BY <1>0, <1>14, <1>a DEF RecoverHostLost, SessType, Status
<1>15. ASSUME NEW s \in Snap, Advertise(s) \/ RecordSnapshot(s) \/ Acknowledge(s) \/ LoseHeartbeat(s)
       PROVE  Goal
  BY <1>0, <1>15, <1>a DEF Advertise, RecordSnapshot, Acknowledge, LoseHeartbeat
<1>16. ASSUME NEW s \in Snap, Settle(s) PROVE Goal
  BY <1>0, <1>16, <1>a DEF Settle, SessType, Status
<1> QED
  BY <1>1, <1>2, <1>3, <1>4, <1>5, <1>6, <1>7, <1>8, <1>9, <1>10, <1>11, <1>12, <1>13,
     <1>14, <1>15, <1>16 DEF CoordStep

\* The rest after a step of the coordinator: a heartbeat's handler only works on what
\* was advertised.
LEMMA CoordRest ==
    ASSUME IInv, CoordStep
    PROVE  /\ UNCHANGED <<vm, disk, chain, cap, pend, fin, job, store, redriven, spoilt>>
           /\ used' \in UsedType
           /\ used'.sandboxes = used.sandboxes /\ used'.captures = used.captures
           /\ asc' \in BOOLEAN /\ tomb' \subseteq Sandbox /\ faults' \in 0 .. MaxFaults
           /\ adv' \subseteq adv
           /\ row' \in [Snap -> {"absent", "lost", "recoverable"}]
           /\ hb' \in [Snap -> {"none", "sent", "recorded", "acked"}]
           /\ \A s \in Snap : Published(s)' => Published(s)
<1>0. TypeOK
  BY DEF IInv
<1>1. UNCHANGED <<vm, disk, chain, cap, pend, fin, job, store, redriven, spoilt>>
  BY DEF CoordStep, Nominate, AdminEvict, ClaimEvict, BeginFails, LoseAnswer, FinishEviction,
     GraceEnds, ScannerAdvance, AscendProbe, AscendFlip, AscendDies, BeginObserves,
     ReconcileMissing, RecoverHostLost, Advertise, RecordSnapshot, Settle, Acknowledge,
     LoseHeartbeat, hostVars
<1>2. UNCHANGED used \/ AscendProbe
  BY DEF CoordStep, Nominate, AdminEvict, ClaimEvict, BeginFails, LoseAnswer, FinishEviction,
     GraceEnds, ScannerAdvance, AscendProbe, AscendFlip, AscendDies, BeginObserves,
     ReconcileMissing, RecoverHostLost, Advertise, RecordSnapshot, Settle, Acknowledge,
     LoseHeartbeat
<1>3. /\ used' \in UsedType
      /\ used'.sandboxes = used.sandboxes /\ used'.captures = used.captures
  BY <1>0, <1>2, EvictionConstants DEF AscendProbe, TypeOK, UsedType
<1>4. asc' \in BOOLEAN
  BY <1>0 DEF CoordStep, Nominate, AdminEvict, ClaimEvict, BeginFails, LoseAnswer,
     FinishEviction, GraceEnds, ScannerAdvance, AscendProbe, AscendFlip, AscendDies,
     BeginObserves, ReconcileMissing, RecoverHostLost, Advertise, RecordSnapshot, Settle,
     Acknowledge, LoseHeartbeat, TypeOK
<1>5. UNCHANGED faults \/ Fault
  BY DEF CoordStep, Nominate, AdminEvict, ClaimEvict, BeginFails, LoseAnswer, FinishEviction,
     GraceEnds, ScannerAdvance, AscendProbe, AscendFlip, AscendDies, BeginObserves,
     ReconcileMissing, RecoverHostLost, Advertise, RecordSnapshot, Settle, Acknowledge,
     LoseHeartbeat
<1>6. faults' \in 0 .. MaxFaults
  BY <1>0, <1>5, EvictionConstants DEF Fault, TypeOK
<1>s. ASSUME NEW s \in Snap, Settle(s), Settles(s) PROVE sess.sb # None
  <2>1. fin[s].st # "none"
    BY <1>s DEF IInv, SnapOK, PublishedOK, Published, Settle, PastMemory
  <2> QED
    BY <1>s, <2>1 DEF IInv, SandboxesOK, MintOK, Settles
<1>7. tomb' \subseteq tomb \cup ({sess.sb} \ {None})
  BY <1>s DEF CoordStep, Nominate, AdminEvict, ClaimEvict, BeginFails, LoseAnswer, FinishEviction,
     GraceEnds, ScannerAdvance, AscendProbe, AscendFlip, AscendDies, BeginObserves,
     ReconcileMissing, RecoverHostLost, Advertise, RecordSnapshot, Settle, Acknowledge,
     LoseHeartbeat
<1>8. tomb' \subseteq Sandbox
  BY <1>0, <1>7 DEF TypeOK, SessType
<1> DEFINE Beat == /\ adv' \subseteq adv
                   /\ row' \in [Snap -> {"absent", "lost", "recoverable"}]
                   /\ hb' \in [Snap -> {"none", "sent", "recorded", "acked"}]
                   /\ \A s \in Snap : Published(s)' => Published(s)
<1>9. \/ UNCHANGED <<adv, row, hb>>
      \/ \E s \in Snap : Advertise(s) \/ RecordSnapshot(s) \/ Settle(s) \/ Acknowledge(s)
                           \/ LoseHeartbeat(s)
  BY DEF CoordStep, Nominate, AdminEvict, ClaimEvict, BeginFails, LoseAnswer, FinishEviction,
     GraceEnds, ScannerAdvance, AscendProbe, AscendFlip, AscendDies, BeginObserves,
     ReconcileMissing, RecoverHostLost, hostVars
<1>10. ASSUME UNCHANGED <<adv, row, hb>> PROVE Beat
  BY <1>0, <1>10 DEF TypeOK, Published
<1>11. ASSUME NEW s \in Snap, Advertise(s) \/ LoseHeartbeat(s) PROVE Beat
  BY <1>0, <1>11 DEF Advertise, LoseHeartbeat, hostVars, TypeOK, Published
<1>12. ASSUME NEW s \in Snap, RecordSnapshot(s) PROVE Beat
  BY <1>0, <1>12 DEF RecordSnapshot, hostVars, TypeOK, Published
<1>13. ASSUME NEW s \in Snap, Settle(s) PROVE Beat
  BY <1>0, <1>13 DEF Settle, hostVars, TypeOK, Published
<1>14. ASSUME NEW s \in Snap, Acknowledge(s) PROVE Beat
  BY <1>0, <1>14 DEF Acknowledge, TypeOK, Published
<1>15. Beat
  BY <1>9, <1>10, <1>11, <1>12, <1>13, <1>14
<1> QED
  BY <1>1, <1>3, <1>4, <1>6, <1>8, <1>15

\* So a step of the coordinator keeps the invariant.
LEMMA CoordIInv == ASSUME IInv, CoordStep PROVE IInv'
<1>1. CoordOnly
  BY CoordOp, CoordRest DEF CoordOnly
<1>2. TypeOK'
  BY CoordOp, CoordRest DEF IInv, TypeOK
<1> QED
  BY <1>1, <1>2, CoordOp, CoordKeeps DEF IInv

-----------------------------------------------------------------------------
(* Steps of a job up its ladder.                                            *)

\* The records and the jobs after a step that writes one of them.
LEMMA PutRecord ==
    ASSUME TypeOK, NEW s \in Snap, NEW v \in RecordType, fin' = [fin EXCEPT ![s] = v]
    PROVE  /\ fin' \in [Snap -> RecordType] /\ fin'[s] = v
           /\ \A r \in Snap : r # s => fin'[r] = fin[r]
BY DEF TypeOK
LEMMA PutJob ==
    ASSUME TypeOK, NEW s \in Snap, NEW v \in JobType, job' = [job EXCEPT ![s] = v]
    PROVE  /\ job' \in [Snap -> JobType] /\ job'[s] = v
           /\ \A r \in Snap : r # s => job'[r] = job[r]
BY DEF TypeOK

\* A job that holds the lock, or takes it, and works on its own record leaves the
\* sandboxes as they should be.
Climbs(s) ==
    /\ \A r \in Snap : r # s => fin'[r] = fin[r] /\ job'[r] = job[r]
    /\ UNCHANGED <<cap, disk, chain, spoilt, used, sess, hb, row>>
    /\ store \subseteq store' /\ adv' \subseteq adv \cup {s}
    /\ Holds(s) \/ ~Locked(fin[s].sb)
    /\ job[s].pc \notin {"none", "destroy"} /\ OnDisk(s)
    /\ fin'[s].sb = fin[s].sb
    /\ fin'[s].st = "Captured" => fin[s].st = "Captured"
    /\ \/ fin'[s].st \in Ladder
       \/ fin'[s].st = "deleted" /\ job'[s].pc = "destroy"
    /\ job'[s].disk \in {0, job[s].disk}
LEMMA Climb ==
    ASSUME IInv, NEW s \in Snap, Climbs(s), SnapOK(s)'
    PROVE  SandboxesOK' /\ \A r \in Snap : SnapOK(r)'
<1> USE DEF Climbs
<1>1. MintOK /\ CapsOK /\ LockOK /\ RecordsOK /\ VolumesOK /\ ChainOK /\ TypeOK
  BY DEF IInv, SandboxesOK
<1>2. fin[s].sb # None /\ fin[s].st # "none" /\ fin'[s].st # "none"
  BY <1>1 DEF IInv, SnapOK, JobOK, OnDisk, Ladder
<1>3. \A r \in Snap : /\ fin'[r].sb = fin[r].sb
                      /\ fin'[r].st \in Ladder => fin[r].st \in Ladder
                      /\ fin'[r].st = "Captured" => fin[r].st = "Captured"
                      /\ fin'[r].st = "none" <=> fin[r].st = "none"
  BY <1>2 DEF OnDisk
<1>4. MintOK'
  BY <1>1, <1>2, <1>3 DEF MintOK
<1>5. \A sb \in Sandbox : cap[sb] # None => cap[sb] \in Snap /\ cap[sb] # s
  BY <1>1, <1>2 DEF CapsOK, TypeOK, Snap, None
<1>6. CapsOK'
  BY <1>1, <1>5 DEF CapsOK
<1>7. LockOK'
  <2>1. ASSUME NEW r \in Snap, r # s, Holds(r), fin[r].sb = fin[s].sb PROVE FALSE
    BY <1>1, <2>1 DEF LockOK, Locked, Holds
  <2>2. cap[fin[s].sb] = None
    BY <1>1 DEF LockOK, Locked
  <2> QED
    BY <1>1, <1>3, <2>1, <2>2 DEF LockOK, Holds
<1>8. RecordsOK'
  BY <1>1, <1>3 DEF RecordsOK, OnDisk, Sound
<1>9. VolumesOK'
  <2>1. \A r \in Snap : job'[r].disk \in {0, job[r].disk}
    OBVIOUS
  <2>2. CaptureKept'
    BY <1>1, <1>3 DEF VolumesOK, CaptureKept
  <2> QED
    BY <1>1, <1>3, <2>1, <2>2 DEF VolumesOK, Sound
<1>10. ChainOK'
  <2>1. ASSUME NEW sb \in Sandbox, NEW r \in Snap, fin[r].sb = sb, OnDisk(r) \/ job[r].pc = "destroy"
        PROVE  fin'[r].sb = sb /\ (fin'[r].st \in Ladder \/ job'[r].pc = "destroy")
    BY <1>3, <2>1 DEF OnDisk
  <2> QED
    BY <1>1, <2>1 DEF ChainOK, OnDisk
<1>11. ASSUME NEW r \in Snap, r # s PROVE SnapOK(r)'
  BY <1>11, SteadySnap DEF IInv, Grown, SteadyAt, Published
<1> QED
  BY <1>4, <1>6, <1>7, <1>8, <1>9, <1>10, <1>11 DEF SandboxesOK

\* A redriven job gets the lock.
LEMMA StartJobKeeps ==
    ASSUME IInv, NEW s \in Snap, StartJob(s)
    PROVE  IInv'
<1> DEFINE v == [job[s] EXCEPT !.pc = "run"]
<1>1. TypeOK /\ OpOK /\ SnapOK(s)
  BY DEF IInv
<1>2. v \in JobType /\ v.pc = "run" /\ v.st = job[s].st /\ v.disk = job[s].disk
  BY <1>1 DEF TypeOK, JobType
<1>3. job' = [job EXCEPT ![s] = v]
  BY DEF StartJob
<1> HIDE DEF v
<1>4. /\ job' \in [Snap -> JobType] /\ job'[s] = v
      /\ \A r \in Snap : r # s => job'[r] = job[r]
  BY <1>1, <1>2, <1>3, PutJob
<1>5. /\ UNCHANGED <<sess, evict, asc, row, tomb, hb, vm, disk, chain, cap, pend, fin, adv, store,
                   redriven, spoilt, used, faults>>
      /\ job[s].pc = "wait" /\ ~Locked(fin[s].sb)
  BY DEF StartJob, coordVars
<1>6. SnapOK(s)'
  <2>1. JobOK(s)'
    BY <1>1, <1>2, <1>4, <1>5 DEF SnapOK, JobOK, OnDisk, AtStage, Stepping
  <2>2. WholeOK(s)'
    BY <1>1, <1>5 DEF SnapOK, WholeOK, OnDisk, Sound
  <2>3. StoreOK(s)'
    BY <1>1, <1>2, <1>4, <1>5 DEF SnapOK, StoreOK, HasBlobs, Sound
  <2>4. PublishedOK(s)'
    BY <1>1, <1>5 DEF SnapOK, PublishedOK, HasBlobs, Published, Sound
  <2> QED
    BY <2>1, <2>2, <2>3, <2>4 DEF SnapOK
<1>7. Climbs(s)
  BY <1>1, <1>2, <1>4, <1>5 DEF Climbs, SnapOK, JobOK, OnDisk
<1>8. TypeOK' /\ OpOK'
  BY <1>1, <1>4, <1>5 DEF TypeOK, OpOK
<1> QED
  BY <1>6, <1>7, <1>8, Climb DEF IInv

\* The records, and the jobs, after a step that changed those of one capture.
RecordAt(s, v) ==
    /\ fin' \in [Snap -> RecordType] /\ fin'[s] = v
    /\ \A r \in Snap : r # s => fin'[r] = fin[r]
JobAt(s, w) ==
    /\ job' \in [Snap -> JobType] /\ job'[s] = w
    /\ \A r \in Snap : r # s => job'[r] = job[r]

LEMMA RecordSame ==
    ASSUME TypeOK, NEW s \in Snap, fin' = fin
    PROVE  RecordAt(s, fin[s])
BY DEF TypeOK, RecordAt

\* A job at a stage of its own has the record at that stage, unless it is the blobs'.
LEMMA StageOfRecord ==
    ASSUME IInv, NEW s \in Snap, NEW st \in Ladder \ {"BlobsUploaded"}, Stepping(s, st)
    PROVE  fin[s].st = st /\ OnDisk(s) /\ fin[s].sb \in Sandbox /\ Holds(s)
BY DEF IInv, SnapOK, JobOK, AtStage, Stepping, Holds, TypeOK, RecordType

\* The disk stage is made durable: the disk that was published is the capture's.
LEMMA PersistDiskKeeps ==
    ASSUME IInv, NEW s \in Snap, PersistDisk(s)
    PROVE  IInv'
<1> DEFINE v == [fin[s] EXCEPT !.st = "DiskUploaded", !.disk = job[s].disk]
           w == [job[s] EXCEPT !.st = "DiskUploaded", !.disk = 0]
<1>0. 0 \in 0 .. MaxCaptures
  BY EvictionConstants
<1>1. TypeOK /\ OpOK /\ SnapOK(s) /\ VolumesOK /\ fin[s] \in RecordType /\ job[s] \in JobType
  BY DEF IInv, TypeOK, SandboxesOK
<1>2. /\ v \in RecordType /\ v.st = "DiskUploaded" /\ v.disk = job[s].disk
      /\ v.sb = fin[s].sb /\ v.whole = fin[s].whole /\ v.staged = fin[s].staged /\ v.mem = fin[s].mem
  BY <1>1 DEF RecordType, JobType, Ladder
<1>3. w \in JobType /\ w.pc = job[s].pc /\ w.st = "DiskUploaded" /\ w.disk = 0
  BY <1>1, <1>0 DEF JobType, Ladder
<1>4. fin' = [fin EXCEPT ![s] = v] /\ job' = [job EXCEPT ![s] = w]
  BY <1>1 DEF PersistDisk, TypeOK
<1> HIDE DEF v, w
<1>5. RecordAt(s, v) /\ JobAt(s, w)
  BY <1>1, <1>2, <1>3, <1>4, PutRecord, PutJob DEF RecordAt, JobAt
<1>6. /\ UNCHANGED <<sess, evict, asc, row, tomb, hb, vm, disk, chain, cap, pend, adv, store,
                     redriven, spoilt, used, faults>>
      /\ Stepping(s, "Captured") /\ job[s].disk # 0
  BY DEF PersistDisk, coordVars
<1>7. fin[s].st = "Captured" /\ OnDisk(s) /\ fin[s].sb \in Sandbox /\ Holds(s) /\ job[s].pc = "run"
  BY <1>6, StageOfRecord DEF Ladder, Stepping
<1>8. SnapOK(s)'
  <2>1. JobOK(s)'
    BY <1>1, <1>2, <1>3, <1>5, <1>7 DEF SnapOK, JobOK, OnDisk, AtStage, RecordAt, JobAt, Ladder
  <2>2. WholeOK(s)'
    BY <1>1, <1>2, <1>5, <1>6, <1>7
       DEF SnapOK, WholeOK, OnDisk, Sound, RecordAt, PastDisk, PastMemory, VolumesOK
  <2>3. StoreOK(s)'
    BY <1>1, <1>2, <1>3, <1>5, <1>6 DEF SnapOK, StoreOK, RecordAt, JobAt
  <2>4. ~Published(s) /\ PublishedOK(s)'
    BY <1>1, <1>6, <1>7 DEF SnapOK, PublishedOK, Published, PastMemory
  <2> QED
    BY <2>1, <2>2, <2>3, <2>4 DEF SnapOK
<1>9. Climbs(s)
  BY <1>2, <1>3, <1>5, <1>6, <1>7 DEF Climbs, RecordAt, JobAt, OnDisk, Ladder
<1>10. TypeOK' /\ OpOK'
  BY <1>1, <1>5, <1>6 DEF TypeOK, OpOK, RecordAt, JobAt
<1> QED
  BY <1>8, <1>9, <1>10, Climb DEF IInv

\* The memory stage is made durable: with the staged memory, if it is there.
LEMMA PersistMemoryKeeps ==
    ASSUME IInv, NEW s \in Snap, PersistMemory(s)
    PROVE  IInv'
<1> DEFINE v == [fin[s] EXCEPT !.st = "MemoryChunked", !.mem = fin[s].staged]
           w == [job[s] EXCEPT !.st = "MemoryChunked"]
<1>1. TypeOK /\ OpOK /\ SnapOK(s) /\ fin[s] \in RecordType /\ job[s] \in JobType
  BY DEF IInv, TypeOK
<1>2. /\ v \in RecordType /\ v.st = "MemoryChunked" /\ v.disk = fin[s].disk /\ v.sb = fin[s].sb
      /\ v.whole = fin[s].whole /\ v.staged = fin[s].staged /\ v.mem = fin[s].staged
  BY <1>1 DEF RecordType, Ladder
<1>3. w \in JobType /\ w.pc = job[s].pc /\ w.st = "MemoryChunked" /\ w.disk = job[s].disk
  BY <1>1 DEF JobType, Ladder
<1>4. fin' = [fin EXCEPT ![s] = v] /\ job' = [job EXCEPT ![s] = w]
  BY <1>1 DEF PersistMemory, TypeOK
<1> HIDE DEF v, w
<1>5. RecordAt(s, v) /\ JobAt(s, w)
  BY <1>1, <1>2, <1>3, <1>4, PutRecord, PutJob DEF RecordAt, JobAt
<1>6. /\ UNCHANGED <<sess, evict, asc, row, tomb, hb, vm, disk, chain, cap, pend, adv,
                     redriven, spoilt, used, faults>>
      /\ Stepping(s, "DiskUploaded")
      /\ store' = IF fin[s].staged THEN store \cup {<<"memory", s>>} ELSE store
  BY DEF PersistMemory, coordVars
<1>a. store \subseteq store' /\ store' \subseteq Parts \X Snap /\ (fin[s].staged => <<"memory", s>> \in store')
  BY <1>1, <1>6 DEF TypeOK, Parts
<1>7. fin[s].st = "DiskUploaded" /\ OnDisk(s) /\ fin[s].sb \in Sandbox /\ Holds(s) /\ job[s].pc = "run"
  BY <1>6, StageOfRecord DEF Ladder, Stepping
<1>b. job[s].disk = 0
  BY <1>1, <1>6 DEF SnapOK, JobOK, Stepping
<1>8. SnapOK(s)'
  <2>1. JobOK(s)'
    BY <1>1, <1>2, <1>3, <1>5, <1>7, <1>b DEF SnapOK, JobOK, OnDisk, AtStage, RecordAt, JobAt, Ladder
  <2>2. WholeOK(s)'
    BY <1>1, <1>2, <1>5, <1>6, <1>7
       DEF SnapOK, WholeOK, OnDisk, Sound, RecordAt, PastDisk, PastMemory
  <2>3. StoreOK(s)'
    BY <1>1, <1>2, <1>3, <1>5, <1>7, <1>a, <1>b DEF SnapOK, StoreOK, RecordAt, JobAt, PastDisk
  <2>4. PublishedOK(s)'
    BY <1>1, <1>6, <1>7 DEF SnapOK, PublishedOK, Published, PastMemory
  <2> QED
    BY <2>1, <2>2, <2>3, <2>4 DEF SnapOK
<1>9. Climbs(s)
  BY <1>2, <1>3, <1>5, <1>6, <1>7, <1>a DEF Climbs, RecordAt, JobAt, OnDisk, Ladder
<1>10. TypeOK' /\ OpOK'
  BY <1>1, <1>5, <1>6, <1>a DEF TypeOK, OpOK, RecordAt, JobAt
<1> QED
  BY <1>8, <1>9, <1>10, Climb DEF IInv

\* A sound capture whose memory was published has its state blobs once they go up.
LEMMA BlobsGoUp ==
    ASSUME TypeOK, NEW s \in Snap, SnapOK(s), OnDisk(s)
    PROVE  /\ BlobsOf(s) \subseteq Parts \X Snap
           /\ Sound(s) => <<"blobs", s>> \in store \cup BlobsOf(s)
BY DEF BlobsOf, SnapOK, WholeOK, Parts

\* The blobs are uploaded and their stage made durable.
LEMMA UploadBlobsKeeps ==
    ASSUME IInv, NEW s \in Snap, UploadBlobs(s)
    PROVE  IInv'
<1> DEFINE v == [fin[s] EXCEPT !.st = "BlobsUploaded"]
           w == [job[s] EXCEPT !.st = "BlobsUploaded"]
<1>1. TypeOK /\ OpOK /\ SnapOK(s) /\ fin[s] \in RecordType /\ job[s] \in JobType
  BY DEF IInv, TypeOK
<1>2. /\ v \in RecordType /\ v.st = "BlobsUploaded" /\ v.disk = fin[s].disk /\ v.sb = fin[s].sb
      /\ v.whole = fin[s].whole /\ v.staged = fin[s].staged /\ v.mem = fin[s].mem
  BY <1>1 DEF RecordType, Ladder
<1>3. w \in JobType /\ w.pc = job[s].pc /\ w.st = "BlobsUploaded" /\ w.disk = job[s].disk
  BY <1>1 DEF JobType, Ladder
<1>4. fin' = [fin EXCEPT ![s] = v] /\ job' = [job EXCEPT ![s] = w]
  BY <1>1 DEF UploadBlobs, TypeOK
<1> HIDE DEF v, w
<1>5. RecordAt(s, v) /\ JobAt(s, w)
  BY <1>1, <1>2, <1>3, <1>4, PutRecord, PutJob DEF RecordAt, JobAt
<1>6. /\ UNCHANGED <<sess, evict, asc, row, tomb, hb, vm, disk, chain, cap, pend, adv,
                     redriven, spoilt, used, faults>>
      /\ Stepping(s, "MemoryChunked")
      /\ store' = store \cup BlobsOf(s)
  BY DEF UploadBlobs, coordVars
<1>7. fin[s].st = "MemoryChunked" /\ OnDisk(s) /\ fin[s].sb \in Sandbox /\ Holds(s) /\ job[s].pc = "run"
  BY <1>6, StageOfRecord DEF Ladder, Stepping
<1>a. store \subseteq store' /\ store' \subseteq Parts \X Snap /\ (Sound(s) => <<"blobs", s>> \in store')
  BY <1>1, <1>6, <1>7, BlobsGoUp DEF TypeOK
<1>b. job[s].disk = 0
  BY <1>1, <1>6 DEF SnapOK, JobOK, Stepping
<1>c. HasBlobs(s)'
  BY <1>2, <1>5, <1>6, <1>a DEF HasBlobs, Sound, RecordAt
<1>8. SnapOK(s)'
  <2>1. JobOK(s)'
    BY <1>1, <1>2, <1>3, <1>5, <1>7, <1>b DEF SnapOK, JobOK, OnDisk, AtStage, RecordAt, JobAt, Ladder
  <2>2. WholeOK(s)'
    BY <1>1, <1>2, <1>5, <1>6, <1>7
       DEF SnapOK, WholeOK, OnDisk, Sound, RecordAt, PastDisk, PastMemory
  <2>3. StoreOK(s)'
    BY <1>1, <1>2, <1>3, <1>5, <1>7, <1>a, <1>b, <1>c DEF SnapOK, StoreOK, RecordAt, JobAt, PastDisk
  <2>4. PublishedOK(s)'
    BY <1>1, <1>2, <1>5, <1>6, <1>7, <1>a, <1>c
       DEF SnapOK, PublishedOK, Published, PastMemory, RecordAt
  <2> QED
    BY <2>1, <2>2, <2>3, <2>4 DEF SnapOK
<1>9. Climbs(s)
  BY <1>2, <1>3, <1>5, <1>6, <1>7, <1>a DEF Climbs, RecordAt, JobAt, OnDisk, Ladder
<1>10. TypeOK' /\ OpOK'
  BY <1>1, <1>5, <1>6, <1>a DEF TypeOK, OpOK, RecordAt, JobAt
<1> QED
  BY <1>8, <1>9, <1>10, Climb DEF IInv

\* The checkpoint record is written: what it advertises is in the store.
LEMMA PersistCheckpointKeeps ==
    ASSUME IInv, NEW s \in Snap, PersistCheckpoint(s)
    PROVE  IInv'
<1> DEFINE w == [job[s] EXCEPT !.pc = "delete"]
<1>1. TypeOK /\ OpOK /\ SnapOK(s) /\ fin[s] \in RecordType /\ job[s] \in JobType
  BY DEF IInv, TypeOK
<1>2. w \in JobType /\ w.pc = "delete" /\ w.st = job[s].st /\ w.disk = job[s].disk
  BY <1>1 DEF JobType
<1>3. job' = [job EXCEPT ![s] = w]
  BY <1>1 DEF PersistCheckpoint, TypeOK
<1> HIDE DEF w
<1>4. JobAt(s, w)
  BY <1>1, <1>2, <1>3, PutJob DEF JobAt
<1>5. /\ UNCHANGED <<sess, evict, asc, row, tomb, hb, vm, disk, chain, cap, pend, fin, store,
                     redriven, spoilt, used, faults>>
      /\ Stepping(s, "BlobsUploaded") /\ adv' = adv \cup {s}
  BY DEF PersistCheckpoint, coordVars, TerminalStage
<1>6. /\ fin[s].st \in {"MemoryChunked", "BlobsUploaded"} /\ OnDisk(s) /\ Holds(s)
      /\ job[s].pc = "run" /\ job[s].st = "BlobsUploaded" /\ job[s].disk = 0 /\ HasBlobs(s)
      /\ <<"disk", fin[s].disk>> \in store
  BY <1>1, <1>5 DEF SnapOK, JobOK, StoreOK, AtStage, Stepping, Holds, PastDisk
<1>7. SnapOK(s)'
  <2>1. JobOK(s)'
    BY <1>1, <1>2, <1>4, <1>5, <1>6 DEF SnapOK, JobOK, OnDisk, AtStage, JobAt
  <2>2. WholeOK(s)'
    BY <1>1, <1>5 DEF SnapOK, WholeOK, OnDisk, Sound
  <2>3. StoreOK(s)'
    BY <1>1, <1>2, <1>4, <1>5, <1>6 DEF SnapOK, StoreOK, JobAt, HasBlobs, Sound
  <2>4. PublishedOK(s)'
    BY <1>5, <1>6 DEF PublishedOK, HasBlobs, Sound, PastMemory
  <2> QED
    BY <2>1, <2>2, <2>3, <2>4 DEF SnapOK
<1>8. Climbs(s)
  BY <1>2, <1>4, <1>5, <1>6 DEF Climbs, JobAt, OnDisk
<1>9. TypeOK' /\ OpOK'
  BY <1>1, <1>4, <1>5 DEF TypeOK, OpOK, JobAt
<1> QED
  BY <1>7, <1>8, <1>9, Climb DEF IInv

\* A fault is counted.
LEMMA FaultCounts == ASSUME TypeOK, Fault PROVE faults' \in 0 .. MaxFaults
BY EvictionConstants DEF TypeOK, Fault

\* The record is removed, or could not be; the job is about to destroy its sandbox.
LEMMA DeleteRecordKeeps ==
    ASSUME IInv, NEW s \in Snap, DeleteRecord(s)
    PROVE  IInv'
<1> DEFINE v == [fin[s] EXCEPT !.st = "deleted"]
           w == [job[s] EXCEPT !.pc = "destroy"]
<1>1. TypeOK /\ OpOK /\ SnapOK(s) /\ fin[s] \in RecordType /\ job[s] \in JobType /\ fin = [fin EXCEPT ![s] = fin[s]]
  BY DEF IInv, TypeOK
<1>2. /\ v \in RecordType /\ v.st = "deleted" /\ v.disk = fin[s].disk /\ v.sb = fin[s].sb
      /\ v.whole = fin[s].whole /\ v.staged = fin[s].staged /\ v.mem = fin[s].mem
  BY <1>1 DEF RecordType
<1>3. w \in JobType /\ w.pc = "destroy" /\ w.st = job[s].st /\ w.disk = job[s].disk
  BY <1>1 DEF JobType
<1>4. job' = [job EXCEPT ![s] = w] /\ (fin' = [fin EXCEPT ![s] = v] \/ fin' = fin)
  BY <1>1 DEF DeleteRecord, TypeOK
<1> HIDE DEF v, w
<1>5. JobAt(s, w) /\ (RecordAt(s, v) \/ RecordAt(s, fin[s]))
  <2>1. JobAt(s, w)
    BY <1>1, <1>3, <1>4, PutJob DEF JobAt
  <2>2. ASSUME fin' = [fin EXCEPT ![s] = v] PROVE RecordAt(s, v)
    BY <1>1, <1>2, <2>2, PutRecord DEF RecordAt
  <2> QED
    BY <1>1, <1>4, <2>1, <2>2, RecordSame
<1>6. /\ UNCHANGED <<sess, evict, asc, row, tomb, hb, vm, disk, chain, cap, adv, store,
                     redriven, spoilt, used>>
      /\ job[s].pc = "delete" /\ pend' = [pend EXCEPT ![fin[s].sb] = None]
      /\ faults' = faults \/ Fault
  BY DEF DeleteRecord, coordVars
<1>7. /\ fin[s].st \in {"MemoryChunked", "BlobsUploaded"} /\ OnDisk(s) /\ Holds(s)
      /\ job[s].st = "BlobsUploaded" /\ job[s].disk = 0 /\ HasBlobs(s)
  BY <1>1, <1>6 DEF SnapOK, JobOK, StoreOK, AtStage, Stepping, Holds
<1>8. ASSUME NEW x, x = v \/ x = fin[s], RecordAt(s, x) PROVE SnapOK(s)' /\ Climbs(s)
  <2>0. /\ x.st \in {fin[s].st, "deleted"} /\ x.disk = fin[s].disk /\ x.sb = fin[s].sb
        /\ x.whole = fin[s].whole /\ x.staged = fin[s].staged /\ x.mem = fin[s].mem
        /\ fin'[s] = x
    BY <1>2, <1>8 DEF RecordAt
  <2>1. JobOK(s)'
    BY <1>1, <1>3, <1>5, <1>6, <1>7, <2>0 DEF SnapOK, JobOK, JobAt
  <2>2. WholeOK(s)'
    BY <1>1, <1>6, <1>7, <2>0 DEF SnapOK, WholeOK, OnDisk, Sound, PastDisk, PastMemory
  <2>3. StoreOK(s)'
    BY <1>1, <1>3, <1>5, <1>6, <1>7, <2>0 DEF SnapOK, StoreOK, JobAt, HasBlobs, Sound, PastDisk
  <2>4. PublishedOK(s)'
    BY <1>1, <1>6, <1>7, <2>0 DEF SnapOK, PublishedOK, Published, HasBlobs, Sound, PastMemory
  <2>5. Climbs(s)
    BY <1>3, <1>5, <1>6, <1>7, <1>8, <2>0 DEF Climbs, RecordAt, JobAt, OnDisk, Ladder
  <2> QED
    BY <2>1, <2>2, <2>3, <2>4, <2>5 DEF SnapOK
<1>9. TypeOK' /\ OpOK'
  <2>1. pend' \in [Sandbox -> 0 .. MaxCaptures]
    <3>1. 0 \in 0 .. MaxCaptures /\ pend \in [Sandbox -> 0 .. MaxCaptures]
      BY <1>1, EvictionConstants DEF TypeOK
    <3> QED
      BY <1>6, <3>1 DEF None
  <2> QED
    BY <1>1, <1>5, <1>6, <2>1, FaultCounts DEF TypeOK, OpOK, JobAt, RecordAt
<1> QED
  BY <1>5, <1>8, <1>9, Climb DEF IInv

\* What a failed pass leaves alone; the store may have got the blobs.
FailRest(s, st) ==
    /\ UNCHANGED <<sess, evict, asc, row, tomb, hb, vm, disk, chain, cap, adv, redriven, used>>
    /\ faults' = faults \/ Fault
    /\ job[s].pc = "run"
    /\ \/ st = job[s].st /\ store' = store
       \/ /\ job[s].st = "MemoryChunked" /\ st = "BlobsUploaded"
          /\ store' = store \cup BlobsOf(s)

\* A failed pass that is tried again.
LEMMA RetryKeeps ==
    ASSUME IInv, NEW s \in Snap, NEW st \in Ladder, Fail(s, st), FailRest(s, st),
           ~Quarantines(job[s].att + 1)
    PROVE  IInv'
<1> DEFINE att == job[s].att + 1
           v == [fin[s] EXCEPT !.st = st, !.att = att]
           w == [pc |-> "run", st |-> st, att |-> att, disk |-> 0]
<1>1. TypeOK /\ OpOK /\ SnapOK(s) /\ fin[s] \in RecordType /\ job[s] \in JobType /\ fin = [fin EXCEPT ![s] = fin[s]]
  BY DEF IInv, TypeOK
<1>a. att \in 0 .. MaxFinalizeAttempts - 1 /\ 0 \in 0 .. MaxCaptures
  BY <1>1, EvictionConstants DEF Quarantines, JobType
<1> HIDE DEF att
<1>2. /\ v \in RecordType /\ v.st = st /\ v.disk = fin[s].disk /\ v.sb = fin[s].sb
      /\ v.whole = fin[s].whole /\ v.staged = fin[s].staged /\ v.mem = fin[s].mem
  BY <1>1, <1>a DEF RecordType
<1>3. w \in JobType /\ w.pc = "run" /\ w.st = st /\ w.disk = 0
  BY <1>a DEF JobType
<1>4. /\ job' = [job EXCEPT ![s] = w] /\ (fin' = [fin EXCEPT ![s] = v] \/ fin' = fin)
      /\ UNCHANGED <<pend, spoilt>>
  <2>1. /\ job' = [job EXCEPT ![s] = w] /\ UNCHANGED <<pend, spoilt>>
        /\ fin' = [fin EXCEPT ![s].st = st, ![s].att = att] \/ fin' = fin
    BY DEF Fail, att
  <2>2. fin \in [Snap -> RecordType]
    BY <1>1 DEF TypeOK
  <2>3. [fin EXCEPT ![s].st = st, ![s].att = att] = [fin EXCEPT ![s] = v]
    BY <2>2
  <2> QED
    BY <2>1, <2>3
<1> HIDE DEF v, w
<1>5. JobAt(s, w) /\ (RecordAt(s, v) \/ RecordAt(s, fin[s]))
  <2>1. JobAt(s, w)
    BY <1>1, <1>3, <1>4, PutJob DEF JobAt
  <2>2. ASSUME fin' = [fin EXCEPT ![s] = v] PROVE RecordAt(s, v)
    BY <1>1, <1>2, <2>2, PutRecord DEF RecordAt
  <2> QED
    BY <1>1, <1>4, <2>1, <2>2, RecordSame
<1>6. /\ OnDisk(s) /\ Holds(s) /\ job[s].pc = "run" /\ AtStage(s)
  BY <1>1 DEF SnapOK, JobOK, Holds, FailRest
<1>7. /\ store \subseteq store' /\ store' \subseteq Parts \X Snap
      /\ st = "BlobsUploaded" => (fin[s].mem /\ Sound(s) => <<"blobs", s>> \in store')
  BY <1>1, <1>6, BlobsGoUp DEF FailRest, TypeOK, SnapOK, StoreOK, HasBlobs
<1>8. ASSUME NEW x, x = v \/ x = fin[s], RecordAt(s, x) PROVE SnapOK(s)' /\ Climbs(s)
  <2>0. /\ x.st \in {fin[s].st, st} /\ x.disk = fin[s].disk /\ x.sb = fin[s].sb
        /\ x.whole = fin[s].whole /\ x.staged = fin[s].staged /\ x.mem = fin[s].mem
        /\ fin'[s] = x
    BY <1>2, <1>8 DEF RecordAt
  <2>a. fin[s].st = st \/ (fin[s].st = "MemoryChunked" /\ st = "BlobsUploaded")
    BY <1>6 DEF AtStage, FailRest
  <2>b. HasBlobs(s) => HasBlobs(s)'
    BY <1>4, <1>7, <2>0 DEF HasBlobs, Sound
  <2>c. st = "BlobsUploaded" => HasBlobs(s)'
    BY <1>4, <1>7, <2>0 DEF HasBlobs, Sound
  <2>1. JobOK(s)'
    BY <1>1, <1>3, <1>5, <1>6, <2>0, <2>a DEF SnapOK, JobOK, JobAt, OnDisk, AtStage, FailRest
  <2>2. WholeOK(s)'
    BY <1>1, <1>4, <1>6, <2>0, <2>a DEF SnapOK, WholeOK, OnDisk, Sound, PastDisk, PastMemory, FailRest
  <2>3. StoreOK(s)'
    BY <1>1, <1>3, <1>5, <1>7, <2>0, <2>a, <2>b, <2>c DEF SnapOK, StoreOK, JobAt, PastDisk
  <2>4. PublishedOK(s)'
    BY <1>1, <1>7, <2>0, <2>a, <2>b DEF SnapOK, PublishedOK, Published, PastMemory, FailRest
  <2>5. Climbs(s)
    BY <1>3, <1>4, <1>5, <1>6, <1>7, <1>8, <2>0, <2>a DEF Climbs, RecordAt, JobAt, OnDisk, Ladder, FailRest
  <2> QED
    BY <2>1, <2>2, <2>3, <2>4, <2>5 DEF SnapOK
<1>9. TypeOK' /\ OpOK'
  BY <1>1, <1>4, <1>5, <1>7, FaultCounts DEF TypeOK, OpOK, JobAt, RecordAt, FailRest
<1> QED
  BY <1>5, <1>8, <1>9, Climb DEF IInv

\* A failed pass that is the last: the capture is quarantined, and with it whatever its
\* sandbox holds is no longer vouched for.
LEMMA QuarantineKeeps ==
    ASSUME IInv, NEW s \in Snap, NEW st \in Ladder, Fail(s, st), FailRest(s, st),
           Quarantines(job[s].att + 1)
    PROVE  IInv'
<1>1. /\ TypeOK /\ OpOK /\ SnapOK(s) /\ fin[s] \in RecordType /\ fin \in [Snap -> RecordType]
      /\ MintOK /\ CapsOK /\ LockOK /\ RecordsOK /\ VolumesOK /\ ChainOK
  BY DEF IInv, TypeOK, SandboxesOK
<1>2. /\ job' = [job EXCEPT ![s] = NoJob] /\ pend' = [pend EXCEPT ![fin[s].sb] = None]
      /\ spoilt' = spoilt \cup {fin[s].sb}
      /\ \E k \in {fin[s].st, "failed"} : fin' = [fin EXCEPT ![s].st = k, ![s].staged = FALSE]
  BY DEF Fail
<1>3. PICK k \in {fin[s].st, "failed"} : fin' = [fin EXCEPT ![s].st = k, ![s].staged = FALSE]
  BY <1>2
<1> DEFINE v == [fin[s] EXCEPT !.st = k, !.staged = FALSE]
<1>4. /\ v \in RecordType /\ v.st = k /\ v.disk = fin[s].disk /\ v.sb = fin[s].sb /\ v.mem = fin[s].mem
  <2>1. k \in Ladder \cup {"none", "failed", "deleted"}
    BY <1>1 DEF RecordType
  <2> QED
    BY <1>1, <2>1 DEF RecordType
<1>5. fin' = [fin EXCEPT ![s] = v]
  BY <1>1, <1>3
<1> HIDE DEF v
<1>6. RecordAt(s, v)
  BY <1>1, <1>4, <1>5, PutRecord DEF RecordAt
<1>7. NoJob \in JobType /\ NoJob.pc = "none" /\ NoJob.disk = 0
  BY EvictionConstants DEF NoJob, JobType, Ladder
<1>8. JobAt(s, NoJob)
  BY <1>1, <1>2, <1>7, PutJob DEF JobAt
<1>9. /\ OnDisk(s) /\ Holds(s) /\ job[s].pc = "run" /\ fin[s].sb # None /\ fin[s].sb \in Sandbox
      /\ k \in Ladder \cup {"failed"} /\ k # "none"
  BY <1>1 DEF SnapOK, JobOK, Holds, FailRest, OnDisk, RecordType, Ladder
<1>10. store \subseteq store' /\ store' \subseteq Parts \X Snap
  BY <1>1, <1>9, BlobsGoUp DEF FailRest, TypeOK
<1>11. \A r \in Snap : /\ fin'[r].sb = fin[r].sb
                       /\ fin'[r].st \in Ladder => fin[r].st = fin'[r].st
                       /\ fin'[r].st = "none" <=> fin[r].st = "none"
                       /\ r # s => fin'[r] = fin[r] /\ job'[r] = job[r]
  BY <1>4, <1>6, <1>8, <1>9 DEF RecordAt, JobAt, OnDisk, Ladder
<1>12. UNCHANGED <<cap, disk, chain, used, sess, hb, row, adv>>
  BY DEF FailRest
<1>13. MintOK'
  BY <1>1, <1>9, <1>11, <1>12 DEF MintOK
<1>14. CapsOK'
  <2>1. \A sb \in Sandbox : cap[sb] # None => cap[sb] \in Snap /\ cap[sb] # s
    BY <1>1, <1>9 DEF CapsOK, TypeOK, Snap, None, OnDisk, Ladder
  <2> QED
    BY <1>1, <1>11, <1>12, <2>1 DEF CapsOK
<1>15. LockOK'
  BY <1>1, <1>7, <1>8, <1>11, <1>12 DEF LockOK, Holds, JobAt
<1>16. RecordsOK'
  BY <1>1, <1>2, <1>11, <1>12 DEF RecordsOK, OnDisk, Sound
<1>17. VolumesOK'
  <2>1. CaptureKept'
    BY <1>1, <1>2, <1>11, <1>12 DEF VolumesOK, CaptureKept, Ladder
  <2>2. \A r \in Snap : job'[r].disk \in {0, job[r].disk}
    BY <1>7, <1>8, <1>11 DEF JobAt
  <2> QED
    BY <1>1, <1>2, <1>11, <1>12, <2>1, <2>2 DEF VolumesOK, Sound, Ladder
<1>18. ChainOK'
  <2>1. ASSUME NEW sb \in Sandbox, sb \notin spoilt', chain[sb] = "behind", cap[sb] = None
        PROVE  \E r \in Snap : fin'[r].sb = sb /\ (fin'[r].st \in Ladder \/ job'[r].pc = "destroy")
    <3>1. PICK r \in Snap : fin[r].sb = sb /\ (OnDisk(r) \/ job[r].pc = "destroy")
      BY <1>1, <1>2, <2>1 DEF ChainOK
    <3> QED
      BY <1>2, <1>11, <2>1, <3>1 DEF OnDisk
  <2> QED
    BY <1>12, <2>1 DEF ChainOK, OnDisk
<1>19. ASSUME NEW r \in Snap, r # s PROVE SnapOK(r)'
  BY <1>2, <1>10, <1>11, <1>12, <1>19, SteadySnap DEF IInv, Grown, SteadyAt, Published
<1>20. SnapOK(s)'
  <2>1. JobOK(s)'
    BY <1>7, <1>8 DEF JobOK, JobAt
  <2>2. ~Sound(s)'
    BY <1>2, <1>11 DEF Sound
  <2>3. WholeOK(s)'
    BY <2>2 DEF WholeOK
  <2>4. HasBlobs(s)'
    BY <2>2 DEF HasBlobs
  <2>5. StoreOK(s)'
    BY <1>1, <1>4, <1>6, <1>7, <1>8, <1>10, <2>4 DEF SnapOK, StoreOK, RecordAt, JobAt, PastDisk
  <2>6. PublishedOK(s)'
    BY <1>1, <1>4, <1>6, <1>10, <1>12, <2>4 DEF SnapOK, PublishedOK, Published, RecordAt
  <2> QED
    BY <2>1, <2>3, <2>5, <2>6 DEF SnapOK
<1>21. TypeOK' /\ OpOK'
  <2>1. pend' \in [Sandbox -> 0 .. MaxCaptures]
    <3>1. 0 \in 0 .. MaxCaptures /\ pend \in [Sandbox -> 0 .. MaxCaptures]
      BY <1>1, EvictionConstants DEF TypeOK
    <3> QED
      BY <1>2, <3>1 DEF None
  <2>2. spoilt' \subseteq Sandbox
    BY <1>1, <1>2, <1>9 DEF TypeOK
  <2> QED
    BY <1>1, <1>6, <1>8, <1>10, <2>1, <2>2, FaultCounts DEF TypeOK, OpOK, JobAt, RecordAt, FailRest
<1> QED
  BY <1>13, <1>14, <1>15, <1>16, <1>17, <1>18, <1>19, <1>20, <1>21 DEF IInv, SandboxesOK

\* A leg that fails.
LEMMA LegFailsKeeps ==
    ASSUME IInv, NEW s \in Snap, LegFails(s)
    PROVE  IInv'
<1>1. job[s] \in JobType
  BY DEF IInv, TypeOK
<1>2. \E st \in Ladder : Fail(s, st) /\ FailRest(s, st)
  BY <1>1 DEF LegFails, FailRest, coordVars, JobType, Ladder
<1> QED
  BY <1>2, RetryKeeps, QuarantineKeeps

\* The disk that the disk leg publishes is the capture's own, unless it is spoilt: the
\* transient volume is first, and the checkpoint volume is the capture's only when that
\* one is gone.
LEMMA DiskLegKeeps ==
    ASSUME IInv, NEW s \in Snap, DiskLeg(s)
    PROVE  IInv'
<1> DEFINE sb == fin[s].sb
           d == IF disk[sb].taken # 0 THEN disk[sb].taken ELSE disk[sb].ckpt
<1>1. /\ TypeOK /\ OpOK /\ SnapOK(s) /\ fin[s] \in RecordType /\ job[s] \in JobType
      /\ MintOK /\ CapsOK /\ LockOK /\ RecordsOK /\ VolumesOK /\ ChainOK
  BY DEF IInv, TypeOK, SandboxesOK
<1>2. /\ Stepping(s, "Captured") /\ job[s].disk = 0
      /\ UNCHANGED <<sess, evict, asc, row, tomb, hb, vm, chain, cap, adv, redriven, used, faults>>
  BY DEF DiskLeg, coordVars
<1>3. fin[s].st = "Captured" /\ OnDisk(s) /\ sb \in Sandbox /\ Holds(s) /\ job[s].pc = "run"
  BY <1>2, StageOfRecord DEF Ladder, Stepping
<1>4. CASE Fail(s, "Captured") /\ UNCHANGED <<disk, store>>
  <2>1. FailRest(s, "Captured") /\ "Captured" \in Ladder
    BY <1>2, <1>4 DEF FailRest, Stepping, Ladder
  <2> QED
    BY <1>4, <2>1, RetryKeeps, QuarantineKeeps
<1>5. CASE /\ disk[sb].taken # 0 \/ disk[sb].ckpt > fin[s].prev
           /\ disk' = [disk EXCEPT ![sb] = [taken |-> 0, ckpt |-> d]]
           /\ store' = store \cup {<<"disk", d>>}
           /\ job' = [job EXCEPT ![s].disk = d]
           /\ UNCHANGED <<fin, pend, spoilt>>
  <2>1. disk[sb] \in DiskType /\ disk \in [Sandbox -> DiskType]
    BY <1>1, <1>3 DEF TypeOK
  <2>2. d \in Snap /\ d # 0 /\ d <= used.captures /\ 0 <= used.captures /\ 0 \in 0 .. MaxCaptures
    <3>1. /\ disk[sb].taken \in 0 .. MaxCaptures /\ disk[sb].ckpt \in 0 .. MaxCaptures
          /\ fin[s].prev \in 0 .. MaxCaptures /\ used.captures \in 0 .. MaxCaptures
      BY <1>1, <2>1 DEF DiskType, RecordType, TypeOK, UsedType
    <3>2. disk[sb].taken <= used.captures /\ disk[sb].ckpt <= used.captures
      BY <1>1, <1>3 DEF MintOK
    <3> QED
      BY <1>5, <3>1, <3>2, EvictionConstants DEF Snap
  <2>3. Sound(s) => d = s
    <3>1. Sound(s) => s \in {disk[sb].taken, disk[sb].ckpt}
      BY <1>1, <1>3 DEF VolumesOK, CaptureKept, Sound
    <3>2. Sound(s) /\ disk[sb].ckpt = s => disk[sb].taken = 0
      BY <1>1, <1>3 DEF VolumesOK
    <3>3. s # 0
      BY EvictionConstants DEF Snap
    <3> QED
      BY <3>1, <3>2, <3>3
  <2> HIDE DEF d
  <2> DEFINE x == [taken |-> 0, ckpt |-> d]
             w == [job[s] EXCEPT !.disk = d]
  <2>4. x \in DiskType /\ x.taken = 0 /\ x.ckpt = d
    BY <2>2, EvictionConstants DEF DiskType, Snap
  <2>5. w \in JobType /\ w.pc = "run" /\ w.st = "Captured" /\ w.disk = d
    <3>1. d \in 0 .. MaxCaptures
      BY <2>2, EvictionConstants DEF Snap
    <3> QED
      BY <1>1, <1>2, <1>3, <3>1 DEF JobType, Stepping
  <2>6. disk' = [disk EXCEPT ![sb] = x] /\ job' = [job EXCEPT ![s] = w]
    BY <1>5 DEF d
  <2> HIDE DEF x, w, sb
  <2>7. /\ disk' \in [Sandbox -> DiskType] /\ disk'[sb] = x
        /\ \A k \in Sandbox : k # sb => disk'[k] = disk[k]
    BY <1>3, <2>1, <2>4, <2>6
  <2>8. JobAt(s, w)
    BY <1>1, <2>5, <2>6, PutJob DEF JobAt
  <2>9. /\ store \subseteq store' /\ store' \subseteq Parts \X Snap /\ <<"disk", d>> \in store'
        /\ UNCHANGED <<fin, pend, spoilt>>
    BY <1>1, <1>5, <2>2 DEF TypeOK, Parts, d
  <2>10. \A r \in Snap : job'[r].pc = job[r].pc /\ job'[r].st = job[r].st
    BY <1>2, <1>3, <2>5, <2>8 DEF JobAt, Stepping
  <2>11. cap[sb] = None
    BY <1>1, <1>3 DEF LockOK, sb
  <2>12. MintOK'
    <3>1. \A k \in Sandbox : disk'[k].taken <= used.captures /\ disk'[k].ckpt <= used.captures
      BY <1>1, <2>2, <2>4, <2>7 DEF MintOK
    <3> QED
      BY <1>1, <1>2, <2>9, <3>1 DEF MintOK
  <2>13. CapsOK'
    BY <1>1, <1>2, <2>9 DEF CapsOK
  <2>14. LockOK'
    BY <1>1, <1>2, <2>9, <2>10 DEF LockOK, Holds
  <2>15. RecordsOK'
    BY <1>1, <1>2, <2>9 DEF RecordsOK, OnDisk, Sound
  <2>16. VolumesOK'
    <3>1. \A k \in Sandbox : cap[k] # None /\ k \notin spoilt =>
              disk'[k].taken = cap[k] /\ disk'[k].ckpt # cap[k]
      BY <1>1, <2>7, <2>11 DEF VolumesOK
    <3>2. ASSUME NEW r \in Snap, fin[r].st = "Captured", Sound(r), fin[r].sb = sb PROVE r = s
      BY <1>1, <1>3, <3>2 DEF RecordsOK, OnDisk, sb, Ladder
    <3>3. \A r \in Snap : fin[r].st = "Captured" /\ Sound(r) =>
              /\ r \in {disk'[fin[r].sb].taken, disk'[fin[r].sb].ckpt}
              /\ disk'[fin[r].sb].ckpt = r => disk'[fin[r].sb].taken = 0
      <4>1. ASSUME NEW r \in Snap, fin[r].st = "Captured", Sound(r)
            PROVE  /\ r \in {disk'[fin[r].sb].taken, disk'[fin[r].sb].ckpt}
                   /\ disk'[fin[r].sb].ckpt = r => disk'[fin[r].sb].taken = 0
        <5>1. CASE fin[r].sb = sb
          BY <2>3, <2>4, <2>7, <3>2, <4>1, <5>1
        <5>2. CASE fin[r].sb # sb
          <6>1. fin[r] \in RecordType /\ fin[r].sb # None
            BY <1>1, <4>1 DEF TypeOK, MintOK
          <6>2. fin[r].sb \in Sandbox
            BY <6>1 DEF RecordType
          <6> QED
            BY <1>1, <2>7, <4>1, <5>2, <6>2 DEF VolumesOK, CaptureKept, Sound
        <5> QED
          BY <5>1, <5>2
      <4> QED
        BY <4>1
    <3>4. \A r \in Snap : job'[r].disk # 0 /\ Sound(r) => job'[r].disk = r
      BY <1>1, <2>3, <2>5, <2>8 DEF VolumesOK, JobAt
    <3> QED
      BY <1>2, <2>9, <3>1, <3>3, <3>4 DEF VolumesOK, CaptureKept, Sound
  <2>17. ChainOK'
    BY <1>1, <1>2, <2>9, <2>10 DEF ChainOK, OnDisk
  <2>18. ASSUME NEW r \in Snap, r # s PROVE SnapOK(r)'
    BY <1>2, <2>8, <2>9, <2>18, SteadySnap DEF IInv, Grown, SteadyAt, Published, JobAt
  <2>19. SnapOK(s)'
    <3>1. JobOK(s)'
      BY <1>1, <1>2, <2>5, <2>8, <2>9 DEF SnapOK, JobOK, JobAt, OnDisk, AtStage, Stepping
    <3>2. WholeOK(s)'
      BY <1>1, <1>2, <2>9 DEF SnapOK, WholeOK, OnDisk, Sound
    <3>3. StoreOK(s)'
      BY <1>1, <1>3, <2>5, <2>8, <2>9 DEF SnapOK, StoreOK, JobAt, PastDisk
    <3>4. PublishedOK(s)'
      BY <1>1, <1>2, <1>3, <2>9 DEF SnapOK, PublishedOK, Published, PastMemory
    <3> QED
      BY <3>1, <3>2, <3>3, <3>4 DEF SnapOK
  <2>20. TypeOK' /\ OpOK'
    BY <1>1, <1>2, <2>7, <2>8, <2>9 DEF TypeOK, OpOK, JobAt
  <2> QED
    BY <2>12, <2>13, <2>14, <2>15, <2>16, <2>17, <2>18, <2>19, <2>20 DEF IInv, SandboxesOK
<1> QED
  BY <1>4, <1>5 DEF DiskLeg

-----------------------------------------------------------------------------
(* Teardown, restart and redrive.                                           *)

\* A job that is gone leaves what is known of its capture.
LEMMA NoJobSnap ==
    ASSUME NEW s \in Snap, SnapOK(s), Grown, fin'[s] = fin[s], job'[s] = NoJob,
           Published(s)' => Published(s),
           fin[s].sb # None /\ cap'[fin[s].sb] = s => cap[fin[s].sb] = s
    PROVE  SnapOK(s)'
<1>0. NoJob.pc = "none" /\ NoJob.disk = 0
  BY DEF NoJob
<1>1. Sound(s)' => Sound(s)
  BY DEF Sound, Grown
<1>2. JobOK(s)'
  BY <1>0 DEF JobOK
<1>3. WholeOK(s)'
  BY <1>1 DEF SnapOK, WholeOK, OnDisk
<1>4. HasBlobs(s) => HasBlobs(s)'
  BY <1>1 DEF HasBlobs, Grown
<1>5. StoreOK(s)'
  BY <1>0, <1>4 DEF SnapOK, StoreOK, Grown
<1>6. PublishedOK(s)'
  BY <1>4 DEF SnapOK, PublishedOK, Grown
<1> QED
  BY <1>2, <1>3, <1>5, <1>6 DEF SnapOK

\* A teardown keeps the volume of a capture that is pending, and spoils the sandbox of
\* one that is not.
LEMMA DestroyKeeps ==
    ASSUME IInv, NEW sb \in Sandbox, NEW left \in {"gone", "orphan"}, Destroy(sb, left),
           UNCHANGED <<sess, evict, row, hb, cap, pend, fin, adv, store, used>>,
           \A r \in Snap : job'[r] = job[r] \/ (job'[r] = NoJob /\ fin[r].sb = sb)
    PROVE  /\ SandboxesOK' /\ \A s \in Snap : SnapOK(s)'
           /\ vm' \in [Sandbox -> {"gone", "running", "paused", "orphan"}]
           /\ disk' \in [Sandbox -> DiskType] /\ spoilt' \subseteq Sandbox
           /\ chain' \in [Sandbox -> {"none", "synced", "behind"}]
<1>1. TypeOK /\ MintOK /\ CapsOK /\ LockOK /\ RecordsOK /\ VolumesOK /\ ChainOK
  BY DEF IInv, SandboxesOK
<1>2. /\ vm' = [vm EXCEPT ![sb] = left] /\ chain' = [chain EXCEPT ![sb] = "none"]
      /\ disk' = [disk EXCEPT ![sb].taken = Released(sb)]
      /\ spoilt \subseteq spoilt' /\ spoilt' \subseteq spoilt \cup {sb}
      /\ pend[sb] = None /\ (cap[sb] # None \/ \E s \in Snap : fin[s].sb = sb /\ OnDisk(s)) => sb \in spoilt'
  BY DEF Destroy
<1>3. /\ vm' \in [Sandbox -> {"gone", "running", "paused", "orphan"}]
      /\ chain' \in [Sandbox -> {"none", "synced", "behind"}] /\ spoilt' \subseteq Sandbox
      /\ chain'[sb] = "none" /\ \A k \in Sandbox : k # sb => chain'[k] = chain[k]
  BY <1>1, <1>2 DEF TypeOK
<1> DEFINE x == [disk[sb] EXCEPT !.taken = Released(sb)]
<1>4. disk \in [Sandbox -> DiskType] /\ disk[sb] \in DiskType /\ Released(sb) \in {0, disk[sb].taken}
  BY <1>1 DEF TypeOK, Released
<1>5. x \in DiskType /\ x.ckpt = disk[sb].ckpt /\ x.taken = Released(sb)
  <2>1. Released(sb) \in 0 .. MaxCaptures
    BY <1>4, EvictionConstants DEF DiskType
  <2> QED
    BY <1>4, <2>1 DEF DiskType
<1>6. disk' = [disk EXCEPT ![sb] = x]
  BY <1>2, <1>4
<1> HIDE DEF x
<1>7. /\ disk' \in [Sandbox -> DiskType] /\ disk'[sb] = x
      /\ \A k \in Sandbox : k # sb => disk'[k] = disk[k]
  BY <1>4, <1>5, <1>6
<1>8. \A k \in Sandbox : /\ disk'[k].ckpt = disk[k].ckpt /\ disk'[k].taken \in {0, disk[k].taken}
                         /\ disk'[k].taken # disk[k].taken => k = sb /\ pend[sb] = None
  BY <1>4, <1>5, <1>7 DEF Released
<1>9. NoJob.pc = "none" /\ NoJob.disk = 0
  BY DEF NoJob
<1>10. MintOK'
  <2>1. 0 <= used.captures
    BY <1>1, EvictionConstants DEF TypeOK, UsedType
  <2>2. \A k \in Sandbox : disk'[k].taken <= used.captures /\ disk'[k].ckpt <= used.captures
    BY <1>1, <1>8, <2>1 DEF MintOK
  <2> QED
    BY <1>1, <2>2 DEF MintOK
<1>11. CapsOK'
  BY <1>1, <1>3 DEF CapsOK
<1>12. LockOK'
  BY <1>1, <1>9 DEF LockOK, Holds
<1>13. RecordsOK'
  BY <1>1, <1>2 DEF RecordsOK, OnDisk, Sound
<1>14. VolumesOK'
  <2>1. \A k \in Sandbox : cap[k] # None /\ k \notin spoilt' =>
            disk'[k].taken = cap[k] /\ disk'[k].ckpt # cap[k]
    BY <1>1, <1>2, <1>8 DEF VolumesOK
  <2>2. ASSUME NEW r \in Snap, fin[r].st = "Captured", fin[r].sb \notin spoilt'
        PROVE  /\ r \in {disk'[fin[r].sb].taken, disk'[fin[r].sb].ckpt}
               /\ disk'[fin[r].sb].ckpt = r => disk'[fin[r].sb].taken = 0
    <3>1. fin[r].sb \in Sandbox /\ OnDisk(r) /\ Sound(r)
      BY <1>1, <1>2, <2>2 DEF TypeOK, RecordType, MintOK, OnDisk, Ladder, Sound
    <3>2. disk'[fin[r].sb].taken = disk[fin[r].sb].taken /\ disk'[fin[r].sb].ckpt = disk[fin[r].sb].ckpt
      BY <1>2, <1>8, <2>2, <3>1
    <3> QED
      BY <1>1, <2>2, <3>1, <3>2 DEF VolumesOK, CaptureKept, Sound
  <2>3. \A r \in Snap : job'[r].disk # 0 /\ Sound(r) => job'[r].disk = r
    BY <1>1, <1>9 DEF VolumesOK
  <2> QED
    BY <1>2, <2>1, <2>2, <2>3 DEF VolumesOK, CaptureKept, Sound
<1>15. ChainOK'
  BY <1>1, <1>2, <1>3 DEF ChainOK, OnDisk
<1>16. ASSUME NEW r \in Snap PROVE SnapOK(r)'
  <2>1. SnapOK(r) /\ Grown /\ (Published(r)' => Published(r)) /\ fin' = fin /\ cap' = cap
    BY <1>2 DEF IInv, Grown, Published
  <2> QED
    BY <2>1, SteadySnap, NoJobSnap DEF SteadyAt
<1> QED
  BY <1>3, <1>7, <1>10, <1>11, <1>12, <1>13, <1>14, <1>15, <1>16 DEF SandboxesOK

\* The job destroys its sandbox, or cannot.
LEMMA TerminalDestroyKeeps ==
    ASSUME IInv, NEW s \in Snap, TerminalDestroy(s) \/ TerminalDestroyFails(s)
    PROVE  IInv'
<1>1. TypeOK /\ OpOK /\ SnapOK(s)
  BY DEF IInv
<1>2. NoJob \in JobType
  BY EvictionConstants DEF NoJob, JobType, Ladder
<1>3. /\ job' = [job EXCEPT ![s] = NoJob] /\ job[s].pc = "destroy"
      /\ Destroy(fin[s].sb, "gone") \/ Destroy(fin[s].sb, "orphan")
      /\ UNCHANGED <<sess, evict, asc, row, tomb, hb, cap, pend, fin, adv, store, redriven, used>>
      /\ faults' = faults \/ Fault
  BY DEF TerminalDestroy, TerminalDestroyFails, coordVars
<1>4. fin[s].sb \in Sandbox
  BY <1>1, <1>3 DEF SnapOK, JobOK, TypeOK, RecordType
<1>5. JobAt(s, NoJob)
  BY <1>1, <1>2, <1>3, PutJob DEF JobAt
<1>6. \A r \in Snap : job'[r] = job[r] \/ (job'[r] = NoJob /\ fin[r].sb = fin[s].sb)
  BY <1>5 DEF JobAt
<1>7. /\ SandboxesOK' /\ \A r \in Snap : SnapOK(r)'
      /\ vm' \in [Sandbox -> {"gone", "running", "paused", "orphan"}]
      /\ disk' \in [Sandbox -> DiskType] /\ spoilt' \subseteq Sandbox
      /\ chain' \in [Sandbox -> {"none", "synced", "behind"}]
  BY <1>3, <1>4, <1>6, DestroyKeeps
<1>8. TypeOK' /\ OpOK'
  BY <1>1, <1>3, <1>5, <1>7, FaultCounts DEF TypeOK, OpOK, JobAt
<1> QED
  BY <1>7, <1>8 DEF IInv

\* The host destroys a sandbox that was entombed.
LEMMA ReapTombstoneKeeps ==
    ASSUME IInv, NEW sb \in Sandbox, ReapTombstone(sb)
    PROVE  IInv'
<1>1. TypeOK /\ OpOK
  BY DEF IInv
<1>2. /\ Destroy(sb, "gone") /\ tomb' = tomb \ {sb}
      /\ UNCHANGED <<sess, evict, asc, row, hb, cap, pend, fin, job, adv, store, redriven, used, faults>>
  BY DEF ReapTombstone
<1>3. /\ SandboxesOK' /\ \A r \in Snap : SnapOK(r)'
      /\ vm' \in [Sandbox -> {"gone", "running", "paused", "orphan"}]
      /\ disk' \in [Sandbox -> DiskType] /\ spoilt' \subseteq Sandbox
      /\ chain' \in [Sandbox -> {"none", "synced", "behind"}]
  <2>1. "gone" \in {"gone", "orphan"}
    OBVIOUS
  <2>2. \A r \in Snap : job'[r] = job[r] \/ (job'[r] = NoJob /\ fin[r].sb = sb)
    BY <1>2
  <2> QED
    BY <1>2, <2>1, <2>2, DestroyKeeps
<1>4. TypeOK' /\ OpOK'
  BY <1>1, <1>2, <1>3 DEF TypeOK, OpOK
<1> QED
  BY <1>3, <1>4 DEF IInv

\* A restart loses what was in memory, and keeps the volumes a record names.
LEMMA RestartKeeps ==
    ASSUME IInv, NEW survive \in BOOLEAN, Restart(survive)
    PROVE  IInv'
<1>1. TypeOK /\ OpOK /\ MintOK /\ RecordsOK /\ VolumesOK
  BY DEF IInv, SandboxesOK
<1> DEFINE alive == {sb \in Sandbox : survive /\ vm[sb] # "gone"}
           kept == alive \cup {fin[s].sb : s \in {r \in Snap : OnDisk(r)}}
           empty(k) == [disk[k] EXCEPT !.taken = 0]
<1>2. /\ vm' = [sb \in Sandbox |-> IF sb \in alive THEN vm[sb] ELSE "gone"]
      /\ chain' = [sb \in Sandbox |-> IF sb \in alive /\ chain[sb] = "synced" THEN "synced" ELSE "none"]
      /\ disk' = [sb \in Sandbox |-> IF sb \in kept THEN disk[sb] ELSE empty(sb)]
      /\ cap' = [sb \in Sandbox |-> None] /\ pend' = [sb \in Sandbox |-> None]
      /\ job' = [s \in Snap |-> NoJob] /\ redriven' = FALSE /\ Fault
      /\ UNCHANGED <<sess, evict, asc, row, tomb, hb, fin, adv, store, spoilt, used>>
  BY DEF Restart, coordVars
<1>3. NoJob \in JobType /\ NoJob.pc = "none" /\ NoJob.disk = 0 /\ 0 \in 0 .. MaxCaptures
  BY EvictionConstants DEF NoJob, JobType, Ladder
<1>4. \A k \in Sandbox : empty(k) \in DiskType /\ empty(k).taken = 0 /\ empty(k).ckpt = disk[k].ckpt
  <2>1. \A k \in Sandbox : disk[k] \in DiskType
    BY <1>1 DEF TypeOK
  <2> QED
    BY <1>3, <2>1 DEF DiskType
<1>5. \A s \in Snap : OnDisk(s) => fin[s].sb \in kept
  OBVIOUS
<1> HIDE DEF alive, kept, empty
<1>6. \A k \in Sandbox : /\ disk'[k] \in DiskType
                         /\ disk'[k].ckpt = disk[k].ckpt /\ disk'[k].taken \in {0, disk[k].taken}
                         /\ k \in kept => disk'[k] = disk[k]
  BY <1>1, <1>2, <1>4 DEF TypeOK
<1>7. TypeOK'
  <2>1. vm' \in [Sandbox -> {"gone", "running", "paused", "orphan"}]
    BY <1>1, <1>2 DEF TypeOK
  <2>2. disk' \in [Sandbox -> DiskType]
    BY <1>2, <1>6
  <2>3. chain' \in [Sandbox -> {"none", "synced", "behind"}]
    BY <1>2
  <2>4. cap' \in [Sandbox -> 0 .. MaxCaptures] /\ pend' \in [Sandbox -> 0 .. MaxCaptures]
    BY <1>2, <1>3 DEF None
  <2> QED
    BY <1>1, <1>2, <1>3, <2>1, <2>2, <2>3, <2>4, FaultCounts DEF TypeOK
<1>8. OpOK'
  BY <1>1, <1>2 DEF OpOK
<1>9. MintOK'
  <2>1. 0 <= used.captures
    BY <1>1, EvictionConstants DEF TypeOK, UsedType
  <2>2. \A k \in Sandbox : disk'[k].taken <= used.captures /\ disk'[k].ckpt <= used.captures
    BY <1>1, <1>6, <2>1 DEF MintOK
  <2> QED
    BY <1>1, <1>2, <2>2 DEF MintOK
<1>10. CapsOK' /\ LockOK' /\ ChainOK'
  BY <1>2, <1>3 DEF CapsOK, LockOK, Holds, ChainOK
<1>11. \A s \in Snap : OnDisk(s) => fin[s].sb \in Sandbox
  BY <1>1 DEF TypeOK, RecordType, MintOK, OnDisk, Ladder
<1>12. RecordsOK'
  BY <1>1, <1>2, <1>11 DEF RecordsOK, OnDisk, Sound
<1>13. VolumesOK'
  <2>1. \A s \in Snap : fin[s].st = "Captured" => disk'[fin[s].sb] = disk[fin[s].sb]
    BY <1>5, <1>6, <1>11 DEF OnDisk, Ladder
  <2>2. CaptureKept'
    BY <1>1, <1>2, <2>1 DEF VolumesOK, CaptureKept
  <2>3. \A s \in Snap : fin[s].st = "Captured" /\ Sound(s) /\ disk'[fin[s].sb].ckpt = s =>
            disk'[fin[s].sb].taken = 0
    BY <1>1, <2>1 DEF VolumesOK
  <2>4. (\A sb \in Sandbox : cap'[sb] = None) /\ \A s \in Snap : job'[s].disk = 0
    BY <1>2, <1>3
  <2> QED
    BY <1>2, <2>2, <2>3, <2>4 DEF VolumesOK, Sound
<1>14. ASSUME NEW s \in Snap PROVE SnapOK(s)'
  <2>1. SnapOK(s) /\ Grown /\ (Published(s)' => Published(s)) /\ job'[s] = NoJob /\ fin' = fin
    BY <1>2 DEF IInv, Grown, Published
  <2>2. fin[s].sb # None => cap'[fin[s].sb] # s
    <3>1. s # None
      BY EvictionConstants DEF Snap, None
    <3>2. fin[s].sb # None => fin[s].sb \in Sandbox
      BY <1>1 DEF TypeOK, RecordType
    <3> QED
      BY <1>2, <3>1, <3>2
  <2> QED
    BY <2>1, <2>2, NoJobSnap
<1> QED
  BY <1>7, <1>8, <1>9, <1>10, <1>12, <1>13, <1>14 DEF IInv, SandboxesOK

\* The restarted agent redrives its records, each from the stage it was left at.
LEMMA RedriveKeeps ==
    ASSUME IInv, ResumePendingFinalizes
    PROVE  IInv'
<1>1. TypeOK /\ OpOK /\ MintOK /\ CapsOK /\ LockOK /\ RecordsOK /\ VolumesOK /\ ChainOK
  BY DEF IInv, SandboxesOK
<1> DEFINE w(s) == [pc |-> "wait", st |-> fin[s].st, att |-> fin[s].att, disk |-> 0]
<1>2. /\ redriven' = TRUE /\ pend' \in [Sandbox -> 0 .. MaxCaptures]
      /\ job' = [s \in Snap |-> IF s \in Redrivable THEN w(s) ELSE job[s]]
      /\ UNCHANGED <<sess, evict, asc, row, tomb, hb, vm, disk, chain, cap, fin, adv, store, spoilt,
                     used, faults>>
  BY DEF ResumePendingFinalizes, coordVars
<1>3. \A s \in Redrivable : w(s) \in JobType
  <2>1. 0 \in 0 .. MaxCaptures
    BY EvictionConstants
  <2>2. \A s \in Redrivable : s \in Snap /\ fin[s] \in RecordType /\ fin[s].st \in Ladder
    BY <1>1 DEF TypeOK, Redrivable, OnDisk
  <2> QED
    BY <2>1, <2>2 DEF JobType, RecordType
<1>4. \A s \in Redrivable : w(s).pc = "wait" /\ w(s).st = fin[s].st /\ w(s).disk = 0
  OBVIOUS
<1> HIDE DEF w
<1>5. /\ \A s \in Redrivable : job'[s] = w(s)
      /\ \A s \in Snap : s \notin Redrivable => job'[s] = job[s]
  BY <1>2 DEF Redrivable
<1>6. job' \in [Snap -> JobType]
  BY <1>1, <1>2, <1>3 DEF TypeOK
<1>7. \A s \in Snap : /\ job'[s].pc \notin {"none", "wait"} <=> job[s].pc \notin {"none", "wait"}
                      /\ job'[s].pc = "destroy" <=> job[s].pc = "destroy"
                      /\ job'[s].disk \in {0, job[s].disk}
  BY <1>4, <1>5 DEF Redrivable
<1>8. TypeOK' /\ OpOK'
  BY <1>1, <1>2, <1>6 DEF TypeOK, OpOK
<1>9. MintOK' /\ CapsOK' /\ RecordsOK'
  BY <1>1, <1>2 DEF MintOK, CapsOK, RecordsOK, OnDisk, Sound
<1>10. LockOK'
  BY <1>1, <1>2, <1>7 DEF LockOK, Holds
<1>11. VolumesOK'
  <2>1. CaptureKept'
    BY <1>1, <1>2 DEF VolumesOK, CaptureKept
  <2> QED
    BY <1>1, <1>2, <1>7, <2>1 DEF VolumesOK, Sound
<1>12. ChainOK'
  BY <1>1, <1>2, <1>7 DEF ChainOK, OnDisk
<1>13. ASSUME NEW s \in Snap PROVE SnapOK(s)'
  <2>1. SnapOK(s) /\ Grown /\ (Published(s)' => Published(s)) /\ fin' = fin /\ cap' = cap
    BY <1>2 DEF IInv, Grown, Published
  <2>2. CASE s \notin Redrivable
    BY <1>5, <2>1, <2>2, SteadySnap DEF SteadyAt
  <2>3. CASE s \in Redrivable
    <3>1. /\ job'[s].pc = "wait" /\ job'[s].st = fin[s].st /\ job'[s].disk = 0
          /\ fin[s].sb # None /\ OnDisk(s)
      BY <1>1, <1>4, <1>5, <2>3 DEF Redrivable, MintOK, OnDisk, Ladder
    <3>2. JobOK(s)'
      BY <2>1, <3>1 DEF JobOK, OnDisk, AtStage
    <3>3. WholeOK(s)'
      BY <1>2, <2>1 DEF SnapOK, WholeOK, OnDisk, Sound
    <3>4. HasBlobs(s)' <=> HasBlobs(s)
      BY <1>2 DEF HasBlobs, Sound
    <3>5. StoreOK(s)'
      BY <1>2, <2>1, <3>1, <3>4 DEF SnapOK, StoreOK
    <3>6. PublishedOK(s)'
      BY <1>2, <2>1, <3>4 DEF SnapOK, PublishedOK
    <3> QED
      BY <3>2, <3>3, <3>5, <3>6 DEF SnapOK
  <2> QED
    BY <2>2, <2>3
<1> QED
  BY <1>8, <1>9, <1>10, <1>11, <1>12, <1>13 DEF IInv, SandboxesOK

\* A resume starts a sandbox that never was: no capture is of it.
LEMMA ResumeKeeps ==
    ASSUME IInv, ResumeFromIdle
    PROVE  IInv'
<1>1. TypeOK /\ OpOK /\ MintOK /\ CapsOK /\ LockOK /\ RecordsOK /\ VolumesOK /\ ChainOK
  BY DEF IInv, SandboxesOK
<1> DEFINE sb == used.sandboxes + 1
           u == [used EXCEPT !.sandboxes = sb]
<1>2. /\ evict.st \in OpEnded /\ used.sandboxes < MaxSandboxes
      /\ used' = u /\ sess' = [st |-> "Active", sb |-> sb]
      /\ vm' = [vm EXCEPT ![sb] = "running"]
      /\ \E c \in {"synced", "none"} : chain' = [chain EXCEPT ![sb] = c]
      /\ UNCHANGED <<evict, asc, row, tomb, hb, disk, cap, pend, fin, job, adv, store, redriven,
                     spoilt, faults>>
  BY DEF ResumeFromIdle
<1>3. sb \in Sandbox /\ used.sandboxes \in Nat /\ used.sandboxes < sb /\ sb \in 0 .. MaxSandboxes
  BY <1>1, <1>2, EvictionConstants DEF TypeOK, UsedType, Sandbox
<1> HIDE DEF sb
<1>4. u \in UsedType /\ u.sandboxes = sb /\ u.captures = used.captures
  BY <1>1, <1>3 DEF TypeOK, UsedType
<1> HIDE DEF u
<1>5. sess' \in SessType /\ sess'.sb = sb
  BY <1>2, <1>3 DEF SessType, Status
<1>6. /\ vm' \in [Sandbox -> {"gone", "running", "paused", "orphan"}]
      /\ chain' \in [Sandbox -> {"none", "synced", "behind"}]
      /\ chain'[sb] # "behind" /\ \A k \in Sandbox : k # sb => chain'[k] = chain[k]
  BY <1>1, <1>2, <1>3 DEF TypeOK
<1>7. TypeOK'
  BY <1>1, <1>2, <1>4, <1>5, <1>6 DEF TypeOK
<1>8. OpOK'
  BY <1>1, <1>2 DEF OpOK
<1>9. MintOK'
  <2>1. \A s \in Snap : fin[s].sb <= sb
    <3>1. \A s \in Snap : fin[s].sb \in Nat
      BY <1>1, EvictionConstants DEF TypeOK, RecordType, Sandbox, None
    <3>2. \A s \in Snap : fin[s].sb <= used.sandboxes
      BY <1>1 DEF MintOK
    <3> QED
      BY <1>3, <3>1, <3>2 DEF Sandbox
  <2> QED
    BY <1>1, <1>2, <1>3, <1>4, <1>5, <2>1 DEF MintOK
<1>10. cap[sb] = None
  <2>1. ASSUME cap[sb] # None PROVE FALSE
    <3>1. cap[sb] \in Snap /\ fin[cap[sb]].sb = sb
      BY <1>1, <1>3, <2>1 DEF CapsOK, TypeOK, Snap, None
    <3>2. sb <= used.sandboxes
      BY <1>1, <3>1 DEF MintOK
    <3> QED
      BY <1>3, <3>2 DEF Sandbox
  <2> QED
    BY <2>1
<1>11. CapsOK'
  BY <1>1, <1>2, <1>6, <1>10 DEF CapsOK
<1>12. LockOK' /\ RecordsOK'
  BY <1>1, <1>2 DEF LockOK, Holds, RecordsOK, OnDisk, Sound
<1>13. VolumesOK'
  BY <1>1, <1>2 DEF VolumesOK, CaptureKept, Sound
<1>14. ChainOK'
  BY <1>1, <1>2, <1>6 DEF ChainOK, OnDisk
<1>15. \A s \in Snap : SnapOK(s)'
  BY <1>2, SteadySnap DEF IInv, Grown, SteadyAt, Published
<1> QED
  BY <1>7, <1>8, <1>9, <1>11, <1>12, <1>13, <1>14, <1>15 DEF IInv, SandboxesOK

-----------------------------------------------------------------------------
(* The capture and its record.                                              *)

\* A capture in memory has no job, and was not published.
LEMMA CapHasNoJob ==
    ASSUME IInv, NEW sb \in Sandbox, cap[sb] # None
    PROVE  /\ cap[sb] \in Snap /\ fin[cap[sb]].sb = sb /\ fin[cap[sb]].st = "none"
           /\ fin[cap[sb]].staged /\ fin[cap[sb]] \in RecordType
           /\ job[cap[sb]].pc = "none" /\ job[cap[sb]].disk = 0 /\ ~Published(cap[sb])
           /\ \A k \in Sandbox : k # sb /\ cap[k] # None => cap[k] # cap[sb]
<1>1. TypeOK /\ CapsOK /\ LockOK
  BY DEF IInv, SandboxesOK
<1>2. /\ cap[sb] \in Snap /\ fin[cap[sb]].sb = sb /\ fin[cap[sb]].st = "none"
      /\ fin[cap[sb]].staged
  BY <1>1 DEF CapsOK, TypeOK, Snap, None
<1>3. fin[cap[sb]] \in RecordType /\ job[cap[sb]] \in JobType /\ SnapOK(cap[sb])
  BY <1>1, <1>2 DEF TypeOK, IInv
<1>4. job[cap[sb]].pc = "none"
  BY <1>1, <1>2, <1>3 DEF SnapOK, JobOK, LockOK, Holds, OnDisk, Ladder, JobType
<1>5. job[cap[sb]].disk = 0 /\ ~Published(cap[sb])
  BY <1>2, <1>3, <1>4 DEF SnapOK, JobOK, Stepping, PublishedOK, PastMemory
<1>6. \A k \in Sandbox : k # sb /\ cap[k] # None => cap[k] # cap[sb]
  BY <1>1, <1>2 DEF CapsOK
<1> QED
  BY <1>2, <1>3, <1>4, <1>5, <1>6

\* The record is durable: the capture's disk is in the transient volume, and its job
\* holds the lock that the capture held.
LEMMA PersistRecordKeeps ==
    ASSUME IInv, NEW sb \in Sandbox, PersistRecord(sb)
    PROVE  IInv'
<1>0. PICK s \in Snap : s = cap[sb]
  BY CapHasNoJob DEF PersistRecord
<1> DEFINE v == [fin[s] EXCEPT !.st = "Captured"]
           w == [NoJob EXCEPT !.pc = "run"]
<1>1. TypeOK /\ OpOK /\ MintOK /\ CapsOK /\ LockOK /\ RecordsOK /\ VolumesOK /\ ChainOK
  BY DEF IInv, SandboxesOK
<1>2. /\ s # None /\ cap' = [cap EXCEPT ![sb] = None] /\ pend' = [pend EXCEPT ![sb] = s]
      /\ evict' = [evict EXCEPT !.st = Answered(evict.st)]
      /\ fin' = [fin EXCEPT ![s].st = "Captured"] /\ job' = [job EXCEPT ![s] = w]
      /\ UNCHANGED <<sess, asc, row, tomb, hb, vm, disk, chain, adv, store, redriven, spoilt,
                     used, faults>>
  BY <1>0 DEF PersistRecord
<1>3. /\ s \in Snap /\ fin[s].sb = sb /\ fin[s].st = "none" /\ fin[s].staged /\ fin[s] \in RecordType
      /\ job[s].pc = "none" /\ job[s].disk = 0 /\ ~Published(s)
      /\ \A k \in Sandbox : k # sb /\ cap[k] # None => cap[k] # s
  BY <1>0, <1>2, CapHasNoJob
<1>4. SnapOK(s) /\ fin \in [Snap -> RecordType]
  BY <1>1, <1>3 DEF IInv, TypeOK
<1>5. /\ v \in RecordType /\ v.st = "Captured" /\ v.disk = fin[s].disk /\ v.sb = fin[s].sb
      /\ v.whole = fin[s].whole /\ v.staged = fin[s].staged /\ v.mem = fin[s].mem
  BY <1>3 DEF RecordType, Ladder
<1>6. w \in JobType /\ w.pc = "run" /\ w.st = "Captured" /\ w.disk = 0
  BY EvictionConstants DEF NoJob, JobType, Ladder
<1>7. fin' = [fin EXCEPT ![s] = v]
  BY <1>2, <1>4
<1> HIDE DEF v, w
<1>8. RecordAt(s, v)
  BY <1>1, <1>3, <1>5, <1>7, PutRecord DEF RecordAt
<1>9. JobAt(s, w)
  BY <1>1, <1>2, <1>3, <1>6, PutJob DEF JobAt
<1>10. /\ cap' \in [Sandbox -> 0 .. MaxCaptures] /\ pend' \in [Sandbox -> 0 .. MaxCaptures]
       /\ cap'[sb] = None /\ \A k \in Sandbox : k # sb => cap'[k] = cap[k]
  BY <1>1, <1>2, EvictionConstants DEF TypeOK, None, Snap
<1>11. TypeOK' /\ OpOK'
  <2>1. evict \in OpType
    BY <1>1 DEF TypeOK
  <2>2. evict' \in OpType /\ evict'.sb = evict.sb /\ evict'.att = evict.att /\ evict'.st \in {evict.st, "captured"}
    BY <1>2, <2>1 DEF OpType, OpState, Answered
  <2>3. evict'.st = evict.st \/ evict'.st = "captured"
    BY <2>2
  <2>4. TypeOK'
    BY <1>1, <1>2, <1>8, <1>9, <1>10, <2>2 DEF TypeOK, RecordAt, JobAt
  <2>5. OpOK'
    BY <1>1, <1>2, <2>2, <2>3 DEF OpOK, OpEnded
  <2> QED
    BY <2>4, <2>5
<1>12. \A r \in Snap : fin'[r].sb = fin[r].sb /\ (r # s => fin'[r] = fin[r] /\ job'[r] = job[r])
  BY <1>5, <1>8, <1>9 DEF RecordAt, JobAt
<1>13. MintOK'
  <2>1. fin[s].sb # None
    BY <1>3, EvictionConstants DEF Sandbox, None
  <2> QED
    BY <1>1, <1>2, <1>12, <2>1 DEF MintOK
<1>14. CapsOK'
  <2>1. \A k \in Sandbox : cap'[k] # None => cap[k] = cap'[k] /\ cap[k] \in Snap /\ cap[k] # s
    BY <1>1, <1>3, <1>10 DEF TypeOK, Snap, None
  <2> QED
    BY <1>1, <1>2, <1>12, <2>1 DEF CapsOK
<1>15. \A r \in Snap : r # s /\ Holds(r) => fin[r].sb # sb
  BY <1>0, <1>1, <1>2 DEF LockOK
<1>16. LockOK'
  <2>1. \A r \in Snap : job'[r].pc \notin {"none", "wait"} => r = s \/ Holds(r)
    BY <1>12 DEF Holds
  <2>2. ASSUME NEW r \in Snap, job'[r].pc \notin {"none", "wait"} PROVE cap'[fin[r].sb] = None
    <3>1. CASE r = s
      BY <1>3, <1>10, <3>1
    <3>2. CASE r # s
      <4>1. Holds(r) /\ fin[r].sb # sb /\ cap[fin[r].sb] = None
        BY <1>1, <1>15, <2>1, <2>2, <3>2 DEF LockOK
      <4>2. fin[r].sb \in Sandbox
        BY <1>1, <4>1 DEF IInv, SnapOK, JobOK, Holds, TypeOK, RecordType
      <4> QED
        BY <1>10, <4>1, <4>2
    <3> QED
      BY <3>1, <3>2
  <2>3. \A r, t \in Snap :
            job'[r].pc \notin {"none", "wait"} /\ job'[t].pc \notin {"none", "wait"}
            /\ fin[r].sb = fin[t].sb => r = t
    BY <1>1, <1>3, <1>15, <2>1 DEF LockOK
  <2> QED
    BY <1>12, <2>2, <2>3 DEF LockOK, Holds
<1>17. \A r \in Snap : r # s /\ OnDisk(r) /\ Sound(r) => fin[r].sb # sb
  BY <1>0, <1>1, <1>2 DEF RecordsOK
<1>18. RecordsOK'
  <2>1. ASSUME NEW r \in Snap, fin'[r].st \in Ladder, fin[r].sb \notin spoilt PROVE cap'[fin[r].sb] = None
    <3>1. CASE r = s
      BY <1>3, <1>10, <3>1
    <3>2. CASE r # s
      <4>1. OnDisk(r) /\ fin[r].sb # sb /\ cap[fin[r].sb] = None
        BY <1>1, <1>12, <1>17, <2>1, <3>2 DEF RecordsOK, OnDisk, Sound
      <4>2. fin[r].sb \in Sandbox
        BY <1>1, <4>1 DEF TypeOK, RecordType, MintOK, OnDisk, Ladder
      <4> QED
        BY <1>10, <4>1, <4>2
    <3> QED
      BY <3>1, <3>2
  <2>2. \A r, t \in Snap :
            fin'[r].st \in Ladder /\ fin'[t].st \in Ladder
            /\ fin[r].sb = fin[t].sb /\ fin[r].sb \notin spoilt => r = t
    BY <1>1, <1>3, <1>12, <1>17 DEF RecordsOK, OnDisk, Sound
  <2> QED
    BY <1>2, <1>12, <2>1, <2>2 DEF RecordsOK, OnDisk, Sound
<1>19. VolumesOK'
  <2>1. sb \notin spoilt => disk[sb].taken = s /\ disk[sb].ckpt # s
    BY <1>0, <1>1, <1>2 DEF VolumesOK
  <2>2. \A k \in Sandbox : cap'[k] # None /\ k \notin spoilt => disk[k].taken = cap'[k] /\ disk[k].ckpt # cap'[k]
    BY <1>1, <1>10 DEF VolumesOK
  <2>3. \A r \in Snap : fin'[r].st = "Captured" /\ fin[r].sb \notin spoilt =>
            /\ r \in {disk[fin[r].sb].taken, disk[fin[r].sb].ckpt}
            /\ disk[fin[r].sb].ckpt = r => disk[fin[r].sb].taken = 0
    BY <1>1, <1>3, <1>12, <2>1 DEF VolumesOK, CaptureKept, Sound
  <2>4. \A r \in Snap : job'[r].disk # 0 /\ Sound(r) => job'[r].disk = r
    BY <1>1, <1>6, <1>9 DEF VolumesOK, JobAt
  <2> QED
    BY <1>2, <1>12, <2>2, <2>3, <2>4 DEF VolumesOK, CaptureKept, Sound
<1>20. ChainOK'
  <2>1. fin'[s].sb = sb /\ fin'[s].st \in Ladder
    BY <1>3, <1>5, <1>8 DEF RecordAt, Ladder
  <2>2. \A r \in Snap : OnDisk(r) \/ job[r].pc = "destroy" => fin'[r].st \in Ladder \/ job'[r].pc = "destroy"
    BY <1>3, <1>12 DEF OnDisk, Ladder
  <2> QED
    BY <1>1, <1>2, <1>3, <1>10, <1>12, <2>1, <2>2 DEF ChainOK, OnDisk
<1>21. ASSUME NEW r \in Snap, r # s PROVE SnapOK(r)'
  <2>1. fin[r].sb # None /\ cap'[fin[r].sb] = r => cap[fin[r].sb] = r
    <3>1. r # None /\ (fin[r].sb # None => fin[r].sb \in Sandbox)
      BY <1>1, EvictionConstants DEF TypeOK, RecordType, Snap, None
    <3> QED
      BY <1>10, <3>1
  <2>2. Grown /\ SteadyAt(r)
    BY <1>2, <1>12, <1>21, <2>1 DEF Grown, SteadyAt, Published
  <2> QED
    BY <2>2, SteadySnap DEF IInv
<1>22. SnapOK(s)'
  <2>0. fin'[s] = v /\ job'[s] = w
    BY <1>8, <1>9 DEF RecordAt, JobAt
  <2>1. JobOK(s)'
    <3>1. fin[s].sb # None
      BY <1>3, EvictionConstants DEF Sandbox, None
    <3> QED
      BY <1>5, <1>6, <2>0, <3>1 DEF JobOK, OnDisk, AtStage, Ladder
  <2>2. Sound(s) => fin[s].whole
    BY <1>0, <1>3, <1>4, EvictionConstants DEF SnapOK, WholeOK, Sandbox, None
  <2>3. WholeOK(s)'
    BY <1>2, <1>3, <1>5, <2>0, <2>2 DEF WholeOK, OnDisk, Sound, PastDisk, PastMemory
  <2>4. StoreOK(s)'
    BY <1>2, <1>4, <1>5, <1>6, <2>0 DEF SnapOK, StoreOK, PastDisk
  <2>5. PublishedOK(s)'
    BY <1>2, <1>3 DEF PublishedOK, Published
  <2> QED
    BY <2>1, <2>3, <2>4, <2>5 DEF SnapOK
<1> QED
  BY <1>11, <1>13, <1>14, <1>16, <1>18, <1>19, <1>20, <1>21, <1>22 DEF IInv, SandboxesOK

\* The record could not be written: the diff's chain is dropped with the staged capture.
LEMMA PersistRecordFailsKeeps ==
    ASSUME IInv, NEW sb \in Sandbox, PersistRecordFails(sb)
    PROVE  IInv'
<1>0. PICK s \in Snap : s = cap[sb]
  BY CapHasNoJob DEF PersistRecordFails
<1> DEFINE v == [fin[s] EXCEPT !.staged = FALSE]
<1>1. TypeOK /\ OpOK /\ MintOK /\ CapsOK /\ LockOK /\ RecordsOK /\ VolumesOK /\ ChainOK
  BY DEF IInv, SandboxesOK
<1>2. /\ s # None /\ cap' = [cap EXCEPT ![sb] = None]
      /\ fin' = [fin EXCEPT ![s].staged = FALSE] /\ Fault
      /\ chain' = [chain EXCEPT ![sb] = Poisoned(s, chain[sb])]
      /\ UNCHANGED <<sess, evict, asc, row, tomb, hb, vm, disk, pend, job, adv, store, redriven,
                     spoilt, used>>
  BY <1>0 DEF PersistRecordFails, coordVars
<1>3. /\ fin[s].sb = sb /\ fin[s].st = "none" /\ fin[s] \in RecordType
      /\ job[s].pc = "none" /\ job[s].disk = 0 /\ ~Published(s)
      /\ \A k \in Sandbox : k # sb /\ cap[k] # None => cap[k] # s
  BY <1>0, <1>2, CapHasNoJob
<1>4. SnapOK(s) /\ fin \in [Snap -> RecordType]
  BY <1>1 DEF IInv, TypeOK
<1>5. v \in RecordType /\ v.st = "none" /\ v.disk = fin[s].disk /\ v.sb = fin[s].sb /\ v.mem = fin[s].mem
  BY <1>3 DEF RecordType
<1>6. fin' = [fin EXCEPT ![s] = v]
  BY <1>2, <1>4
<1> HIDE DEF v
<1>7. RecordAt(s, v)
  BY <1>1, <1>5, <1>6, PutRecord DEF RecordAt
<1>8. /\ cap' \in [Sandbox -> 0 .. MaxCaptures]
      /\ cap'[sb] = None /\ \A k \in Sandbox : k # sb => cap'[k] = cap[k]
  BY <1>1, <1>2, EvictionConstants DEF TypeOK, None
<1>9. /\ chain' \in [Sandbox -> {"none", "synced", "behind"}]
      /\ chain'[sb] = "none" /\ \A k \in Sandbox : k # sb => chain'[k] = chain[k]
  <2>1. Poisoned(s, chain[sb]) = "none"
    BY <1>0, <1>1, <1>2 DEF CapsOK, Poisoned
  <2> QED
    BY <1>1, <1>2, <2>1 DEF TypeOK
<1>10. TypeOK' /\ OpOK'
  BY <1>1, <1>2, <1>7, <1>8, <1>9, FaultCounts DEF TypeOK, OpOK, RecordAt
<1>11. \A r \in Snap : fin'[r].sb = fin[r].sb /\ fin'[r].st = fin[r].st /\ (r # s => fin'[r] = fin[r])
  BY <1>3, <1>5, <1>7 DEF RecordAt
<1>13. MintOK'
  BY <1>1, <1>2, <1>11 DEF MintOK
<1>14. CapsOK'
  <2>1. \A k \in Sandbox : cap'[k] # None => k # sb /\ cap[k] = cap'[k] /\ cap[k] \in Snap /\ cap[k] # s
    BY <1>1, <1>3, <1>8 DEF TypeOK, Snap, None
  <2> QED
    BY <1>1, <1>9, <1>11, <2>1 DEF CapsOK
<1>15. \A r \in Snap : fin[r].sb # None => fin[r].sb \in Sandbox
  BY <1>1 DEF TypeOK, RecordType
<1>16. LockOK'
  <2>1. \A r \in Snap : Holds(r) => fin[r].sb \in Sandbox
    BY <1>15 DEF IInv, SnapOK, JobOK, Holds
  <2> QED
    BY <1>1, <1>2, <1>8, <1>11, <2>1 DEF LockOK, Holds
<1>17. \A r \in Snap : OnDisk(r) => fin[r].sb \in Sandbox
  BY <1>1, <1>15 DEF MintOK, OnDisk, Ladder
<1>18. RecordsOK'
  BY <1>1, <1>2, <1>8, <1>11, <1>17 DEF RecordsOK, OnDisk, Sound
<1>19. VolumesOK'
  <2>1. \A k \in Sandbox : cap'[k] # None /\ k \notin spoilt => disk[k].taken = cap'[k] /\ disk[k].ckpt # cap'[k]
    BY <1>1, <1>8 DEF VolumesOK
  <2>2. CaptureKept'
    BY <1>1, <1>2, <1>11 DEF VolumesOK, CaptureKept
  <2> QED
    BY <1>1, <1>2, <1>11, <2>1, <2>2 DEF VolumesOK, Sound
<1>20. ChainOK'
  BY <1>1, <1>2, <1>8, <1>9, <1>11 DEF ChainOK, OnDisk
<1>21. \A r \in Snap : fin[r].sb # None /\ cap'[fin[r].sb] = r => cap[fin[r].sb] = r /\ r # s
  <2>1. \A r \in Snap : r # None
    BY EvictionConstants DEF Snap, None
  <2> QED
    BY <1>3, <1>8, <1>15, <2>1
<1>22. ASSUME NEW r \in Snap, r # s PROVE SnapOK(r)'
  <2>1. Grown /\ SteadyAt(r)
    BY <1>2, <1>11, <1>21, <1>22 DEF Grown, SteadyAt, Published
  <2> QED
    BY <2>1, SteadySnap DEF IInv
<1>23. SnapOK(s)'
  <2>0. fin'[s] = v /\ job' = job
    BY <1>2, <1>7 DEF RecordAt
  <2>1. JobOK(s)'
    BY <1>3, <2>0 DEF JobOK
  <2>2. WholeOK(s)'
    BY <1>5, <1>11, <1>21, <2>0 DEF WholeOK, OnDisk, PastDisk, PastMemory, Ladder
  <2>3. StoreOK(s)'
    BY <1>2, <1>3, <1>4, <1>5, <2>0 DEF SnapOK, StoreOK, PastDisk
  <2>4. PublishedOK(s)'
    BY <1>2, <1>3 DEF PublishedOK, Published
  <2> QED
    BY <2>1, <2>2, <2>3, <2>4 DEF SnapOK
<1> QED
  BY <1>10, <1>13, <1>14, <1>16, <1>18, <1>19, <1>20, <1>22, <1>23 DEF IInv, SandboxesOK

\* A capture that is unwound spoils its sandbox: what its volume or its chain has lost
\* is of no other.
LEMMA CaptureUnwindsKeeps ==
    ASSUME IInv, NEW sb \in Sandbox, CaptureUnwinds(sb)
    PROVE  IInv'
<1>1. TypeOK /\ OpOK /\ MintOK /\ CapsOK /\ LockOK /\ RecordsOK /\ VolumesOK /\ ChainOK
  BY DEF IInv, SandboxesOK
<1>2. /\ cap' = [cap EXCEPT ![sb] = None] /\ Fault /\ spoilt' = spoilt \cup {sb}
      /\ vm' = [vm EXCEPT ![sb] = IF vm[sb] = "paused" THEN "running" ELSE vm[sb]]
      /\ disk' = [disk EXCEPT ![sb].taken = 0]
      /\ UNCHANGED <<sess, evict, asc, row, tomb, hb, pend, fin, job, adv, store, redriven, used>>
  BY DEF CaptureUnwinds, coordVars
<1>3. PICK c : /\ c \in {chain[sb], Poisoned(cap[sb], chain[sb])}
               /\ chain' = [chain EXCEPT ![sb] = c]
  BY DEF CaptureUnwinds
<1>4. /\ chain' \in [Sandbox -> {"none", "synced", "behind"}]
      /\ \A k \in Sandbox : k # sb => chain'[k] = chain[k]
  BY <1>1, <1>3 DEF TypeOK, Poisoned
<1>5. /\ cap' \in [Sandbox -> 0 .. MaxCaptures]
      /\ cap'[sb] = None /\ \A k \in Sandbox : k # sb => cap'[k] = cap[k]
  BY <1>1, <1>2, EvictionConstants DEF TypeOK, None
<1> DEFINE x == [disk[sb] EXCEPT !.taken = 0]
<1>6. x \in DiskType /\ x.taken = 0 /\ x.ckpt = disk[sb].ckpt
  <2>1. disk[sb] \in DiskType /\ 0 \in 0 .. MaxCaptures
    BY <1>1, EvictionConstants DEF TypeOK
  <2> QED
    BY <2>1 DEF DiskType
<1>7. disk' = [disk EXCEPT ![sb] = x]
  BY <1>1, <1>2 DEF TypeOK
<1> HIDE DEF x
<1>8. /\ disk' \in [Sandbox -> DiskType] /\ disk'[sb] = x
      /\ \A k \in Sandbox : k # sb => disk'[k] = disk[k]
  BY <1>1, <1>6, <1>7 DEF TypeOK
<1>9. TypeOK' /\ OpOK'
  <2>1. vm' \in [Sandbox -> {"gone", "running", "paused", "orphan"}] /\ spoilt' \subseteq Sandbox
    BY <1>1, <1>2 DEF TypeOK
  <2> QED
    BY <1>1, <1>2, <1>4, <1>5, <1>8, <2>1, FaultCounts DEF TypeOK, OpOK
<1>10. MintOK'
  <2>1. 0 <= used.captures
    BY <1>1, EvictionConstants DEF TypeOK, UsedType
  <2>2. \A k \in Sandbox : disk'[k].taken <= used.captures /\ disk'[k].ckpt <= used.captures
    BY <1>1, <1>6, <1>8, <2>1 DEF MintOK
  <2> QED
    BY <1>1, <1>2, <2>2 DEF MintOK
<1>11. CapsOK'
  BY <1>1, <1>2, <1>4, <1>5 DEF CapsOK
<1>12. \A r \in Snap : fin[r].sb # None => fin[r].sb \in Sandbox
  BY <1>1 DEF TypeOK, RecordType
<1>13. LockOK'
  <2>1. \A r \in Snap : Holds(r) => fin[r].sb \in Sandbox
    BY <1>12 DEF IInv, SnapOK, JobOK, Holds
  <2> QED
    BY <1>1, <1>2, <1>5, <2>1 DEF LockOK, Holds
<1>14. \A r \in Snap : OnDisk(r) => fin[r].sb \in Sandbox
  BY <1>1, <1>12 DEF MintOK, OnDisk, Ladder
<1>15. RecordsOK'
  BY <1>1, <1>2, <1>5, <1>14 DEF RecordsOK, OnDisk, Sound
<1>16. VolumesOK'
  <2>1. \A k \in Sandbox : cap'[k] # None => disk'[k] = disk[k] /\ cap'[k] = cap[k]
    BY <1>5, <1>8
  <2>2. ASSUME NEW r \in Snap, fin[r].st = "Captured", fin[r].sb \notin spoilt'
        PROVE  Sound(r) /\ disk'[fin[r].sb] = disk[fin[r].sb]
    <3>1. fin[r].sb \in Sandbox
      BY <1>14, <2>2 DEF OnDisk, Ladder
    <3> QED
      BY <1>2, <1>8, <2>2, <3>1 DEF Sound
  <2>3. CaptureKept'
    BY <1>1, <1>2, <2>2 DEF VolumesOK, CaptureKept, Sound
  <2> QED
    BY <1>1, <1>2, <2>1, <2>2, <2>3 DEF VolumesOK, Sound
<1>17. ChainOK'
  BY <1>1, <1>2, <1>4, <1>5 DEF ChainOK, OnDisk
<1>18. \A r \in Snap : fin[r].sb # None /\ cap'[fin[r].sb] = r => cap[fin[r].sb] = r
  <2>1. \A r \in Snap : r # None
    BY EvictionConstants DEF Snap, None
  <2> QED
    BY <1>5, <1>12, <2>1
<1>19. ASSUME NEW r \in Snap PROVE SnapOK(r)'
  <2>1. Grown /\ SteadyAt(r)
    BY <1>2, <1>18 DEF Grown, SteadyAt, Published
  <2> QED
    BY <2>1, SteadySnap DEF IInv
<1> QED
  BY <1>9, <1>10, <1>11, <1>13, <1>15, <1>16, <1>17, <1>19 DEF IInv, SandboxesOK

\* A dropped handler leaves a record, or none, of a sandbox that is spoilt.
LEMMA DropPersistKeeps ==
    ASSUME IInv, NEW sb \in Sandbox, DropPersist(sb)
    PROVE  IInv'
<1>0. PICK s \in Snap : s = cap[sb]
  BY CapHasNoJob DEF DropPersist
<1>a. PICK st \in {"none", "Captured"} : fin' = [fin EXCEPT ![s].st = st]
  BY <1>0 DEF DropPersist
<1> DEFINE v == [fin[s] EXCEPT !.st = st]
<1>1. TypeOK /\ OpOK /\ MintOK /\ CapsOK /\ LockOK /\ RecordsOK /\ VolumesOK /\ ChainOK
  BY DEF IInv, SandboxesOK
<1>2. /\ s # None /\ cap' = [cap EXCEPT ![sb] = None]
      /\ spoilt' = spoilt \cup {sb} /\ Fault
      /\ UNCHANGED <<sess, evict, asc, row, tomb, hb, vm, disk, chain, pend, job, adv, store,
                     redriven, used>>
  BY <1>0 DEF DropPersist, coordVars
<1>3. /\ fin[s].sb = sb /\ fin[s].st = "none" /\ fin[s] \in RecordType
      /\ job[s].pc = "none" /\ job[s].disk = 0 /\ ~Published(s)
      /\ \A k \in Sandbox : k # sb /\ cap[k] # None => cap[k] # s
  BY <1>0, <1>2, CapHasNoJob
<1>4. SnapOK(s) /\ fin \in [Snap -> RecordType]
  BY <1>1 DEF IInv, TypeOK
<1>5. v \in RecordType /\ v.st = st /\ v.sb = fin[s].sb /\ v.mem = fin[s].mem
  BY <1>3 DEF RecordType, Ladder
<1>6. fin' = [fin EXCEPT ![s] = v]
  BY <1>a, <1>4
<1> HIDE DEF v
<1>7. RecordAt(s, v)
  BY <1>1, <1>5, <1>6, PutRecord DEF RecordAt
<1>8. /\ cap' \in [Sandbox -> 0 .. MaxCaptures]
      /\ cap'[sb] = None /\ \A k \in Sandbox : k # sb => cap'[k] = cap[k]
  BY <1>1, <1>2, EvictionConstants DEF TypeOK, None
<1>9. TypeOK' /\ OpOK'
  BY <1>1, <1>2, <1>7, <1>8, FaultCounts DEF TypeOK, OpOK, RecordAt
<1>10. \A r \in Snap : fin'[r].sb = fin[r].sb /\ (r # s => fin'[r] = fin[r])
  BY <1>3, <1>5, <1>7 DEF RecordAt
<1>11. fin'[s].sb = sb /\ fin'[s].st = st /\ fin'[s].sb \in spoilt' /\ sb # None
  BY <1>2, <1>3, <1>5, <1>7 DEF RecordAt, Sandbox, None
<1>12. MintOK'
  BY <1>1, <1>2, <1>3, <1>10, <1>11 DEF MintOK
<1>13. CapsOK'
  <2>1. \A k \in Sandbox : cap'[k] # None => k # sb /\ cap[k] = cap'[k] /\ cap[k] \in Snap /\ cap[k] # s
    BY <1>1, <1>3, <1>8 DEF TypeOK, Snap, None
  <2> QED
    BY <1>1, <1>2, <1>10, <2>1 DEF CapsOK
<1>14. \A r \in Snap : fin[r].sb # None => fin[r].sb \in Sandbox
  BY <1>1 DEF TypeOK, RecordType
<1>15. LockOK'
  <2>1. \A r \in Snap : Holds(r) => fin[r].sb \in Sandbox
    BY <1>14 DEF IInv, SnapOK, JobOK, Holds
  <2> QED
    BY <1>1, <1>2, <1>8, <1>10, <2>1 DEF LockOK, Holds
<1>16. \A r \in Snap : fin'[r].st \in Ladder /\ fin'[r].sb \notin spoilt' =>
           /\ r # s /\ OnDisk(r) /\ Sound(r) /\ fin'[r] = fin[r]
           /\ fin[r].sb \in Sandbox /\ fin[r].sb # sb
  BY <1>1, <1>2, <1>10, <1>11, <1>14 DEF MintOK, OnDisk, Sound, Ladder
<1>17. RecordsOK'
  <2>1. ASSUME NEW r \in Snap, NEW q \in Snap, fin'[r].st \in Ladder, fin'[q].st \in Ladder,
               fin'[r].sb = fin'[q].sb, fin'[r].sb \notin spoilt'
        PROVE  r = q
    <3>1. /\ OnDisk(r) /\ Sound(r) /\ fin'[r] = fin[r]
          /\ OnDisk(q) /\ fin'[q] = fin[q]
      BY <1>16, <2>1
    <3> QED
      BY <1>1, <2>1, <3>1 DEF RecordsOK
  <2>2. \A r \in Snap : fin'[r].st \in Ladder /\ fin'[r].sb \notin spoilt' => cap'[fin'[r].sb] = None
    BY <1>1, <1>8, <1>16 DEF RecordsOK
  <2> QED
    BY <2>1, <2>2 DEF RecordsOK, OnDisk, Sound
<1>18. VolumesOK'
  <2>1. \A k \in Sandbox : cap'[k] # None /\ k \notin spoilt' => disk[k].taken = cap'[k] /\ disk[k].ckpt # cap'[k]
    BY <1>1, <1>2, <1>8 DEF VolumesOK
  <2>2. \A r \in Snap : fin'[r].st = "Captured" /\ fin'[r].sb \notin spoilt' =>
            fin[r].st = "Captured" /\ Sound(r) /\ fin'[r] = fin[r]
    BY <1>16 DEF Ladder
  <2>3. CaptureKept'
    BY <1>1, <1>2, <2>2 DEF VolumesOK, CaptureKept, Sound
  <2>4. \A r \in Snap : job[r].disk # 0 /\ fin'[r].sb \notin spoilt' => job[r].disk = r
    BY <1>1, <1>2, <1>10 DEF VolumesOK, Sound
  <2> QED
    BY <1>1, <1>2, <2>1, <2>2, <2>3, <2>4 DEF VolumesOK, Sound
<1>19. ChainOK'
  <2>1. ASSUME NEW k \in Sandbox, chain[k] = "behind", k \notin spoilt'
        PROVE  \/ cap'[k] # None
               \/ \E r \in Snap : fin'[r].sb = k /\ (fin'[r].st \in Ladder \/ job[r].pc = "destroy")
    <3>1. k # sb /\ k \notin spoilt
      BY <1>2, <2>1
    <3>2. \A r \in Snap : fin[r].sb = k => fin'[r] = fin[r]
      BY <1>3, <1>10, <3>1
    <3> QED
      BY <1>1, <1>8, <2>1, <3>1, <3>2 DEF ChainOK, OnDisk
  <2> QED
    BY <1>2, <2>1 DEF ChainOK, OnDisk
<1>20. \A r \in Snap : fin[r].sb # None /\ cap'[fin[r].sb] = r => cap[fin[r].sb] = r /\ r # s
  <2>1. \A r \in Snap : r # None
    BY EvictionConstants DEF Snap, None
  <2> QED
    BY <1>3, <1>8, <1>14, <2>1
<1>21. ASSUME NEW r \in Snap, r # s PROVE SnapOK(r)'
  <2>1. Grown /\ SteadyAt(r)
    BY <1>2, <1>10, <1>20, <1>21 DEF Grown, SteadyAt, Published
  <2> QED
    BY <2>1, SteadySnap DEF IInv
<1>22. SnapOK(s)'
  <2>0. fin'[s] = v /\ job' = job /\ ~Sound(s)'
    BY <1>2, <1>7, <1>11 DEF RecordAt, Sound
  <2>1. JobOK(s)'
    BY <1>3, <2>0 DEF JobOK
  <2>2. WholeOK(s)'
    BY <1>11, <2>0 DEF WholeOK
  <2>3. StoreOK(s)'
    BY <1>2, <1>3, <1>4, <1>5, <2>0 DEF SnapOK, StoreOK, PastDisk
  <2>4. PublishedOK(s)'
    BY <1>2, <1>3 DEF PublishedOK, Published
  <2> QED
    BY <2>1, <2>2, <2>3, <2>4 DEF SnapOK
<1> QED
  BY <1>9, <1>12, <1>13, <1>15, <1>17, <1>18, <1>19, <1>21, <1>22 DEF IInv, SandboxesOK

\* A capture is taken: whole, unless an earlier one of the sandbox has not been
\* published, which spoils it.
LEMMA CaptureTaken ==
    ASSUME IInv, NEW sb \in Sandbox, Capture(sb)
    PROVE  IInv'
<1>0. PICK s : s = used.captures + 1
  OBVIOUS
<1> DEFINE v == [NoRecord EXCEPT !.sb = sb, !.prev = disk[sb].ckpt, !.diff = (chain[sb] # "none"),
                                 !.whole = (chain[sb] # "behind"), !.staged = TRUE]
           x == [disk[sb] EXCEPT !.taken = s]
           u == [used EXCEPT !.captures = s]
           e == [evict EXCEPT !.st = "capturing"]
           c == IF chain[sb] = "none" THEN "none" ELSE "behind"
<1>1. TypeOK /\ OpOK /\ MintOK /\ CapsOK /\ LockOK /\ RecordsOK /\ VolumesOK /\ ChainOK
  BY DEF IInv, SandboxesOK
<1>2. /\ evict.st = "running" /\ evict.sb = sb /\ ~Locked(sb) /\ used.captures < MaxCaptures
      /\ used' = u /\ evict' = e /\ vm' = [vm EXCEPT ![sb] = "paused"]
      /\ disk' = [disk EXCEPT ![sb].taken = s] /\ fin' = [fin EXCEPT ![s] = v]
      /\ chain' = [chain EXCEPT ![sb] = c] /\ cap' = [cap EXCEPT ![sb] = s]
      /\ spoilt \subseteq spoilt' /\ spoilt' \subseteq spoilt \cup {sb}
      /\ (\E r \in Snap : fin[r].sb = sb /\ OnDisk(r)) => sb \in spoilt'
      /\ UNCHANGED <<sess, asc, row, tomb, hb, pend, job, adv, store, redriven, faults>>
  BY <1>0 DEF Capture
<1>3. s \in Snap /\ s # None /\ used.captures \in Nat /\ used.captures < s /\ s \in 0 .. MaxCaptures
  BY <1>0, <1>1, <1>2, EvictionConstants DEF TypeOK, UsedType, Snap, None
<1>4. SnapOK(s) /\ fin[s].sb = None /\ fin[s].st = "none"
  BY <1>1, <1>3 DEF IInv, MintOK, Snap
<1>5. job[s].pc = "none" /\ job[s].disk = 0 /\ ~Published(s)
  BY <1>4 DEF SnapOK, JobOK, Stepping, PublishedOK, PastMemory
<1>6. disk \in [Sandbox -> DiskType] /\ disk[sb] \in DiskType
  BY <1>1 DEF TypeOK
<1>7. x \in DiskType /\ x.taken = s /\ x.ckpt = disk[sb].ckpt
  BY <1>3, <1>6 DEF DiskType
<1>8. /\ v.st = "none" /\ v.sb = sb /\ v.whole = (chain[sb] # "behind") /\ v.staged = TRUE
      /\ v.diff = (chain[sb] # "none") /\ v.mem = FALSE /\ v.prev = disk[sb].ckpt
      /\ v.att = 0 /\ v.disk = 0
  BY DEF NoRecord
<1>9. v \in RecordType
  <2>1. /\ disk[sb].ckpt \in 0 .. MaxCaptures /\ 0 \in 0 .. MaxCaptures
        /\ 0 \in 0 .. MaxFinalizeAttempts - 1
    BY <1>6, EvictionConstants DEF DiskType
  <2>2. NoRecord \in RecordType
    BY <2>1 DEF NoRecord, RecordType
  <2> DEFINE diff == (chain[sb] # "none")
             whole == (chain[sb] # "behind")
  <2>3. diff \in BOOLEAN /\ whole \in BOOLEAN
    OBVIOUS
  <2> HIDE DEF diff, whole
  <2>4. [NoRecord EXCEPT !.sb = sb, !.prev = disk[sb].ckpt, !.diff = diff, !.whole = whole,
                         !.staged = TRUE] \in RecordType
    BY <2>1, <2>2, <2>3 DEF RecordType
  <2> QED
    BY <2>4 DEF diff, whole
<1>10. u \in UsedType /\ u.captures = s /\ u.sandboxes = used.sandboxes
  BY <1>1, <1>3 DEF TypeOK, UsedType
<1>11. e \in OpType /\ e.st = "capturing" /\ e.sb = sb /\ e.att = evict.att
  BY <1>1, <1>2 DEF TypeOK, OpType, OpState
<1>12. c \in {"none", "behind"} /\ (c = "none" => chain[sb] = "none")
  OBVIOUS
<1>13. disk' = [disk EXCEPT ![sb] = x]
  BY <1>2, <1>6
<1> HIDE DEF v, x, u, e, c
<1>14. RecordAt(s, v)
  BY <1>1, <1>2, <1>3, <1>9, PutRecord DEF RecordAt
<1>15. /\ disk' \in [Sandbox -> DiskType] /\ disk'[sb] = x
       /\ \A k \in Sandbox : k # sb => disk'[k] = disk[k]
  BY <1>6, <1>7, <1>13
<1>16. /\ chain' \in [Sandbox -> {"none", "synced", "behind"}] /\ chain'[sb] = c
       /\ \A k \in Sandbox : k # sb => chain'[k] = chain[k]
  BY <1>1, <1>2, <1>12 DEF TypeOK
<1>17. /\ cap' \in [Sandbox -> 0 .. MaxCaptures] /\ cap'[sb] = s
       /\ \A k \in Sandbox : k # sb => cap'[k] = cap[k]
  BY <1>1, <1>2, <1>3 DEF TypeOK
<1>18. TypeOK'
  <2>1. vm' \in [Sandbox -> {"gone", "running", "paused", "orphan"}] /\ spoilt' \subseteq Sandbox
    BY <1>1, <1>2 DEF TypeOK
  <2>2. evict' \in OpType /\ used' \in UsedType
    BY <1>2, <1>10, <1>11
  <2>3. UNCHANGED <<sess, asc, row, tomb, hb, pend, job, adv, store, redriven, faults>>
    BY <1>2
  <2> QED
    BY <1>1, <1>14, <1>15, <1>16, <1>17, <2>1, <2>2, <2>3 DEF TypeOK, RecordAt
<1>19. OpOK'
  BY <1>1, <1>2, <1>10, <1>11 DEF OpOK, OpEnded
<1>20. sb = used.sandboxes /\ sb # None
  BY <1>1, <1>2, EvictionConstants DEF OpOK, Sandbox, None
<1>21. fin'[s] = v /\ \A r \in Snap : r # s => fin'[r] = fin[r]
  BY <1>14 DEF RecordAt
<1>22. \A r \in Snap : r <= used.captures <=> (r <= s /\ r # s)
  BY <1>0, <1>3 DEF Snap
<1>23. MintOK'
  <2>1. used'.sandboxes = used.sandboxes /\ used'.captures = s /\ sess' = sess
    BY <1>2, <1>10
  <2>2. \A r \in Snap : /\ fin'[r].sb <= used.sandboxes
                        /\ fin'[r].sb = None <=> r > s
                        /\ fin'[r].sb = None => fin'[r].st = "none"
    <3>1. ASSUME NEW r \in Snap, r # s
          PROVE  /\ fin'[r].sb <= used.sandboxes
                 /\ fin'[r].sb = None <=> r > s
                 /\ fin'[r].sb = None => fin'[r].st = "none"
      <4>1. r > used.captures <=> r > s
        BY <1>0, <1>3, <3>1 DEF Snap
      <4> QED
        BY <1>1, <1>21, <3>1, <4>1 DEF MintOK
    <3>2. /\ fin'[s].sb <= used.sandboxes
          /\ fin'[s].sb = None <=> s > s
          /\ fin'[s].sb = None => fin'[s].st = "none"
      BY <1>3, <1>8, <1>20, <1>21 DEF Sandbox
    <3> QED
      BY <3>1, <3>2
  <2>3. ASSUME NEW r \in Snap, NEW t \in Snap, r <= t, t <= s PROVE fin'[r].sb <= fin'[t].sb
    <3>1. CASE t = s
      BY <1>8, <1>20, <1>21, <2>2, <3>1
    <3>2. CASE t # s
      <4>1. r # s /\ t <= used.captures
        BY <1>3, <1>22, <2>3, <3>2 DEF Snap
      <4> QED
        BY <1>1, <1>21, <2>3, <3>2, <4>1 DEF MintOK
    <3> QED
      BY <3>1, <3>2
  <2>4. \A k \in Sandbox : disk'[k].taken <= s /\ disk'[k].ckpt <= s
    <3>1. ASSUME NEW k \in Sandbox PROVE disk'[k].taken <= s /\ disk'[k].ckpt <= s
      <4>1. /\ disk[k].taken <= used.captures /\ disk[k].ckpt <= used.captures
            /\ disk[k].taken \in 0 .. MaxCaptures /\ disk[k].ckpt \in 0 .. MaxCaptures
        BY <1>1, <1>6 DEF MintOK, DiskType
      <4>2. disk[k].taken <= s /\ disk[k].ckpt <= s /\ s <= s
        BY <1>0, <1>3, <4>1
      <4> QED
        BY <1>7, <1>15, <4>2
    <3> QED
      BY <3>1
  <2> QED
    BY <1>1, <2>1, <2>2, <2>3, <2>4 DEF MintOK
<1>24. \A k \in Sandbox : cap[k] # None => cap[k] \in Snap /\ cap[k] # s
  BY <1>1, <1>4 DEF CapsOK, TypeOK, Snap, Sandbox, None
<1>25. CapsOK'
  <2>1. ASSUME NEW k \in Sandbox, k # sb, cap'[k] # None
        PROVE  /\ fin'[cap'[k]].sb = k /\ fin'[cap'[k]].st = "none" /\ fin'[cap'[k]].staged
               /\ chain'[k] # "none" => fin'[cap'[k]].diff
    <3>1. cap'[k] = cap[k] /\ fin'[cap[k]] = fin[cap[k]] /\ chain'[k] = chain[k]
      BY <1>16, <1>17, <1>21, <1>24, <2>1
    <3> QED
      BY <1>1, <2>1, <3>1 DEF CapsOK
  <2>2. /\ fin'[s].sb = sb /\ fin'[s].st = "none" /\ fin'[s].staged
        /\ chain'[sb] # "none" => fin'[s].diff
    BY <1>8, <1>16, <1>21 DEF c
  <2> QED
    BY <1>17, <2>1, <2>2 DEF CapsOK
<1>26. cap[sb] = None /\ \A r \in Snap : Holds(r) => fin[r].sb # sb
  BY <1>2 DEF Locked, Holds
<1>27. \A r \in Snap : Holds(r) => r # s /\ fin[r].sb \in Sandbox
  BY <1>1, <1>5 DEF IInv, SnapOK, JobOK, Holds, TypeOK, RecordType
<1>28. LockOK'
  <2>1. \A r \in Snap : Holds(r)' <=> Holds(r)
    BY <1>2 DEF Holds
  <2> QED
    BY <1>1, <1>17, <1>21, <1>26, <1>27, <2>1 DEF LockOK
<1>29. \A r \in Snap : fin'[r].st \in Ladder => r # s /\ OnDisk(r) /\ fin[r].sb \in Sandbox
  BY <1>1, <1>8, <1>21 DEF OnDisk, Ladder, MintOK, TypeOK, RecordType
<1>30. RecordsOK'
  <2>1. \A r \in Snap : fin'[r].st \in Ladder /\ fin'[r].sb \notin spoilt' =>
            fin[r].sb # sb /\ Sound(r) /\ fin'[r] = fin[r]
    BY <1>2, <1>21, <1>29 DEF Sound
  <2> QED
    BY <1>1, <1>17, <1>29, <2>1 DEF RecordsOK, OnDisk, Sound
<1>31. VolumesOK'
  <2>1. disk[sb].ckpt # s
    <3>1. disk[sb].ckpt <= used.captures /\ disk[sb].ckpt \in 0 .. MaxCaptures
      BY <1>1, <1>6 DEF MintOK, DiskType
    <3> QED
      BY <1>3, <3>1
  <2>2. \A k \in Sandbox : cap'[k] # None /\ k \notin spoilt' =>
            disk'[k].taken = cap'[k] /\ disk'[k].ckpt # cap'[k]
    BY <1>1, <1>2, <1>7, <1>15, <1>17, <2>1 DEF VolumesOK
  <2>3. ASSUME NEW r \in Snap, fin'[r].st = "Captured", fin'[r].sb \notin spoilt'
        PROVE  /\ r \in {disk'[fin'[r].sb].taken, disk'[fin'[r].sb].ckpt}
               /\ disk'[fin'[r].sb].ckpt = r => disk'[fin'[r].sb].taken = 0
    <3>1. r # s /\ OnDisk(r) /\ fin[r].sb \in Sandbox /\ fin'[r] = fin[r]
      BY <1>21, <1>29, <2>3 DEF Ladder
    <3>2. fin[r].sb # sb /\ fin[r].sb \notin spoilt /\ fin[r].st = "Captured"
      BY <1>2, <2>3, <3>1
    <3>3. disk'[fin[r].sb] = disk[fin[r].sb]
      BY <1>15, <3>1, <3>2
    <3> QED
      BY <1>1, <3>1, <3>2, <3>3 DEF VolumesOK, CaptureKept, Sound
  <2>4. ASSUME NEW r \in Snap, job[r].disk # 0, fin'[r].sb \notin spoilt' PROVE job[r].disk = r
    BY <1>1, <1>2, <1>5, <1>21, <2>4 DEF VolumesOK, Sound
  <2> QED
    BY <1>2, <2>2, <2>3, <2>4 DEF VolumesOK, CaptureKept, Sound
<1>32. ChainOK'
  <2>1. ASSUME NEW k \in Sandbox, k # sb, chain'[k] = "behind", k \notin spoilt'
        PROVE  \/ cap'[k] # None
               \/ \E r \in Snap : fin'[r].sb = k /\ (fin'[r].st \in Ladder \/ job'[r].pc = "destroy")
    <3>1. \/ cap[k] # None
          \/ \E r \in Snap : fin[r].sb = k /\ (OnDisk(r) \/ job[r].pc = "destroy")
      BY <1>1, <1>2, <1>16, <2>1 DEF ChainOK
    <3>2. \A r \in Snap : fin[r].sb = k => fin'[r] = fin[r] /\ job'[r] = job[r]
      BY <1>2, <1>4, <1>21 DEF Sandbox, None
    <3> QED
      BY <1>17, <2>1, <3>1, <3>2 DEF OnDisk
  <2> QED
    BY <1>3, <1>17, <2>1 DEF ChainOK, OnDisk
<1>33. ASSUME NEW r \in Snap, r # s PROVE SnapOK(r)'
  <2>1. fin[r].sb # None /\ cap'[fin[r].sb] = r => cap[fin[r].sb] = r
    <3>1. fin[r].sb # None => fin[r].sb \in Sandbox
      BY <1>1 DEF TypeOK, RecordType
    <3> QED
      BY <1>17, <1>33, <3>1
  <2>2. Grown /\ SteadyAt(r)
    BY <1>2, <1>21, <1>33, <2>1 DEF Grown, SteadyAt, Published
  <2> QED
    BY <2>2, SteadySnap DEF IInv
<1>34. SnapOK(s)'
  <2>1. JobOK(s)'
    BY <1>2, <1>5 DEF JobOK
  <2>2. sb \notin spoilt' => chain[sb] # "behind"
    <3>1. ASSUME chain[sb] = "behind", sb \notin spoilt' PROVE FALSE
      <4>1. PICK r \in Snap : fin[r].sb = sb /\ (OnDisk(r) \/ job[r].pc = "destroy")
        BY <1>1, <1>2, <1>26, <3>1 DEF ChainOK
      <4> QED
        BY <1>2, <1>26, <3>1, <4>1 DEF Holds
    <3> QED
      BY <3>1
  <2>3. WholeOK(s)'
    BY <1>8, <1>21, <2>2 DEF WholeOK, OnDisk, Sound, Ladder, PastDisk, PastMemory
  <2>4. StoreOK(s)'
    BY <1>2, <1>5, <1>8, <1>21 DEF StoreOK, PastDisk
  <2>5. PublishedOK(s)'
    BY <1>2, <1>5 DEF PublishedOK, Published
  <2> QED
    BY <2>1, <2>3, <2>4, <2>5 DEF SnapOK
<1> QED
  BY <1>18, <1>19, <1>23, <1>25, <1>28, <1>30, <1>31, <1>32, <1>33, <1>34 DEF IInv, SandboxesOK

-----------------------------------------------------------------------------
(* The invariant and the theorems.                                          *)

\* Nothing was captured yet.
LEMMA InitIInv == Init => IInv
<1> SUFFICES ASSUME Init PROVE IInv
  OBVIOUS
<1>1. /\ 1 \in Sandbox /\ 0 \in 0 .. MaxCaptures /\ 0 \in 0 .. MaxFinalizeAttempts - 1
      /\ 0 \in 0 .. MaxEvictAttempts /\ 1 \in 0 .. MaxSandboxes /\ 0 \in 0 .. MaxReturns
      /\ 0 \in 0 .. MaxFaults /\ 0 < MaxEvictAttempts
  BY EvictionConstants DEF Sandbox
<1>2. /\ NoRecord \in RecordType /\ NoRecord.st = "none" /\ NoRecord.sb = None /\ ~NoRecord.mem
      /\ NoJob \in JobType /\ NoJob.pc = "none" /\ NoJob.disk = 0
  BY <1>1 DEF NoRecord, RecordType, NoJob, JobType, Ladder, None
<1>3. /\ fin \in [Snap -> RecordType] /\ \A s \in Snap : fin[s] = NoRecord
      /\ job \in [Snap -> JobType] /\ \A s \in Snap : job[s] = NoJob
  BY <1>2 DEF Init
<1>4. TypeOK
  <2>1. sess \in SessType /\ used \in UsedType
    BY <1>1 DEF Init, SessType, UsedType, Status
  <2>2. disk \in [Sandbox -> DiskType]
    BY <1>1 DEF Init, DiskType
  <2>3. evict \in OpType
    BY OpValues DEF Init, OpEnded
  <2>4. cap \in [Sandbox -> 0 .. MaxCaptures] /\ pend \in [Sandbox -> 0 .. MaxCaptures]
    BY <1>1 DEF Init, None
  <2>5. /\ vm \in [Sandbox -> {"gone", "running", "paused", "orphan"}]
        /\ chain \in [Sandbox -> {"none", "synced", "behind"}]
        /\ row \in [Snap -> {"absent", "lost", "recoverable"}]
        /\ hb \in [Snap -> {"none", "sent", "recorded", "acked"}]
    BY DEF Init
  <2>6. /\ asc \in BOOLEAN /\ tomb \subseteq Sandbox /\ adv \subseteq Snap /\ redriven \in BOOLEAN
        /\ store \subseteq Parts \X Snap /\ spoilt \subseteq Sandbox /\ faults \in 0 .. MaxFaults
    BY <1>1 DEF Init
  <2> QED
    BY <1>3, <2>1, <2>2, <2>3, <2>4, <2>5, <2>6 DEF TypeOK
<1>5. OpOK
  BY OpValues DEF Init, OpOK, OpEnded
<1>6. MintOK
  <2>1. used.sandboxes = 1 /\ used.captures = 0 /\ sess.sb = 1
    BY DEF Init
  <2>2. \A sb \in Sandbox : disk[sb].taken = 0 /\ disk[sb].ckpt = 0
    BY DEF Init
  <2>3. \A s \in Snap : fin[s].sb = 0 /\ fin[s].st = "none" /\ s > 0
    BY <1>2, <1>3, EvictionConstants DEF Snap, None
  <2> QED
    BY <1>1, <2>1, <2>2, <2>3 DEF MintOK, None
<1>7. CapsOK /\ LockOK /\ RecordsOK /\ VolumesOK /\ ChainOK
  <2>1. \A sb \in Sandbox : cap[sb] = None /\ chain[sb] # "behind"
    BY DEF Init
  <2>2. \A s \in Snap : /\ job[s].pc = "none" /\ job[s].disk = 0 /\ fin[s].st = "none"
    BY <1>2, <1>3
  <2> QED
    BY <2>1, <2>2 DEF CapsOK, LockOK, RecordsOK, VolumesOK, ChainOK, Holds, OnDisk, CaptureKept, Ladder
<1>8. ASSUME NEW s \in Snap PROVE SnapOK(s)
  <2>1. /\ job[s].pc = "none" /\ job[s].disk = 0 /\ fin[s].st = "none" /\ fin[s].sb = None
        /\ ~fin[s].mem /\ ~Published(s)
    BY <1>2, <1>3 DEF Init, Published
  <2>2. JobOK(s) /\ StoreOK(s) /\ PublishedOK(s)
    BY <2>1 DEF JobOK, StoreOK, PublishedOK, PastDisk
  <2>3. WholeOK(s)
    BY <2>1 DEF WholeOK, OnDisk, Ladder, PastDisk, PastMemory
  <2> QED
    BY <2>2, <2>3 DEF SnapOK
<1> QED
  BY <1>4, <1>5, <1>6, <1>7, <1>8 DEF IInv, SandboxesOK

\* Nothing happens.
LEMMA StutterIInv == ASSUME IInv, UNCHANGED vars PROVE IInv'
<1>1. UNCHANGED <<sess, evict, asc, row, tomb, hb, vm, disk, chain, cap, pend, fin, job,
                  adv, store, redriven, spoilt, used, faults>>
  BY DEF vars
<1>2. CoordOnly
  BY <1>1 DEF CoordOnly, Published
<1>3. TypeOK' /\ OpOK'
  BY <1>1 DEF IInv, TypeOK, OpOK
<1> QED
  BY <1>2, <1>3, CoordKeeps DEF IInv

\* Every step keeps the invariant.
LEMMA NextIInv == ASSUME IInv, Next PROVE IInv'
<1>1. CASE CoordStep
  BY <1>1, CoordIInv
<1>2. CASE \E sb \in Sandbox : \/ Capture(sb) \/ PersistRecord(sb) \/ ReapTombstone(sb)
                              \/ PersistRecordFails(sb) \/ CaptureUnwinds(sb) \/ DropPersist(sb)
  BY <1>2, CaptureTaken, PersistRecordKeeps, ReapTombstoneKeeps, PersistRecordFailsKeeps,
     CaptureUnwindsKeeps, DropPersistKeeps
<1>3. CASE ResumePendingFinalizes \/ ResumeFromIdle \/ \E survive \in BOOLEAN : Restart(survive)
  BY <1>3, RedriveKeeps, ResumeKeeps, RestartKeeps
<1>4. ASSUME NEW s \in Snap, JobStep(s) PROVE IInv'
  BY <1>4, StartJobKeeps, DiskLegKeeps, PersistDiskKeeps, PersistMemoryKeeps, UploadBlobsKeeps,
     PersistCheckpointKeeps, DeleteRecordKeeps, TerminalDestroyKeeps DEF JobStep
<1>5. ASSUME NEW s \in Snap, LegFails(s) \/ TerminalDestroyFails(s) PROVE IInv'
  BY <1>5, LegFailsKeeps, TerminalDestroyKeeps
<1> QED
  BY <1>1, <1>2, <1>3, <1>4, <1>5
     DEF Next, HostStep, CoordinatorStep, UserStep, FaultStep, HeartbeatStep, CoordStep

LEMMA Inductive == Spec => []IInv
<1>1. IInv /\ [Next]_vars => IInv'
  BY NextIInv, StutterIInv
<1> QED
  BY <1>1, InitIInv, PTL DEF Spec

\* The newest of some captures is one of them.
LEMMA Newest ==
    ASSUME NEW S \in SUBSET Snap, S # {}
    PROVE  \E s \in S : \A r \in S : r <= s
<1> DEFINE T == {MaxCaptures - s : s \in S}
<1>1. T \subseteq Nat /\ T # {}
  <2>1. \A s \in S : MaxCaptures - s \in Nat
    BY EvictionConstants DEF Snap
  <2>2. PICK s \in S : TRUE
    OBVIOUS
  <2>3. MaxCaptures - s \in T
    OBVIOUS
  <2> QED
    BY <2>1, <2>3
<1>2. \E x \in T : \A y \in T : ~(<<y, x>> \in OpToRel(<, Nat))
  BY <1>1, WFMin, NatLessThanWellFounded
<1>3. PICK x \in T : \A y \in T : ~(y < x)
  BY <1>1, <1>2 DEF OpToRel
<1>4. PICK s \in S : x = MaxCaptures - s
  BY <1>3
<1>5. \A r \in S : r <= s
  <2>1. ASSUME NEW r \in S PROVE r <= s
    <3>1. MaxCaptures - r \in T
      OBVIOUS
    <3>2. ~(MaxCaptures - r < MaxCaptures - s)
      BY <1>3, <1>4, <3>1
    <3> QED
      BY <3>2, EvictionConstants DEF Snap
  <2> QED
    BY <2>1
<1> QED
  BY <1>5

\* So the durable head of a session that has a recoverable snapshot is its newest one.
LEMMA HeadIsNewest ==
    ASSUME Recoverable # {}
    PROVE  DurableHead \in Recoverable /\ \A r \in Recoverable : r <= DurableHead
<1>1. \E s \in Recoverable : \A r \in Recoverable : r <= s
  BY Newest DEF Recoverable
<1> QED
  BY <1>1 DEF DurableHead

(* Every variable is of its type, at every step of an eviction, of a       *)
(* finalize job, of a heartbeat and of a restart.                          *)
THEOREM TypeCorrect == Spec => []TypeOK
BY Inductive, PTL DEF IInv

(* A capture that still has to publish its disk can: the transient volume  *)
(* or the published checkpoint of the capture is on the host, across       *)
(* teardowns, restarts and volume sweeps, until the disk stage of its      *)
(* record is durable, unless its sandbox was spoilt.                       *)
THEOREM CaptureIsKept == Spec => []CaptureKept
<1>1. IInv => CaptureKept
  BY DEF IInv, SandboxesOK, VolumesOK
<1> QED
  BY <1>1, Inductive, PTL

(* A recoverable row names the whole capture, disk and memory of the same  *)
(* pause, whichever stages the finalize job repeated after a crash and     *)
(* whichever attempts failed, unless its sandbox was spoilt.               *)
THEOREM RowsWhole == Spec => []RowsWholeUnlessSpoilt
<1>1. IInv => RowsWholeUnlessSpoilt
  <2> SUFFICES ASSUME IInv, NEW s \in Recoverable, fin[s].sb \notin spoilt PROVE Whole(s)
    BY DEF RowsWholeUnlessSpoilt
  <2>1. s \in Snap /\ Published(s)
    BY DEF Recoverable, Published
  <2>2. WholeOK(s) /\ PublishedOK(s) /\ Sound(s)
    BY <2>1 DEF IInv, SnapOK, Sound
  <2> QED
    BY <2>1, <2>2 DEF PublishedOK, WholeOK, Whole, PastMemory, PastDisk
<1> QED
  BY <1>1, Inductive, PTL

(* What a resume restores is in the blob store: the disk and the memory    *)
(* the durable head names and, unless its sandbox was spoilt, its state    *)
(* blobs, which no HEAD of the heartbeat reconcile checked.                *)
THEOREM HeadDurable == Spec => []HeadIsDurable
<1>1. IInv => HeadIsDurable
  <2> SUFFICES ASSUME IInv, Recoverable # {} PROVE HeadIsDurable
    BY DEF HeadIsDurable
  <2>1. PICK s \in Snap : s = DurableHead /\ Published(s)
    BY HeadIsNewest DEF Recoverable, Published
  <2>2. StoreOK(s) /\ PublishedOK(s)
    BY DEF IInv, SnapOK
  <2>3. /\ <<"disk", fin[s].disk>> \in store
        /\ fin[s].mem => <<"memory", s>> \in store
        /\ fin[s].mem /\ fin[s].sb \notin spoilt => <<"blobs", s>> \in store
    BY <2>1, <2>2 DEF StoreOK, PublishedOK, HasBlobs, Sound
  <2> QED
    BY <2>1, <2>3 DEF HeadIsDurable
<1> QED
  BY <1>1, Inductive, PTL

\* Only a settle turns an Evicting session Idle.
LEMMA OnlySettles ==
    ASSUME IInv, [Next]_vars, sess.st = "Evicting", sess'.st = "Idle"
    PROVE  \E s \in Snap : Settle(s) /\ Settles(s) /\ row' = row /\ fin' = fin
<1>0. sess \in SessType
  BY DEF IInv, TypeOK
<1>1. sess' # sess
  OBVIOUS
<1>2. Next
  BY <1>1 DEF vars
<1>3. ~HostStep \/ \E s \in Snap : Settle(s)
  BY <1>1 DEF HostStep, Capture, PersistRecord, ReapTombstone, BeginObserves,
     ResumePendingFinalizes, JobStep, StartJob, DiskLeg, PersistDisk, PersistMemory, UploadBlobs,
     PersistCheckpoint, DeleteRecord, TerminalDestroy, HeartbeatStep, Advertise, RecordSnapshot,
     Acknowledge, coordVars
<1>4. ~CoordinatorStep
  <2>1. ~ClaimEvict
    BY <1>0, <1>1 DEF ClaimEvict, SessType
  <2>2. ~BeginFails
    BY <1>0, <1>1 DEF BeginFails, EndAttempt, SessType
  <2> QED
    BY <1>0, <1>1, <2>1, <2>2 DEF CoordinatorStep, FinishEviction, GraceEnds, ScannerAdvance,
       AscendFlip, ReconcileMissing, RecoverHostLost, SessType
<1>5. ~UserStep
  BY <1>0, <1>1 DEF UserStep, Nominate, AdminEvict, AscendProbe, ResumeFromIdle, SessType
<1>6. ~FaultStep
  <2>1. ~LoseAnswer
    BY <1>0, <1>1 DEF LoseAnswer, EndAttempt, SessType
  <2> QED
    BY <1>1, <2>1 DEF FaultStep, AscendDies, PersistRecordFails, CaptureUnwinds, DropPersist,
       LegFails, TerminalDestroyFails, LoseHeartbeat, Restart, coordVars
<1>7. PICK s \in Snap : Settle(s)
  BY <1>2, <1>3, <1>4, <1>5, <1>6 DEF Next
<1> QED
  BY <1>1, <1>7 DEF Settle, hostVars

(* An eviction settles Idle only on a capture of the sandbox it detaches:  *)
(* the head that a resume will restore is of that sandbox, and an advert   *)
(* that is repeated after the session moved to another settles nothing.    *)
THEOREM SettlesOnOwn == Spec => SettlesOnOwnCapture
<1> DEFINE Step == sess.st = "Evicting" /\ sess'.st = "Idle" => fin[DurableHead'].sb = sess.sb
<1>1. IInv /\ [Next]_vars => [Step]_vars
  <2> SUFFICES ASSUME IInv, [Next]_vars, sess.st = "Evicting", sess'.st = "Idle"
               PROVE  fin[DurableHead'].sb = sess.sb
    OBVIOUS
  <2>1. PICK s \in Snap : Settle(s) /\ Settles(s) /\ row' = row /\ fin' = fin
    BY OnlySettles
  <2>2. DurableHead' = DurableHead /\ s \in Recoverable /\ sess.sb = fin[s].sb
    BY <2>1 DEF DurableHead, Recoverable, Settles
  <2>3. PICK h \in Snap : h = DurableHead /\ s <= h /\ Published(h) /\ Published(s)
    BY <2>2, HeadIsNewest DEF Recoverable, Published
  <2>4. MintOK /\ fin[s].sb # None /\ fin[h].sb # None
    BY <2>3 DEF IInv, SandboxesOK, MintOK, SnapOK, PublishedOK, PastMemory
  <2>5. h <= used.captures
    BY <2>4, EvictionConstants DEF MintOK, IInv, TypeOK, UsedType, Snap
  <2>6. fin[s].sb <= fin[h].sb /\ fin[h].sb <= fin[s].sb
    BY <2>2, <2>3, <2>4, <2>5 DEF MintOK
  <2>7. fin[s].sb = fin[h].sb
    BY <2>4, <2>6, EvictionConstants DEF IInv, TypeOK, RecordType, Sandbox, None
  <2> QED
    BY <2>2, <2>3, <2>7
<1> QED
  BY <1>1, Inductive, PTL DEF Spec, SettlesOnOwnCapture
=============================================================================
