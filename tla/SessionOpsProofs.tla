-------------------------- MODULE SessionOpsProofs --------------------------
(***************************************************************************)
(* Proofs about SessionOps for any number of pods, sessions, ops, attempts *)
(* and crashes.                                                            *)
(***************************************************************************)
EXTENDS SessionOps, TLAPS

(* An open transaction still has what its reads found: the locked head is  *)
(* queued, the inserted row is invisible; no two of them work on one row.  *)
TxOK ==
  /\ \A t \in txs : /\ t.how = "head" => ops[t.op].state = "queued"
                    /\ t.how # "head" => ops[t.op].state = "inserting"
  /\ \A t, u \in txs : t.op = u.op => t = u

(* The id sequence: no row at or above nextId.                             *)
IdOK == \A i \in OpId : i >= nextId => ops[i].state = "none"

(* The claims of a session have epochs of their own, none above the        *)
(* session's, and their rows are committed.                                *)
HeldOK ==
  /\ \A c \in held : /\ ops[c.op].state \in Active \cup Terminal
                     /\ c.epoch <= epoch[ops[c.op].session]
  /\ \A c, d \in held :
       ops[c.op].session = ops[d.op].session /\ c.epoch = d.epoch => c = d

(* No write was made in the name of an epoch yet to come.                  *)
WrittenOK ==
  /\ \A s \in Session : row[s] <= epoch[s]
  /\ \A i \in OpId : ops[i].step <= epoch[ops[i].session]

(* KeysUnique, with the rows of open transactions.                         *)
KeysOK ==
  \A i, j \in OpId :
    /\ ops[i].state \in Active \cup {"inserting"}
    /\ ops[j].state \in Active \cup {"inserting"}
    /\ ops[i].session = ops[j].session /\ ops[i].kind = ops[j].kind
    /\ ops[i].key = ops[j].key /\ ops[i].key # NoKey
    => i = j

IInv == /\ TypeOK
        /\ OneRunning
        /\ RunningHoldsEpoch
        /\ FencesAgree
        /\ TxOK
        /\ IdOK
        /\ HeldOK
        /\ WrittenOK
        /\ KeysOK

-----------------------------------------------------------------------------

(* The row of a rolled-back insert has the type of a row.                  *)
LEMMA NoRowType == NoRow \in OpRow /\ NoRow.state = "none" /\ NoRow.step = 0
BY SessionAssumption, KindAssumption DEF NoRow, OpRow, OpState, Active, Terminal

LEMMA InitIInv == Init => IInv
<1> SUFFICES ASSUME Init PROVE IInv
  OBVIOUS
<1>1. TypeOK
  BY NoRowType, BoundAssumption DEF Init, TypeOK
<1>2. \A i \in OpId : ops[i] = NoRow
  BY DEF Init
<1> QED
  BY <1>1, <1>2, NoRowType DEF Init, IInv, OneRunning, RunningHoldsEpoch, FencesAgree,
     TxOK, IdOK, HeldOK, WrittenOK, KeysOK, Active, TypeOK, OpRow

LEMMA ClaimHeadBeginIInv ==
  ASSUME IInv, NEW p \in Pod, NEW s \in Session, ClaimHeadBegin(p, s)
  PROVE  IInv'
<1> USE DEF IInv
<1>1. PICK i \in OpId :
        /\ IsHead(s, i)
        /\ txs' = txs \cup {[pod |-> p, how |-> "head", op |-> i]}
  BY DEF ClaimHeadBegin
<1>2. UNCHANGED <<epoch, row, ops, due, fresh, flagged, nextId, held, crashes>>
  BY DEF ClaimHeadBegin
<1>3. ops[i].state = "queued" /\ ~Locked(i)
  BY <1>1 DEF IsHead, Candidates, Queued
<1>4. TypeOK'
  BY <1>1, <1>2 DEF TypeOK, Tx
<1>5. \A t \in txs : t.op # i
  BY <1>3 DEF Locked, TxOK
<1>6. TxOK'
  BY <1>1, <1>2, <1>3, <1>5 DEF TxOK
<1> QED
  BY <1>2, <1>4, <1>6 DEF OneRunning, RunningHoldsEpoch, FencesAgree, IdOK, HeldOK,
     WrittenOK, KeysOK

(* Both inserting transactions: a new row under the next id, seen by no    *)
(* one, whose key no active or inserted row has.                           *)
LEMMA InsertIInv ==
  ASSUME IInv, nextId <= MaxOp,
         NEW r \in OpRow, r.state = "inserting", r.step = 0,
         ~KeyTaken(r.session, r.kind, r.key),
         NEW t \in Tx, t.op = nextId, t.how # "head",
         ops' = [ops EXCEPT ![nextId] = r],
         nextId' = nextId + 1,
         txs' = txs \cup {t},
         UNCHANGED <<epoch, row, due, fresh, flagged, held, crashes>>
  PROVE  IInv'
<1> USE DEF IInv
<1>1. nextId \in OpId /\ nextId \in Nat /\ ops[nextId].state = "none"
  BY BoundAssumption DEF TypeOK, OpId, IdOK
<1>2. /\ ops'[nextId] = r
      /\ \A i \in OpId : i # nextId => ops'[i] = ops[i]
  BY <1>1 DEF TypeOK
<1>3. TypeOK'
  BY <1>1, BoundAssumption DEF TypeOK, OpId
<1>4. OneRunning' /\ RunningHoldsEpoch'
  BY <1>2 DEF OneRunning, RunningHoldsEpoch
<1>5. \A c \in held : c.op \in OpId /\ c.op # nextId
  BY <1>1 DEF HeldOK, TypeOK, Claim, Active, Terminal
<1>6. FencesAgree' /\ HeldOK'
  BY <1>2, <1>5 DEF FencesAgree, HeldOK, Driving
<1>7. \A u \in txs : u.op \in OpId /\ u.op # nextId
  BY <1>1 DEF TxOK, TypeOK, Tx
<1>8. TxOK'
  BY <1>2, <1>7 DEF TxOK
<1>9. IdOK'
  BY <1>1, <1>2 DEF IdOK, OpId
<1>10. WrittenOK'
  <2>1. r.session \in Session /\ epoch[r.session] \in Nat
    BY DEF TypeOK, OpRow
  <2> QED BY <1>2, <2>1 DEF WrittenOK
<1>11. KeysOK'
  <2>1. \A i \in OpId :
          /\ ops[i].state \in Active \cup {"inserting"}
          /\ ops[i].session = r.session /\ ops[i].kind = r.kind
          => ops[i].key # r.key \/ r.key = NoKey
    BY DEF KeyTaken
  <2> QED BY <1>2, <2>1 DEF KeysOK
<1> QED
  BY <1>3, <1>4, <1>6, <1>8, <1>9, <1>10, <1>11

LEMMA FreshRowType ==
  ASSUME NEW s \in Session, NEW k \in Kind, NEW key \in Key \cup {NoKey}
  PROVE  LET r == FreshRow(s, k, key) IN
         /\ r \in OpRow /\ r.state = "inserting" /\ r.step = 0
         /\ r.session = s /\ r.kind = k /\ r.key = key
BY NoRowType DEF FreshRow, OpRow, NoRow, OpState

LEMMA EnqueueBeginIInv ==
  ASSUME IInv, NEW p \in Pod, NEW s \in Session, NEW a \in EnqueueAs,
         EnqueueBegin(p, s, a[1], a[2])
  PROVE  IInv'
<1>1. a[1] \in Kind /\ a[2] \in Key \cup {NoKey}
  BY KeyAssumption
<1> DEFINE r == FreshRow(s, a[1], a[2])
           t == [pod |-> p, op |-> nextId,
                 how |-> IF Running(s) \cup Queued(s) = {} THEN "enqueue" ELSE "queue"]
<1>2. /\ r \in OpRow /\ r.state = "inserting" /\ r.step = 0
      /\ r.session = s /\ r.kind = a[1] /\ r.key = a[2]
  BY <1>1, FreshRowType
<1>3. nextId \in OpId
  BY BoundAssumption DEF EnqueueBegin, IInv, TypeOK, OpId
<1>4. t \in Tx /\ t.op = nextId /\ t.how # "head"
  BY <1>3 DEF Tx
<1>5. /\ nextId <= MaxOp
      /\ ~KeyTaken(s, a[1], a[2])
      /\ ops' = [ops EXCEPT ![nextId] = r]
      /\ nextId' = nextId + 1
      /\ txs' = txs \cup {t}
      /\ UNCHANGED <<epoch, row, due, fresh, flagged, held, crashes>>
  BY DEF EnqueueBegin
<1> QED
  <2> HIDE DEF r, t
  <2> QED BY <1>2, <1>4, <1>5, InsertIInv

LEMMA ExclusiveBeginIInv ==
  ASSUME IInv, NEW p \in Pod, NEW s \in Session, NEW k \in ExclusiveKind,
         ExclusiveBegin(p, s, k)
  PROVE  IInv'
<1>1. k \in Kind
  BY KindAssumption
<1> DEFINE r == FreshRow(s, k, NoKey)
           t == [pod |-> p, how |-> "exclusive", op |-> nextId]
<1>2. /\ r \in OpRow /\ r.state = "inserting" /\ r.step = 0
      /\ r.session = s /\ r.kind = k /\ r.key = NoKey
  BY <1>1, FreshRowType
<1>3. nextId \in OpId
  BY BoundAssumption DEF ExclusiveBegin, IInv, TypeOK, OpId
<1>4. t \in Tx /\ t.op = nextId /\ t.how # "head"
  BY <1>3 DEF Tx
<1>5. /\ nextId <= MaxOp
      /\ ~KeyTaken(s, k, NoKey)
      /\ ops' = [ops EXCEPT ![nextId] = r]
      /\ nextId' = nextId + 1
      /\ txs' = txs \cup {t}
      /\ UNCHANGED <<epoch, row, due, fresh, flagged, held, crashes>>
  BY DEF ExclusiveBegin, KeyTaken
<1> QED
  <2> HIDE DEF r, t
  <2> QED BY <1>2, <1>4, <1>5, InsertIInv

LEMMA StampedType ==
  ASSUME NEW r \in OpRow, NEW e \in Nat
  PROVE  LET x == Stamped(r, e) IN
         /\ x \in OpRow
         /\ x.state = "running" /\ x.epoch = e /\ x.session = r.session
         /\ x.step = r.step /\ x.kind = r.kind /\ x.key = r.key
<1>1. r.attempts + 1 \in Nat /\ "running" \in OpState
  BY DEF OpRow, OpState, Active
<1>2. ASSUME NEW n \in Nat, NEW st \in OpState
      PROVE  LET x == [r EXCEPT !.state = st, !.epoch = e, !.attempts = n] IN
             /\ x \in OpRow /\ x.state = st /\ x.epoch = e /\ x.session = r.session
             /\ x.step = r.step /\ x.kind = r.kind /\ x.key = r.key
  BY DEF OpRow
<1> QED
  BY <1>1, <1>2 DEF Stamped

(* A claim or a reclaim: the row becomes the only running one of its       *)
(* session, under an epoch above every claim there was.                    *)
LEMMA StampIInv ==
  ASSUME IInv, NEW i \in OpId, NEW c \in Claim,
         c.op = i, c.epoch = epoch[ops[i].session] + 1,
         ops[i].state \in {"queued", "inserting", "running"},
         \A j \in OpId :
           ops[j].state = "running" /\ ops[j].session = ops[i].session => j = i,
         ops' = [ops EXCEPT ![i] = Stamped(ops[i], epoch[ops[i].session] + 1)],
         epoch' = [epoch EXCEPT ![ops[i].session] = epoch[ops[i].session] + 1],
         held' = held \cup {c},
         txs' \subseteq txs, \A t \in txs' : t.op # i,
         due' \subseteq OpId, fresh' \subseteq OpId,
         UNCHANGED <<row, flagged, nextId, crashes>>
  PROVE  IInv'
<1> USE DEF IInv
<1> DEFINE s == ops[i].session
           e == epoch[s] + 1
           r == Stamped(ops[i], e)
<1>1. /\ s \in Session /\ epoch[s] \in Nat /\ e \in Nat
      /\ \A j \in OpId : ops[j].session \in Session /\ ops[j] \in OpRow
      /\ \A q \in Session : epoch[q] \in Nat
  BY DEF TypeOK, OpRow
<1>2. /\ r \in OpRow
      /\ r.state = "running" /\ r.epoch = e /\ r.session = s /\ r.step = ops[i].step
      /\ r.kind = ops[i].kind /\ r.key = ops[i].key
  BY <1>1, StampedType
<1>3. /\ ops'[i] = r
      /\ \A j \in OpId : j # i => ops'[j] = ops[j]
      /\ epoch'[s] = e
      /\ \A q \in Session : q # s => epoch'[q] = epoch[q]
  BY <1>1 DEF TypeOK
<1>4. \A q \in Session : epoch'[q] \in Nat /\ epoch'[q] >= epoch[q]
  BY <1>1, <1>3
<1>5. TypeOK'
  BY <1>1, <1>2 DEF TypeOK
<1>6. \A d \in held : d.op \in OpId /\ d.epoch \in Nat
  BY DEF TypeOK, Claim
<1> HIDE DEF r, e, s
<1>7. OneRunning'
  BY <1>2, <1>3 DEF OneRunning, s
<1>8. RunningHoldsEpoch'
  BY <1>1, <1>2, <1>3 DEF RunningHoldsEpoch, s
<1>9. \A d \in held : ops'[d.op].session = ops[d.op].session
  BY <1>2, <1>3, <1>6 DEF s
<1>10. \A d \in held :
         /\ d.epoch <= epoch'[ops'[d.op].session]
         /\ ops[d.op].session = s => d.epoch < e
  BY <1>1, <1>4, <1>6, <1>9 DEF HeldOK, e
<1>11. c.epoch = e /\ ops'[c.op] = r
  BY <1>3 DEF e, s
<1>12. HeldOK'
  <2>1. \A d \in held : ops'[d.op].state \in Active \cup Terminal
    BY <1>2, <1>3, <1>6 DEF HeldOK, Active
  <2>2. \A d, f \in held :
          ops'[d.op].session = ops'[f.op].session /\ d.epoch = f.epoch => d = f
    BY <1>9 DEF HeldOK
  <2>3. \A d \in held : ops'[d.op].session = s => d.epoch # c.epoch
    BY <1>1, <1>6, <1>9, <1>10, <1>11 DEF e
  <2> QED
    BY <1>1, <1>2, <1>3, <1>10, <1>11, <2>1, <2>2, <2>3 DEF HeldOK, Active
<1>13. FencesAgree'
  <2>1. ASSUME NEW d \in held, Driving(d)', d.epoch = epoch'[ops'[d.op].session]
        PROVE  ops'[d.op].state = "running" /\ ops'[d.op].epoch = d.epoch
    <3>1. ops[d.op].session # s
      BY <1>1, <1>3, <1>6, <1>9, <1>10, <2>1
    <3>2. d.op # i
      BY <3>1 DEF s
    <3>3. ops[d.op].session \in Session
      BY <1>1, <1>6
    <3>4. d.epoch = epoch[ops[d.op].session]
      BY <1>3, <1>9, <2>1, <3>1, <3>3
    <3> QED
      BY <1>3, <1>6, <2>1, <3>2, <3>4 DEF FencesAgree, Driving
  <2> QED
    BY <1>2, <1>11, <2>1 DEF FencesAgree
<1>14. TxOK'
  <2>1. \A t \in txs : t.op \in OpId
    BY DEF TypeOK, Tx
  <2> QED BY <1>3, <2>1 DEF TxOK
<1>15. IdOK'
  BY <1>3 DEF IdOK
<1>16. WrittenOK'
  <2>1. \A q \in Session : row[q] \in Nat
    BY DEF TypeOK
  <2>2. \A q \in Session : row'[q] <= epoch'[q]
    BY <1>1, <1>4, <2>1 DEF WrittenOK
  <2>3. \A j \in OpId : /\ ops[j].step \in Nat
                        /\ ops'[j].step = ops[j].step
                        /\ ops'[j].session = ops[j].session
    BY <1>1, <1>2, <1>3 DEF OpRow, s
  <2>4. \A j \in OpId : ops'[j].step <= epoch'[ops'[j].session]
    BY <1>1, <1>4, <2>3 DEF WrittenOK
  <2> QED BY <2>2, <2>4 DEF WrittenOK
<1>17. KeysOK'
  BY <1>2, <1>3 DEF KeysOK, Active, s
<1> QED
  BY <1>5, <1>7, <1>8, <1>12, <1>13, <1>14, <1>15, <1>16, <1>17

LEMMA CommitClaimIInv ==
  ASSUME IInv, NEW t \in txs, CommitClaim(t)
  PROVE  IInv'
<1> USE DEF IInv
<1> DEFINE s == ops[t.op].session
           e == epoch[s] + 1
           c == [pod |-> t.pod, op |-> t.op, epoch |-> e,
                 phase |-> IF t.how = "exclusive" THEN "inline" ELSE "verb"]
<1>1. t \in Tx /\ t.op \in OpId /\ t.pod \in Pod
  BY DEF TypeOK, Tx
<1>2. s \in Session /\ e \in Nat
  BY <1>1 DEF TypeOK, OpRow
<1>3. c \in Claim /\ c.op = t.op /\ c.epoch = e
  BY <1>1, <1>2 DEF Claim
<1>4. ops[t.op].state \in {"queued", "inserting", "running"}
  BY DEF TxOK
<1>5. \A j \in OpId : ~(ops[j].state = "running" /\ ops[j].session = s)
  BY DEF CommitClaim, LaneFree, Running
<1>6. /\ ops' = [ops EXCEPT ![t.op] = Stamped(ops[t.op], e)]
      /\ epoch' = [epoch EXCEPT ![s] = e]
      /\ held' = held \cup {c}
      /\ txs' = txs \ {t}
      /\ due' = due \cup {t.op} /\ fresh' = fresh \cup {t.op}
      /\ UNCHANGED <<row, flagged, nextId, crashes>>
  BY DEF CommitClaim, NextEpoch
<1>7. txs' \subseteq txs /\ \A u \in txs' : u.op # t.op
  BY <1>6 DEF TxOK
<1>8. due' \subseteq OpId /\ fresh' \subseteq OpId
  BY <1>1, <1>6 DEF TypeOK
<1> QED
  <2> HIDE DEF c
  <2> QED BY <1>1, <1>3, <1>4, <1>5, <1>6, <1>7, <1>8, StampIInv

LEMMA ReclaimStaleIInv ==
  ASSUME IInv, NEW p \in Pod, NEW i \in OpId, ReclaimStale(p, i)
  PROVE  IInv'
<1> USE DEF IInv
<1> DEFINE s == ops[i].session
           e == epoch[s] + 1
           c == [pod |-> p, op |-> i, epoch |-> e, phase |-> "verb"]
<1>1. s \in Session /\ e \in Nat
  BY DEF TypeOK, OpRow
<1>2. c \in Claim /\ c.op = i /\ c.epoch = e
  BY <1>1 DEF Claim
<1>3. ops[i].state = "running"
  BY DEF ReclaimStale, Stale
<1>4. \A j \in OpId : ops[j].state = "running" /\ ops[j].session = s => j = i
  BY <1>3 DEF OneRunning
<1>5. \A t \in txs : t.op # i
  BY <1>3 DEF TxOK
<1>6. /\ ops' = [ops EXCEPT ![i] = Stamped(ops[i], e)]
      /\ epoch' = [epoch EXCEPT ![s] = e]
      /\ held' = held \cup {c}
      /\ fresh' = fresh \cup {i}
      /\ UNCHANGED <<row, due, flagged, nextId, txs, crashes>>
  BY DEF ReclaimStale, NextEpoch
<1>7. due' \subseteq OpId /\ fresh' \subseteq OpId
  BY <1>6 DEF TypeOK
<1> QED
  <2> HIDE DEF c
  <2> QED BY <1>2, <1>3, <1>4, <1>5, <1>6, <1>7, StampIInv

(* Steps that only move time or wake rows.                                 *)
LEMMA TimeIInv ==
  ASSUME IInv, due' \subseteq OpId, fresh' \subseteq OpId, flagged' \subseteq OpId,
         UNCHANGED <<epoch, row, ops, nextId, txs, crashes>>,
         held' \subseteq held
  PROVE  IInv'
BY DEF IInv, TypeOK, OneRunning, RunningHoldsEpoch, FencesAgree, TxOK, IdOK, HeldOK,
   WrittenOK, KeysOK, Driving

LEMMA TimeStepsIInv ==
  ASSUME IInv
  PROVE  /\ \A c \in held : Heartbeat(c) \/ WakeSibling(c) => IInv'
         /\ \A s \in Session : WakeQueued(s) => IInv'
         /\ \A s \in Session, k \in CancelKind : RequestCancel(s, k) => IInv'
         /\ \A i \in OpId : BackoffElapses(i) \/ HeartbeatLapses(i) => IInv'
<1>1. due \subseteq OpId /\ fresh \subseteq OpId /\ flagged \subseteq OpId
  BY DEF IInv, TypeOK
<1>2. \A c \in held : c.op \in OpId
  BY DEF IInv, TypeOK, Claim
<1>3. \A s, k : QueuedOf(s, k) \subseteq OpId
  BY DEF QueuedOf, Queued
<1>4. ASSUME NEW c \in held, Heartbeat(c) PROVE IInv'
  BY <1>1, <1>2, <1>4, TimeIInv DEF Heartbeat
<1>5. ASSUME NEW c \in held, WakeSibling(c) PROVE IInv'
  BY <1>1, <1>3, <1>5, TimeIInv DEF WakeSibling
<1>6. ASSUME NEW s \in Session, WakeQueued(s) PROVE IInv'
  BY <1>1, <1>3, <1>6, TimeIInv DEF WakeQueued
<1>7. ASSUME NEW s \in Session, NEW k \in CancelKind, RequestCancel(s, k) PROVE IInv'
  BY <1>1, <1>7, TimeIInv DEF RequestCancel, Running
<1>8. ASSUME NEW i \in OpId, BackoffElapses(i) \/ HeartbeatLapses(i) PROVE IInv'
  BY <1>1, <1>8, TimeIInv DEF BackoffElapses, HeartbeatLapses
<1> QED
  BY <1>4, <1>5, <1>6, <1>7, <1>8

(* Rows that never ran disappear with their transactions (rollback, crash).*)
LEMMA RollbackIInv ==
  ASSUME IInv,
         \A i \in OpId : \/ ops'[i] = ops[i]
                         \/ ops[i].state = "inserting" /\ ops'[i] = NoRow,
         ops' \in [OpId -> OpRow],
         txs' \subseteq txs, \A t \in txs' : ops'[t.op] = ops[t.op],
         held' \subseteq held, crashes' \in 0 .. MaxCrash,
         UNCHANGED <<epoch, row, due, fresh, flagged, nextId>>
  PROVE  IInv'
<1> USE DEF IInv
<1>1. TypeOK'
  BY DEF TypeOK
<1>2. \A c \in held : c.op \in OpId /\ ops'[c.op] = ops[c.op]
  BY DEF TypeOK, Claim, HeldOK, Active, Terminal
<1>3. OneRunning' /\ RunningHoldsEpoch'
  BY NoRowType DEF OneRunning, RunningHoldsEpoch
<1>4. FencesAgree' /\ HeldOK'
  BY <1>2 DEF FencesAgree, HeldOK, Driving
<1>5. TxOK'
  BY DEF TxOK
<1>6. IdOK'
  BY NoRowType DEF IdOK
<1>7. WrittenOK'
  <2>1. NoRow.session \in Session /\ \A q \in Session : epoch[q] \in Nat
    BY NoRowType DEF TypeOK, OpRow
  <2> QED BY <2>1, NoRowType DEF WrittenOK
<1>8. KeysOK'
  BY NoRowType DEF KeysOK, Active
<1> QED
  BY <1>1, <1>3, <1>4, <1>5, <1>6, <1>7, <1>8

LEMMA CrashIInv ==
  ASSUME IInv, NEW p \in Pod, Crash(p)
  PROVE  IInv'
<1> USE DEF IInv
<1>1. ops' \in [OpId -> OpRow]
  BY NoRowType DEF Crash, TypeOK
<1>2. \A i \in OpId : \/ ops'[i] = ops[i]
                      \/ ops[i].state = "inserting" /\ ops'[i] = NoRow
  BY DEF Crash, TxOK
<1>3. txs' \subseteq txs /\ held' \subseteq held
  BY DEF Crash
<1>4. \A t \in txs' : ops'[t.op] = ops[t.op]
  <2>1. \A t \in txs : t.op \in OpId
    BY DEF TypeOK, Tx
  <2>2. \A t \in txs' : \A u \in txs : u.pod = p => u.op # t.op
    BY DEF Crash, TxOK
  <2> QED BY <1>3, <2>1, <2>2 DEF Crash
<1>5. crashes' \in 0 .. MaxCrash
  BY BoundAssumption DEF Crash, TypeOK
<1>6. UNCHANGED <<epoch, row, due, fresh, flagged, nextId>>
  BY DEF Crash
<1> QED
  BY <1>1, <1>2, <1>3, <1>4, <1>5, <1>6, RollbackIInv

LEMMA ClaimLostIInv ==
  ASSUME IInv, NEW t \in txs, ClaimLost(t)
  PROVE  IInv'
<1> USE DEF IInv
<1>1. t \in Tx /\ t.op \in OpId
  BY DEF TypeOK, Tx
<1>2. UNCHANGED <<epoch, row, due, fresh, flagged, held, crashes>>
  BY DEF ClaimLost
<1>3. \A u \in txs : u # t => u.op # t.op
  BY DEF TxOK
<1>4. CASE UNCHANGED ops /\ UNCHANGED nextId /\ txs' = txs \ {t}
  <2>1. ops' \in [OpId -> OpRow] /\ crashes' \in 0 .. MaxCrash
    BY <1>2, <1>4 DEF TypeOK
  <2> QED BY <1>2, <1>4, <2>1, RollbackIInv
<1>5. CASE /\ t.how # "head"
           /\ ops' = [ops EXCEPT ![t.op] = NoRow]
           /\ txs' = txs \ {t}
           /\ UNCHANGED nextId
  <2>1. ops' \in [OpId -> OpRow] /\ crashes' \in 0 .. MaxCrash
    BY <1>2, <1>5, NoRowType DEF TypeOK
  <2>2. \A i \in OpId : \/ ops'[i] = ops[i]
                        \/ ops[i].state = "inserting" /\ ops'[i] = NoRow
    BY <1>5 DEF TxOK, TypeOK
  <2>3. \A u \in txs' : ops'[u.op] = ops[u.op]
    BY <1>3, <1>5 DEF TypeOK, Tx
  <2>4. txs' \subseteq txs
    BY <1>5
  <2> QED BY <1>2, <1>5, <2>1, <2>2, <2>3, <2>4, RollbackIInv
<1>6. CASE /\ t.how = "enqueue" /\ nextId <= MaxOp
           /\ ops' = [ops EXCEPT ![t.op] = NoRow, ![nextId] = ops[t.op]]
           /\ nextId' = nextId + 1
           /\ txs' = (txs \ {t}) \cup {[t EXCEPT !.op = nextId, !.how = "queue"]}
  <2> DEFINE r == ops[t.op]
             v == [t EXCEPT !.op = nextId, !.how = "queue"]
  <2>1. r \in OpRow /\ r.state = "inserting"
    BY <1>1, <1>6 DEF TypeOK, TxOK
  <2>2. nextId \in OpId /\ ops[nextId].state = "none" /\ nextId # t.op
    BY <1>6, <2>1, BoundAssumption DEF TypeOK, OpId, IdOK
  <2>3. /\ ops'[t.op] = NoRow /\ ops'[nextId] = r
        /\ \A i \in OpId : i # t.op /\ i # nextId => ops'[i] = ops[i]
    BY <1>1, <1>6, <2>2 DEF TypeOK
  <2>4. v \in Tx /\ v.op = nextId /\ v.how = "queue"
    BY <1>1, <2>2 DEF Tx
  <2>5. TypeOK'
    <3>1. ops' \in [OpId -> OpRow]
      BY <1>1, <1>6, <2>1, <2>2, NoRowType DEF TypeOK
    <3>2. nextId' \in 1 .. MaxOp + 1
      BY <1>6, BoundAssumption DEF TypeOK
    <3>3. txs' \subseteq Tx
      BY <1>6, <2>4 DEF TypeOK
    <3> QED BY <1>2, <3>1, <3>2, <3>3 DEF TypeOK
  <2> HIDE DEF r, v
  <2>6. OneRunning' /\ RunningHoldsEpoch'
    BY <1>2, <2>1, <2>3, NoRowType DEF OneRunning, RunningHoldsEpoch
  <2>7. \A c \in held : c.op \in OpId /\ c.op # nextId /\ c.op # t.op
    BY <2>1, <2>2 DEF HeldOK, TypeOK, Claim, Active, Terminal, r
  <2>8. FencesAgree' /\ HeldOK'
    BY <1>2, <2>3, <2>7 DEF FencesAgree, HeldOK, Driving
  <2>9. TxOK'
    <3>1. \A u \in txs : u.op \in OpId /\ u.op # nextId
      BY <2>2 DEF TxOK, TypeOK, Tx
    <3>2. txs' = (txs \ {t}) \cup {v}
      BY <1>6 DEF v
    <3>3. \A u \in txs \ {t} : ops'[u.op] = ops[u.op]
      BY <1>3, <2>3, <3>1
    <3>4. \A u \in txs' : /\ u.how = "head" => ops'[u.op].state = "queued"
                          /\ u.how # "head" => ops'[u.op].state = "inserting"
      BY <2>1, <2>3, <2>4, <3>2, <3>3 DEF TxOK
    <3>5. \A u, w \in txs' : u.op = w.op => u = w
      BY <2>4, <3>1, <3>2 DEF TxOK
    <3> QED BY <3>4, <3>5 DEF TxOK
  <2>10. IdOK'
    <3>1. nextId \in Nat /\ \A i \in OpId : i \in Nat
      BY DEF TypeOK, OpId
    <3>2. ASSUME NEW i \in OpId, i >= nextId'
          PROVE  ops'[i].state = "none"
      <4>1. i # nextId /\ i >= nextId
        BY <1>6, <3>1, <3>2
      <4>2. ops[i].state = "none"
        BY <4>1 DEF IdOK
      <4> QED BY <2>3, <4>1, <4>2, NoRowType
    <3> QED BY <3>2 DEF IdOK
  <2>11. WrittenOK'
    <3>1. NoRow.session \in Session /\ \A q \in Session : epoch[q] \in Nat
      BY NoRowType DEF TypeOK, OpRow
    <3>2. r.step <= epoch[r.session]
      BY <1>1 DEF WrittenOK, r
    <3> QED BY <1>2, <2>3, <3>1, <3>2, NoRowType DEF WrittenOK
  <2>12. KeysOK'
    <3>1. \A j \in OpId : /\ j # t.op
                          /\ ops[j].state \in Active \cup {"inserting"}
                          /\ ops[j].session = r.session /\ ops[j].kind = r.kind
                          /\ ops[j].key = r.key
                          => r.key = NoKey
      BY <1>1, <2>1 DEF KeysOK, r
    <3>2. \A j \in OpId : ops'[j].state \in Active \cup {"inserting"} => j # t.op
      BY <2>3, NoRowType DEF Active
    <3>3. ASSUME NEW i \in OpId, NEW j \in OpId,
                 ops'[i].state \in Active \cup {"inserting"},
                 ops'[j].state \in Active \cup {"inserting"},
                 ops'[i].session = ops'[j].session, ops'[i].kind = ops'[j].kind,
                 ops'[i].key = ops'[j].key, ops'[i].key # NoKey
          PROVE  i = j
      <4>1. i # t.op /\ j # t.op
        BY <3>2, <3>3
      <4>2. CASE i = nextId
        BY <2>3, <3>1, <3>3, <4>1, <4>2
      <4>3. CASE j = nextId
        BY <2>3, <3>1, <3>3, <4>1, <4>3
      <4>4. CASE i # nextId /\ j # nextId
        BY <2>3, <3>3, <4>1, <4>4 DEF KeysOK
      <4> QED BY <4>2, <4>3, <4>4
    <3> QED BY <3>3 DEF KeysOK
  <2> QED
    BY <2>5, <2>6, <2>8, <2>9, <2>10, <2>11, <2>12
<1> QED
  BY <1>4, <1>5, <1>6 DEF ClaimLost

LEMMA CommitQueuedIInv ==
  ASSUME IInv, NEW t \in txs, CommitQueued(t)
  PROVE  IInv'
<1> USE DEF IInv
<1>1. t \in Tx /\ t.op \in OpId /\ ops[t.op] \in OpRow /\ ops[t.op].state = "inserting"
  BY DEF TypeOK, Tx, TxOK, CommitQueued
<1>2. /\ ops' = [ops EXCEPT ![t.op].state = "queued"]
      /\ due' = due \cup {t.op} /\ txs' = txs \ {t}
      /\ UNCHANGED <<epoch, row, fresh, flagged, nextId, held, crashes>>
  BY DEF CommitQueued
<1> DEFINE r == [ops[t.op] EXCEPT !.state = "queued"]
<1>3. /\ r \in OpRow /\ r.state = "queued" /\ r.session = ops[t.op].session
      /\ r.step = ops[t.op].step /\ r.kind = ops[t.op].kind /\ r.key = ops[t.op].key
  BY <1>1 DEF OpRow, OpState, Active
<1>4. /\ ops'[t.op] = r
      /\ \A i \in OpId : i # t.op => ops'[i] = ops[i]
  BY <1>1, <1>2 DEF TypeOK
<1>5. TypeOK'
  BY <1>1, <1>2, <1>3 DEF TypeOK
<1> HIDE DEF r
<1>6. OneRunning' /\ RunningHoldsEpoch'
  BY <1>2, <1>3, <1>4 DEF OneRunning, RunningHoldsEpoch
<1>7. \A c \in held : c.op \in OpId /\ c.op # t.op
  BY <1>1 DEF HeldOK, TypeOK, Claim, Active, Terminal
<1>8. FencesAgree' /\ HeldOK'
  BY <1>2, <1>4, <1>7 DEF FencesAgree, HeldOK, Driving
<1>9. TxOK'
  BY <1>2, <1>4 DEF TxOK, TypeOK, Tx
<1>10. IdOK'
  BY <1>1, <1>2, <1>4 DEF IdOK
<1>11. WrittenOK'
  BY <1>1, <1>2, <1>3, <1>4 DEF WrittenOK
<1>12. KeysOK'
  BY <1>1, <1>3, <1>4 DEF KeysOK, Active
<1> QED
  BY <1>5, <1>6, <1>8, <1>9, <1>10, <1>11, <1>12

LEMMA RecordStepIInv ==
  ASSUME IInv, NEW c \in held, RecordStep(c)
  PROVE  IInv'
<1> USE DEF IInv
<1>1. c.op \in OpId /\ c.epoch \in Nat /\ ops[c.op] \in OpRow
  BY DEF TypeOK, Claim
<1>2. ops[c.op].state = "running" /\ ops[c.op].epoch = c.epoch
  BY DEF RecordStep, Holds
<1>3. /\ ops' = [ops EXCEPT ![c.op].step = c.epoch]
      /\ fresh' = fresh \cup {c.op}
      /\ UNCHANGED <<epoch, row, due, flagged, nextId, txs, held, crashes>>
  BY DEF RecordStep
<1> DEFINE r == [ops[c.op] EXCEPT !.step = c.epoch]
<1>4. /\ r \in OpRow /\ r.state = "running" /\ r.session = ops[c.op].session
      /\ r.epoch = c.epoch /\ r.step = c.epoch
      /\ r.kind = ops[c.op].kind /\ r.key = ops[c.op].key
  BY <1>1, <1>2 DEF OpRow
<1>5. /\ ops'[c.op] = r
      /\ \A i \in OpId : i # c.op => ops'[i] = ops[i]
  BY <1>1, <1>3 DEF TypeOK
<1>6. TypeOK'
  BY <1>1, <1>3, <1>4 DEF TypeOK
<1> HIDE DEF r
<1>7. \A d \in held : d.op \in OpId
  BY DEF TypeOK, Claim
<1>8. \A i \in OpId : /\ ops'[i].state = ops[i].state
                      /\ ops'[i].session = ops[i].session
                      /\ ops'[i].epoch = ops[i].epoch
                      /\ ops'[i].kind = ops[i].kind /\ ops'[i].key = ops[i].key
  BY <1>2, <1>4, <1>5
<1>9. OneRunning' /\ RunningHoldsEpoch' /\ IdOK' /\ KeysOK'
  BY <1>3, <1>8 DEF OneRunning, RunningHoldsEpoch, IdOK, KeysOK
<1>10. FencesAgree' /\ HeldOK'
  BY <1>3, <1>7, <1>8 DEF FencesAgree, HeldOK, Driving
<1>11. TxOK'
  BY <1>3, <1>8 DEF TxOK, TypeOK, Tx
<1>12. WrittenOK'
  <2>1. c.epoch <= epoch[ops[c.op].session]
    BY DEF HeldOK
  <2> QED BY <1>3, <1>4, <1>5, <2>1 DEF WrittenOK
<1> QED
  BY <1>6, <1>9, <1>10, <1>11, <1>12

LEMMA FencedWriteIInv ==
  ASSUME IInv, NEW c \in held, FencedWrite(c)
  PROVE  IInv'
<1> USE DEF IInv
<1>1. c.op \in OpId /\ c.epoch \in Nat /\ ops[c.op].session \in Session
  BY DEF TypeOK, Claim, OpRow
<1>2. /\ row' = [row EXCEPT ![ops[c.op].session] = c.epoch]
      /\ c.epoch = epoch[ops[c.op].session]
      /\ UNCHANGED <<epoch, ops, due, fresh, flagged, nextId, txs, held, crashes>>
  BY DEF FencedWrite
<1>3. TypeOK'
  BY <1>1, <1>2 DEF TypeOK
<1>4. WrittenOK'
  BY <1>1, <1>2 DEF WrittenOK, TypeOK
<1> QED
  BY <1>2, <1>3, <1>4 DEF OneRunning, RunningHoldsEpoch, FencesAgree, TxOK, IdOK,
     HeldOK, KeysOK, Driving

(* A claim gives its row up: to a terminal state or back to the queue.     *)
LEMMA GiveUpIInv ==
  ASSUME IInv, NEW c \in held, Driving(c), Holds(c),
         NEW st \in Terminal \cup {"queued"}, NEW e \in Nat,
         ops' = [ops EXCEPT ![c.op] = [ops[c.op] EXCEPT !.state = st, !.epoch = e]],
         due' \subseteq OpId, fresh' \subseteq OpId, flagged' \subseteq OpId,
         held' \subseteq Claim,
         \A d \in held' :
           \/ d \in held /\ d # c
           \/ d.op = c.op /\ d.epoch = c.epoch /\ ~Driving(d),
         \A d, f \in held' : d \notin held /\ f \notin held => d = f,
         c \notin held',
         UNCHANGED <<epoch, row, nextId, txs, crashes>>
  PROVE  IInv'
<1> USE DEF IInv
<1>1. c.op \in OpId /\ c.epoch \in Nat /\ ops[c.op] \in OpRow
  BY DEF TypeOK, Claim
<1>2. ops[c.op].state = "running" /\ ops[c.op].epoch = c.epoch
  BY DEF Holds
<1> DEFINE r == [ops[c.op] EXCEPT !.state = st, !.epoch = e]
<1>3. st \in OpState /\ st \in Active \cup Terminal /\ st # "running" /\ st # "inserting"
  BY DEF OpState, Active, Terminal
<1>4. /\ r \in OpRow /\ r.state = st /\ r.session = ops[c.op].session
      /\ r.step = ops[c.op].step /\ r.kind = ops[c.op].kind /\ r.key = ops[c.op].key
  BY <1>1, <1>3 DEF OpRow
<1>5. /\ ops'[c.op] = r
      /\ \A i \in OpId : i # c.op => ops'[i] = ops[i]
  BY <1>1 DEF TypeOK
<1>6. TypeOK'
  BY <1>1, <1>4 DEF TypeOK
<1> HIDE DEF r
<1>7. \A i \in OpId : /\ ops'[i].session = ops[i].session
                      /\ ops'[i].step = ops[i].step
                      /\ ops'[i].kind = ops[i].kind /\ ops'[i].key = ops[i].key
  BY <1>4, <1>5
<1>8. OneRunning' /\ RunningHoldsEpoch'
  BY <1>3, <1>4, <1>5 DEF OneRunning, RunningHoldsEpoch
<1>9. \A d \in held : d.op \in OpId
  BY DEF TypeOK, Claim
<1>10. \A d \in held' : d.op \in OpId /\ ops'[d.op].session = ops[d.op].session
  BY <1>1, <1>7, <1>9
<1>11. HeldOK'
  <2>1. \A d \in held' : /\ ops'[d.op].state \in Active \cup Terminal
                         /\ d.epoch <= epoch[ops'[d.op].session]
    BY <1>3, <1>4, <1>5, <1>9, <1>10 DEF HeldOK
  <2>2. ASSUME NEW d \in held', NEW f \in held',
               ops'[d.op].session = ops'[f.op].session, d.epoch = f.epoch
        PROVE  d = f
    <3>1. ops[d.op].session = ops[f.op].session
      BY <1>10, <2>2
    <3>2. CASE d \in held /\ f \in held
      BY <2>2, <3>1, <3>2 DEF HeldOK
    <3>3. CASE d \in held /\ f \notin held
      BY <2>2, <3>1, <3>3 DEF HeldOK
    <3>4. CASE d \notin held /\ f \in held
      BY <2>2, <3>1, <3>4 DEF HeldOK
    <3> QED BY <3>2, <3>3, <3>4
  <2> QED BY <2>1, <2>2 DEF HeldOK
<1>12. FencesAgree'
  <2>1. ASSUME NEW d \in held', Driving(d), d.epoch = epoch[ops'[d.op].session]
        PROVE  ops'[d.op].state = "running" /\ ops'[d.op].epoch = d.epoch
    <3>1. d \in held /\ d # c
      BY <2>1
    <3>2. d.epoch = epoch[ops[d.op].session]
      BY <1>10, <2>1
    <3>3. ops[d.op].state = "running" /\ ops[d.op].epoch = d.epoch
      BY <2>1, <3>1, <3>2 DEF FencesAgree
    <3>4. d.op # c.op
      BY <1>2, <3>1, <3>3 DEF HeldOK
    <3> QED BY <1>5, <1>9, <3>1, <3>3, <3>4
  <2> QED BY <2>1 DEF FencesAgree, Driving
<1>13. TxOK'
  <2>1. \A t \in txs : t.op \in OpId /\ t.op # c.op
    BY <1>2 DEF TxOK, TypeOK, Tx
  <2> QED BY <1>5, <2>1 DEF TxOK
<1>14. IdOK'
  BY <1>2, <1>5 DEF IdOK
<1>15. WrittenOK'
  BY <1>7 DEF WrittenOK
<1>16. KeysOK'
  <2>1. \A i \in OpId : ops'[i].state \in Active \cup {"inserting"}
                       => ops[i].state \in Active \cup {"inserting"}
    BY <1>2, <1>5 DEF Active
  <2> QED BY <1>7, <2>1 DEF KeysOK
<1> QED
  BY <1>6, <1>8, <1>11, <1>12, <1>13, <1>14, <1>15, <1>16

(* A superseded claim stops: its writes change no row.                     *)
LEMMA StopIInv ==
  ASSUME IInv, NEW c \in held, held' \subseteq Claim,
         \A d \in held' :
           \/ d \in held /\ d # c
           \/ d.op = c.op /\ d.epoch = c.epoch /\ ~Driving(d),
         \A d, f \in held' : d \notin held /\ f \notin held => d = f,
         c \notin held',
         UNCHANGED <<epoch, row, ops, due, fresh, flagged, nextId, txs, crashes>>
  PROVE  IInv'
<1> USE DEF IInv
<1>1. TypeOK'
  BY DEF TypeOK
<1>2. \A d \in held' : /\ ops[d.op].state \in Active \cup Terminal
                       /\ d.epoch <= epoch[ops[d.op].session]
  BY DEF HeldOK
<1>3. ASSUME NEW d \in held', NEW f \in held',
             ops[d.op].session = ops[f.op].session, d.epoch = f.epoch
      PROVE  d = f
  <2>1. CASE d \in held /\ f \in held
    BY <1>3, <2>1 DEF HeldOK
  <2>2. CASE d \in held /\ f \notin held
    BY <1>3, <2>2 DEF HeldOK
  <2>3. CASE d \notin held /\ f \in held
    BY <1>3, <2>3 DEF HeldOK
  <2> QED BY <2>1, <2>2, <2>3
<1>4. HeldOK'
  BY <1>2, <1>3 DEF HeldOK
<1>5. FencesAgree'
  BY DEF FencesAgree, Driving
<1> QED
  BY <1>1, <1>4, <1>5 DEF OneRunning, RunningHoldsEpoch, TxOK, IdOK, WrittenOK, KeysOK

LEMMA AfterFinishClaims ==
  ASSUME IInv, NEW c \in held, Driving(c), NEW outcome \in Terminal,
         held' = (held \ {c}) \cup AfterFinish(c, outcome)
  PROVE  /\ held' \subseteq Claim
         /\ \A d \in held' :
              \/ d \in held /\ d # c
              \/ d.op = c.op /\ d.epoch = c.epoch /\ ~Driving(d)
         /\ \A d, f \in held' : d \notin held /\ f \notin held => d = f
         /\ c \notin held'
<1> DEFINE w == [c EXCEPT !.phase = IF outcome = "done" THEN "wake" ELSE "maybeWake"]
<1>1. c \in Claim /\ held \subseteq Claim
  BY DEF IInv, TypeOK
<1>2. w \in Claim /\ w.op = c.op /\ w.epoch = c.epoch /\ ~Driving(w)
  BY <1>1 DEF Claim, Driving
<1>3. AfterFinish(c, outcome) \subseteq {w}
  BY DEF AfterFinish
<1> HIDE DEF w
<1> QED
  BY <1>1, <1>2, <1>3

LEMMA OpFinishIInv ==
  ASSUME IInv, NEW c \in held, NEW outcome \in Terminal, OpFinish(c, outcome)
  PROVE  IInv'
<1>1. Driving(c) /\ UNCHANGED <<epoch, row, due, nextId, txs, crashes>>
  BY DEF OpFinish
<1>2. /\ held' \subseteq Claim
      /\ \A d \in held' :
           \/ d \in held /\ d # c
           \/ d.op = c.op /\ d.epoch = c.epoch /\ ~Driving(d)
      /\ \A d, f \in held' : d \notin held /\ f \notin held => d = f
      /\ c \notin held'
  BY <1>1, AfterFinishClaims DEF OpFinish
<1>3. CASE ~Holds(c)
  BY <1>1, <1>2, <1>3, StopIInv DEF OpFinish
<1>4. CASE Holds(c)
  <2>1. /\ ops' = [ops EXCEPT ![c.op].state = outcome]
        /\ fresh' = fresh \ {c.op} /\ flagged' = flagged \ {c.op}
    BY <1>4 DEF OpFinish
  <2>2. ops[c.op] \in OpRow
    BY DEF IInv, TypeOK, Claim
  <2>3. ops[c.op].epoch \in Nat
    BY <2>2 DEF OpRow
  <2>4. [ops[c.op] EXCEPT !.state = outcome]
          = [ops[c.op] EXCEPT !.state = outcome, !.epoch = ops[c.op].epoch]
    BY <2>2 DEF OpRow
  <2>5. ops' = [ops EXCEPT ![c.op] =
                  [ops[c.op] EXCEPT !.state = outcome, !.epoch = ops[c.op].epoch]]
    BY <2>1, <2>4
  <2>6. due' \subseteq OpId /\ fresh' \subseteq OpId /\ flagged' \subseteq OpId
    BY <1>1, <2>1 DEF IInv, TypeOK
  <2> QED BY <1>1, <1>2, <1>4, <2>3, <2>5, <2>6, GiveUpIInv
<1> QED
  BY <1>3, <1>4

LEMMA OpRequeueIInv ==
  ASSUME IInv, NEW c \in held, OpRequeue(c)
  PROVE  IInv'
<1>1. Driving(c) /\ UNCHANGED <<epoch, row, flagged, nextId, txs, crashes>>
  BY DEF OpRequeue, Driving
<1>2. /\ held' \subseteq Claim
      /\ \A d \in held' : d \in held /\ d # c
      /\ c \notin held'
  BY DEF OpRequeue, IInv, TypeOK
<1>3. CASE ~Holds(c)
  BY <1>1, <1>2, <1>3, StopIInv DEF OpRequeue
<1>4. CASE Holds(c)
  <2>1. /\ ops' = [ops EXCEPT ![c.op].state = "queued", ![c.op].epoch = 0]
        /\ due' = due \ {c.op} /\ fresh' = fresh \ {c.op}
    BY <1>4 DEF OpRequeue
  <2>2. ops \in [OpId -> OpRow] /\ c.op \in OpId /\ ops[c.op] \in OpRow
    BY DEF IInv, TypeOK, Claim
  <2>3. ops' = [ops EXCEPT ![c.op] = [ops[c.op] EXCEPT !.state = "queued", !.epoch = 0]]
    BY <2>1, <2>2 DEF OpRow
  <2>4. due' \subseteq OpId /\ fresh' \subseteq OpId /\ flagged' \subseteq OpId
    BY <1>1, <2>1 DEF IInv, TypeOK
  <2> QED BY <1>1, <1>2, <1>4, <2>3, <2>4, GiveUpIInv
<1> QED
  BY <1>3, <1>4

LEMMA CancelQueuedIInv ==
  ASSUME IInv, NEW s \in Session, NEW k \in CancelKind, CancelQueued(s, k)
  PROVE  IInv'
<1> USE DEF IInv
<1>1. /\ UNCHANGED <<epoch, row, due, fresh, nextId, txs, held, crashes>>
      /\ flagged' \subseteq flagged
  BY DEF CancelQueued
<1>2. \A i \in OpId : /\ ops[i] \in OpRow
                      /\ [ops[i] EXCEPT !.state = "cancelled"] \in OpRow
  BY DEF TypeOK, OpRow, OpState, Terminal
<1>3. \A i \in OpId : /\ ops'[i] \in OpRow
                      /\ ops'[i].session = ops[i].session
                      /\ ops'[i].step = ops[i].step /\ ops'[i].epoch = ops[i].epoch
                      /\ ops'[i].kind = ops[i].kind /\ ops'[i].key = ops[i].key
                      /\ \/ ops'[i].state = ops[i].state
                         \/ /\ i \in QueuedOf(s, k)
                            /\ ops[i].state = "queued" /\ ops'[i].state = "cancelled"
  BY <1>2 DEF CancelQueued, QueuedOf, Queued, OpRow
<1>4. TypeOK'
  <2>1. ops' \in [OpId -> OpRow]
    BY <1>2 DEF CancelQueued
  <2> QED BY <1>1, <2>1 DEF TypeOK
<1>5. OneRunning' /\ RunningHoldsEpoch' /\ IdOK' /\ WrittenOK'
  BY <1>1, <1>3 DEF OneRunning, RunningHoldsEpoch, IdOK, WrittenOK
<1>6. \A d \in held : d.op \in OpId
  BY DEF TypeOK, Claim
<1>7. HeldOK'
  BY <1>1, <1>3, <1>6 DEF HeldOK, Active, Terminal
<1>8. FencesAgree'
  BY <1>1, <1>3, <1>6 DEF FencesAgree, Driving
<1>9. TxOK'
  <2>1. \A t \in txs : t.op \in OpId
    BY DEF TypeOK, Tx
  <2>2. \A t \in txs : t.how = "head" => t.op \notin QueuedOf(s, k)
    BY DEF CancelQueued, NoneLocked, Locked
  <2> QED BY <1>1, <1>3, <2>1, <2>2 DEF TxOK
<1>10. KeysOK'
  <2>1. \A i \in OpId : ops'[i].state \in Active \cup {"inserting"}
                       => ops[i].state \in Active \cup {"inserting"}
    BY <1>3 DEF Active
  <2> QED BY <1>3, <2>1 DEF KeysOK
<1> QED
  BY <1>4, <1>5, <1>7, <1>8, <1>9, <1>10

-----------------------------------------------------------------------------
(* The theorems                                                            *)

LEMMA StepIInv == IInv /\ [Next]_vars => IInv'
<1> SUFFICES ASSUME IInv, [Next]_vars PROVE IInv'
  OBVIOUS
<1>1. ASSUME NEW p \in Pod, NEW s \in Session, ClaimHeadBegin(p, s) PROVE IInv'
  BY <1>1, ClaimHeadBeginIInv
<1>2. ASSUME NEW p \in Pod, NEW s \in Session, NEW a \in EnqueueAs,
             EnqueueBegin(p, s, a[1], a[2])
      PROVE  IInv'
  BY <1>2, EnqueueBeginIInv
<1>3. ASSUME NEW p \in Pod, NEW s \in Session, NEW k \in ExclusiveKind,
             ExclusiveBegin(p, s, k)
      PROVE  IInv'
  BY <1>3, ExclusiveBeginIInv
<1>4. ASSUME NEW t \in txs, Commit(t) PROVE IInv'
  BY <1>4, CommitClaimIInv, ClaimLostIInv, CommitQueuedIInv DEF Commit
<1>5. ASSUME NEW c \in held, Drive(c) PROVE IInv'
  BY <1>5, RecordStepIInv, TimeStepsIInv, FencedWriteIInv, OpFinishIInv, OpRequeueIInv
     DEF Drive
<1>6. ASSUME NEW s \in Session, WakeQueued(s) PROVE IInv'
  BY <1>6, TimeStepsIInv
<1>7. ASSUME NEW s \in Session, NEW k \in CancelKind,
             CancelQueued(s, k) \/ RequestCancel(s, k)
      PROVE  IInv'
  BY <1>7, CancelQueuedIInv, TimeStepsIInv
<1>8. ASSUME NEW p \in Pod, NEW i \in OpId, ReclaimStale(p, i) PROVE IInv'
  BY <1>8, ReclaimStaleIInv
<1>9. ASSUME NEW i \in OpId, BackoffElapses(i) \/ HeartbeatLapses(i) PROVE IInv'
  BY <1>9, TimeStepsIInv
<1>10. ASSUME NEW p \in Pod, Crash(p) PROVE IInv'
  BY <1>10, CrashIInv
<1>11. ASSUME UNCHANGED vars PROVE IInv'
  BY <1>11 DEF vars, IInv, TypeOK, OneRunning, RunningHoldsEpoch, FencesAgree, TxOK,
     IdOK, HeldOK, WrittenOK, KeysOK, Driving
<1> QED
  BY <1>1, <1>2, <1>3, <1>4, <1>5, <1>6, <1>7, <1>8, <1>9, <1>10, <1>11 DEF Next

LEMMA Invariance == Spec => []IInv
BY InitIInv, StepIInv, PTL DEF Spec

(* The tables, transactions and claims keep their types.                   *)
THEOREM TypeCorrect == Spec => []TypeOK
<1>1. IInv => TypeOK
  BY DEF IInv
<1> QED
  BY <1>1, Invariance, PTL

(* However many pods race, a session's lane has one running op, whose      *)
(* epoch is the session's.                                                 *)
THEOREM LaneExclusion == Spec => [](OneRunning /\ RunningHoldsEpoch)
<1>1. IInv => OneRunning /\ RunningHoldsEpoch
  BY DEF IInv
<1> QED
  BY <1>1, Invariance, PTL

(* An executor that passes the session row's fence passes its op's.        *)
THEOREM FenceAgreement == Spec => []FencesAgree
<1>1. IInv => FencesAgree
  BY DEF IInv
<1> QED
  BY <1>1, Invariance, PTL

(* At most one executor of all pods passes the session row's fence.        *)
THEOREM WriterExclusion == Spec => []SingleWriter
<1>1. IInv => SingleWriter
  BY DEF IInv, HeldOK, SingleWriter
<1> QED
  BY <1>1, Invariance, PTL

(* Racing enqueues never leave two active ops under one key.               *)
THEOREM KeyUniqueness == Spec => []KeysUnique
<1>1. IInv => KeysUnique
  BY DEF IInv, KeysOK, KeysUnique
<1> QED
  BY <1>1, Invariance, PTL

(* What any step may do to the rows: the basis of the action properties.   *)
LEMMA StepRows ==
  ASSUME IInv, Next
  PROVE  SuccessorKept /\ FinishedKept
<1> USE DEF IInv
<1> DEFINE Kept(i) == /\ ops[i].state \in Terminal => ops'[i] = ops[i]
                      /\ ops[i].state \in Active => ops'[i].step >= ops[i].step
<1>1. \A i \in OpId : ops[i].step \in Nat /\ ops[i] \in OpRow /\ ops[i].session \in Session
  BY DEF TypeOK, OpRow
<1>2. \A s \in Session : row[s] \in Nat
  BY DEF TypeOK
<1>3. \A c \in held : c.op \in OpId /\ c.epoch \in Nat
  BY DEF TypeOK, Claim
<1>4. \A t \in txs : t.op \in OpId
  BY DEF TypeOK, Tx
<1>5. ASSUME UNCHANGED ops PROVE \A i \in OpId : Kept(i)
  BY <1>1, <1>5
<1>6. ASSUME NEW i \in OpId, NEW r,
             ops' = [ops EXCEPT ![i] = r], ops[i].state \notin Terminal,
             ops[i].state \in Active => r.step >= ops[i].step
      PROVE  \A j \in OpId : Kept(j)
  BY <1>1, <1>6 DEF TypeOK
<1>7. CASE \E p \in Pod, s \in Session : ClaimHeadBegin(p, s)
  BY <1>2, <1>5, <1>7 DEF ClaimHeadBegin, SuccessorKept, FinishedKept
<1>8. CASE \/ \E p \in Pod, s \in Session, a \in EnqueueAs : EnqueueBegin(p, s, a[1], a[2])
           \/ \E p \in Pod, s \in Session, k \in ExclusiveKind : ExclusiveBegin(p, s, k)
  <2>1. PICK r : nextId <= MaxOp /\ ops' = [ops EXCEPT ![nextId] = r] /\ UNCHANGED row
    BY <1>8 DEF EnqueueBegin, ExclusiveBegin
  <2>2. nextId \in OpId /\ ops[nextId].state = "none"
    BY <2>1, BoundAssumption DEF TypeOK, OpId, IdOK
  <2>3. \A j \in OpId : Kept(j)
    BY <1>6, <2>1, <2>2 DEF Terminal, Active
  <2> QED BY <1>2, <2>1, <2>3 DEF SuccessorKept, FinishedKept
<1>9. CASE \E t \in txs : Commit(t)
  <2>1. PICK t \in txs : Commit(t)
    BY <1>9
  <2>2. ops[t.op].state \in {"queued", "inserting"}
    BY <2>1 DEF TxOK
  <2>3. CASE CommitClaim(t)
    <3> DEFINE e == epoch[ops[t.op].session] + 1
    <3>0. e \in Nat
      BY <1>1, <1>4, <2>1 DEF TypeOK
    <3>1. ops' = [ops EXCEPT ![t.op] = Stamped(ops[t.op], e)]
      BY <2>3 DEF CommitClaim, NextEpoch
    <3>2. Stamped(ops[t.op], e).step = ops[t.op].step
      BY <1>1, <1>4, <2>1, <3>0, StampedType
    <3>3. \A j \in OpId : Kept(j)
      BY <1>1, <1>4, <1>6, <2>1, <2>2, <3>1, <3>2 DEF Terminal
    <3> QED BY <1>2, <2>3, <3>3 DEF CommitClaim, SuccessorKept, FinishedKept
  <2>4. CASE CommitQueued(t)
    <3>1. [ops[t.op] EXCEPT !.state = "queued"].step = ops[t.op].step
      BY <1>1, <1>4, <2>1 DEF OpRow
    <3>2. ops' = [ops EXCEPT ![t.op] = [ops[t.op] EXCEPT !.state = "queued"]]
      BY <2>4 DEF CommitQueued
    <3>3. \A j \in OpId : Kept(j)
      BY <1>1, <1>4, <1>6, <2>1, <2>2, <3>1, <3>2 DEF Terminal
    <3> QED BY <1>2, <2>4, <3>3 DEF CommitQueued, SuccessorKept, FinishedKept
  <2>5. CASE ClaimLost(t)
    <3>1. CASE UNCHANGED ops
      BY <1>2, <1>5, <2>5, <3>1 DEF ClaimLost, SuccessorKept, FinishedKept
    <3>2. CASE t.how # "head" /\ ops' = [ops EXCEPT ![t.op] = NoRow]
      <4>1. ops[t.op].state = "inserting"
        BY <2>1, <3>2 DEF TxOK
      <4>2. \A j \in OpId : Kept(j)
        BY <1>4, <1>6, <2>1, <3>2, <4>1 DEF Terminal, Active
      <4> QED BY <1>2, <2>5, <4>2 DEF ClaimLost, SuccessorKept, FinishedKept
    <3>3. CASE /\ t.how = "enqueue" /\ nextId <= MaxOp
               /\ ops' = [ops EXCEPT ![t.op] = NoRow, ![nextId] = ops[t.op]]
      <4>1. ops[t.op].state = "inserting"
        BY <2>1, <3>3 DEF TxOK
      <4>2. nextId \in OpId /\ ops[nextId].state = "none"
        BY <3>3, BoundAssumption DEF TypeOK, OpId, IdOK
      <4>3. \A j \in OpId : j # t.op /\ j # nextId => ops'[j] = ops[j]
        BY <3>3 DEF TypeOK
      <4>4. \A j \in OpId : Kept(j)
        BY <1>1, <4>1, <4>2, <4>3 DEF Terminal, Active
      <4> QED BY <1>2, <2>5, <4>4 DEF ClaimLost, SuccessorKept, FinishedKept
    <3> QED BY <2>5, <3>1, <3>2, <3>3 DEF ClaimLost
  <2> QED BY <2>1, <2>3, <2>4, <2>5 DEF Commit
<1>10. CASE \E c \in held : Drive(c)
  <2>1. PICK c \in held : Drive(c)
    BY <1>10
  <2>2. CASE Heartbeat(c) \/ WakeSibling(c)
    BY <1>2, <1>5, <2>2 DEF Heartbeat, WakeSibling, SuccessorKept, FinishedKept
  <2>3. CASE FencedWrite(c)
    <3>1. \A j \in OpId : Kept(j)
      BY <1>5, <2>3 DEF FencedWrite
    <3>2. \A s \in Session : row'[s] >= row[s]
      BY <1>1, <1>2, <1>3, <2>3 DEF FencedWrite, WrittenOK, TypeOK
    <3> QED BY <3>1, <3>2 DEF SuccessorKept, FinishedKept
  <2>4. CASE RecordStep(c)
    <3>1. ops[c.op].state = "running" /\ ops[c.op].epoch = c.epoch
      BY <2>4 DEF RecordStep, Holds
    <3>2. c.epoch >= ops[c.op].step
      BY <1>1, <1>3, <3>1 DEF RunningHoldsEpoch, WrittenOK, TypeOK
    <3>3. [ops[c.op] EXCEPT !.step = c.epoch].step = c.epoch
      BY <1>1, <1>3 DEF OpRow
    <3>4. ops' = [ops EXCEPT ![c.op] = [ops[c.op] EXCEPT !.step = c.epoch]]
      BY <2>4 DEF RecordStep
    <3>5. \A j \in OpId : Kept(j)
      BY <1>3, <1>6, <3>1, <3>2, <3>3, <3>4 DEF Terminal
    <3> QED BY <1>2, <2>4, <3>5 DEF RecordStep, SuccessorKept, FinishedKept
  <2>5. CASE UNCHANGED <<ops, row>>
    BY <1>2, <1>5, <2>5 DEF SuccessorKept, FinishedKept
  <2>6. ASSUME NEW outcome \in Terminal, OpFinish(c, outcome), Holds(c)
        PROVE  SuccessorKept /\ FinishedKept
    <3>1. ops' = [ops EXCEPT ![c.op] = [ops[c.op] EXCEPT !.state = outcome]]
      BY <2>6 DEF OpFinish
    <3>2. [ops[c.op] EXCEPT !.state = outcome].step = ops[c.op].step
      BY <1>1, <1>3 DEF OpRow
    <3>3. \A j \in OpId : Kept(j)
      BY <1>1, <1>3, <1>6, <2>6, <3>1, <3>2 DEF Terminal, Holds
    <3> QED BY <1>2, <2>6, <3>3 DEF OpFinish, SuccessorKept, FinishedKept
  <2>7. CASE OpRequeue(c) /\ Holds(c)
    <3>1. ops' = [ops EXCEPT ![c.op] =
                    [ops[c.op] EXCEPT !.state = "queued", !.epoch = 0]]
      BY <1>1, <1>3, <2>7 DEF OpRequeue, TypeOK, OpRow
    <3>2. [ops[c.op] EXCEPT !.state = "queued", !.epoch = 0].step = ops[c.op].step
      BY <1>1, <1>3 DEF OpRow
    <3>3. \A j \in OpId : Kept(j)
      BY <1>1, <1>3, <1>6, <2>7, <3>1, <3>2 DEF Terminal, Holds
    <3> QED BY <1>2, <2>7, <3>3 DEF OpRequeue, SuccessorKept, FinishedKept
  <2>8. ASSUME NEW outcome \in Terminal, OpFinish(c, outcome), ~Holds(c)
        PROVE  UNCHANGED <<ops, row>>
    BY <2>8 DEF OpFinish
  <2>9. ASSUME OpRequeue(c), ~Holds(c) PROVE UNCHANGED <<ops, row>>
    BY <2>9 DEF OpRequeue
  <2> QED
    BY <2>1, <2>2, <2>3, <2>4, <2>5, <2>6, <2>7, <2>8, <2>9 DEF Drive
<1>11. CASE \E s \in Session : WakeQueued(s)
  BY <1>2, <1>5, <1>11 DEF WakeQueued, SuccessorKept, FinishedKept
<1>12. CASE \E s \in Session, k \in CancelKind : RequestCancel(s, k)
  BY <1>2, <1>5, <1>12 DEF RequestCancel, SuccessorKept, FinishedKept
<1>13. CASE \E s \in Session, k \in CancelKind : CancelQueued(s, k)
  <2>1. PICK s \in Session, k \in CancelKind : CancelQueued(s, k)
    BY <1>13
  <2>2. \A i \in OpId : \/ ops'[i] = ops[i]
                        \/ ops[i].state = "queued" /\ ops'[i].step = ops[i].step
    BY <1>1, <2>1 DEF CancelQueued, QueuedOf, Queued, OpRow
  <2>3. UNCHANGED row
    BY <2>1 DEF CancelQueued
  <2>4. \A i \in OpId : Kept(i)
    BY <1>1, <2>2 DEF Terminal
  <2> QED BY <1>2, <2>3, <2>4 DEF SuccessorKept, FinishedKept
<1>14. CASE \E p \in Pod, i \in OpId : ReclaimStale(p, i)
  <2>1. PICK p \in Pod, i \in OpId : ReclaimStale(p, i)
    BY <1>14
  <2> DEFINE e == epoch[ops[i].session] + 1
  <2>0. e \in Nat
    BY <1>1 DEF TypeOK
  <2>2. ops' = [ops EXCEPT ![i] = Stamped(ops[i], e)]
    BY <2>1 DEF ReclaimStale, NextEpoch
  <2>3. Stamped(ops[i], e).step = ops[i].step
    BY <1>1, <2>0, StampedType
  <2>4. \A j \in OpId : Kept(j)
    BY <1>1, <1>6, <2>1, <2>2, <2>3 DEF Terminal, ReclaimStale, Stale
  <2> QED BY <1>2, <2>1, <2>4 DEF ReclaimStale, SuccessorKept, FinishedKept
<1>15. CASE \E i \in OpId : BackoffElapses(i) \/ HeartbeatLapses(i)
  BY <1>2, <1>5, <1>15 DEF BackoffElapses, HeartbeatLapses, SuccessorKept, FinishedKept
<1>16. CASE \E p \in Pod : Crash(p)
  <2>1. \A i \in OpId : ops'[i] = ops[i] \/ ops[i].state = "inserting"
    BY <1>16 DEF Crash, TxOK
  <2>2. \A i \in OpId : Kept(i)
    BY <1>1, <2>1 DEF Terminal, Active
  <2> QED BY <1>2, <1>16, <2>2 DEF Crash, SuccessorKept, FinishedKept
<1> QED
  BY <1>7, <1>8, <1>9, <1>10, <1>11, <1>12, <1>13, <1>14, <1>15, <1>16 DEF Next

(* A superseded executor never overwrites its successor.                   *)
THEOREM SuccessorWins == Spec => NoWriteAfterSuccessor
<1>1. IInv /\ [Next]_vars => [SuccessorKept]_vars
  BY StepRows
<1> QED
  BY <1>1, Invariance, PTL DEF Spec, NoWriteAfterSuccessor

(* A finished op stays as it finished.                                     *)
THEOREM FinishedForGood == Spec => FinishedIsFinal
<1>1. IInv /\ [Next]_vars => [FinishedKept]_vars
  BY StepRows
<1> QED
  BY <1>1, Invariance, PTL DEF Spec, FinishedIsFinal

-----------------------------------------------------------------------------
(* The refinement                                                          *)

(* A step that neither stamps, finishes nor requeues a row, and writes     *)
(* neither epochs nor session rows, is invisible in the lane.              *)
LEMMA LaneStutter ==
  ASSUME UNCHANGED <<epoch, row>>,
         \A i \in OpId : /\ ops'[i].state = "running" <=> ops[i].state = "running"
                         /\ ops[i].state = "running" => ops'[i].session = ops[i].session
  PROVE  UNCHANGED Lane!lvars
<1>1. ASSUME NEW s \in Session
      PROVE  {i \in OpId : ops'[i].state = "running" /\ ops'[i].session = s} =
             {i \in OpId : ops[i].state = "running" /\ ops[i].session = s}
  OBVIOUS
<1>2. Holder' = Holder
  BY <1>1 DEF Holder, Running
<1> QED
  BY <1>2 DEF Lane!lvars

LEMMA LaneStep == IInv /\ IInv' /\ [Next]_vars => [Lane!LaneNext]_(Lane!lvars)
<1> SUFFICES ASSUME IInv, IInv', Next PROVE [Lane!LaneNext]_(Lane!lvars)
  <2>1. UNCHANGED vars => UNCHANGED Lane!lvars
    BY LaneStutter DEF vars
  <2> QED BY <2>1
<1> USE DEF IInv
<1>1. \A i \in OpId : ops[i] \in OpRow /\ ops[i].session \in Session
  BY DEF TypeOK, OpRow
<1>2. \A c \in held : c.op \in OpId /\ c.epoch \in Nat
  BY DEF TypeOK, Claim
<1>3. \A t \in txs : t.op \in OpId
  BY DEF TypeOK, Tx
<1>4. ASSUME UNCHANGED <<epoch, row, ops>> PROVE UNCHANGED Lane!lvars
  BY <1>4, LaneStutter
<1>41. /\ Holder \in [Session -> SUBSET OpId]
       /\ \A q \in Session : Holder[q] = {j \in OpId : ops[j].state = "running" /\ ops[j].session = q}
  BY DEF Holder, Running
<1>42. /\ Holder' \in [Session -> SUBSET OpId]
       /\ \A q \in Session :
            Holder'[q] = {j \in OpId : ops'[j].state = "running" /\ ops'[j].session = q}
  BY DEF Holder, Running
<1>43. ASSUME NEW i \in OpId, NEW q \in Session, q # ops[i].session,
              ops'[i].session = ops[i].session,
              \A j \in OpId : j # i => ops'[j] = ops[j]
       PROVE  Holder'[q] = Holder[q]
  <2>1. \A j \in OpId : /\ ops'[j].state = "running" /\ ops'[j].session = q
                        <=> ops[j].state = "running" /\ ops[j].session = q
    BY <1>43
  <2> QED BY <1>41, <1>42, <2>1, ZenonT(60)
(* A row leaves the running state: the lane is released.                   *)
<1>5. ASSUME NEW i \in OpId, ops[i].state = "running",
             ops'[i].state # "running", ops'[i].session = ops[i].session,
             \A j \in OpId : j # i => ops'[j] = ops[j],
             UNCHANGED <<epoch, row>>
      PROVE  Lane!LaneNext
  <2>1. ops[i].session \in Session
    BY <1>1
  <2>2. Holder[ops[i].session] # {}
    BY <1>5, <1>41, <2>1
  <2>3. \A j \in OpId : ~(ops'[j].state = "running" /\ ops'[j].session = ops[i].session)
    BY <1>5 DEF OneRunning
  <2>4. Holder'[ops[i].session] = {}
    BY <1>42, <2>1, <2>3
  <2>5. \A q \in Session : q # ops[i].session => Holder'[q] = Holder[q]
    BY <1>5, <1>43
  <2>6. Holder' = [Holder EXCEPT ![ops[i].session] = {}]
    BY <1>41, <1>42, <2>1, <2>4, <2>5
  <2>7. Lane!Release(ops[i].session)
    BY <1>5, <2>2, <2>6 DEF Lane!Release
  <2> QED BY <2>1, <2>7 DEF Lane!LaneNext
(* A row is stamped: the lane is granted, or granted anew.                 *)
<1>6. ASSUME NEW i \in OpId,
             epoch' = [epoch EXCEPT ![ops[i].session] = epoch[ops[i].session] + 1],
             ops' = [ops EXCEPT ![i] = Stamped(ops[i], epoch[ops[i].session] + 1)],
             UNCHANGED row
      PROVE  Lane!LaneNext
  <2>1. ops[i].session \in Session /\ epoch[ops[i].session] + 1 \in Nat
    BY <1>1 DEF TypeOK
  <2>21. /\ ops'[i] = Stamped(ops[i], epoch[ops[i].session] + 1)
         /\ \A j \in OpId : j # i => ops'[j] = ops[j]
    BY <1>6 DEF TypeOK
  <2>22. ops[i] \in OpRow
    BY <1>1
  <2>2. /\ ops'[i].state = "running" /\ ops'[i].session = ops[i].session
        /\ \A j \in OpId : j # i => ops'[j] = ops[j]
    BY <2>1, <2>21, <2>22, StampedType, SMTT(30)
  <2>31. \A j, k \in OpId :
           /\ ops'[j].state = "running" /\ ops'[k].state = "running"
           /\ ops'[j].session = ops'[k].session
           => j = k
    BY DEF OneRunning
  <2>3. \A j \in OpId :
          (ops'[j].state = "running" /\ ops'[j].session = ops[i].session) <=> j = i
    BY <2>2, <2>31
  <2>4. Holder'[ops[i].session] = {i}
    BY <1>42, <2>1, <2>3
  <2>5. \A q \in Session : q # ops[i].session => Holder'[q] = Holder[q]
    BY <2>2, <1>43
  <2>6. CASE ops[i].state = "running"
    <3>1. \A j \in OpId : ops[j].state = "running" /\ ops[j].session = ops[i].session <=> j = i
      BY <2>6 DEF OneRunning
    <3>2. Holder[ops[i].session] = {i}
      BY <1>41, <2>1, <3>1
    <3>31. \A q \in Session : Holder'[q] = Holder[q]
      BY <2>4, <2>5, <3>2
    <3>3. Holder' = Holder
      BY <1>41, <1>42, <3>31
    <3>4. Lane!Regrant(ops[i].session)
      BY <1>6, <3>2, <3>3 DEF Lane!Regrant
    <3> QED BY <2>1, <3>4 DEF Lane!LaneNext
  <2>7. CASE ops[i].state # "running"
    <3>1. \A j \in OpId : ~(ops[j].state = "running" /\ ops[j].session = ops[i].session)
      BY <2>2, <2>3, <2>7
    <3>2. Holder[ops[i].session] = {}
      BY <1>41, <2>1, <3>1
    <3>3. Holder' = [Holder EXCEPT ![ops[i].session] = {i}]
      BY <1>41, <1>42, <2>1, <2>4, <2>5
    <3>4. Lane!Grant(ops[i].session, i)
      BY <1>6, <3>2, <3>3 DEF Lane!Grant
    <3> QED BY <2>1, <3>4 DEF Lane!LaneNext
  <2> QED BY <2>6, <2>7
<1>7. CASE \E p \in Pod, s \in Session : ClaimHeadBegin(p, s)
  BY <1>4, <1>7 DEF ClaimHeadBegin
<1>8. CASE \/ \E p \in Pod, s \in Session, a \in EnqueueAs : EnqueueBegin(p, s, a[1], a[2])
           \/ \E p \in Pod, s \in Session, k \in ExclusiveKind : ExclusiveBegin(p, s, k)
  <2>1. PICK s \in Session, k \in Kind, key \in Key \cup {NoKey} :
          /\ nextId <= MaxOp
          /\ ops' = [ops EXCEPT ![nextId] = FreshRow(s, k, key)]
          /\ UNCHANGED <<epoch, row>>
    BY <1>8, KindAssumption, KeyAssumption DEF EnqueueBegin, ExclusiveBegin
  <2>2. nextId \in OpId /\ ops[nextId].state = "none"
    BY <2>1, BoundAssumption DEF TypeOK, OpId, IdOK
  <2>3. ops'[nextId].state = "inserting"
    BY <2>1, <2>2 DEF TypeOK, FreshRow, NoRow
  <2>4. \A j \in OpId : j # nextId => ops'[j] = ops[j]
    BY <2>1 DEF TypeOK
  <2> QED BY <2>1, <2>2, <2>3, <2>4, LaneStutter
<1>9. CASE \E t \in txs : Commit(t)
  <2>1. PICK t \in txs : Commit(t)
    BY <1>9
  <2>2. CASE CommitClaim(t)
    BY <1>3, <1>6, <2>1, <2>2 DEF CommitClaim, NextEpoch
  <2>3. CASE CommitQueued(t)
    <3>1. ops[t.op].state = "inserting" /\ UNCHANGED <<epoch, row>>
      BY <2>1, <2>3 DEF CommitQueued, TxOK
    <3>2. ops'[t.op].state = "queued" /\ \A j \in OpId : j # t.op => ops'[j] = ops[j]
      BY <1>1, <1>3, <2>1, <2>3 DEF CommitQueued, TypeOK, OpRow
    <3> QED BY <3>1, <3>2, LaneStutter
  <2>4. CASE ClaimLost(t)
    <3>1. UNCHANGED <<epoch, row>>
      BY <2>4 DEF ClaimLost
    <3>2. \A j \in OpId : \/ ops'[j] = ops[j]
                          \/ /\ ops[j].state # "running"
                             /\ ops'[j].state # "running"
      <4>1. t.how # "head" => ops[t.op].state = "inserting"
        BY <2>1 DEF TxOK
      <4>2. nextId <= MaxOp => nextId \in OpId /\ ops[nextId].state = "none"
        BY BoundAssumption DEF TypeOK, OpId, IdOK
      <4>3. CASE UNCHANGED ops
        BY <4>3
      <4>4. CASE t.how # "head" /\ ops' = [ops EXCEPT ![t.op] = NoRow]
        BY <1>3, <2>1, <4>1, <4>4, NoRowType DEF TypeOK
      <4>5. CASE /\ t.how = "enqueue" /\ nextId <= MaxOp
                 /\ ops' = [ops EXCEPT ![t.op] = NoRow, ![nextId] = ops[t.op]]
        BY <1>3, <2>1, <4>1, <4>2, <4>5, NoRowType DEF TypeOK
      <4> QED BY <2>4, <4>3, <4>4, <4>5 DEF ClaimLost
    <3> QED BY <3>1, <3>2, LaneStutter
  <2> QED BY <2>1, <2>2, <2>3, <2>4 DEF Commit
<1>10. CASE \E c \in held : Drive(c)
  <2>1. PICK c \in held : Drive(c)
    BY <1>10
  <2>2. CASE Heartbeat(c) \/ WakeSibling(c)
    BY <1>4, <2>2 DEF Heartbeat, WakeSibling
  <2>3. CASE FencedWrite(c)
    <3>1. ops[c.op].session \in Session
      BY <1>1, <1>2
    <3>2. ops[c.op].state = "running"
      BY <2>1, <2>3 DEF FencedWrite, FencesAgree
    <3>3. Holder[ops[c.op].session] # {}
      BY <1>2, <1>41, <3>1, <3>2
    <3>4. /\ row' = [row EXCEPT ![ops[c.op].session] = epoch[ops[c.op].session]]
          /\ UNCHANGED <<epoch, ops>>
      BY <2>3 DEF FencedWrite
    <3>5. Holder' = Holder
      BY <3>4 DEF Holder, Running
    <3>6. Lane!Write(ops[c.op].session)
      BY <3>3, <3>4, <3>5 DEF Lane!Write
    <3> QED BY <3>1, <3>6 DEF Lane!LaneNext
  <2>4. CASE RecordStep(c)
    <3>1. \A j \in OpId : /\ ops'[j].state = ops[j].state
                          /\ ops'[j].session = ops[j].session
      BY <1>1, <1>2, <2>4 DEF RecordStep, TypeOK, OpRow
    <3>2. UNCHANGED <<epoch, row>>
      BY <2>4 DEF RecordStep
    <3> QED BY <3>1, <3>2, LaneStutter
  <2>5. ASSUME NEW outcome \in Terminal, OpFinish(c, outcome)
        PROVE  [Lane!LaneNext]_(Lane!lvars)
    <3>1. UNCHANGED <<epoch, row>>
      BY <2>5 DEF OpFinish
    <3>2. CASE ~Holds(c)
      BY <1>4, <2>5, <3>1, <3>2 DEF OpFinish
    <3>3. CASE Holds(c)
      <4>1. ops[c.op].state = "running"
        BY <3>3 DEF Holds
      <4>2. /\ ops'[c.op].state # "running" /\ ops'[c.op].session = ops[c.op].session
            /\ \A j \in OpId : j # c.op => ops'[j] = ops[j]
        BY <1>1, <1>2, <2>5, <3>3 DEF OpFinish, TypeOK, OpRow, Terminal
      <4> QED BY <1>2, <1>5, <3>1, <4>1, <4>2
    <3> QED BY <3>2, <3>3
  <2>6. CASE OpRequeue(c)
    <3>1. UNCHANGED <<epoch, row>>
      BY <2>6 DEF OpRequeue
    <3>2. CASE ~Holds(c)
      BY <1>4, <2>6, <3>1, <3>2 DEF OpRequeue
    <3>3. CASE Holds(c)
      <4>1. ops[c.op].state = "running"
        BY <3>3 DEF Holds
      <4>2. /\ ops'[c.op].state # "running" /\ ops'[c.op].session = ops[c.op].session
            /\ \A j \in OpId : j # c.op => ops'[j] = ops[j]
        BY <1>1, <1>2, <2>6, <3>3 DEF OpRequeue, TypeOK, OpRow
      <4> QED BY <1>2, <1>5, <3>1, <4>1, <4>2
    <3> QED BY <3>2, <3>3
  <2> QED
    BY <2>1, <2>2, <2>3, <2>4, <2>5, <2>6 DEF Drive
<1>11. CASE \E s \in Session : WakeQueued(s)
  BY <1>4, <1>11 DEF WakeQueued
<1>12. CASE \E s \in Session, k \in CancelKind : RequestCancel(s, k)
  BY <1>4, <1>12 DEF RequestCancel
<1>13. CASE \E s \in Session, k \in CancelKind : CancelQueued(s, k)
  <2>1. \A i \in OpId : \/ ops'[i] = ops[i]
                        \/ ops[i].state = "queued" /\ ops'[i].state = "cancelled"
    BY <1>1, <1>13 DEF CancelQueued, QueuedOf, Queued, OpRow
  <2>2. UNCHANGED <<epoch, row>>
    BY <1>13 DEF CancelQueued
  <2> QED BY <2>1, <2>2, LaneStutter
<1>14. CASE \E p \in Pod, i \in OpId : ReclaimStale(p, i)
  BY <1>6, <1>14 DEF ReclaimStale, NextEpoch
<1>15. CASE \E i \in OpId : BackoffElapses(i) \/ HeartbeatLapses(i)
  BY <1>4, <1>15 DEF BackoffElapses, HeartbeatLapses
<1>16. CASE \E p \in Pod : Crash(p)
  <2>1. \A i \in OpId : \/ ops'[i] = ops[i]
                        \/ ops[i].state = "inserting" /\ ops'[i].state = "none"
    BY <1>16, NoRowType DEF Crash, TxOK
  <2>2. UNCHANGED <<epoch, row>>
    BY <1>16 DEF Crash
  <2> QED BY <2>1, <2>2, LaneStutter
<1> QED
  BY <1>7, <1>8, <1>9, <1>10, <1>11, <1>12, <1>13, <1>14, <1>15, <1>16 DEF Next

(* The op log implements the abstract lane.                                *)
THEOREM LaneImplemented == Spec => LaneRefinement
<1>1. Init => Lane!LaneInit
  <2> SUFFICES ASSUME Init PROVE Lane!LaneInit
    OBVIOUS
  <2>1. \A s \in Session : Running(s) = {}
    BY NoRowType DEF Init, Running
  <2>2. Holder = [s \in Session |-> {}]
    BY <2>1 DEF Holder
  <2> QED BY <2>2 DEF Init, Lane!LaneInit
<1> QED
  BY <1>1, LaneStep, Invariance, PTL DEF Spec, LaneRefinement, Lane!LaneSpec
=============================================================================
