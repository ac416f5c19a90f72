----------------------------- MODULE SessionOps -----------------------------
(***************************************************************************)
(* The durable per-session operation log of the coordinator.              *)
(*                                                                         *)
(* Every lifecycle verb of a session is a row of the Postgres table        *)
(* session_ops, driven by an executor of some coordinator replica (pod).   *)
(* Claiming a row bumps sessions.current_epoch in the same transaction;    *)
(* every later write of the executor carries the epoch of its claim and    *)
(* changes nothing once a successor holds a higher one.                    *)
(*                                                                         *)
(* Claims are transactions of two steps: the statements that read the      *)
(* table (taking the row lock of the chosen head), and the statements that *)
(* bump the epoch, stamp the row and commit, which the row lock on         *)
(* sessions serialises.  Between the two other transactions commit: that   *)
(* is the race the partial unique index session_ops_one_running decides.   *)
(*                                                                         *)
(* Time is abstracted to two sets of rows: `due' (not_before is NULL or in *)
(* the past) and `fresh' (running, and heartbeat_at is younger than        *)
(* RECLAIM_STALE).                                                         *)
(***************************************************************************)
EXTENDS Naturals, FiniteSets

CONSTANTS
  Pod,            \* coordinator replicas
  Session,
  Kind,           \* the verbs in use (OpKind)
  Deliver,        \* OpKind::Deliver
  BootKind,       \* CreateBoot and Resume{for_delivery}: they wake Deliver
  CancelKind,     \* kinds some caller cancels while queued or running
  Key,            \* idempotency keys
  NoKey,          \* idempotency_key IS NULL
  EnqueueAs,      \* the (kind, key) pairs that callers enqueue
  ExclusiveKind,  \* the kinds that OpClaim::try_acquire claims inline
  MaxOp,          \* bound: rows ever inserted
  MaxAttempts,    \* bound: attempts after which a queued row is not claimed
                  \* again and a driven one does not lapse
  MaxCrash,       \* bound: pod crashes
  MaxTx           \* bound: claim transactions open at once

ASSUME SessionAssumption == Session # {}
ASSUME KindAssumption == /\ Deliver \in Kind
                         /\ BootKind \subseteq Kind
                         /\ CancelKind \subseteq Kind
                         /\ ExclusiveKind \subseteq Kind
ASSUME KeyAssumption == /\ NoKey \notin Key
                        /\ EnqueueAs \subseteq Kind \X (Key \cup {NoKey})
ASSUME BoundAssumption == /\ MaxOp \in Nat
                          /\ MaxAttempts \in Nat
                          /\ MaxCrash \in Nat
                          /\ MaxTx \in Nat

VARIABLES
  epoch,    \* sessions.current_epoch
  row,      \* epoch of the claim whose fenced write last changed the row
  ops,      \* the table session_ops
  due,      \* rows whose not_before is NULL or has passed
  fresh,    \* running rows whose heartbeat_at is recent
  flagged,  \* rows that have not ended and whose payload has the _cancel flag
  nextId,   \* its id sequence
  txs,      \* claim transactions begun and not yet committed
  held,     \* claims being driven by executors, live or superseded
  crashes

vars == <<epoch, row, ops, due, fresh, flagged, nextId, txs, held, crashes>>

OpId == 1 .. MaxOp
Terminal == {"done", "failed", "cancelled"}
Active == {"queued", "running"}

\* "none": no row (never inserted, or rolled back); "inserting": inserted by
\* an uncommitted transaction, which no other transaction sees.
OpState == {"none", "inserting"} \cup Active \cup Terminal

OpRow == [session : Session, kind : Kind, key : Key \cup {NoKey},
          state : OpState,
          epoch : Nat,           \* 0 stands for NULL
          step : Nat,            \* epoch of the claim that recorded the marker
          attempts : Nat]

\* An open transaction.  "head", "enqueue", "exclusive": its reads found the
\* lane claimable and it goes on to claim; "queue": an enqueue that does not.
Tx == [pod : Pod, how : {"head", "enqueue", "exclusive", "queue"}, op : OpId]

\* A claim.  "verb": driven by drive_one; "inline": by the holder of an
\* OpClaim; "wake" and "maybeWake": the row is finished and drive_one has yet
\* to wake the sibling Deliver ops.
Claim == [pod : Pod, op : OpId, epoch : Nat,
          phase : {"verb", "inline", "wake", "maybeWake"}]
Driving(c) == c.phase \in {"verb", "inline"}

NoRow == [session |-> CHOOSE s \in Session : TRUE,
          kind |-> Deliver, key |-> NoKey, state |-> "none", epoch |-> 0,
          step |-> 0, attempts |-> 0]

Init == /\ epoch = [s \in Session |-> 0]
        /\ row = [s \in Session |-> 0]
        /\ ops = [i \in OpId |-> NoRow]
        /\ due = {} /\ fresh = {} /\ flagged = {}
        /\ nextId = 1
        /\ txs = {}
        /\ held = {}
        /\ crashes = 0

-----------------------------------------------------------------------------
(* What a transaction reads                                                *)

Running(s) == {i \in OpId : ops[i].state = "running" /\ ops[i].session = s}
Queued(s)  == {i \in OpId : ops[i].state = "queued" /\ ops[i].session = s}

\* Row locks of open op_claim_head transactions (FOR UPDATE).
Locked(i) == \E t \in txs : t.how = "head" /\ t.op = i

\* Candidates of the head query: queued and due, SKIP LOCKED.  The bound on
\* attempts is the model's: the code tries a row as often as it is requeued.
Candidates(s) ==
  {i \in Queued(s) \cap due : ~Locked(i) /\ ops[i].attempts < MaxAttempts}
IsHead(s, i) == i \in Candidates(s) /\ \A j \in Candidates(s) : i <= j

\* session_ops_one_running: what the stamp of a claim finds.
LaneFree(s) == Running(s) = {}

\* session_ops_idem: the active rows, and the uncommitted inserts an
\* INSERT .. ON CONFLICT waits for.
KeyTakenQueued(s, k, key) ==
  key # NoKey /\ \E i \in Queued(s) : ops[i].kind = k /\ ops[i].key = key
KeyTaken(s, k, key) ==
  /\ key # NoKey
  /\ \E i \in OpId : /\ ops[i].state \in Active \cup {"inserting"}
                     /\ ops[i].session = s /\ ops[i].kind = k /\ ops[i].key = key

FreshRowSwapped(s, k, key) ==
  [NoRow EXCEPT !.session = s, !.kind = key, !.key = k,
                !.state = "inserting"]
FreshRow(s, k, key) ==
  [NoRow EXCEPT !.session = s, !.kind = k, !.key = key,
                !.state = "inserting"]

\* The fence of op_record_step, op_heartbeat, op_finish and
\* op_requeue_with_backoff: the row is still running under the claim's epoch.
HoldsRunning(c) == ops[c.op].state = "running"
Holds(c) == ops[c.op].state = "running" /\ ops[c.op].epoch = c.epoch

-----------------------------------------------------------------------------
(* Claim transactions                                                      *)

\* drive_session -> op_claim_head, up to its pre-check of a running row.
ClaimHeadBegin(p, s) ==
  /\ Cardinality(txs) < MaxTx
  /\ Running(s) = {}
  /\ \E i \in OpId :
       /\ IsHead(s, i)
       /\ txs' = txs \cup {[pod |-> p, how |-> "head", op |-> i]}
  /\ UNCHANGED <<epoch, row, ops, due, fresh, flagged, nextId, held, crashes>>

\* enqueue -> op_enqueue_and_claim -> op_enqueue_tx up to `claimable'.  A
\* duplicate key is a no-op.
EnqueueBegin(p, s, k, key) ==
  /\ nextId <= MaxOp /\ Cardinality(txs) < MaxTx
  /\ ~KeyTaken(s, k, key)
  /\ ops' = [ops EXCEPT ![nextId] = FreshRow(s, k, key)]
  /\ nextId' = nextId + 1
  /\ txs' = txs \cup {[pod |-> p, op |-> nextId,
                       how |-> IF Running(s) \cup Queued(s) = {}
                               THEN "enqueue" ELSE "queue"]}
  /\ UNCHANGED <<epoch, row, due, fresh, flagged, held, crashes>>

\* OpClaim::try_acquire -> op_enqueue_and_claim_exclusive up to `free'.  A
\* busy lane rolls the insert back, which leaves no row.
ExclusiveBegin(p, s, k) ==
  /\ nextId <= MaxOp /\ Cardinality(txs) < MaxTx
  /\ Running(s) = {} /\ Queued(s) = {}
  /\ ops' = [ops EXCEPT ![nextId] = FreshRow(s, k, NoKey)]
  /\ nextId' = nextId + 1
  /\ txs' = txs \cup {[pod |-> p, how |-> "exclusive", op |-> nextId]}
  /\ UNCHANGED <<epoch, row, due, fresh, flagged, held, crashes>>

\* sessions.current_epoch + 1, and the row as the claiming UPDATE stamps it.
SameEpoch(s) == epoch[s]
NextEpoch(s) == epoch[s] + 1

Stamped(r, e) == [r EXCEPT !.state = "running", !.epoch = e,
                           !.attempts = r.attempts + 1]

\* Epoch bump, stamp and commit: the unique index finds no running row.
CommitClaim(t) ==
  LET s == ops[t.op].session
      e == NextEpoch(s)
  IN /\ t.how # "queue"
     /\ LaneFree(s)
     /\ epoch' = [epoch EXCEPT ![s] = e]
     /\ ops' = [ops EXCEPT ![t.op] = Stamped(ops[t.op], e)]
     /\ due' = due \cup {t.op}
     /\ fresh' = fresh \cup {t.op}
     /\ held' = held \cup {[pod |-> t.pod, op |-> t.op, epoch |-> e,
                            phase |-> IF t.how = "exclusive" THEN "inline" ELSE "verb"]}
     /\ txs' = txs \ {t}
     /\ UNCHANGED <<row, flagged, nextId, crashes>>

\* The same statements when a peer committed its claim in between: the stamp
\* trips session_ops_one_running and the transaction, epoch bump included, is
\* rolled back.  An enqueue is retried without a claim, under a new id.
ClaimLost(t) ==
  LET r == ops[t.op] IN
  /\ ~LaneFree(r.session)
  /\ \/ /\ t.how = "head"
        /\ txs' = txs \ {t}
        /\ UNCHANGED <<ops, nextId>>
     \/ /\ t.how = "exclusive"
        /\ ops' = [ops EXCEPT ![t.op] = NoRow]
        /\ txs' = txs \ {t}
        /\ UNCHANGED nextId
     \/ /\ t.how = "enqueue" /\ nextId <= MaxOp
        /\ ops' = [ops EXCEPT ![t.op] = NoRow, ![nextId] = r]
        /\ nextId' = nextId + 1
        /\ txs' = (txs \ {t}) \cup {[t EXCEPT !.op = nextId, !.how = "queue"]}
     \/ /\ t.how = "enqueue" /\ nextId > MaxOp      \* at the bound: give up
        /\ ops' = [ops EXCEPT ![t.op] = NoRow]
        /\ txs' = txs \ {t}
        /\ UNCHANGED nextId
  /\ UNCHANGED <<epoch, row, due, fresh, flagged, held, crashes>>

\* op_enqueue_tx that does not claim: the row is committed queued.
CommitQueued(t) ==
  /\ t.how = "queue"
  /\ ops' = [ops EXCEPT ![t.op].state = "queued"]
  /\ due' = due \cup {t.op}
  /\ txs' = txs \ {t}
  /\ UNCHANGED <<epoch, row, fresh, flagged, nextId, held, crashes>>

-----------------------------------------------------------------------------
(* Driving a claim.  A write whose fence fails changes no row.             *)

\* OpCtx::step -> op_record_step.
RecordStep(c) ==
  /\ Driving(c)
  /\ Holds(c)
  /\ ops' = [ops EXCEPT ![c.op].step = c.epoch]
  /\ fresh' = fresh \cup {c.op}
  /\ UNCHANGED <<epoch, row, due, flagged, nextId, txs, held, crashes>>

\* The within-step beat: op_heartbeat.
Heartbeat(c) ==
  /\ Driving(c)
  /\ Holds(c)
  /\ fresh' = fresh \cup {c.op}
  /\ UNCHANGED <<epoch, row, ops, due, flagged, nextId, txs, held, crashes>>

\* fenced_transition_session and the other writes of the session row that
\* carry AND current_epoch = $e.
UnfencedWrite(c) ==
  /\ Driving(c)
  /\ row' = [row EXCEPT ![ops[c.op].session] = c.epoch]
  /\ UNCHANGED <<epoch, ops, due, fresh, flagged, nextId, txs, held, crashes>>
FencedWrite(c) ==
  LET s == ops[c.op].session IN
  /\ Driving(c)
  /\ epoch[s] = c.epoch
  /\ row' = [row EXCEPT ![s] = c.epoch]
  /\ UNCHANGED <<epoch, ops, due, fresh, flagged, nextId, txs, held, crashes>>

\* What drive_one still does once the row is finished: sibling Deliver ops
\* wait on a boot, and are woken if it ended well or ended the session.
AfterFinish(c, outcome) ==
  IF c.phase = "inline" \/ ops[c.op].kind \notin BootKind THEN {}
  ELSE {[c EXCEPT !.phase = IF outcome = "done" THEN "wake" ELSE "maybeWake"]}

\* drive_one's Done, Failed and Cancelled arms, OpClaim::finish and
\* OpClaim::drop: op_finish.  The flag of an ended row is read by nobody.
OpFinish(c, outcome) ==
  /\ Driving(c)
  /\ outcome = "cancelled" => c.op \in flagged
  /\ \/ /\ Holds(c)
        /\ ops' = [ops EXCEPT ![c.op].state = outcome]
        /\ fresh' = fresh \ {c.op} /\ flagged' = flagged \ {c.op}
     \/ ~Holds(c) /\ UNCHANGED <<ops, fresh, flagged>>
  /\ held' = (held \ {c}) \cup AfterFinish(c, outcome)
  /\ UNCHANGED <<epoch, row, due, nextId, txs, crashes>>

\* drive_one's Retry and RetryAfter arms, a deadline that cancels the verb
\* included: op_requeue_with_backoff, however often the op was tried.
OpRequeue(c) ==
  /\ c.phase = "verb"
  /\ \/ /\ Holds(c)
        /\ ops' = [ops EXCEPT ![c.op].state = "queued", ![c.op].epoch = 0]
        /\ due' = due \ {c.op}
        /\ fresh' = fresh \ {c.op}
     \/ ~Holds(c) /\ UNCHANGED <<ops, due, fresh>>
  /\ held' = held \ {c}
  /\ UNCHANGED <<epoch, row, flagged, nextId, txs, crashes>>

\* op_wake_queued_kind and op_cancel_queued update all the queued rows of a
\* kind, and wait for the row locks of open claims.
QueuedOf(s, k) == {i \in Queued(s) : ops[i].kind = k}
NoneLocked(s, k) == \A i \in QueuedOf(s, k) : ~Locked(i)

\* The sibling wake after a boot.  "maybeWake": only if the session is
\* terminal, which this module does not know.
WakeSibling(c) ==
  LET s == ops[c.op].session IN
  /\ ~Driving(c)
  /\ held' = held \ {c}
  /\ \/ NoneLocked(s, Deliver) /\ due' = due \cup QueuedOf(s, Deliver)
     \/ c.phase = "maybeWake" /\ UNCHANGED due
  /\ UNCHANGED <<epoch, row, ops, fresh, flagged, nextId, txs, crashes>>

-----------------------------------------------------------------------------
(* Other writers of the table                                              *)

\* op_wake_queued_kind from the event paths (session active, harness idle).
WakeQueued(s) ==
  /\ ~(QueuedOf(s, Deliver) \subseteq due)
  /\ NoneLocked(s, Deliver)
  /\ due' = due \cup QueuedOf(s, Deliver)
  /\ UNCHANGED <<epoch, row, ops, fresh, flagged, nextId, txs, held, crashes>>

\* op_cancel_queued: every queued op of the kind.
CancelQueued(s, k) ==
  /\ QueuedOf(s, k) # {}
  /\ NoneLocked(s, k)
  /\ ops' = [i \in OpId |-> IF i \in QueuedOf(s, k)
                            THEN [ops[i] EXCEPT !.state = "cancelled"]
                            ELSE ops[i]]
  /\ flagged' = flagged \ QueuedOf(s, k)
  /\ UNCHANGED <<epoch, row, due, fresh, nextId, txs, held, crashes>>

\* op_request_cancel_running: a flag in the payload, no fence.
RequestCancel(s, k) ==
  \E i \in Running(s) :
    /\ ops[i].kind = k /\ i \notin flagged
    /\ flagged' = flagged \cup {i}
    /\ UNCHANGED <<epoch, row, ops, due, fresh, nextId, txs, held, crashes>>

\* The sweep of every pod: op_reclaim_stale.  Its transaction re-stamps every
\* stale row; they are of different sessions, and are taken here one by one.
StaleUnstarted(i) == ops[i].state = "running" /\ i \notin fresh /\ ops[i].step = 0
Stale(i) == ops[i].state = "running" /\ i \notin fresh

ReclaimStale(p, i) ==
  LET s == ops[i].session
      e == NextEpoch(s)
  IN /\ Stale(i)
     /\ epoch' = [epoch EXCEPT ![s] = e]
     /\ ops' = [ops EXCEPT ![i] = Stamped(ops[i], e)]
     /\ fresh' = fresh \cup {i}
     /\ held' = held \cup {[pod |-> p, op |-> i, epoch |-> e, phase |-> "verb"]}
     /\ UNCHANGED <<row, due, flagged, nextId, txs, crashes>>

-----------------------------------------------------------------------------
(* Time and failures                                                       *)

\* not_before passes (at the bound on attempts nobody looks any more).
BackoffElapses(i) ==
  /\ ops[i].state = "queued" /\ i \notin due
  /\ ops[i].attempts < MaxAttempts
  /\ due' = due \cup {i}
  /\ UNCHANGED <<epoch, row, ops, fresh, flagged, nextId, txs, held, crashes>>

\* RECLAIM_STALE passes without a beat: the holder died, or it is alive and
\* cannot reach the database (bounded by MaxAttempts).
Driven(i) == \E c \in held : c.op = i /\ Driving(c) /\ Holds(c)
HeartbeatLapses(i) ==
  /\ i \in fresh
  /\ ~Driven(i) \/ ops[i].attempts < MaxAttempts
  /\ fresh' = fresh \ {i}
  /\ UNCHANGED <<epoch, row, ops, due, flagged, nextId, txs, held, crashes>>

\* A pod dies and restarts: its claims and its open transactions are gone,
\* the rows those transactions inserted with them.
Crash(p) ==
  /\ crashes < MaxCrash
  /\ \E x \in held \cup txs : x.pod = p
  /\ crashes' = crashes + 1
  /\ held' = {c \in held : c.pod # p}
  /\ txs' = {t \in txs : t.pod # p}
  /\ ops' = [i \in OpId |->
               IF \E t \in txs : t.pod = p /\ t.op = i /\ t.how # "head"
               THEN NoRow ELSE ops[i]]
  /\ UNCHANGED <<epoch, row, due, fresh, flagged, nextId>>

-----------------------------------------------------------------------------
Drive(c) == \/ RecordStep(c)
            \/ Heartbeat(c)
            \/ FencedWrite(c)
            \/ \E outcome \in Terminal : OpFinish(c, outcome)
            \/ OpRequeue(c)
            \/ WakeSibling(c)

Commit(t) == CommitClaim(t) \/ ClaimLost(t) \/ CommitQueued(t)

Next ==
  \/ \E p \in Pod, s \in Session : ClaimHeadBegin(p, s)
  \/ \E p \in Pod, s \in Session, a \in EnqueueAs : EnqueueBegin(p, s, a[1], a[2])
  \/ \E p \in Pod, s \in Session, k \in ExclusiveKind : ExclusiveBegin(p, s, k)
  \/ \E t \in txs : Commit(t)
  \/ \E c \in held : Drive(c)
  \/ \E s \in Session : WakeQueued(s)
  \/ \E s \in Session, k \in CancelKind : CancelQueued(s, k) \/ RequestCancel(s, k)
  \/ \E p \in Pod, i \in OpId : ReclaimStale(p, i)
  \/ \E i \in OpId : BackoffElapses(i) \/ HeartbeatLapses(i)
  \/ \E p \in Pod : Crash(p)

Spec == Init /\ [][Next]_vars

(***************************************************************************)
(* Fairness.  Postgres ends every transaction it has begun.  The executor  *)
(* loop of a pod rescans every RESCAN_INTERVAL, so a due head of a free    *)
(* lane is claimed.  An attempt ends, in a finish or in a requeue: its     *)
(* RPCs and, for most kinds, the whole attempt have a deadline; the rows   *)
(* of executors that never return are reclaimed once their heartbeat       *)
(* lapses.  The sweep runs every RECLAIM_SWEEP_INTERVAL on every pod.      *)
(* Time passes.  That some attempt is the last one is not assumed.         *)
(***************************************************************************)
EndBody(c) == OpRequeue(c) \/ \E outcome \in {"done", "failed"} : OpFinish(c, outcome)

Fairness ==
  /\ \A s \in Session : WF_vars(\E p \in Pod : ClaimHeadBegin(p, s))
  /\ \A i \in OpId :
       /\ WF_vars(\E t \in txs : t.op = i /\ Commit(t))
       /\ WF_vars(\E c \in held : c.op = i /\ EndBody(c))
       /\ WF_vars(\E c \in held : c.op = i /\ WakeSibling(c))
       /\ WF_vars(\E p \in Pod : ReclaimStale(p, i))
       /\ WF_vars(BackoffElapses(i))
       /\ WF_vars(~Driven(i) /\ HeartbeatLapses(i))

LiveSpec == Spec /\ Fairness

-----------------------------------------------------------------------------
(* Properties                                                              *)

(* Types of the tables, the open transactions and the claims of            *)
(* session_ops.rs and op_enqueue_tx.                                       *)
TypeOK ==
  /\ epoch \in [Session -> Nat]
  /\ row \in [Session -> Nat]
  /\ ops \in [OpId -> OpRow]
  /\ due \subseteq OpId /\ fresh \subseteq OpId /\ flagged \subseteq OpId
  /\ nextId \in 1 .. MaxOp + 1
  /\ txs \subseteq Tx
  /\ held \subseteq Claim
  /\ crashes \in 0 .. MaxCrash

(* The claim paths (enqueue, head, exclusive, reclaim), racing on several  *)
(* pods, never leave two running ops in one session's lane.                *)
OneRunning ==
  \A i, j \in OpId :
    /\ ops[i].state = "running" /\ ops[j].state = "running"
    /\ ops[i].session = ops[j].session
    => i = j

(* The running op's epoch is the session's current_epoch: a claim that     *)
(* loses its race, or a requeue, never leaves the running executor fenced  *)
(* out of its own session row.                                             *)
RunningHoldsEpoch ==
  \A i \in OpId :
    ops[i].state = "running" => ops[i].epoch = epoch[ops[i].session]

(* The two fences agree.  An executor that still passes the fence of the   *)
(* session row (current_epoch) also passes the fence of its op row: no     *)
(* executor writes the session for an op that was finished, requeued or    *)
(* reclaimed under it.                                                     *)
FencesAgree ==
  \A c \in held :
    Driving(c) /\ c.epoch = epoch[ops[c.op].session]
    => ops[c.op].state = "running" /\ ops[c.op].epoch = c.epoch

(* Single writer: of all the executors of all pods that believe they drive *)
(* the session, superseded ones included, at most one passes the fence of  *)
(* the session row.                                                        *)
SingleWriter ==
  \A c, d \in held :
    /\ ops[c.op].session = ops[d.op].session
    /\ c.epoch = epoch[ops[c.op].session]
    /\ d.epoch = epoch[ops[d.op].session]
    => c = d

(* At most one active op per (session, kind, idempotency key), whatever    *)
(* enqueues race.                                                          *)
KeysUnique ==
  \A i, j \in OpId :
    /\ ops[i].state \in Active /\ ops[j].state \in Active
    /\ ops[i].session = ops[j].session /\ ops[i].kind = ops[j].kind
    /\ ops[i].key = ops[j].key /\ ops[i].key # NoKey
    => i = j

(* A superseded executor never writes after its successor did: neither the *)
(* session row nor an op's step marker is ever taken back to the hand of   *)
(* an older claim.                                                         *)
SuccessorKept ==
  /\ \A s \in Session : row'[s] >= row[s]
  /\ \A i \in OpId : ops[i].state \in Active => ops'[i].step >= ops[i].step
NoWriteAfterSuccessor == [][SuccessorKept]_vars

(* A finished op stays exactly as it finished: no late finish, requeue,    *)
(* step, cancel or reclaim of a superseded executor reopens or relabels it.*)
FinishedKept == \A i \in OpId : ops[i].state \in Terminal => ops'[i] = ops[i]
FinishedIsFinal == [][FinishedKept]_vars

(* The op log implements the abstract lane: whatever the pods do, every    *)
(* fenced write of a session row is made while its op runs in the lane and *)
(* under the lane's latest epoch, and a lane is granted only when free.    *)
Holder == [s \in Session |-> Running(s)]
Lane == INSTANCE SessionLane WITH
          Op <- OpId, holder <- Holder, current <- epoch, written <- row
LaneRefinement == Lane!LaneSpec

(* Every op that is committed to the log is tried again and again until it *)
(* reaches a terminal state: no crash between claim, finish and re-drive,  *)
(* no lost race and no superseded executor leaves it running or waiting    *)
(* for ever.  drive_one requeues without a budget, so an op need not end;  *)
(* what is claimed is that it ends or uses up the attempts of the model.   *)
UsedUp(i) == ops[i].state = "queued" /\ ops[i].attempts >= MaxAttempts
TriedUntilEnded ==
  \A i \in OpId :
    ops[i].state \in Active ~> ops[i].state \in Terminal \/ UsedUp(i)

=============================================================================
