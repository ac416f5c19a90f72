----------------------------- MODULE Placement -----------------------------
(***************************************************************************)
(* How a session gets its place on a host: the create request that picks a *)
(* host and inserts the row, the queue of what did not fit and the sweeps  *)
(* of its scanners, the boots of a placed session, and the resume that     *)
(* looks for room without reserving it.                                    *)
(*                                                                         *)
(* A pick is a transaction that locks its candidates one row at a time, in *)
(* the order of their keys, and sums the budgets that the sessions table   *)
(* reserves on them.  Each action is one statement, one transaction or one *)
(* call.  Time is abstract: a session's stay in the queue may get older    *)
(* than the timeout at any moment, and a pending row older than the grace  *)
(* of the backstop.                                                        *)
(***************************************************************************)
EXTENDS Integers, Sequences, FiniteSets

CONSTANTS Sessions,
          Hosts,        \* host ids, numbers: the order of their keys
          Scanners,     \* the coordinator replicas' queue scanners
          Slots,        \* executors of create_boot ops of one session
          Direct,       \* the boot task of the create request
          Resumed,      \* stands for the sandbox of a resume
          None,
          Need,         \* [Sessions -> [mem, cpu]]: the budget columns
          Room,         \* [Hosts -> [mem, cpu]]: allocatable_mib, CPU budget; 0 is unmeasured
          Up,           \* the hosts that are schedulable at the start
          Sizes,        \* what a heartbeat may report as allocatable_mib
          MaxResume,    \* requests that resume an idle session
          MaxFault      \* deaths, lapsed leases, failed statements, cordons, retried boots

Budget == [mem : Nat, cpu : Nat]

ASSUME PlacementAssumption ==
  /\ Hosts \subseteq Nat /\ IsFiniteSet(Hosts) /\ IsFiniteSet(Sessions)
  /\ Sessions \intersect Scanners = {}
  /\ Direct \notin Slots /\ Resumed \notin Slots \union {Direct}
  /\ None \notin Hosts \union Slots \union {Direct, Resumed}
  /\ Need \in [Sessions -> Budget] /\ Room \in [Hosts -> Budget]
  /\ Up \subseteq Hosts /\ Sizes \subseteq Nat
  /\ MaxResume \in Nat /\ MaxFault \in Nat

VARIABLES
  row,      \* sessions: status, host_id, sandbox_id (the boot that made it), queue_origin
  queue,    \* the queued sessions by queued_at
  late,     \* the queued sessions whose stay exceeds the timeout
  hosts,    \* hosts: schedulable or not, allocatable_mib, CPU budget
  tx,       \* the open transaction of each placer
  sweep,    \* [Scanners -> sequence of entries]: what is left of a sweep's listing
  at,       \* [Scanners -> where it is with the entry at the front]
  boot,     \* [Sessions -> [Boots -> where that boot pipeline is]]
  op,       \* [Sessions -> its create_boot ops]
  resume,   \* [Sessions -> its Resume op and the host it restored on]
  resumes, faults

vars  == <<row, queue, late, hosts, tx, sweep, at, boot, op, resume, resumes, faults>>
table == <<row, queue, late>>
scan  == <<sweep, at>>
ops   == <<boot, op>>
asked == <<resume, resumes>>

Placers == Sessions \union Scanners
Boots   == Slots \union {Direct}
Keys    == {"boot", "recover"}

Reserving == {"pending", "created", "active"}
Status    == Reserving \union {"new", "queued", "idle", "over", "deleted"}

Entry == [sess : Sessions, origin : {"create", "resume"}, late : BOOLEAN]

NoTx   == [phase |-> "off", todo |-> {}, held |-> {}, host |-> None]
NewRow == [st |-> "new", host |-> None, vm |-> None, origin |-> "create", booked |-> FALSE]
NoOp   == [want |-> {}, run |-> None, key |-> "boot"]
NoResume == [pc |-> "off", host |-> None]

Init ==
  /\ row = [s \in Sessions |-> NewRow] /\ queue = <<>> /\ late = {}
  /\ hosts = [h \in Hosts |-> [up |-> h \in Up, mem |-> Room[h].mem, cpu |-> Room[h].cpu]]
  /\ tx = [t \in Placers |-> NoTx]
  /\ sweep = [r \in Scanners |-> <<>>] /\ at = [r \in Scanners |-> "next"]
  /\ boot = [s \in Sessions |-> [b \in Boots |-> "off"]]
  /\ op = [s \in Sessions |-> NoOp]
  /\ resume = [s \in Sessions |-> NoResume]
  /\ resumes = 0 /\ faults = 0

Fault == faults < MaxFault /\ faults' = faults + 1
-----------------------------------------------------------------------------
(* The budgets.                                                            *)

\* The sum of a budget over a set of sessions, as the number of its units.
Load(S, d) == Cardinality(UNION {{s} \X (1..Need[s][d]) : s \in S})

On(h)     == {s \in Sessions : row[s].st \in Reserving /\ row[s].host = h}
Booked(h) == {s \in On(h) : row[s].booked}

Free(h, d)    == hosts[h][d] - Load(On(h), d)
CpuFits(h, s) == hosts[h].cpu = 0 \/ Free(h, "cpu") >= Need[s].cpu
Unmeasured(h) == hosts[h].mem = 0
Fits(h, s)    == ~Unmeasured(h) /\ Free(h, "mem") >= Need[s].mem /\ CpuFits(h, s)

\* best_fit_measured: the measured host with the least memory that suffices.
BestFit(S, s) == {h \in S : /\ Fits(h, s)
                            /\ \A g \in S : Fits(g, s) => Free(h, "mem") <= Free(g, "mem")}

\* choose_placement_host: what it may choose, by the order of the candidates.
ChoosePlacementHost(S, s) ==
  IF BestFit(S, s) # {} THEN BestFit(S, s) ELSE {h \in S : Unmeasured(h)}

Schedulable == {h \in Hosts : hosts[h].up}

PlacementPreview(s) == \E h \in Schedulable : Unmeasured(h) \/ Fits(h, s)

\* pick_from: the snapshot's host if it has room, else best fit, else any host.
PickFrom(s) ==
  LET mine == {h \in Schedulable : /\ h = row[s].host /\ CpuFits(h, s)
                                   /\ Unmeasured(h) \/ Free(h, "mem") >= Need[s].mem}
  IN CASE mine # {}                    -> mine
       [] BestFit(Schedulable, s) # {} -> BestFit(Schedulable, s)
       [] OTHER                        -> Schedulable
-----------------------------------------------------------------------------
(* Writes of the sessions table.                                           *)

Index(s) == CHOOSE i \in 1..Len(queue) : queue[i] = s
Queued   == {queue[i] : i \in 1..Len(queue)}

\* Mutant: the row turns terminal or pending and stays in the queue.
LeavesListed(s) == late' = late \ {s} /\ UNCHANGED queue
Leaves(s) ==
  /\ queue' = IF s \notin Queued THEN queue
              ELSE SubSeq(queue, 1, Index(s) - 1) \o SubSeq(queue, Index(s) + 1, Len(queue))
  /\ late' = late \ {s}

\* transition_session(Failed) and its two dispositions.
MayFail(s)      == row[s].st \in {"pending", "created", "active", "queued"}
FailUnbound(s)  == MayFail(s) /\ row[s].vm = None
Over(s)         == row' = [row EXCEPT ![s] = [NewRow EXCEPT !.st = "over"]] /\ Leaves(s)
FailOrNot(s, b) == IF b THEN Over(s) ELSE UNCHANGED table

Enqueues(s, origin) ==
  /\ row' = [row EXCEPT ![s].st = "queued", ![s].origin = origin]
  /\ queue' = Append(queue, s) /\ UNCHANGED late
-----------------------------------------------------------------------------
(* The pick: pick_host_2d inside the transactions of its callers.          *)

Open(t) == tx' = [tx EXCEPT ![t] = [NoTx EXCEPT !.phase = "lock", !.todo = Schedulable]]

\* Mutant: rows are locked in the order of each placer's own candidates.
NextRowRanked(t, h) == \A g \in tx[t].todo : IF t \in Scanners THEN h >= g ELSE h <= g
\* FOR UPDATE after ORDER BY id: the least row is next, and waits for its holder.
NextRow(t, h) == \A g \in tx[t].todo : h <= g
\* Mutant: the rows are read without FOR UPDATE.
Shared(h)   == TRUE
Unlocked(h) == \A t \in Placers : h \notin tx[t].held
LockHost(t) ==
  /\ tx[t].phase = "lock"
  /\ \E h \in tx[t].todo :
     /\ NextRow(t, h) /\ Unlocked(h)
     /\ tx' = [tx EXCEPT ![t].todo = @ \ {h},
                         ![t].held = IF hosts[h].up THEN @ \union {h} ELSE @]
  /\ UNCHANGED <<table, hosts, scan, ops, asked, faults>>

Ready(t)      == tx[t].phase = "lock" /\ tx[t].todo = {}
Picks(t, h)   == tx' = [tx EXCEPT ![t].phase = "commit", ![t].host = h]
Close(t)      == tx' = [tx EXCEPT ![t] = NoTx]

\* A heartbeat or an operator writes a host's row: not while a pick holds it.
Cordon(h) ==
  /\ hosts[h].up /\ Unlocked(h) /\ Fault
  /\ hosts' = [hosts EXCEPT ![h].up = FALSE]
  /\ UNCHANGED <<table, tx, scan, ops, asked>>
Uncordon(h) ==
  /\ ~hosts[h].up /\ Unlocked(h)
  /\ hosts' = [hosts EXCEPT ![h].up = TRUE]
  /\ UNCHANGED <<table, tx, scan, ops, asked, faults>>
Measure(h) ==
  /\ Fault /\ Unlocked(h)
  /\ \E n \in Sizes \ {hosts[h].mem} : hosts' = [hosts EXCEPT ![h].mem = n]
  /\ UNCHANGED <<table, tx, scan, ops, asked>>
-----------------------------------------------------------------------------
(* The create request: boot_prepared and reserve_and_persist_create.       *)

CreateOpen(s) ==
  /\ row[s].st = "new" /\ tx[s].phase = "off"
  /\ Open(s)
  /\ UNCHANGED <<table, hosts, scan, ops, asked, faults>>

CreatePick(s) ==
  /\ Ready(s)
  /\ LET c == ChoosePlacementHost(tx[s].held, s)
     IN \E h \in IF c = {} THEN {None} ELSE c : Picks(s, h)
  /\ UNCHANGED <<table, hosts, scan, ops, asked, faults>>

\* The row and its satellites commit, and the boot is spawned.
CreatePlaced(s) ==
  /\ tx[s].phase = "commit" /\ tx[s].host # None
  /\ row' = [row EXCEPT ![s].st = "pending", ![s].host = tx[s].host, ![s].booked = TRUE]
  /\ boot' = [boot EXCEPT ![s][Direct] = "restore"]
  /\ Close(s)
  /\ UNCHANGED <<queue, late, hosts, scan, op, asked, faults>>

CreateQueued(s) ==
  /\ tx[s].phase = "commit" /\ tx[s].host = None
  /\ Enqueues(s, "create") /\ Close(s)
  /\ UNCHANGED <<hosts, scan, ops, asked, faults>>

\* The transaction or its process fails, and it rolls back.
CreateFails(s) ==
  /\ tx[s].phase # "off" /\ Fault /\ Close(s)
  /\ UNCHANGED <<table, hosts, scan, ops, asked>>
-----------------------------------------------------------------------------
(* A sweep of the queue: run_once.                                         *)

\* The 30 minutes of ENGRAM_QUEUE_TIMEOUT_SECS are over, for the oldest first.
Age(s) ==
  /\ s \in Queued \ late
  /\ \A q \in Queued : Index(q) < Index(s) => q \in late
  /\ late' = late \union {s}
  /\ UNCHANGED <<row, queue, hosts, tx, scan, ops, asked, faults>>

\* partition_queue: by class, a class at the turn of its oldest member.
Class(s) == {q \in Queued : Need[q] = Need[s]}
Older(q, s) == \/ /\ Class(q) = Class(s) /\ Index(q) < Index(s)
               \/ \E p \in Class(q) \ Class(s) : \A c \in Class(s) : Index(p) < Index(c)
Partitioned(p) == \A i, j \in 1..Len(queue) : i < j => Older(p[i], p[j])
StartSweep(r) ==
  /\ sweep[r] = <<>> /\ queue # <<>>
  /\ \E p \in [1..Len(queue) -> Queued] :
     /\ Partitioned(p)
     /\ sweep' = [sweep EXCEPT ![r] = [i \in 1..Len(queue) |->
          [sess |-> p[i], origin |-> row[p[i]].origin, late |-> p[i] \in late]]]
  /\ UNCHANGED <<table, hosts, tx, at, ops, asked, faults>>

Front(r)    == Head(sweep[r])
At(r, step, origin) ==
  /\ sweep[r] # <<>> /\ at[r] = step /\ tx[r].phase = "off"
  /\ Front(r).origin = origin
Sess(r)     == Front(r).sess
\* The age of the stay that was listed; a later stay is younger.
TooOld(r)      == Front(r).late \/ Sess(r) \in late
Now(r, origin) == At(r, "next", origin) /\ ~TooOld(r)

Goes(r, step)     == at' = [at EXCEPT ![r] = step] /\ UNCHANGED sweep
Left(r, entries)  == /\ sweep' = [sweep EXCEPT ![r] = entries]
                     /\ at' = [at EXCEPT ![r] = "next"]
SkipEntry(r)      == Left(r, Tail(sweep[r]))
StopSweep(r)      == Left(r, <<>>)
\* What is left of the class of the front stands before the other classes.
ClassLeft(r) == {i \in 1..Len(sweep[r]) : Need[sweep[r][i].sess] = Need[Sess(r)]}
StopClass(r) == Left(r, SubSeq(sweep[r], Cardinality(ClassLeft(r)) + 1, Len(sweep[r])))

\* transition_session(Idle, RequireUnbound) from the queue.
ToIdle(s) == IF row[s].st = "queued"
             THEN row' = [row EXCEPT ![s].st = "idle"] /\ Leaves(s)
             ELSE UNCHANGED table

\* time_out_session: each arm is a transition from whatever the status is by now.
TimeOutCreate(r) ==
  /\ At(r, "next", "create") /\ TooOld(r)
  /\ FailOrNot(Sess(r), FailUnbound(Sess(r))) /\ SkipEntry(r)
  /\ UNCHANGED <<hosts, tx, ops, asked, faults>>
TimeOutResume(r) ==
  /\ At(r, "next", "resume") /\ TooOld(r)
  /\ ToIdle(Sess(r)) /\ SkipEntry(r)
  /\ UNCHANGED <<hosts, tx, ops, asked, faults>>

\* fail_queued_create_image_gone: the image was disabled in the meantime.
ImageGone(r) ==
  /\ Now(r, "create")
  /\ FailOrNot(Sess(r), FailUnbound(Sess(r))) /\ SkipEntry(r)
  /\ UNCHANGED <<hosts, tx, ops, asked, faults>>

\* place_create: the candidates; an empty set is NoCapacity without a transaction.
PlaceOpen(r) ==
  /\ Now(r, "create") /\ Schedulable # {}
  /\ Open(r)
  /\ UNCHANGED <<table, hosts, scan, ops, asked, faults>>
PlaceNowhere(r) ==
  /\ Now(r, "create") /\ Schedulable = {}
  /\ StopClass(r)
  /\ UNCHANGED <<table, hosts, tx, ops, asked, faults>>

PlacePick(r) ==
  /\ Ready(r)
  /\ LET c == ChoosePlacementHost(tx[r].held, Sess(r)) IN
     \/ /\ \E h \in c : Picks(r, h)
        /\ UNCHANGED scan
     \/ c = {} /\ Close(r) /\ StopClass(r)
  /\ UNCHANGED <<table, hosts, ops, asked, faults>>

\* The flip queued to pending; no row means that a sibling was faster.
PlaceCommit(r) ==
  /\ tx[r].phase = "commit"
  /\ LET s == Sess(r) IN
     \/ /\ row[s].st = "queued"
        /\ row' = [row EXCEPT ![s].st = "pending", ![s].host = tx[r].host, ![s].booked = TRUE]
        /\ Leaves(s) /\ Goes(r, "boot")
     \/ row[s].st # "queued" /\ StopClass(r) /\ UNCHANGED table
  /\ Close(r)
  /\ UNCHANGED <<hosts, ops, asked, faults>>

EnqueueBootOp(r) ==
  /\ At(r, "boot", "create")
  /\ op' = [op EXCEPT ![Sess(r)].want = @ \union {"boot"}]
  /\ SkipEntry(r)
  /\ UNCHANGED <<table, hosts, tx, boot, asked, faults>>

\* resume_has_capacity: Fits, NoFit and NoHost.
ResumeHasCapacity(r) ==
  /\ Now(r, "resume")
  /\ \/ Schedulable = {} /\ StopSweep(r)
     \/ Schedulable # {} /\ ~PlacementPreview(Sess(r)) /\ StopClass(r)
     \/ PlacementPreview(Sess(r)) /\ Goes(r, "dequeue")
  /\ UNCHANGED <<table, hosts, tx, ops, asked, faults>>

DequeueResume(r) ==
  /\ At(r, "dequeue", "resume")
  /\ ToIdle(Sess(r))
  /\ IF row[Sess(r)].st = "queued" THEN Goes(r, "resume") ELSE SkipEntry(r)
  /\ UNCHANGED <<hosts, tx, ops, asked, faults>>

EnqueueResumeOp(r) ==
  /\ At(r, "resume", "resume")
  /\ resume' = [resume EXCEPT ![Sess(r)].pc = IF @ = "off" THEN "queued" ELSE @]
  /\ SkipEntry(r)
  /\ UNCHANGED <<table, hosts, tx, ops, resumes, faults>>

\* A statement of the sweep fails (the entry is skipped), or its process dies.
ScanFails(r) ==
  /\ sweep[r] # <<>> /\ Fault /\ Close(r)
  /\ SkipEntry(r) \/ StopSweep(r)
  /\ UNCHANGED <<table, hosts, ops, asked>>
-----------------------------------------------------------------------------
(* The boot of a placed session: boot_on_reserved_host and what its two    *)
(* callers make of its end, the request's task and create_boot.  Of the op *)
(* log this takes that one op of a session runs at a time and that an      *)
(* overtaken executor may be alive but fenced.                             *)

Moves(s, b, pc) == boot' = [boot EXCEPT ![s][b] = pc]

\* What ctx.step and transition_with_fence refuse.
Fenced(s, b) == b # Direct /\ op[s].run # b

\* The op of the executor b is queued again; or it is done, or failed for good.
OpWaits(s) == op' = [op EXCEPT ![s].run = None, ![s].key = "boot"]
OpEnds(s, b) ==
  op' = IF op[s].run # b THEN op
        ELSE [op EXCEPT ![s].run = None, ![s].key = "boot", ![s].want = @ \ {op[s].key}]

\* A fenced or unfenced Failed that detaches; the statement may fail.
BootFailed(s, b) ==
  \/ FailOrNot(s, MayFail(s) /\ ~Fenced(s, b)) /\ UNCHANGED faults
  \/ Fault /\ UNCHANGED table

\* BootError::NotStarted: the request deletes its reservation, the op tries
\* again (create_boot_retry_or_fail) until CREATE_BOOT_MAX_ATTEMPTS is used up,
\* which may be now.
MayDelete(s) == row[s].st = "pending" /\ row[s].vm = None
Delete(s) == row' = IF MayDelete(s) THEN [row EXCEPT ![s] = [NewRow EXCEPT !.st = "deleted"]]
                    ELSE row
NotStarted(s, b) ==
  \/ /\ b = Direct
     /\ Delete(s) /\ UNCHANGED <<queue, late, op, faults>>
  \/ /\ Fenced(s, b)
     /\ UNCHANGED <<table, op, faults>>
  \/ op[s].run = b /\ OpWaits(s) /\ Fault /\ UNCHANGED table
  \/ op[s].run = b /\ BootFailed(s, b) /\ OpEnds(s, b)

\* Mutant: any row not yet active is bound.
MayBindAgain(s) == row[s].st \in {"pending", "created"}
\* restore_base_on_host, then transition_session_created: only a pending row is
\* bound, and a boot that finds another tears its sandbox down.
MayBind(s) == row[s].st = "pending"
RestoreAndBind(s, b) ==
  /\ boot[s][b] = "restore"
  /\ \/ /\ MayBind(s)
        /\ row' = [row EXCEPT ![s].st = "created", ![s].vm = b]
        /\ Moves(s, b, "bound") /\ UNCHANGED <<queue, late, op, faults>>
     \/ NotStarted(s, b) /\ Moves(s, b, "off")
  /\ UNCHANGED <<hosts, tx, scan, asked>>

\* start_agent, then Created to Active, a transition that keeps the binding and
\* has no fence.  What fails from here on is BootError::Started.
StartAgent(s, b) ==
  /\ boot[s][b] = "bound" /\ Moves(s, b, "off") /\ OpEnds(s, b)
  /\ \/ /\ row[s].st \in {"created", "idle"}
        /\ row' = [row EXCEPT ![s].st = "active"] /\ UNCHANGED <<queue, late, faults>>
     \/ BootFailed(s, b)
  /\ UNCHANGED <<hosts, tx, scan, asked>>

\* The pod of the request dies, with the boot at any point.
DirectDies(s) ==
  /\ boot[s][Direct] # "off" /\ Fault
  /\ Moves(s, Direct, "off")
  /\ UNCHANGED <<table, hosts, tx, scan, op, asked>>
-----------------------------------------------------------------------------
(* The create_boot op.                                                     *)

\* Mutant: the sweep looks for orphans among the rows that are bound.
BackstopBound(s) ==
  /\ row[s].st = "created" /\ op[s].want = {}
  /\ op' = [op EXCEPT ![s].want = {"recover"}]
  /\ UNCHANGED <<table, hosts, tx, scan, boot, asked, faults>>
\* The pending-orphan backstop of the reclaim sweep, after PENDING_ORPHAN_GRACE.
Backstop(s) ==
  /\ row[s].st = "pending" /\ op[s].want = {}
  /\ op' = [op EXCEPT ![s].want = {"recover"}]
  /\ UNCHANGED <<table, hosts, tx, scan, boot, asked, faults>>

LaneFree(s) == op[s].run = None /\ resume[s].pc \in {"off", "queued"}

\* An executor takes the op and reads the session: boot it, condemn what is
\* Created, or there is nothing to do.
CreateBoot(s, k, b) ==
  /\ LaneFree(s) /\ k \in op[s].want /\ boot[s][b] = "off"
  /\ \/ /\ row[s].st \in {"pending", "created"}
        /\ op' = [op EXCEPT ![s].run = b, ![s].key = k]
        /\ Moves(s, b, IF row[s].st = "pending" THEN "restore" ELSE "condemn")
     \/ /\ row[s].st \notin {"pending", "created"}
        /\ op' = [op EXCEPT ![s].want = @ \ {k}]
        /\ UNCHANGED boot
  /\ UNCHANGED <<table, hosts, tx, scan, asked, faults>>

\* Past created there is no retry.
Condemn(s, b) ==
  /\ boot[s][b] = "condemn"
  /\ BootFailed(s, b) /\ OpEnds(s, b) /\ Moves(s, b, "off")
  /\ UNCHANGED <<hosts, tx, scan, asked>>

\* The executor dies, or lives on past its heartbeat; the op is reclaimed.
BootLapses(s) ==
  /\ op[s].run # None /\ Fault
  /\ OpWaits(s)
  /\ Moves(s, op[s].run, "off") \/ UNCHANGED boot
  /\ UNCHANGED <<table, hosts, tx, scan, asked>>
-----------------------------------------------------------------------------
(* The Resume op, as far as it looks for a place.                          *)

Asks(s, pc) == resume' = [resume EXCEPT ![s].pc = pc]

RequestResume(s) ==
  /\ row[s].st = "idle" /\ resume[s].pc = "off" /\ resumes < MaxResume
  /\ Asks(s, "queued") /\ resumes' = resumes + 1
  /\ UNCHANGED <<table, hosts, tx, scan, ops, faults>>

\* The preview reads hosts and reservations and keeps no lock.
ResumePreview(s) ==
  /\ resume[s].pc = "queued" /\ LaneFree(s)
  /\ \/ row[s].st = "idle" /\ PlacementPreview(s) /\ Asks(s, "pick") /\ UNCHANGED faults
     \/ row[s].st = "idle" /\ ~PlacementPreview(s) /\ Asks(s, "enqueue") /\ UNCHANGED faults
     \/ row[s].st = "idle" /\ Fault /\ Asks(s, "pick")
     \/ row[s].st # "idle" /\ Asks(s, "off") /\ UNCHANGED faults
  /\ UNCHANGED <<table, hosts, tx, scan, ops, resumes>>

EnqueueSessionResume(s) ==
  /\ resume[s].pc = "enqueue"
  /\ IF row[s].st = "idle" THEN Enqueues(s, "resume") ELSE UNCHANGED table
  /\ Asks(s, "off")
  /\ UNCHANGED <<hosts, tx, scan, ops, resumes, faults>>

\* restore_for_session picks from a new read and restores there.
RestoreForSession(s) ==
  /\ resume[s].pc = "pick"
  /\ \/ \E h \in PickFrom(s) : resume' = [resume EXCEPT ![s] = [pc |-> "restored", host |-> h]]
     \/ Schedulable = {} /\ Asks(s, "queued")
  /\ UNCHANGED <<table, hosts, tx, scan, ops, resumes, faults>>

ResumeToActive(s) ==
  /\ resume[s].pc = "restored"
  /\ row' = IF row[s].st # "idle" THEN row
            ELSE [row EXCEPT ![s].st = "active", ![s].host = resume[s].host,
                             ![s].vm = Resumed, ![s].booked = FALSE]
  /\ resume' = [resume EXCEPT ![s] = NoResume]
  /\ UNCHANGED <<queue, late, hosts, tx, scan, ops, resumes, faults>>

ResumeFails(s) ==
  /\ resume[s].pc # "off" /\ Fault
  /\ resume' = [resume EXCEPT ![s] = NoResume]
  /\ UNCHANGED <<table, hosts, tx, scan, ops, resumes>>
-----------------------------------------------------------------------------
(* What frees a place: an eviction, here in one step, and the destroy op.  *)

Evict(s) ==
  /\ row[s].st = "active" /\ LaneFree(s)
  /\ row' = [row EXCEPT ![s].st = "idle", ![s].vm = None, ![s].booked = FALSE]
  /\ UNCHANGED <<queue, late, hosts, tx, scan, ops, asked, faults>>

Destroy(s) ==
  /\ row[s].st \in Reserving \union {"queued", "idle"} /\ LaneFree(s)
  /\ Over(s)
  /\ UNCHANGED <<hosts, tx, scan, ops, asked, faults>>
-----------------------------------------------------------------------------
\* The processes, each without what may befall it: the request with its boot
\* task, a scanner, and the op lane of a session with all its executors.
Boot(s, b) == RestoreAndBind(s, b) \/ StartAgent(s, b) \/ Condemn(s, b)
Request(s) == LockHost(s) \/ CreatePick(s) \/ CreatePlaced(s) \/ CreateQueued(s) \/ Boot(s, Direct)
Scan(r)    == \/ LockHost(r) \/ StartSweep(r) \/ TimeOutCreate(r) \/ TimeOutResume(r)
              \/ ImageGone(r) \/ PlaceOpen(r) \/ PlaceNowhere(r) \/ PlacePick(r)
              \/ PlaceCommit(r) \/ EnqueueBootOp(r) \/ ResumeHasCapacity(r)
              \/ DequeueResume(r) \/ EnqueueResumeOp(r)
Resume(s)  == \/ ResumePreview(s) \/ EnqueueSessionResume(s)
              \/ RestoreForSession(s) \/ ResumeToActive(s)
Lane(s)    == \/ \E b \in Slots : Boot(s, b) \/ \E k \in Keys : CreateBoot(s, k, b)
              \/ Resume(s)

Next ==
  \/ \E h \in Hosts : Cordon(h) \/ Uncordon(h) \/ Measure(h)
  \/ \E r \in Scanners : Scan(r) \/ ScanFails(r)
  \/ \E s \in Sessions :
       \/ CreateOpen(s) \/ Request(s) \/ CreateFails(s) \/ DirectDies(s)
       \/ Age(s) \/ Backstop(s) \/ Lane(s) \/ BootLapses(s)
       \/ RequestResume(s) \/ ResumeFails(s) \/ Evict(s) \/ Destroy(s)

\* Fairness: requests, scanners and lanes run on while their process lives, the
\* backstop is a timer, and time passes.  Nothing makes a host schedulable, ends
\* a session or resumes it.
Spec ==
  /\ Init /\ [][Next]_vars
  /\ \A r \in Scanners : WF_vars(Scan(r))
  /\ \A s \in Sessions : WF_vars(Request(s)) /\ WF_vars(Lane(s)) /\ WF_vars(Backstop(s))
  /\ WF_vars(\E s \in Sessions : Age(s))
-----------------------------------------------------------------------------
\* The type invariant; the queue is an order of the rows whose status is queued.
TypeOK ==
  /\ row \in [Sessions -> [st : Status, host : Hosts \union {None},
                           vm : Boots \union {Resumed, None},
                           origin : {"create", "resume"}, booked : BOOLEAN]]
  /\ queue \in Seq(Sessions) /\ late \subseteq Queued
  /\ Queued = {s \in Sessions : row[s].st = "queued"} /\ Len(queue) = Cardinality(Queued)
  /\ hosts \in [Hosts -> [up : BOOLEAN, mem : Nat, cpu : Nat]]
  /\ tx \in [Placers -> [phase : {"off", "lock", "commit"}, todo : SUBSET Hosts,
                         held : SUBSET Hosts, host : Hosts \union {None}]]
  /\ sweep \in [Scanners -> Seq(Entry)]
  /\ at \in [Scanners -> {"next", "boot", "dequeue", "resume"}]
  /\ boot \in [Sessions -> [Boots -> {"off", "restore", "bound", "condemn"}]]
  /\ op \in [Sessions -> [want : SUBSET Keys, run : Slots \union {None}, key : Keys]]
  /\ resume \in [Sessions -> [pc : {"off", "queued", "pick", "enqueue", "restored"},
                              host : Hosts \union {None}]]
  /\ resumes \in 0..MaxResume /\ faults \in 0..MaxFault

\* The wait of pick_host_2d for a host row that another transaction holds.
Blocked(t) == \E h \in tx[t].todo : tx[t].phase = "lock" /\ NextRow(t, h) /\ ~Unlocked(h)

\* Placers that lock several host rows one after the other (creates, scanners)
\* never all wait for each other: while one waits, one that holds a row goes on.
SomePickGoesOn ==
  (\E t \in Placers : Blocked(t)) => \E u \in Placers : tx[u].held # {} /\ ~Blocked(u)

\* What the placers have booked on h is within its budgets.  A host that has
\* not measured its memory has none, whatever it says of its cores.
Within(h) ==
  \/ Unmeasured(h)
  \/ /\ Load(Booked(h), "mem") <= hosts[h].mem
     /\ hosts[h].cpu = 0 \/ Load(Booked(h), "cpu") <= hosts[h].cpu

\* A reservation that a create or a scanner commits (pick_host_2d up to the
\* commit of its transaction) is on a host that is still schedulable, and
\* leaves everything booked there within the host's budgets: no other placer,
\* heartbeat or cordon comes between the sum and the commit.
CommitsFit ==
  [][\A s \in Sessions, h \in Hosts :
       row[s].st \notin Reserving /\ row'[s].st = "pending" /\ row'[s].host = h
         => hosts[h].up /\ Within(h)']_vars

\* Of the boots of one session that overlap (the request's task, a create_boot
\* revived by the backstop, a reclaimed executor) the first to bind keeps the
\* row: transition_session_created and delete_pending_session of the others
\* leave the binding alone, which ends only as the session goes idle or ends.
FirstBootWins ==
  [][\A s \in Sessions : row[s].vm # None =>
       \/ row'[s].vm = row[s].vm /\ row'[s].st \in {"created", "active"}
       \/ row'[s].vm = None /\ row'[s].st \in {"idle", "over"}]_vars

\* A queued session leaves the queue and a placed one is booted or failed,
\* although hosts may stay full or cordoned, placers wait for each other's row
\* locks, and a crash may fall between the flip to pending and the enqueue of
\* its create_boot.
Waits(s) == row[s].st \in {"queued", "pending"}
AdmissionEnds == \A s \in Sessions : Waits(s) ~> ~Waits(s)
============================================================================
