-------------------------- MODULE PlacementProofs --------------------------
(***************************************************************************)
(* Proofs about Placement for any number of sessions, hosts, scanners,     *)
(* executors, resumes and faults, and for any budgets.                     *)
(***************************************************************************)
EXTENDS Placement, FiniteSetTheorems, SequenceTheorems, WellFoundedInduction, TLAPS

RowType    == [st : Status, host : Hosts \union {None}, vm : Boots \union {Resumed, None},
               origin : {"create", "resume"}, booked : BOOLEAN]
HostType   == [up : BOOLEAN, mem : Nat, cpu : Nat]
TxType     == [phase : {"off", "lock", "commit"}, todo : SUBSET Hosts,
               held : SUBSET Hosts, host : Hosts \union {None}]
OpType     == [want : SUBSET Keys, run : Slots \union {None}, key : Keys]
ResumeType == [pc : {"off", "queued", "pick", "enqueue", "restored"},
               host : Hosts \union {None}]

(* The session that a placer looks for a host for.                         *)
Placee(t) == IF t \in Sessions THEN t ELSE Sess(t)

(* The parts of the inductive invariant.  The queue is an order, without   *)
(* repetition, of the rows that are queued.                                *)
RowsOK  == row \in [Sessions -> RowType]
QueueOK == /\ queue \in Seq(Sessions) /\ late \subseteq Queued
           /\ Queued = {s \in Sessions : row[s].st = "queued"}
           /\ \A i, j \in 1..Len(queue) : queue[i] = queue[j] => i = j
HostsOK == hosts \in [Hosts -> HostType]
TxOK    == tx \in [Placers -> TxType]
ScanOK  == sweep \in [Scanners -> Seq(Entry)]
           /\ at \in [Scanners -> {"next", "boot", "dequeue", "resume"}]
LaneOK  == boot \in [Sessions -> [Boots -> {"off", "restore", "bound", "condemn"}]]
           /\ op \in [Sessions -> OpType]
AskedOK == resume \in [Sessions -> ResumeType] /\ resumes \in 0..MaxResume
FaultsOK == faults \in 0..MaxFault
ShapeOK == RowsOK /\ QueueOK /\ HostsOK /\ TxOK /\ ScanOK /\ LaneOK /\ AskedOK /\ FaultsOK

(* Only a created or active session is bound, and a booking is reserved.   *)
BoundOK  == \A s \in Sessions : row[s].vm # None => row[s].st \in {"created", "active"}
BookedOK == \A s \in Sessions : row[s].booked => row[s].st \in Reserving

(* A create's transaction is open while its row is not there yet, and a    *)
(* scanner's while it has an entry at the front.                           *)
RequestsOK == \A s \in Sessions : tx[s].phase # "off" => row[s].st = "new"
SweepsOK   == \A r \in Scanners : tx[r].phase # "off" => sweep[r] # <<>>

(* A locked host row is schedulable, and one transaction holds it.         *)
HeldUp   == \A t \in Placers : \A h \in tx[t].held : hosts[h].up
HeldOnce == \A t, u \in Placers : t # u => tx[t].held \intersect tx[u].held = {}

(* Rows are locked in the order of their keys.                             *)
InOrder == \A t \in Placers : \A h \in tx[t].held, g \in tx[t].todo : h < g

(* The host that a transaction picked is still locked by it, and what is   *)
(* booked there leaves room for one more session.                          *)
RoomFor(h, s) ==
  \/ Unmeasured(h)
  \/ /\ Load(Booked(h), "mem") + Need[s].mem <= hosts[h].mem
     /\ hosts[h].cpu = 0 \/ Load(Booked(h), "cpu") + Need[s].cpu <= hosts[h].cpu
PickedOK == \A t \in Placers : tx[t].phase = "commit" =>
  /\ t \in Scanners => tx[t].host # None
  /\ tx[t].host # None => tx[t].host \in tx[t].held /\ RoomFor(tx[t].host, Placee(t))

IInv == /\ ShapeOK /\ BoundOK /\ BookedOK /\ RequestsOK /\ SweepsOK
        /\ HeldUp /\ HeldOnce /\ InOrder /\ PickedOK
-----------------------------------------------------------------------------
(* The budgets.                                                            *)

(* The units that Load counts.                                             *)
Units(S, d) == UNION {{s} \X (1..Need[s][d]) : s \in S}

(* An interval from one has as many members as its end says.               *)
LEMMA UpTo ==
  ASSUME NEW n \in Nat
  PROVE  IsFiniteSet(1..n) /\ Cardinality(1..n) = n
<1>1. /\ IsFiniteSet(1..n)
      /\ Cardinality(1..n) = IF 1 > n THEN 0 ELSE n - 1 + 1
  BY FS_Interval
<1> QED
  BY <1>1

(* The load of a set of sessions is a natural number: a finite set has     *)
(* finitely many units.                                                    *)
LEMMA LoadFinite ==
  ASSUME NEW d \in {"mem", "cpu"}, NEW S \in SUBSET Sessions
  PROVE  /\ IsFiniteSet(S) /\ IsFiniteSet(Units(S, d))
         /\ Load(S, d) = Cardinality(Units(S, d)) /\ Load(S, d) \in Nat
<1>1. IsFiniteSet(S)
  BY PlacementAssumption, FS_Subset
<1>2. \A s \in S : Need[s][d] \in Nat
  BY PlacementAssumption DEF Budget
<1> DEFINE U == [s \in S |-> {s} \X (1..Need[s][d])]
           T == {{s} \X (1..Need[s][d]) : s \in S}
<1>3. U \in Surjection(S, T)
  BY DEF Surjection
<1>4. IsFiniteSet(T)
  BY <1>1, <1>3, FS_Surjection
<1>5. \A t \in T : IsFiniteSet(t)
  <2> SUFFICES ASSUME NEW s \in S PROVE IsFiniteSet({s} \X (1..Need[s][d]))
    OBVIOUS
  <2>1. IsFiniteSet({s}) /\ IsFiniteSet(1..Need[s][d])
    BY <1>2, FS_Singleton, UpTo
  <2> QED
    BY <2>1, FS_Product
<1>6. IsFiniteSet(Units(S, d))
  BY <1>4, <1>5, FS_UNION DEF Units
<1> QED
  BY <1>1, <1>6, FS_CardinalityType DEF Load, Units

(* Less is reserved when fewer sessions reserve.                           *)
LEMMA LoadMonotone ==
  ASSUME NEW d \in {"mem", "cpu"}, NEW T \in SUBSET Sessions, NEW S \in SUBSET T
  PROVE  Load(S, d) <= Load(T, d)
<1>1. S \in SUBSET Sessions /\ Units(S, d) \subseteq Units(T, d)
  BY DEF Units
<1> QED
  BY <1>1, LoadFinite, FS_Subset

(* One more session adds at most its own need.                             *)
LEMMA LoadAdd ==
  ASSUME NEW d \in {"mem", "cpu"}, NEW S \in SUBSET Sessions, NEW s \in Sessions
  PROVE  Load(S \union {s}, d) <= Load(S, d) + Need[s][d]
<1>1. Need[s][d] \in Nat
  BY PlacementAssumption DEF Budget
<1> DEFINE I == 1..Need[s][d]
           P == {s} \X I
<1>2. IsFiniteSet({s}) /\ Cardinality({s}) = 1
  BY FS_Singleton
<1>3. IsFiniteSet(I) /\ Cardinality(I) = Need[s][d]
  BY <1>1, UpTo
<1>4. IsFiniteSet(P) /\ Cardinality(P) = Need[s][d]
  <2>1. IsFiniteSet(P) /\ Cardinality(P) = Cardinality({s}) * Cardinality(I)
    BY <1>2, <1>3, FS_Product
  <2>2. \A n \in Nat : 1 * n = n
    OBVIOUS
  <2> QED
    BY <1>1, <1>2, <1>3, <2>1, <2>2
<1>5. Units(S \union {s}, d) = Units(S, d) \union P
  BY DEF Units
<1>6. /\ IsFiniteSet(Units(S, d)) /\ Load(S, d) = Cardinality(Units(S, d))
      /\ Load(S, d) \in Nat
  BY LoadFinite
<1>7. Load(S \union {s}, d) = Cardinality(Units(S, d) \union P)
  BY <1>5, LoadFinite
<1> DEFINE Q == Units(S, d) \intersect P
<1>8. IsFiniteSet(Q)
  BY <1>6, FS_Intersection
<1>9. Cardinality(Q) \in Nat
  BY <1>8, FS_CardinalityType
<1>10. Cardinality(Units(S, d) \union P)
         = Cardinality(Units(S, d)) + Cardinality(P) - Cardinality(Q)
  BY <1>4, <1>6, FS_Union
<1> HIDE DEF P, Q, I
<1> QED
  BY <1>1, <1>4, <1>6, <1>7, <1>9, <1>10
-----------------------------------------------------------------------------
(* The queue.                                                              *)

(* A sequence without its entry at i.                                      *)
Cut(q, i) == SubSeq(q, 1, i - 1) \o SubSeq(q, i + 1, Len(q))

(* What a cut leaves: one entry less, and the later ones move up.          *)
LEMMA CutEntries ==
  ASSUME NEW q \in Seq(Sessions), NEW n \in 1..Len(q)
  PROVE  /\ Cut(q, n) \in Seq(Sessions) /\ Len(Cut(q, n)) = Len(q) - 1
         /\ \A i \in 1..(Len(q) - 1) : Cut(q, n)[i] = IF i < n THEN q[i] ELSE q[i + 1]
<1> DEFINE a == SubSeq(q, 1, n - 1)
           b == SubSeq(q, n + 1, Len(q))
<1>1. Len(q) \in Nat
  BY LenProperties
<1>2. /\ a \in Seq(Sessions) /\ Len(a) = n - 1
      /\ \A i \in 1..(n - 1) : a[i] = q[i]
  BY <1>1, SubSeqProperties
<1>3. /\ b \in Seq(Sessions) /\ Len(b) = Len(q) - n
      /\ \A i \in 1..(Len(q) - n) : b[i] = q[n + i]
  BY <1>1, SubSeqProperties
<1> HIDE DEF a, b
<1>4. /\ a \o b \in Seq(Sessions) /\ Len(a \o b) = Len(a) + Len(b)
      /\ \A i \in 1..(Len(a) + Len(b)) :
           (a \o b)[i] = IF i <= Len(a) THEN a[i] ELSE b[i - Len(a)]
  BY <1>2, <1>3, ConcatProperties
<1>5. ASSUME NEW i \in 1..(Len(q) - 1)
      PROVE  (a \o b)[i] = IF i < n THEN q[i] ELSE q[i + 1]
  <2>1. CASE i < n
    BY <1>1, <1>2, <1>3, <1>4, <2>1
  <2>2. CASE ~(i < n)
    <3>1. i - Len(a) \in 1..(Len(q) - n) /\ n + (i - Len(a)) = i + 1 /\ ~(i <= Len(a))
      BY <1>1, <1>2, <2>2
    <3>2. (a \o b)[i] = b[i - Len(a)]
      BY <1>1, <1>2, <1>3, <1>4, <3>1
    <3> QED
      BY <1>3, <2>2, <3>1, <3>2
  <2> QED
    BY <2>1, <2>2
<1>6. Cut(q, n) = a \o b
  BY DEF Cut, a, b
<1>7. Len(a) + Len(b) = Len(q) - 1
  BY <1>1, <1>2, <1>3
<1>8. Cut(q, n) \in Seq(Sessions) /\ Len(Cut(q, n)) = Len(q) - 1
  BY <1>4, <1>6, <1>7
<1> QED
  BY <1>5, <1>6, <1>8, Zenon

(* Leaves takes s out of the queue and keeps its order free of repetition. *)
LEMMA LeavesQueue ==
  ASSUME NEW s \in Sessions, QueueOK, Leaves(s)
  PROVE  /\ queue' \in Seq(Sessions) /\ late' \subseteq Queued' /\ Queued' = Queued \ {s}
         /\ \A i, j \in 1..Len(queue') : queue'[i] = queue'[j] => i = j
<1>0. queue \in Seq(Sessions) /\ Len(queue) \in Nat /\ late \subseteq Queued
  BY LenProperties DEF QueueOK
<1>1. CASE s \notin Queued
  <2>1. queue' = queue /\ late' = late \ {s}
    BY <1>1 DEF Leaves
  <2> QED
    BY <1>0, <1>1, <2>1 DEF QueueOK, Queued
<1>2. CASE s \in Queued
  <2> DEFINE n == Index(s)
  <2>1. n \in 1..Len(queue) /\ queue[n] = s
    BY <1>2 DEF Index, Queued
  <2>2. queue' = Cut(queue, n) /\ late' = late \ {s}
    BY <1>2 DEF Leaves, Cut
  <2> HIDE DEF n
  <2>3. /\ queue' \in Seq(Sessions) /\ Len(queue') = Len(queue) - 1
        /\ \A i \in 1..(Len(queue) - 1) :
             queue'[i] = IF i < n THEN queue[i] ELSE queue[i + 1]
    BY <1>0, <2>1, <2>2, CutEntries
  <2>4. \A i, j \in 1..Len(queue) : queue[i] = queue[j] => i = j
    BY DEF QueueOK
  <2>5. \A i, j \in 1..Len(queue') : queue'[i] = queue'[j] => i = j
    BY <1>0, <2>1, <2>3, <2>4
  <2>6. Queued' \subseteq Queued \ {s}
    BY <1>0, <2>1, <2>3, <2>4 DEF Queued
  <2>7. ASSUME NEW q \in Queued \ {s} PROVE q \in Queued'
    <3>1. PICK i \in 1..Len(queue) : queue[i] = q
      BY <2>7 DEF Queued
    <3>2. CASE i < n
      <4>1. i \in 1..Len(queue') /\ queue'[i] = q
        BY <1>0, <2>1, <2>3, <3>1, <3>2
      <4> QED
        BY <4>1 DEF Queued
    <3>3. CASE i > n
      <4>1. (i - 1) \in 1..Len(queue') /\ queue'[i - 1] = q
        BY <1>0, <2>1, <2>3, <3>1, <3>3
      <4> QED
        BY <4>1 DEF Queued
    <3> QED
      BY <2>1, <2>7, <3>1, <3>2, <3>3
  <2>8. Queued' = Queued \ {s}
    BY <2>6, <2>7
  <2> QED
    BY <1>0, <2>2, <2>3, <2>5, <2>8
<1> QED
  BY <1>1, <1>2

(* Enqueues adds s at the end.                                             *)
LEMMA AppendQueue ==
  ASSUME NEW s \in Sessions, QueueOK, s \notin Queued,
         queue' = Append(queue, s), late' = late
  PROVE  /\ queue' \in Seq(Sessions) /\ late' \subseteq Queued'
         /\ Queued' = Queued \union {s}
         /\ \A i, j \in 1..Len(queue') : queue'[i] = queue'[j] => i = j
<1>0. queue \in Seq(Sessions) /\ Len(queue) \in Nat /\ late \subseteq Queued
  BY LenProperties DEF QueueOK
<1>1. /\ queue' \in Seq(Sessions) /\ Len(queue') = Len(queue) + 1
      /\ \A i \in 1..Len(queue) : queue'[i] = queue[i]
      /\ queue'[Len(queue) + 1] = s
  BY <1>0, AppendProperties
<1>2. \A i \in 1..Len(queue) : queue[i] \in Queued
  BY DEF Queued
<1>3. \A i, j \in 1..Len(queue) : queue[i] = queue[j] => i = j
  BY DEF QueueOK
<1>4. \A i, j \in 1..Len(queue') : queue'[i] = queue'[j] => i = j
  BY <1>0, <1>1, <1>2, <1>3
<1>5. Queued' = Queued \union {s}
  BY <1>0, <1>1 DEF Queued
<1> QED
  BY <1>0, <1>1, <1>4, <1>5

(* A sequence without repetition is as long as the set of its elements.    *)
LEMMA QueueLength ==
  ASSUME QueueOK
  PROVE  Len(queue) = Cardinality(Queued)
<1>1. queue \in Seq(Sessions) /\ Len(queue) \in Nat
  BY LenProperties DEF QueueOK
<1>2. queue \in Bijection(1..Len(queue), Queued)
  BY <1>1 DEF QueueOK, Queued, Bijection, Injection, Surjection, IsInjective
<1>3. ExistsBijection(1..Len(queue), Queued)
  BY <1>2 DEF ExistsBijection
<1> QED
  BY <1>1, <1>3, FS_CountingElements
-----------------------------------------------------------------------------
(* What a step does to the sessions table.  Every write is of one row, and *)
(* one of nine kinds; only the last two of RowStep's kinds unbind a row.   *)

RowStep(a, v) ==
  \/ /\ a.st \in {"new", "idle"} /\ v.st = "queued"
     /\ v.vm = a.vm /\ v.host = a.host /\ v.booked = a.booked
  \/ /\ a.st = "queued" /\ v.st = "idle"
     /\ v.vm = a.vm /\ v.host = a.host /\ v.booked = a.booked
  \/ a.st \in {"new", "queued"} /\ v.st = "pending" /\ v.vm = a.vm
  \/ a.st = "pending" /\ v.st = "created" /\ v.host = a.host /\ v.booked = a.booked
  \/ /\ a.st \in {"created", "idle"} /\ v.st = "active"
     /\ v.vm = a.vm /\ v.host = a.host /\ v.booked = a.booked
  \/ a.st = "pending" /\ a.vm = None /\ v.st = "deleted" /\ v.vm = None /\ v.booked = FALSE
  \/ a.st = "idle" /\ v.st = "active" /\ v.booked = FALSE
  \/ a.st = "active" /\ v.st = "idle" /\ v.vm = None /\ v.booked = FALSE
  \/ /\ a.st \in Reserving \union {"queued", "idle"}
     /\ v.st = "over" /\ v.vm = None /\ v.booked = FALSE

QueueStep(s, a, v) ==
  \/ v.st # "queued" /\ Leaves(s)
  \/ v.st = "queued" /\ a.st # "queued" /\ queue' = Append(queue, s) /\ late' = late
  \/ v.st # "queued" /\ a.st # "queued" /\ queue' = queue /\ late' = late

(* Only the commit of a pick makes a row pending, and it ends the pick.    *)
Commits(t, s, h) == /\ tx[t].phase = "commit" /\ tx[t].host = h /\ h # None
                    /\ s = Placee(t) /\ Close(t) /\ UNCHANGED hosts

Writes(s, v) ==
  /\ row' = [row EXCEPT ![s] = v]
  /\ RowStep(row[s], v) /\ QueueStep(s, row[s], v)
  /\ v.st = "pending" => \E t \in Placers : Commits(t, s, v.host)
  /\ row[s].st = "new" => tx'[s].phase = "off"

TableStep ==
  \/ row' = row /\ queue' = queue /\ late' \subseteq Queued
  \/ \E s \in Sessions, v \in RowType : Writes(s, v)

(* The parts of the invariant that the steps below need.                   *)
Typed == ShapeOK /\ RequestsOK /\ SweepsOK /\ PickedOK

(* A row is a record of its type, and NewRow is one.                       *)
LEMMA RowOf ==
  ASSUME RowsOK, NEW s \in Sessions
  PROVE  /\ row[s] \in RowType /\ row[s].st \in Status
         /\ row[s].host \in Hosts \union {None}
         /\ row[s].vm \in Boots \union {Resumed, None}
         /\ row[s].origin \in {"create", "resume"} /\ row[s].booked \in BOOLEAN
BY DEF RowsOK, RowType

(* A step that leaves the table alone.                                     *)
LEMMA Kept ==
  ASSUME Typed, UNCHANGED table
  PROVE  TableStep
BY DEF Typed, ShapeOK, QueueOK, TableStep, table

(* Over ends a session.                                                    *)
LEMMA OverStep ==
  ASSUME Typed, NEW s \in Sessions, row[s].st \in Reserving \union {"queued", "idle"}, Over(s)
  PROVE  TableStep
<1> DEFINE v == [NewRow EXCEPT !.st = "over"]
<1>1. v \in RowType /\ v.st = "over" /\ v.vm = None /\ v.booked = FALSE
  BY DEF NewRow, RowType, Status
<1>2. row' = [row EXCEPT ![s] = v] /\ Leaves(s)
  BY DEF Over
<1>3. row[s].st # "new"
  BY DEF Reserving
<1> HIDE DEF v
<1>4. RowStep(row[s], v) /\ QueueStep(s, row[s], v)
  BY <1>1, <1>2 DEF RowStep, QueueStep
<1> QED
  BY <1>1, <1>2, <1>3, <1>4 DEF TableStep, Writes

(* FailOrNot ends the session or leaves the table alone.                   *)
LEMMA FailStep ==
  ASSUME Typed, NEW s \in Sessions, NEW b, b => MayFail(s), FailOrNot(s, b)
  PROVE  TableStep
<1>1. CASE b
  BY <1>1, OverStep DEF FailOrNot, MayFail, Reserving
<1>2. CASE ~b
  BY <1>2, Kept DEF FailOrNot
<1> QED
  BY <1>1, <1>2

(* Enqueues adds a row that is not queued.                                 *)
LEMMA EnqueueStep ==
  ASSUME Typed, NEW s \in Sessions, NEW o \in {"create", "resume"},
         row[s].st \in {"new", "idle"}, row[s].st = "new" => tx'[s].phase = "off",
         Enqueues(s, o)
  PROVE  TableStep
<1> DEFINE v == [row[s] EXCEPT !.st = "queued", !.origin = o]
<1>0. RowsOK
  BY DEF Typed, ShapeOK
<1>1. /\ v \in RowType /\ v.st = "queued" /\ v.vm = row[s].vm
      /\ v.host = row[s].host /\ v.booked = row[s].booked
  BY <1>0, RowOf DEF RowType, Status
<1>2. row' = [row EXCEPT ![s] = v] /\ queue' = Append(queue, s) /\ late' = late
  BY <1>0 DEF Enqueues, RowsOK
<1> HIDE DEF v
<1>3. RowStep(row[s], v) /\ QueueStep(s, row[s], v)
  BY <1>1, <1>2 DEF RowStep, QueueStep
<1> QED
  BY <1>1, <1>2, <1>3 DEF TableStep, Writes

(* ToIdle takes a queued row out of the queue.                             *)
LEMMA IdleStep ==
  ASSUME Typed, NEW s \in Sessions, ToIdle(s)
  PROVE  TableStep
<1> DEFINE v == [row[s] EXCEPT !.st = "idle"]
<1>0. RowsOK
  BY DEF Typed, ShapeOK
<1>1. CASE row[s].st # "queued"
  BY <1>1, Kept DEF ToIdle
<1>2. CASE row[s].st = "queued"
  <2>1. /\ v \in RowType /\ v.st = "idle" /\ v.vm = row[s].vm
        /\ v.host = row[s].host /\ v.booked = row[s].booked
    BY <1>0, RowOf DEF RowType, Status
  <2>2. row' = [row EXCEPT ![s] = v] /\ Leaves(s)
    BY <1>0, <1>2 DEF ToIdle, RowsOK
  <2> HIDE DEF v
  <2>3. RowStep(row[s], v) /\ QueueStep(s, row[s], v)
    BY <1>2, <2>1, <2>2 DEF RowStep, QueueStep
  <2> QED
    BY <1>2, <2>1, <2>2, <2>3 DEF TableStep, Writes
<1> QED
  BY <1>1, <1>2

(* The commit of a pick books its session on its host.                     *)
LEMMA TakeStep ==
  ASSUME Typed, NEW t \in Placers, NEW s \in Sessions, NEW h \in Hosts,
         row[s].st \in {"new", "queued"}, row[s].st = "new" => tx'[s].phase = "off",
         row' = [row EXCEPT ![s].st = "pending", ![s].host = h, ![s].booked = TRUE],
         Commits(t, s, h),
         Leaves(s) \/ (row[s].st = "new" /\ queue' = queue /\ late' = late)
  PROVE  TableStep
<1> DEFINE v == [row[s] EXCEPT !.st = "pending", !.host = h, !.booked = TRUE]
<1>0. RowsOK
  BY DEF Typed, ShapeOK
<1>1. v \in RowType /\ v.st = "pending" /\ v.vm = row[s].vm /\ v.host = h
  BY <1>0, RowOf DEF RowType, Status, Reserving
<1>2. row' = [row EXCEPT ![s] = v]
  BY <1>0 DEF RowsOK
<1> HIDE DEF v
<1>3. RowStep(row[s], v) /\ QueueStep(s, row[s], v)
  BY <1>1 DEF RowStep, QueueStep
<1> QED
  BY <1>1, <1>2, <1>3 DEF TableStep, Writes

(* A boot binds a pending row.                                             *)
LEMMA BindStep ==
  ASSUME Typed, NEW s \in Sessions, NEW b \in Boots, row[s].st = "pending",
         row' = [row EXCEPT ![s].st = "created", ![s].vm = b], UNCHANGED <<queue, late>>
  PROVE  TableStep
<1> DEFINE v == [row[s] EXCEPT !.st = "created", !.vm = b]
<1>0. RowsOK
  BY DEF Typed, ShapeOK
<1>1. v \in RowType /\ v.st = "created" /\ v.host = row[s].host /\ v.booked = row[s].booked
  BY <1>0, RowOf DEF RowType, Status, Reserving
<1>2. row' = [row EXCEPT ![s] = v]
  BY <1>0 DEF RowsOK
<1> HIDE DEF v
<1>3. RowStep(row[s], v) /\ QueueStep(s, row[s], v)
  BY <1>1 DEF RowStep, QueueStep
<1> QED
  BY <1>1, <1>2, <1>3 DEF TableStep, Writes

(* The agent of a created or idle row is up.                               *)
LEMMA ActiveStep ==
  ASSUME Typed, NEW s \in Sessions, row[s].st \in {"created", "idle"},
         row' = [row EXCEPT ![s].st = "active"], UNCHANGED <<queue, late>>
  PROVE  TableStep
<1> DEFINE v == [row[s] EXCEPT !.st = "active"]
<1>0. RowsOK
  BY DEF Typed, ShapeOK
<1>1. /\ v \in RowType /\ v.st = "active" /\ v.vm = row[s].vm
      /\ v.host = row[s].host /\ v.booked = row[s].booked
  BY <1>0, RowOf DEF RowType, Status, Reserving
<1>2. row' = [row EXCEPT ![s] = v]
  BY <1>0 DEF RowsOK
<1> HIDE DEF v
<1>3. RowStep(row[s], v) /\ QueueStep(s, row[s], v)
  BY <1>1 DEF RowStep, QueueStep
<1> QED
  BY <1>1, <1>2, <1>3 DEF TableStep, Writes

(* Delete removes a pending row that is not bound.                         *)
LEMMA DeleteStep ==
  ASSUME Typed, NEW s \in Sessions, Delete(s), UNCHANGED <<queue, late>>
  PROVE  TableStep
<1> DEFINE v == [NewRow EXCEPT !.st = "deleted"]
<1>1. CASE ~MayDelete(s)
  BY <1>1, Kept DEF Delete, table
<1>2. CASE MayDelete(s)
  <2>1. v \in RowType /\ v.st = "deleted" /\ v.vm = None /\ v.booked = FALSE
    BY DEF NewRow, RowType, Status
  <2>2. row' = [row EXCEPT ![s] = v] /\ row[s].st = "pending" /\ row[s].vm = None
    BY <1>2 DEF Delete, MayDelete
  <2> HIDE DEF v
  <2>3. RowStep(row[s], v) /\ QueueStep(s, row[s], v)
    BY <2>1, <2>2 DEF RowStep, QueueStep
  <2> QED
    BY <2>1, <2>2, <2>3 DEF TableStep, Writes
<1> QED
  BY <1>1, <1>2

(* A resume makes an idle row active on the host of its restore.           *)
LEMMA ResumeStep ==
  ASSUME Typed, NEW s \in Sessions, NEW h \in Hosts \union {None}, row[s].st = "idle",
         row' = [row EXCEPT ![s].st = "active", ![s].host = h,
                            ![s].vm = Resumed, ![s].booked = FALSE],
         UNCHANGED <<queue, late>>
  PROVE  TableStep
<1> DEFINE v == [row[s] EXCEPT !.st = "active", !.host = h, !.vm = Resumed, !.booked = FALSE]
<1>0. RowsOK
  BY DEF Typed, ShapeOK
<1>1. v \in RowType /\ v.st = "active" /\ v.booked = FALSE
  BY <1>0, RowOf DEF RowType, Status, Reserving
<1>2. row' = [row EXCEPT ![s] = v]
  BY <1>0 DEF RowsOK
<1> HIDE DEF v
<1>3. RowStep(row[s], v) /\ QueueStep(s, row[s], v)
  BY <1>1 DEF RowStep, QueueStep
<1> QED
  BY <1>1, <1>2, <1>3 DEF TableStep, Writes

(* An eviction makes an active row idle and unbound.                       *)
LEMMA EvictStep ==
  ASSUME Typed, NEW s \in Sessions, row[s].st = "active",
         row' = [row EXCEPT ![s].st = "idle", ![s].vm = None, ![s].booked = FALSE],
         UNCHANGED <<queue, late>>
  PROVE  TableStep
<1> DEFINE v == [row[s] EXCEPT !.st = "idle", !.vm = None, !.booked = FALSE]
<1>0. RowsOK
  BY DEF Typed, ShapeOK
<1>1. v \in RowType /\ v.st = "idle" /\ v.vm = None /\ v.booked = FALSE
  BY <1>0, RowOf DEF RowType, Status
<1>2. row' = [row EXCEPT ![s] = v]
  BY <1>0 DEF RowsOK
<1> HIDE DEF v
<1>3. RowStep(row[s], v) /\ QueueStep(s, row[s], v)
  BY <1>1 DEF RowStep, QueueStep
<1> QED
  BY <1>1, <1>2, <1>3 DEF TableStep, Writes
-----------------------------------------------------------------------------
(* The front of a sweep is an entry.                                       *)
LEMMA SessOf ==
  ASSUME Typed, NEW r \in Scanners, sweep[r] # <<>>
  PROVE  Front(r) \in Entry /\ Sess(r) \in Sessions
<1>1. sweep[r] \in Seq(Entry)
  BY DEF Typed, ShapeOK, ScanOK
<1>2. Head(sweep[r]) \in Entry
  BY <1>1, HeadTailProperties
<1> QED
  BY <1>2 DEF Front, Sess, Entry

(* Whom a placer places.                                                   *)
LEMMA PlaceeOf ==
  /\ \A s \in Sessions : s \in Placers /\ Placee(s) = s
  /\ \A r \in Scanners : r \in Placers /\ r \notin Sessions /\ Placee(r) = Sess(r)
BY PlacementAssumption DEF Placee, Placers

(* The host of a pick at its commit: a scanner has one.                    *)
LEMMA PickOf ==
  ASSUME Typed, NEW t \in Placers, tx[t].phase = "commit",
         t \in Scanners \/ tx[t].host # None
  PROVE  tx[t].host \in Hosts
<1>1. tx[t].host \in Hosts \union {None}
  BY DEF Typed, ShapeOK, TxOK, TxType
<1> QED
  BY <1>1 DEF Typed, PickedOK

(* The end of a transaction releases its locks.                            *)
LEMMA Closed ==
  ASSUME Typed, NEW t \in Placers, Close(t)
  PROVE  /\ tx'[t] = NoTx /\ tx'[t].phase = "off" /\ tx'[t].held = {}
         /\ \A u \in Placers : u # t => tx'[u] = tx[u]
BY DEF Typed, ShapeOK, TxOK, Close, NoTx

(* A boot that failed ends its session, or leaves the table alone.         *)
LEMMA FailedStep ==
  ASSUME Typed, NEW s \in Sessions, NEW b \in Boots, BootFailed(s, b)
  PROVE  TableStep
<1>1. CASE FailOrNot(s, MayFail(s) /\ ~Fenced(s, b))
  BY <1>1, FailStep
<1>2. CASE UNCHANGED table
  BY <1>2, Kept
<1> QED
  BY <1>1, <1>2 DEF BootFailed

(* Every step is one of the steps of the table above.                      *)
LEMMA TableSteps ==
  ASSUME Typed, Next
  PROVE  TableStep
<1>1. ASSUME NEW h \in Hosts, Cordon(h) PROVE TableStep
  BY <1>1, Kept DEF Cordon
<1>2. ASSUME NEW h \in Hosts, Uncordon(h) PROVE TableStep
  BY <1>2, Kept DEF Uncordon
<1>3. ASSUME NEW h \in Hosts, Measure(h) PROVE TableStep
  BY <1>3, Kept DEF Measure
<1>4. ASSUME NEW t \in Placers, LockHost(t) PROVE TableStep
  BY <1>4, Kept DEF LockHost
<1>5. ASSUME NEW r \in Scanners, StartSweep(r) PROVE TableStep
  BY <1>5, Kept DEF StartSweep
<1>6. ASSUME NEW r \in Scanners, TimeOutCreate(r) PROVE TableStep
  <2>1. Sess(r) \in Sessions
    BY <1>6, SessOf DEF TimeOutCreate, At
  <2> QED
    BY <1>6, <2>1, FailStep DEF TimeOutCreate, FailUnbound
<1>7. ASSUME NEW r \in Scanners, TimeOutResume(r) PROVE TableStep
  <2>1. Sess(r) \in Sessions
    BY <1>7, SessOf DEF TimeOutResume, At
  <2> QED
    BY <1>7, <2>1, IdleStep DEF TimeOutResume
<1>8. ASSUME NEW r \in Scanners, ImageGone(r) PROVE TableStep
  <2>1. Sess(r) \in Sessions
    BY <1>8, SessOf DEF ImageGone, Now, At
  <2> QED
    BY <1>8, <2>1, FailStep DEF ImageGone, FailUnbound
<1>9. ASSUME NEW r \in Scanners, PlaceOpen(r) PROVE TableStep
  BY <1>9, Kept DEF PlaceOpen
<1>10. ASSUME NEW r \in Scanners, PlaceNowhere(r) PROVE TableStep
  BY <1>10, Kept DEF PlaceNowhere
<1>11. ASSUME NEW r \in Scanners, PlacePick(r) PROVE TableStep
  BY <1>11, Kept DEF PlacePick
<1>12. ASSUME NEW r \in Scanners, PlaceCommit(r) PROVE TableStep
  <2>1. Sess(r) \in Sessions /\ tx[r].host \in Hosts /\ r \in Placers /\ Placee(r) =
       Sess(r)
    BY <1>12, PickOf, SessOf, PlaceeOf DEF PlaceCommit, Typed, SweepsOK
  <2>2. CASE row[Sess(r)].st = "queued"
    <3>1. Commits(r, Sess(r), tx[r].host)
      BY <1>12, <2>1, PlacementAssumption DEF PlaceCommit, Commits
    <3> QED
      BY <1>12, <2>1, <2>2, <3>1, TakeStep DEF PlaceCommit
  <2>3. CASE row[Sess(r)].st # "queued"
    BY <1>12, <2>3, Kept DEF PlaceCommit
  <2> QED
    BY <2>2, <2>3
<1>13. ASSUME NEW r \in Scanners, EnqueueBootOp(r) PROVE TableStep
  BY <1>13, Kept DEF EnqueueBootOp
<1>14. ASSUME NEW r \in Scanners, ResumeHasCapacity(r) PROVE TableStep
  BY <1>14, Kept DEF ResumeHasCapacity
<1>15. ASSUME NEW r \in Scanners, DequeueResume(r) PROVE TableStep
  <2>1. Sess(r) \in Sessions
    BY <1>15, SessOf DEF DequeueResume, At
  <2> QED
    BY <1>15, <2>1, IdleStep DEF DequeueResume
<1>16. ASSUME NEW r \in Scanners, EnqueueResumeOp(r) PROVE TableStep
  BY <1>16, Kept DEF EnqueueResumeOp
<1>17. ASSUME NEW r \in Scanners, ScanFails(r) PROVE TableStep
  BY <1>17, Kept DEF ScanFails
<1>18. ASSUME NEW s \in Sessions, CreateOpen(s) PROVE TableStep
  BY <1>18, Kept DEF CreateOpen
<1>19. ASSUME NEW s \in Sessions, CreatePick(s) PROVE TableStep
  BY <1>19, Kept DEF CreatePick
<1>20. ASSUME NEW s \in Sessions, CreatePlaced(s) PROVE TableStep
  <2>1. tx[s].host \in Hosts /\ s \in Placers /\ Placee(s) = s /\ row[s].st = "new"
    BY <1>20, PickOf, PlaceeOf DEF CreatePlaced, Typed, RequestsOK, Placers
  <2>2. Commits(s, s, tx[s].host)
    BY <1>20, <2>1, PlacementAssumption DEF CreatePlaced, Commits
  <2>3. tx'[s].phase = "off"
    BY <1>20, <2>1, Closed DEF CreatePlaced
  <2> QED
    BY <1>20, <2>1, <2>2, <2>3, TakeStep DEF CreatePlaced
<1>21. ASSUME NEW s \in Sessions, CreateQueued(s) PROVE TableStep
  <2>1. s \in Placers /\ row[s].st = "new"
    BY <1>21 DEF CreateQueued, Typed, RequestsOK, Placers
  <2>2. tx'[s].phase = "off"
    BY <1>21, <2>1, Closed DEF CreateQueued
  <2> QED
    BY <1>21, <2>1, <2>2, EnqueueStep DEF CreateQueued
<1>22. ASSUME NEW s \in Sessions, CreateFails(s) PROVE TableStep
  BY <1>22, Kept DEF CreateFails
<1>23. ASSUME NEW s \in Sessions, DirectDies(s) PROVE TableStep
  BY <1>23, Kept DEF DirectDies
<1>24. ASSUME NEW s \in Sessions, Age(s) PROVE TableStep
  BY <1>24 DEF Age, Typed, ShapeOK, QueueOK, TableStep
<1>25. ASSUME NEW s \in Sessions, Backstop(s) PROVE TableStep
  BY <1>25, Kept DEF Backstop
<1>26. ASSUME NEW s \in Sessions, NEW b \in Boots, RestoreAndBind(s, b) PROVE TableStep
  <2>1. CASE NotStarted(s, b)
    <3>1. CASE Delete(s) /\ UNCHANGED <<queue, late>>
      BY <3>1, DeleteStep
    <3>2. CASE UNCHANGED table
      BY <3>2, Kept
    <3>3. CASE BootFailed(s, b)
      BY <3>3, FailedStep
    <3> QED
      BY <2>1, <3>1, <3>2, <3>3 DEF NotStarted
  <2>2. CASE ~NotStarted(s, b)
    BY <1>26, <2>2, BindStep DEF RestoreAndBind, MayBind
  <2> QED
    BY <2>1, <2>2
<1>27. ASSUME NEW s \in Sessions, NEW b \in Boots, StartAgent(s, b) PROVE TableStep
  BY <1>27, ActiveStep, FailedStep DEF StartAgent
<1>28. ASSUME NEW s \in Sessions, NEW b \in Boots, Condemn(s, b) PROVE TableStep
  BY <1>28, FailedStep DEF Condemn
<1>29. ASSUME NEW s \in Sessions, NEW k \in Keys, NEW b \in Slots, CreateBoot(s, k, b) PROVE TableStep
  BY <1>29, Kept DEF CreateBoot
<1>30. ASSUME NEW s \in Sessions, BootLapses(s) PROVE TableStep
  BY <1>30, Kept DEF BootLapses
<1>31. ASSUME NEW s \in Sessions, RequestResume(s) PROVE TableStep
  BY <1>31, Kept DEF RequestResume
<1>32. ASSUME NEW s \in Sessions, ResumePreview(s) PROVE TableStep
  BY <1>32, Kept DEF ResumePreview
<1>33. ASSUME NEW s \in Sessions, EnqueueSessionResume(s) PROVE TableStep
  <2>1. CASE row[s].st = "idle"
    BY <1>33, <2>1, EnqueueStep DEF EnqueueSessionResume
  <2>2. CASE row[s].st # "idle"
    BY <1>33, <2>2, Kept DEF EnqueueSessionResume
  <2> QED
    BY <2>1, <2>2
<1>34. ASSUME NEW s \in Sessions, RestoreForSession(s) PROVE TableStep
  BY <1>34, Kept DEF RestoreForSession
<1>35. ASSUME NEW s \in Sessions, ResumeToActive(s) PROVE TableStep
  <2>1. resume[s].host \in Hosts \union {None}
    BY DEF Typed, ShapeOK, AskedOK, ResumeType
  <2>2. CASE row[s].st = "idle"
    BY <1>35, <2>1, <2>2, ResumeStep DEF ResumeToActive
  <2>3. CASE row[s].st # "idle"
    BY <1>35, <2>3, Kept DEF ResumeToActive, table
  <2> QED
    BY <2>2, <2>3
<1>36. ASSUME NEW s \in Sessions, ResumeFails(s) PROVE TableStep
  BY <1>36, Kept DEF ResumeFails
<1>37. ASSUME NEW s \in Sessions, Evict(s) PROVE TableStep
  BY <1>37, EvictStep DEF Evict
<1>38. ASSUME NEW s \in Sessions, Destroy(s) PROVE TableStep
  BY <1>38, OverStep DEF Destroy
<1> QED
  BY <1>1, <1>2, <1>3, <1>4, <1>5, <1>6, <1>7, <1>8, <1>9, <1>10, <1>11, <1>12, <1>13,
     <1>14, <1>15, <1>16, <1>17, <1>18, <1>19, <1>20, <1>21, <1>22, <1>23, <1>24, <1>25,
     <1>26, <1>27, <1>28, <1>29, <1>30, <1>31, <1>32, <1>33, <1>34, <1>35, <1>36, <1>37,
     <1>38 DEF Next, Scan, Request, Lane, Boot, Resume, Placers, Boots

-----------------------------------------------------------------------------
(* What a step does to the hosts, to the transactions and to the sweeps.   *)

HostStep ==
  \/ UNCHANGED hosts
  \/ /\ UNCHANGED <<table, tx, sweep>>
     /\ \E h \in Hosts, v \in HostType : Unlocked(h) /\ hosts' = [hosts EXCEPT ![h] = v]

(* A host row is written by itself, and not while it is locked.            *)
LEMMA HostSteps ==
  ASSUME Typed, Next
  PROVE  HostStep
<1>1. ASSUME NEW h \in Hosts, Cordon(h) PROVE HostStep
  <2> DEFINE v == [hosts[h] EXCEPT !.up = FALSE]
  <2>1. v \in HostType
    BY DEF Typed, ShapeOK, HostsOK, HostType
  <2>2. hosts' = [hosts EXCEPT ![h] = v]
    BY <1>1 DEF Cordon, Typed, ShapeOK, HostsOK
  <2> HIDE DEF v
  <2> QED
    BY <1>1, <2>1, <2>2 DEF Cordon, HostStep, scan
<1>2. ASSUME NEW h \in Hosts, Uncordon(h) PROVE HostStep
  <2> DEFINE v == [hosts[h] EXCEPT !.up = TRUE]
  <2>1. v \in HostType
    BY DEF Typed, ShapeOK, HostsOK, HostType
  <2>2. hosts' = [hosts EXCEPT ![h] = v]
    BY <1>2 DEF Uncordon, Typed, ShapeOK, HostsOK
  <2> HIDE DEF v
  <2> QED
    BY <1>2, <2>1, <2>2 DEF Uncordon, HostStep, scan
<1>3. ASSUME NEW h \in Hosts, Measure(h) PROVE HostStep
  <2>1. PICK n \in Sizes \ {hosts[h].mem} : hosts' = [hosts EXCEPT ![h].mem = n]
    BY <1>3 DEF Measure
  <2> DEFINE v == [hosts[h] EXCEPT !.mem = n]
  <2>2. v \in HostType
    BY PlacementAssumption DEF Typed, ShapeOK, HostsOK, HostType
  <2>3. hosts' = [hosts EXCEPT ![h] = v]
    BY <2>1 DEF Typed, ShapeOK, HostsOK
  <2> HIDE DEF v
  <2> QED
    BY <1>3, <2>2, <2>3 DEF Measure, HostStep, scan
<1>4. ASSUME NEW t \in Placers, LockHost(t) PROVE HostStep
  BY <1>4 DEF LockHost, HostStep
<1>5. ASSUME NEW r \in Scanners, StartSweep(r) PROVE HostStep
  BY <1>5 DEF StartSweep, HostStep
<1>6. ASSUME NEW r \in Scanners, TimeOutCreate(r) PROVE HostStep
  BY <1>6 DEF TimeOutCreate, HostStep
<1>7. ASSUME NEW r \in Scanners, TimeOutResume(r) PROVE HostStep
  BY <1>7 DEF TimeOutResume, HostStep
<1>8. ASSUME NEW r \in Scanners, ImageGone(r) PROVE HostStep
  BY <1>8 DEF ImageGone, HostStep
<1>9. ASSUME NEW r \in Scanners, PlaceOpen(r) PROVE HostStep
  BY <1>9 DEF PlaceOpen, HostStep
<1>10. ASSUME NEW r \in Scanners, PlaceNowhere(r) PROVE HostStep
  BY <1>10 DEF PlaceNowhere, HostStep
<1>11. ASSUME NEW r \in Scanners, PlacePick(r) PROVE HostStep
  BY <1>11 DEF PlacePick, HostStep
<1>12. ASSUME NEW r \in Scanners, PlaceCommit(r) PROVE HostStep
  BY <1>12 DEF PlaceCommit, HostStep
<1>13. ASSUME NEW r \in Scanners, EnqueueBootOp(r) PROVE HostStep
  BY <1>13 DEF EnqueueBootOp, HostStep
<1>14. ASSUME NEW r \in Scanners, ResumeHasCapacity(r) PROVE HostStep
  BY <1>14 DEF ResumeHasCapacity, HostStep
<1>15. ASSUME NEW r \in Scanners, DequeueResume(r) PROVE HostStep
  BY <1>15 DEF DequeueResume, HostStep
<1>16. ASSUME NEW r \in Scanners, EnqueueResumeOp(r) PROVE HostStep
  BY <1>16 DEF EnqueueResumeOp, HostStep
<1>17. ASSUME NEW r \in Scanners, ScanFails(r) PROVE HostStep
  BY <1>17 DEF ScanFails, HostStep
<1>18. ASSUME NEW s \in Sessions, CreateOpen(s) PROVE HostStep
  BY <1>18 DEF CreateOpen, HostStep
<1>19. ASSUME NEW s \in Sessions, CreatePick(s) PROVE HostStep
  BY <1>19 DEF CreatePick, HostStep
<1>20. ASSUME NEW s \in Sessions, CreatePlaced(s) PROVE HostStep
  BY <1>20 DEF CreatePlaced, HostStep
<1>21. ASSUME NEW s \in Sessions, CreateQueued(s) PROVE HostStep
  BY <1>21 DEF CreateQueued, HostStep
<1>22. ASSUME NEW s \in Sessions, CreateFails(s) PROVE HostStep
  BY <1>22 DEF CreateFails, HostStep
<1>23. ASSUME NEW s \in Sessions, DirectDies(s) PROVE HostStep
  BY <1>23 DEF DirectDies, HostStep
<1>24. ASSUME NEW s \in Sessions, Age(s) PROVE HostStep
  BY <1>24 DEF Age, HostStep
<1>25. ASSUME NEW s \in Sessions, Backstop(s) PROVE HostStep
  BY <1>25 DEF Backstop, HostStep
<1>26. ASSUME NEW s \in Sessions, NEW b \in Boots, RestoreAndBind(s, b) PROVE HostStep
  BY <1>26 DEF RestoreAndBind, HostStep
<1>27. ASSUME NEW s \in Sessions, NEW b \in Boots, StartAgent(s, b) PROVE HostStep
  BY <1>27 DEF StartAgent, HostStep
<1>28. ASSUME NEW s \in Sessions, NEW b \in Boots, Condemn(s, b) PROVE HostStep
  BY <1>28 DEF Condemn, HostStep
<1>29. ASSUME NEW s \in Sessions, NEW k \in Keys, NEW b \in Slots, CreateBoot(s, k, b) PROVE HostStep
  BY <1>29 DEF CreateBoot, HostStep
<1>30. ASSUME NEW s \in Sessions, BootLapses(s) PROVE HostStep
  BY <1>30 DEF BootLapses, HostStep
<1>31. ASSUME NEW s \in Sessions, RequestResume(s) PROVE HostStep
  BY <1>31 DEF RequestResume, HostStep
<1>32. ASSUME NEW s \in Sessions, ResumePreview(s) PROVE HostStep
  BY <1>32 DEF ResumePreview, HostStep
<1>33. ASSUME NEW s \in Sessions, EnqueueSessionResume(s) PROVE HostStep
  BY <1>33 DEF EnqueueSessionResume, HostStep
<1>34. ASSUME NEW s \in Sessions, RestoreForSession(s) PROVE HostStep
  BY <1>34 DEF RestoreForSession, HostStep
<1>35. ASSUME NEW s \in Sessions, ResumeToActive(s) PROVE HostStep
  BY <1>35 DEF ResumeToActive, HostStep
<1>36. ASSUME NEW s \in Sessions, ResumeFails(s) PROVE HostStep
  BY <1>36 DEF ResumeFails, HostStep
<1>37. ASSUME NEW s \in Sessions, Evict(s) PROVE HostStep
  BY <1>37 DEF Evict, HostStep
<1>38. ASSUME NEW s \in Sessions, Destroy(s) PROVE HostStep
  BY <1>38 DEF Destroy, HostStep
<1> QED
  BY <1>1, <1>2, <1>3, <1>4, <1>5, <1>6, <1>7, <1>8, <1>9, <1>10, <1>11, <1>12, <1>13,
     <1>14, <1>15, <1>16, <1>17, <1>18, <1>19, <1>20, <1>21, <1>22, <1>23, <1>24, <1>25,
     <1>26, <1>27, <1>28, <1>29, <1>30, <1>31, <1>32, <1>33, <1>34, <1>35, <1>36, <1>37,
     <1>38 DEF Next, Scan, Request, Lane, Boot, Resume, Placers, Boots

Opens(t) == /\ Open(t) /\ UNCHANGED <<table, hosts, sweep>>
            /\ t \in Sessions => row[t].st = "new"
            /\ t \in Scanners => sweep[t] # <<>>
Chosen(t, h) ==
  /\ Ready(t) /\ Picks(t, h) /\ UNCHANGED <<table, hosts, sweep>>
  /\ (h = None /\ t \in Sessions) \/ h \in ChoosePlacementHost(tx[t].held, Placee(t))
TxStep == \/ UNCHANGED tx
          \/ \E t \in Placers : Opens(t) \/ LockHost(t) \/ Close(t) \/ \E h : Chosen(t, h)

(* A transaction opens, takes a lock, picks or ends.                       *)
LEMMA TxSteps ==
  ASSUME Typed, Next
  PROVE  TxStep
<1>1. ASSUME NEW h \in Hosts, Cordon(h) PROVE TxStep
  BY <1>1 DEF Cordon, TxStep
<1>2. ASSUME NEW h \in Hosts, Uncordon(h) PROVE TxStep
  BY <1>2 DEF Uncordon, TxStep
<1>3. ASSUME NEW h \in Hosts, Measure(h) PROVE TxStep
  BY <1>3 DEF Measure, TxStep
<1>4. ASSUME NEW t \in Placers, LockHost(t) PROVE TxStep
  BY <1>4 DEF TxStep
<1>5. ASSUME NEW r \in Scanners, StartSweep(r) PROVE TxStep
  BY <1>5 DEF StartSweep, TxStep
<1>6. ASSUME NEW r \in Scanners, TimeOutCreate(r) PROVE TxStep
  BY <1>6 DEF TimeOutCreate, TxStep
<1>7. ASSUME NEW r \in Scanners, TimeOutResume(r) PROVE TxStep
  BY <1>7 DEF TimeOutResume, TxStep
<1>8. ASSUME NEW r \in Scanners, ImageGone(r) PROVE TxStep
  BY <1>8 DEF ImageGone, TxStep
<1>9. ASSUME NEW r \in Scanners, PlaceOpen(r) PROVE TxStep
  <2>1. Opens(r)
    BY <1>9, PlaceeOf DEF PlaceOpen, Now, At, Opens, scan
  <2> QED
    BY <2>1, PlaceeOf DEF TxStep
<1>10. ASSUME NEW r \in Scanners, PlaceNowhere(r) PROVE TxStep
  BY <1>10 DEF PlaceNowhere, TxStep
<1>11. ASSUME NEW r \in Scanners, PlacePick(r) PROVE TxStep
  <2>1. CASE Close(r)
    BY <2>1, PlaceeOf DEF TxStep
  <2>2. CASE ~Close(r)
    <3>1. PICK h \in ChoosePlacementHost(tx[r].held, Sess(r)) : Picks(r, h)
      BY <1>11, <2>2 DEF PlacePick
    <3>2. UNCHANGED <<table, hosts, sweep>> /\ Ready(r)
      BY <1>11, <2>2 DEF PlacePick, scan
    <3>3. Chosen(r, h)
      BY <3>1, <3>2, PlaceeOf DEF Chosen
    <3> QED
      BY <3>3, PlaceeOf DEF TxStep
  <2> QED
    BY <2>1, <2>2
<1>12. ASSUME NEW r \in Scanners, PlaceCommit(r) PROVE TxStep
  BY <1>12, PlaceeOf DEF PlaceCommit, TxStep
<1>13. ASSUME NEW r \in Scanners, EnqueueBootOp(r) PROVE TxStep
  BY <1>13 DEF EnqueueBootOp, TxStep
<1>14. ASSUME NEW r \in Scanners, ResumeHasCapacity(r) PROVE TxStep
  BY <1>14 DEF ResumeHasCapacity, TxStep
<1>15. ASSUME NEW r \in Scanners, DequeueResume(r) PROVE TxStep
  BY <1>15 DEF DequeueResume, TxStep
<1>16. ASSUME NEW r \in Scanners, EnqueueResumeOp(r) PROVE TxStep
  BY <1>16 DEF EnqueueResumeOp, TxStep
<1>17. ASSUME NEW r \in Scanners, ScanFails(r) PROVE TxStep
  BY <1>17, PlaceeOf DEF ScanFails, TxStep
<1>18. ASSUME NEW s \in Sessions, CreateOpen(s) PROVE TxStep
  <2>1. Opens(s)
    BY <1>18, PlacementAssumption DEF CreateOpen, Opens, scan
  <2> QED
    BY <2>1, PlaceeOf DEF TxStep
<1>19. ASSUME NEW s \in Sessions, CreatePick(s) PROVE TxStep
  <2> DEFINE c == ChoosePlacementHost(tx[s].held, s)
  <2>1. PICK h \in IF c = {} THEN {None} ELSE c : Picks(s, h)
    BY <1>19 DEF CreatePick
  <2>2. UNCHANGED <<table, hosts, sweep>> /\ Ready(s)
    BY <1>19 DEF CreatePick, scan
  <2>3. h = None \/ h \in c
    BY <2>1
  <2>4. Chosen(s, h)
    BY <2>1, <2>2, <2>3, PlaceeOf DEF Chosen
  <2> QED
    BY <2>4, PlaceeOf DEF TxStep
<1>20. ASSUME NEW s \in Sessions, CreatePlaced(s) PROVE TxStep
  BY <1>20, PlaceeOf DEF CreatePlaced, TxStep
<1>21. ASSUME NEW s \in Sessions, CreateQueued(s) PROVE TxStep
  BY <1>21, PlaceeOf DEF CreateQueued, TxStep
<1>22. ASSUME NEW s \in Sessions, CreateFails(s) PROVE TxStep
  BY <1>22, PlaceeOf DEF CreateFails, TxStep
<1>23. ASSUME NEW s \in Sessions, DirectDies(s) PROVE TxStep
  BY <1>23 DEF DirectDies, TxStep
<1>24. ASSUME NEW s \in Sessions, Age(s) PROVE TxStep
  BY <1>24 DEF Age, TxStep
<1>25. ASSUME NEW s \in Sessions, Backstop(s) PROVE TxStep
  BY <1>25 DEF Backstop, TxStep
<1>26. ASSUME NEW s \in Sessions, NEW b \in Boots, RestoreAndBind(s, b) PROVE TxStep
  BY <1>26 DEF RestoreAndBind, TxStep
<1>27. ASSUME NEW s \in Sessions, NEW b \in Boots, StartAgent(s, b) PROVE TxStep
  BY <1>27 DEF StartAgent, TxStep
<1>28. ASSUME NEW s \in Sessions, NEW b \in Boots, Condemn(s, b) PROVE TxStep
  BY <1>28 DEF Condemn, TxStep
<1>29. ASSUME NEW s \in Sessions, NEW k \in Keys, NEW b \in Slots, CreateBoot(s, k, b) PROVE TxStep
  BY <1>29 DEF CreateBoot, TxStep
<1>30. ASSUME NEW s \in Sessions, BootLapses(s) PROVE TxStep
  BY <1>30 DEF BootLapses, TxStep
<1>31. ASSUME NEW s \in Sessions, RequestResume(s) PROVE TxStep
  BY <1>31 DEF RequestResume, TxStep
<1>32. ASSUME NEW s \in Sessions, ResumePreview(s) PROVE TxStep
  BY <1>32 DEF ResumePreview, TxStep
<1>33. ASSUME NEW s \in Sessions, EnqueueSessionResume(s) PROVE TxStep
  BY <1>33 DEF EnqueueSessionResume, TxStep
<1>34. ASSUME NEW s \in Sessions, RestoreForSession(s) PROVE TxStep
  BY <1>34 DEF RestoreForSession, TxStep
<1>35. ASSUME NEW s \in Sessions, ResumeToActive(s) PROVE TxStep
  BY <1>35 DEF ResumeToActive, TxStep
<1>36. ASSUME NEW s \in Sessions, ResumeFails(s) PROVE TxStep
  BY <1>36 DEF ResumeFails, TxStep
<1>37. ASSUME NEW s \in Sessions, Evict(s) PROVE TxStep
  BY <1>37 DEF Evict, TxStep
<1>38. ASSUME NEW s \in Sessions, Destroy(s) PROVE TxStep
  BY <1>38 DEF Destroy, TxStep
<1> QED
  BY <1>1, <1>2, <1>3, <1>4, <1>5, <1>6, <1>7, <1>8, <1>9, <1>10, <1>11, <1>12, <1>13,
     <1>14, <1>15, <1>16, <1>17, <1>18, <1>19, <1>20, <1>21, <1>22, <1>23, <1>24, <1>25,
     <1>26, <1>27, <1>28, <1>29, <1>30, <1>31, <1>32, <1>33, <1>34, <1>35, <1>36, <1>37,
     <1>38 DEF Next, Scan, Request, Lane, Boot, Resume, Placers, Boots

(* A sweep moves on only outside of a transaction, or with its end.        *)
ScanStep == ScanOK' /\ \A r \in Scanners : sweep'[r] = sweep[r] \/ tx'[r].phase = "off"

(* What is left of a sweep is a sequence of entries.                       *)
LEMMA LeftStep ==
  ASSUME Typed, NEW r \in Scanners, NEW e \in Seq(Entry), Left(r, e), tx'[r].phase = "off"
  PROVE  ScanStep
BY DEF Typed, ShapeOK, ScanOK, Left, ScanStep

(* The three ways to leave an entry.                                       *)
LEMMA RestOf ==
  ASSUME Typed, NEW r \in Scanners, sweep[r] # <<>>
  PROVE  /\ Tail(sweep[r]) \in Seq(Entry) /\ <<>> \in Seq(Entry)
         /\ SubSeq(sweep[r], Cardinality(ClassLeft(r)) + 1, Len(sweep[r])) \in Seq(Entry)
<1>1. sweep[r] \in Seq(Entry) /\ Len(sweep[r]) \in Nat
  BY LenProperties DEF Typed, ShapeOK, ScanOK
<1>2. Tail(sweep[r]) \in Seq(Entry) /\ <<>> \in Seq(Entry)
  BY <1>1, HeadTailProperties
<1>3. IsFiniteSet(ClassLeft(r))
  BY <1>1, UpTo, FS_Subset DEF ClassLeft
<1>4. Cardinality(ClassLeft(r)) + 1 \in 1..(Len(sweep[r]) + 1)
  <2>1. IsFiniteSet(1..Len(sweep[r])) /\ Cardinality(1..Len(sweep[r])) = Len(sweep[r])
    BY <1>1, UpTo
  <2>2. Cardinality(ClassLeft(r)) \in Nat
    BY <1>3, FS_CardinalityType
  <2>3. ClassLeft(r) \subseteq 1..Len(sweep[r])
    BY DEF ClassLeft
  <2>4. Cardinality(ClassLeft(r)) <= Cardinality(1..Len(sweep[r]))
    BY <2>1, <2>3, FS_Subset
  <2> QED
    BY <1>1, <2>1, <2>2, <2>4
<1>5. SubSeq(sweep[r], Cardinality(ClassLeft(r)) + 1, Len(sweep[r])) \in Seq(Entry)
  BY <1>1, <1>4, SubSeqProperties
<1> QED
  BY <1>2, <1>5

(* A step within an entry.                                                 *)
LEMMA GoesStep ==
  ASSUME Typed, NEW r \in Scanners, NEW p \in {"next", "boot", "dequeue", "resume"}, Goes(r, p)
  PROVE  ScanStep
BY DEF Typed, ShapeOK, ScanOK, Goes, ScanStep

(* A step of others.                                                       *)
LEMMA ScanKept ==
  ASSUME Typed, UNCHANGED scan
  PROVE  ScanStep
BY DEF Typed, ShapeOK, ScanOK, scan, ScanStep

(* Every step is such a step of the sweeps.                                *)
LEMMA ScanSteps ==
  ASSUME Typed, Next
  PROVE  ScanStep
<1>1. ASSUME NEW h \in Hosts, Cordon(h) PROVE ScanStep
  BY <1>1, ScanKept DEF Cordon
<1>2. ASSUME NEW h \in Hosts, Uncordon(h) PROVE ScanStep
  BY <1>2, ScanKept DEF Uncordon
<1>3. ASSUME NEW h \in Hosts, Measure(h) PROVE ScanStep
  BY <1>3, ScanKept DEF Measure
<1>4. ASSUME NEW t \in Placers, LockHost(t) PROVE ScanStep
  BY <1>4, ScanKept DEF LockHost
<1>5. ASSUME NEW r \in Scanners, StartSweep(r) PROVE ScanStep
  <2>1. tx'[r].phase = "off" /\ at' = at
    BY <1>5 DEF StartSweep, Typed, SweepsOK
  <2>2. PICK p \in [1..Len(queue) -> Queued] : sweep' = [sweep EXCEPT ![r] = [i \in
       1..Len(queue) |->
           [sess |-> p[i], origin |-> row[p[i]].origin, late |-> p[i] \in late]]]
    BY <1>5 DEF StartSweep
  <2> DEFINE e == [i \in 1..Len(queue) |->
           [sess |-> p[i], origin |-> row[p[i]].origin, late |-> p[i] \in late]]
  <2>3. e \in Seq(Entry)
    <3>1. Len(queue) \in Nat /\ Queued \subseteq Sessions
      BY LenProperties DEF Typed, ShapeOK, QueueOK
    <3>2. \A i \in 1..Len(queue) : e[i] \in Entry
      <4> SUFFICES ASSUME NEW i \in 1..Len(queue) PROVE e[i] \in Entry
        OBVIOUS
      <4>1. p[i] \in Sessions
        BY <3>1
      <4>2. row[p[i]].origin \in {"create", "resume"}
        BY <4>1, RowOf DEF Typed, ShapeOK
      <4>3. (p[i] \in late) \in BOOLEAN
        OBVIOUS
      <4> QED
        BY <4>1, <4>2, <4>3 DEF Entry
    <3> QED
      BY <3>1, <3>2, IsASeq
  <2> HIDE DEF e
  <2>4. sweep' = [sweep EXCEPT ![r] = e]
    BY <2>2 DEF e
  <2> QED
    BY <2>1, <2>3, <2>4 DEF Typed, ShapeOK, ScanOK, ScanStep
<1>6. ASSUME NEW r \in Scanners, TimeOutCreate(r) PROVE ScanStep
  <2>1. sweep[r] # <<>> /\ tx'[r].phase = "off"
    BY <1>6 DEF TimeOutCreate, At
  <2> QED
    BY <1>6, <2>1, RestOf, LeftStep DEF TimeOutCreate, SkipEntry
<1>7. ASSUME NEW r \in Scanners, TimeOutResume(r) PROVE ScanStep
  <2>1. sweep[r] # <<>> /\ tx'[r].phase = "off"
    BY <1>7 DEF TimeOutResume, At
  <2> QED
    BY <1>7, <2>1, RestOf, LeftStep DEF TimeOutResume, SkipEntry
<1>8. ASSUME NEW r \in Scanners, ImageGone(r) PROVE ScanStep
  <2>1. sweep[r] # <<>> /\ tx'[r].phase = "off"
    BY <1>8 DEF ImageGone, At, Now
  <2> QED
    BY <1>8, <2>1, RestOf, LeftStep DEF ImageGone, SkipEntry
<1>9. ASSUME NEW r \in Scanners, PlaceOpen(r) PROVE ScanStep
  BY <1>9, ScanKept DEF PlaceOpen
<1>10. ASSUME NEW r \in Scanners, PlaceNowhere(r) PROVE ScanStep
  <2>1. sweep[r] # <<>> /\ tx'[r].phase = "off"
    BY <1>10 DEF PlaceNowhere, At, Now
  <2> QED
    BY <1>10, <2>1, RestOf, LeftStep DEF PlaceNowhere, StopClass
<1>11. ASSUME NEW r \in Scanners, PlacePick(r) PROVE ScanStep
  <2>1. sweep[r] # <<>>
    BY <1>11 DEF PlacePick, Ready, Typed, SweepsOK
  <2>2. CASE Close(r) /\ StopClass(r)
    BY <2>1, <2>2, PlaceeOf, Closed, RestOf, LeftStep DEF StopClass
  <2>3. CASE UNCHANGED scan
    BY <2>3, ScanKept
  <2> QED
    BY <1>11, <2>2, <2>3 DEF PlacePick
<1>12. ASSUME NEW r \in Scanners, PlaceCommit(r) PROVE ScanStep
  <2>1. sweep[r] # <<>> /\ Close(r)
    BY <1>12 DEF PlaceCommit, Typed, SweepsOK
  <2>2. CASE StopClass(r)
    BY <2>1, <2>2, PlaceeOf, Closed, RestOf, LeftStep DEF StopClass
  <2>3. CASE Goes(r, "boot")
    BY <2>3, GoesStep
  <2> QED
    BY <1>12, <2>2, <2>3 DEF PlaceCommit
<1>13. ASSUME NEW r \in Scanners, EnqueueBootOp(r) PROVE ScanStep
  <2>1. sweep[r] # <<>> /\ tx'[r].phase = "off"
    BY <1>13 DEF EnqueueBootOp, At
  <2> QED
    BY <1>13, <2>1, RestOf, LeftStep DEF EnqueueBootOp, SkipEntry
<1>14. ASSUME NEW r \in Scanners, ResumeHasCapacity(r) PROVE ScanStep
  <2>1. sweep[r] # <<>> /\ tx'[r].phase = "off"
    BY <1>14 DEF ResumeHasCapacity, At, Now
  <2>2. CASE StopSweep(r)
    BY <2>1, <2>2, RestOf, LeftStep DEF StopSweep
  <2>3. CASE StopClass(r)
    BY <2>1, <2>3, RestOf, LeftStep DEF StopClass
  <2>4. CASE Goes(r, "dequeue")
    BY <2>4, GoesStep
  <2> QED
    BY <1>14, <2>2, <2>3, <2>4 DEF ResumeHasCapacity
<1>15. ASSUME NEW r \in Scanners, DequeueResume(r) PROVE ScanStep
  <2>1. sweep[r] # <<>> /\ tx'[r].phase = "off"
    BY <1>15 DEF DequeueResume, At
  <2>2. CASE SkipEntry(r)
    BY <2>1, <2>2, RestOf, LeftStep DEF SkipEntry
  <2>3. CASE Goes(r, "resume")
    BY <2>3, GoesStep
  <2> QED
    BY <1>15, <2>2, <2>3 DEF DequeueResume
<1>16. ASSUME NEW r \in Scanners, EnqueueResumeOp(r) PROVE ScanStep
  <2>1. sweep[r] # <<>> /\ tx'[r].phase = "off"
    BY <1>16 DEF EnqueueResumeOp, At
  <2> QED
    BY <1>16, <2>1, RestOf, LeftStep DEF EnqueueResumeOp, SkipEntry
<1>17. ASSUME NEW r \in Scanners, ScanFails(r) PROVE ScanStep
  <2>1. sweep[r] # <<>> /\ Close(r)
    BY <1>17 DEF ScanFails
  <2>2. tx'[r].phase = "off"
    BY <2>1, PlaceeOf, Closed
  <2>3. CASE SkipEntry(r)
    BY <2>1, <2>2, <2>3, RestOf, LeftStep DEF SkipEntry
  <2>4. CASE StopSweep(r)
    BY <2>1, <2>2, <2>4, RestOf, LeftStep DEF StopSweep
  <2> QED
    BY <1>17, <2>3, <2>4 DEF ScanFails
<1>18. ASSUME NEW s \in Sessions, CreateOpen(s) PROVE ScanStep
  BY <1>18, ScanKept DEF CreateOpen
<1>19. ASSUME NEW s \in Sessions, CreatePick(s) PROVE ScanStep
  BY <1>19, ScanKept DEF CreatePick
<1>20. ASSUME NEW s \in Sessions, CreatePlaced(s) PROVE ScanStep
  BY <1>20, ScanKept DEF CreatePlaced
<1>21. ASSUME NEW s \in Sessions, CreateQueued(s) PROVE ScanStep
  BY <1>21, ScanKept DEF CreateQueued
<1>22. ASSUME NEW s \in Sessions, CreateFails(s) PROVE ScanStep
  BY <1>22, ScanKept DEF CreateFails
<1>23. ASSUME NEW s \in Sessions, DirectDies(s) PROVE ScanStep
  BY <1>23, ScanKept DEF DirectDies
<1>24. ASSUME NEW s \in Sessions, Age(s) PROVE ScanStep
  BY <1>24, ScanKept DEF Age
<1>25. ASSUME NEW s \in Sessions, Backstop(s) PROVE ScanStep
  BY <1>25, ScanKept DEF Backstop
<1>26. ASSUME NEW s \in Sessions, NEW b \in Boots, RestoreAndBind(s, b) PROVE ScanStep
  BY <1>26, ScanKept DEF RestoreAndBind
<1>27. ASSUME NEW s \in Sessions, NEW b \in Boots, StartAgent(s, b) PROVE ScanStep
  BY <1>27, ScanKept DEF StartAgent
<1>28. ASSUME NEW s \in Sessions, NEW b \in Boots, Condemn(s, b) PROVE ScanStep
  BY <1>28, ScanKept DEF Condemn
<1>29. ASSUME NEW s \in Sessions, NEW k \in Keys, NEW b \in Slots, CreateBoot(s, k, b) PROVE ScanStep
  BY <1>29, ScanKept DEF CreateBoot
<1>30. ASSUME NEW s \in Sessions, BootLapses(s) PROVE ScanStep
  BY <1>30, ScanKept DEF BootLapses
<1>31. ASSUME NEW s \in Sessions, RequestResume(s) PROVE ScanStep
  BY <1>31, ScanKept DEF RequestResume
<1>32. ASSUME NEW s \in Sessions, ResumePreview(s) PROVE ScanStep
  BY <1>32, ScanKept DEF ResumePreview
<1>33. ASSUME NEW s \in Sessions, EnqueueSessionResume(s) PROVE ScanStep
  BY <1>33, ScanKept DEF EnqueueSessionResume
<1>34. ASSUME NEW s \in Sessions, RestoreForSession(s) PROVE ScanStep
  BY <1>34, ScanKept DEF RestoreForSession
<1>35. ASSUME NEW s \in Sessions, ResumeToActive(s) PROVE ScanStep
  BY <1>35, ScanKept DEF ResumeToActive
<1>36. ASSUME NEW s \in Sessions, ResumeFails(s) PROVE ScanStep
  BY <1>36, ScanKept DEF ResumeFails
<1>37. ASSUME NEW s \in Sessions, Evict(s) PROVE ScanStep
  BY <1>37, ScanKept DEF Evict
<1>38. ASSUME NEW s \in Sessions, Destroy(s) PROVE ScanStep
  BY <1>38, ScanKept DEF Destroy
<1> QED
  BY <1>1, <1>2, <1>3, <1>4, <1>5, <1>6, <1>7, <1>8, <1>9, <1>10, <1>11, <1>12, <1>13,
     <1>14, <1>15, <1>16, <1>17, <1>18, <1>19, <1>20, <1>21, <1>22, <1>23, <1>24, <1>25,
     <1>26, <1>27, <1>28, <1>29, <1>30, <1>31, <1>32, <1>33, <1>34, <1>35, <1>36, <1>37,
     <1>38 DEF Next, Scan, Request, Lane, Boot, Resume, Placers, Boots

-----------------------------------------------------------------------------
(* Types of the boots, of the ops, of the resumes and of the fault count.  *)

BootType == [Sessions -> [Boots -> {"off", "restore", "bound", "condemn"}]]

(* A boot moves to one of its places.                                      *)
LEMMA MovesType ==
  ASSUME Typed, NEW s \in Sessions, NEW b \in Boots,
         NEW pc \in {"off", "restore", "bound", "condemn"}, Moves(s, b, pc)
  PROVE  boot' \in BootType
BY DEF Typed, ShapeOK, LaneOK, Moves, BootType

(* The record of one session's ops is replaced.                            *)
LEMMA OpPut ==
  ASSUME Typed, NEW s \in Sessions, NEW v \in OpType, op' = [op EXCEPT ![s] = v]
  PROVE  op' \in [Sessions -> OpType]
BY DEF Typed, ShapeOK, LaneOK

(* An op record, field by field.                                           *)
LEMMA OpOf ==
  ASSUME Typed, NEW s \in Sessions
  PROVE  /\ op \in [Sessions -> OpType] /\ op[s] \in OpType
         /\ op[s].want \in SUBSET Keys /\ op[s].run \in Slots \union {None}
         /\ op[s].key \in Keys /\ "boot" \in Keys /\ "recover" \in Keys
BY DEF Typed, ShapeOK, LaneOK, OpType, Keys

(* An op that is queued again.                                             *)
LEMMA OpWaitsType ==
  ASSUME Typed, NEW s \in Sessions, OpWaits(s)
  PROVE  op' \in [Sessions -> OpType]
<1> DEFINE v == [op[s] EXCEPT !.run = None, !.key = "boot"]
<1>1. v \in OpType
  BY OpOf DEF OpType
<1>2. op' = [op EXCEPT ![s] = v]
  BY OpOf DEF OpWaits
<1> HIDE DEF v
<1> QED
  BY <1>1, <1>2, OpPut

(* An op that is done or failed for good.                                  *)
LEMMA OpEndsType ==
  ASSUME Typed, NEW s \in Sessions, NEW b, OpEnds(s, b)
  PROVE  op' \in [Sessions -> OpType]
<1> DEFINE v == [op[s] EXCEPT !.run = None, !.key = "boot", !.want = @ \ {op[s].key}]
<1>1. v \in OpType
  BY OpOf DEF OpType
<1>2. CASE op[s].run = b
  <2>1. op' = [op EXCEPT ![s] = v]
    BY <1>2, OpOf DEF OpEnds
  <2> HIDE DEF v
  <2> QED
    BY <1>1, <2>1, OpPut
<1>3. CASE op[s].run # b
  BY <1>3, OpOf DEF OpEnds
<1> QED
  BY <1>2, <1>3

(* The wanted ops of a session change.                                     *)
LEMMA WantType ==
  ASSUME Typed, NEW s \in Sessions, NEW w \in SUBSET Keys, op' = [op EXCEPT ![s].want = w]
  PROVE  op' \in [Sessions -> OpType]
<1> DEFINE v == [op[s] EXCEPT !.want = w]
<1>1. v \in OpType
  BY OpOf DEF OpType
<1>2. op' = [op EXCEPT ![s] = v]
  BY OpOf
<1> HIDE DEF v
<1> QED
  BY <1>1, <1>2, OpPut

(* The lane of a session as the two parts of its type.                     *)
LEMMA LaneParts ==
  ASSUME Typed
  PROVE  /\ boot \in BootType /\ op \in [Sessions -> OpType]
         /\ boot' \in BootType /\ op' \in [Sessions -> OpType] => LaneOK'
BY DEF Typed, ShapeOK, LaneOK, BootType

(* Every step keeps the types of the boots and of the ops.                 *)
LEMMA LaneTypes ==
  ASSUME Typed, Next
  PROVE  LaneOK'
<1>1. ASSUME NEW h \in Hosts, Cordon(h) PROVE LaneOK'
  BY <1>1, LaneParts DEF Cordon, ops
<1>2. ASSUME NEW h \in Hosts, Uncordon(h) PROVE LaneOK'
  BY <1>2, LaneParts DEF Uncordon, ops
<1>3. ASSUME NEW h \in Hosts, Measure(h) PROVE LaneOK'
  BY <1>3, LaneParts DEF Measure, ops
<1>4. ASSUME NEW t \in Placers, LockHost(t) PROVE LaneOK'
  BY <1>4, LaneParts DEF LockHost, ops
<1>5. ASSUME NEW r \in Scanners, StartSweep(r) PROVE LaneOK'
  BY <1>5, LaneParts DEF StartSweep, ops
<1>6. ASSUME NEW r \in Scanners, TimeOutCreate(r) PROVE LaneOK'
  BY <1>6, LaneParts DEF TimeOutCreate, ops
<1>7. ASSUME NEW r \in Scanners, TimeOutResume(r) PROVE LaneOK'
  BY <1>7, LaneParts DEF TimeOutResume, ops
<1>8. ASSUME NEW r \in Scanners, ImageGone(r) PROVE LaneOK'
  BY <1>8, LaneParts DEF ImageGone, ops
<1>9. ASSUME NEW r \in Scanners, PlaceOpen(r) PROVE LaneOK'
  BY <1>9, LaneParts DEF PlaceOpen, ops
<1>10. ASSUME NEW r \in Scanners, PlaceNowhere(r) PROVE LaneOK'
  BY <1>10, LaneParts DEF PlaceNowhere, ops
<1>11. ASSUME NEW r \in Scanners, PlacePick(r) PROVE LaneOK'
  BY <1>11, LaneParts DEF PlacePick, ops
<1>12. ASSUME NEW r \in Scanners, PlaceCommit(r) PROVE LaneOK'
  BY <1>12, LaneParts DEF PlaceCommit, ops
<1>13. ASSUME NEW r \in Scanners, EnqueueBootOp(r) PROVE LaneOK'
  <2>1. Sess(r) \in Sessions
    BY <1>13, SessOf DEF EnqueueBootOp, At
  <2>2. op' = [op EXCEPT ![Sess(r)].want = op[Sess(r)].want \union {"boot"}] /\ boot' =
       boot
    BY <1>13 DEF EnqueueBootOp
  <2>3. op[Sess(r)].want \union {"boot"} \in SUBSET Keys
    BY <2>1, OpOf
  <2>4. op' \in [Sessions -> OpType]
    BY <2>1, <2>2, <2>3, WantType
  <2> QED
    BY <2>2, <2>4, LaneParts
<1>14. ASSUME NEW r \in Scanners, ResumeHasCapacity(r) PROVE LaneOK'
  BY <1>14, LaneParts DEF ResumeHasCapacity, ops
<1>15. ASSUME NEW r \in Scanners, DequeueResume(r) PROVE LaneOK'
  BY <1>15, LaneParts DEF DequeueResume, ops
<1>16. ASSUME NEW r \in Scanners, EnqueueResumeOp(r) PROVE LaneOK'
  BY <1>16, LaneParts DEF EnqueueResumeOp, ops
<1>17. ASSUME NEW r \in Scanners, ScanFails(r) PROVE LaneOK'
  BY <1>17, LaneParts DEF ScanFails, ops
<1>18. ASSUME NEW s \in Sessions, CreateOpen(s) PROVE LaneOK'
  BY <1>18, LaneParts DEF CreateOpen, ops
<1>19. ASSUME NEW s \in Sessions, CreatePick(s) PROVE LaneOK'
  BY <1>19, LaneParts DEF CreatePick, ops
<1>20. ASSUME NEW s \in Sessions, CreatePlaced(s) PROVE LaneOK'
  <2>1. boot' \in BootType
    BY <1>20, MovesType DEF CreatePlaced, Moves, Boots
  <2> QED
    BY <1>20, <2>1, LaneParts DEF CreatePlaced
<1>21. ASSUME NEW s \in Sessions, CreateQueued(s) PROVE LaneOK'
  BY <1>21, LaneParts DEF CreateQueued, ops
<1>22. ASSUME NEW s \in Sessions, CreateFails(s) PROVE LaneOK'
  BY <1>22, LaneParts DEF CreateFails, ops
<1>23. ASSUME NEW s \in Sessions, DirectDies(s) PROVE LaneOK'
  <2>1. boot' \in BootType
    BY <1>23, MovesType DEF DirectDies, Boots
  <2> QED
    BY <1>23, <2>1, LaneParts DEF DirectDies
<1>24. ASSUME NEW s \in Sessions, Age(s) PROVE LaneOK'
  BY <1>24, LaneParts DEF Age, ops
<1>25. ASSUME NEW s \in Sessions, Backstop(s) PROVE LaneOK'
  <2>1. op' \in [Sessions -> OpType]
    <3>1. {"recover"} \in SUBSET Keys
      BY DEF Keys
    <3> QED
      BY <1>25, <3>1, WantType DEF Backstop
  <2> QED
    BY <1>25, <2>1, LaneParts DEF Backstop
<1>26. ASSUME NEW s \in Sessions, NEW b \in Boots, RestoreAndBind(s, b) PROVE LaneOK'
  <2>1. boot' \in BootType
    BY <1>26, MovesType DEF RestoreAndBind
  <2>2. op' \in [Sessions -> OpType]
    <3>1. CASE NotStarted(s, b)
      BY <3>1, OpWaitsType, OpEndsType, LaneParts DEF NotStarted
    <3>2. CASE op' = op
      BY <3>2, LaneParts
    <3> QED
      BY <1>26, <3>1, <3>2 DEF RestoreAndBind
  <2> QED
    BY <2>1, <2>2, LaneParts
<1>27. ASSUME NEW s \in Sessions, NEW b \in Boots, StartAgent(s, b) PROVE LaneOK'
  <2>1. boot' \in BootType
    BY <1>27, MovesType DEF StartAgent
  <2>2. op' \in [Sessions -> OpType]
    BY <1>27, OpEndsType DEF StartAgent
  <2> QED
    BY <2>1, <2>2, LaneParts
<1>28. ASSUME NEW s \in Sessions, NEW b \in Boots, Condemn(s, b) PROVE LaneOK'
  <2>1. boot' \in BootType
    BY <1>28, MovesType DEF Condemn
  <2>2. op' \in [Sessions -> OpType]
    BY <1>28, OpEndsType DEF Condemn
  <2> QED
    BY <2>1, <2>2, LaneParts
<1>29. ASSUME NEW s \in Sessions, NEW k \in Keys, NEW b \in Slots, CreateBoot(s, k, b) PROVE LaneOK'
  <2>0. b \in Boots
    BY DEF Boots
  <2>1. CASE row[s].st \in {"pending", "created"}
    <3>1. boot' \in BootType
      BY <1>29, <2>0, <2>1, MovesType DEF CreateBoot
    <3> DEFINE v == [op[s] EXCEPT !.run = b, !.key = k]
    <3>2. v \in OpType
      BY OpOf DEF OpType
    <3>3. op' = [op EXCEPT ![s] = v]
      BY <1>29, <2>1, OpOf DEF CreateBoot
    <3> HIDE DEF v
    <3> QED
      BY <3>1, <3>2, <3>3, OpPut, LaneParts
  <2>2. CASE row[s].st \notin {"pending", "created"}
    <3>1. op' = [op EXCEPT ![s].want = op[s].want \ {k}] /\ boot' = boot
      BY <1>29, <2>2 DEF CreateBoot
    <3>2. op[s].want \ {k} \in SUBSET Keys
      BY OpOf
    <3>3. op' \in [Sessions -> OpType]
      BY <3>1, <3>2, WantType
    <3> QED
      BY <3>1, <3>3, LaneParts
  <2> QED
    BY <2>1, <2>2
<1>30. ASSUME NEW s \in Sessions, BootLapses(s) PROVE LaneOK'
  <2>1. op' \in [Sessions -> OpType]
    BY <1>30, OpWaitsType DEF BootLapses
  <2>2. op[s].run \in Boots
    BY <1>30, OpOf DEF BootLapses, Boots
  <2>3. boot' \in BootType
    BY <1>30, <2>2, MovesType, LaneParts DEF BootLapses
  <2> QED
    BY <2>1, <2>3, LaneParts
<1>31. ASSUME NEW s \in Sessions, RequestResume(s) PROVE LaneOK'
  BY <1>31, LaneParts DEF RequestResume, ops
<1>32. ASSUME NEW s \in Sessions, ResumePreview(s) PROVE LaneOK'
  BY <1>32, LaneParts DEF ResumePreview, ops
<1>33. ASSUME NEW s \in Sessions, EnqueueSessionResume(s) PROVE LaneOK'
  BY <1>33, LaneParts DEF EnqueueSessionResume, ops
<1>34. ASSUME NEW s \in Sessions, RestoreForSession(s) PROVE LaneOK'
  BY <1>34, LaneParts DEF RestoreForSession, ops
<1>35. ASSUME NEW s \in Sessions, ResumeToActive(s) PROVE LaneOK'
  BY <1>35, LaneParts DEF ResumeToActive, ops
<1>36. ASSUME NEW s \in Sessions, ResumeFails(s) PROVE LaneOK'
  BY <1>36, LaneParts DEF ResumeFails, ops
<1>37. ASSUME NEW s \in Sessions, Evict(s) PROVE LaneOK'
  BY <1>37, LaneParts DEF Evict, ops
<1>38. ASSUME NEW s \in Sessions, Destroy(s) PROVE LaneOK'
  BY <1>38, LaneParts DEF Destroy, ops
<1> QED
  BY <1>1, <1>2, <1>3, <1>4, <1>5, <1>6, <1>7, <1>8, <1>9, <1>10, <1>11, <1>12, <1>13,
     <1>14, <1>15, <1>16, <1>17, <1>18, <1>19, <1>20, <1>21, <1>22, <1>23, <1>24, <1>25,
     <1>26, <1>27, <1>28, <1>29, <1>30, <1>31, <1>32, <1>33, <1>34, <1>35, <1>36, <1>37,
     <1>38 DEF Next, Scan, Request, Lane, Boot, Resume, Placers, Boots

(* The resume of one session is replaced.                                  *)
LEMMA AsksType ==
  ASSUME Typed, NEW s \in Sessions,
         NEW pc \in {"off", "queued", "pick", "enqueue", "restored"}, Asks(s, pc)
  PROVE  resume' \in [Sessions -> ResumeType]
<1>1. resume \in [Sessions -> ResumeType]
  BY DEF Typed, ShapeOK, AskedOK
<1>2. [resume[s] EXCEPT !.pc = pc] \in ResumeType
  BY <1>1 DEF ResumeType
<1> QED
  BY <1>1, <1>2 DEF Asks

(* The resumes as the two parts of their type.                             *)
LEMMA AskedParts ==
  ASSUME Typed
  PROVE  /\ resume \in [Sessions -> ResumeType] /\ resumes \in 0..MaxResume
         /\ resume' \in [Sessions -> ResumeType] /\ resumes' \in 0..MaxResume => AskedOK'
         /\ NoResume \in ResumeType
BY DEF Typed, ShapeOK, AskedOK, NoResume, ResumeType

(* Every step keeps the types of the resumes.                              *)
LEMMA AskedTypes ==
  ASSUME Typed, Next
  PROVE  AskedOK'
<1>1. ASSUME NEW h \in Hosts, Cordon(h) PROVE AskedOK'
  BY <1>1, AskedParts DEF Cordon, asked
<1>2. ASSUME NEW h \in Hosts, Uncordon(h) PROVE AskedOK'
  BY <1>2, AskedParts DEF Uncordon, asked
<1>3. ASSUME NEW h \in Hosts, Measure(h) PROVE AskedOK'
  BY <1>3, AskedParts DEF Measure, asked
<1>4. ASSUME NEW t \in Placers, LockHost(t) PROVE AskedOK'
  BY <1>4, AskedParts DEF LockHost, asked
<1>5. ASSUME NEW r \in Scanners, StartSweep(r) PROVE AskedOK'
  BY <1>5, AskedParts DEF StartSweep, asked
<1>6. ASSUME NEW r \in Scanners, TimeOutCreate(r) PROVE AskedOK'
  BY <1>6, AskedParts DEF TimeOutCreate, asked
<1>7. ASSUME NEW r \in Scanners, TimeOutResume(r) PROVE AskedOK'
  BY <1>7, AskedParts DEF TimeOutResume, asked
<1>8. ASSUME NEW r \in Scanners, ImageGone(r) PROVE AskedOK'
  BY <1>8, AskedParts DEF ImageGone, asked
<1>9. ASSUME NEW r \in Scanners, PlaceOpen(r) PROVE AskedOK'
  BY <1>9, AskedParts DEF PlaceOpen, asked
<1>10. ASSUME NEW r \in Scanners, PlaceNowhere(r) PROVE AskedOK'
  BY <1>10, AskedParts DEF PlaceNowhere, asked
<1>11. ASSUME NEW r \in Scanners, PlacePick(r) PROVE AskedOK'
  BY <1>11, AskedParts DEF PlacePick, asked
<1>12. ASSUME NEW r \in Scanners, PlaceCommit(r) PROVE AskedOK'
  BY <1>12, AskedParts DEF PlaceCommit, asked
<1>13. ASSUME NEW r \in Scanners, EnqueueBootOp(r) PROVE AskedOK'
  BY <1>13, AskedParts DEF EnqueueBootOp, asked
<1>14. ASSUME NEW r \in Scanners, ResumeHasCapacity(r) PROVE AskedOK'
  BY <1>14, AskedParts DEF ResumeHasCapacity, asked
<1>15. ASSUME NEW r \in Scanners, DequeueResume(r) PROVE AskedOK'
  BY <1>15, AskedParts DEF DequeueResume, asked
<1>16. ASSUME NEW r \in Scanners, EnqueueResumeOp(r) PROVE AskedOK'
  <2>1. Sess(r) \in Sessions
    BY <1>16, SessOf DEF EnqueueResumeOp, At
  <2>2. PICK pc \in {"off", "queued", "pick", "enqueue", "restored"} : Asks(Sess(r), pc)
    <3>1. resume[Sess(r)].pc \in {"off", "queued", "pick", "enqueue", "restored"}
      BY <2>1, AskedParts DEF ResumeType
    <3>2. Asks(Sess(r), IF resume[Sess(r)].pc = "off" THEN "queued" ELSE
       resume[Sess(r)].pc)
      BY <1>16 DEF EnqueueResumeOp, Asks
    <3> QED
      BY <3>1, <3>2
  <2>3. resume' \in [Sessions -> ResumeType]
    BY <2>1, <2>2, AsksType
  <2> QED
    BY <1>16, <2>3, AskedParts DEF EnqueueResumeOp
<1>17. ASSUME NEW r \in Scanners, ScanFails(r) PROVE AskedOK'
  BY <1>17, AskedParts DEF ScanFails, asked
<1>18. ASSUME NEW s \in Sessions, CreateOpen(s) PROVE AskedOK'
  BY <1>18, AskedParts DEF CreateOpen, asked
<1>19. ASSUME NEW s \in Sessions, CreatePick(s) PROVE AskedOK'
  BY <1>19, AskedParts DEF CreatePick, asked
<1>20. ASSUME NEW s \in Sessions, CreatePlaced(s) PROVE AskedOK'
  BY <1>20, AskedParts DEF CreatePlaced, asked
<1>21. ASSUME NEW s \in Sessions, CreateQueued(s) PROVE AskedOK'
  BY <1>21, AskedParts DEF CreateQueued, asked
<1>22. ASSUME NEW s \in Sessions, CreateFails(s) PROVE AskedOK'
  BY <1>22, AskedParts DEF CreateFails, asked
<1>23. ASSUME NEW s \in Sessions, DirectDies(s) PROVE AskedOK'
  BY <1>23, AskedParts DEF DirectDies, asked
<1>24. ASSUME NEW s \in Sessions, Age(s) PROVE AskedOK'
  BY <1>24, AskedParts DEF Age, asked
<1>25. ASSUME NEW s \in Sessions, Backstop(s) PROVE AskedOK'
  BY <1>25, AskedParts DEF Backstop, asked
<1>26. ASSUME NEW s \in Sessions, NEW b \in Boots, RestoreAndBind(s, b) PROVE AskedOK'
  BY <1>26, AskedParts DEF RestoreAndBind, asked
<1>27. ASSUME NEW s \in Sessions, NEW b \in Boots, StartAgent(s, b) PROVE AskedOK'
  BY <1>27, AskedParts DEF StartAgent, asked
<1>28. ASSUME NEW s \in Sessions, NEW b \in Boots, Condemn(s, b) PROVE AskedOK'
  BY <1>28, AskedParts DEF Condemn, asked
<1>29. ASSUME NEW s \in Sessions, NEW k \in Keys, NEW b \in Slots, CreateBoot(s, k, b) PROVE AskedOK'
  BY <1>29, AskedParts DEF CreateBoot, asked
<1>30. ASSUME NEW s \in Sessions, BootLapses(s) PROVE AskedOK'
  BY <1>30, AskedParts DEF BootLapses, asked
<1>31. ASSUME NEW s \in Sessions, RequestResume(s) PROVE AskedOK'
  <2>1. resume' \in [Sessions -> ResumeType]
    BY <1>31, AsksType DEF RequestResume
  <2>2. resumes' \in 0..MaxResume
    BY <1>31, AskedParts, PlacementAssumption DEF RequestResume
  <2> QED
    BY <2>1, <2>2, AskedParts
<1>32. ASSUME NEW s \in Sessions, ResumePreview(s) PROVE AskedOK'
  <2>1. resume' \in [Sessions -> ResumeType]
    BY <1>32, AsksType DEF ResumePreview
  <2> QED
    BY <1>32, <2>1, AskedParts DEF ResumePreview
<1>33. ASSUME NEW s \in Sessions, EnqueueSessionResume(s) PROVE AskedOK'
  <2>1. resume' \in [Sessions -> ResumeType]
    BY <1>33, AsksType DEF EnqueueSessionResume
  <2> QED
    BY <1>33, <2>1, AskedParts DEF EnqueueSessionResume
<1>34. ASSUME NEW s \in Sessions, RestoreForSession(s) PROVE AskedOK'
  <2>1. resume' \in [Sessions -> ResumeType]
    <3>1. CASE Asks(s, "queued")
      BY <3>1, AsksType
    <3>2. CASE ~Asks(s, "queued")
      <4>1. PICK h \in PickFrom(s) : resume' = [resume EXCEPT ![s] = [pc |-> "restored",
       host |-> h]]
        BY <1>34, <3>2 DEF RestoreForSession
      <4>2. PickFrom(s) \subseteq Hosts
        BY DEF PickFrom, BestFit, Schedulable
      <4>3. [pc |-> "restored", host |-> h] \in ResumeType
        BY <4>1, <4>2 DEF ResumeType
      <4> QED
        BY <4>1, <4>3, AskedParts
    <3> QED
      BY <3>1, <3>2
  <2> QED
    BY <1>34, <2>1, AskedParts DEF RestoreForSession
<1>35. ASSUME NEW s \in Sessions, ResumeToActive(s) PROVE AskedOK'
  <2>1. resume' \in [Sessions -> ResumeType]
    BY <1>35, AskedParts DEF ResumeToActive
  <2> QED
    BY <1>35, <2>1, AskedParts DEF ResumeToActive
<1>36. ASSUME NEW s \in Sessions, ResumeFails(s) PROVE AskedOK'
  <2>1. resume' \in [Sessions -> ResumeType]
    BY <1>36, AskedParts DEF ResumeFails
  <2> QED
    BY <1>36, <2>1, AskedParts DEF ResumeFails
<1>37. ASSUME NEW s \in Sessions, Evict(s) PROVE AskedOK'
  BY <1>37, AskedParts DEF Evict, asked
<1>38. ASSUME NEW s \in Sessions, Destroy(s) PROVE AskedOK'
  BY <1>38, AskedParts DEF Destroy, asked
<1> QED
  BY <1>1, <1>2, <1>3, <1>4, <1>5, <1>6, <1>7, <1>8, <1>9, <1>10, <1>11, <1>12, <1>13,
     <1>14, <1>15, <1>16, <1>17, <1>18, <1>19, <1>20, <1>21, <1>22, <1>23, <1>24, <1>25,
     <1>26, <1>27, <1>28, <1>29, <1>30, <1>31, <1>32, <1>33, <1>34, <1>35, <1>36, <1>37,
     <1>38 DEF Next, Scan, Request, Lane, Boot, Resume, Placers, Boots

(* A step without a fault.                                                 *)
LEMMA FaultKept ==
  ASSUME Typed, UNCHANGED faults
  PROVE  FaultsOK'
BY DEF Typed, ShapeOK, FaultsOK

(* A step with one: the guard keeps the bound.                             *)
LEMMA FaultCounted ==
  ASSUME Typed, Fault
  PROVE  FaultsOK'
BY PlacementAssumption DEF Typed, ShapeOK, FaultsOK, Fault

(* Every step keeps the bound on the faults.                               *)
LEMMA FaultTypes ==
  ASSUME Typed, Next
  PROVE  FaultsOK'
<1>1. ASSUME NEW h \in Hosts, Cordon(h) PROVE FaultsOK'
  BY <1>1, FaultCounted DEF Cordon
<1>2. ASSUME NEW h \in Hosts, Uncordon(h) PROVE FaultsOK'
  BY <1>2, FaultKept DEF Uncordon
<1>3. ASSUME NEW h \in Hosts, Measure(h) PROVE FaultsOK'
  BY <1>3, FaultCounted DEF Measure
<1>4. ASSUME NEW t \in Placers, LockHost(t) PROVE FaultsOK'
  BY <1>4, FaultKept DEF LockHost
<1>5. ASSUME NEW r \in Scanners, StartSweep(r) PROVE FaultsOK'
  BY <1>5, FaultKept DEF StartSweep
<1>6. ASSUME NEW r \in Scanners, TimeOutCreate(r) PROVE FaultsOK'
  BY <1>6, FaultKept DEF TimeOutCreate
<1>7. ASSUME NEW r \in Scanners, TimeOutResume(r) PROVE FaultsOK'
  BY <1>7, FaultKept DEF TimeOutResume
<1>8. ASSUME NEW r \in Scanners, ImageGone(r) PROVE FaultsOK'
  BY <1>8, FaultKept DEF ImageGone
<1>9. ASSUME NEW r \in Scanners, PlaceOpen(r) PROVE FaultsOK'
  BY <1>9, FaultKept DEF PlaceOpen
<1>10. ASSUME NEW r \in Scanners, PlaceNowhere(r) PROVE FaultsOK'
  BY <1>10, FaultKept DEF PlaceNowhere
<1>11. ASSUME NEW r \in Scanners, PlacePick(r) PROVE FaultsOK'
  BY <1>11, FaultKept DEF PlacePick
<1>12. ASSUME NEW r \in Scanners, PlaceCommit(r) PROVE FaultsOK'
  BY <1>12, FaultKept DEF PlaceCommit
<1>13. ASSUME NEW r \in Scanners, EnqueueBootOp(r) PROVE FaultsOK'
  BY <1>13, FaultKept DEF EnqueueBootOp
<1>14. ASSUME NEW r \in Scanners, ResumeHasCapacity(r) PROVE FaultsOK'
  BY <1>14, FaultKept DEF ResumeHasCapacity
<1>15. ASSUME NEW r \in Scanners, DequeueResume(r) PROVE FaultsOK'
  BY <1>15, FaultKept DEF DequeueResume
<1>16. ASSUME NEW r \in Scanners, EnqueueResumeOp(r) PROVE FaultsOK'
  BY <1>16, FaultKept DEF EnqueueResumeOp
<1>17. ASSUME NEW r \in Scanners, ScanFails(r) PROVE FaultsOK'
  BY <1>17, FaultCounted DEF ScanFails
<1>18. ASSUME NEW s \in Sessions, CreateOpen(s) PROVE FaultsOK'
  BY <1>18, FaultKept DEF CreateOpen
<1>19. ASSUME NEW s \in Sessions, CreatePick(s) PROVE FaultsOK'
  BY <1>19, FaultKept DEF CreatePick
<1>20. ASSUME NEW s \in Sessions, CreatePlaced(s) PROVE FaultsOK'
  BY <1>20, FaultKept DEF CreatePlaced
<1>21. ASSUME NEW s \in Sessions, CreateQueued(s) PROVE FaultsOK'
  BY <1>21, FaultKept DEF CreateQueued
<1>22. ASSUME NEW s \in Sessions, CreateFails(s) PROVE FaultsOK'
  BY <1>22, FaultCounted DEF CreateFails
<1>23. ASSUME NEW s \in Sessions, DirectDies(s) PROVE FaultsOK'
  BY <1>23, FaultCounted DEF DirectDies
<1>24. ASSUME NEW s \in Sessions, Age(s) PROVE FaultsOK'
  BY <1>24, FaultKept DEF Age
<1>25. ASSUME NEW s \in Sessions, Backstop(s) PROVE FaultsOK'
  BY <1>25, FaultKept DEF Backstop
<1>26. ASSUME NEW s \in Sessions, NEW b \in Boots, RestoreAndBind(s, b) PROVE FaultsOK'
  <2>1. CASE NotStarted(s, b)
    BY <2>1, FaultKept, FaultCounted DEF NotStarted, BootFailed
  <2>2. CASE UNCHANGED faults
    BY <2>2, FaultKept
  <2> QED
    BY <1>26, <2>1, <2>2 DEF RestoreAndBind
<1>27. ASSUME NEW s \in Sessions, NEW b \in Boots, StartAgent(s, b) PROVE FaultsOK'
  BY <1>27, FaultKept, FaultCounted DEF StartAgent, BootFailed
<1>28. ASSUME NEW s \in Sessions, NEW b \in Boots, Condemn(s, b) PROVE FaultsOK'
  BY <1>28, FaultKept, FaultCounted DEF Condemn, BootFailed
<1>29. ASSUME NEW s \in Sessions, NEW k \in Keys, NEW b \in Slots, CreateBoot(s, k, b) PROVE FaultsOK'
  BY <1>29, FaultKept DEF CreateBoot
<1>30. ASSUME NEW s \in Sessions, BootLapses(s) PROVE FaultsOK'
  BY <1>30, FaultCounted DEF BootLapses
<1>31. ASSUME NEW s \in Sessions, RequestResume(s) PROVE FaultsOK'
  BY <1>31, FaultKept DEF RequestResume
<1>32. ASSUME NEW s \in Sessions, ResumePreview(s) PROVE FaultsOK'
  BY <1>32, FaultKept, FaultCounted DEF ResumePreview
<1>33. ASSUME NEW s \in Sessions, EnqueueSessionResume(s) PROVE FaultsOK'
  BY <1>33, FaultKept DEF EnqueueSessionResume
<1>34. ASSUME NEW s \in Sessions, RestoreForSession(s) PROVE FaultsOK'
  BY <1>34, FaultKept DEF RestoreForSession
<1>35. ASSUME NEW s \in Sessions, ResumeToActive(s) PROVE FaultsOK'
  BY <1>35, FaultKept DEF ResumeToActive
<1>36. ASSUME NEW s \in Sessions, ResumeFails(s) PROVE FaultsOK'
  BY <1>36, FaultCounted DEF ResumeFails
<1>37. ASSUME NEW s \in Sessions, Evict(s) PROVE FaultsOK'
  BY <1>37, FaultKept DEF Evict
<1>38. ASSUME NEW s \in Sessions, Destroy(s) PROVE FaultsOK'
  BY <1>38, FaultKept DEF Destroy
<1> QED
  BY <1>1, <1>2, <1>3, <1>4, <1>5, <1>6, <1>7, <1>8, <1>9, <1>10, <1>11, <1>12, <1>13,
     <1>14, <1>15, <1>16, <1>17, <1>18, <1>19, <1>20, <1>21, <1>22, <1>23, <1>24, <1>25,
     <1>26, <1>27, <1>28, <1>29, <1>30, <1>31, <1>32, <1>33, <1>34, <1>35, <1>36, <1>37,
     <1>38 DEF Next, Scan, Request, Lane, Boot, Resume, Placers, Boots

-----------------------------------------------------------------------------
(* The invariant, part by part.                                            *)

(* The other rows are as they were, and the written one is what is written. *)
LEMMA Wrote ==
  ASSUME Typed, NEW s \in Sessions, NEW v \in RowType, Writes(s, v)
  PROVE  /\ row'[s] = v /\ \A q \in Sessions : q # s => row'[q] = row[q]
         /\ RowsOK'
BY DEF Typed, ShapeOK, RowsOK, Writes

(* Typing of the table, and the queue is still an order of what is queued. *)
LEMMA TableTyped ==
  ASSUME Typed, TableStep
  PROVE  RowsOK' /\ QueueOK'
<1>0. RowsOK /\ QueueOK
  BY DEF Typed, ShapeOK
<1>1. CASE row' = row /\ queue' = queue /\ late' \subseteq Queued
  BY <1>0, <1>1 DEF RowsOK, QueueOK, Queued
<1>2. ASSUME NEW s \in Sessions, NEW v \in RowType, Writes(s, v) PROVE RowsOK' /\ QueueOK'
  <2>1. /\ row'[s] = v /\ \A q \in Sessions : q # s => row'[q] = row[q]
        /\ RowsOK'
    BY <1>2, Wrote
  <2>2. Queued = {q \in Sessions : row[q].st = "queued"}
    BY <1>0 DEF QueueOK
  <2>3. CASE v.st # "queued" /\ Leaves(s)
    <3>1. Queued \ {s} = {q \in Sessions : row'[q].st = "queued"}
      BY <2>1, <2>2, <2>3
    <3> QED
      BY <1>0, <2>1, <2>3, <3>1, LeavesQueue DEF QueueOK
  <2>4. CASE /\ v.st = "queued" /\ row[s].st # "queued"
             /\ queue' = Append(queue, s) /\ late' = late
    <3>1. Queued \union {s} = {q \in Sessions : row'[q].st = "queued"} /\ s \notin Queued
      BY <2>1, <2>2, <2>4
    <3> QED
      BY <1>0, <2>1, <2>4, <3>1, AppendQueue DEF QueueOK
  <2>5. CASE v.st # "queued" /\ row[s].st # "queued" /\ queue' = queue /\ late' = late
    <3>1. Queued = {q \in Sessions : row'[q].st = "queued"}
      BY <2>1, <2>2, <2>5
    <3>2. Queued' = Queued
      BY <2>5 DEF Queued
    <3> QED
      BY <1>0, <2>1, <2>5, <3>1, <3>2 DEF QueueOK
  <2> QED
    BY <1>2, <2>3, <2>4, <2>5 DEF Writes, QueueStep
<1> QED
  BY <1>1, <1>2 DEF TableStep

(* Bindings and bookings stay with the statuses that may have them.        *)
LEMMA BindingsKept ==
  ASSUME Typed, BoundOK, BookedOK, TableStep
  PROVE  BoundOK' /\ BookedOK'
<1>1. CASE row' = row
  BY <1>1 DEF BoundOK, BookedOK
<1>2. ASSUME NEW s \in Sessions, NEW v \in RowType, Writes(s, v) PROVE BoundOK' /\ BookedOK'
  <2>1. row'[s] = v /\ \A q \in Sessions : q # s => row'[q] = row[q]
    BY <1>2, Wrote
  <2>2. row[s].vm # None => row[s].st \in {"created", "active"}
    BY DEF BoundOK
  <2>3. row[s].booked => row[s].st \in Reserving
    BY DEF BookedOK
  <2>4. RowStep(row[s], v)
    BY <1>2 DEF Writes
  <2>5. v.vm # None => v.st \in {"created", "active"}
    BY <2>2, <2>4 DEF RowStep
  <2>6. v.booked => v.st \in Reserving
    BY <2>3, <2>4 DEF RowStep, Reserving
  <2>7. BoundOK'
    BY <2>1, <2>5 DEF BoundOK
  <2>8. BookedOK'
    BY <2>1, <2>6 DEF BookedOK
  <2> QED
    BY <2>7, <2>8
<1> QED
  BY <1>1, <1>2 DEF TableStep

(* A host row of the new state.                                            *)
LEMMA HostTyped ==
  ASSUME Typed, HostStep
  PROVE  HostsOK'
BY DEF Typed, ShapeOK, HostsOK, HostStep

(* A step of the transactions changes one of them, in one of four ways.    *)
Locks(t, h) == /\ tx[t].phase = "lock" /\ Unlocked(h) /\ tx'[t].phase = "lock"
               /\ NextRow(t, h) /\ tx'[t].todo = tx[t].todo \ {h}
               /\ \/ tx'[t].held = tx[t].held
                  \/ tx'[t].held = tx[t].held \union {h} /\ hosts[h].up
TxOne(t) ==
  \/ tx'[t] = NoTx
  \/ Opens(t) /\ tx'[t].phase = "lock" /\ tx'[t].held = {}
  \/ UNCHANGED hosts /\ \E h \in Hosts : Locks(t, h)
  \/ \E h : /\ Chosen(t, h) /\ tx[t].phase = "lock"
            /\ tx'[t].phase = "commit" /\ tx'[t].host = h
            /\ tx'[t].held = tx[t].held /\ tx'[t].todo = tx[t].todo

(* The host that may be chosen is one of the locked ones.                  *)
LEMMA ChosenHeld ==
  ASSUME NEW S, NEW s, NEW h \in ChoosePlacementHost(S, s)
  PROVE  h \in S
BY DEF ChoosePlacementHost, BestFit

(* The transactions keep their type, and at most one of them moves.        *)
LEMMA TxCases ==
  ASSUME Typed, TxStep
  PROVE  /\ TxOK'
         /\ \/ UNCHANGED tx
            \/ \E t \in Placers : /\ \A u \in Placers : u # t => tx'[u] = tx[u]
                                  /\ TxOne(t)
<1>0. tx \in [Placers -> TxType]
  BY DEF Typed, ShapeOK, TxOK
<1> DEFINE Goal == /\ TxOK'
                   /\ \E t \in Placers : /\ \A u \in Placers : u # t => tx'[u] = tx[u]
                                         /\ TxOne(t)
<1>1. CASE UNCHANGED tx
  BY <1>0, <1>1 DEF TxOK
<1>2. ASSUME NEW t \in Placers, NEW v \in TxType, tx' = [tx EXCEPT ![t] = v], TxOne(t)
      PROVE  Goal
  BY <1>0, <1>2 DEF TxOK
<1>3. ASSUME NEW t \in Placers, Close(t) PROVE Goal
  <2>1. NoTx \in TxType /\ tx' = [tx EXCEPT ![t] = NoTx]
    BY <1>3 DEF NoTx, TxType, Close
  <2>2. TxOne(t)
    BY <1>0, <2>1 DEF TxOne
  <2> QED
    BY <1>2, <2>1, <2>2
<1>4. ASSUME NEW t \in Placers, Opens(t) PROVE Goal
  <2> DEFINE v == [NoTx EXCEPT !.phase = "lock", !.todo = Schedulable]
  <2>1. v \in TxType /\ v.phase = "lock" /\ v.held = {}
    BY DEF NoTx, TxType, Schedulable
  <2>2. tx' = [tx EXCEPT ![t] = v]
    BY <1>4 DEF Opens, Open
  <2> HIDE DEF v
  <2>3. TxOne(t)
    BY <1>0, <1>4, <2>1, <2>2 DEF TxOne
  <2> QED
    BY <1>2, <2>1, <2>2, <2>3
<1>5. ASSUME NEW t \in Placers, LockHost(t) PROVE Goal
  <2>1. PICK h \in tx[t].todo :
          /\ Unlocked(h) /\ NextRow(t, h)
          /\ tx' = [tx EXCEPT ![t].todo = @ \ {h},
                              ![t].held = IF hosts[h].up THEN @ \union {h} ELSE @]
    BY <1>5 DEF LockHost
  <2> DEFINE n == IF hosts[h].up THEN tx[t].held \union {h} ELSE tx[t].held
             v == [tx[t] EXCEPT !.todo = @ \ {h}, !.held = n]
  <2>2. h \in Hosts /\ tx[t].phase = "lock" /\ UNCHANGED hosts
    BY <1>0, <1>5, <2>1 DEF TxType, LockHost
  <2>3. n \in SUBSET Hosts
    BY <1>0, <2>2 DEF TxType
  <2>4. n = tx[t].held \/ (n = tx[t].held \union {h} /\ hosts[h].up)
    OBVIOUS
  <2>5. tx' = [tx EXCEPT ![t] = v]
    BY <1>0, <2>1
  <2> HIDE DEF n
  <2>6. v \in TxType /\ v.phase = "lock" /\ v.held = n /\ v.todo = tx[t].todo \ {h}
    BY <1>0, <2>2, <2>3 DEF TxType
  <2> HIDE DEF v
  <2>7. Locks(t, h)
    BY <1>0, <2>1, <2>2, <2>4, <2>5, <2>6 DEF Locks
  <2>8. TxOne(t)
    BY <2>2, <2>7 DEF TxOne
  <2> QED
    BY <1>2, <2>5, <2>6, <2>8
<1>6. ASSUME NEW t \in Placers, NEW h, Chosen(t, h) PROVE Goal
  <2> DEFINE v == [tx[t] EXCEPT !.phase = "commit", !.host = h]
  <2>1. tx[t] \in TxType /\ tx[t].phase = "lock" /\ tx[t].held \in SUBSET Hosts
    BY <1>0, <1>6 DEF Chosen, Ready, TxType
  <2>2. h \in Hosts \union {None}
    BY <1>6, <2>1, ChosenHeld DEF Chosen
  <2>3. /\ v \in TxType /\ v.phase = "commit" /\ v.held = tx[t].held
        /\ v.host = h /\ v.todo = tx[t].todo
    BY <2>1, <2>2 DEF TxType
  <2>4. tx' = [tx EXCEPT ![t] = v]
    BY <1>0, <1>6 DEF Chosen, Picks
  <2> HIDE DEF v
  <2>5. TxOne(t)
    BY <1>0, <1>6, <2>1, <2>3, <2>4 DEF TxOne
  <2> QED
    BY <1>2, <2>3, <2>4, <2>5
<1> HIDE DEF Goal
<1>7. UNCHANGED tx \/ Goal
  BY <1>3, <1>4, <1>5, <1>6 DEF TxStep
<1> QED
  BY <1>1, <1>7 DEF Goal

(* An open create has no row yet, and an open pick of a sweep an entry.    *)
LEMMA OpenKept ==
  ASSUME Typed, TableStep, TxStep, ScanStep
  PROVE  RequestsOK' /\ SweepsOK'
<1>1. ASSUME NEW t \in Placers, tx'[t].phase # "off"
      PROVE  tx[t].phase # "off" \/ Opens(t)
  <2>1. CASE UNCHANGED tx
    BY <1>1, <2>1
  <2>2. ASSUME NEW u \in Placers, \A x \in Placers : x # u => tx'[x] = tx[x], TxOne(u)
        PROVE  tx[t].phase # "off" \/ Opens(t)
    BY <1>1, <2>2 DEF TxOne, Locks, NoTx
  <2> QED
    BY <2>1, <2>2, TxCases
<1>2. ASSUME NEW s \in Sessions, tx'[s].phase # "off" PROVE row'[s].st = "new"
  <2>1. row[s].st = "new"
    BY <1>1, <1>2, PlaceeOf DEF Opens, Typed, RequestsOK
  <2>2. ASSUME NEW q \in Sessions, NEW v \in RowType, Writes(q, v) PROVE row'[s] = row[s]
    <3>1. \A x \in Sessions : x # q => row'[x] = row[x]
      BY <2>2, Wrote
    <3>2. q # s
      BY <1>2, <2>1, <2>2 DEF Writes
    <3> QED
      BY <3>1, <3>2
  <2> QED
    BY <2>1, <2>2 DEF TableStep
<1>3. ASSUME NEW r \in Scanners, tx'[r].phase # "off" PROVE sweep'[r] # <<>>
  <2>1. sweep[r] # <<>>
    BY <1>1, <1>3, PlaceeOf DEF Opens, Typed, SweepsOK
  <2> QED
    BY <1>3, <2>1 DEF ScanStep
<1> QED
  BY <1>2, <1>3 DEF RequestsOK, SweepsOK

(* What is locked stays schedulable, and locked by one transaction: a row  *)
(* is locked only when no one holds it, and not written while it is held.  *)
LEMMA LocksKept ==
  ASSUME Typed, HeldUp, HeldOnce, TxStep, HostStep
  PROVE  HeldUp' /\ HeldOnce'
<1>1. CASE UNCHANGED <<tx, hosts>>
  BY <1>1 DEF HeldUp, HeldOnce
<1>2. CASE UNCHANGED tx /\ ~UNCHANGED hosts
  <2>1. PICK h \in Hosts, v \in HostType : Unlocked(h) /\ hosts' = [hosts EXCEPT ![h] = v]
    BY <1>2 DEF HostStep
  <2>2. \A t \in Placers : \A g \in tx[t].held : g \in Hosts /\ g # h
    BY <2>1 DEF Unlocked, Typed, ShapeOK, TxOK, TxType
  <2>3. \A t \in Placers : \A g \in tx[t].held : hosts'[g] = hosts[g]
    BY <2>1, <2>2 DEF Typed, ShapeOK, HostsOK
  <2> QED
    BY <1>2, <2>3 DEF HeldUp, HeldOnce
<1>3. ASSUME NEW t \in Placers, \A u \in Placers : u # t => tx'[u] = tx[u], TxOne(t),
             UNCHANGED hosts
      PROVE  HeldUp' /\ HeldOnce'
  <2>1. CASE tx'[t].held \subseteq tx[t].held
    BY <1>3, <2>1 DEF HeldUp, HeldOnce
  <2>2. ASSUME NEW h \in Hosts, Locks(t, h) PROVE HeldUp' /\ HeldOnce'
    <3>1. CASE tx'[t].held = tx[t].held \union {h} /\ hosts[h].up
      <4>1. \A u \in Placers : h \notin tx[u].held
        BY <2>2 DEF Locks, Unlocked
      <4>2. HeldUp'
        BY <1>3, <3>1 DEF HeldUp
      <4>3. HeldOnce'
        BY <1>3, <3>1, <4>1 DEF HeldOnce
      <4> QED
        BY <4>2, <4>3
    <3> QED
      BY <2>1, <2>2, <3>1 DEF Locks
  <2> QED
    BY <1>3, <2>1, <2>2 DEF TxOne, NoTx
<1> QED
  BY <1>1, <1>2, <1>3, TxCases DEF HostStep

(* The next row to lock is above the ones that are locked.                 *)
LEMMA OrderKept ==
  ASSUME Typed, InOrder, TxStep
  PROVE  InOrder'
<1>1. CASE UNCHANGED tx
  BY <1>1 DEF InOrder
<1>2. ASSUME NEW t \in Placers, \A u \in Placers : u # t => tx'[u] = tx[u], TxOne(t)
      PROVE  InOrder'
  <2>1. CASE tx'[t].held = {}
    BY <1>2, <2>1 DEF InOrder
  <2>2. CASE tx'[t].held = tx[t].held /\ tx'[t].todo \subseteq tx[t].todo
    BY <1>2, <2>2 DEF InOrder
  <2>3. ASSUME NEW h \in Hosts, Locks(t, h) PROVE InOrder'
    <3>1. /\ tx'[t].todo = tx[t].todo \ {h} /\ tx'[t].held \subseteq tx[t].held \union {h}
          /\ \A g \in tx[t].todo : h <= g
      BY <2>3 DEF Locks, NextRow
    <3>2. h \in Nat /\ tx[t].todo \subseteq Nat
      BY PlacementAssumption DEF Typed, ShapeOK, TxOK, TxType
    <3>3. \A g \in tx[t].todo \ {h} : h < g
      BY <3>1, <3>2
    <3>4. \A x \in tx'[t].held, g \in tx'[t].todo : x < g
      BY <3>1, <3>3 DEF InOrder
    <3> QED
      BY <1>2, <3>4 DEF InOrder
  <2> QED
    BY <1>2, <2>1, <2>2, <2>3 DEF TxOne, NoTx
<1> QED
  BY <1>1, <1>2, TxCases
-----------------------------------------------------------------------------
(* Room for what is picked.                                                *)

(* What is booked on a host is among what the pick sums there.             *)
LEMMA BookedBelow ==
  ASSUME NEW h, NEW d \in {"mem", "cpu"}
  PROVE  /\ On(h) \in SUBSET Sessions /\ Booked(h) \in SUBSET Sessions
         /\ Load(On(h), d) \in Nat /\ Load(Booked(h), d) \in Nat
         /\ Load(Booked(h), d) <= Load(On(h), d)
<1>1. On(h) \in SUBSET Sessions /\ Booked(h) \in SUBSET On(h)
  BY DEF On, Booked
<1>2. Load(On(h), d) \in Nat /\ Load(Booked(h), d) \in Nat
  BY <1>1, LoadFinite
<1>3. Load(Booked(h), d) <= Load(On(h), d)
  BY <1>1, LoadMonotone
<1> QED
  BY <1>1, <1>2, <1>3

(* The needs of a session and the budgets of a host are natural numbers.   *)
LEMMA Numbers ==
  ASSUME Typed, NEW h \in Hosts, NEW s \in Sessions
  PROVE  /\ Need[s].mem \in Nat /\ Need[s].cpu \in Nat
         /\ hosts[h].mem \in Nat /\ hosts[h].cpu \in Nat
BY PlacementAssumption DEF Budget, Typed, ShapeOK, HostsOK, HostType

(* The host that choose_placement_host chooses has room.                   *)
LEMMA ChosenRoom ==
  ASSUME Typed, NEW S \in SUBSET Hosts, NEW s \in Sessions,
         NEW h \in ChoosePlacementHost(S, s)
  PROVE  RoomFor(h, s)
<1>1. h \in Hosts
  BY ChosenHeld
<1>2. Unmeasured(h) \/ Fits(h, s)
  BY DEF ChoosePlacementHost, BestFit
<1>3. CASE Fits(h, s)
  <2>1. /\ hosts[h].mem - Load(On(h), "mem") >= Need[s].mem
        /\ hosts[h].cpu = 0 \/ hosts[h].cpu - Load(On(h), "cpu") >= Need[s].cpu
    BY <1>3 DEF Fits, Free, CpuFits
  <2>2. /\ Load(On(h), "mem") \in Nat /\ Load(Booked(h), "mem") \in Nat
        /\ Load(Booked(h), "mem") <= Load(On(h), "mem")
    BY BookedBelow
  <2>3. /\ Load(On(h), "cpu") \in Nat /\ Load(Booked(h), "cpu") \in Nat
        /\ Load(Booked(h), "cpu") <= Load(On(h), "cpu")
    BY BookedBelow
  <2>4. Load(Booked(h), "mem") + Need[s].mem <= hosts[h].mem
    BY <1>1, <2>1, <2>2, Numbers
  <2>5. hosts[h].cpu = 0 \/ Load(Booked(h), "cpu") + Need[s].cpu <= hosts[h].cpu
    BY <1>1, <2>1, <2>3, Numbers
  <2> QED
    BY <2>4, <2>5 DEF RoomFor
<1> QED
  BY <1>2, <1>3 DEF RoomFor

(* While a transaction holds the host it picked, nothing is booked there   *)
(* by others: they would hold it too.                                      *)
LEMMA BookedShrinks ==
  ASSUME Typed, BookedOK, HeldOnce, TableStep, NEW t \in Placers,
         tx[t].phase = "commit", tx[t].host # None, tx'[t] = tx[t]
  PROVE  Booked(tx[t].host)' \subseteq Booked(tx[t].host)
<1> DEFINE g == tx[t].host
<1>0. /\ Booked(g) = {q \in Sessions : row[q].st \in Reserving /\ row[q].host = g /\ row[q].booked}
      /\ Booked(tx[t].host)' = {q \in Sessions : row'[q].st \in Reserving /\ row'[q].host = g /\ row'[q].booked}
  BY DEF Booked, On
<1>1. CASE row' = row
  BY <1>0, <1>1
<1>2. ASSUME NEW s \in Sessions, NEW v \in RowType, Writes(s, v)
      PROVE  Booked(tx[t].host)' \subseteq Booked(g)
  <2>1. row'[s] = v /\ \A q \in Sessions : q # s => row'[q] = row[q]
    BY <1>2, Wrote
  <2>2. ~(v.st = "pending" /\ v.host = g)
    <3> SUFFICES ASSUME v.st = "pending", v.host = g PROVE FALSE
      OBVIOUS
    <3>1. PICK u \in Placers : Commits(u, s, g)
      BY <1>2 DEF Writes
    <3>2. tx[u].phase = "commit" /\ tx[u].host = g /\ g # None /\ tx'[u].phase = "off"
      BY <3>1, Closed DEF Commits
    <3>3. u # t
      BY <3>2
    <3>4. g \in tx[u].held /\ g \in tx[t].held
      BY <3>2 DEF Typed, PickedOK
    <3> QED
      BY <3>3, <3>4 DEF HeldOnce
  <2>3. RowStep(row[s], v)
    BY <1>2 DEF Writes
  <2>4. row[s].booked => row[s].st \in Reserving
    BY DEF BookedOK
  <2>5. v.st \in Reserving /\ v.host = g /\ v.booked
          => row[s].st \in Reserving /\ row[s].host = g /\ row[s].booked
    BY <2>2, <2>3, <2>4 DEF RowStep, Reserving
  <2> HIDE DEF g
  <2> QED
    BY <1>0, <2>1, <2>5
<1> QED
  BY <1>1, <1>2 DEF TableStep

(* The pick is still good at the next state.                               *)
LEMMA PickKept ==
  ASSUME Typed, BookedOK, HeldOnce, TableStep, HostStep, ScanStep, NEW t \in Placers,
         tx[t].phase = "commit", tx[t].host # None, tx'[t] = tx[t]
  PROVE  RoomFor(tx[t].host, Placee(t))'
<1> DEFINE g == tx[t].host
           p == Placee(t)
<1>1. g \in Hosts /\ g \in tx[t].held /\ RoomFor(g, p)
  BY PickOf DEF Typed, PickedOK
<1>2. p \in Sessions /\ Placee(t)' = p
  <2>1. CASE t \in Sessions
    BY <2>1 DEF Placee
  <2>2. CASE t \in Scanners
    <3>1. sweep[t] # <<>> /\ sweep'[t] = sweep[t]
      BY <2>2 DEF Typed, SweepsOK, ScanStep
    <3> QED
      BY <2>2, <3>1, SessOf, PlaceeOf, PlacementAssumption DEF Placee, Sess, Front
  <2> QED
    BY <2>1, <2>2 DEF Placers
<1>3. hosts'[g] = hosts[g]
  <2>1. CASE UNCHANGED hosts
    BY <2>1
  <2>2. ASSUME NEW h \in Hosts, NEW v \in HostType, Unlocked(h), hosts' = [hosts EXCEPT ![h] = v]
        PROVE  hosts'[g] = hosts[g]
    BY <1>1, <2>2 DEF Unlocked, Typed, ShapeOK, HostsOK
  <2> QED
    BY <2>1, <2>2 DEF HostStep
<1>4. tx'[t].host = g
  OBVIOUS
<1> DEFINE B == Booked(tx[t].host)'
<1>5. B \in SUBSET Booked(g) /\ Booked(g) \in SUBSET Sessions
  BY BookedShrinks, BookedBelow
<1>6. /\ Load(B, "mem") \in Nat /\ Load(Booked(g), "mem") \in Nat
      /\ Load(B, "mem") <= Load(Booked(g), "mem")
  BY <1>5, LoadFinite, LoadMonotone
<1>7. /\ Load(B, "cpu") \in Nat /\ Load(Booked(g), "cpu") \in Nat
      /\ Load(B, "cpu") <= Load(Booked(g), "cpu")
  BY <1>5, LoadFinite, LoadMonotone
<1>8. RoomFor(tx[t].host, Placee(t))' <=>
        \/ hosts'[g].mem = 0
        \/ /\ Load(B, "mem") + Need[p].mem <= hosts'[g].mem
           /\ hosts'[g].cpu = 0 \/ Load(B, "cpu") + Need[p].cpu <= hosts'[g].cpu
  BY <1>2, <1>4 DEF RoomFor, Unmeasured, Load
<1>9. RoomFor(g, p) <=>
        \/ hosts[g].mem = 0
        \/ /\ Load(Booked(g), "mem") + Need[p].mem <= hosts[g].mem
           /\ hosts[g].cpu = 0 \/ Load(Booked(g), "cpu") + Need[p].cpu <= hosts[g].cpu
  BY DEF RoomFor, Unmeasured
<1>10. /\ Need[p].mem \in Nat /\ Need[p].cpu \in Nat
       /\ hosts[g].mem \in Nat /\ hosts[g].cpu \in Nat
  BY <1>1, <1>2, Numbers
<1> HIDE DEF B, g, p
<1> QED
  BY <1>1, <1>3, <1>6, <1>7, <1>8, <1>9, <1>10

(* Every pick is good when it is made, and stays so until its commit.      *)
LEMMA PicksKept ==
  ASSUME Typed, BookedOK, HeldOnce, TableStep, HostStep, ScanStep, TxStep
  PROVE  PickedOK'
<1> DEFINE Good(t) == /\ t \in Scanners => tx'[t].host # None
                      /\ tx'[t].host # None => /\ tx'[t].host \in tx'[t].held
                                               /\ RoomFor(tx[t].host, Placee(t))'
<1>1. ASSUME NEW t \in Placers, tx'[t].phase = "commit", tx'[t] = tx[t] PROVE Good(t)
  BY <1>1, PickKept DEF Typed, PickedOK
<1>2. ASSUME NEW t \in Placers, NEW h, Chosen(t, h), tx[t].phase = "lock",
             tx'[t].held = tx[t].held, tx'[t].host = h
      PROVE  Good(t)
  <2>1. row' = row /\ hosts' = hosts /\ sweep' = sweep
    BY <1>2 DEF Chosen, table
  <2>2. CASE h = None /\ t \in Sessions
    BY <1>2, <2>2, PlacementAssumption
  <2>3. CASE h \in ChoosePlacementHost(tx[t].held, Placee(t))
    <3>1. tx[t].held \in SUBSET Hosts
      BY DEF Typed, ShapeOK, TxOK, TxType
    <3>2. Placee(t) \in Sessions
      BY <1>2, PlaceeOf, SessOf DEF Typed, SweepsOK, Placers
    <3>3. h \in tx[t].held /\ RoomFor(h, Placee(t))
      BY <2>3, <3>1, <3>2, ChosenHeld, ChosenRoom
    <3>4. h # None
      BY <3>1, <3>3, PlacementAssumption
    <3>5. Placee(t)' = Placee(t)
      BY <2>1 DEF Placee, Sess, Front
    <3>6. RoomFor(tx[t].host, Placee(t))' <=> RoomFor(h, Placee(t))
      BY <1>2, <2>1, <3>5 DEF RoomFor, Unmeasured, Load, Booked, On
    <3> QED
      BY <1>2, <3>3, <3>4, <3>6
  <2> QED
    BY <1>2, <2>2, <2>3 DEF Chosen
<1>3. ASSUME NEW t \in Placers, tx'[t].phase = "commit" PROVE Good(t)
  <2>1. CASE tx'[t] = tx[t]
    BY <1>1, <1>3, <2>1
  <2>2. CASE TxOne(t)
    BY <1>2, <1>3, <2>2 DEF TxOne, Locks, NoTx
  <2> QED
    BY <2>1, <2>2, TxCases
<1> QED
  BY <1>3 DEF PickedOK
-----------------------------------------------------------------------------
(* The theorems.                                                           *)

(* The parts of the invariant that a step needs.                           *)
LEMMA Parts ==
  ASSUME IInv
  PROVE  Typed /\ BoundOK /\ BookedOK /\ HeldUp /\ HeldOnce /\ InOrder
BY DEF IInv, Typed

(* A step keeps the inductive invariant.                                   *)
LEMMA StepKept ==
  ASSUME IInv, Next
  PROVE  IInv'
<1>1. Typed /\ BoundOK /\ BookedOK /\ HeldUp /\ HeldOnce /\ InOrder
  BY Parts
<1>2. TableStep /\ HostStep /\ TxStep /\ ScanStep
  BY <1>1, TableSteps, HostSteps, TxSteps, ScanSteps
<1>3. RowsOK' /\ QueueOK' /\ HostsOK' /\ TxOK'
  BY <1>1, <1>2, TableTyped, HostTyped, TxCases
<1>4. ScanOK' /\ LaneOK' /\ AskedOK' /\ FaultsOK'
  BY <1>1, <1>2, LaneTypes, AskedTypes, FaultTypes DEF ScanStep
<1>5. BoundOK' /\ BookedOK'
  BY <1>1, <1>2, BindingsKept
<1>6. RequestsOK' /\ SweepsOK'
  BY <1>1, <1>2, OpenKept
<1>7. HeldUp' /\ HeldOnce' /\ InOrder'
  BY <1>1, <1>2, LocksKept, OrderKept
<1>8. PickedOK'
  BY <1>1, <1>2, PicksKept
<1> QED
  BY <1>3, <1>4, <1>5, <1>6, <1>7, <1>8 DEF IInv, ShapeOK

(* The invariant holds at the start: no rows, no transactions, no sweeps.  *)
LEMMA InitInv ==
  ASSUME Init
  PROVE  IInv
<1>1. RowsOK
  <2>1. NewRow \in RowType
    BY DEF NewRow, RowType, Status
  <2> QED
    BY <2>1 DEF Init, RowsOK
<1>2. \A s \in Sessions : row[s].st = "new" /\ row[s].vm = None /\ row[s].booked = FALSE
  BY DEF Init, NewRow
<1>3. QueueOK
  <2>1. queue = <<>> /\ late = {}
    BY DEF Init
  <2>2. Len(queue) = 0 /\ queue \in Seq(Sessions) /\ Queued = {}
    BY <2>1, EmptySeq DEF Queued
  <2> QED
    BY <1>2, <2>1, <2>2 DEF QueueOK
<1>4. HostsOK
  BY PlacementAssumption DEF Init, HostsOK, HostType, Budget
<1>5. \A t \in Placers : tx[t] = NoTx /\ tx[t].phase = "off" /\ tx[t].held = {}
  BY DEF Init, NoTx
<1>6. TxOK
  BY DEF Init, TxOK, TxType, NoTx
<1>7. ScanOK
  BY EmptySeq DEF Init, ScanOK
<1>8. LaneOK
  BY DEF Init, LaneOK, OpType, NoOp, Keys
<1>9. AskedOK /\ FaultsOK
  BY PlacementAssumption DEF Init, AskedOK, FaultsOK, ResumeType, NoResume
<1>10. BoundOK /\ BookedOK
  BY <1>2 DEF BoundOK, BookedOK
<1>11. RequestsOK /\ SweepsOK /\ HeldUp /\ HeldOnce /\ InOrder /\ PickedOK
  BY <1>5, PlaceeOf DEF RequestsOK, SweepsOK, HeldUp, HeldOnce, InOrder, PickedOK
<1> QED
  BY <1>1, <1>3, <1>4, <1>6, <1>7, <1>8, <1>9, <1>10, <1>11 DEF IInv, ShapeOK

(* A step that changes nothing keeps it.                                   *)
LEMMA StutterKept ==
  ASSUME IInv, UNCHANGED vars
  PROVE  IInv'
<1>0. UNCHANGED <<row, queue, late, hosts, tx, sweep, at, boot, op, resume, resumes, faults>>
  BY DEF vars
<1>1. ShapeOK'
  BY <1>0 DEF IInv, ShapeOK, RowsOK, QueueOK, Queued, HostsOK, TxOK, ScanOK, LaneOK, AskedOK,
              FaultsOK
<1>2. (BoundOK /\ BookedOK /\ RequestsOK /\ SweepsOK /\ HeldUp /\ HeldOnce /\ InOrder)'
  BY <1>0 DEF IInv, BoundOK, BookedOK, RequestsOK, SweepsOK, HeldUp, HeldOnce, InOrder
<1>3. PickedOK'
  <2>1. \A t, h : RoomFor(h, Placee(t))' <=> RoomFor(h, Placee(t))
    BY <1>0 DEF RoomFor, Unmeasured, Load, Booked, On, Placee, Sess, Front
  <2> QED
    BY <1>0, <2>1 DEF IInv, PickedOK
<1> QED
  BY <1>1, <1>2, <1>3 DEF IInv

(* The inductive invariant, for any number of sessions, hosts, scanners,   *)
(* executors, resumes and faults and for any budgets.                      *)
THEOREM Invariance == Spec => []IInv
<1>1. IInv /\ [Next]_vars => IInv'
  BY StepKept, StutterKept
<1> QED
  BY <1>1, InitInv, PTL DEF Spec

(* Types, and that the queue is an order without repetition of exactly the *)
(* rows whose status is queued: every statement that changes a status of a *)
(* row (create, place, time out, dequeue, fail, destroy) moves it in or    *)
(* out of the queue.                                                       *)
THEOREM TypeCorrect == Spec => []TypeOK
<1>1. IInv => TypeOK
  <2> SUFFICES ASSUME IInv PROVE TypeOK
    OBVIOUS
  <2>1. Len(queue) = Cardinality(Queued)
    BY QueueLength DEF IInv, ShapeOK
  <2> QED
    BY <2>1 DEF IInv, ShapeOK, RowsOK, QueueOK, HostsOK, TxOK, ScanOK, LaneOK, AskedOK,
                FaultsOK, TypeOK, RowType, HostType, TxType, OpType, ResumeType
<1> QED
  BY <1>1, Invariance, PTL

(* A non-empty set of hosts has a greatest one: the one with the fewest    *)
(* hosts above it.                                                         *)
LEMMA Greatest ==
  ASSUME NEW S \in SUBSET Hosts, S # {}
  PROVE  \E m \in S : \A x \in S : x <= m
<1> DEFINE Above(x) == {g \in Hosts : x < g}
           C == {Cardinality(Above(x)) : x \in S}
<1>1. Hosts \subseteq Nat /\ IsFiniteSet(Hosts)
  BY PlacementAssumption
<1>2. \A x \in Hosts : IsFiniteSet(Above(x)) /\ Cardinality(Above(x)) \in Nat
  <2> SUFFICES ASSUME NEW x \in Hosts
               PROVE  IsFiniteSet(Above(x)) /\ Cardinality(Above(x)) \in Nat
    OBVIOUS
  <2>1. IsFiniteSet(Above(x))
    BY <1>1, FS_Subset
  <2> QED
    BY <2>1, FS_CardinalityType
<1>3. C \subseteq Nat /\ C # {}
  <2>1. PICK x \in S : TRUE
    OBVIOUS
  <2>2. Cardinality(Above(x)) \in C
    OBVIOUS
  <2> QED
    BY <1>2, <2>2
<1>4. \E n \in C : \A k \in C : ~(<<k, n>> \in OpToRel(<, Nat))
  BY <1>3, WFMin, NatLessThanWellFounded
<1>5. PICK n \in C : \A k \in C : ~(k < n)
  BY <1>3, <1>4 DEF OpToRel
<1>6. PICK m \in S : n = Cardinality(Above(m))
  BY <1>5
<1>7. ASSUME NEW x \in S, m < x PROVE FALSE
  <2>1. m \in Nat /\ x \in Nat /\ x \in Hosts /\ m \in Hosts
    BY <1>1
  <2>2. Above(x) \subseteq Above(m) /\ x \in Above(m) /\ x \notin Above(x)
    <3>1. \A g \in Hosts : g \in Nat
      BY <1>1
    <3>2. \A g \in Hosts : x < g => m < g
      BY <1>7, <2>1, <3>1
    <3>3. ~(x < x)
      BY <2>1
    <3> QED
      BY <1>7, <2>1, <3>2, <3>3
  <2>3. Above(x) # Above(m)
    BY <2>2
  <2>4. Cardinality(Above(x)) < Cardinality(Above(m))
    <3>1. IsFiniteSet(Above(m)) /\ IsFiniteSet(Above(x))
      BY <1>2, <2>1
    <3> HIDE DEF Above
    <3> QED
      BY <2>2, <2>3, <3>1, FS_Subset, FS_CardinalityType
  <2>5. Cardinality(Above(x)) \in C
    OBVIOUS
  <2> QED
    BY <1>5, <1>6, <2>4, <2>5
<1>8. \A x \in S : x <= m
  BY <1>1, <1>7
<1> QED
  BY <1>8

(* Placers that lock host rows one after the other do not all wait for     *)
(* each other: the holder of the greatest row that is waited for waits for *)
(* no row, since it would be a greater one.                                *)
THEOREM NoPickDeadlock == Spec => []SomePickGoesOn
<1>1. ASSUME IInv, NEW t \in Placers, Blocked(t),
             \A u \in Placers : tx[u].held # {} => Blocked(u)
      PROVE  FALSE
  <2> DEFINE Wants(u, h) == h \in tx[u].todo /\ ~Unlocked(h)
             W == {h \in Hosts : \E u \in Placers : Wants(u, h)}
  <2>1. \A u \in Placers : tx[u].todo \subseteq Hosts
    BY <1>1 DEF IInv, ShapeOK, TxOK, TxType
  <2>2. \A u \in Placers : Blocked(u) => \E h \in tx[u].todo : h \in W
    BY <2>1 DEF Blocked
  <2>3. W \in SUBSET Hosts /\ W # {}
    BY <1>1, <2>2
  <2>4. PICK m \in W : \A x \in W : x <= m
    BY <2>3, Greatest
  <2>5. PICK u \in Placers : m \in tx[u].held
    BY <2>4 DEF Unlocked
  <2>6. PICK g \in tx[u].todo : g \in W
    BY <1>1, <2>2, <2>5
  <2>7. m < g /\ g <= m
    BY <1>1, <2>4, <2>5, <2>6 DEF IInv, InOrder
  <2>8. m \in Nat /\ g \in Nat
    BY <2>3, <2>4, <2>6, PlacementAssumption
  <2> HIDE DEF W
  <2> QED
    BY <2>7, <2>8
<1>2. IInv => SomePickGoesOn
  BY <1>1 DEF SomePickGoesOn
<1> QED
  BY <1>2, Invariance, PTL

(* Of the boots that overlap the first to bind keeps the row, until the    *)
(* session goes idle or ends: no other boot's transition_session_created   *)
(* or delete_pending_session touches it.                                   *)
THEOREM FirstBindingStays == Spec => FirstBootWins
<1>1. ASSUME IInv, Next, NEW s \in Sessions, row[s].vm # None
      PROVE  \/ row'[s].vm = row[s].vm /\ row'[s].st \in {"created", "active"}
             \/ row'[s].vm = None /\ row'[s].st \in {"idle", "over"}
  <2>1. Typed /\ row[s].st \in {"created", "active"}
    BY <1>1, Parts DEF BoundOK
  <2>2. ASSUME NEW q \in Sessions, NEW v \in RowType, Writes(q, v)
        PROVE  \/ row'[s].vm = row[s].vm /\ row'[s].st \in {"created", "active"}
               \/ row'[s].vm = None /\ row'[s].st \in {"idle", "over"}
    <3>1. row'[q] = v /\ \A x \in Sessions : x # q => row'[x] = row[x]
      BY <2>1, <2>2, Wrote
    <3>2. RowStep(row[q], v)
      BY <2>2 DEF Writes
    <3>3. CASE q # s
      BY <2>1, <3>1, <3>3
    <3>4. CASE q = s
      BY <1>1, <2>1, <3>1, <3>2, <3>4 DEF RowStep
    <3> QED
      BY <3>3, <3>4
  <2> QED
    BY <1>1, <2>1, <2>2, TableSteps DEF TableStep
<1>2. IInv /\ [Next]_vars => [\A s \in Sessions : row[s].vm # None =>
        \/ row'[s].vm = row[s].vm /\ row'[s].st \in {"created", "active"}
        \/ row'[s].vm = None /\ row'[s].st \in {"idle", "over"}]_vars
  BY <1>1
<1> QED
  BY <1>2, Invariance, PTL DEF Spec, FirstBootWins

(* What a create or a scanner commits fits: the host is schedulable at the *)
(* commit and everything booked on it is within its budgets, whatever      *)
(* other placers, heartbeats, cordons, boots and resumes did since the     *)
(* sum.                                                                    *)
THEOREM ReservationsFit == Spec => CommitsFit
<1>1. ASSUME IInv, Next, NEW s \in Sessions, NEW h \in Hosts,
             row[s].st \notin Reserving, row'[s].st = "pending", row'[s].host = h
      PROVE  hosts[h].up /\ Within(h)'
  <2>1. Typed /\ HeldUp /\ TableStep
    BY <1>1, Parts, TableSteps
  <2>2. row'[s] # row[s]
    BY <1>1 DEF Reserving
  <2>3. PICK q \in Sessions, v \in RowType : Writes(q, v)
    BY <2>1, <2>2 DEF TableStep
  <2>4. row'[q] = v /\ \A x \in Sessions : x # q => row'[x] = row[x]
    BY <2>1, <2>3, Wrote
  <2>5. q = s /\ row'[s] = v
    BY <2>2, <2>4
  <2>6. PICK t \in Placers : Commits(t, s, h)
    BY <1>1, <2>3, <2>5 DEF Writes
  <2>7. /\ tx[t].phase = "commit" /\ tx[t].host = h /\ h # None
        /\ s = Placee(t) /\ hosts' = hosts
    BY <2>6 DEF Commits
  <2>8. h \in tx[t].held /\ RoomFor(h, s)
    BY <2>1, <2>7 DEF Typed, PickedOK
  <2>9. hosts[h].up
    BY <2>1, <2>8 DEF HeldUp
  <2> DEFINE A == Booked(h)
             B == Booked(h)'
  <2>10. B \in SUBSET (A \union {s}) /\ A \in SUBSET Sessions /\ A \union {s} \in SUBSET Sessions
    <3>1. A = {x \in Sessions : row[x].st \in Reserving /\ row[x].host = h /\ row[x].booked}
      BY DEF Booked, On
    <3>2. B = {x \in Sessions : row'[x].st \in Reserving /\ row'[x].host = h /\ row'[x].booked}
      BY DEF Booked, On
    <3> QED
      BY <2>4, <2>5, <3>1, <3>2
  <2> HIDE DEF A, B
  <2>11. ASSUME NEW d \in {"mem", "cpu"}
         PROVE  /\ Load(A, d) \in Nat /\ Load(B, d) \in Nat /\ Need[s][d] \in Nat
                /\ Load(B, d) <= Load(A, d) + Need[s][d]
    <3>1. /\ Load(A, d) \in Nat /\ Load(B, d) \in Nat /\ Need[s][d] \in Nat
          /\ Load(A \union {s}, d) \in Nat
      BY <2>10, LoadFinite, PlacementAssumption DEF Budget
    <3>2. Load(B, d) <= Load(A \union {s}, d)
      BY <2>10, LoadMonotone
    <3>3. Load(A \union {s}, d) <= Load(A, d) + Need[s][d]
      BY <2>10, LoadAdd
    <3> QED
      BY <3>1, <3>2, <3>3
  <2>12. Within(h)' <=> \/ hosts[h].mem = 0
                        \/ /\ Load(B, "mem") <= hosts[h].mem
                           /\ hosts[h].cpu = 0 \/ Load(B, "cpu") <= hosts[h].cpu
    BY <2>7 DEF Within, Unmeasured, Load, B
  <2>13. \/ hosts[h].mem = 0
         \/ /\ Load(A, "mem") + Need[s].mem <= hosts[h].mem
            /\ hosts[h].cpu = 0 \/ Load(A, "cpu") + Need[s].cpu <= hosts[h].cpu
    BY <2>8 DEF RoomFor, Unmeasured, A
  <2>14. /\ Need[s].mem \in Nat /\ Need[s].cpu \in Nat
         /\ hosts[h].mem \in Nat /\ hosts[h].cpu \in Nat
    BY <2>1, Numbers
  <2>15. /\ Load(A, "mem") \in Nat /\ Load(B, "mem") \in Nat
         /\ Load(B, "mem") <= Load(A, "mem") + Need[s].mem
    BY <2>11
  <2>16. /\ Load(A, "cpu") \in Nat /\ Load(B, "cpu") \in Nat
         /\ Load(B, "cpu") <= Load(A, "cpu") + Need[s].cpu
    BY <2>11
  <2>17. Within(h)'
    BY <2>12, <2>13, <2>14, <2>15, <2>16
  <2> QED
    BY <2>9, <2>17
<1>2. IInv /\ [Next]_vars => [\A s \in Sessions, h \in Hosts :
        row[s].st \notin Reserving /\ row'[s].st = "pending" /\ row'[s].host = h
          => hosts[h].up /\ Within(h)']_vars
  BY <1>1
<1> QED
  BY <1>2, Invariance, PTL DEF Spec, CommitsFit
=============================================================================
