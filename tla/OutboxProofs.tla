---------------------------- MODULE OutboxProofs ----------------------------
(***************************************************************************)
(* Proofs about Outbox for any number of prompts, executors, attempts and  *)
(* faults.                                                                 *)
(***************************************************************************)
EXTENDS Outbox, SequenceTheorems, FiniteSetTheorems, TLAPS

EventType == [kind : {"run", "steered", "queued", "dequeued"}, row : Prompt, proc : Nat]
CommandType == [kind : {"prompt", "dequeue"}, row : Prompt]
RowShape == [state : {"none", "open", "acked", "deleted"}, due : BOOLEAN,
             delivered : BOOLEAN, attempts : Nat]
HarnessType == [proc : Nat, turn : 0..Boot, seen : SUBSET Prompt,
                pending : Seq(Prompt), unacked : Seq(EventType)]

(* Types of the rows, of the lane and of the guest; an executor past the   *)
(* take and a dequeue past the read work on a prompt.                      *)
ShapeOK ==
  /\ rows \in [Prompt -> RowShape]
  /\ givenUp \subseteq Prompt
  /\ log \subseteq EventType
  /\ op \in {"none", "queued", "backoff", "running"}
  /\ owner \in Worker \cup {None} /\ (op = "running" <=> owner # None)
  /\ exec \in [Worker -> [at : {"idle", "loop", "forward", "mark"}, row : 0..MaxPrompt]]
  /\ \A w \in Worker : exec[w].at \in {"forward", "mark"} => exec[w].row \in Prompt
  /\ withdraw \in [at : {"idle", "ask", "delete"}, row : 0..MaxPrompt, delivered : BOOLEAN]
  /\ withdraw.at # "idle" => withdraw.row \in Prompt
  /\ status \in {"active", "idle", "owned", "terminal"} /\ resuming \in BOOLEAN
  /\ link \in {"up", "dialing", "gone"} /\ signal \in BOOLEAN
  /\ post \in {"none", "appended"}
  /\ harness \in HarnessType
  /\ wire \in Seq(CommandType)
  /\ started \in Seq(Prompt \X Nat)
  /\ faults \in 0..MaxFault

(* The tries a row has had and the tries of the executors that hold it.    *)
Holders(p) == {w \in Worker : exec[w].at \in {"forward", "mark"} /\ exec[w].row = p}
BudgetOK == \A p \in Prompt : rows[p].attempts + Cardinality(Holders(p)) <= MaxTries

(* A post is of the oldest unacked event, which is in the log by then, and *)
(* it ends with the connection; an evicted session has none.               *)
PostOK ==
  /\ post = "appended" => /\ harness.unacked # <<>>
                          /\ Head(harness.unacked) \in log
                          /\ link = "up"
  /\ status \in {"idle", "owned"} => link = "gone"

(* The process knows what it queued and what it consumed, and it holds no  *)
(* id twice.                                                               *)
OnceOK ==
  /\ IsInjective(started)
  /\ IsInjective(harness.pending)
  /\ \A i \in 1..Len(harness.pending) : harness.pending[i] \in harness.seen
  /\ \A i \in 1..Len(started) :
       /\ started[i][2] <= harness.proc
       /\ started[i][2] = harness.proc =>
            /\ started[i][1] \in harness.seen
            /\ \A j \in 1..Len(harness.pending) : harness.pending[j] # started[i][1]

IInv == ShapeOK /\ BudgetOK /\ PostOK /\ OnceOK /\ AckedHasOutcome

-----------------------------------------------------------------------------
(* Sequences and the rows                                                  *)

LEMMA Constants ==
  /\ MaxPrompt \in Nat \ {0} /\ MaxAttempts \in Nat \ {0} /\ MaxFault \in Nat
  /\ IsFiniteSet(Worker) /\ Cardinality(Worker) \in Nat
  /\ MaxTries \in Int /\ MaxTries >= Cardinality(Worker)
  /\ Prompt \subseteq 0..MaxPrompt /\ Prompt \subseteq 0..Boot /\ 0 \in 0..Boot
  /\ Boot \in 0..Boot
BY OutboxAssumption, FS_CardinalityType DEF MaxTries, Prompt, Boot

LEMMA HoldersBound ==
  \A p : /\ IsFiniteSet(Holders(p)) /\ Cardinality(Holders(p)) \in Nat
         /\ Cardinality(Holders(p)) <= Cardinality(Worker)
<1> SUFFICES ASSUME NEW p
             PROVE /\ IsFiniteSet(Holders(p)) /\ Cardinality(Holders(p)) \in Nat
                   /\ Cardinality(Holders(p)) <= Cardinality(Worker)
  OBVIOUS
<1>1. Holders(p) \subseteq Worker
  BY DEF Holders
<1> QED
  BY <1>1, Constants, FS_Subset, FS_CardinalityType

(* What is left of a sequence without its i-th element.                    *)
LEMMA RemoveAtElements ==
  ASSUME NEW S, NEW s \in Seq(S), NEW i \in 1..Len(s)
  PROVE  /\ RemoveAt(s, i) \in Seq(S)
         /\ Len(RemoveAt(s, i)) = Len(s) - 1
         /\ \A j \in 1..(Len(s) - 1) :
              RemoveAt(s, i)[j] = IF j < i THEN s[j] ELSE s[j + 1]
<1> DEFINE a == SubSeq(s, 1, i - 1)
           b == SubSeq(s, i + 1, Len(s))
<1>1. Len(s) \in Nat /\ i \in Nat /\ i >= 1 /\ i <= Len(s)
  BY LenProperties
<1>2. a \in Seq(S) /\ Len(a) = i - 1 /\ \A j \in 1..(i - 1) : a[j] = s[j]
  BY <1>1, SubSeqProperties
<1>3. b \in Seq(S) /\ Len(b) = Len(s) - i
      /\ \A j \in 1..(Len(s) - i) : b[j] = s[j + i]
  BY <1>1, SubSeqProperties
<1>4. /\ a \o b \in Seq(S) /\ Len(a \o b) = Len(a) + Len(b)
      /\ \A j \in 1..(Len(a) + Len(b)) :
           (a \o b)[j] = IF j <= Len(a) THEN a[j] ELSE b[j - Len(a)]
  BY <1>2, <1>3, ConcatProperties
<1>5. RemoveAt(s, i) = a \o b
  BY DEF RemoveAt
<1> HIDE DEF a, b
<1>6. ASSUME NEW j \in 1..(Len(s) - 1)
      PROVE  (a \o b)[j] = IF j < i THEN s[j] ELSE s[j + 1]
  <2>1. CASE j < i
    BY <2>1, <1>1, <1>2, <1>3, <1>4
  <2>2. CASE j >= i
    <3>1. j - (i - 1) \in 1..(Len(s) - i) /\ j - (i - 1) + i = j + 1
      BY <2>2, <1>1
    <3>2. j \in 1..(Len(a) + Len(b)) /\ ~(j <= Len(a)) /\ j - Len(a) = j - (i - 1)
      BY <2>2, <1>1, <1>2, <1>3
    <3>3. (a \o b)[j] = b[j - (i - 1)]
      BY <3>2, <1>4
    <3>4. b[j - (i - 1)] = s[j - (i - 1) + i]
      BY <3>1, <1>3, Zenon
    <3>5. (a \o b)[j] = s[j + 1]
      BY <3>1, <3>3, <3>4, Zenon
    <3>6. ~(j < i)
      BY <2>2, <1>1
    <3> QED
      BY <3>5, <3>6, Zenon
  <2>3. j < i \/ j >= i
    BY <1>1
  <2> QED
    BY <2>1, <2>2, <2>3, Zenon
<1> QED
  BY <1>1, <1>2, <1>3, <1>4, <1>5, <1>6

(* Injectivity of a sequence by its positions, also after the Append of a  *)
(* new element.                                                            *)
LEMMA InjectiveSeq ==
  ASSUME NEW S, NEW s \in Seq(S)
  PROVE  IsInjective(s) <=> \A a, b \in 1..Len(s) : s[a] = s[b] => a = b
BY LenProperties DEF IsInjective

LEMMA AppendedInjective ==
  ASSUME NEW S, NEW s \in Seq(S), NEW x \in S, IsInjective(s),
         \A i \in 1..Len(s) : s[i] # x
  PROVE  IsInjective(Append(s, x))
<1> DEFINE n == Len(s)
           t == Append(s, x)
<1>1. /\ t \in Seq(S) /\ Len(t) = n + 1 /\ n \in Nat
      /\ \A i \in 1..n : t[i] = s[i]
      /\ t[n + 1] = x
  BY AppendProperties, LenProperties
<1>2. \A a, b \in 1..n : s[a] = s[b] => a = b
  BY InjectiveSeq
<1> HIDE DEF t, n
<1>3. ASSUME NEW a \in 1..(n + 1), NEW b \in 1..(n + 1), t[a] = t[b]
      PROVE  a = b
  <2>1. (a \in 1..n \/ a = n + 1) /\ (b \in 1..n \/ b = n + 1)
    BY <1>1
  <2>2. \A i \in 1..n : t[i] # x
    BY <1>1 DEF n
  <2> QED
    BY <1>1, <1>2, <1>3, <2>1, <2>2
<1>4. IsInjective(t)
  BY <1>1, <1>3, InjectiveSeq
<1> QED
  BY <1>4 DEF t

(* The writes of the rows keep their shape.                                *)
LEMMA RowWrites ==
  ASSUME rows \in [Prompt -> RowShape], NEW p \in Prompt
  PROVE  /\ NoRow \in RowShape
         /\ \A end \in {"acked", "deleted"} : Retired(p, end) \in [Prompt -> RowShape]
         /\ Marked(p) \in [Prompt -> RowShape]
         /\ Deferred(p) \in [Prompt -> RowShape]
         /\ MadeDue \in [Prompt -> RowShape]
         /\ [rows EXCEPT ![p].due = TRUE] \in [Prompt -> RowShape]
         /\ [rows EXCEPT ![p] = [NoRow EXCEPT !.state = "open", !.due = TRUE]]
              \in [Prompt -> RowShape]
<1>1. NoRow \in RowShape
  BY DEF RowShape, NoRow
<1>2. \A end \in {"acked", "deleted"} : [NoRow EXCEPT !.state = end] \in RowShape
  BY DEF RowShape, NoRow
<1>0. \A r \in RowShape : r.attempts + 1 \in Nat
  BY DEF RowShape
<1>3. \A r \in RowShape : [r EXCEPT !.delivered = TRUE, !.due = FALSE,
                                     !.attempts = r.attempts + 1] \in RowShape
  BY <1>0, Zenon DEF RowShape
<1>4. \A r \in RowShape : [r EXCEPT !.due = FALSE, !.attempts = r.attempts + 1] \in RowShape
  BY <1>0, Zenon DEF RowShape
<1>5. \A r \in RowShape : [r EXCEPT !.due = TRUE] \in RowShape
  BY DEF RowShape
<1>6. [NoRow EXCEPT !.state = "open", !.due = TRUE] \in RowShape
  BY DEF RowShape, NoRow
<1> QED
  BY <1>1, <1>2, <1>3, <1>4, <1>5, <1>6 DEF Retired, Marked, Deferred, MadeDue

(* What a new or a shortened sequence of events and commands holds.        *)
LEMMA EmitsType ==
  ASSUME harness \in HarnessType, NEW p \in Prompt,
         NEW k \in {"run", "steered", "queued", "dequeued"}
  PROVE  Event(k, p) \in EventType /\ Emits(k, p) \in Seq(EventType)
<1>1. Event(k, p) \in EventType
  BY DEF Event, EventType, HarnessType
<1> QED
  BY <1>1, AppendProperties DEF Emits, HarnessType

LEMMA FreshType ==
  ASSUME harness \in HarnessType
  PROVE  FreshProcess(harness.proc + 1) \in HarnessType /\ FreshProcess(0) \in HarnessType
BY Constants, EmptySeq DEF FreshProcess, HarnessType

LEMMA FaultCount == faults \in 0..MaxFault /\ Fault => faults' \in 0..MaxFault
BY Constants DEF Fault

-----------------------------------------------------------------------------
(* Types                                                                   *)

LEMMA InitShape == Init => ShapeOK
<1> SUFFICES ASSUME Init PROVE ShapeOK
  OBVIOUS
<1>1. rows \in [Prompt -> RowShape]
  BY DEF Init, NoRow, RowShape
<1>2. harness \in HarnessType
  <2>1. PICK t \in {0, Boot} : harness = [FreshProcess(0) EXCEPT !.turn = t]
    BY DEF Init
  <2>2. t \in 0..Boot /\ <<>> \in Seq(Prompt) /\ <<>> \in Seq(EventType)
    BY Constants, EmptySeq
  <2> QED
    BY <2>1, <2>2 DEF FreshProcess, HarnessType
<1>3. wire \in Seq(CommandType) /\ started \in Seq(Prompt \X Nat)
  BY EmptySeq DEF Init
<1>4. exec \in [Worker -> [at : {"idle", "loop", "forward", "mark"}, row : 0..MaxPrompt]]
      /\ \A w \in Worker : exec[w].at = "idle"
  BY Constants DEF Init, AtRest
<1>5. 0 \in 0..MaxPrompt /\ 0 \in 0..MaxFault
  BY Constants
<1>6. /\ withdraw \in [at : {"idle", "ask", "delete"}, row : 0..MaxPrompt, delivered : BOOLEAN]
      /\ withdraw.at = "idle"
  BY <1>5, Zenon DEF Init, NoWithdrawal
<1> QED
  BY <1>1, <1>2, <1>3, <1>4, <1>5, <1>6 DEF Init, ShapeOK

(* Every step keeps the types; AckRow finds the event its post is of.      *)
LEMMA ShapeStep == ShapeOK /\ PostOK /\ [Next]_vars => ShapeOK'
<1> SUFFICES ASSUME ShapeOK, PostOK, [Next]_vars PROVE ShapeOK'
  OBVIOUS
<1>1. ASSUME NEW p \in Prompt, SendPrompt(p) PROVE ShapeOK'
  BY <1>1, RowWrites, ZenonT(60) DEF SendPrompt, Acked, ShapeOK, store, lane, session, guest
<1>2. ASSUME NEW p \in Prompt, RowComesDue(p) PROVE ShapeOK'
  BY <1>2, RowWrites, ZenonT(60) DEF RowComesDue, Acked, ShapeOK, store, lane, session, guest
<1>3. ASSUME NEW p \in Prompt, DequeueRead(p) PROVE ShapeOK'
  <2>1. rows[p].delivered \in BOOLEAN /\ p \in 0..MaxPrompt
    BY Constants DEF ShapeOK, RowShape
  <2>2. withdraw' \in [at : {"idle", "ask", "delete"}, row : 0..MaxPrompt, delivered : BOOLEAN]
        /\ withdraw'.row = p
    BY <1>3, <2>1, Zenon DEF DequeueRead
  <2> QED
    BY <1>3, <2>2 DEF DequeueRead, ShapeOK, store, lane, session, guest
<1>4. CASE EnqueueDeliver
  BY <1>4, Constants DEF EnqueueDeliver, ShapeOK, store, lane, session, guest
<1>5. CASE OpBackoffEnds
  BY <1>5, Constants DEF OpBackoffEnds, ShapeOK, store, lane, session, guest
<1>6. CASE Reclaim
  BY <1>6, Constants, SMTT(30) DEF Reclaim, ShapeOK, store, lane, session, guest, Fault
<1>7. ASSUME NEW w \in Worker, ClaimDeliver(w) PROVE ShapeOK'
  BY <1>7, OutboxAssumption, ZenonT(60) DEF ClaimDeliver, ShapeOK, store, lane, session, guest
<1>8. ASSUME NEW w \in Worker, Drained(w) PROVE ShapeOK'
  BY <1>8, Constants DEF Drained, ShapeOK, store, lane, session, guest, Leave, AtRest
<1>9. ASSUME NEW w \in Worker, NEW p \in Prompt, RetireTerminal(w, p) PROVE ShapeOK'
  BY <1>9, RowWrites, ZenonT(60) DEF RetireTerminal, Acked, ShapeOK, store, lane, session, guest
<1>10. ASSUME NEW w \in Worker, NEW p \in Prompt, RetireExhausted(w, p) PROVE ShapeOK'
  BY <1>10, RowWrites, ZenonT(60) DEF RetireExhausted, Acked, ShapeOK, store, lane, session, guest
<1>11. ASSUME NEW w \in Worker, NEW p \in Prompt, AwaitResume(w, p) PROVE ShapeOK'
  BY <1>11, Constants DEF AwaitResume, ShapeOK, store, lane, session, guest, Leave, AtRest
<1>12. ASSUME NEW w \in Worker, NEW p \in Prompt, TakeRow(w, p) PROVE ShapeOK'
  BY <1>12, Constants DEF TakeRow, ShapeOK, store, lane, session, guest
<1>13. ASSUME NEW w \in Worker, Forward(w) PROVE ShapeOK'
  <2>1. Command("prompt", exec[w].row) \in CommandType
    BY <1>13 DEF Command, CommandType, ShapeOK, Forward
  <2>2. wire' \in Seq(CommandType)
    BY <1>13, <2>1, AppendProperties DEF ShapeOK, Forward
  <2> QED
    BY <1>13, <2>2, ZenonT(60) DEF Forward, ShapeOK, store, lane, session, guest
<1>14. ASSUME NEW w \in Worker, ForwardUnattached(w) PROVE ShapeOK'
  <2>1. rows' \in [Prompt -> RowShape]
    BY <1>14, RowWrites DEF ForwardUnattached, ShapeOK
  <2> QED
    BY <1>14, <2>1, Constants DEF ForwardUnattached, Leave, AtRest, ShapeOK, store, lane, session, guest
<1>15. ASSUME NEW w \in Worker, MarkDelivered(w) PROVE ShapeOK'
  <2>1. rows' \in [Prompt -> RowShape]
    BY <1>15, RowWrites DEF MarkDelivered, ShapeOK
  <2> QED
    BY <1>15, <2>1, Constants DEF MarkDelivered, ShapeOK, store, lane, session, guest
<1>16. CASE DequeueAsk
  <2>1. Command("dequeue", withdraw.row) \in CommandType
    BY <1>16 DEF Command, CommandType, ShapeOK, DequeueAsk
  <2>2. wire' \in Seq(CommandType)
    BY <1>16, <2>1, AppendProperties DEF ShapeOK, DequeueAsk
  <2> QED
    BY <1>16, <2>2 DEF DequeueAsk, ShapeOK, store, lane, session, guest
<1>17. CASE DequeueUnattached
  <2>0. 0 \in 0..MaxPrompt
    BY Constants
  <2>1. CASE withdraw.delivered
    BY <1>17, <2>0, <2>1, Zenon DEF DequeueUnattached, NoWithdrawal, ShapeOK, store, lane, session, guest
  <2>2. CASE ~withdraw.delivered
    BY <1>17, <2>2 DEF DequeueUnattached, ShapeOK, store, lane, session, guest
  <2> QED
    BY <2>1, <2>2
<1>18. CASE DequeueDelete
  <2>1. rows' \in [Prompt -> RowShape]
    BY <1>18, RowWrites DEF DequeueDelete, ShapeOK
  <2>2. withdraw' \in [at : {"idle", "ask", "delete"}, row : 0..MaxPrompt, delivered : BOOLEAN]
        /\ withdraw'.at = "idle"
    <3>1. 0 \in 0..MaxPrompt
      BY Constants
    <3> QED
      BY <1>18, <3>1, Zenon DEF DequeueDelete, NoWithdrawal
  <2> QED
    BY <1>18, <2>1, <2>2 DEF DequeueDelete, ShapeOK, store, lane, session, guest
<1>19. CASE TakePrompt
  <2> DEFINE p == Head(wire).row
  <2>0. Head(wire) \in CommandType /\ Tail(wire) \in Seq(CommandType)
    BY <1>19, HeadTailProperties DEF TakePrompt, ShapeOK
  <2>1. p \in Prompt /\ wire' \in Seq(CommandType)
    BY <1>19, <2>0 DEF TakePrompt, CommandType
  <2>2. p \in 0..Boot
    BY <2>1, Constants
  <2>3. /\ \A k \in {"run", "steered", "queued"} : Emits(k, p) \in Seq(EventType)
        /\ Append(harness.pending, p) \in Seq(Prompt)
        /\ harness.seen \cup {p} \in SUBSET Prompt
    BY <2>1, EmitsType, AppendProperties DEF ShapeOK, HarnessType
  <2>4. Append(started, <<p, harness.proc>>) \in Seq(Prompt \X Nat)
    BY <2>1, AppendProperties DEF ShapeOK, HarnessType
  <2>5. harness' \in HarnessType
    BY <1>19, <2>2, <2>3 DEF TakePrompt, ShapeOK, HarnessType
  <2>6. started' \in Seq(Prompt \X Nat)
    BY <1>19, <2>4 DEF TakePrompt, Consumes, ShapeOK
  <2> QED
    BY <1>19, <2>1, <2>5, <2>6 DEF TakePrompt, ShapeOK, store, lane, session, guest
<1>20. CASE TakeDequeue
  <2> DEFINE p == Head(wire).row
  <2>0. Head(wire) \in CommandType /\ Tail(wire) \in Seq(CommandType)
    BY <1>20, HeadTailProperties DEF TakeDequeue, ShapeOK
  <2>1. p \in Prompt /\ wire' \in Seq(CommandType)
    BY <1>20, <2>0 DEF TakeDequeue, CommandType
  <2>2. Emits("dequeued", p) \in Seq(EventType)
    BY <2>1, EmitsType DEF ShapeOK
  <2>3. \A i \in 1..Len(harness.pending) : RemoveAt(harness.pending, i) \in Seq(Prompt)
    BY RemoveAtElements DEF ShapeOK, HarnessType
  <2>4. harness' \in HarnessType
    <3>1. CASE UNCHANGED harness
      BY <3>1 DEF ShapeOK
    <3>2. ASSUME NEW i \in 1..Len(harness.pending),
                 harness' = [harness EXCEPT !.pending = RemoveAt(@, i),
                                            !.unacked = Emits("dequeued", p)]
          PROVE  harness' \in HarnessType
      BY <3>2, <2>2, <2>3 DEF ShapeOK, HarnessType
    <3> QED
      BY <1>20, <3>1, <3>2 DEF TakeDequeue
  <2> QED
    BY <1>20, <2>1, <2>4, ZenonT(60) DEF TakeDequeue, ShapeOK, store, lane, session, guest
<1>21. CASE TurnEnds
  <2>1. CASE harness.pending = <<>>
    <3>1. harness' \in HarnessType
      BY <1>21, <2>1, Constants DEF TurnEnds, ShapeOK, HarnessType
    <3> QED
      BY <1>21, <2>1, <3>1 DEF TurnEnds, ShapeOK, store, lane, session, guest
  <2>2. CASE harness.pending # <<>>
    <3> DEFINE p == Head(harness.pending)
    <3>1. p \in Prompt /\ Tail(harness.pending) \in Seq(Prompt)
      BY <2>2, HeadTailProperties DEF ShapeOK, HarnessType
    <3>2. p \in 0..Boot /\ Emits("run", p) \in Seq(EventType)
      BY <3>1, Constants, EmitsType DEF ShapeOK
    <3>3. harness' \in HarnessType
      BY <1>21, <2>2, <3>1, <3>2 DEF TurnEnds, ShapeOK, HarnessType
    <3>4. started' \in Seq(Prompt \X Nat)
      <4>1. started' = Append(started, <<p, harness.proc>>)
        BY <1>21, <2>2 DEF TurnEnds, Consumes
      <4>2. <<p, harness.proc>> \in Prompt \X Nat
        BY <3>1 DEF ShapeOK, HarnessType
      <4> QED
        BY <4>1, <4>2, AppendProperties DEF ShapeOK
    <3> QED
      BY <1>21, <2>2, <3>3, <3>4 DEF TurnEnds, ShapeOK, store, lane, session, guest
  <2> QED
    BY <2>1, <2>2
<1>22. CASE AppendEvent
  <2>1. Head(harness.unacked) \in EventType
    BY <1>22, HeadTailProperties DEF AppendEvent, ShapeOK, HarnessType
  <2> QED
    BY <1>22, <2>1 DEF AppendEvent, ShapeOK, store, lane, session, guest
<1>23. CASE AckRow
  <2>1. Head(harness.unacked) \in EventType /\ Tail(harness.unacked) \in Seq(EventType)
    BY <1>23, HeadTailProperties DEF AckRow, ShapeOK, PostOK, HarnessType
  <2>2. rows' \in [Prompt -> RowShape]
    <3>1. Head(harness.unacked).row \in Prompt
      BY <2>1 DEF EventType
    <3> QED
      BY <1>23, <3>1, RowWrites DEF AckRow, Acked, ShapeOK
  <2>3. harness' \in HarnessType
    BY <1>23, <2>1 DEF AckRow, ShapeOK, HarnessType
  <2> QED
    BY <1>23, <2>2, <2>3 DEF AckRow, ShapeOK, store, lane, session, guest
<1>24. CASE AttachSignal
  <2>1. PICK p \in Prompt : TRUE
    BY Constants, OutboxAssumption DEF Prompt
  <2> QED
    BY <1>24, <2>1, RowWrites DEF AttachSignal, ShapeOK, store, lane, session, guest
<1>25. CASE Attach
  BY <1>25, Constants DEF Attach, ShapeOK, store, lane, session, guest
<1>26. CASE Resume
  <2>1. harness' \in HarnessType
    BY <1>26, FreshType DEF Resume, ShapeOK
  <2> QED
    BY <1>26, <2>1 DEF Resume, ShapeOK, store, lane, session, guest
<1>27. ASSUME NEW w \in Worker, ForwardUnanswered(w) PROVE ShapeOK'
  <2>1. Command("prompt", exec[w].row) \in CommandType
    BY <1>27 DEF Command, CommandType, ShapeOK, ForwardUnanswered
  <2>2. wire' \in Seq(CommandType)
    BY <1>27, <2>1, AppendProperties DEF ShapeOK, ForwardUnanswered
  <2>3. rows' \in [Prompt -> RowShape]
    BY <1>27, RowWrites DEF ForwardUnanswered, ShapeOK
  <2> QED
    BY <1>27, <2>2, <2>3, Constants DEF ForwardUnanswered, Leave, AtRest, Fault, ShapeOK, store, lane, session, guest
<1>28. ASSUME NEW w \in Worker, ExecutorDies(w) PROVE ShapeOK'
  BY <1>28, Constants DEF ExecutorDies, ShapeOK, store, lane, session, guest, AtRest, Fault
<1>29. CASE LinkDrops
  BY <1>29, FaultCount, EmptySeq DEF LinkDrops, ShapeOK, store, lane, session, guest
<1>30. CASE HarnessDies
  <2>1. harness' \in HarnessType
    BY <1>30, FreshType DEF HarnessDies, ShapeOK
  <2> QED
    BY <1>30, <2>1, FaultCount, EmptySeq DEF HarnessDies, ShapeOK, store, lane, session, guest
<1>31. CASE Evict
  BY <1>31, FaultCount, EmptySeq DEF Evict, ShapeOK, store, lane, session, guest
<1>32. CASE Terminate
  BY <1>32, FaultCount, EmptySeq DEF Terminate, ShapeOK, store, lane, session, guest
<1>33. CASE Displaced
  BY <1>33, FaultCount, EmptySeq DEF Displaced, ShapeOK, store, lane, session, guest
<1>34. CASE ScannerReturns
  BY <1>34 DEF ScannerReturns, ShapeOK, store, lane, session, guest
<1>35. CASE ResumeFails
  BY <1>35 DEF ResumeFails, ShapeOK, store, lane, session, guest
<1>36. ASSUME NEW w \in Worker, NEW p \in Prompt, AwaitScanner(w, p) PROVE ShapeOK'
  BY <1>36, Constants DEF AwaitScanner, ShapeOK, store, lane, session, guest, Leave, AtRest
<1>37. CASE UNCHANGED vars
  BY <1>37 DEF vars, ShapeOK
<1> QED
  BY <1>1, <1>2, <1>3, <1>4, <1>5, <1>6, <1>7, <1>8, <1>9, <1>10, <1>11,
     <1>12, <1>13, <1>14, <1>15, <1>16, <1>17, <1>18, <1>19, <1>20, <1>21,
     <1>22, <1>23, <1>24, <1>25, <1>26, <1>27, <1>28, <1>29, <1>30, <1>31,
     <1>32, <1>33, <1>34, <1>35, <1>36, <1>37
     DEF Next, Executor, Dequeue, Process, Ingest, Faulty

-----------------------------------------------------------------------------
(* The delivery budget                                                     *)

LEMMA InitBudget == Init => BudgetOK
<1> SUFFICES ASSUME Init, NEW p \in Prompt
             PROVE  rows[p].attempts + Cardinality(Holders(p)) <= MaxTries
  BY DEF BudgetOK
<1>1. rows[p].attempts = 0
  BY DEF Init, NoRow
<1> QED
  BY <1>1, HoldersBound, Constants

LEMMA BudgetKept ==
  ASSUME ShapeOK, BudgetOK,
         \A p \in Prompt : rows'[p].attempts \in Nat /\ rows'[p].attempts <= rows[p].attempts,
         \A p \in Prompt : Holders(p)' \subseteq Holders(p)
  PROVE  BudgetOK'
<1> SUFFICES ASSUME NEW p \in Prompt
             PROVE  rows'[p].attempts + Cardinality(Holders(p)') <= MaxTries
  BY DEF BudgetOK
<1>1. /\ Cardinality(Holders(p)') \in Nat /\ Cardinality(Holders(p)) \in Nat
      /\ Cardinality(Holders(p)') <= Cardinality(Holders(p))
  BY HoldersBound, FS_Subset, FS_CardinalityType
<1>2. rows[p].attempts \in Nat
  BY DEF ShapeOK, RowShape
<1> QED
  BY <1>1, <1>2, Constants DEF BudgetOK

(* An executor's try is one of those the budget had set aside for it.      *)
LEMMA TrySpent ==
  ASSUME ShapeOK, BudgetOK, NEW w \in Worker, exec[w].at \in {"forward", "mark"},
         exec[w].row \in Prompt,
         NEW r, r.at \notin {"forward", "mark"}, exec' = [exec EXCEPT ![w] = r],
         \A p \in Prompt :
           /\ rows'[p].attempts \in Nat
           /\ rows'[p].attempts <= rows[p].attempts + (IF p = exec[w].row THEN 1 ELSE 0)
  PROVE  BudgetOK'
<1> SUFFICES ASSUME NEW p \in Prompt
             PROVE  rows'[p].attempts + Cardinality(Holders(p)') <= MaxTries
  BY DEF BudgetOK
<1>1. rows[p].attempts \in Nat
  BY DEF ShapeOK, RowShape
<1>2. CASE p = exec[w].row
  <2>1. w \in Holders(p) /\ Holders(p)' = Holders(p) \ {w}
    BY <1>2 DEF Holders, ShapeOK
  <2>2. Cardinality(Holders(p)') = Cardinality(Holders(p)) - 1
    BY <2>1, HoldersBound, FS_RemoveElement
  <2> QED
    BY <1>1, <1>2, <2>2, HoldersBound, Constants DEF BudgetOK
<1>3. CASE p # exec[w].row
  <2>1. Holders(p)' = Holders(p)
    BY <1>3 DEF Holders, ShapeOK
  <2> QED
    BY <1>1, <1>3, <2>1, HoldersBound, Constants DEF BudgetOK
<1> QED
  BY <1>2, <1>3

LEMMA BudgetStep == ShapeOK /\ PostOK /\ BudgetOK /\ [Next]_vars => BudgetOK'
<1> SUFFICES ASSUME ShapeOK, PostOK, BudgetOK, [Next]_vars PROVE BudgetOK'
  OBVIOUS
<1>1. ASSUME NEW p \in Prompt, SendPrompt(p) PROVE BudgetOK'
  BY <1>1, BudgetKept DEF SendPrompt, Acked, Retired, NoRow, ShapeOK, RowShape, Holders, store, lane, session, guest
<1>2. ASSUME NEW p \in Prompt, RowComesDue(p) PROVE BudgetOK'
  BY <1>2, BudgetKept DEF RowComesDue, Acked, Retired, NoRow, ShapeOK, RowShape, Holders, store, lane, session, guest
<1>3. ASSUME NEW p \in Prompt, DequeueRead(p) PROVE BudgetOK'
  BY <1>3 DEF DequeueRead, BudgetOK, Holders, store, lane, session, guest
<1>4. CASE EnqueueDeliver
  BY <1>4 DEF EnqueueDeliver, BudgetOK, Holders, store, lane, session, guest
<1>5. CASE OpBackoffEnds
  BY <1>5 DEF OpBackoffEnds, BudgetOK, Holders, store, lane, session, guest
<1>6. CASE Reclaim
  BY <1>6 DEF Reclaim, BudgetOK, Holders, store, lane, session, guest
<1>7. ASSUME NEW w \in Worker, ClaimDeliver(w) PROVE BudgetOK'
  BY <1>7, BudgetKept DEF ClaimDeliver, Leave, AtRest, ShapeOK, RowShape, Holders, store, lane, session, guest
<1>8. ASSUME NEW w \in Worker, Drained(w) PROVE BudgetOK'
  BY <1>8, BudgetKept DEF Drained, Leave, AtRest, ShapeOK, RowShape, Holders, store, lane, session, guest
<1>9. ASSUME NEW w \in Worker, NEW p \in Prompt, RetireTerminal(w, p) PROVE BudgetOK'
  BY <1>9, BudgetKept DEF RetireTerminal, Acked, Retired, NoRow, ShapeOK, RowShape, Holders, store, lane, session, guest
<1>10. ASSUME NEW w \in Worker, NEW p \in Prompt, RetireExhausted(w, p) PROVE BudgetOK'
  BY <1>10, BudgetKept DEF RetireExhausted, Acked, Retired, NoRow, ShapeOK, RowShape, Holders, store, lane, session, guest
<1>11. ASSUME NEW w \in Worker, NEW p \in Prompt, AwaitResume(w, p) PROVE BudgetOK'
  BY <1>11, BudgetKept DEF AwaitResume, Leave, AtRest, ShapeOK, RowShape, Holders, store, lane, session, guest
<1>12. ASSUME NEW w \in Worker, NEW p \in Prompt, TakeRow(w, p) PROVE BudgetOK'
  <2> SUFFICES ASSUME NEW q \in Prompt
               PROVE  rows'[q].attempts + Cardinality(Holders(q)') <= MaxTries
    BY DEF BudgetOK
  <2>1. rows'[q].attempts = rows[q].attempts /\ rows[q].attempts \in Nat
    BY <1>12 DEF TakeRow, store, ShapeOK, RowShape
  <2>2. CASE q = p
    <3>1. rows[q].attempts <= MaxAttempts - 1
      BY <1>12, <2>1, <2>2, Constants DEF TakeRow, Exhausted
    <3>2. Cardinality(Holders(q)') \in Nat /\ Cardinality(Holders(q)') <= Cardinality(Worker)
      <4>1. Holders(q)' \subseteq Worker
        BY DEF Holders
      <4> QED
        BY <4>1, Constants, FS_Subset, FS_CardinalityType
    <3> QED
      BY <2>1, <3>1, <3>2, Constants DEF MaxTries
  <2>3. CASE q # p
    <3>1. Holders(q)' = Holders(q)
      BY <1>12, <2>3 DEF TakeRow, Holders, ShapeOK
    <3> QED
      BY <2>1, <3>1 DEF BudgetOK
  <2> QED
    BY <2>2, <2>3
<1>13. ASSUME NEW w \in Worker, Forward(w) PROVE BudgetOK'
  BY <1>13, BudgetKept DEF Forward, ShapeOK, RowShape, Holders, store
<1>14. ASSUME NEW w \in Worker, ForwardUnattached(w) PROVE BudgetOK'
  <2>1. /\ exec' = [exec EXCEPT ![w] = AtRest]
        /\ exec[w].row \in Prompt /\ exec[w].at \in {"forward", "mark"}
    BY <1>14 DEF ForwardUnattached, Leave, ShapeOK
  <2>2. \A p \in Prompt :
           /\ rows'[p].attempts \in Nat
           /\ rows'[p].attempts <= rows[p].attempts + (IF p = exec[w].row THEN 1 ELSE 0)
    BY <1>14, <2>1 DEF ForwardUnattached, Deferred, ShapeOK, RowShape
  <2> QED
    BY <2>1, <2>2, TrySpent DEF AtRest
<1>15. ASSUME NEW w \in Worker, MarkDelivered(w) PROVE BudgetOK'
  <2>1. /\ exec' = [exec EXCEPT ![w] = [at |-> "loop", row |-> 0]]
        /\ exec[w].row \in Prompt /\ exec[w].at \in {"forward", "mark"}
    BY <1>15 DEF MarkDelivered, ShapeOK
  <2>2. \A p \in Prompt :
           /\ rows'[p].attempts \in Nat
           /\ rows'[p].attempts <= rows[p].attempts + (IF p = exec[w].row THEN 1 ELSE 0)
    BY <1>15, <2>1 DEF MarkDelivered, Marked, ShapeOK, RowShape
  <2> QED
    BY <2>1, <2>2, TrySpent
<1>16. CASE DequeueAsk
  BY <1>16 DEF DequeueAsk, BudgetOK, Holders, store, lane, session, guest
<1>17. CASE DequeueUnattached
  BY <1>17 DEF DequeueUnattached, BudgetOK, Holders, store, lane, session, guest
<1>18. CASE DequeueDelete
  BY <1>18, BudgetKept DEF DequeueDelete, Acked, Retired, NoRow, ShapeOK, RowShape, Holders, store, lane, session, guest
<1>19. CASE TakePrompt
  BY <1>19 DEF TakePrompt, BudgetOK, Holders, store, lane, session, guest
<1>20. CASE TakeDequeue
  BY <1>20 DEF TakeDequeue, BudgetOK, Holders, store, lane, session, guest
<1>21. CASE TurnEnds
  BY <1>21 DEF TurnEnds, BudgetOK, Holders, store, lane, session, guest
<1>22. CASE AppendEvent
  BY <1>22 DEF AppendEvent, BudgetOK, Holders, store, lane, session, guest
<1>23. CASE AckRow
  <2>1. \A p \in Prompt : rows'[p].attempts \in Nat /\ rows'[p].attempts <= rows[p].attempts
    BY <1>23 DEF AckRow, Acked, Retired, NoRow, ShapeOK, RowShape
  <2> QED
    BY <1>23, <2>1, BudgetKept DEF AckRow, Holders, lane
<1>24. CASE AttachSignal
  BY <1>24, BudgetKept DEF AttachSignal, MadeDue, ShapeOK, RowShape, Holders
<1>25. CASE Attach
  BY <1>25 DEF Attach, BudgetOK, Holders, store, lane, session, guest
<1>26. CASE Resume
  BY <1>26 DEF Resume, BudgetOK, Holders, store, lane, session, guest
<1>27. ASSUME NEW w \in Worker, ForwardUnanswered(w) PROVE BudgetOK'
  <2>1. /\ exec' = [exec EXCEPT ![w] = AtRest]
        /\ exec[w].row \in Prompt /\ exec[w].at \in {"forward", "mark"}
    BY <1>27 DEF ForwardUnanswered, Leave, ShapeOK
  <2>2. \A p \in Prompt :
           /\ rows'[p].attempts \in Nat
           /\ rows'[p].attempts <= rows[p].attempts + (IF p = exec[w].row THEN 1 ELSE 0)
    BY <1>27, <2>1 DEF ForwardUnanswered, Deferred, ShapeOK, RowShape
  <2> QED
    BY <2>1, <2>2, TrySpent DEF AtRest
<1>28. ASSUME NEW w \in Worker, ExecutorDies(w) PROVE BudgetOK'
  BY <1>28, BudgetKept DEF ExecutorDies, Leave, AtRest, ShapeOK, RowShape, Holders, store, lane, session, guest
<1>29. CASE LinkDrops
  BY <1>29 DEF LinkDrops, BudgetOK, Holders, store, lane, session, guest
<1>30. CASE HarnessDies
  BY <1>30 DEF HarnessDies, BudgetOK, Holders, store, lane, session, guest
<1>31. CASE Evict
  BY <1>31 DEF Evict, BudgetOK, Holders, store, lane, session, guest
<1>32. CASE Terminate
  BY <1>32 DEF Terminate, BudgetOK, Holders, store, lane, session, guest
<1>33. CASE Displaced
  BY <1>33 DEF Displaced, BudgetOK, Holders, store, lane, session, guest
<1>34. CASE ScannerReturns
  BY <1>34 DEF ScannerReturns, BudgetOK, Holders, store, lane, session, guest
<1>35. CASE ResumeFails
  BY <1>35 DEF ResumeFails, BudgetOK, Holders, store, lane, session, guest
<1>36. ASSUME NEW w \in Worker, NEW p \in Prompt, AwaitScanner(w, p) PROVE BudgetOK'
  BY <1>36, BudgetKept DEF AwaitScanner, Leave, AtRest, ShapeOK, RowShape, Holders, store, lane, session, guest
<1>37. CASE UNCHANGED vars
  BY <1>37 DEF vars, BudgetOK, Holders
<1> QED
  BY <1>1, <1>2, <1>3, <1>4, <1>5, <1>6, <1>7, <1>8, <1>9, <1>10, <1>11,
     <1>12, <1>13, <1>14, <1>15, <1>16, <1>17, <1>18, <1>19, <1>20, <1>21,
     <1>22, <1>23, <1>24, <1>25, <1>26, <1>27, <1>28, <1>29, <1>30, <1>31,
     <1>32, <1>33, <1>34, <1>35, <1>36, <1>37
     DEF Next, Executor, Dequeue, Process, Ingest, Faulty

-----------------------------------------------------------------------------
(* Events on their way to the log                                          *)

LEMMA InitPost == Init => PostOK
BY DEF Init, PostOK

(* A new event does not change which one is the oldest.                    *)
LEMMA EmitsHead ==
  ASSUME harness \in HarnessType, harness.unacked # <<>>, NEW k, NEW p
  PROVE  Emits(k, p) # <<>> /\ Head(Emits(k, p)) = Head(harness.unacked)
<1> DEFINE e == Event(k, p)
           T == EventType \cup {e}
<1>1. harness.unacked \in Seq(T) /\ e \in T
  BY SeqMonotonic DEF HarnessType
<1>2. /\ Len(Append(harness.unacked, e)) = Len(harness.unacked) + 1
      /\ Append(harness.unacked, e) \in Seq(T)
      /\ \A i \in 1..Len(harness.unacked) : Append(harness.unacked, e)[i] = harness.unacked[i]
  BY <1>1, AppendProperties
<1>3. Len(harness.unacked) \in Nat \ {0}
  BY <1>1, EmptySeq, LenProperties
<1> HIDE DEF e, T
<1>4. Append(harness.unacked, e) # <<>>
  BY <1>2, <1>3, EmptySeq
<1>5. 1 \in 1..Len(harness.unacked)
  BY <1>3
<1> QED
  BY <1>1, <1>2, <1>4, <1>5, HeadTailProperties DEF Emits, e

LEMMA PostStep == ShapeOK /\ PostOK /\ [Next]_vars => PostOK'
<1> SUFFICES ASSUME ShapeOK, PostOK, [Next]_vars PROVE PostOK'
  OBVIOUS
<1>1. ASSUME NEW p \in Prompt, SendPrompt(p) PROVE PostOK'
  BY <1>1 DEF SendPrompt, PostOK, store, lane, session, guest
<1>2. ASSUME NEW p \in Prompt, RowComesDue(p) PROVE PostOK'
  BY <1>2 DEF RowComesDue, PostOK, store, lane, session, guest
<1>3. ASSUME NEW p \in Prompt, DequeueRead(p) PROVE PostOK'
  BY <1>3 DEF DequeueRead, PostOK, store, lane, session, guest
<1>4. CASE EnqueueDeliver
  BY <1>4 DEF EnqueueDeliver, PostOK, store, lane, session, guest
<1>5. CASE OpBackoffEnds
  BY <1>5 DEF OpBackoffEnds, PostOK, store, lane, session, guest
<1>6. CASE Reclaim
  BY <1>6 DEF Reclaim, PostOK, store, lane, session, guest
<1>7. ASSUME NEW w \in Worker, ClaimDeliver(w) PROVE PostOK'
  BY <1>7 DEF ClaimDeliver, PostOK, store, lane, session, guest
<1>8. ASSUME NEW w \in Worker, Drained(w) PROVE PostOK'
  BY <1>8 DEF Drained, PostOK, store, lane, session, guest
<1>9. ASSUME NEW w \in Worker, NEW p \in Prompt, RetireTerminal(w, p) PROVE PostOK'
  BY <1>9 DEF RetireTerminal, PostOK, store, lane, session, guest
<1>10. ASSUME NEW w \in Worker, NEW p \in Prompt, RetireExhausted(w, p) PROVE PostOK'
  BY <1>10 DEF RetireExhausted, PostOK, store, lane, session, guest
<1>11. ASSUME NEW w \in Worker, NEW p \in Prompt, AwaitResume(w, p) PROVE PostOK'
  BY <1>11 DEF AwaitResume, PostOK, store, lane, session, guest
<1>12. ASSUME NEW w \in Worker, NEW p \in Prompt, TakeRow(w, p) PROVE PostOK'
  BY <1>12 DEF TakeRow, PostOK, store, lane, session, guest
<1>13. ASSUME NEW w \in Worker, Forward(w) PROVE PostOK'
  BY <1>13 DEF Forward, PostOK, store, lane, session, guest
<1>14. ASSUME NEW w \in Worker, ForwardUnattached(w) PROVE PostOK'
  BY <1>14 DEF ForwardUnattached, PostOK, store, lane, session, guest
<1>15. ASSUME NEW w \in Worker, MarkDelivered(w) PROVE PostOK'
  BY <1>15 DEF MarkDelivered, PostOK, store, lane, session, guest
<1>16. CASE DequeueAsk
  BY <1>16 DEF DequeueAsk, PostOK, store, lane, session, guest
<1>17. CASE DequeueUnattached
  BY <1>17 DEF DequeueUnattached, PostOK, store, lane, session, guest
<1>18. CASE DequeueDelete
  BY <1>18 DEF DequeueDelete, PostOK, store, lane, session, guest
<1>19. CASE TakePrompt
  <2>1. CASE UNCHANGED harness
    BY <1>19, <2>1 DEF TakePrompt, PostOK, store, session
  <2>2. ASSUME NEW k, harness'.unacked = Emits(k, Head(wire).row)
        PROVE  PostOK'
    <3>1. UNCHANGED <<log, link, post, status>>
      BY <1>19 DEF TakePrompt, store, session
    <3> QED
      BY <3>1, <2>2, EmitsHead DEF PostOK, ShapeOK
  <2> QED
    BY <1>19, <2>1, <2>2 DEF TakePrompt, ShapeOK, HarnessType
<1>20. CASE TakeDequeue
  <2>1. CASE UNCHANGED harness
    BY <1>20, <2>1 DEF TakeDequeue, PostOK, store, session
  <2>2. ASSUME NEW k, harness'.unacked = Emits(k, Head(wire).row)
        PROVE  PostOK'
    <3>1. UNCHANGED <<log, link, post, status>>
      BY <1>20 DEF TakeDequeue, store, session
    <3> QED
      BY <3>1, <2>2, EmitsHead DEF PostOK, ShapeOK
  <2> QED
    BY <1>20, <2>1, <2>2 DEF TakeDequeue, ShapeOK, HarnessType
<1>21. CASE TurnEnds
  <2>1. CASE harness'.unacked = harness.unacked
    BY <1>21, <2>1 DEF TurnEnds, PostOK, store, session
  <2>2. ASSUME NEW k, NEW p, harness'.unacked = Emits(k, p)
        PROVE  PostOK'
    <3>1. UNCHANGED <<log, link, post, status>>
      BY <1>21 DEF TurnEnds, store, session
    <3> QED
      BY <3>1, <2>2, EmitsHead DEF PostOK, ShapeOK
  <2> QED
    <3>1. CASE harness.pending = <<>>
      BY <1>21, <2>1, <3>1 DEF TurnEnds, ShapeOK, HarnessType
    <3>2. CASE harness.pending # <<>>
      <4>1. harness'.unacked = Emits("run", Head(harness.pending))
        BY <1>21, <3>2 DEF TurnEnds, ShapeOK, HarnessType
      <4> QED
        BY <4>1, <2>2
    <3> QED
      BY <3>1, <3>2
<1>22. CASE AppendEvent
  BY <1>22 DEF AppendEvent, PostOK, store, lane, session, guest
<1>23. CASE AckRow
  BY <1>23 DEF AckRow, PostOK, store, lane, session, guest
<1>24. CASE AttachSignal
  BY <1>24 DEF AttachSignal, PostOK, store, lane, session, guest
<1>25. CASE Attach
  BY <1>25 DEF Attach, PostOK, store, lane, session, guest
<1>26. CASE Resume
  BY <1>26 DEF Resume, PostOK, store, lane, session, guest
<1>27. ASSUME NEW w \in Worker, ForwardUnanswered(w) PROVE PostOK'
  BY <1>27 DEF ForwardUnanswered, PostOK, store, lane, session, guest
<1>28. ASSUME NEW w \in Worker, ExecutorDies(w) PROVE PostOK'
  BY <1>28 DEF ExecutorDies, PostOK, store, lane, session, guest
<1>29. CASE LinkDrops
  BY <1>29 DEF LinkDrops, PostOK, store, lane, session, guest
<1>30. CASE HarnessDies
  BY <1>30 DEF HarnessDies, PostOK, store, lane, session, guest
<1>31. CASE Evict
  BY <1>31 DEF Evict, PostOK, store, lane, session, guest
<1>32. CASE Terminate
  BY <1>32 DEF Terminate, PostOK, store, lane, session, guest
<1>33. CASE Displaced
  BY <1>33 DEF Displaced, PostOK, store, lane, session, guest
<1>34. CASE ScannerReturns
  BY <1>34 DEF ScannerReturns, PostOK, store, lane, session, guest
<1>35. CASE ResumeFails
  BY <1>35 DEF ResumeFails, PostOK, store, lane, session, guest
<1>36. ASSUME NEW w \in Worker, NEW p \in Prompt, AwaitScanner(w, p) PROVE PostOK'
  BY <1>36 DEF AwaitScanner, PostOK, store, lane, session, guest
<1>37. CASE UNCHANGED vars
  BY <1>37 DEF vars, PostOK
<1> QED
  BY <1>1, <1>2, <1>3, <1>4, <1>5, <1>6, <1>7, <1>8, <1>9, <1>10, <1>11,
     <1>12, <1>13, <1>14, <1>15, <1>16, <1>17, <1>18, <1>19, <1>20, <1>21,
     <1>22, <1>23, <1>24, <1>25, <1>26, <1>27, <1>28, <1>29, <1>30, <1>31,
     <1>32, <1>33, <1>34, <1>35, <1>36, <1>37
     DEF Next, Executor, Dequeue, Process, Ingest, Faulty

(* A row is retired with an outcome: the event of the post, or a decision. *)
LEMMA OutcomeStep ==
  ShapeOK /\ PostOK /\ AckedHasOutcome /\ [Next]_vars => AckedHasOutcome'
<1> SUFFICES ASSUME ShapeOK, PostOK, AckedHasOutcome, [Next]_vars
             PROVE  AckedHasOutcome'
  OBVIOUS
<1>1. ASSUME NEW p \in Prompt, SendPrompt(p) PROVE AckedHasOutcome'
  BY <1>1 DEF SendPrompt, NoRow, AckedHasOutcome, ShapeOK, RowShape, store, lane, session, guest
<1>2. ASSUME NEW p \in Prompt, RowComesDue(p) PROVE AckedHasOutcome'
  BY <1>2 DEF RowComesDue, AckedHasOutcome, ShapeOK, RowShape, store, lane, session, guest
<1>3. ASSUME NEW p \in Prompt, DequeueRead(p) PROVE AckedHasOutcome'
  BY <1>3 DEF DequeueRead, AckedHasOutcome, store, lane, session, guest
<1>4. CASE EnqueueDeliver
  BY <1>4 DEF EnqueueDeliver, AckedHasOutcome, store, lane, session, guest
<1>5. CASE OpBackoffEnds
  BY <1>5 DEF OpBackoffEnds, AckedHasOutcome, store, lane, session, guest
<1>6. CASE Reclaim
  BY <1>6 DEF Reclaim, AckedHasOutcome, store, lane, session, guest
<1>7. ASSUME NEW w \in Worker, ClaimDeliver(w) PROVE AckedHasOutcome'
  BY <1>7 DEF ClaimDeliver, AckedHasOutcome, store, lane, session, guest
<1>8. ASSUME NEW w \in Worker, Drained(w) PROVE AckedHasOutcome'
  BY <1>8 DEF Drained, AckedHasOutcome, store, lane, session, guest
<1>9. ASSUME NEW w \in Worker, NEW p \in Prompt, RetireTerminal(w, p) PROVE AckedHasOutcome'
  BY <1>9 DEF RetireTerminal, Acked, Retired, NoRow, AckedHasOutcome, ShapeOK, RowShape, store, lane, session, guest
<1>10. ASSUME NEW w \in Worker, NEW p \in Prompt, RetireExhausted(w, p) PROVE AckedHasOutcome'
  BY <1>10 DEF RetireExhausted, Acked, Retired, NoRow, AckedHasOutcome, ShapeOK, RowShape, store, lane, session, guest
<1>11. ASSUME NEW w \in Worker, NEW p \in Prompt, AwaitResume(w, p) PROVE AckedHasOutcome'
  BY <1>11 DEF AwaitResume, AckedHasOutcome, store, lane, session, guest
<1>12. ASSUME NEW w \in Worker, NEW p \in Prompt, TakeRow(w, p) PROVE AckedHasOutcome'
  BY <1>12 DEF TakeRow, AckedHasOutcome, store, lane, session, guest
<1>13. ASSUME NEW w \in Worker, Forward(w) PROVE AckedHasOutcome'
  BY <1>13 DEF Forward, AckedHasOutcome, store, lane, session, guest
<1>14. ASSUME NEW w \in Worker, ForwardUnattached(w) PROVE AckedHasOutcome'
  BY <1>14 DEF ForwardUnattached, Deferred, AckedHasOutcome, ShapeOK, RowShape, store, lane, session, guest
<1>15. ASSUME NEW w \in Worker, MarkDelivered(w) PROVE AckedHasOutcome'
  BY <1>15 DEF MarkDelivered, Marked, AckedHasOutcome, ShapeOK, RowShape, store, lane, session, guest
<1>16. CASE DequeueAsk
  BY <1>16 DEF DequeueAsk, AckedHasOutcome, store, lane, session, guest
<1>17. CASE DequeueUnattached
  BY <1>17 DEF DequeueUnattached, AckedHasOutcome, store, lane, session, guest
<1>18. CASE DequeueDelete
  BY <1>18 DEF DequeueDelete, Retired, NoRow, AckedHasOutcome, ShapeOK, RowShape, store, lane, session, guest
<1>19. CASE TakePrompt
  BY <1>19 DEF TakePrompt, AckedHasOutcome, store, lane, session, guest
<1>20. CASE TakeDequeue
  BY <1>20 DEF TakeDequeue, AckedHasOutcome, store, lane, session, guest
<1>21. CASE TurnEnds
  BY <1>21 DEF TurnEnds, AckedHasOutcome, store, lane, session, guest
<1>22. CASE AppendEvent
  BY <1>22 DEF AppendEvent, AckedHasOutcome, store, lane, session, guest
<1>23. CASE AckRow
  <2> DEFINE e == Head(harness.unacked)
  <2>1. e \in log /\ e \in EventType
    BY <1>23 DEF AckRow, PostOK, ShapeOK
  <2>2. CASE Confirms(e.kind)
    <3>1. rows' = Acked(e.row) /\ e.kind # "queued" /\ e.row \in Prompt
      BY <1>23, <2>1, <2>2 DEF AckRow, Confirms, EventType
    <3>2. \A p \in Prompt : rows'[p].state = "acked" => rows[p].state = "acked" \/ p = e.row
      BY <3>1 DEF Acked, Retired, NoRow, ShapeOK, RowShape
    <3> QED
      BY <1>23, <2>1, <3>1, <3>2 DEF AckRow, AckedHasOutcome, session
  <2>3. CASE ~Confirms(e.kind)
    BY <1>23, <2>3 DEF AckRow, AckedHasOutcome, session
  <2> QED
    BY <2>2, <2>3
<1>24. CASE AttachSignal
  BY <1>24 DEF AttachSignal, MadeDue, AckedHasOutcome, ShapeOK, RowShape, store, lane, session, guest
<1>25. CASE Attach
  BY <1>25 DEF Attach, AckedHasOutcome, store, lane, session, guest
<1>26. CASE Resume
  BY <1>26 DEF Resume, AckedHasOutcome, store, lane, session, guest
<1>27. ASSUME NEW w \in Worker, ForwardUnanswered(w) PROVE AckedHasOutcome'
  BY <1>27 DEF ForwardUnanswered, Deferred, AckedHasOutcome, ShapeOK, RowShape, store, lane, session, guest
<1>28. ASSUME NEW w \in Worker, ExecutorDies(w) PROVE AckedHasOutcome'
  BY <1>28 DEF ExecutorDies, AckedHasOutcome, store, lane, session, guest
<1>29. CASE LinkDrops
  BY <1>29 DEF LinkDrops, AckedHasOutcome, store, lane, session, guest
<1>30. CASE HarnessDies
  BY <1>30 DEF HarnessDies, AckedHasOutcome, store, lane, session, guest
<1>31. CASE Evict
  BY <1>31 DEF Evict, AckedHasOutcome, store, lane, session, guest
<1>32. CASE Terminate
  BY <1>32 DEF Terminate, AckedHasOutcome, store, lane, session, guest
<1>33. CASE Displaced
  BY <1>33 DEF Displaced, AckedHasOutcome, store, lane, session, guest
<1>34. CASE ScannerReturns
  BY <1>34 DEF ScannerReturns, AckedHasOutcome, store, lane, session, guest
<1>35. CASE ResumeFails
  BY <1>35 DEF ResumeFails, AckedHasOutcome, store, lane, session, guest
<1>36. ASSUME NEW w \in Worker, NEW p \in Prompt, AwaitScanner(w, p) PROVE AckedHasOutcome'
  BY <1>36 DEF AwaitScanner, AckedHasOutcome, store, lane, session, guest
<1>37. CASE UNCHANGED vars
  BY <1>37 DEF vars, AckedHasOutcome
<1> QED
  BY <1>1, <1>2, <1>3, <1>4, <1>5, <1>6, <1>7, <1>8, <1>9, <1>10, <1>11,
     <1>12, <1>13, <1>14, <1>15, <1>16, <1>17, <1>18, <1>19, <1>20, <1>21,
     <1>22, <1>23, <1>24, <1>25, <1>26, <1>27, <1>28, <1>29, <1>30, <1>31,
     <1>32, <1>33, <1>34, <1>35, <1>36, <1>37
     DEF Next, Executor, Dequeue, Process, Ingest, Faulty

-----------------------------------------------------------------------------
(* What a process consumes                                                 *)

LEMMA InitOnce == Init => OnceOK
<1> SUFFICES ASSUME Init PROVE OnceOK
  OBVIOUS
<1>1. started = <<>> /\ harness.pending = <<>>
  BY DEF Init, FreshProcess
<1>2. Len(<<>>) = 0 /\ DOMAIN <<>> = {}
  OBVIOUS
<1> QED
  BY <1>1, <1>2 DEF OnceOK, IsInjective

(* A new process has consumed nothing.                                     *)
LEMMA FreshOnce ==
  ASSUME ShapeOK, OnceOK, UNCHANGED started, harness' = FreshProcess(harness.proc + 1)
  PROVE  OnceOK'
<1>1. harness'.proc = harness.proc + 1 /\ harness'.pending = <<>> /\ harness.proc \in Nat
  BY DEF FreshProcess, ShapeOK, HarnessType
<1>2. Len(<<>>) = 0 /\ DOMAIN <<>> = {}
  OBVIOUS
<1>3. \A i \in 1..Len(started) : started[i][2] \in Nat
  BY ElementOfSeq DEF ShapeOK
<1> QED
  BY <1>1, <1>2, <1>3 DEF OnceOK, IsInjective

(* A process consumes a prompt that it has neither consumed nor queued.    *)
LEMMA ConsumeOnce ==
  ASSUME ShapeOK, IsInjective(started), NEW p \in Prompt, Consumes(p),
         harness'.proc = harness.proc, p \in harness'.seen,
         harness.seen \subseteq harness'.seen,
         IsInjective(harness'.pending),
         \A j \in 1..Len(harness'.pending) :
           harness'.pending[j] \in harness'.seen /\ harness'.pending[j] # p,
         \A i \in 1..Len(started) :
           /\ started[i][2] <= harness.proc
           /\ started[i][2] = harness.proc =>
                /\ started[i][1] \in harness.seen /\ started[i][1] # p
                /\ \A j \in 1..Len(harness'.pending) : harness'.pending[j] # started[i][1]
  PROVE  OnceOK'
<1> DEFINE n == Len(started)
           x == <<p, harness.proc>>
<1>1. started \in Seq(Prompt \X Nat) /\ x \in Prompt \X Nat /\ n \in Nat
  BY LenProperties DEF ShapeOK, HarnessType
<1>2. /\ started' \in Seq(Prompt \X Nat) /\ Len(started') = n + 1
      /\ \A i \in 1..n : started'[i] = started[i]
      /\ started'[n + 1] = x
  BY <1>1, AppendProperties DEF Consumes
<1>4. \A i \in 1..n : started[i] # x
  OBVIOUS
<1> HIDE DEF n
<1>5. IsInjective(started')
  BY <1>1, <1>4, AppendedInjective DEF Consumes, n
<1>6. x[1] = p /\ x[2] = harness.proc /\ harness.proc \in Nat
  BY DEF ShapeOK, HarnessType
<1> HIDE DEF x
<1>7. \A i \in 1..(n + 1) :
        /\ started'[i][2] <= harness'.proc
        /\ started'[i][2] = harness'.proc =>
             /\ started'[i][1] \in harness'.seen
             /\ \A j \in 1..Len(harness'.pending) : harness'.pending[j] # started'[i][1]
  <2> SUFFICES ASSUME NEW i \in 1..(n + 1)
               PROVE  /\ started'[i][2] <= harness'.proc
                      /\ started'[i][2] = harness'.proc =>
                           /\ started'[i][1] \in harness'.seen
                           /\ \A j \in 1..Len(harness'.pending) :
                                harness'.pending[j] # started'[i][1]
    OBVIOUS
  <2>1. CASE i \in 1..n
    BY <2>1, <1>2 DEF n
  <2>2. CASE i = n + 1
    BY <2>2, <1>2, <1>6
  <2> QED
    BY <2>1, <2>2, <1>1
<1> QED
  BY <1>2, <1>5, <1>7 DEF OnceOK

LEMMA OnceStep == ShapeOK /\ OnceOK /\ [Next]_vars => OnceOK'
<1> SUFFICES ASSUME ShapeOK, OnceOK, [Next]_vars PROVE OnceOK'
  OBVIOUS
<1>1. ASSUME NEW p \in Prompt, SendPrompt(p) PROVE OnceOK'
  BY <1>1 DEF SendPrompt, OnceOK, store, lane, session, guest
<1>2. ASSUME NEW p \in Prompt, RowComesDue(p) PROVE OnceOK'
  BY <1>2 DEF RowComesDue, OnceOK, store, lane, session, guest
<1>3. ASSUME NEW p \in Prompt, DequeueRead(p) PROVE OnceOK'
  BY <1>3 DEF DequeueRead, OnceOK, store, lane, session, guest
<1>4. CASE EnqueueDeliver
  BY <1>4 DEF EnqueueDeliver, OnceOK, store, lane, session, guest
<1>5. CASE OpBackoffEnds
  BY <1>5 DEF OpBackoffEnds, OnceOK, store, lane, session, guest
<1>6. CASE Reclaim
  BY <1>6 DEF Reclaim, OnceOK, store, lane, session, guest
<1>7. ASSUME NEW w \in Worker, ClaimDeliver(w) PROVE OnceOK'
  BY <1>7 DEF ClaimDeliver, OnceOK, store, lane, session, guest
<1>8. ASSUME NEW w \in Worker, Drained(w) PROVE OnceOK'
  BY <1>8 DEF Drained, OnceOK, store, lane, session, guest
<1>9. ASSUME NEW w \in Worker, NEW p \in Prompt, RetireTerminal(w, p) PROVE OnceOK'
  BY <1>9 DEF RetireTerminal, OnceOK, store, lane, session, guest
<1>10. ASSUME NEW w \in Worker, NEW p \in Prompt, RetireExhausted(w, p) PROVE OnceOK'
  BY <1>10 DEF RetireExhausted, OnceOK, store, lane, session, guest
<1>11. ASSUME NEW w \in Worker, NEW p \in Prompt, AwaitResume(w, p) PROVE OnceOK'
  BY <1>11 DEF AwaitResume, OnceOK, store, lane, session, guest
<1>12. ASSUME NEW w \in Worker, NEW p \in Prompt, TakeRow(w, p) PROVE OnceOK'
  BY <1>12 DEF TakeRow, OnceOK, store, lane, session, guest
<1>13. ASSUME NEW w \in Worker, Forward(w) PROVE OnceOK'
  BY <1>13 DEF Forward, OnceOK, store, lane, session, guest
<1>14. ASSUME NEW w \in Worker, ForwardUnattached(w) PROVE OnceOK'
  BY <1>14 DEF ForwardUnattached, OnceOK, store, lane, session, guest
<1>15. ASSUME NEW w \in Worker, MarkDelivered(w) PROVE OnceOK'
  BY <1>15 DEF MarkDelivered, OnceOK, store, lane, session, guest
<1>16. CASE DequeueAsk
  BY <1>16 DEF DequeueAsk, OnceOK, store, lane, session, guest
<1>17. CASE DequeueUnattached
  BY <1>17 DEF DequeueUnattached, OnceOK, store, lane, session, guest
<1>18. CASE DequeueDelete
  BY <1>18 DEF DequeueDelete, OnceOK, store, lane, session, guest
<1>19. CASE TakePrompt
  <2> DEFINE p == Head(wire).row
  <2>1. p \in Prompt
    <3>1. Head(wire) \in CommandType
      BY <1>19, HeadTailProperties DEF TakePrompt, ShapeOK
    <3> QED
      BY <3>1 DEF CommandType
  <2>2. CASE UNCHANGED <<harness, started>>
    BY <2>2 DEF OnceOK
  <2>3. CASE /\ ~Replayed(p)
             /\ harness'.proc = harness.proc /\ harness'.pending = harness.pending
             /\ harness'.seen = harness.seen \cup {p}
             /\ Consumes(p)
    <3>1. /\ \A j \in 1..Len(harness.pending) : harness.pending[j] # p
          /\ \A i \in 1..Len(started) : started[i][2] = harness.proc => started[i][1] # p
      BY <2>3 DEF Replayed, OnceOK
    <3>2. p \in harness'.seen /\ harness.seen \subseteq harness'.seen
      BY <2>3
    <3> HIDE DEF p
    <3> QED
      BY <2>1, <2>3, <3>1, <3>2, ConsumeOnce DEF OnceOK
  <2>4. CASE /\ ~Replayed(p)
             /\ harness'.proc = harness.proc /\ harness'.seen = harness.seen \cup {p}
             /\ harness'.pending = Append(harness.pending, p)
             /\ UNCHANGED started
    <3>1. harness.pending \in Seq(Prompt) /\ Len(harness.pending) \in Nat
      BY LenProperties DEF ShapeOK, HarnessType
    <3>2. /\ Len(harness'.pending) = Len(harness.pending) + 1
          /\ \A i \in 1..Len(harness.pending) : harness'.pending[i] = harness.pending[i]
          /\ harness'.pending[Len(harness.pending) + 1] = p
          /\ harness'.pending \in Seq(Prompt)
      BY <2>1, <2>4, <3>1, AppendProperties
    <3>3. \A i \in 1..Len(harness.pending) : harness.pending[i] # p
      BY <2>4 DEF OnceOK, Replayed
    <3>4. IsInjective(harness'.pending)
      BY <2>1, <2>4, <3>1, <3>3, AppendedInjective DEF OnceOK
    <3>5. \A i \in 1..Len(started) : started[i][2] = harness.proc => started[i][1] # p
      BY <2>4 DEF OnceOK, Replayed
    <3>6. \A i \in 1..Len(harness'.pending) : harness'.pending[i] \in harness'.seen
      BY <2>4, <3>1, <3>2 DEF OnceOK
    <3>7. ASSUME NEW i \in 1..Len(started), started[i][2] = harness.proc,
                 NEW j \in 1..Len(harness'.pending)
          PROVE  harness'.pending[j] # started[i][1]
      <4>1. CASE j = Len(harness.pending) + 1
        BY <4>1, <3>2, <3>5, <3>7
      <4>2. CASE j \in 1..Len(harness.pending)
        BY <4>2, <3>2, <3>7 DEF OnceOK
      <4> QED
        BY <4>1, <4>2, <3>1, <3>2
    <3> QED
      BY <2>4, <3>4, <3>6, <3>7 DEF OnceOK
  <2> QED
    BY <1>19, <2>2, <2>3, <2>4 DEF TakePrompt, ShapeOK, HarnessType
<1>20. CASE TakeDequeue
  <2>1. CASE UNCHANGED harness
    BY <1>20, <2>1 DEF TakeDequeue, OnceOK
  <2>2. ASSUME NEW k \in 1..Len(harness.pending),
               harness'.proc = harness.proc, harness'.seen = harness.seen,
               harness'.pending = RemoveAt(harness.pending, k)
        PROVE  OnceOK'
    <3> DEFINE n == Len(harness.pending)
    <3>1. harness.pending \in Seq(Prompt) /\ n \in Nat
      BY LenProperties DEF ShapeOK, HarnessType
    <3>2. /\ harness'.pending \in Seq(Prompt) /\ Len(harness'.pending) = n - 1
          /\ \A j \in 1..(n - 1) : harness'.pending[j] =
                IF j < k THEN harness.pending[j] ELSE harness.pending[j + 1]
      BY <2>2, <3>1, RemoveAtElements
    <3>4. IsInjective(harness'.pending)
      <4> DEFINE t == harness'.pending
                 m == [j \in 1..Len(t) |-> IF j < k THEN j ELSE j + 1]
      <4>1. Len(t) = n - 1 /\ n \in Nat /\ t \in Seq(Prompt)
        BY <3>1, <3>2
      <4>2. m \in [1..Len(t) -> 1..Len(harness.pending)]
        BY <4>1
      <4>3. \A a, b \in 1..Len(t) : m[a] = m[b] => a = b
        BY <4>1
      <4>4. \A j \in 1..Len(t) : t[j] = harness.pending[m[j]]
        BY <4>1, <3>1, <3>2
      <4> HIDE DEF m, n, t
      <4>5. \A a, b \in 1..Len(harness.pending) :
              harness.pending[a] = harness.pending[b] => a = b
        BY <3>1, InjectiveSeq DEF OnceOK
      <4>6. \A a, b \in 1..Len(t) : t[a] = t[b] => a = b
        BY <4>2, <4>3, <4>4, <4>5
      <4>7. IsInjective(t)
        BY <4>1, <4>6, InjectiveSeq
      <4> QED
        BY <4>7 DEF t
    <3>5. ASSUME NEW j \in 1..(n - 1)
          PROVE  \E i \in 1..n : harness'.pending[j] = harness.pending[i]
      <4>1. j \in 1..n /\ j + 1 \in 1..n
        BY <3>1
      <4>2. \/ harness'.pending[j] = harness.pending[j]
            \/ harness'.pending[j] = harness.pending[j + 1]
        BY <3>1, <3>2
      <4> HIDE DEF n
      <4> QED
        BY <4>1, <4>2
    <3> HIDE DEF n
    <3>6. UNCHANGED started
      BY <1>20 DEF TakeDequeue
    <3> QED
      BY <2>2, <3>2, <3>4, <3>5, <3>6 DEF OnceOK, n
  <2> QED
    BY <1>20, <2>1, <2>2 DEF TakeDequeue, ShapeOK, HarnessType
<1>21. CASE TurnEnds
  <2>1. CASE harness.pending = <<>>
    BY <1>21, <2>1 DEF TurnEnds, OnceOK, ShapeOK, HarnessType
  <2>2. CASE harness.pending # <<>>
    <3> DEFINE p == Head(harness.pending)
               n == Len(harness.pending)
    <3>1. harness.pending \in Seq(Prompt) /\ n \in Nat \ {0}
      BY <2>2, LenProperties, EmptySeq DEF ShapeOK, HarnessType
    <3>2. /\ p = harness.pending[1] /\ p \in Prompt
          /\ Tail(harness.pending) \in Seq(Prompt) /\ Len(Tail(harness.pending)) = n - 1
          /\ \A i \in 1..(n - 1) : Tail(harness.pending)[i] = harness.pending[i + 1]
      BY <2>2, <3>1, HeadTailProperties
    <3>3. /\ harness'.proc = harness.proc /\ harness'.seen = harness.seen
          /\ harness'.pending = Tail(harness.pending)
          /\ Consumes(p)
      BY <1>21, <2>2 DEF TurnEnds, ShapeOK, HarnessType
    <3>4. \A a, b \in 1..n : harness.pending[a] = harness.pending[b] => a = b
      BY <3>1, InjectiveSeq DEF OnceOK
    <3>5. IsInjective(harness'.pending)
      <4> DEFINE t == harness'.pending
                 m == [j \in 1..Len(t) |-> j + 1]
      <4>1. Len(t) = n - 1 /\ n \in Nat /\ t \in Seq(Prompt)
        BY <3>1, <3>2, <3>3
      <4>2. m \in [1..Len(t) -> 1..Len(harness.pending)]
        BY <4>1
      <4>3. \A a, b \in 1..Len(t) : m[a] = m[b] => a = b
        BY <4>1
      <4>4. \A j \in 1..Len(t) : t[j] = harness.pending[m[j]]
        BY <4>1, <3>1, <3>2, <3>3
      <4> HIDE DEF m, n, t
      <4>5. \A a, b \in 1..Len(harness.pending) :
              harness.pending[a] = harness.pending[b] => a = b
        BY <3>1, InjectiveSeq DEF OnceOK
      <4>6. \A a, b \in 1..Len(t) : t[a] = t[b] => a = b
        BY <4>2, <4>3, <4>4, <4>5
      <4>7. IsInjective(t)
        BY <4>1, <4>6, InjectiveSeq
      <4> QED
        BY <4>7 DEF t
    <3>12. \A j \in 1..(n - 1) : harness'.pending[j] # p
      BY <3>1, <3>2, <3>3, <3>4
    <3>6. ASSUME NEW j \in 1..(n - 1)
          PROVE  \E i \in 1..n : harness'.pending[j] = harness.pending[i]
      <4>1. j + 1 \in 1..n
        BY <3>1
      <4>2. harness'.pending[j] = harness.pending[j + 1]
        BY <3>2, <3>3
      <4> HIDE DEF n, p
      <4> QED
        BY <4>1, <4>2
    <3>7. 1 \in 1..n
      BY <3>1
    <3> HIDE DEF p, n
    <3>8. p \in harness.seen
      BY <3>2, <3>7 DEF OnceOK, n
    <3>9. \A i \in 1..Len(started) : started[i][2] = harness.proc => started[i][1] # p
      BY <3>2, <3>7 DEF OnceOK, n
    <3>10. \A i \in 1..Len(harness'.pending) : harness'.pending[i] \in harness'.seen
      BY <3>2, <3>3, <3>6 DEF OnceOK, n
    <3>11. ASSUME NEW i \in 1..Len(started), started[i][2] = harness.proc,
                  NEW j \in 1..Len(harness'.pending)
           PROVE  harness'.pending[j] # started[i][1]
      BY <3>2, <3>3, <3>6, <3>11 DEF OnceOK, n
    <3> QED
      BY <3>2, <3>3, <3>5, <3>8, <3>9, <3>10, <3>11, <3>12, ConsumeOnce, ZenonT(60) DEF OnceOK, ShapeOK, HarnessType
  <2> QED
    BY <2>1, <2>2
<1>22. CASE AppendEvent
  BY <1>22 DEF AppendEvent, OnceOK, store, lane, session, guest
<1>23. CASE AckRow
  BY <1>23 DEF AckRow, OnceOK, ShapeOK, HarnessType
<1>24. CASE AttachSignal
  BY <1>24 DEF AttachSignal, OnceOK, store, lane, session, guest
<1>25. CASE Attach
  BY <1>25 DEF Attach, OnceOK, store, lane, session, guest
<1>26. CASE Resume
  <2>1. CASE UNCHANGED harness
    BY <1>26, <2>1 DEF Resume, OnceOK
  <2>2. CASE harness' = FreshProcess(harness.proc + 1)
    BY <1>26, <2>2, FreshOnce DEF Resume
  <2> QED
    BY <1>26, <2>1, <2>2 DEF Resume
<1>27. ASSUME NEW w \in Worker, ForwardUnanswered(w) PROVE OnceOK'
  BY <1>27 DEF ForwardUnanswered, OnceOK, store, lane, session, guest
<1>28. ASSUME NEW w \in Worker, ExecutorDies(w) PROVE OnceOK'
  BY <1>28 DEF ExecutorDies, OnceOK, store, lane, session, guest
<1>29. CASE LinkDrops
  BY <1>29 DEF LinkDrops, OnceOK, store, lane, session, guest
<1>30. CASE HarnessDies
  BY <1>30, FreshOnce DEF HarnessDies
<1>31. CASE Evict
  BY <1>31 DEF Evict, OnceOK, store, lane, session, guest
<1>32. CASE Terminate
  BY <1>32 DEF Terminate, OnceOK, store, lane, session, guest
<1>33. CASE Displaced
  BY <1>33 DEF Displaced, OnceOK, store, lane, session, guest
<1>34. CASE ScannerReturns
  BY <1>34 DEF ScannerReturns, OnceOK, store, lane, session, guest
<1>35. CASE ResumeFails
  BY <1>35 DEF ResumeFails, OnceOK, store, lane, session, guest
<1>36. ASSUME NEW w \in Worker, NEW p \in Prompt, AwaitScanner(w, p) PROVE OnceOK'
  BY <1>36 DEF AwaitScanner, OnceOK, store, lane, session, guest
<1>37. CASE UNCHANGED vars
  BY <1>37 DEF vars, OnceOK
<1> QED
  BY <1>1, <1>2, <1>3, <1>4, <1>5, <1>6, <1>7, <1>8, <1>9, <1>10, <1>11,
     <1>12, <1>13, <1>14, <1>15, <1>16, <1>17, <1>18, <1>19, <1>20, <1>21,
     <1>22, <1>23, <1>24, <1>25, <1>26, <1>27, <1>28, <1>29, <1>30, <1>31,
     <1>32, <1>33, <1>34, <1>35, <1>36, <1>37
     DEF Next, Executor, Dequeue, Process, Ingest, Faulty

-----------------------------------------------------------------------------
(* Theorems                                                                *)

LEMMA Invariance == Spec => []IInv
<1>1. Init => IInv
  <2>1. Init => AckedHasOutcome
    BY DEF Init, AckedHasOutcome, NoRow
  <2> QED
    BY <2>1, InitShape, InitBudget, InitPost, InitOnce DEF IInv
<1>2. IInv /\ [Next]_vars => IInv'
  BY ShapeStep, BudgetStep, PostStep, OnceStep, OutcomeStep DEF IInv
<1> QED
  BY <1>1, <1>2, PTL DEF Spec

(* The rows, the lane, the harness and the faults keep their types, for    *)
(* any number of executors: in particular a row is never tried more often  *)
(* than MaxTries, though reclaimed executors go on delivering what they    *)
(* took, and a posted event is there until its row is acked.               *)
THEOREM TypeCorrect == Spec => []TypeOK
<1>1. IInv => TypeOK
  <2> SUFFICES ASSUME IInv PROVE TypeOK
    OBVIOUS
  <2> USE DEF IInv
  <2>1. \A p \in Prompt : rows[p].attempts \in 0..MaxTries
    BY HoldersBound, Constants DEF BudgetOK, ShapeOK, RowShape
  <2>2. \A p \in Prompt : rows[p] \in Row
    BY <2>1, Zenon DEF ShapeOK, RowShape, Row
  <2>3. rows \in [Prompt -> Row]
    BY <2>2, Zenon DEF ShapeOK
  <2>4. \A e \in log : e.row \in Prompt
    BY DEF ShapeOK, EventType
  <2>5. harness.turn \in 0..Boot /\ harness.seen \subseteq Prompt
    BY DEF ShapeOK, HarnessType
  <2> QED
    BY <2>3, <2>4, <2>5 DEF TypeOK, ShapeOK, PostOK
<1> QED
  BY <1>1, Invariance, PTL

(* No process of the harness consumes a prompt twice, whatever number of   *)
(* forwards, replays, reconnects and restores a prompt goes through.       *)
THEOREM ConsumesOnce == Spec => []RunsOncePerProcess
<1>1. IInv => RunsOncePerProcess
  BY DEF IInv, OnceOK, RunsOncePerProcess
<1> QED
  BY <1>1, Invariance, PTL

(* No row is retired without an outcome in the log, for any number of      *)
(* prompts, executors and faults.                                          *)
THEOREM RetiredWithOutcome == Spec => []AckedHasOutcome
<1>1. IInv => AckedHasOutcome
  BY DEF IInv
<1> QED
  BY <1>1, Invariance, PTL

=============================================================================
