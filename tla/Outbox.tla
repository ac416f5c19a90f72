------------------------------- MODULE Outbox -------------------------------
(***************************************************************************)
(* Delivery of a session's prompts.  The API accepts a prompt as a row of  *)
(* session_outbox; Deliver ops forward the due rows to the session's       *)
(* harness and forward them again until an event of the harness confirms   *)
(* them; the harness runs, steers or queues a prompt it has not seen.      *)
(*                                                                         *)
(* Time is abstract: a wait (ACK_TIMEOUT, a backoff) may end at any moment *)
(* after it began.  A prompt is a number, in the order of created_at.      *)
(***************************************************************************)
EXTENDS Naturals, Sequences, FiniteSets, SequencesExt

CONSTANTS MaxPrompt,    \* prompts the user sends
          Worker,       \* executors of Deliver ops, reclaimed ones included
          None,
          MaxAttempts,  \* DELIVER_ROW_MAX_ATTEMPTS
          MaxFault      \* lost links and answers, deaths, evictions, reclaims

ASSUME OutboxAssumption ==
  /\ MaxPrompt \in Nat \ {0} /\ MaxAttempts \in Nat \ {0} /\ MaxFault \in Nat
  /\ None \notin Worker /\ IsFiniteSet(Worker)

VARIABLES
  rows,      \* [Prompt -> Row]: session_outbox
  givenUp,   \* the prompts whose delivery was given up, see RetireExhausted
  log,       \* the harness events in session_events, with their process
  op,        \* the session's Deliver op: none, queued, backoff or running
  owner,     \* the executor that holds the running op
  exec,      \* [Worker -> [at, row]]: where each executor is, and its copy
  withdraw,  \* the dequeue request in progress
  status,    \* of the session: active; idle (Deliver asks for a Resume); owned (a
             \* scanner has to bring it back: queued, pending, evacuating, lost);
             \* terminal
  resuming,  \* a Resume op is queued
  link,      \* the harness's connection: up, dialing or gone
  wire,      \* commands on their way to the harness
  harness,   \* the harness process: turn, seen_prompt_ids, pending, unacked events
  post,      \* how far the host's POST of the oldest unacked event is
  signal,    \* an announcement of the harness is on its way
  started,   \* what the processes of the harness consumed, in order
  faults

vars == <<rows, givenUp, log, op, owner, exec, withdraw, status, resuming, link,
          wire, harness, post, signal, started, faults>>
store   == <<rows, givenUp, log>>
lane    == <<op, owner, exec>>
session == <<status, resuming>>
guest   == <<link, wire, harness, post, signal, started>>

Prompt == 1..MaxPrompt

\* Each executor that took the row within its budget may try it once more.
MaxTries == MaxAttempts + Cardinality(Worker) - 1

Row == [state : {"none", "open", "acked", "deleted"}, due : BOOLEAN,
        delivered : BOOLEAN, attempts : 0..MaxTries]
NoRow == [state |-> "none", due |-> FALSE, delivered |-> FALSE, attempts |-> 0]
AtRest == [at |-> "idle", row |-> 0]
NoWithdrawal == [at |-> "idle", row |-> 0, delivered |-> FALSE]

\* The run of the prompt a session is created with, which may still go on.
Boot == MaxPrompt + 1

\* A harness process that has just been spawned.
FreshProcess(n) ==
  [proc |-> n, turn |-> 0, seen |-> {}, pending |-> <<>>, unacked |-> <<>>]

Init ==
  /\ rows = [p \in Prompt |-> NoRow]
  /\ givenUp = {} /\ log = {}
  /\ op = "none" /\ owner = None
  /\ exec = [w \in Worker |-> AtRest]
  /\ withdraw = NoWithdrawal
  /\ status = "active" /\ resuming = FALSE
  /\ link = "up" /\ wire = <<>>
  /\ \E t \in {0, Boot} : harness = [FreshProcess(0) EXCEPT !.turn = t]
  /\ post = "none" /\ signal = FALSE
  /\ started = <<>>
  /\ faults = 0

Open(p) == rows[p].state = "open"
Fault == faults < MaxFault /\ faults' = faults + 1

-----------------------------------------------------------------------------
(* The rows.  Every write but the accept is guarded by acked_at IS NULL.   *)

\* send_prompt_core: the row and its events in one transaction.  A second
\* call with the same prompt_id inserts nothing.
SendPrompt(p) ==
  /\ status # "terminal"
  /\ rows[p].state = "none"
  /\ \A q \in 1..(p - 1) : rows[q].state # "none"
  /\ rows' = [rows EXCEPT ![p] = [NoRow EXCEPT !.state = "open", !.due = TRUE]]
  /\ UNCHANGED <<givenUp, log, lane, withdraw, session, guest, faults>>

\* What a retired row held is read by nobody, and dropped here.
Retired(p, end) ==
  IF Open(p) THEN [rows EXCEPT ![p] = [NoRow EXCEPT !.state = end]] ELSE rows

Acked(p) == Retired(p, "acked")

\* outbox_mark_delivered: due again when ACK_TIMEOUT has passed.
Marked(p) ==
  IF Open(p)
  THEN [rows EXCEPT ![p].delivered = TRUE, ![p].due = FALSE, ![p].attempts = @ + 1]
  ELSE rows

\* outbox_defer: due again when the backoff has passed.
Deferred(p) ==
  IF Open(p) THEN [rows EXCEPT ![p].due = FALSE, ![p].attempts = @ + 1] ELSE rows

MadeDue == [p \in Prompt |-> IF Open(p) THEN [rows[p] EXCEPT !.due = TRUE] ELSE rows[p]]

\* Mutant: a delivered row is taken for settled and never comes due again.
MayComeDueUndelivered(p) == Open(p) /\ ~rows[p].due /\ ~rows[p].delivered

MayComeDue(p) == Open(p) /\ ~rows[p].due

RowComesDue(p) ==
  /\ MayComeDue(p)
  /\ rows' = [rows EXCEPT ![p].due = TRUE]
  /\ UNCHANGED <<givenUp, log, lane, withdraw, session, guest, faults>>

\* outbox_next_due: the oldest of the due rows, which need not be the oldest.
NextDue(p) ==
  /\ Open(p) /\ rows[p].due
  /\ \A q \in 1..(p - 1) : ~(Open(q) /\ rows[q].due)

SomeDue == \E p \in Prompt : Open(p) /\ rows[p].due

-----------------------------------------------------------------------------
(* The Deliver op.  The log admits one running op of a session; an executor *)
(* that was reclaimed is not stopped, and its writes to the outbox are not  *)
(* fenced.                                                                  *)

\* enqueue_deliver_op, from the accept or the shim's scan.
EnqueueDeliver ==
  /\ op = "none" /\ SomeDue
  /\ op' = "queued"
  /\ UNCHANGED <<store, owner, exec, withdraw, session, guest, faults>>

ClaimDeliver(w) ==
  /\ op = "queued" /\ exec[w].at = "idle"
  /\ op' = "running" /\ owner' = w
  /\ exec' = [exec EXCEPT ![w].at = "loop"]
  /\ UNCHANGED <<store, withdraw, session, guest, faults>>

\* The executor leaves; its outcome counts only while it holds the op.
Leave(w, next) ==
  /\ exec' = [exec EXCEPT ![w] = AtRest]
  /\ IF owner = w THEN op' = next /\ owner' = None ELSE UNCHANGED <<op, owner>>

Drained(w) ==
  /\ exec[w].at = "loop" /\ ~SomeDue
  /\ Leave(w, "none")
  /\ UNCHANGED <<store, withdraw, session, guest, faults>>

\* The session can never take the prompt: its row ends with it.
RetireTerminal(w, p) ==
  /\ exec[w].at = "loop" /\ NextDue(p) /\ status = "terminal"
  /\ rows' = Acked(p)
  /\ UNCHANGED <<givenUp, log, lane, withdraw, session, guest, faults>>

\* Mutant: the budget is checked one try too late.
ExhaustedLate(p) == rows[p].attempts > MaxAttempts

Exhausted(p) == rows[p].attempts >= MaxAttempts

\* The delivery budget is spent: prompt_undeliverable is appended for the user,
\* a failed append is only logged, and the row is retired.
RetireExhausted(w, p) ==
  /\ exec[w].at = "loop" /\ NextDue(p) /\ status # "terminal" /\ Exhausted(p)
  /\ givenUp' = givenUp \cup {p}
  /\ rows' = Acked(p)
  /\ UNCHANGED <<log, lane, withdraw, session, guest, faults>>

\* Not active: a Resume op is queued behind this one, which backs off.  The row
\* is not deferred, so the wait does not count against its budget.
AwaitResume(w, p) ==
  /\ exec[w].at = "loop" /\ NextDue(p) /\ ~Exhausted(p)
  /\ status = "idle"
  /\ resuming' = TRUE
  /\ Leave(w, "backoff")
  /\ UNCHANGED <<store, withdraw, status, guest, faults>>

\* The states that a scanner owns: the op knocks again, without a budget.
AwaitScanner(w, p) ==
  /\ exec[w].at = "loop" /\ NextDue(p) /\ ~Exhausted(p)
  /\ status = "owned"
  /\ Leave(w, "backoff")
  /\ UNCHANGED <<store, withdraw, session, guest, faults>>

TakeRow(w, p) ==
  /\ exec[w].at = "loop" /\ NextDue(p) /\ ~Exhausted(p)
  /\ status = "active"
  /\ exec' = [exec EXCEPT ![w] = [at |-> "forward", row |-> p]]
  /\ UNCHANGED <<store, op, owner, withdraw, session, guest, faults>>

Command(kind, p) == [kind |-> kind, row |-> p]

\* The host hands the command to the connection's writer and answers.
Forward(w) ==
  /\ exec[w].at = "forward" /\ link = "up"
  /\ wire' = Append(wire, Command("prompt", exec[w].row))
  /\ exec' = [exec EXCEPT ![w].at = "mark"]
  /\ UNCHANGED <<store, op, owner, withdraw, session, link, harness, post,
                 signal, started, faults>>

\* The command is handed over and the answer is lost: the row is deferred.
ForwardUnanswered(w) ==
  /\ Fault
  /\ exec[w].at = "forward" /\ link = "up"
  /\ wire' = Append(wire, Command("prompt", exec[w].row))
  /\ rows' = Deferred(exec[w].row)
  /\ Leave(w, "backoff")
  /\ UNCHANGED <<givenUp, log, withdraw, session, link, harness, post, signal, started>>

\* No harness is attached.  Past the attach grace start_agent runs again,
\* which spawns a new process where the old one is gone.
ForwardUnattached(w) ==
  /\ exec[w].at = "forward" /\ link # "up"
  /\ rows' = Deferred(exec[w].row)
  /\ Leave(w, "backoff")
  /\ \/ link' = IF link = "gone" /\ status = "active" THEN "dialing" ELSE link
     \/ UNCHANGED link
  /\ UNCHANGED <<givenUp, log, withdraw, session, wire, harness, post, signal,
                 started, faults>>

MarkDelivered(w) ==
  /\ exec[w].at = "mark"
  /\ rows' = Marked(exec[w].row)
  /\ exec' = [exec EXCEPT ![w] = [at |-> "loop", row |-> 0]]
  /\ UNCHANGED <<givenUp, log, op, owner, withdraw, session, guest, faults>>

OpBackoffEnds ==
  /\ op = "backoff"
  /\ op' = "queued"
  /\ UNCHANGED <<store, owner, exec, withdraw, session, guest, faults>>

\* The coordinator dies in the verb.
ExecutorDies(w) ==
  /\ Fault
  /\ exec[w].at # "idle"
  /\ exec' = [exec EXCEPT ![w] = AtRest]
  /\ UNCHANGED <<store, op, owner, withdraw, session, guest>>

\* op_reclaim_stale: of a dead executor, or (a fault) of a slow one.
Reclaim ==
  /\ op = "running"
  /\ IF exec[owner].at = "idle" THEN UNCHANGED faults ELSE Fault
  /\ op' = "queued" /\ owner' = None
  /\ UNCHANGED <<store, exec, withdraw, session, guest>>

-----------------------------------------------------------------------------
(* dequeue_queued_prompt_core: the row is read, the harness is asked, the   *)
(* row is deleted.                                                          *)

DequeueRead(p) ==
  /\ withdraw.at = "idle" /\ Open(p)
  /\ withdraw' = [at |-> IF status = "active" THEN "ask" ELSE "delete",
                  row |-> p, delivered |-> rows[p].delivered]
  /\ UNCHANGED <<store, lane, session, guest, faults>>

DequeueAsk ==
  /\ withdraw.at = "ask" /\ link = "up"
  /\ wire' = Append(wire, Command("dequeue", withdraw.row))
  /\ withdraw' = [withdraw EXCEPT !.at = "delete"]
  /\ UNCHANGED <<store, lane, session, link, harness, post, signal, started, faults>>

\* An undelivered row has no copy in the harness; a delivered one may.
DequeueUnattached ==
  /\ withdraw.at = "ask" /\ link # "up"
  /\ withdraw' = IF withdraw.delivered THEN NoWithdrawal
                                       ELSE [withdraw EXCEPT !.at = "delete"]
  /\ UNCHANGED <<store, lane, session, guest, faults>>

DequeueDelete ==
  /\ withdraw.at = "delete"
  /\ rows' = Retired(withdraw.row, "deleted")
  /\ withdraw' = NoWithdrawal
  /\ UNCHANGED <<givenUp, log, lane, session, guest, faults>>

-----------------------------------------------------------------------------
(* The harness process.                                                     *)

Event(kind, p) == [kind |-> kind, row |-> p, proc |-> harness.proc]
Emits(kind, p) == Append(harness.unacked, Event(kind, p))
Consumes(p) == started' = Append(started, <<p, harness.proc>>)

\* Mutant: the process knows only the prompts it still holds in its queue.
ReplayedQueued(p) == Contains(harness.pending, p)

Replayed(p) == p \in harness.seen

\* A prompt the process has seen is a replay.  Otherwise it starts a turn, or
\* is written into the running one, or waits for its end.
TakePrompt ==
  /\ wire # <<>> /\ Head(wire).kind = "prompt"
  /\ wire' = Tail(wire)
  /\ LET p == Head(wire).row
         known == [harness EXCEPT !.seen = @ \cup {p}]
     IN \/ /\ Replayed(p)
           /\ UNCHANGED <<harness, started>>
        \/ /\ ~Replayed(p) /\ harness.turn = 0
           /\ harness' = [known EXCEPT !.turn = p, !.unacked = Emits("run", p)]
           /\ Consumes(p)
        \/ /\ ~Replayed(p) /\ harness.turn # 0
           /\ harness' = [known EXCEPT !.unacked = Emits("steered", p)]
           /\ Consumes(p)
        \/ /\ ~Replayed(p) /\ harness.turn # 0
           /\ harness' = [known EXCEPT !.unacked = Emits("queued", p),
                                       !.pending = Append(@, p)]
           /\ UNCHANGED started
  /\ UNCHANGED <<store, lane, withdraw, session, link, post, signal, faults>>

\* The queue drops the id (retain), which it holds at most once.
TakeDequeue ==
  /\ wire # <<>> /\ Head(wire).kind = "dequeue"
  /\ wire' = Tail(wire)
  /\ LET p == Head(wire).row
     IN \/ /\ ~Contains(harness.pending, p)
           /\ UNCHANGED harness
        \/ \E i \in 1..Len(harness.pending) :
             /\ harness.pending[i] = p
             /\ harness' = [harness EXCEPT !.pending = RemoveAt(@, i),
                                           !.unacked = Emits("dequeued", p)]
  /\ UNCHANGED <<store, lane, withdraw, session, link, post, signal, started, faults>>

\* The turn ends: the oldest queued prompt starts, or the harness is idle.
TurnEnds ==
  /\ harness.turn # 0 /\ link # "gone"
  /\ IF harness.pending = <<>>
     THEN /\ harness' = [harness EXCEPT !.turn = 0]
          /\ signal' = TRUE
          /\ UNCHANGED started
     ELSE LET p == Head(harness.pending)
          IN /\ harness' = [harness EXCEPT !.turn = p, !.pending = Tail(@),
                                           !.unacked = Emits("run", p)]
             /\ Consumes(p)
             /\ UNCHANGED signal
  /\ UNCHANGED <<store, lane, withdraw, session, link, wire, post, faults>>

-----------------------------------------------------------------------------
(* Events on their way to the log.  The host acknowledges an event to the   *)
(* harness when the coordinator has stored it and acked the row it confirms; *)
(* until then the harness keeps it, and sends it again on a new connection.  *)

AppendEvent ==
  /\ link = "up" /\ harness.unacked # <<>> /\ post = "none"
  /\ log' = log \cup {Head(harness.unacked)}
  /\ post' = "appended"
  /\ UNCHANGED <<rows, givenUp, lane, withdraw, session, link, wire, harness, signal,
                 started, faults>>

\* Mutant: prompt_queued acks, though the queue is process memory.
ConfirmsQueued(kind) == kind \in {"run", "steered", "dequeued", "queued"}

\* outbox_ack_id
Confirms(kind) == kind \in {"run", "steered", "dequeued"}

\* The EventAck follows: losing it replays an event that changes nothing.
AckRow ==
  /\ post = "appended"
  /\ LET e == Head(harness.unacked)
     IN rows' = IF Confirms(e.kind) THEN Acked(e.row) ELSE rows
  /\ harness' = [harness EXCEPT !.unacked = Tail(@)]
  /\ post' = "none"
  /\ UNCHANGED <<givenUp, log, lane, withdraw, session, link, wire, signal, started, faults>>

\* A waiting-state event: every row is due and the Deliver op's wait is over.
AttachSignal ==
  /\ signal /\ link = "up"
  /\ signal' = FALSE
  /\ rows' = MadeDue
  /\ op' = IF op = "backoff" THEN "queued" ELSE op
  /\ UNCHANGED <<givenUp, log, owner, exec, withdraw, session, link, wire, harness,
                 post, started, faults>>

-----------------------------------------------------------------------------
(* Connections, processes and the session's life.                           *)

Attach ==
  /\ link = "dialing" /\ status = "active"
  /\ link' = "up" /\ signal' = TRUE
  /\ UNCHANGED <<store, lane, withdraw, session, wire, harness, post, started, faults>>

\* The connection drops, also because storing an event failed.
LinkDrops ==
  /\ Fault
  /\ link = "up"
  /\ link' = "dialing" /\ wire' = <<>> /\ post' = "none"
  /\ UNCHANGED <<store, lane, withdraw, session, harness, signal, started>>

\* The process dies with its queue, its ids and its unacknowledged events.
HarnessDies ==
  /\ Fault
  /\ link # "gone"
  /\ link' = "gone" /\ wire' = <<>> /\ post' = "none" /\ signal' = FALSE
  /\ harness' = FreshProcess(harness.proc + 1)
  /\ UNCHANGED <<store, lane, withdraw, session, started>>

\* An idle session is evicted: another op of its lane.
Evict ==
  /\ Fault
  /\ status = "active" /\ op # "running"
  /\ harness.turn = 0 /\ harness.pending = <<>>
  /\ status' = "idle"
  /\ link' = "gone" /\ wire' = <<>> /\ post' = "none" /\ signal' = FALSE
  /\ UNCHANGED <<store, lane, withdraw, resuming, harness, started>>

\* The session loses its place: its host is lost, or it is moved.
Displaced ==
  /\ Fault
  /\ status = "active"
  /\ status' = "owned"
  /\ link' = "gone" /\ wire' = <<>> /\ post' = "none" /\ signal' = FALSE
  /\ UNCHANGED <<store, lane, withdraw, resuming, harness, started>>

\* The scanner settles it to Idle, or brings it up elsewhere.
ScannerReturns ==
  /\ status = "owned"
  /\ \/ status' = "idle" /\ UNCHANGED link
     \/ status' = "active" /\ link' = "dialing"
  /\ UNCHANGED <<store, lane, withdraw, resuming, wire, harness, post, signal,
                 started, faults>>

\* The Resume op ends in failure, at its budget of attempts for example.  An
\* idle session is left alone, and Deliver asks for another one.
ResumeFails ==
  /\ resuming /\ op # "running" /\ status = "idle"
  /\ resuming' = FALSE
  /\ UNCHANGED <<store, lane, withdraw, status, guest, faults>>

\* The restored guest has the process it was captured with, or a new one.
Resume ==
  /\ resuming /\ op # "running"
  /\ resuming' = FALSE
  /\ IF status = "idle"
     THEN /\ status' = "active" /\ link' = "dialing"
          /\ \/ UNCHANGED harness
             \/ harness' = FreshProcess(harness.proc + 1)
     ELSE UNCHANGED <<status, link, harness>>
  /\ UNCHANGED <<store, lane, withdraw, wire, post, signal, started, faults>>

Terminate ==
  /\ Fault
  /\ status # "terminal"
  /\ status' = "terminal"
  /\ link' = "gone" /\ wire' = <<>> /\ post' = "none" /\ signal' = FALSE
  /\ UNCHANGED <<store, lane, withdraw, resuming, harness, started>>

-----------------------------------------------------------------------------
Executor(w) ==
  \/ ClaimDeliver(w) \/ Drained(w)
  \/ \E p \in Prompt : \/ RetireTerminal(w, p) \/ RetireExhausted(w, p)
                       \/ AwaitResume(w, p) \/ AwaitScanner(w, p)
                       \/ TakeRow(w, p)
  \/ Forward(w) \/ ForwardUnattached(w) \/ MarkDelivered(w)

Dequeue == DequeueAsk \/ DequeueUnattached \/ DequeueDelete
Process == TakePrompt \/ TakeDequeue
Ingest == AppendEvent \/ AckRow
Faulty == \/ \E w \in Worker : ForwardUnanswered(w) \/ ExecutorDies(w)
          \/ LinkDrops \/ HarnessDies \/ Evict \/ Displaced \/ Terminate

Next ==
  \/ \E p \in Prompt : SendPrompt(p) \/ RowComesDue(p) \/ DequeueRead(p)
  \/ EnqueueDeliver \/ OpBackoffEnds \/ Reclaim
  \/ \E w \in Worker : Executor(w)
  \/ Dequeue \/ Process \/ TurnEnds \/ Ingest \/ AttachSignal
  \/ Attach \/ Resume \/ ResumeFails \/ ScannerReturns \/ Faulty

Spec == Init /\ [][Next]_vars

(* Tasks that are alive run on, timers fire, the shim's and the op log's    *)
(* scans repeat, a harness redials, and a posted event is retried.  A queued *)
(* Resume runs though Deliver comes back again and again: whoever ends an op *)
(* drives the next due one of the lane.  It may fail every time.  Nothing is *)
(* assumed of the user, of the agent's turns, of the scanner that owns a     *)
(* displaced session, or of the faults.                                      *)
Fairness ==
  /\ \A w \in Worker : WF_vars(Executor(w))
  /\ WF_vars(EnqueueDeliver) /\ WF_vars(OpBackoffEnds) /\ WF_vars(Attach)
  /\ WF_vars(Reclaim /\ exec[owner].at = "idle")
  /\ SF_vars(Resume \/ ResumeFails) /\ WF_vars(Process) /\ WF_vars(Ingest) /\ WF_vars(AttachSignal)
  /\ \A p \in Prompt : WF_vars(RowComesDue(p))

FairSpec == Spec /\ Fairness

-----------------------------------------------------------------------------
TypeOK ==
  /\ rows \in [Prompt -> Row]
  /\ givenUp \subseteq Prompt
  /\ \A e \in log : e.row \in Prompt
  /\ op \in {"none", "queued", "backoff", "running"}
  /\ owner \in Worker \cup {None} /\ (op = "running" <=> owner # None)
  /\ exec \in [Worker -> [at : {"idle", "loop", "forward", "mark"}, row : 0..MaxPrompt]]
  /\ withdraw \in [at : {"idle", "ask", "delete"}, row : 0..MaxPrompt, delivered : BOOLEAN]
  /\ status \in {"active", "idle", "owned", "terminal"} /\ resuming \in BOOLEAN
  /\ link \in {"up", "dialing", "gone"} /\ signal \in BOOLEAN
  /\ post \in {"none", "appended"}
  /\ harness.turn \in 0..Boot /\ harness.seen \subseteq Prompt
  /\ post # "none" => harness.unacked # <<>>
  /\ faults \in 0..MaxFault

(* No process of the harness consumes a prompt twice, however often the     *)
(* rail forwards it: after ACK_TIMEOUT, from a reclaimed executor's copy,   *)
(* after an unanswered forward, across reconnects and restores.             *)
RunsOncePerProcess == IsInjective(started)

(* A row is retired only with an outcome in the log: a run, a steer or a    *)
(* dequeue that some process reported, the decision to give delivery up,    *)
(* or the end of the session.  In particular a prompt that only sits in a   *)
(* harness's memory keeps its row.                                          *)
AckedHasOutcome ==
  \A p \in Prompt : rows[p].state = "acked" =>
    \/ \E e \in log : e.row = p /\ e.kind # "queued"
    \/ p \in givenUp
    \/ status = "terminal"

(* An accepted prompt is pursued to its end: its row is acked or withdrawn, *)
(* whatever links, processes, executors and answers are lost on the way,    *)
(* unless its session never comes back.  A row stays open for ever only if  *)
(* Resume ops that Deliver asks for fail again and again, or if no scanner  *)
(* ever returns the session it owns.                                        *)
RowPursued ==
  \A p \in Prompt :
    <>[]Open(p) => []<><<ResumeFails>>_vars \/ <>[](status = "owned")

=============================================================================
