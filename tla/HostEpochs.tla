----------------------------- MODULE HostEpochs -----------------------------
(***************************************************************************)
(* The host's side of the fencing epoch: SessionEpochStore, one file per   *)
(* session, and the gate that every session-scoped lifecycle RPC passes    *)
(* before it acts on the sandbox (HostServiceImpl::check_session_epoch).   *)
(*                                                                         *)
(* check_and_advance reads the file, compares, and replaces the file by    *)
(* rename.  No lock is held across the two, and tonic runs handlers on     *)
(* many threads, so the read and the rename are two steps here.  The       *)
(* sessions' files are independent: this is the store of one session.      *)
(***************************************************************************)
EXTENDS Naturals

CONSTANTS
  Call,       \* lifecycle RPCs of one session that reach this host
  MaxEpoch    \* bound: claims of the session's lane

ASSUME EpochAssumption == MaxEpoch \in Nat

VARIABLES
  current,    \* sessions.current_epoch: the latest claim of the lane
  stored,     \* the epoch in the file, 0 when there is none
  calls,      \* the RPCs
  accepted,   \* the epochs the gate has accepted since the directory exists
  sealed      \* see Seal

vars == <<current, stored, calls, accepted, sealed>>

\* "idle": not sent; "sent": on the wire; "admitted": past the comparison,
\* the rename still to come; then the outcome that the handler sees.
Phase == {"idle", "sent", "admitted", "accepted", "stale", "error"}
CallRecord == [phase : Phase, epoch : Nat]

Init == /\ current = 0
        /\ stored = 0
        /\ calls = [c \in Call |-> [phase |-> "idle", epoch |-> 0]]
        /\ accepted = {}
        /\ sealed = 0

\* A claim of the session's lane (SessionOps) under the next epoch.
Claim == /\ current < MaxEpoch
         /\ current' = current + 1
         /\ UNCHANGED <<stored, calls, accepted, sealed>>

\* An executor, the current one or a superseded one, calls the host.
Send(c, e) == /\ calls[c].phase = "idle"
              /\ calls' = [calls EXCEPT ![c] = [phase |-> "sent", epoch |-> e]]
              /\ UNCHANGED <<current, stored, accepted, sealed>>

\* An epoch is sealed when it is in the file and no call of an older epoch
\* still has to write: whatever happens next cannot take the file below it.
Seal(st, cs) ==
  IF \A c \in Call : cs[c].phase = "admitted" => cs[c].epoch >= st
  THEN st ELSE sealed

Answer(c, p) == [calls EXCEPT ![c].phase = p]

\* check_session_epoch with epoch 0: the callers outside the op log.
PassUnfenced(c) == /\ calls[c].phase = "sent" /\ calls[c].epoch = 0
                   /\ calls' = Answer(c, "accepted")
                   /\ UNCHANGED <<current, stored, accepted, sealed>>

\* check_and_advance up to the comparison; a read error refuses the call.
MayPassLoose(e) == e + 1 >= stored
MayPass(e) == e >= stored

ReadOnly(c) == /\ calls[c].phase = "sent" /\ calls[c].epoch # 0
               /\ \/ ~MayPass(calls[c].epoch) /\ calls' = Answer(c, "stale")
                  \/ calls' = Answer(c, "error")
               /\ UNCHANGED <<current, stored, accepted, sealed>>
ReadEqual(c) == /\ calls[c].phase = "sent" /\ calls[c].epoch # 0
                /\ calls[c].epoch = stored
                /\ calls' = Answer(c, "accepted")
                /\ accepted' = accepted \cup {calls[c].epoch}
                /\ UNCHANGED <<current, stored, sealed>>
ReadNewer(c) == /\ calls[c].phase = "sent" /\ calls[c].epoch # 0
                /\ MayPass(calls[c].epoch) /\ calls[c].epoch # stored
                /\ calls' = Answer(c, "admitted")
                /\ UNCHANGED <<current, stored, accepted, sealed>>

\* write_atomic: the rename, or an error before it.
Advance(c) == LET e == calls[c].epoch IN
  /\ calls[c].phase = "admitted"
  /\ stored' = e
  /\ calls' = Answer(c, "accepted")
  /\ accepted' = accepted \cup {e}
  /\ sealed' = Seal(e, calls')
  /\ UNCHANGED current
AdvanceFails(c) ==
  /\ calls[c].phase = "admitted"
  /\ calls' = Answer(c, "error")
  /\ sealed' = Seal(stored, calls')
  /\ UNCHANGED <<current, stored, accepted>>

\* The host-agent restarts: its handlers are gone, the directory stays.
RestartForgets == /\ stored' = 0
                  /\ calls' = [c \in Call |-> IF calls[c].phase = "admitted"
                                              THEN [calls[c] EXCEPT !.phase = "error"]
                                              ELSE calls[c]]
                  /\ UNCHANGED <<current, accepted, sealed>>
Restart == /\ calls' = [c \in Call |-> IF calls[c].phase = "admitted"
                                       THEN [calls[c] EXCEPT !.phase = "error"]
                                       ELSE calls[c]]
           /\ sealed' = Seal(stored, calls')
           /\ UNCHANGED <<current, stored, accepted>>

Gate(c) == \/ PassUnfenced(c)
           \/ ReadOnly(c) \/ ReadEqual(c) \/ ReadNewer(c)
           \/ Advance(c) \/ AdvanceFails(c)

Next == \/ Claim
        \/ \E c \in Call, e \in 0 .. current : Send(c, e)
        \/ \E c \in Call : Gate(c)
        \/ Restart

Spec == Init /\ [][Next]_vars

-----------------------------------------------------------------------------
(* Properties                                                              *)

(* Types of the record file, the gate's calls and its history.             *)
TypeOK == /\ current \in Nat /\ stored \in Nat /\ sealed \in Nat
          /\ calls \in [Call -> CallRecord]
          /\ accepted \subseteq Nat

(* A sealed epoch is final on this host: whatever calls race in            *)
(* check_and_advance afterwards, and across host-agent restarts, the file  *)
(* keeps an epoch at least as high and no call of an older one is still    *)
(* on its way to being accepted.                                           *)
SealHolds == /\ stored >= sealed
             /\ \A c \in Call : calls[c].phase = "admitted" => calls[c].epoch >= sealed

(* From the moment an epoch is sealed, the gate accepts no fenced call of  *)
(* an older one.                                                           *)
NoOlderAccepted ==
  [][\A c \in Call :
       /\ calls[c].phase # "accepted" /\ calls'[c].phase = "accepted"
       /\ calls'[c].epoch # 0
       => calls'[c].epoch >= sealed]_vars

(* The file holds an epoch that the gate accepted, and never one that the  *)
(* coordinator has not claimed yet.                                        *)
FileWasAccepted == /\ stored # 0 => stored \in accepted
                   /\ stored <= current
=============================================================================
