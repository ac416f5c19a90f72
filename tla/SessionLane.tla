---------------------------- MODULE SessionLane -----------------------------
(***************************************************************************)
(* What the operation log promises to the rest of the coordinator: every   *)
(* session has a lane that at most one op holds at a time, under an epoch  *)
(* that only grows, and the session row is written only by the op that     *)
(* holds the lane, in the name of its latest epoch.                        *)
(***************************************************************************)
EXTENDS Naturals

CONSTANTS Session, Op

VARIABLES
  holder,     \* the ops that hold the lane: none, or one
  current,    \* the epoch of the latest grant
  written     \* the epoch in whose name the session row was last written

lvars == <<holder, current, written>>

LaneInit == /\ holder = [s \in Session |-> {}]
            /\ current = [s \in Session |-> 0]
            /\ written = [s \in Session |-> 0]

\* A claim: the lane is free.
Grant(s, i) == /\ holder[s] = {}
               /\ holder' = [holder EXCEPT ![s] = {i}]
               /\ current' = [current EXCEPT ![s] = @ + 1]
               /\ UNCHANGED written

\* A reclaim: the op stays, its executor is replaced.
Regrant(s) == /\ holder[s] # {}
              /\ current' = [current EXCEPT ![s] = @ + 1]
              /\ UNCHANGED <<holder, written>>

Write(s) == /\ holder[s] # {}
            /\ written' = [written EXCEPT ![s] = current[s]]
            /\ UNCHANGED <<holder, current>>

\* Finish or requeue.
Release(s) == /\ holder[s] # {}
              /\ holder' = [holder EXCEPT ![s] = {}]
              /\ UNCHANGED <<current, written>>

LaneNext == \E s \in Session : \/ \E i \in Op : Grant(s, i)
                               \/ Regrant(s) \/ Write(s) \/ Release(s)

LaneSpec == LaneInit /\ [][LaneNext]_lvars
=============================================================================
