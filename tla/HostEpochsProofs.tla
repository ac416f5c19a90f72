-------------------------- MODULE HostEpochsProofs --------------------------
(***************************************************************************)
(* Proofs about the host's epoch gate, for any number of racing calls and  *)
(* of claims.  SealHolds needs only types to be inductive: an epoch is     *)
(* sealed exactly when the writes that could take the file below it are    *)
(* over, and a call that starts later compares with the file.              *)
(***************************************************************************)
EXTENDS HostEpochs, TLAPS

\* The calls in the gate carry epochs that were claimed.
ClaimedOK == \A c \in Call : calls[c].epoch <= current

IInv == TypeOK /\ SealHolds /\ FileWasAccepted /\ ClaimedOK

LEMMA InitIInv == Init => IInv
BY DEF Init, IInv, TypeOK, SealHolds, FileWasAccepted, ClaimedOK, CallRecord, Phase

LEMMA AnswerFacts ==
  ASSUME TypeOK, NEW c \in Call, NEW p \in Phase
  PROVE  /\ Answer(c, p) \in [Call -> CallRecord]
         /\ \A d \in Call : Answer(c, p)[d].epoch = calls[d].epoch
         /\ Answer(c, p)[c].phase = p
         /\ \A d \in Call : d # c => Answer(c, p)[d] = calls[d]
BY DEF Answer, TypeOK, CallRecord

LEMMA SealFacts ==
  ASSUME TypeOK, NEW st \in Nat, NEW cs
  PROVE  /\ Seal(st, cs) \in Nat
         /\ Seal(st, cs) = sealed \/
              /\ Seal(st, cs) = st
              /\ \A c \in Call : cs[c].phase = "admitted" => cs[c].epoch >= st
BY DEF Seal, TypeOK

LEMMA StepIInv == IInv /\ [Next]_vars => IInv'
<1> SUFFICES ASSUME IInv, [Next]_vars PROVE IInv'
  OBVIOUS
<1> USE DEF IInv
<1>1. \A c \in Call : calls[c] \in CallRecord /\ calls[c].epoch \in Nat
  BY DEF TypeOK, CallRecord
<1>2. {"accepted", "stale", "error", "admitted"} \subseteq Phase
  BY DEF Phase
<1>3. CASE Claim
  BY <1>1, <1>3 DEF Claim, TypeOK, SealHolds, FileWasAccepted, ClaimedOK
<1>4. ASSUME NEW c \in Call, NEW e \in 0 .. current, Send(c, e) PROVE IInv'
  <2>1. /\ calls'[c] = [phase |-> "sent", epoch |-> e]
        /\ \A d \in Call : d # c => calls'[d] = calls[d]
    BY <1>4 DEF Send, TypeOK
  <2>2. TypeOK'
    BY <1>4 DEF Send, TypeOK, CallRecord, Phase
  <2>3. SealHolds' /\ FileWasAccepted'
    BY <1>4, <2>1 DEF Send, SealHolds, FileWasAccepted
  <2>4. ClaimedOK'
    BY <1>4, <2>1 DEF Send, ClaimedOK, TypeOK
  <2> QED BY <2>2, <2>3, <2>4
(* A call that leaves the gate without a write.                            *)
<1>5. ASSUME NEW c \in Call, NEW p \in {"accepted", "stale", "error"},
             calls' = Answer(c, p), UNCHANGED <<current, stored, sealed>>,
             accepted \subseteq accepted', accepted' \subseteq Nat
      PROVE  IInv'
  <2>1. p \in Phase /\ p # "admitted"
    BY <1>2
  <2>2. TypeOK'
    BY <1>5, <2>1, AnswerFacts DEF TypeOK
  <2>3. SealHolds'
    BY <1>5, <2>1, AnswerFacts DEF SealHolds
  <2>4. FileWasAccepted' /\ ClaimedOK'
    BY <1>5, <2>1, AnswerFacts DEF FileWasAccepted, ClaimedOK
  <2> QED BY <2>2, <2>3, <2>4
<1>6. ASSUME NEW c \in Call, PassUnfenced(c) \/ ReadOnly(c) \/ ReadEqual(c) PROVE IInv'
  BY <1>1, <1>5, <1>6 DEF PassUnfenced, ReadOnly, ReadEqual, TypeOK
<1>7. ASSUME NEW c \in Call, ReadNewer(c) PROVE IInv'
  <2>1. /\ calls' = Answer(c, "admitted")
        /\ UNCHANGED <<current, stored, accepted, sealed>>
        /\ calls[c].epoch >= stored
    BY <1>7 DEF ReadNewer, MayPass
  <2>2. TypeOK'
    BY <1>2, <2>1, AnswerFacts DEF TypeOK
  <2>31. \A d \in Call : /\ calls'[d].epoch = calls[d].epoch
                         /\ calls'[d].phase = "admitted" => d = c \/ calls[d].phase = "admitted"
    BY <1>2, <2>1, AnswerFacts
  <2>32. calls[c].epoch >= sealed
    BY <1>1, <2>1 DEF SealHolds, TypeOK
  <2>33. ASSUME NEW d \in Call, calls'[d].phase = "admitted"
         PROVE  calls'[d].epoch >= sealed'
    BY <2>1, <2>31, <2>32, <2>33 DEF SealHolds
  <2>3. SealHolds'
    BY <2>1, <2>33 DEF SealHolds
  <2>4. FileWasAccepted' /\ ClaimedOK'
    BY <1>2, <2>1, AnswerFacts, ZenonT(60) DEF FileWasAccepted, ClaimedOK
  <2> QED BY <2>2, <2>3, <2>4
<1>8. ASSUME NEW c \in Call, Advance(c) PROVE IInv'
  <2>1. /\ calls' = Answer(c, "accepted") /\ stored' = calls[c].epoch
        /\ sealed' = Seal(calls[c].epoch, calls') /\ UNCHANGED current
        /\ accepted' = accepted \cup {calls[c].epoch}
        /\ calls[c].phase = "admitted"
    BY <1>8 DEF Advance
  <2>2. calls[c].epoch \in Nat /\ calls[c].epoch >= sealed
    BY <1>1, <2>1 DEF SealHolds
  <2>3. TypeOK'
    BY <1>2, <2>1, <2>2, AnswerFacts, SealFacts DEF TypeOK
  <2>4. \A d \in Call : calls'[d].phase = "admitted" =>
          calls[d].phase = "admitted" /\ calls'[d].epoch = calls[d].epoch
    BY <1>2, <2>1, AnswerFacts
  <2>5. SealHolds'
    BY <2>1, <2>2, <2>4, SealFacts DEF SealHolds, TypeOK
  <2>6. FileWasAccepted' /\ ClaimedOK'
    BY <1>2, <2>1, AnswerFacts, ZenonT(60) DEF FileWasAccepted, ClaimedOK
  <2> QED BY <2>3, <2>5, <2>6
<1>9. ASSUME calls' \in [Call -> CallRecord],
             \A d \in Call : /\ calls'[d].epoch = calls[d].epoch
                             /\ calls'[d].phase = "admitted" => calls[d].phase = "admitted",
             sealed' = Seal(stored, calls'), UNCHANGED <<current, stored, accepted>>
      PROVE  IInv'
  <2>1. TypeOK'
    BY <1>9, SealFacts DEF TypeOK
  <2>2. SealHolds'
    BY <1>9, SealFacts DEF SealHolds, TypeOK
  <2>3. FileWasAccepted' /\ ClaimedOK'
    BY <1>9 DEF FileWasAccepted, ClaimedOK
  <2> QED BY <2>1, <2>2, <2>3
<1>10. ASSUME NEW c \in Call, AdvanceFails(c) PROVE IInv'
  <2>1. calls' = Answer(c, "error")
    BY <1>10 DEF AdvanceFails
  <2>2. /\ calls' \in [Call -> CallRecord]
        /\ \A d \in Call : /\ calls'[d].epoch = calls[d].epoch
                           /\ calls'[d].phase = "admitted" => calls[d].phase = "admitted"
    BY <1>2, <2>1, AnswerFacts
  <2> QED BY <1>9, <1>10, <2>2 DEF AdvanceFails
<1>11. CASE Restart
  <2>1. \A d \in Call : [calls[d] EXCEPT !.phase = "error"] \in CallRecord
    BY <1>1, <1>2 DEF CallRecord
  <2>2. /\ calls' \in [Call -> CallRecord]
        /\ \A d \in Call : /\ calls'[d].epoch = calls[d].epoch
                           /\ calls'[d].phase = "admitted" => calls[d].phase = "admitted"
    BY <1>1, <1>11, <2>1 DEF Restart, CallRecord
  <2> QED BY <1>9, <1>11, <2>2 DEF Restart
<1>12. CASE UNCHANGED vars
  BY <1>12 DEF vars, TypeOK, SealHolds, FileWasAccepted, ClaimedOK
<1> QED
  BY <1>3, <1>4, <1>6, <1>7, <1>8, <1>10, <1>11, <1>12 DEF Next, Gate

(* The inductive invariant of the epoch gate.                              *)
THEOREM Invariance == Spec => []IInv
BY InitIInv, StepIInv, PTL DEF Spec

(* A sealed epoch is final on the host, restarts of the host-agent         *)
(* included.                                                               *)
THEOREM SealIsFinal == Spec => []SealHolds
BY Invariance, PTL DEF IInv

(* The file holds an epoch that was accepted and claimed.                  *)
THEOREM FileAccepted == Spec => []FileWasAccepted
BY Invariance, PTL DEF IInv

(* No call of an epoch older than a sealed one is accepted any more.       *)
THEOREM OlderRefused == Spec => NoOlderAccepted
<1> DEFINE Good == \A c \in Call :
                     /\ calls[c].phase # "accepted" /\ calls'[c].phase = "accepted"
                     /\ calls'[c].epoch # 0
                     => calls'[c].epoch >= sealed
<1>1. IInv /\ [Next]_vars => [Good]_vars
  <2> SUFFICES ASSUME IInv, Next, NEW c \in Call,
                      calls[c].phase # "accepted", calls'[c].phase = "accepted",
                      calls'[c].epoch # 0
               PROVE  calls'[c].epoch >= sealed
    OBVIOUS
  <2> USE DEF IInv
  <2>1. \A d \in Call, p \in Phase : calls' = Answer(d, p) =>
          /\ calls'[c].epoch = calls[c].epoch
          /\ p # "accepted" \/ d # c => calls'[c].phase # "accepted"
    BY AnswerFacts
  <2>2. ~Claim
    BY DEF Claim
  <2>3. ASSUME NEW d \in Call, NEW e \in 0 .. current, Send(d, e) PROVE FALSE
    BY <2>3 DEF Send, TypeOK
  <2>4. ~Restart
    BY DEF Restart, TypeOK, CallRecord
  <2>5. PICK d \in Call : Gate(d)
    BY <2>2, <2>3, <2>4 DEF Next
  <2>6. {"accepted", "stale", "error", "admitted"} \subseteq Phase
    BY DEF Phase
  <2>7. PICK p \in {"accepted", "stale", "error", "admitted"} : calls' = Answer(d, p)
    BY <2>5 DEF Gate, PassUnfenced, ReadOnly, ReadEqual, ReadNewer, Advance, AdvanceFails
  <2>8. calls'[c].epoch = calls[c].epoch /\ d = c
    BY <2>1, <2>6, <2>7
  <2>9. ~(ReadOnly(c) \/ ReadNewer(c) \/ AdvanceFails(c))
    BY <2>1, <2>6, <2>8 DEF ReadOnly, ReadNewer, AdvanceFails
  <2>10. ~PassUnfenced(c)
    BY <2>8 DEF PassUnfenced
  <2>11. ReadEqual(c) \/ Advance(c)
    BY <2>5, <2>8, <2>9, <2>10 DEF Gate
  <2> QED BY <2>8, <2>11 DEF ReadEqual, Advance, SealHolds
<1> QED
  BY <1>1, Invariance, PTL DEF Spec, NoOlderAccepted
=============================================================================
