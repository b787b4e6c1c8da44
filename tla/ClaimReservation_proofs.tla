----------------------- MODULE ClaimReservation_proofs -----------------------
(***************************************************************************)
(* Proofs about ClaimReservation for any tasks and any number of requests  *)
(* and HTTP calls: one agent never runs two tasks, and a standing claim is *)
(* not refused.  What makes both inductive is that the owner of the        *)
(* reservation, once past its scan, has seen no running task and that none *)
(* can appear while it stays the owner.                                    *)
(*                                                                         *)
(* And about ProjectMapping, for any paths, Projects and operators: the    *)
(* audit trail has no gap, since a row is replaced only while its          *)
(* fingerprint is the one that was read, and all rows of one identity that *)
(* are bound, about to be written or may be put back agree on the Project. *)
(***************************************************************************)
EXTENDS MCClaimReservation, TLAPS, SequenceTheorems, FiniteSetTheorems

PastScan == {"choosing", "committing", "blocked"}

\* While the reservation's owner is past its scan, the agent runs no task.
OwnerSawNone ==
  \A i \in AttemptIds :
    Owns(i) /\ attempts[i].phase \in PastScan => \A t \in Tasks : status[t] # "running"

Inv == TypeOK /\ OneRunning /\ OwnerSawNone

-----------------------------------------------------------------------------
(* Types *)

LEMMA InitTypeOK == Init => TypeOK
BY BoundAssumption DEF Init, TypeOK, AttemptIds, Status, Attempt, AttemptRecord, Phase

LEMMA GotoTypes ==
  ASSUME TypeOK, NEW i \in AttemptIds, NEW phase \in Phase \ {"committing"}, Goto(i, phase)
  PROVE  attempts' \in [AttemptIds -> Attempt]
<1>1. [attempts[i] EXCEPT !.phase = phase] \in Attempt
  BY DEF TypeOK, Attempt, AttemptRecord
<1> QED
  BY <1>1 DEF TypeOK, Goto

LEMMA AnsweredTypes ==
  ASSUME TypeOK, NEW i \in AttemptIds,
         NEW response \in Grant \cup {NoAnswer, Empty, Refused, Dropped},
         Answered(i, response)
  PROVE  /\ attempts' \in [AttemptIds -> Attempt]
         /\ answer' \in [AttemptIds -> Grant \cup {NoAnswer, Empty, Refused, Dropped}]
<1>1. [request |-> 0, phase |-> "answered", task |-> NoTask, woken |-> FALSE] \in Attempt
  BY BoundAssumption DEF Attempt, AttemptRecord, Phase
<1> QED
  BY <1>1 DEF TypeOK, Answered

LEMMA ReplayedTypes ==
  ASSUME TypeOK, NEW r, Stands(r)
  PROVE  Replayed \in Grant
BY DEF TypeOK, Stands, Claimed, Replayed, Grant

LEMMA CallTypes ==
  ASSUME TypeOK, NEW r \in 0..RequestBound, Call(r)
  PROVE  /\ attempts' \in [AttemptIds -> Attempt]
         /\ sent' \in 0..AttemptBound /\ awaited' \in 0..AttemptBound
<1>1. [request |-> r, phase |-> "arrived", task |-> NoTask, woken |-> FALSE] \in Attempt
  BY DEF Attempt, AttemptRecord, Phase
<1> QED
  BY <1>1, BoundAssumption DEF TypeOK, Call, AttemptIds

LEMMA CompleteEmptyTypes ==
  ASSUME TypeOK, NEW i \in AttemptIds, CompleteEmpty(i)
  PROVE  reservation' \in Reservation \cup {NoReservation}
BY DEF TypeOK, CompleteEmpty, Owns, Reservation

LEMMA StepTypeOK == TypeOK /\ [Next]_vars => TypeOK'
<1> SUFFICES ASSUME TypeOK, [Next]_vars PROVE TypeOK'
  OBVIOUS
<1>1. ASSUME NEW i \in AttemptIds, Arrive(i) PROVE TypeOK'
  <2>1. CASE Stands(attempts[i].request)
    BY <1>1, <2>1, AnsweredTypes, ReplayedTypes
       DEF Arrive, TypeOK, taskVars, agentVars, workerVars
  <2>2. CASE ~Stands(attempts[i].request)
    BY <1>1, <2>2, GotoTypes DEF Arrive, TypeOK, Phase, taskVars, agentVars, workerVars
  <2> QED
    BY <2>1, <2>2
<1>2. ASSUME NEW i \in AttemptIds, Reserve(i) PROVE TypeOK'
  <2>1. attempts' \in [AttemptIds -> Attempt]
        /\ answer' \in [AttemptIds -> Grant \cup {NoAnswer, Empty, Refused, Dropped}]
    <3>1. \/ Answered(i, Empty) \/ Answered(i, Refused)
          \/ /\ Goto(i, "scanning") \/ Goto(i, "busy") \/ Goto(i, "arrived")
             /\ UNCHANGED answer
      BY <1>2 DEF Reserve, ReserveOutcome
    <3> QED
      BY <3>1, AnsweredTypes, GotoTypes DEF TypeOK, Phase
  <2>2. reservation' \in Reservation \cup {NoReservation}
    BY <1>2 DEF Reserve, TypeOK, Attempt, AttemptRecord, Reservation
  <2> QED
    BY <1>2, <2>1, <2>2 DEF Reserve, TypeOK, taskVars, agentVars, workerVars
<1>3. ASSUME NEW i \in AttemptIds, Busy(i) PROVE TypeOK'
  <2>1. CASE Stands(attempts[i].request)
    BY <1>3, <2>1, AnsweredTypes, ReplayedTypes
       DEF Busy, TypeOK, taskVars, agentVars, workerVars
  <2>2. CASE ~Stands(attempts[i].request)
    BY <1>3, <2>2, AnsweredTypes DEF Busy, TypeOK, taskVars, agentVars, workerVars
  <2> QED
    BY <2>1, <2>2
<1>4. ASSUME NEW i \in AttemptIds, Scan(i) \/ Exhaust(i) PROVE TypeOK'
  <2>1. \E phase \in Phase \ {"committing"} : Goto(i, phase)
    BY <1>4 DEF Scan, Exhaust, Phase
  <2>2. attempts' \in [AttemptIds -> Attempt]
    BY <2>1, GotoTypes
  <2> QED
    BY <1>4, <2>2 DEF Scan, Exhaust, TypeOK, taskVars, agentVars, workerVars
<1>5. ASSUME NEW i \in AttemptIds, NEW t \in Tasks, Choose(i, t) PROVE TypeOK'
  <2>1. [attempts[i] EXCEPT !.phase = "committing", !.task = t] \in Attempt
    BY DEF TypeOK, Attempt, AttemptRecord, Phase
  <2> QED
    BY <1>5, <2>1 DEF Choose, TypeOK, taskVars, agentVars, workerVars
<1>6. ASSUME NEW i \in AttemptIds, Commit(i) PROVE TypeOK'
  <2> DEFINE t == attempts[i].task
  <2>1. CASE CommitOutcome(i) = "CLAIMED"
    <3>1. t \in Tasks
      BY <1>6 DEF Commit, At, TypeOK, Attempt
    <3>2. [token |-> i, task |-> t] \in Grant
          /\ [request |-> attempts[i].request, token |-> i, task |-> t] \in Claimed
      BY <3>1 DEF Grant, Claimed, TypeOK, Attempt, AttemptRecord
    <3>3. i \in 0..AttemptBound
      BY BoundAssumption DEF AttemptIds
    <3> QED
      BY <1>6, <2>1, <3>1, <3>2, <3>3, AnsweredTypes DEF Commit, TypeOK, Status, workerVars
  <2>2. CASE CommitOutcome(i) # "CLAIMED"
    BY <1>6, <2>2, AnsweredTypes, GotoTypes
       DEF Commit, TypeOK, Phase, taskVars, agentVars, workerVars
  <2> QED
    BY <2>1, <2>2
<1>7. ASSUME NEW i \in AttemptIds, Block(i) \/ Close(i) PROVE TypeOK'
  <2>1. attempts' \in [AttemptIds -> Attempt]
        /\ answer' \in [AttemptIds -> Grant \cup {NoAnswer, Empty, Refused, Dropped}]
    <3>1. \/ Answered(i, Dropped)
          \/ Stands(attempts[i].request) /\ Answered(i, Replayed)
          \/ (Goto(i, "blocked") \/ Goto(i, "emptying")) /\ UNCHANGED answer
      BY <1>7 DEF Block, Close
    <3> QED
      BY <3>1, AnsweredTypes, GotoTypes, ReplayedTypes DEF TypeOK, Phase
  <2> QED
    BY <1>7, <2>1 DEF Block, Close, TypeOK, taskVars, agentVars, workerVars
<1>8. ASSUME NEW i \in AttemptIds, Wake(i) PROVE TypeOK'
  <2>1. [attempts[i] EXCEPT !.phase = "choosing", !.woken = TRUE] \in Attempt
    BY DEF TypeOK, Attempt, AttemptRecord, Phase
  <2> QED
    BY <1>8, <2>1 DEF Wake, TypeOK, taskVars, agentVars, workerVars
<1>9. ASSUME NEW i \in AttemptIds, Abort(i) \/ AnswerEmpty(i) PROVE TypeOK'
  <2>1. reservation' \in Reservation \cup {NoReservation}
    BY <1>9, CompleteEmptyTypes DEF Abort, AnswerEmpty
  <2>2. attempts' \in [AttemptIds -> Attempt]
        /\ answer' \in [AttemptIds -> Grant \cup {NoAnswer, Empty, Refused, Dropped}]
    BY <1>9, AnsweredTypes DEF Abort, AnswerEmpty
  <2> QED
    BY <1>9, <2>1, <2>2 DEF Abort, AnswerEmpty, TypeOK, taskVars, agentVars, workerVars
<1>10. ASSUME Send \/ Retry PROVE TypeOK'
  <2>1. \E r \in 0..RequestBound : Call(r) /\ request' = r
    <3>1. CASE Send
      BY <3>1, BoundAssumption DEF Send, TypeOK
    <3>2. CASE Retry
      BY <3>2 DEF Retry, TypeOK
    <3> QED
      BY <1>10, <3>1, <3>2
  <2>2. /\ attempts' \in [AttemptIds -> Attempt] /\ sent' \in 0..AttemptBound
        /\ awaited' \in 0..AttemptBound /\ request' \in 0..RequestBound
    BY <2>1, CallTypes
  <2> QED
    BY <1>10, <2>2 DEF Send, Retry, TypeOK, taskVars, agentVars
<1>11. ASSUME GiveUp \/ Receive PROVE TypeOK'
  <2>1. awaited' \in 0..AttemptBound
    BY <1>11, BoundAssumption DEF GiveUp, Receive
  <2>2. work' \in Grant \cup {NoAnswer}
    <3>1. CASE GiveUp
      BY <3>1 DEF GiveUp, TypeOK
    <3>2. CASE Receive
      <4>1. awaited \in AttemptIds
        BY <3>2, BoundAssumption DEF Receive, TypeOK, AttemptIds
      <4> QED
        BY <3>2, <4>1 DEF Receive, TypeOK
    <3> QED
      BY <1>11, <3>1, <3>2
  <2> QED
    BY <1>11, <2>1, <2>2 DEF GiveUp, Receive, TypeOK, taskVars, agentVars, callVars
<1>12. ASSUME Heartbeat PROVE TypeOK'
  BY <1>12 DEF Heartbeat, TypeOK, Grant, taskVars, callVars, workerVars
<1>13. ASSUME Report PROVE TypeOK'
  BY <1>13, BoundAssumption DEF Report, TypeOK, Status, taskVars, callVars
<1>14. ASSUME ReservationLapses PROVE TypeOK'
  BY <1>14 DEF ReservationLapses, TypeOK, taskVars, agentVars, callVars, workerVars
<1>15. ASSUME NEW t \in Tasks, Publish(t) \/ TakenByOther(t) PROVE TypeOK'
  BY <1>15 DEF Publish, TakenByOther, TypeOK, Status, agentVars, callVars, workerVars
<1>16. ASSUME NEW t \in Tasks, LeaseEnds(t) PROVE TypeOK'
  BY <1>16, BoundAssumption DEF LeaseEnds, TypeOK, agentVars, callVars, workerVars
<1>17. ASSUME NEW t \in Tasks, Reclaim(t) PROVE TypeOK'
  BY <1>17 DEF Reclaim, TypeOK, Status, callVars, workerVars
<1>18. CASE UNCHANGED vars
  BY <1>18 DEF vars, TypeOK, taskVars, agentVars, callVars, workerVars
<1> QED
  BY <1>1, <1>2, <1>3, <1>4, <1>5, <1>6, <1>7, <1>8, <1>9, <1>10, <1>11, <1>12,
     <1>13, <1>14, <1>15, <1>16, <1>17, <1>18 DEF Next, AttemptNext, WorkerNext, HubNext

-----------------------------------------------------------------------------
(* The owner of the reservation has seen no running task *)

LEMMA InitInv == Init => Inv
BY InitTypeOK DEF Init, Inv, OneRunning, OwnerSawNone, Owns

NothingStarts == \A t \in Tasks : status'[t] = "running" => status[t] = "running"
NoNewOwner ==
  \A i \in AttemptIds : Owns(i)' /\ attempts'[i].phase \in PastScan
                          => Owns(i) /\ attempts[i].phase \in PastScan

LEMMA Frame ==
  ASSUME OneRunning, OwnerSawNone, NothingStarts, NoNewOwner
  PROVE  OneRunning' /\ OwnerSawNone'
BY DEF OneRunning, OwnerSawNone, NothingStarts, NoNewOwner

\* Moving on within an attempt makes an owner past its scan only of such an owner.
LEMMA GotoOwner ==
  ASSUME TypeOK, NEW i \in AttemptIds, NEW phase, Goto(i, phase), UNCHANGED reservation,
         phase \in PastScan => attempts[i].phase \in PastScan
  PROVE  NoNewOwner
<1>1. \A j \in AttemptIds : attempts'[j].request = attempts[j].request
  BY DEF Goto, TypeOK, Attempt, AttemptRecord
<1>2. \A j \in AttemptIds : attempts'[j].phase = IF j = i THEN phase ELSE attempts[j].phase
  BY DEF Goto, TypeOK, Attempt, AttemptRecord
<1> QED
  BY <1>1, <1>2 DEF NoNewOwner, Owns

\* An answered attempt owns nothing any more, and emptying takes ownership away.
LEMMA AnsweredOwner ==
  ASSUME TypeOK, NEW i \in AttemptIds, NEW response, Answered(i, response),
         UNCHANGED reservation \/ CompleteEmpty(i)
  PROVE  NoNewOwner
<1>1. \A j \in AttemptIds \ {i} : attempts'[j] = attempts[j]
  BY DEF Answered, TypeOK
<1>2. attempts'[i].phase \notin PastScan
  BY DEF Answered, TypeOK, PastScan
<1>3. \/ reservation' = reservation
      \/ /\ reservation \in Reservation
         /\ reservation' = [reservation EXCEPT !.status = "empty"]
  BY DEF CompleteEmpty, Owns, TypeOK
<1>4. \A j \in AttemptIds \ {i} : Owns(j)' => Owns(j)
  <2>1. CASE reservation' = reservation
    BY <1>1, <2>1 DEF Owns
  <2>2. CASE /\ reservation \in Reservation
             /\ reservation' = [reservation EXCEPT !.status = "empty"]
    <3>1. reservation'.status = "empty"
      BY <2>2 DEF Reservation
    <3> QED
      BY <3>1 DEF Owns
  <2> QED
    BY <1>3, <2>1, <2>2
<1> QED
  BY <1>1, <1>2, <1>4 DEF NoNewOwner

LEMMA CallOwner ==
  ASSUME TypeOK, NEW r, Call(r), UNCHANGED reservation
  PROVE  NoNewOwner
<1>1. \A j \in AttemptIds : attempts'[j] = attempts[j] \/ attempts'[j].phase = "arrived"
  BY DEF Call, TypeOK
<1> QED
  BY <1>1 DEF NoNewOwner, Owns, PastScan

\* The commit: its attempt still owns the reservation, so no task was running.
LEMMA CommitInv ==
  ASSUME Inv, NEW i \in AttemptIds, Commit(i)
  PROVE  OneRunning' /\ OwnerSawNone'
<1> USE DEF Inv
<1> DEFINE t == attempts[i].task
<1>1. CASE CommitOutcome(i) = "CLAIMED"
  <2>1. \A s \in Tasks : status[s] # "running"
    BY <1>1 DEF CommitOutcome, Commit, At, OwnerSawNone, PastScan
  <2>2. t \in Tasks
    BY DEF Commit, At, TypeOK, Attempt
  <2>3. status' = [status EXCEPT ![t] = "running"] /\ reservation' = NoReservation
    BY <1>1 DEF Commit
  <2> QED
    BY <2>1, <2>2, <2>3 DEF OneRunning, OwnerSawNone, Owns, TypeOK
<1>2. CASE CommitOutcome(i) # "CLAIMED"
  <2>1. NothingStarts /\ UNCHANGED reservation
    BY <1>2 DEF Commit, NothingStarts, taskVars
  <2>2. NoNewOwner
    <3>1. Answered(i, Refused) \/ Goto(i, "choosing")
      BY <1>2 DEF Commit
    <3>2. attempts[i].phase \in PastScan
      BY DEF Commit, At, PastScan
    <3> QED
      BY <2>1, <3>1, <3>2, AnsweredOwner, GotoOwner
  <2> QED
    BY <2>1, <2>2, Frame
<1> QED
  BY <1>1, <1>2

LEMMA StepInv == Inv /\ [Next]_vars => Inv'
<1> SUFFICES ASSUME Inv, [Next]_vars PROVE OneRunning' /\ OwnerSawNone'
  BY StepTypeOK DEF Inv
<1> USE DEF Inv
<1>1. ASSUME NEW i \in AttemptIds, Arrive(i) \/ Busy(i) \/ Close(i) PROVE NoNewOwner
  <2>1. \/ Answered(i, Replayed) \/ Answered(i, Refused)
        \/ Goto(i, "reserving") \/ Goto(i, "emptying")
    BY <1>1 DEF Arrive, Busy, Close
  <2> QED
    BY <1>1, <2>1, AnsweredOwner, GotoOwner DEF Arrive, Busy, Close, PastScan
<1>2. ASSUME NEW i \in AttemptIds, Reserve(i) PROVE NoNewOwner
  <2>1. CASE ReserveOutcome(i) = "OWNER"
    <3>1. Goto(i, "scanning") /\ reservation'.attempt = i
      BY <1>2, <2>1 DEF Reserve
    <3>2. attempts'[i].phase = "scanning"
      BY <3>1 DEF Goto, TypeOK, Attempt, AttemptRecord
    <3> QED
      BY <3>1, <3>2 DEF NoNewOwner, Owns, PastScan
  <2>2. CASE ReserveOutcome(i) # "OWNER"
    <3>1. /\ \/ Answered(i, Empty) \/ Answered(i, Refused)
             \/ Goto(i, "busy") \/ Goto(i, "arrived")
          /\ UNCHANGED reservation
      BY <1>2, <2>2 DEF Reserve, ReserveOutcome
    <3> QED
      BY <3>1, AnsweredOwner, GotoOwner DEF PastScan
  <2> QED
    BY <2>1, <2>2
<1>3. ASSUME NEW i \in AttemptIds, Scan(i) PROVE OneRunning' /\ OwnerSawNone'
  <2>1. CASE \E t \in Tasks : status[t] = "running"
    <3>1. Goto(i, "busy") /\ UNCHANGED <<status, reservation>>
      BY <1>3, <2>1 DEF Scan, taskVars
    <3>2. NoNewOwner
      BY <3>1, GotoOwner DEF PastScan
    <3> QED
      BY <3>1, <3>2, Frame DEF NothingStarts
  <2>2. CASE ~\E t \in Tasks : status[t] = "running"
    BY <1>3, <2>2 DEF Scan, OneRunning, OwnerSawNone, taskVars
  <2> QED
    BY <2>1, <2>2
<1>4. ASSUME NEW i \in AttemptIds, Exhaust(i) \/ Block(i) PROVE NoNewOwner
  <2>1. \/ Goto(i, "emptying") \/ Goto(i, "closing") \/ Goto(i, "blocked")
        \/ Answered(i, Dropped)
    BY <1>4 DEF Exhaust, Block
  <2> QED
    BY <1>4, <2>1, AnsweredOwner, GotoOwner DEF Exhaust, Block, At, PastScan
<1>5. ASSUME NEW i \in AttemptIds, Wake(i) \/ \E t \in Tasks : Choose(i, t)
      PROVE NoNewOwner
  <2>1. attempts[i].phase \in PastScan /\ UNCHANGED reservation
    BY <1>5 DEF Wake, Choose, At, PastScan
  <2>2. \A j \in AttemptIds \ {i} : attempts'[j] = attempts[j]
    BY <1>5 DEF Wake, Choose, TypeOK
  <2>3. attempts'[i].request = attempts[i].request
    BY <1>5 DEF Wake, Choose, TypeOK, Attempt, AttemptRecord
  <2> QED
    BY <2>1, <2>2, <2>3 DEF NoNewOwner, Owns
<1>6. ASSUME NEW i \in AttemptIds, Abort(i) \/ AnswerEmpty(i) PROVE NoNewOwner
  BY <1>6, AnsweredOwner DEF Abort, AnswerEmpty
<1>7. ASSUME Send \/ Retry PROVE NoNewOwner
  BY <1>7, CallOwner DEF Send, Retry
<1>8. ASSUME \/ GiveUp \/ Receive \/ Heartbeat \/ Report \/ ReservationLapses
             \/ \E t \in Tasks : Publish(t) \/ TakenByOther(t) \/ LeaseEnds(t) \/ Reclaim(t)
             \/ UNCHANGED vars
      PROVE NoNewOwner
  <2>1. UNCHANGED attempts /\ (UNCHANGED reservation \/ reservation' = NoReservation)
    BY <1>8 DEF GiveUp, Receive, Heartbeat, Report, ReservationLapses, Publish,
         TakenByOther, LeaseEnds, Reclaim, vars, callVars
  <2> QED
    BY <2>1 DEF NoNewOwner, Owns
<1>9. ASSUME ~\E i \in AttemptIds : Commit(i) PROVE NothingStarts
  <2>1. \/ UNCHANGED status \/ Report
        \/ \E t \in Tasks : Publish(t) \/ TakenByOther(t) \/ Reclaim(t)
    BY <1>9 DEF Next, AttemptNext, WorkerNext, HubNext, Arrive, Reserve, Busy, Scan,
         Choose, Exhaust, Block, Wake, Abort, Close, AnswerEmpty, ReservationLapses, Send,
         Retry, GiveUp, Receive, Heartbeat, LeaseEnds, taskVars, vars
  <2>2. CASE Report
    BY <2>2 DEF Report, NothingStarts, TypeOK, taskVars
  <2>3. ASSUME NEW t \in Tasks, Publish(t) \/ TakenByOther(t) \/ Reclaim(t)
        PROVE NothingStarts
    BY <2>3 DEF Publish, TakenByOther, Reclaim, NothingStarts, TypeOK
  <2> QED
    BY <2>1, <2>2, <2>3 DEF NothingStarts
<1>10. CASE \E i \in AttemptIds : Commit(i)
  BY <1>10, CommitInv
<1>11. CASE \E i \in AttemptIds : Scan(i)
  BY <1>11, <1>3
<1>12. CASE ~(\E i \in AttemptIds : Commit(i) \/ Scan(i))
  <2>1. NoNewOwner
    BY <1>1, <1>2, <1>4, <1>5, <1>6, <1>7, <1>8, <1>12
       DEF Next, AttemptNext, WorkerNext, HubNext
  <2> QED
    BY <1>9, <1>12, <2>1, Frame
<1> QED
  BY <1>10, <1>11, <1>12

LEMMA Invariance == Spec => []Inv
BY InitInv, StepInv, PTL DEF Spec

-----------------------------------------------------------------------------
(* The theorems *)

\* The keys the claim scripts write have the types their readers expect.
THEOREM ReservationTypeCorrect == Spec => []TypeOK
<1>1. Inv => TypeOK
  BY DEF Inv
<1> QED
  BY <1>1, Invariance, PTL

\* The reservation gives the agent one running task, whatever heartbeats, lapsed
\* reservations, reclaims and repeated calls come between the scan and the commit.
THEOREM OneRunningTask == Spec => []OneRunning
<1>1. Inv => OneRunning
  BY DEF Inv
<1> QED
  BY <1>1, Invariance, PTL

LEMMA RefusalStep ==
  ASSUME Inv, [Next]_vars, NEW i \in AttemptIds, answer[i] = NoAnswer, answer'[i] = Refused
  PROVE  ~Stands(attempts[i].request)
<1> USE AnswerAssumption DEF Inv
<1>1. \A j \in AttemptIds : \A response : Answered(j, response) /\ j # i => answer'[i] = NoAnswer
  BY DEF Answered, TypeOK
<1>2. \A response : Answered(i, response) => response = Refused
  BY DEF Answered, TypeOK
<1>3. answer' # answer
  OBVIOUS
<1>4. ASSUME Reserve(i) PROVE ~Stands(attempts[i].request)
  <2>1. current = NoTask
    BY <1>2, <1>3, <1>4 DEF Reserve, ReserveOutcome
  <2> QED
    BY <2>1, SentinelAssumption DEF Stands, TypeOK, Claimed
<1>5. ASSUME Busy(i) PROVE ~Stands(attempts[i].request)
  BY <1>2, <1>5, ReplayedTypes DEF Busy
<1>6. ASSUME Commit(i) PROVE ~Stands(attempts[i].request)
  <2>1. CommitOutcome(i) = "AGENT_BUSY"
    <3>1. CASE CommitOutcome(i) = "CLAIMED"
      <4>1. [token |-> i, task |-> attempts[i].task] = Refused
        BY <1>2, <1>6, <3>1 DEF Commit
      <4>2. [token |-> i, task |-> attempts[i].task] \in Grant
        BY <1>6 DEF Commit, At, TypeOK, Attempt, Grant
      <4> QED
        BY <4>1, <4>2
    <3> QED
      BY <1>3, <1>6, <3>1 DEF Commit
  <2>2. Owns(i) /\ attempts[i].phase \in PastScan
    BY <1>6, <2>1 DEF CommitOutcome, Commit, At, PastScan
  <2> QED
    BY <2>2 DEF OwnerSawNone, Stands, TypeOK, Claimed
<1>7. ASSUME Arrive(i) \/ Close(i) PROVE FALSE
  BY <1>2, <1>3, <1>7, ReplayedTypes DEF Arrive, Close
<1>8. ASSUME Block(i) \/ Abort(i) \/ AnswerEmpty(i) PROVE FALSE
  BY <1>2, <1>3, <1>8 DEF Block, Abort, AnswerEmpty
<1>9. \/ Arrive(i) \/ Reserve(i) \/ Busy(i) \/ Commit(i) \/ Block(i) \/ Abort(i)
      \/ Close(i) \/ AnswerEmpty(i)
  <2>1. \E j \in AttemptIds :
          \/ Arrive(j) \/ Reserve(j) \/ Busy(j) \/ Commit(j) \/ Block(j) \/ Abort(j)
          \/ Close(j) \/ AnswerEmpty(j)
    BY <1>3 DEF Next, AttemptNext, WorkerNext, HubNext, Scan, Choose, Exhaust, Wake,
         ReservationLapses, Send, Retry, GiveUp, Receive, Heartbeat, Report, Publish,
         TakenByOther, LeaseEnds, Reclaim, callVars, vars
  <2>2. ASSUME NEW j \in AttemptIds \ {i},
               \/ Arrive(j) \/ Reserve(j) \/ Busy(j) \/ Commit(j) \/ Block(j) \/ Abort(j)
               \/ Close(j) \/ AnswerEmpty(j)
        PROVE  answer'[i] = NoAnswer
    <3>1. CASE Arrive(j) \/ Busy(j) \/ Close(j)
      BY <3>1, <1>1 DEF Arrive, Busy, Close
    <3>2. CASE Reserve(j)
      <4>1. Answered(j, Empty) \/ Answered(j, Refused) \/ UNCHANGED answer
        BY <3>2 DEF Reserve, ReserveOutcome
      <4> QED
        BY <4>1, <1>1
    <3>3. CASE Block(j) \/ Abort(j) \/ AnswerEmpty(j)
      BY <3>3, <1>1 DEF Block, Abort, AnswerEmpty
    <3>4. CASE Commit(j)
      <4>1. \/ Answered(j, [token |-> j, task |-> attempts[j].task])
            \/ Answered(j, Refused) \/ UNCHANGED answer
        BY <3>4 DEF Commit
      <4> QED
        BY <4>1, <1>1
    <3> QED
      BY <2>2, <3>1, <3>2, <3>3, <3>4
  <2> QED
    BY <2>1, <2>2
<1> QED
  BY <1>4, <1>5, <1>6, <1>7, <1>8, <1>9

\* No call is refused as busy while the claim of its own request stands.
THEOREM StandingClaimsAreReplayed == Spec => StandingClaimIsNotRefused
<1> DEFINE Step == \A i \in AttemptIds :
       answer[i] = NoAnswer /\ answer'[i] = Refused => ~Stands(attempts[i].request)
<1>1. Inv /\ [Next]_vars => [Step]_vars
  BY RefusalStep
<1> QED
  BY <1>1, Invariance, PTL DEF Spec, StandingClaimIsNotRefused

\* The calls of an agent amount to one claim: one running task, and no refusal of the
\* request whose claim stands.
THEOREM ClaimsAreSafe == Spec => CallsAreOneClaim
BY OneRunningTask, StandingClaimsAreReplayed, PTL DEF CallsAreOneClaim

-----------------------------------------------------------------------------
(* The mapping of paths to Projects: types *)

LEMMA InitMappingTypes == MappingInit => MappingTypeOK
BY MappingAssumption DEF MappingInit, MappingTypeOK

LEMMA SameRow ==
  ASSUME NEW r \in Row, NEW id \in Identity, SameIdentity(r, id)
  PROVE  r \in FullRow /\ r = RowOf(r.project, id)
<1>1. r \in FullRow
  BY MappingAssumption DEF Row, FullRow, Identity, SameIdentity
<1> QED
  BY <1>1 DEF FullRow, Identity, SameIdentity, RowOf

LEMMA RowOfType ==
  ASSUME NEW p \in Projects, NEW id \in Identity
  PROVE  RowOf(p, id) \in FullRow /\ SameIdentity(RowOf(p, id), id)
BY DEF RowOf, FullRow, Identity, SameIdentity

\* What a scan finds for a path that is not bound.
Found(q) == IF bound[q] = NoRow /\ \E p \in Projects : Mapped(q, p)
            THEN RowOf(CHOOSE p \in Projects : Mapped(q, p), repository[q]) ELSE NoRow

LEMMA FoundType ==
  ASSUME MappingTypeOK, NEW q \in LegacyPaths, Found(q) # NoRow
  PROVE  /\ bound[q] = NoRow /\ repository[q] \in Identity
         /\ \E p \in Projects : Mapped(q, p) /\ Found(q) = RowOf(p, repository[q])
         /\ Found(q) \in FullRow
<1>1. bound[q] = NoRow /\ \E p \in Projects : Mapped(q, p)
  BY DEF Found
<1>2. PICK p \in Projects : p = CHOOSE x \in Projects : Mapped(q, x)
  BY <1>1
<1>3. Mapped(q, p) /\ Found(q) = RowOf(p, repository[q])
  BY <1>1, <1>2 DEF Found
<1>4. repository[q] \in Identity
  BY <1>3 DEF Mapped, MappingTypeOK
<1> QED
  BY <1>1, <1>3, <1>4, RowOfType

LEMMA CommandForms ==
  ASSUME MappingTypeOK, NEW c \in Operators, command[c] # NoCommand
  PROVE  /\ command[c] \in Command
         /\ command[c].does \in {"preview", "apply"} =>
              command[c] \in Applying /\ command[c].found \in [LegacyPaths -> FullRow \cup {NoRow}]
         /\ command[c].does \in {"rebind", "rollback"} =>
              /\ command[c] \in Replacing
              /\ command[c].path \in LegacyPaths /\ command[c].old \in Row
              /\ command[c].new \in FullRow \cup {NoRow} /\ command[c].reverses \in Nat
         /\ command[c].does \in {"preview", "apply", "rebind", "rollback"}
<1>1. command[c] \in Command
  BY DEF MappingTypeOK
<1> QED
  BY <1>1 DEF Command, Applying, Replacing

LEMMA RunsTypes ==
  ASSUME MappingTypeOK, NEW c \in Operators, NEW m \in Command \cup {NoCommand}, Runs(c, m)
  PROVE  command' \in [Operators -> Command \cup {NoCommand}]
BY DEF MappingTypeOK, Runs

LEMMA RefusesTypes ==
  ASSUME MappingTypeOK, NEW c \in Operators, Refuses(c)
  PROVE  MappingTypeOK'
BY RunsTypes DEF Refuses, Reads, MappingTypeOK

LEMMA MappingScanTypes ==
  ASSUME MappingTypeOK, NEW c \in Operators, Preview(c) \/ Rescan(c)
  PROVE  MappingTypeOK'
<1>1. CASE Preview(c)
  <2>1. Runs(c, [does |-> "preview", found |-> [q \in LegacyPaths |-> Found(q)]]) /\ Reads
    BY <1>1 DEF Preview, Found
  <2>2. \A q \in LegacyPaths : Found(q) \in FullRow \cup {NoRow}
    BY FoundType
  <2>3. PICK f : f = [q \in LegacyPaths |-> Found(q)]
    OBVIOUS
  <2>4. f \in [LegacyPaths -> FullRow \cup {NoRow}]
    BY <2>2, <2>3
  <2>5. [does |-> "preview", found |-> f] \in Command
    BY <2>4 DEF Command, Applying
  <2> QED
    BY <2>1, <2>3, <2>5, RunsTypes DEF Reads, MappingTypeOK
<1>2. CASE Rescan(c)
  <2>1. CASE Refuses(c)
    BY <2>1, RefusesTypes
  <2>2. CASE Runs(c, [command[c] EXCEPT !.does = "apply"]) /\ Reads
    <3>1. command[c] \in Applying
      BY <1>2, CommandForms DEF Rescan
    <3>2. [command[c] EXCEPT !.does = "apply"] \in Command
      BY <3>1 DEF Command, Applying
    <3> QED
      BY <2>2, <3>2, RunsTypes DEF Reads, MappingTypeOK
  <2> QED
    BY <1>2, <2>1, <2>2 DEF Rescan
<1> QED
  BY <1>1, <1>2

\* What apply writes.
LEMMA ApplyForm ==
  ASSUME MappingTypeOK, NEW c \in Operators, Apply(c)
  PROVE  \/ Refuses(c)
         \/ \E f \in [LegacyPaths -> FullRow \cup {NoRow}], added \in SUBSET LegacyPaths :
              /\ command[c].does = "apply" /\ command[c].found = f /\ command[c] # NoCommand
              /\ \A q \in added : bound[q] = NoRow /\ f[q] \in FullRow /\ Len(trail[q]) < TrailBound
              /\ bound' = [q \in LegacyPaths |-> IF q \in added THEN f[q] ELSE bound[q]]
              /\ trail' = [q \in LegacyPaths |->
                   IF q \in added
                   THEN Append(trail[q], [action |-> "bind", old |-> NoRow, new |-> f[q], reverses |-> 0])
                   ELSE trail[q]]
              /\ Writes(c)
<1>1. SUFFICES ASSUME ~Refuses(c)
               PROVE  \E f \in [LegacyPaths -> FullRow \cup {NoRow}], added \in SUBSET LegacyPaths :
              /\ command[c].does = "apply" /\ command[c].found = f /\ command[c] # NoCommand
              /\ \A q \in added : bound[q] = NoRow /\ f[q] \in FullRow /\ Len(trail[q]) < TrailBound
              /\ bound' = [q \in LegacyPaths |-> IF q \in added THEN f[q] ELSE bound[q]]
              /\ trail' = [q \in LegacyPaths |->
                   IF q \in added
                   THEN Append(trail[q], [action |-> "bind", old |-> NoRow, new |-> f[q], reverses |-> 0])
                   ELSE trail[q]]
              /\ Writes(c)
  OBVIOUS
<1>2. PICK m : m = command[c]
  OBVIOUS
<1>3. m # NoCommand /\ m.does = "apply"
  BY <1>2 DEF Apply
<1>4. m.found \in [LegacyPaths -> FullRow \cup {NoRow}]
  BY <1>2, <1>3, CommandForms
<1>5. PICK added : added = {q \in New(m) : bound[q] = NoRow}
  OBVIOUS
<1>6. added \in SUBSET LegacyPaths
  BY <1>5 DEF New
<1>7. /\ \A q \in added : Len(trail[q]) < TrailBound
      /\ bound' = [q \in LegacyPaths |-> IF q \in added THEN m.found[q] ELSE bound[q]]
      /\ trail' = [q \in LegacyPaths |->
           IF q \in added
           THEN Append(trail[q], [action |-> "bind", old |-> NoRow, new |-> m.found[q], reverses |-> 0])
           ELSE trail[q]]
      /\ Writes(c)
  BY <1>1, <1>2, <1>5 DEF Apply
<1>8. \A q \in added : bound[q] = NoRow /\ m.found[q] \in FullRow
  BY <1>4, <1>5 DEF New
<1> QED
  BY <1>2, <1>3, <1>4, <1>6, <1>7, <1>8

LEMMA AppliedTypes ==
  ASSUME MappingTypeOK, NEW c \in Operators, Apply(c)
  PROVE  MappingTypeOK'
<1>1. CASE Refuses(c)
  BY <1>1, RefusesTypes
<1>2. ASSUME NEW f \in [LegacyPaths -> FullRow \cup {NoRow}], NEW added \in SUBSET LegacyPaths,
             \A q \in added : f[q] \in FullRow,
             bound' = [q \in LegacyPaths |-> IF q \in added THEN f[q] ELSE bound[q]],
             trail' = [q \in LegacyPaths |->
                  IF q \in added
                  THEN Append(trail[q], [action |-> "bind", old |-> NoRow, new |-> f[q], reverses |-> 0])
                  ELSE trail[q]],
             Writes(c)
      PROVE  MappingTypeOK'
  <2>1. bound' \in [LegacyPaths -> Row \cup {NoRow}]
    BY <1>2 DEF MappingTypeOK, Row
  <2>2. \A q \in added : [action |-> "bind", old |-> NoRow, new |-> f[q], reverses |-> 0] \in Entry
    BY <1>2 DEF Entry
  <2>3. \A q \in LegacyPaths : trail[q] \in Seq(Entry)
    BY DEF MappingTypeOK
  <2>4. \A q \in LegacyPaths : trail'[q] \in Seq(Entry)
    BY <1>2, <2>2, <2>3
  <2>5. trail' \in [LegacyPaths -> Seq(Entry)]
    BY <1>2, <2>4
  <2> QED
    BY <1>2, <2>1, <2>5, RunsTypes DEF Writes, MappingTypeOK
<1> QED
  BY <1>1, <1>2, ApplyForm

\* What rebind and rollback write.
LEMMA ReplaceForm ==
  ASSUME MappingTypeOK, NEW c \in Operators, Replace(c)
  PROVE  \/ Refuses(c)
         \/ \E m \in Replacing :
              /\ m = command[c] /\ m # NoCommand /\ m.new \in FullRow /\ Current(m)
              /\ bound' = [bound EXCEPT ![m.path] = m.new]
              /\ trail' = [trail EXCEPT ![m.path] =
                   Append(@, [action |-> m.does, old |-> m.old, new |-> m.new, reverses |-> m.reverses])]
              /\ Writes(c)
<1>1. PICK m : m = command[c]
  OBVIOUS
<1>2. m # NoCommand /\ m.does \in {"rebind", "rollback"} /\ m.new # NoRow
  BY <1>1 DEF Replace
<1>3. m \in Replacing /\ m.new \in FullRow
  BY <1>1, <1>2, CommandForms
<1> QED
  BY <1>1, <1>2, <1>3 DEF Replace

LEMMA ReplacingFields ==
  ASSUME NEW m \in Replacing
  PROVE  /\ m.does \in {"rebind", "rollback"} /\ m.path \in LegacyPaths /\ m.old \in Row
         /\ m.new \in FullRow \cup {NoRow} /\ m.reverses \in Nat
BY DEF Replacing

LEMMA ReplacedTypes ==
  ASSUME MappingTypeOK, NEW c \in Operators, Replace(c)
  PROVE  MappingTypeOK'
<1>1. CASE Refuses(c)
  BY <1>1, RefusesTypes
<1>2. ASSUME NEW m \in Replacing, m.new \in FullRow,
             bound' = [bound EXCEPT ![m.path] = m.new],
             trail' = [trail EXCEPT ![m.path] =
                Append(@, [action |-> m.does, old |-> m.old, new |-> m.new, reverses |-> m.reverses])],
             Writes(c)
      PROVE  MappingTypeOK'
  <2>1. bound' \in [LegacyPaths -> Row \cup {NoRow}]
    BY <1>2, ReplacingFields DEF MappingTypeOK, Row
  <2>2. PICK e : e = [action |-> m.does, old |-> m.old, new |-> m.new, reverses |-> m.reverses]
    OBVIOUS
  <2>3. e \in Entry
    BY <1>2, <2>2, ReplacingFields DEF Entry
  <2>4. \A q \in LegacyPaths : trail[q] \in Seq(Entry)
    BY DEF MappingTypeOK
  <2>5. Append(trail[m.path], e) \in Seq(Entry)
    BY <2>3, <2>4, ReplacingFields
  <2>6. trail' \in [LegacyPaths -> Seq(Entry)]
    BY <1>2, <2>2, <2>5 DEF MappingTypeOK
  <2> QED
    BY <1>2, <2>1, <2>6, RunsTypes DEF Writes, MappingTypeOK
<1> QED
  BY <1>1, <1>2, ReplaceForm

LEMMA ReplacesTypes ==
  ASSUME MappingTypeOK, NEW c \in Operators, NEW does \in {"rebind", "rollback"},
         NEW q \in LegacyPaths, NEW k \in Nat, Replaces(c, does, q, k)
  PROVE  MappingTypeOK'
<1>1. bound[q] \in Row
  BY DEF Replaces, MappingTypeOK
<1>2. [does |-> does, path |-> q, old |-> bound[q], new |-> NoRow, reverses |-> k] \in Command
  BY <1>1 DEF Command, Replacing
<1> QED
  BY <1>2, RunsTypes DEF Replaces, Reads, MappingTypeOK

\* What rebind and rollback have found out before they write.
LEMMA InspectForm ==
  ASSUME MappingTypeOK, NEW c \in Operators, NEW p \in Projects, NEW remote \in Remotes,
         Inspect(c, p, remote)
  PROVE  \/ Refuses(c)
         \/ \E m \in Replacing : /\ m = command[c] /\ m # NoCommand /\ m.does = "rebind" /\ m.new = NoRow
                                 /\ repository[m.path] \in Identity /\ Resolved(repository[m.path], p)
                                 /\ Runs(c, [m EXCEPT !.new = RowOf(p, repository[m.path])]) /\ Reads
<1>1. PICK m : m = command[c]
  OBVIOUS
<1>2. m # NoCommand /\ m.does = "rebind" /\ m.new = NoRow
  BY <1>1 DEF Inspect
<1>3. m \in Replacing
  BY <1>1, <1>2, CommandForms
<1>4. repository[m.path] \in Identity \cup {Nothing}
  BY <1>3, ReplacingFields DEF MappingTypeOK
<1> QED
  BY <1>1, <1>2, <1>3, <1>4 DEF Inspect

LEMMA InspectUndoneForm ==
  ASSUME MappingTypeOK, NEW c \in Operators, InspectUndone(c)
  PROVE  \/ Refuses(c)
         \/ \E m \in Replacing :
              /\ m = command[c] /\ m # NoCommand /\ m.does = "rollback" /\ m.new = NoRow
              /\ repository[m.path] \in Identity
              /\ SameIdentity(trail[m.path][m.reverses].old, repository[m.path])
              /\ Runs(c, [m EXCEPT !.new = RowOf(trail[m.path][m.reverses].old.project, repository[m.path])])
              /\ Reads
<1>1. PICK m : m = command[c]
  OBVIOUS
<1>2. m # NoCommand /\ m.does = "rollback" /\ m.new = NoRow
  BY <1>1 DEF InspectUndone
<1>3. m \in Replacing
  BY <1>1, <1>2, CommandForms
<1>4. repository[m.path] \in Identity \cup {Nothing}
  BY <1>3, ReplacingFields DEF MappingTypeOK
<1> QED
  BY <1>1, <1>2, <1>3, <1>4 DEF InspectUndone

-----------------------------------------------------------------------------
(* The mapping of paths to Projects: the audit trail *)

\* A rebind that is rolled back is in the trail of its path, and what is put back is the
\* row it replaced.
Undoing(m) ==
  m.does = "rollback" =>
    /\ m.reverses \in 1..Len(trail[m.path])
    /\ LET e == trail[m.path][m.reverses] IN
       /\ e.action = "rebind" /\ Undoes(m.old, e)
       /\ m.new # NoRow => m.new = e.old

TrailInv ==
  /\ MappingTypeOK
  /\ TrailIsUnbroken /\ RollbackUndoes
  /\ \A q \in LegacyPaths : \A i \in 1..Len(trail[q]) :
       trail[q][i].action # "bind" => trail[q][i].old \in Row
  /\ \A c \in Operators : command[c] # NoCommand => Undoing(command[c])

\* A record added to the trail of a path, whose row it becomes.
LEMMA TrailGrows ==
  ASSUME TrailInv, NEW q \in LegacyPaths, NEW e \in Entry,
         trail'[q] = Append(trail[q], e), bound'[q] = e.new,
         IF e.action = "bind" THEN trail[q] = <<>>
         ELSE /\ e.old \in Row
              /\ trail[q] # <<>> => e.old.print = bound[q].print,
         e.action = "rollback" =>
           /\ e.reverses \in 1..Len(trail[q])
           /\ trail[q][e.reverses].action = "rebind" /\ e.new = trail[q][e.reverses].old
           /\ Undoes(e.old, trail[q][e.reverses])
  PROVE  /\ trail'[q] # <<>> => bound'[q] = trail'[q][Len(trail'[q])].new
         /\ \A i \in 1..Len(trail'[q]) :
              IF trail'[q][i].action = "bind" THEN i = 1
              ELSE i > 1 => trail'[q][i].old.print = trail'[q][i - 1].new.print
         /\ \A i \in 1..Len(trail'[q]) :
              trail'[q][i].action = "rollback" =>
                /\ trail'[q][i].reverses \in 1..(i - 1)
                /\ trail'[q][trail'[q][i].reverses].action = "rebind"
                /\ trail'[q][i].new = trail'[q][trail'[q][i].reverses].old
                /\ Undoes(trail'[q][i].old, trail'[q][trail'[q][i].reverses])
         /\ \A i \in 1..Len(trail'[q]) :
              trail'[q][i].action # "bind" => trail'[q][i].old \in Row
<1>1. PICK s : s = trail[q]
  OBVIOUS
<1>2. s \in Seq(Entry) /\ Len(s) \in Nat
  BY <1>1 DEF TrailInv, MappingTypeOK
<1>3. PICK z : z = Append(s, e)
  OBVIOUS
<1>4. /\ Len(z) = Len(s) + 1 /\ z[Len(s) + 1] = e
      /\ \A i \in 1..Len(s) : z[i] = s[i]
  BY <1>2, <1>3
<1>5. trail'[q] = z
  BY <1>1, <1>3
<1>6. /\ s # <<>> => bound[q] = s[Len(s)].new
      /\ \A i \in 1..Len(s) :
           /\ IF s[i].action = "bind" THEN i = 1
              ELSE i > 1 => s[i].old.print = s[i - 1].new.print
           /\ s[i].action = "rollback" =>
                /\ s[i].reverses \in 1..(i - 1) /\ s[s[i].reverses].action = "rebind"
                /\ s[i].new = s[s[i].reverses].old /\ Undoes(s[i].old, s[s[i].reverses])
           /\ s[i].action # "bind" => s[i].old \in Row
  BY <1>1 DEF TrailInv, TrailIsUnbroken, RollbackUndoes
<1>7. s = <<>> <=> Len(s) = 0
  BY <1>2
<1>8. ASSUME NEW i \in 1..Len(z) PROVE i \in 1..Len(s) \/ (i = Len(s) + 1 /\ z[i] = e)
  BY <1>2, <1>4
<1>9. bound'[q] = z[Len(z)].new
  BY <1>2, <1>4
<1>10. ASSUME NEW i \in 1..Len(z)
       PROVE  IF z[i].action = "bind" THEN i = 1 ELSE i > 1 => z[i].old.print = z[i - 1].new.print
  <2>1. CASE i \in 1..Len(s)
    <3>1. z[i] = s[i] /\ (i > 1 => i - 1 \in 1..Len(s) /\ z[i - 1] = s[i - 1])
      BY <1>2, <1>4, <2>1
    <3> QED
      BY <1>6, <2>1, <3>1
  <2>2. CASE i = Len(s) + 1 /\ z[i] = e
    <3>1. CASE e.action = "bind"
      BY <1>1, <1>7, <2>2, <3>1
    <3>2. CASE e.action # "bind" /\ i > 1
      <4>1. Len(s) \in 1..Len(s) /\ s # <<>> /\ i - 1 = Len(s)
        BY <1>2, <1>7, <2>2, <3>2
      <4>2. z[i - 1] = s[Len(s)]
        BY <1>4, <4>1
      <4> QED
        BY <1>1, <1>6, <2>2, <3>2, <4>1, <4>2
    <3> QED
      BY <2>2, <3>1, <3>2
  <2> QED
    BY <1>8, <2>1, <2>2
<1>11. ASSUME NEW i \in 1..Len(z), z[i].action = "rollback"
       PROVE  /\ z[i].reverses \in 1..(i - 1) /\ z[z[i].reverses].action = "rebind"
              /\ z[i].new = z[z[i].reverses].old /\ Undoes(z[i].old, z[z[i].reverses])
  <2>1. CASE i \in 1..Len(s)
    <3>1. z[i] = s[i]
      BY <1>4, <2>1
    <3>2. s[i].reverses \in 1..(i - 1)
      BY <1>6, <1>11, <2>1, <3>1
    <3>3. s[i].reverses \in 1..Len(s)
      BY <1>2, <2>1, <3>2
    <3>4. z[s[i].reverses] = s[s[i].reverses]
      BY <1>4, <3>3
    <3> QED
      BY <1>6, <1>11, <2>1, <3>1, <3>2, <3>4
  <2>2. CASE i = Len(s) + 1 /\ z[i] = e
    <3>1. e.reverses \in 1..Len(s)
      BY <1>1, <1>11, <2>2
    <3>2. z[e.reverses] = s[e.reverses] /\ i - 1 = Len(s)
      BY <1>2, <1>4, <2>2, <3>1
    <3> QED
      BY <1>1, <1>11, <2>2, <3>1, <3>2
  <2> QED
    BY <1>8, <2>1, <2>2
<1>12. ASSUME NEW i \in 1..Len(z), z[i].action # "bind" PROVE z[i].old \in Row
  BY <1>4, <1>6, <1>8, <1>12
<1> QED
  BY <1>5, <1>9, <1>10, <1>11, <1>12

\* Where nothing is written to a path or its trail, what was said of them stays true.
LEMMA TrailStays ==
  ASSUME TrailInv, MappingTypeOK', UNCHANGED <<bound, trail>>,
         NEW c \in Operators, NEW m \in Command \cup {NoCommand}, Runs(c, m),
         m # NoCommand => Undoing(m)
  PROVE  TrailInv'
<1>1. ASSUME NEW d \in Operators, command'[d] # NoCommand PROVE Undoing(command'[d])
  <2>1. command'[d] = IF d = c THEN m ELSE command[d]
    BY DEF Runs, TrailInv, MappingTypeOK
  <2> QED
    BY <1>1, <2>1 DEF TrailInv
<1>2. \A d \in Operators : command'[d] # NoCommand => Undoing(command[d])'
  BY <1>1 DEF Undoing, Undoes
<1> QED
  BY <1>2 DEF TrailInv, TrailIsUnbroken, RollbackUndoes, Undoes

LEMMA TrailReads ==
  ASSUME TrailInv, NEW c \in Operators,
         \/ Preview(c) \/ Rescan(c) \/ InspectUndone(c)
         \/ \E q \in LegacyPaths : Rebind(c, q)
         \/ \E q \in LegacyPaths, k \in 1..TrailBound : Rollback(c, q, k)
         \/ \E p \in Projects, remote \in Remotes : Inspect(c, p, remote)
  PROVE  TrailInv'
<1> USE DEF TrailInv
<1>0. ASSUME Refuses(c) PROVE TrailInv'
  <2>1. MappingTypeOK'
    BY <1>0, RefusesTypes
  <2>2. UNCHANGED <<bound, trail>> /\ Runs(c, NoCommand)
    BY <1>0 DEF Refuses, Reads
  <2> QED
    BY <2>1, <2>2, TrailStays
<1>1. CASE Preview(c)
  <2>1. PICK f : Runs(c, [does |-> "preview", found |-> f]) /\ Reads
    BY <1>1 DEF Preview
  <2>2. MappingTypeOK'
    BY <1>1, MappingScanTypes
  <2>3. command'[c] = [does |-> "preview", found |-> f]
    BY <2>1 DEF Runs, MappingTypeOK
  <2>4. [does |-> "preview", found |-> f] \in Command \cup {NoCommand}
    BY <2>2, <2>3 DEF MappingTypeOK
  <2>5. Undoing([does |-> "preview", found |-> f])
    BY DEF Undoing
  <2> QED
    BY <2>1, <2>2, <2>4, <2>5, TrailStays DEF Reads
<1>2. CASE Rescan(c) /\ ~Refuses(c)
  <2>1. command[c] \in Applying /\ command[c] # NoCommand
    BY <1>2, CommandForms DEF Rescan
  <2>2. PICK m : m = [command[c] EXCEPT !.does = "apply"]
    OBVIOUS
  <2>3. m \in Command /\ m.does = "apply"
    BY <2>1, <2>2 DEF Command, Applying
  <2>4. Runs(c, m) /\ Reads
    BY <1>2, <2>2 DEF Rescan
  <2>5. MappingTypeOK'
    BY <1>2, MappingScanTypes
  <2>6. Undoing(m)
    BY <2>3 DEF Undoing
  <2> QED
    BY <2>3, <2>4, <2>5, <2>6, TrailStays DEF Reads
<1>3. ASSUME NEW q \in LegacyPaths, Rebind(c, q) PROVE TrailInv'
  <2>1. PICK m : m = [does |-> "rebind", path |-> q, old |-> bound[q], new |-> NoRow, reverses |-> 0]
    OBVIOUS
  <2>2. Runs(c, m) /\ Reads /\ bound[q] # NoRow
    BY <1>3, <2>1 DEF Rebind, Replaces
  <2>3. m \in Command /\ Undoing(m)
    BY <2>1, <2>2 DEF Command, Replacing, MappingTypeOK, Undoing
  <2>4. MappingTypeOK'
    BY <1>3, ReplacesTypes DEF Rebind
  <2> QED
    BY <2>2, <2>3, <2>4, TrailStays DEF Reads
<1>4. ASSUME NEW q \in LegacyPaths, NEW k \in 1..TrailBound, Rollback(c, q, k) PROVE TrailInv'
  <2>1. PICK m : m = [does |-> "rollback", path |-> q, old |-> bound[q], new |-> NoRow, reverses |-> k]
    OBVIOUS
  <2>2. Runs(c, m) /\ Reads /\ bound[q] # NoRow /\ Replaces(c, "rollback", q, k)
    BY <1>4, <2>1 DEF Rollback, Replaces
  <2>3. /\ k \in 1..Len(trail[q]) /\ trail[q][k].action = "rebind" /\ Undoes(bound[q], trail[q][k])
        /\ k \in Nat
    BY <1>4, MappingAssumption DEF Rollback
  <2>4. m \in Command
    BY <2>1, <2>2, <2>3 DEF Command, Replacing, MappingTypeOK
  <2>5. m.path = q /\ m.old = bound[q] /\ m.reverses = k /\ m.new = NoRow
    BY <2>1
  <2>6. Undoing(m)
    BY <2>3, <2>5 DEF Undoing
  <2>7. MappingTypeOK'
    BY <2>2, <2>3, ReplacesTypes
  <2> QED
    BY <2>2, <2>4, <2>6, <2>7, TrailStays DEF Reads
<1>5. ASSUME NEW p \in Projects, NEW remote \in Remotes, Inspect(c, p, remote) PROVE TrailInv'
  <2>1. CASE Refuses(c)
    BY <1>0, <2>1
  <2>2. ASSUME NEW m \in Replacing, m = command[c], m # NoCommand, m.does = "rebind",
               repository[m.path] \in Identity,
               Runs(c, [m EXCEPT !.new = RowOf(p, repository[m.path])]), Reads
        PROVE  TrailInv'
    <3>1. PICK n : n = [m EXCEPT !.new = RowOf(p, repository[m.path])]
      OBVIOUS
    <3>2. n \in Command
      BY <2>2, <3>1, RowOfType DEF Command, Replacing
    <3>3. n.does = "rebind"
      BY <2>2, <3>1 DEF Replacing
    <3>4. Undoing(n)
      BY <3>3 DEF Undoing
    <3>5. command' \in [Operators -> Command \cup {NoCommand}]
      BY <2>2, <3>1, <3>2, RunsTypes
    <3>6. MappingTypeOK'
      BY <2>2, <3>5 DEF Reads, MappingTypeOK
    <3> QED
      BY <2>2, <3>1, <3>2, <3>4, <3>6, TrailStays DEF Reads
  <2> QED
    BY <1>5, <2>1, <2>2, InspectForm
<1>6. CASE InspectUndone(c)
  <2>1. CASE Refuses(c)
    BY <1>0, <2>1
  <2>2. ASSUME NEW m \in Replacing, m = command[c], m # NoCommand, m.does = "rollback",
               repository[m.path] \in Identity,
               SameIdentity(trail[m.path][m.reverses].old, repository[m.path]),
               Runs(c, [m EXCEPT !.new = RowOf(trail[m.path][m.reverses].old.project, repository[m.path])]),
               Reads
        PROVE  TrailInv'
    <3>1. PICK e : e = trail[m.path][m.reverses]
      OBVIOUS
    <3>2. /\ m.reverses \in 1..Len(trail[m.path]) /\ e.action = "rebind" /\ Undoes(m.old, e)
          /\ e.old \in Row
      BY <2>2, <3>1, ReplacingFields DEF Undoing
    <3>3. e.old \in FullRow /\ e.old = RowOf(e.old.project, repository[m.path])
      BY <2>2, <3>1, <3>2, SameRow
    <3>4. PICK n : n = [m EXCEPT !.new = e.old]
      OBVIOUS
    <3>5. /\ n \in Command /\ n.does = "rollback" /\ n.path = m.path /\ n.old = m.old
          /\ n.reverses = m.reverses /\ n.new = e.old
      BY <2>2, <3>3, <3>4 DEF Command, Replacing
    <3>6. Undoing(n)
      BY <3>1, <3>2, <3>5 DEF Undoing
    <3>7. Runs(c, n)
      BY <2>2, <3>1, <3>3, <3>4
    <3>8. command' \in [Operators -> Command \cup {NoCommand}]
      BY <3>5, <3>7, RunsTypes
    <3>9. MappingTypeOK'
      BY <2>2, <3>8 DEF Reads, MappingTypeOK
    <3> QED
      BY <2>2, <3>5, <3>6, <3>7, <3>9, TrailStays DEF Reads
  <2> QED
    BY <1>6, <2>1, <2>2, InspectUndoneForm
<1> QED
  BY <1>0, <1>1, <1>2, <1>3, <1>4, <1>5, <1>6

\* What was said of the commands stays true when trails grow.
LEMMA UndoingStays ==
  ASSUME TrailInv, NEW m \in Command, Undoing(m), MappingTypeOK',
         \A q \in LegacyPaths : \/ trail'[q] = trail[q]
                                \/ \E e \in Entry : trail'[q] = Append(trail[q], e)
  PROVE  /\ Undoing(m)'
<1>1. SUFFICES ASSUME m.does = "rollback"
               PROVE  /\ m.reverses \in 1..Len(trail'[m.path])
                      /\ trail'[m.path][m.reverses] = trail[m.path][m.reverses]
  BY DEF Undoing, Undoes
<1>2. m \in Replacing
  BY <1>1 DEF Command, Applying, Replacing
<1>3. m.path \in LegacyPaths /\ trail[m.path] \in Seq(Entry) /\ m.reverses \in 1..Len(trail[m.path])
  BY <1>1, <1>2, ReplacingFields DEF TrailInv, MappingTypeOK, Undoing
<1>4. CASE trail'[m.path] = trail[m.path]
  BY <1>3, <1>4
<1>5. ASSUME NEW e \in Entry, trail'[m.path] = Append(trail[m.path], e)
      PROVE  /\ m.reverses \in 1..Len(trail'[m.path])
             /\ trail'[m.path][m.reverses] = trail[m.path][m.reverses]
  BY <1>3, <1>5
<1> QED
  BY <1>3, <1>4, <1>5

LEMMA TrailApplied ==
  ASSUME TrailInv, NEW c \in Operators, Apply(c)
  PROVE  TrailInv'
<1>1. CASE Refuses(c)
  BY <1>1, RefusesTypes, TrailStays DEF Refuses, Reads, TrailInv
<1>2. MappingTypeOK'
  BY AppliedTypes DEF TrailInv
<1>3. ASSUME NEW f \in [LegacyPaths -> FullRow \cup {NoRow}], NEW added \in SUBSET LegacyPaths,
             \A q \in added : bound[q] = NoRow /\ f[q] \in FullRow,
             bound' = [q \in LegacyPaths |-> IF q \in added THEN f[q] ELSE bound[q]],
             trail' = [q \in LegacyPaths |->
                  IF q \in added
                  THEN Append(trail[q], [action |-> "bind", old |-> NoRow, new |-> f[q], reverses |-> 0])
                  ELSE trail[q]],
             Writes(c)
      PROVE  TrailInv'
  <2>1. ASSUME NEW q \in LegacyPaths
        PROVE  \/ trail'[q] = trail[q] /\ bound'[q] = bound[q]
               \/ \E e \in Entry : /\ trail'[q] = Append(trail[q], e) /\ bound'[q] = e.new
                                   /\ e.action = "bind" /\ trail[q] = <<>>
    <3>1. CASE q \notin added
      BY <1>3, <2>1, <3>1
    <3>2. CASE q \in added
      <4>1. PICK e : e = [action |-> "bind", old |-> NoRow, new |-> f[q], reverses |-> 0]
        OBVIOUS
      <4>2. e \in Entry
        BY <1>3, <3>2, <4>1 DEF Entry
      <4>3. trail'[q] = Append(trail[q], e) /\ bound'[q] = e.new /\ e.action = "bind"
        BY <1>3, <3>2, <4>1
      <4>4. ASSUME trail[q] # <<>> PROVE FALSE
        <5>1. trail[q] \in Seq(Entry) /\ Len(trail[q]) \in 1..Len(trail[q])
          BY <4>4 DEF TrailInv, MappingTypeOK
        <5>2. trail[q][Len(trail[q])] \in Entry
          BY <5>1
        <5>3. trail[q][Len(trail[q])].new \in FullRow
          BY <5>2 DEF Entry
        <5>4. bound[q] \in FullRow
          BY <4>4, <5>3 DEF TrailInv, TrailIsUnbroken
        <5> QED
          BY <1>3, <3>2, <5>4, MappingAssumption DEF Row
      <4> QED
        BY <4>2, <4>3, <4>4
    <3> QED
      BY <3>1, <3>2
  <2>2. ASSUME NEW q \in LegacyPaths
        PROVE  /\ trail'[q] # <<>> => bound'[q] = trail'[q][Len(trail'[q])].new
               /\ \A i \in 1..Len(trail'[q]) :
                    IF trail'[q][i].action = "bind" THEN i = 1
                    ELSE i > 1 => trail'[q][i].old.print = trail'[q][i - 1].new.print
               /\ \A i \in 1..Len(trail'[q]) :
                    trail'[q][i].action = "rollback" =>
                      /\ trail'[q][i].reverses \in 1..(i - 1)
                      /\ trail'[q][trail'[q][i].reverses].action = "rebind"
                      /\ trail'[q][i].new = trail'[q][trail'[q][i].reverses].old
                      /\ Undoes(trail'[q][i].old, trail'[q][trail'[q][i].reverses])
               /\ \A i \in 1..Len(trail'[q]) :
                    trail'[q][i].action # "bind" => trail'[q][i].old \in Row
    <3>1. CASE trail'[q] = trail[q] /\ bound'[q] = bound[q]
      BY <3>1 DEF TrailInv, TrailIsUnbroken, RollbackUndoes
    <3>2. ASSUME NEW e \in Entry, trail'[q] = Append(trail[q], e), bound'[q] = e.new,
                 e.action = "bind", trail[q] = <<>>
          PROVE  /\ trail'[q] # <<>> => bound'[q] = trail'[q][Len(trail'[q])].new
                 /\ \A i \in 1..Len(trail'[q]) :
                      IF trail'[q][i].action = "bind" THEN i = 1
                      ELSE i > 1 => trail'[q][i].old.print = trail'[q][i - 1].new.print
                 /\ \A i \in 1..Len(trail'[q]) :
                      trail'[q][i].action = "rollback" =>
                        /\ trail'[q][i].reverses \in 1..(i - 1)
                        /\ trail'[q][trail'[q][i].reverses].action = "rebind"
                        /\ trail'[q][i].new = trail'[q][trail'[q][i].reverses].old
                        /\ Undoes(trail'[q][i].old, trail'[q][trail'[q][i].reverses])
                 /\ \A i \in 1..Len(trail'[q]) :
                      trail'[q][i].action # "bind" => trail'[q][i].old \in Row
      BY <3>2, TrailGrows
    <3> QED
      BY <2>1, <3>1, <3>2
  <2>3. TrailIsUnbroken'
    BY <2>2 DEF TrailIsUnbroken
  <2>4. RollbackUndoes'
    BY <2>2 DEF RollbackUndoes, Undoes
  <2>5. ASSUME NEW d \in Operators, command'[d] # NoCommand
        PROVE  Undoing(command[d])'
    <3>1. command'[d] = command[d] /\ command[d] # NoCommand
      BY <1>3, <2>5 DEF Writes, Runs, TrailInv, MappingTypeOK
    <3>2. PICK m : m = command[d]
      OBVIOUS
    <3>3. m \in Command /\ Undoing(m)
      BY <3>1, <3>2 DEF TrailInv, MappingTypeOK
    <3>4. Undoing(m)'
      BY <1>2, <2>1, <3>3, UndoingStays
    <3> QED
      BY <3>1, <3>2, <3>4 DEF Undoing
  <2> QED
    BY <1>2, <2>2, <2>3, <2>4, <2>5 DEF TrailInv
<1> QED
  BY <1>1, <1>3, ApplyForm DEF TrailInv

LEMMA TrailReplaced ==
  ASSUME TrailInv, NEW c \in Operators, Replace(c)
  PROVE  TrailInv'
<1>1. CASE Refuses(c)
  BY <1>1, RefusesTypes, TrailStays DEF Refuses, Reads, TrailInv
<1>2. MappingTypeOK'
  BY ReplacedTypes DEF TrailInv
<1>3. ASSUME NEW m \in Replacing, m = command[c], m # NoCommand, m.new \in FullRow, Current(m),
             bound' = [bound EXCEPT ![m.path] = m.new],
             trail' = [trail EXCEPT ![m.path] =
                Append(@, [action |-> m.does, old |-> m.old, new |-> m.new, reverses |-> m.reverses])],
             Writes(c)
      PROVE  TrailInv'
  <2>1. PICK e : e = [action |-> m.does, old |-> m.old, new |-> m.new, reverses |-> m.reverses]
    OBVIOUS
  <2>2. /\ e \in Entry /\ e.action = m.does /\ e.old = m.old /\ e.new = m.new /\ e.reverses = m.reverses
        /\ m.path \in LegacyPaths
    BY <1>3, <2>1, ReplacingFields DEF Entry
  <2>3. /\ trail'[m.path] = Append(trail[m.path], e) /\ bound'[m.path] = e.new
        /\ \A q \in LegacyPaths \ {m.path} : trail'[q] = trail[q] /\ bound'[q] = bound[q]
    BY <1>3, <2>1, <2>2 DEF TrailInv, MappingTypeOK
  <2>4. /\ e.action # "bind" /\ e.old \in Row /\ e.old.print = bound[m.path].print
        /\ e.action = "rollback" =>
             /\ e.reverses \in 1..Len(trail[m.path])
             /\ trail[m.path][e.reverses].action = "rebind" /\ e.new = trail[m.path][e.reverses].old
             /\ Undoes(e.old, trail[m.path][e.reverses])
    <3>1. m.does \in {"rebind", "rollback"} /\ m.old \in Row /\ m.new # NoRow
      BY <1>3, ReplacingFields, MappingAssumption DEF Row
    <3>2. Undoing(m)
      BY <1>3 DEF TrailInv
    <3> QED
      BY <1>3, <2>2, <3>1, <3>2 DEF Current, Undoing
  <2>5. ASSUME NEW q \in LegacyPaths
        PROVE  /\ trail'[q] # <<>> => bound'[q] = trail'[q][Len(trail'[q])].new
               /\ \A i \in 1..Len(trail'[q]) :
                    IF trail'[q][i].action = "bind" THEN i = 1
                    ELSE i > 1 => trail'[q][i].old.print = trail'[q][i - 1].new.print
               /\ \A i \in 1..Len(trail'[q]) :
                    trail'[q][i].action = "rollback" =>
                      /\ trail'[q][i].reverses \in 1..(i - 1)
                      /\ trail'[q][trail'[q][i].reverses].action = "rebind"
                      /\ trail'[q][i].new = trail'[q][trail'[q][i].reverses].old
                      /\ Undoes(trail'[q][i].old, trail'[q][trail'[q][i].reverses])
               /\ \A i \in 1..Len(trail'[q]) :
                    trail'[q][i].action # "bind" => trail'[q][i].old \in Row
    <3>1. CASE q # m.path
      BY <2>3, <3>1 DEF TrailInv, TrailIsUnbroken, RollbackUndoes
    <3>2. CASE q = m.path
      BY <2>2, <2>3, <2>4, <3>2, TrailGrows
    <3> QED
      BY <3>1, <3>2
  <2>6. TrailIsUnbroken'
    BY <2>5 DEF TrailIsUnbroken
  <2>7. RollbackUndoes'
    BY <2>5 DEF RollbackUndoes, Undoes
  <2>8. \A q \in LegacyPaths : \/ trail'[q] = trail[q]
                               \/ \E x \in Entry : trail'[q] = Append(trail[q], x)
    BY <2>2, <2>3
  <2>9. ASSUME NEW d \in Operators, command'[d] # NoCommand
        PROVE  Undoing(command[d])'
    <3>1. command'[d] = command[d] /\ command[d] # NoCommand
      BY <1>3, <2>9 DEF Writes, Runs, TrailInv, MappingTypeOK
    <3>2. PICK n : n = command[d]
      OBVIOUS
    <3>3. n \in Command /\ Undoing(n)
      BY <3>1, <3>2 DEF TrailInv, MappingTypeOK
    <3>4. Undoing(n)'
      BY <1>2, <2>8, <3>3, UndoingStays
    <3> QED
      BY <3>1, <3>2, <3>4 DEF Undoing
  <2> QED
    BY <1>2, <2>5, <2>6, <2>7, <2>9 DEF TrailInv
<1> QED
  BY <1>1, <1>3, ReplaceForm DEF TrailInv

LEMMA UpsetsTypes ==
  ASSUME MappingTypeOK, Upsets
  PROVE  changes' \in 0..ChangeBound
BY MappingAssumption DEF MappingTypeOK, Upsets

LEMMA TrailUpset ==
  ASSUME TrailInv,
         \/ \E q \in LegacyPaths, id \in Identity \cup {Nothing} : Repoint(q, id)
         \/ \E p \in Projects, row \in Project : Register(p, row)
  PROVE  TrailInv'
<1>1. Upsets
  BY DEF Repoint, Register
<1>2. changes' \in 0..ChangeBound
  BY <1>1, UpsetsTypes DEF TrailInv
<1>3. MappingTypeOK'
  BY <1>1, <1>2 DEF TrailInv, MappingTypeOK, Repoint, Register, Upsets
<1> QED
  BY <1>1, <1>3 DEF Upsets, TrailInv, TrailIsUnbroken, RollbackUndoes, Undoing, Undoes

LEMMA TrailStep == TrailInv /\ [MappingNext]_mappingVars => TrailInv'
<1> SUFFICES ASSUME TrailInv, [MappingNext]_mappingVars PROVE TrailInv'
  OBVIOUS
<1>1. CASE UNCHANGED mappingVars
  BY <1>1 DEF mappingVars, TrailInv, MappingTypeOK, TrailIsUnbroken, RollbackUndoes, Undoing, Undoes
<1>2. CASE MappingNext
  BY <1>2, TrailReads, TrailApplied, TrailReplaced, TrailUpset DEF MappingNext
<1> QED
  BY <1>1, <1>2

LEMMA InitTrailInv == MappingInit => TrailInv
<1> SUFFICES ASSUME MappingInit PROVE TrailInv
  OBVIOUS
<1>1. \A q \in LegacyPaths : trail[q] = <<>> /\ Len(trail[q]) = 0
  BY DEF MappingInit
<1>2. \A q \in LegacyPaths : 1..Len(trail[q]) = {}
  BY <1>1
<1> QED
  BY <1>1, <1>2, InitMappingTypes DEF TrailInv, TrailIsUnbroken, RollbackUndoes, MappingInit

-----------------------------------------------------------------------------
(* The mapping of paths to Projects: one Project per identity *)

\* The rows that are bound, about to be written, or may be put back.
InPlay(r) ==
  \/ \E q \in LegacyPaths : bound[q] # NoRow /\ r = Completed(bound[q])
  \/ \E c \in Operators, q \in LegacyPaths :
       command[c] # NoCommand /\ command[c].does \in {"preview", "apply"} /\ r = command[c].found[q]
  \/ \E c \in Operators :
       /\ command[c] # NoCommand /\ command[c].does \in {"rebind", "rollback"}
       /\ r \in {command[c].old, command[c].new}
  \/ \E q \in LegacyPaths : \E i \in 1..Len(trail[q]) : r = trail[q][i].old

\* Those with one identity agree on the Project, and no other is registered for it.
RowsAgree ==
  \A r \in FullRow : \A id \in Identity \ late :
    InPlay(r) /\ SameIdentity(r, id) =>
      /\ \A s \in FullRow : InPlay(s) /\ SameIdentity(s, id) => s.project = r.project
      /\ Exact(id) \subseteq {r.project}

LEMMA CompletedRow ==
  ASSUME MappingTypeOK, NEW q \in LegacyPaths, NEW id \in Identity, bound[q] # NoRow,
         SameIdentity(Completed(bound[q]), id)
  PROVE  /\ Completed(bound[q]) \in FullRow /\ Completed(bound[q]).project = bound[q].project
         /\ InPlay(Completed(bound[q]))
<1>1. bound[q] \in Row
  BY DEF MappingTypeOK
<1>2. InPlay(Completed(bound[q]))
  BY DEF InPlay
<1>3. CASE bound[q].url = Unset /\ bound[q].project \in Registered
  <2>1. PICK p : p = bound[q].project
    OBVIOUS
  <2>2. p \in Projects /\ known[p] \in Project
    BY <1>3, <2>1 DEF Registered, MappingTypeOK
  <2>3. PICK s : s = [bound[q] EXCEPT !.url = known[p].url, !.branch = known[p].branch]
    OBVIOUS
  <2>4. Completed(bound[q]) = s
    BY <1>3, <2>1, <2>3 DEF Completed
  <2>5. s.url \in Remotes /\ s.branch \in Branches
    BY <2>4 DEF SameIdentity, Identity
  <2>6. bound[q] \in [project : Projects, url : {Unset}, print : Remotes, branch : {Unset}]
    BY <1>1, <1>3, MappingAssumption DEF Row, FullRow
  <2>7. s = [project |-> p, url |-> known[p].url, print |-> bound[q].print, branch |-> known[p].branch]
    BY <2>1, <2>3, <2>6
  <2>8. s \in FullRow /\ s.project = p
    BY <2>2, <2>5, <2>6, <2>7 DEF FullRow
  <2> QED
    BY <1>2, <2>1, <2>4, <2>8
<1>4. CASE ~(bound[q].url = Unset /\ bound[q].project \in Registered)
  <2>1. Completed(bound[q]) = bound[q]
    BY <1>4 DEF Completed
  <2> QED
    BY <1>1, <1>2, <2>1, SameRow
<1> QED
  BY <1>3, <1>4

LEMMA HoldersInPlay ==
  ASSUME MappingTypeOK, NEW id \in Identity, NEW p \in Holders(id)
  PROVE  \E r \in FullRow : InPlay(r) /\ SameIdentity(r, id) /\ r.project = p
<1>1. PICK q \in LegacyPaths : /\ bound[q] # NoRow /\ SameIdentity(Completed(bound[q]), id)
                               /\ p = bound[q].project
  BY DEF Holders, BoundTo
<1> QED
  BY <1>1, CompletedRow

\* A Project that an identity resolves to agrees with every row in play.
LEMMA ResolvedAgrees ==
  ASSUME MappingTypeOK, RowsAgree, NEW id \in Identity \ late, NEW p \in Projects, Resolved(id, p)
  PROVE  /\ Exact(id) \subseteq {p}
         /\ \A s \in FullRow : InPlay(s) /\ SameIdentity(s, id) => s.project = p
         /\ \A x \in Projects : Resolved(id, x) => x = p
<1>1. Claimants(id) = {p}
  BY DEF Resolved
<1>2. \A x \in Projects : Resolved(id, x) => x = p
  BY <1>1 DEF Resolved
<1>3. CASE Relevant(id) # {}
  <2>1. Exact(id) = {p}
    BY <1>1, <1>3 DEF Claimants
  <2> QED
    BY <1>2, <2>1 DEF RowsAgree
<1>4. CASE Relevant(id) = {}
  <2>1. Exact(id) = {}
    BY <1>4 DEF Exact
  <2>2. p \in Holders(id)
    BY <1>1, <1>4 DEF Claimants
  <2>3. PICK r \in FullRow : InPlay(r) /\ SameIdentity(r, id) /\ r.project = p
    BY <2>2, HoldersInPlay
  <2>4. \A s \in FullRow : InPlay(s) /\ SameIdentity(s, id) => s.project = r.project
    BY <2>3 DEF RowsAgree
  <2> QED
    BY <1>2, <2>1, <2>3, <2>4
<1> QED
  BY <1>3, <1>4

\* Agreement is kept by a step whose new rows were resolved by the rule.
LEMMA AgreementStep ==
  ASSUME MappingTypeOK, RowsAgree, UNCHANGED <<known, late>>,
         \A r \in FullRow : InPlay(r)' =>
           \/ InPlay(r)
           \/ \E id \in Identity, p \in Projects : r = RowOf(p, id) /\ Resolved(id, p)
  PROVE  RowsAgree'
<1>1. \A r \in FullRow, id \in Identity : SameIdentity(r, id)' <=> SameIdentity(r, id)
  BY DEF SameIdentity
<1>2. ASSUME NEW id \in Identity \ late PROVE Exact(id)' = Exact(id)
  BY DEF Exact, Relevant, Registered, SameIdentity
<1>3. ASSUME NEW r \in FullRow, NEW id \in Identity \ late, InPlay(r)', SameIdentity(r, id)
      PROVE  InPlay(r) \/ Resolved(id, r.project)
  <2>1. ASSUME NEW jd \in Identity, NEW p \in Projects, r = RowOf(p, jd), Resolved(jd, p)
        PROVE  Resolved(id, r.project)
    <3>1. jd = id /\ p = r.project
      BY <1>3, <2>1 DEF RowOf, SameIdentity, Identity
    <3> QED
      BY <2>1, <3>1
  <2> QED
    BY <1>3, <2>1
<1>4. ASSUME NEW r \in FullRow, NEW id \in Identity \ late, InPlay(r)', SameIdentity(r, id)
      PROVE  /\ \A s \in FullRow : InPlay(s)' /\ SameIdentity(s, id) => s.project = r.project
             /\ Exact(id) \subseteq {r.project}
  <2>1. r.project \in Projects
    BY DEF FullRow
  <2>2. ASSUME NEW s \in FullRow, InPlay(s)', SameIdentity(s, id)
        PROVE  s.project = r.project
    <3>1. s.project \in Projects
      BY DEF FullRow
    <3>2. InPlay(r) \/ Resolved(id, r.project)
      BY <1>3, <1>4
    <3>3. InPlay(s) \/ Resolved(id, s.project)
      BY <1>3, <2>2
    <3>4. CASE InPlay(r) /\ InPlay(s)
      BY <1>4, <2>2, <3>4 DEF RowsAgree
    <3>5. CASE Resolved(id, r.project)
      BY <2>1, <2>2, <3>1, <3>3, <3>5, ResolvedAgrees
    <3>6. CASE Resolved(id, s.project)
      BY <1>4, <2>1, <3>1, <3>2, <3>6, ResolvedAgrees
    <3> QED
      BY <3>2, <3>3, <3>4, <3>5, <3>6
  <2>3. Exact(id) \subseteq {r.project}
    <3>1. CASE InPlay(r)
      BY <1>4, <3>1 DEF RowsAgree
    <3>2. CASE Resolved(id, r.project)
      BY <2>1, <3>2, ResolvedAgrees
    <3> QED
      BY <1>3, <1>4, <3>1, <3>2
  <2> QED
    BY <2>2, <2>3
<1> QED
  BY <1>1, <1>2, <1>4 DEF RowsAgree

MapInv == TrailInv /\ RowsAgree

\* A command that has changed for m, when nothing else has.
LEMMA InPlayReads ==
  ASSUME MappingTypeOK, NEW c \in Operators, NEW m \in Command \cup {NoCommand}, Runs(c, m), Reads,
         NEW r \in FullRow, InPlay(r)'
  PROVE  \/ InPlay(r)
         \/ m # NoCommand /\ m.does \in {"preview", "apply"} /\ \E q \in LegacyPaths : r = m.found[q]
         \/ m # NoCommand /\ m.does \in {"rebind", "rollback"} /\ r \in {m.old, m.new}
<1>1. \A d \in Operators : command'[d] = IF d = c THEN m ELSE command[d]
  BY DEF Runs, MappingTypeOK
<1>2. UNCHANGED <<bound, trail, known>>
  BY DEF Reads
<1>3. \A q \in LegacyPaths : Completed(bound[q])' = Completed(bound[q])
  BY <1>2 DEF Completed, Registered
<1>4. CASE \E q \in LegacyPaths : bound'[q] # NoRow /\ r = Completed(bound[q])'
  BY <1>2, <1>3, <1>4 DEF InPlay
<1>5. CASE \E d \in Operators, q \in LegacyPaths :
             command'[d] # NoCommand /\ command'[d].does \in {"preview", "apply"} /\ r = command'[d].found[q]
  BY <1>1, <1>5 DEF InPlay
<1>6. CASE \E d \in Operators :
             /\ command'[d] # NoCommand /\ command'[d].does \in {"rebind", "rollback"}
             /\ r \in {command'[d].old, command'[d].new}
  BY <1>1, <1>6 DEF InPlay
<1>7. CASE \E q \in LegacyPaths : \E i \in 1..Len(trail'[q]) : r = trail'[q][i].old
  BY <1>2, <1>7 DEF InPlay
<1> QED
  BY <1>4, <1>5, <1>6, <1>7 DEF InPlay

LEMMA AgreementReads ==
  ASSUME MapInv, NEW c \in Operators, NEW m \in Command \cup {NoCommand}, Runs(c, m), Reads,
         \A r \in FullRow :
           \/ m # NoCommand /\ m.does \in {"preview", "apply"} /\ \E q \in LegacyPaths : r = m.found[q]
           \/ m # NoCommand /\ m.does \in {"rebind", "rollback"} /\ r \in {m.old, m.new}
           => \/ InPlay(r)
              \/ \E id \in Identity, p \in Projects : r = RowOf(p, id) /\ Resolved(id, p)
  PROVE  RowsAgree'
<1>1. MappingTypeOK /\ RowsAgree /\ UNCHANGED <<known, late>>
  BY DEF MapInv, TrailInv, Reads
<1>2. ASSUME NEW r \in FullRow, InPlay(r)'
      PROVE  \/ InPlay(r)
             \/ \E id \in Identity, p \in Projects : r = RowOf(p, id) /\ Resolved(id, p)
  BY <1>1, <1>2, InPlayReads
<1> QED
  BY <1>1, <1>2, AgreementStep

LEMMA RefusesAgreement ==
  ASSUME MapInv, NEW c \in Operators, Refuses(c)
  PROVE  RowsAgree'
BY AgreementReads DEF Refuses

LEMMA ScanAgreement ==
  ASSUME MapInv, NEW c \in Operators, Preview(c) \/ Rescan(c)
  PROVE  RowsAgree'
<1> USE DEF MapInv, TrailInv
<1>1. CASE Preview(c)
  <2>1. PICK f : f = [q \in LegacyPaths |-> Found(q)]
    OBVIOUS
  <2>2. PICK m : m = [does |-> "preview", found |-> f]
    OBVIOUS
  <2>3. Runs(c, m) /\ Reads
    BY <1>1, <2>1, <2>2 DEF Preview, Found
  <2>4. f \in [LegacyPaths -> FullRow \cup {NoRow}]
    BY <2>1, FoundType
  <2>5. m \in Command /\ m.does = "preview" /\ m.found = f
    BY <2>2, <2>4 DEF Command, Applying
  <2>6. ASSUME NEW r \in FullRow, NEW q \in LegacyPaths, r = f[q]
        PROVE  \E id \in Identity, p \in Projects : r = RowOf(p, id) /\ Resolved(id, p)
    <3>1. Found(q) # NoRow /\ r = Found(q)
      BY <2>1, <2>6, MappingAssumption DEF Row
    <3>2. PICK p \in Projects : Mapped(q, p) /\ r = RowOf(p, repository[q])
      BY <3>1, FoundType
    <3>3. bound[q] = NoRow /\ repository[q] \in Identity
      BY <3>1, FoundType
    <3>4. Resolved(repository[q], p)
      BY <3>2, <3>3 DEF Mapped
    <3> QED
      BY <3>2, <3>3, <3>4
  <2> QED
    BY <2>3, <2>5, <2>6, AgreementReads
<1>2. CASE Rescan(c) /\ ~Refuses(c)
  <2>1. PICK n : n = command[c]
    OBVIOUS
  <2>2. n \in Applying /\ n # NoCommand /\ n.does = "preview"
    BY <1>2, <2>1, CommandForms DEF Rescan
  <2>3. PICK m : m = [n EXCEPT !.does = "apply"]
    OBVIOUS
  <2>4. m \in Command /\ m.does = "apply" /\ m.found = n.found
    BY <2>2, <2>3 DEF Command, Applying
  <2>5. Runs(c, m) /\ Reads
    BY <1>2, <2>1, <2>3 DEF Rescan
  <2>6. ASSUME NEW r \in FullRow, NEW q \in LegacyPaths, r = m.found[q]
        PROVE  InPlay(r)
    BY <2>1, <2>2, <2>4, <2>6 DEF InPlay
  <2> QED
    BY <2>4, <2>5, <2>6, AgreementReads
<1>3. CASE Refuses(c)
  BY <1>3, RefusesAgreement
<1> QED
  BY <1>1, <1>2, <1>3

LEMMA ReplacesAgreement ==
  ASSUME MapInv, NEW c \in Operators, NEW does \in {"rebind", "rollback"},
         NEW q \in LegacyPaths, NEW k \in Nat, Replaces(c, does, q, k)
  PROVE  RowsAgree'
<1> USE DEF MapInv, TrailInv
<1>1. PICK m : m = [does |-> does, path |-> q, old |-> bound[q], new |-> NoRow, reverses |-> k]
  OBVIOUS
<1>2. bound[q] \in Row /\ bound[q] # NoRow /\ Runs(c, m) /\ Reads
  BY <1>1 DEF Replaces, MappingTypeOK
<1>3. m \in Command /\ m.does = does /\ m.old = bound[q] /\ m.new = NoRow
  BY <1>1, <1>2 DEF Command, Replacing
<1>4. ASSUME NEW r \in FullRow, r \in {m.old, m.new} PROVE InPlay(r)
  <2>1. r = bound[q] /\ r.url # Unset
    BY <1>3, <1>4, MappingAssumption DEF Row, FullRow
  <2>2. Completed(bound[q]) = r
    BY <2>1 DEF Completed
  <2> QED
    BY <1>2, <2>2 DEF InPlay
<1> QED
  BY <1>2, <1>3, <1>4, AgreementReads

LEMMA InspectAgreement ==
  ASSUME MapInv, NEW c \in Operators,
         InspectUndone(c) \/ \E p \in Projects, remote \in Remotes : Inspect(c, p, remote)
  PROVE  RowsAgree'
<1> USE DEF MapInv, TrailInv
<1>1. ASSUME Refuses(c) PROVE RowsAgree'
  BY <1>1, RefusesAgreement
<1>2. ASSUME NEW p \in Projects, NEW remote \in Remotes, Inspect(c, p, remote), ~Refuses(c)
      PROVE  RowsAgree'
  <2>1. PICK m \in Replacing :
              /\ m = command[c] /\ m # NoCommand /\ m.does = "rebind"
              /\ repository[m.path] \in Identity /\ Resolved(repository[m.path], p)
              /\ Runs(c, [m EXCEPT !.new = RowOf(p, repository[m.path])]) /\ Reads
    BY <1>2, InspectForm
  <2>2. PICK n : n = [m EXCEPT !.new = RowOf(p, repository[m.path])]
    OBVIOUS
  <2>3. /\ n \in Command /\ n.does = "rebind" /\ n.old = m.old
        /\ n.new = RowOf(p, repository[m.path])
    BY <2>1, <2>2, RowOfType DEF Command, Replacing
  <2>4. ASSUME NEW r \in FullRow, r = m.old PROVE InPlay(r)
    BY <2>1, <2>4 DEF InPlay
  <2> QED
    BY <2>1, <2>2, <2>3, <2>4, AgreementReads
<1>3. ASSUME InspectUndone(c), ~Refuses(c) PROVE RowsAgree'
  <2>1. PICK m \in Replacing :
              /\ m = command[c] /\ m # NoCommand /\ m.does = "rollback"
              /\ repository[m.path] \in Identity
              /\ SameIdentity(trail[m.path][m.reverses].old, repository[m.path])
              /\ Runs(c, [m EXCEPT !.new = RowOf(trail[m.path][m.reverses].old.project, repository[m.path])])
              /\ Reads
    BY <1>3, InspectUndoneForm
  <2>2. PICK e : e = trail[m.path][m.reverses]
    OBVIOUS
  <2>3. m.path \in LegacyPaths /\ m.reverses \in 1..Len(trail[m.path]) /\ e.old \in Row
    BY <2>1, <2>2, ReplacingFields DEF Undoing
  <2>4. e.old \in FullRow /\ e.old = RowOf(e.old.project, repository[m.path])
    BY <2>1, <2>2, <2>3, SameRow
  <2>5. PICK n : n = [m EXCEPT !.new = e.old]
    OBVIOUS
  <2>6. /\ n \in Command /\ n.does = "rollback" /\ n.old = m.old /\ n.new = e.old
    BY <2>1, <2>4, <2>5 DEF Command, Replacing
  <2>7. Runs(c, n)
    BY <2>1, <2>2, <2>4, <2>5
  <2>8. ASSUME NEW r \in FullRow, r \in {n.old, n.new} PROVE InPlay(r)
    <3>1. CASE r = m.old
      BY <2>1, <3>1 DEF InPlay
    <3>2. CASE r = e.old
      BY <2>2, <2>3, <3>2 DEF InPlay
    <3> QED
      BY <2>6, <2>8, <3>1, <3>2
  <2> QED
    BY <2>1, <2>6, <2>7, <2>8, AgreementReads
<1> QED
  BY <1>1, <1>2, <1>3

\* A path that gets a row in play, and a trail that grows by a record whose old row is in play.
LEMMA AgreementWrites ==
  ASSUME MapInv, MappingTypeOK', NEW c \in Operators, Writes(c),
         \A q \in LegacyPaths :
           \/ bound'[q] = bound[q] /\ trail'[q] = trail[q]
           \/ \E e \in Entry : /\ trail'[q] = Append(trail[q], e) /\ bound'[q] = e.new
                               /\ InPlay(e.new)
                               /\ e.old # NoRow => InPlay(e.old)
  PROVE  RowsAgree'
<1> USE DEF MapInv, TrailInv
<1>1. ASSUME NEW r \in FullRow, InPlay(r)' PROVE InPlay(r)
  <2>1. CASE \E q \in LegacyPaths : bound'[q] # NoRow /\ r = Completed(bound[q])'
    <3>1. PICK q \in LegacyPaths : bound'[q] # NoRow /\ r = Completed(bound[q])'
      BY <2>1
    <3>2. CASE bound'[q] = bound[q]
      <4>1. Completed(bound[q])' = Completed(bound[q])
        BY <3>2 DEF Completed, Registered, Writes
      <4> QED
        BY <3>1, <3>2, <4>1 DEF InPlay
    <3>3. ASSUME NEW e \in Entry, bound'[q] = e.new, InPlay(e.new) PROVE InPlay(r)
      <4>1. e.new.url # Unset
        BY MappingAssumption DEF Entry, FullRow
      <4>2. Completed(bound[q])' = e.new
        BY <3>3, <4>1 DEF Completed
      <4> QED
        BY <3>1, <3>3, <4>2
    <3> QED
      BY <3>2, <3>3
  <2>2. CASE \E q \in LegacyPaths : \E i \in 1..Len(trail'[q]) : r = trail'[q][i].old
    <3>1. PICK q \in LegacyPaths : \E i \in 1..Len(trail'[q]) : r = trail'[q][i].old
      BY <2>2
    <3>2. CASE trail'[q] = trail[q]
      BY <3>1, <3>2 DEF InPlay
    <3>3. ASSUME NEW e \in Entry, trail'[q] = Append(trail[q], e), e.old # NoRow => InPlay(e.old)
          PROVE  InPlay(r)
      <4>1. trail[q] \in Seq(Entry)
        BY DEF MappingTypeOK
      <4>2. PICK i \in 1..Len(trail'[q]) : r = trail'[q][i].old
        BY <3>1
      <4>3. (i \in 1..Len(trail[q]) /\ trail'[q][i] = trail[q][i]) \/ trail'[q][i] = e
        BY <3>3, <4>1, <4>2
      <4>4. CASE trail'[q][i] = e
        BY <3>3, <4>2, <4>4, MappingAssumption DEF Row
      <4> QED
        BY <4>2, <4>3, <4>4 DEF InPlay
    <3> QED
      BY <3>1, <3>2, <3>3
  <2>3. \A d \in Operators : command'[d] = command[d] \/ command'[d] = NoCommand
    BY DEF Writes, Runs, MappingTypeOK
  <2>4. CASE \/ \E d \in Operators, q \in LegacyPaths :
                  /\ command'[d] # NoCommand /\ command'[d].does \in {"preview", "apply"}
                  /\ r = command'[d].found[q]
             \/ \E d \in Operators :
                  /\ command'[d] # NoCommand /\ command'[d].does \in {"rebind", "rollback"}
                  /\ r \in {command'[d].old, command'[d].new}
    BY <2>3, <2>4 DEF InPlay
  <2> QED
    BY <1>1, <2>1, <2>2, <2>4 DEF InPlay
<1> QED
  BY <1>1, AgreementStep DEF Writes

LEMMA WriteAgreement ==
  ASSUME MapInv, NEW c \in Operators, Apply(c) \/ Replace(c)
  PROVE  RowsAgree'
<1> USE DEF MapInv, TrailInv
<1>0. MappingTypeOK'
  BY AppliedTypes, ReplacedTypes
<1>1. CASE Refuses(c)
  BY <1>1, RefusesAgreement
<1>2. CASE Apply(c) /\ ~Refuses(c)
  <2>1. PICK f \in [LegacyPaths -> FullRow \cup {NoRow}], added \in SUBSET LegacyPaths :
              /\ command[c].does = "apply" /\ command[c].found = f /\ command[c] # NoCommand
              /\ \A q \in added : bound[q] = NoRow /\ f[q] \in FullRow /\ Len(trail[q]) < TrailBound
              /\ bound' = [q \in LegacyPaths |-> IF q \in added THEN f[q] ELSE bound[q]]
              /\ trail' = [q \in LegacyPaths |->
                   IF q \in added
                   THEN Append(trail[q], [action |-> "bind", old |-> NoRow, new |-> f[q], reverses |-> 0])
                   ELSE trail[q]]
              /\ Writes(c)
    BY <1>2, ApplyForm
  <2>2. ASSUME NEW q \in LegacyPaths
        PROVE  \/ bound'[q] = bound[q] /\ trail'[q] = trail[q]
               \/ \E e \in Entry : /\ trail'[q] = Append(trail[q], e) /\ bound'[q] = e.new
                                   /\ InPlay(e.new)
                                   /\ e.old # NoRow => InPlay(e.old)
    <3>1. CASE q \notin added
      BY <2>1, <3>1
    <3>2. CASE q \in added
      <4>1. PICK e : e = [action |-> "bind", old |-> NoRow, new |-> f[q], reverses |-> 0]
        OBVIOUS
      <4>2. e \in Entry /\ e.old = NoRow /\ e.new = f[q]
        BY <2>1, <3>2, <4>1 DEF Entry
      <4>3. InPlay(e.new)
        BY <2>1, <4>2 DEF InPlay
      <4> QED
        BY <2>1, <3>2, <4>1, <4>2, <4>3
    <3> QED
      BY <3>1, <3>2
  <2> QED
    BY <1>0, <2>1, <2>2, AgreementWrites
<1>3. CASE Replace(c) /\ ~Refuses(c)
  <2>1. PICK m \in Replacing :
              /\ m = command[c] /\ m # NoCommand /\ m.new \in FullRow /\ Current(m)
              /\ bound' = [bound EXCEPT ![m.path] = m.new]
              /\ trail' = [trail EXCEPT ![m.path] =
                   Append(@, [action |-> m.does, old |-> m.old, new |-> m.new, reverses |-> m.reverses])]
              /\ Writes(c)
    BY <1>3, ReplaceForm
  <2>2. PICK e : e = [action |-> m.does, old |-> m.old, new |-> m.new, reverses |-> m.reverses]
    OBVIOUS
  <2>3. /\ e \in Entry /\ e.old = m.old /\ e.new = m.new /\ m.does \in {"rebind", "rollback"}
        /\ m.path \in LegacyPaths
    BY <2>1, <2>2, ReplacingFields DEF Entry
  <2>4. InPlay(e.new) /\ InPlay(e.old)
    BY <2>1, <2>3 DEF InPlay
  <2>5. /\ trail'[m.path] = Append(trail[m.path], e) /\ bound'[m.path] = e.new
        /\ \A q \in LegacyPaths \ {m.path} : trail'[q] = trail[q] /\ bound'[q] = bound[q]
    BY <2>1, <2>2, <2>3 DEF MappingTypeOK
  <2>6. \A q \in LegacyPaths :
           \/ bound'[q] = bound[q] /\ trail'[q] = trail[q]
           \/ \E x \in Entry : /\ trail'[q] = Append(trail[q], x) /\ bound'[q] = x.new
                               /\ InPlay(x.new)
                               /\ x.old # NoRow => InPlay(x.old)
    BY <2>3, <2>4, <2>5
  <2> QED
    BY <1>0, <2>1, <2>6, AgreementWrites
<1> QED
  BY <1>1, <1>2, <1>3

\* A Project that is registered changes only what is said of its own identities.
LEMMA RegisterAgreement ==
  ASSUME MapInv, NEW p \in Projects, NEW row \in Project, Register(p, row)
  PROVE  RowsAgree'
<1> USE DEF MapInv, TrailInv
<1>1. /\ known[p] = NoRow /\ known' = [known EXCEPT ![p] = row]
      /\ late' = late \cup {id \in Identity : id.remote = row.url /\ id.branch = row.branch}
      /\ UNCHANGED <<bound, trail, command>>
  BY DEF Register, Upsets
<1>2. row # NoRow
  BY MappingAssumption
<1>3. \A x \in Projects : known'[x] = IF x = p THEN row ELSE known[x]
  BY <1>1 DEF MappingTypeOK
<1>4. ASSUME NEW id \in Identity \ late' PROVE Exact(id)' \subseteq Exact(id)
  <2>1. ~(id.remote = row.url /\ id.branch = row.branch)
    BY <1>1
  <2>2. ASSUME NEW x \in Exact(id)' PROVE x \in Exact(id)
    <3>1. /\ x \in Projects /\ known'[x] # NoRow /\ known'[x].url # Unset
          /\ id.remote \in {known'[x].url, known'[x].print} /\ SameIdentity(known'[x], id)
      BY <2>2 DEF Exact, Relevant, Registered, SameIdentity
    <3>2. x # p
      BY <1>3, <2>1, <3>1 DEF SameIdentity
    <3>3. known'[x] = known[x]
      BY <1>3, <3>1, <3>2
    <3> QED
      BY <3>1, <3>3 DEF Exact, Relevant, Registered
  <2> QED
    BY <2>2
<1>5. ASSUME NEW r \in FullRow, NEW id \in Identity \ late', InPlay(r)', SameIdentity(r, id)
      PROVE  InPlay(r)
  <2>1. CASE \E q \in LegacyPaths : bound'[q] # NoRow /\ r = Completed(bound[q])'
    <3>1. PICK q \in LegacyPaths : bound'[q] # NoRow /\ r = Completed(bound[q])'
      BY <2>1
    <3>2. bound[q] \in Row /\ bound'[q] = bound[q] /\ bound[q] # NoRow
      BY <1>1, <3>1 DEF MappingTypeOK
    <3>3. PICK b : b = bound[q]
      OBVIOUS
    <3>4. r = IF b.url = Unset /\ b.project \in Registered'
              THEN [b EXCEPT !.url = known'[b.project].url, !.branch = known'[b.project].branch]
              ELSE b
      BY <3>1, <3>2, <3>3 DEF Completed
    <3>5. b.project \in Projects
      BY <3>2, <3>3 DEF Row, FullRow
    <3>6. CASE b.url = Unset /\ b.project = p
      <4>1. p \in Registered'
        BY <1>2, <1>3 DEF Registered
      <4>2. r = [b EXCEPT !.url = row.url, !.branch = row.branch]
        BY <1>3, <3>4, <3>6, <4>1
      <4>3. b \in [project : Projects, url : {Unset}, print : Remotes, branch : {Unset}]
        BY <3>2, <3>3, <3>6, MappingAssumption DEF Row, FullRow
      <4>4. r.url = row.url /\ r.branch = row.branch
        BY <4>2, <4>3
      <4> QED
        BY <1>1, <1>5, <4>4 DEF SameIdentity
    <3>7. CASE ~(b.url = Unset /\ b.project = p)
      <4>1. b.url = Unset => (b.project \in Registered' <=> b.project \in Registered)
        BY <1>3, <3>5, <3>7 DEF Registered
      <4>2. b.url = Unset => known'[b.project] = known[b.project]
        BY <1>3, <3>5, <3>7
      <4>3. r = Completed(b)
        BY <3>4, <4>1, <4>2 DEF Completed
      <4> QED
        BY <3>2, <3>3, <4>3 DEF InPlay
    <3> QED
      BY <3>6, <3>7
  <2>2. CASE ~ \E q \in LegacyPaths : bound'[q] # NoRow /\ r = Completed(bound[q])'
    BY <1>1, <1>5, <2>2 DEF InPlay
  <2> QED
    BY <2>1, <2>2
<1>6. ASSUME NEW r \in FullRow, NEW id \in Identity \ late', InPlay(r)', SameIdentity(r, id)
      PROVE  /\ \A s \in FullRow : InPlay(s)' /\ SameIdentity(s, id) => s.project = r.project
             /\ Exact(id)' \subseteq {r.project}
  <2>1. id \in Identity \ late
    BY <1>1
  <2>2. InPlay(r)
    BY <1>5, <1>6
  <2>3. \A s \in FullRow : InPlay(s)' /\ SameIdentity(s, id) => InPlay(s)
    BY <1>5
  <2>4. Exact(id)' \subseteq Exact(id)
    BY <1>4
  <2> QED
    BY <1>6, <2>1, <2>2, <2>3, <2>4 DEF RowsAgree
<1> QED
  BY <1>6 DEF RowsAgree, SameIdentity

LEMMA RepointAgreement ==
  ASSUME MapInv, NEW q \in LegacyPaths, NEW id \in Identity \cup {Nothing}, Repoint(q, id)
  PROVE  RowsAgree'
<1>1. UNCHANGED <<bound, trail, command, known, late>>
  BY DEF Repoint, Upsets
<1>2. \A r \in FullRow : InPlay(r)' => InPlay(r)
  BY <1>1 DEF InPlay, Completed, Registered
<1> QED
  BY <1>1, <1>2, AgreementStep DEF MapInv, TrailInv

LEMMA MapStep == MapInv /\ [MappingNext]_mappingVars => MapInv'
<1> SUFFICES ASSUME MapInv, [MappingNext]_mappingVars PROVE RowsAgree'
  BY TrailStep DEF MapInv
<1>1. CASE UNCHANGED mappingVars
  <2>1. UNCHANGED <<bound, trail, command, known, late>>
    BY <1>1 DEF mappingVars
  <2>2. \A r \in FullRow : InPlay(r)' => InPlay(r)
    BY <2>1 DEF InPlay, Completed, Registered
  <2> QED
    BY <2>1, <2>2, AgreementStep DEF MapInv, TrailInv
<1>2. ASSUME NEW c \in Operators, NEW q \in LegacyPaths, Rebind(c, q) PROVE RowsAgree'
  BY <1>2, ReplacesAgreement DEF Rebind
<1>3. ASSUME NEW c \in Operators, NEW q \in LegacyPaths, NEW k \in 1..TrailBound, Rollback(c, q, k)
      PROVE  RowsAgree'
  <2>1. k \in Nat
    BY MappingAssumption
  <2> QED
    BY <1>3, <2>1, ReplacesAgreement DEF Rollback
<1> QED
  BY <1>1, <1>2, <1>3, ScanAgreement, WriteAgreement, InspectAgreement, RegisterAgreement,
     RepointAgreement DEF MappingNext

LEMMA InitMapInv == MappingInit => MapInv
<1> SUFFICES ASSUME MappingInit PROVE RowsAgree
  BY InitTrailInv DEF MapInv
<1>0. MappingTypeOK
  BY InitMappingTypes
<1>1. \A r : InPlay(r) => \E q \in LegacyPaths : bound[q] # NoRow /\ r = Completed(bound[q])
  <2>1. \A q \in LegacyPaths : 1..Len(trail[q]) = {}
    BY DEF MappingInit
  <2> QED
    BY <2>1 DEF MappingInit, InPlay
<1>2. ASSUME NEW r \in FullRow, NEW id \in Identity, InPlay(r), SameIdentity(r, id)
      PROVE  Resolved(id, r.project)
  <2>1. PICK q \in LegacyPaths : bound[q] # NoRow /\ r = Completed(bound[q])
    BY <1>1, <1>2
  <2>2. r.project = bound[q].project
    BY <1>0, <1>2, <2>1, CompletedRow
  <2>3. q \in BoundTo(id)
    BY <1>2, <2>1 DEF BoundTo
  <2> QED
    BY <2>2, <2>3 DEF MappingInit
<1>3. ASSUME NEW r \in FullRow, NEW id \in Identity, InPlay(r), SameIdentity(r, id)
      PROVE  /\ \A s \in FullRow : InPlay(s) /\ SameIdentity(s, id) => s.project = r.project
             /\ Exact(id) \subseteq {r.project}
  <2>1. \A s \in FullRow : InPlay(s) /\ SameIdentity(s, id) => Claimants(id) = {s.project}
    BY <1>2 DEF Resolved
  <2>2. Claimants(id) = {r.project}
    BY <1>3, <2>1
  <2>3. Exact(id) \subseteq {r.project}
    BY <2>2 DEF Claimants, Exact
  <2> QED
    BY <2>1, <2>2, <2>3
<1> QED
  BY <1>3 DEF RowsAgree

LEMMA MapSafe == MapInv => MappingIsSafe
<1> SUFFICES ASSUME MapInv, NEW id \in Identity \ late PROVE Cardinality(Holders(id)) <= 1
  BY DEF MapInv, TrailInv, MappingIsSafe, OneProjectPerIdentity
<1> USE DEF MapInv, TrailInv
<1>1. CASE Holders(id) = {}
  BY <1>1, FS_EmptySet
<1>2. CASE Holders(id) # {}
  <2>1. PICK p : p \in Holders(id)
    BY <1>2
  <2>2. ASSUME NEW x \in Holders(id) PROVE x = p
    <3>1. PICK r \in FullRow : InPlay(r) /\ SameIdentity(r, id) /\ r.project = p
      BY <2>1, HoldersInPlay
    <3>2. PICK s \in FullRow : InPlay(s) /\ SameIdentity(s, id) /\ s.project = x
      BY HoldersInPlay
    <3> QED
      BY <3>1, <3>2 DEF RowsAgree
  <2>3. Holders(id) = {p}
    BY <2>1, <2>2
  <2>4. Cardinality({p}) = 1
    BY FS_Singleton
  <2> QED
    BY <2>3, <2>4
<1> QED
  BY <1>1, <1>2

\* The audit trail of the mapping explains every binding, a rollback undoes its rebind,
\* and paths of one repository are bound to one Project.
THEOREM MappingSafe == MappingSpec => []MappingIsSafe
<1>1. MappingSpec => []MapInv
  BY InitMapInv, MapStep, PTL DEF MappingSpec
<1> QED
  BY <1>1, MapSafe, PTL

\* The claims of an agent and the mapping keep their types, whichever moves.
THEOREM ClaimsAndMappingTypes == AllSpec => []ClaimsAndMappingTypesOK
<1> DEFINE Both == Inv /\ MapInv
<1>1. AllInit => Both
  BY InitInv, InitMapInv DEF AllInit, MCMappingInit
<1>2. Both /\ [AllNext]_allVars => Both'
  <2> SUFFICES ASSUME Both, [AllNext]_allVars PROVE Both'
    OBVIOUS
  <2>1. [Next]_vars /\ [MappingNext]_mappingVars
    BY DEF AllNext, allVars
  <2> QED
    BY <2>1, StepInv, MapStep
<1>3. Both => ClaimsAndMappingTypesOK
  BY DEF Inv, MapInv, TrailInv, ClaimsAndMappingTypesOK
<1> QED
  BY <1>1, <1>2, <1>3, PTL DEF AllSpec
=============================================================================
