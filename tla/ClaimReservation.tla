--------------------------- MODULE ClaimReservation ---------------------------
(***************************************************************************)
(* The claim requests of one agent: the single-flight reservation, the     *)
(* replay of a claim whose response was lost, blocking claims, and the     *)
(* worker that repeats a request when its transport fails.                 *)
(*                                                                         *)
(* An attempt is one HTTP call that carries a claim_request_id.  A retry   *)
(* is a second attempt of the same request, and the first one may still be *)
(* under way.  Each Redis script of an attempt is one action; between two  *)
(* of them every other actor may act.  The reservation key has a TTL of a  *)
(* few seconds that a stalled owner fails to renew (ReservationLapses).    *)
(*                                                                         *)
(* The token of a claim is the number of the attempt that committed it.    *)
(* "running" means running and claimed by this agent; tasks that other     *)
(* agents take or finish are "closed".  A definition named X_What is a     *)
(* faulty variant of X.                                                    *)
(***************************************************************************)
EXTENDS Naturals

CONSTANTS
  Tasks, NoTask,
  NoReservation, NoClaim,     \* an absent key, empty claim_request_* fields
  NoAnswer, Empty,            \* what an attempt was answered, beside a grant:
  Refused,                    \* busy, or another request is in progress
  Dropped,                    \* a blocking claim lost its reservation or its client
  RequestBound, AttemptBound  \* bounds on claim calls of the worker and on HTTP calls

ASSUME BoundAssumption == RequestBound \in Nat /\ AttemptBound \in Nat
ASSUME SentinelAssumption == NoTask \notin Tasks

VARIABLES
  status, lease,      \* the tasks
  current, claimed,   \* the agent hash: current_task, claim_request_*
  reservation,        \* the agent's claim reservation key
  attempts, answer,   \* HTTP calls, and their responses
  sent,               \* number of HTTP calls made
  request, awaited,   \* the worker: its request id, the call it waits for
  work                \* the grant it works on

taskVars  == <<status, lease>>
agentVars == <<current, claimed>>
callVars  == <<attempts, answer>>
workerVars == <<sent, request, awaited, work>>
vars == <<taskVars, agentVars, reservation, callVars, workerVars>>

AttemptIds == 1..AttemptBound
Status == {"absent", "pending", "running", "closed"}
\* choosing and committing come after the scan for running tasks.
Phase == {"unsent", "arrived", "reserving", "scanning", "choosing", "committing",
          "blocked", "busy", "closing", "emptying", "answered"}
Grant == [token : AttemptIds, task : Tasks]
ASSUME AnswerAssumption == Refused \notin Grant \cup {NoAnswer, Empty, Dropped}
AttemptRecord == [request : 0..RequestBound, phase : Phase, task : Tasks \cup {NoTask},
                  woken : BOOLEAN]
Attempt == {r \in AttemptRecord : r.phase = "committing" => r.task \in Tasks}
Reservation == [request : 0..RequestBound, attempt : AttemptIds, status : {"active", "empty"}]
Claimed == [request : 0..RequestBound, token : AttemptIds, task : Tasks]

TypeOK ==
  /\ status \in [Tasks -> Status]
  /\ lease \in [Tasks -> 0..AttemptBound]
  /\ current \in Tasks \cup {NoTask}
  /\ claimed \in Claimed \cup {NoClaim}
  /\ reservation \in Reservation \cup {NoReservation}
  /\ attempts \in [AttemptIds -> Attempt]
  /\ answer \in [AttemptIds -> Grant \cup {NoAnswer, Empty, Refused, Dropped}]
  /\ sent \in 0..AttemptBound
  /\ request \in 0..RequestBound
  /\ awaited \in 0..AttemptBound
  /\ work \in Grant \cup {NoAnswer}

Init ==
  /\ status \in [Tasks -> {"absent", "pending"}]
  /\ lease = [t \in Tasks |-> 0]
  /\ current = NoTask
  /\ claimed = NoClaim
  /\ reservation = NoReservation
  /\ attempts = [i \in AttemptIds |->
       [request |-> 0, phase |-> "unsent", task |-> NoTask, woken |-> FALSE]]
  /\ answer = [i \in AttemptIds |-> NoAnswer]
  /\ sent = 0
  /\ request = 0
  /\ awaited = 0
  /\ work = NoAnswer

-----------------------------------------------------------------------------
(* Helpers of the attempts *)

At(i, phase) == attempts[i].phase = phase
Goto(i, phase) == attempts' = [attempts EXCEPT ![i].phase = phase]
\* An answered call keeps nothing but its response.
Answered(i, response) ==
  /\ answer' = [answer EXCEPT ![i] = response]
  /\ attempts' = [attempts EXCEPT ![i] =
       [request |-> 0, phase |-> "answered", task |-> NoTask, woken |-> FALSE]]

Owns(i) ==
  /\ reservation # NoReservation
  /\ reservation.request = attempts[i].request
  /\ reservation.attempt = i
  /\ reservation.status = "active"

\* The claim recorded for request r still stands: the replay script's checks.
Stands(r) ==
  /\ claimed # NoClaim /\ claimed.request = r
  /\ current = claimed.task
  /\ status[claimed.task] = "running"
  /\ lease[claimed.task] = claimed.token
Replayed == [token |-> claimed.token, task |-> claimed.task]

-----------------------------------------------------------------------------
(* An attempt *)

\* The first replay; with nothing to replay the attempt goes on to reserve.
Arrive(i) ==
  /\ At(i, "arrived")
  /\ IF Stands(attempts[i].request) THEN Answered(i, Replayed)
     ELSE Goto(i, "reserving") /\ UNCHANGED answer
  /\ UNCHANGED <<taskVars, agentVars, reservation, workerVars>>

\* RESERVE_AGENT_CLAIM; WAIT goes round through the replay until the deadline.
ReserveOutcome(i) ==
  IF current # NoTask THEN "AGENT_BUSY"
  ELSE IF reservation = NoReservation THEN "OWNER"
  ELSE IF reservation.status = "empty"
       THEN IF reservation.request = attempts[i].request THEN "EMPTY" ELSE "OWNER"
  ELSE IF reservation.request = attempts[i].request THEN "WAIT" ELSE "IN_FLIGHT"

Reserve(i) ==
  LET outcome == ReserveOutcome(i) IN
  /\ At(i, "reserving")
  /\ CASE outcome = "OWNER" -> Goto(i, "scanning") /\ UNCHANGED answer
       [] outcome = "EMPTY" -> Answered(i, Empty)
       [] outcome = "IN_FLIGHT" -> Answered(i, Refused)
       [] outcome = "AGENT_BUSY" -> Goto(i, "busy") /\ UNCHANGED answer
       [] outcome = "WAIT" -> UNCHANGED answer /\ \/ Goto(i, "arrived")
                                                  \/ Goto(i, "busy")
  /\ reservation' = IF outcome = "OWNER"
       THEN [request |-> attempts[i].request, attempt |-> i, status |-> "active"]
       ELSE reservation
  /\ UNCHANGED <<taskVars, agentVars, workerVars>>

\* The last replay before the call is refused as busy or in progress.
Busy(i) ==
  /\ At(i, "busy")
  /\ Answered(i, IF Stands(attempts[i].request) THEN Replayed ELSE Refused)
  /\ UNCHANGED <<taskVars, agentVars, reservation, workerVars>>

\* The scan of the running tasks for one that this agent claimed.
Scan(i) ==
  /\ At(i, "scanning")
  /\ Goto(i, IF \E t \in Tasks : status[t] = "running" THEN "busy" ELSE "choosing")
  /\ UNCHANGED <<taskVars, agentVars, reservation, answer, workerVars>>

Choose(i, t) ==
  /\ At(i, "choosing") /\ status[t] = "pending"
  /\ attempts' = [attempts EXCEPT ![i].phase = "committing", ![i].task = t]
  /\ UNCHANGED <<taskVars, agentVars, reservation, answer, workerVars>>

\* CLAIM_WITH_AGENT_EPOCH.  What it refuses as no longer pending, or because the
\* reservation is lost, lets the attempt look at further candidates.
CommitOutcome_Unreserved(i) ==
  LET t == attempts[i].task IN
  IF current # NoTask THEN "AGENT_BUSY"
  ELSE IF status[t] # "pending" THEN "TASK_NOT_PENDING"
  ELSE IF lease[t] # 0 THEN "LEASE_CHANGED"
  ELSE "CLAIMED"
CommitOutcome(i) ==
  LET t == attempts[i].task IN
  IF ~Owns(i) THEN "CLAIM_RESERVATION_LOST"
  ELSE IF current # NoTask THEN "AGENT_BUSY"
  ELSE IF status[t] # "pending" THEN "TASK_NOT_PENDING"
  ELSE IF lease[t] # 0 THEN "LEASE_CHANGED"
  ELSE "CLAIMED"

Commit(i) ==
  LET t == attempts[i].task
      outcome == CommitOutcome(i)
  IN /\ At(i, "committing")
     /\ IF outcome = "CLAIMED"
        THEN /\ status' = [status EXCEPT ![t] = "running"]
             /\ lease' = [lease EXCEPT ![t] = i]
             /\ current' = t
             /\ claimed' = [request |-> attempts[i].request, token |-> i, task |-> t]
             /\ reservation' = NoReservation
             /\ Answered(i, [token |-> i, task |-> t])
        ELSE /\ UNCHANGED <<taskVars, agentVars, reservation>>
             /\ IF outcome = "AGENT_BUSY" THEN Answered(i, Refused)
                ELSE Goto(i, "choosing") /\ UNCHANGED answer
     /\ UNCHANGED workerVars

\* No candidate is left, or the lost reservation was noticed.  A blocking claim
\* that was woken answers without another replay.
Exhaust(i) ==
  /\ At(i, "choosing")
  /\ ~Owns(i) \/ \A t \in Tasks : status[t] # "pending"
  /\ Goto(i, IF attempts[i].woken THEN "emptying" ELSE "closing")
  /\ UNCHANGED <<taskVars, agentVars, reservation, answer, workerVars>>

\* A blocking claim renews its reservation, waits for a task event ...
Block(i) ==
  /\ At(i, "choosing") /\ ~attempts[i].woken
  /\ IF Owns(i) THEN Goto(i, "blocked") /\ UNCHANGED answer ELSE Answered(i, Dropped)
  /\ UNCHANGED <<taskVars, agentVars, reservation, workerVars>>

\* ... and looks at the candidates again, without a scan.
Wake(i) ==
  /\ At(i, "blocked")
  /\ attempts' = [attempts EXCEPT ![i].phase = "choosing", ![i].woken = TRUE]
  /\ UNCHANGED <<taskVars, agentVars, reservation, answer, workerVars>>

\* COMPLETE_EMPTY_AGENT_CLAIM; its result is not looked at.
CompleteEmpty_Unowned(i) ==
  reservation' = IF reservation = NoReservation THEN [status |-> "empty"]
                 ELSE [reservation EXCEPT !.status = "empty"]
CompleteEmpty(i) ==
  reservation' = IF Owns(i) THEN [reservation EXCEPT !.status = "empty"] ELSE reservation

\* The client hung up on a blocking claim.
Abort(i) ==
  /\ At(i, "blocked")
  /\ CompleteEmpty(i)
  /\ Answered(i, Dropped)
  /\ UNCHANGED <<taskVars, agentVars, workerVars>>

Close(i) ==
  /\ At(i, "closing")
  /\ IF Stands(attempts[i].request) THEN Answered(i, Replayed)
     ELSE Goto(i, "emptying") /\ UNCHANGED answer
  /\ UNCHANGED <<taskVars, agentVars, reservation, workerVars>>

AnswerEmpty(i) ==
  /\ At(i, "emptying")
  /\ CompleteEmpty(i)
  /\ Answered(i, Empty)
  /\ UNCHANGED <<taskVars, agentVars, workerVars>>

ReservationLapses ==
  /\ reservation # NoReservation
  /\ reservation' = NoReservation
  /\ UNCHANGED <<taskVars, agentVars, callVars, workerVars>>

-----------------------------------------------------------------------------
(* The worker *)

Call(r) ==
  /\ sent < AttemptBound
  /\ sent' = sent + 1
  /\ awaited' = sent + 1
  /\ attempts' = [attempts EXCEPT ![sent + 1] =
       [request |-> r, phase |-> "arrived", task |-> NoTask, woken |-> FALSE]]

\* A new claim call gets a request id of its own ...
Send ==
  /\ awaited = 0 /\ work = NoAnswer /\ request < RequestBound
  /\ request' = request + 1
  /\ Call(request + 1)
  /\ UNCHANGED <<taskVars, agentVars, reservation, answer, work>>

\* ... and a repetition after a lost connection or a 5xx keeps it.
Retry ==
  /\ awaited # 0
  /\ Call(request)
  /\ UNCHANGED <<taskVars, agentVars, reservation, answer, request, work>>

GiveUp ==
  /\ awaited # 0
  /\ awaited' = 0
  /\ UNCHANGED <<taskVars, agentVars, reservation, callVars, sent, request, work>>

Receive ==
  /\ awaited # 0 /\ answer[awaited] # NoAnswer
  /\ work' = IF answer[awaited] \in {Empty, Refused, Dropped} THEN NoAnswer ELSE answer[awaited]
  /\ awaited' = 0
  /\ UNCHANGED <<taskVars, agentVars, reservation, callVars, sent, request>>

\* The heartbeat overwrites current_task with what the worker believes.
Heartbeat ==
  /\ current' = IF work = NoAnswer THEN NoTask ELSE work.task
  /\ UNCHANGED <<taskVars, claimed, reservation, callVars, workerVars>>

\* The report, accepted with a live token only; then the worker is free.
Report ==
  /\ work # NoAnswer
  /\ IF status[work.task] = "running" /\ lease[work.task] = work.token
     THEN /\ status' = [status EXCEPT ![work.task] = "closed"]
          /\ lease' = [lease EXCEPT ![work.task] = 0]
          /\ current' = IF current = work.task THEN NoTask ELSE current
     ELSE UNCHANGED <<taskVars, current>>
  /\ work' = NoAnswer
  /\ UNCHANGED <<claimed, reservation, callVars, sent, request, awaited>>

-----------------------------------------------------------------------------
(* The rest of the hub *)

Publish(t) ==
  /\ status[t] = "absent"
  /\ status' = [status EXCEPT ![t] = "pending"]
  /\ UNCHANGED <<lease, agentVars, reservation, callVars, workerVars>>

TakenByOther(t) ==
  /\ status[t] = "pending"
  /\ status' = [status EXCEPT ![t] = "closed"]
  /\ UNCHANGED <<lease, agentVars, reservation, callVars, workerVars>>

\* The lease ends by its TTL or by the supervisor's recovery.
LeaseEnds(t) ==
  /\ lease[t] # 0
  /\ lease' = [lease EXCEPT ![t] = 0]
  /\ UNCHANGED <<status, agentVars, reservation, callVars, workerVars>>

Reclaim(t) ==
  /\ status[t] = "running" /\ lease[t] = 0
  /\ status' = [status EXCEPT ![t] = "pending"]
  /\ current' = IF current = t THEN NoTask ELSE current
  /\ UNCHANGED <<lease, claimed, reservation, callVars, workerVars>>

AttemptNext ==
  \E i \in AttemptIds :
    \/ Arrive(i) \/ Reserve(i) \/ Busy(i) \/ Scan(i) \/ Commit(i) \/ Exhaust(i)
    \/ Block(i) \/ Wake(i) \/ Abort(i) \/ Close(i) \/ AnswerEmpty(i)
    \/ \E t \in Tasks : Choose(i, t)

WorkerNext == Send \/ Retry \/ GiveUp \/ Receive \/ Heartbeat \/ Report

HubNext ==
  \/ ReservationLapses
  \/ \E t \in Tasks : Publish(t) \/ TakenByOther(t) \/ LeaseEnds(t) \/ Reclaim(t)

Next == AttemptNext \/ WorkerNext \/ HubNext

Spec == Init /\ [][Next]_vars

-----------------------------------------------------------------------------
(* Properties *)

\* The agent never holds two running tasks.  The scan that looks for one and the
\* script that commits the claim are steps apart, the current_task pointer the
\* script looks at is overwritten by heartbeats, and attempts overtake each
\* other; the reservation must make up for all of that.
OneRunning ==
  \A s, t \in Tasks : status[s] = "running" /\ status[t] = "running" => s = t

\* A call is never refused as busy while the claim of its own request stands:
\* whatever attempt committed it, the others find and return it.
StandingClaimIsNotRefused ==
  [][\A i \in AttemptIds :
       answer[i] = NoAnswer /\ answer'[i] = Refused => ~Stands(attempts[i].request)]_vars

\* The calls of an agent, repeated and overtaking each other, amount to one claim.
CallsAreOneClaim == []OneRunning /\ StandingClaimIsNotRefused

\* README.md promises that a claim that was committed while its response got
\* lost is returned to the repeated request, not left until the lease expires.
LostResponseIsReplayed ==
  [][\A i \in AttemptIds :
       (/\ answer[i] = NoAnswer /\ answer'[i] = Refused
        /\ claimed # NoClaim /\ claimed.request = attempts[i].request)
         => lease[claimed.task] # claimed.token]_vars
=============================================================================
