---------------------------- MODULE TaskLifecycle ----------------------------
(***************************************************************************)
(* The life of a task in the hub: claim, lease, report, reclaim, reset and *)
(* cancel, against worker processes whose calls and heartbeats arrive late.*)
(*                                                                         *)
(* The hub is stateless: everything below the first comment is a Redis     *)
(* key.  A Lua script or a WATCH/MULTI commit is one action.  A handler    *)
(* that reads, decides in JavaScript and only then writes is two actions,  *)
(* with what it read kept in cancelling, resetting or exposing.            *)
(*                                                                         *)
(* Time is abstract.  deadline[t] says how the expiry of t looks to the    *)
(* hub: "future", "exposed" (the running score was pulled to now, the hash *)
(* field expire_at was not) or "past" (both lie behind).  The lease key's  *)
(* TTL starts after expire_at was computed, so it never ends before it.    *)
(***************************************************************************)
EXTENDS Naturals, FiniteSets

CONSTANTS
  Tasks,              \* task ids
  Agents,             \* agent ids
  NoTask, NoAgent,    \* the empty string in current_task and in claimed_by
  NoGrant, NoMessage, NoReset,
  MaxRetries,         \* the task field max_retries (2 when absent)
  ClaimBound,         \* bound on the claims granted in one behaviour
  SessionBound,       \* bound on the registrations of one agent
  RetryBound          \* bound on retries a reset may count up to

ASSUME SentinelAssumption == NoTask \notin Tasks /\ NoAgent \notin Agents
ASSUME BoundAssumption ==
  /\ MaxRetries \in Nat
  /\ ClaimBound \in Nat
  /\ SessionBound \in Nat
  /\ RetryBound \in Nat

VARIABLES
  \* the task hash, the status zsets, the lease key
  status, indexed, claimedBy, lease, deadline, doneAt, retries,
  \* the agent hash: registration generation, status, current_task
  registration, presence, current,
  \* handlers between their read and their write
  cancelling, resetting, exposing,
  \* claim tokens handed out, the ones a worker received
  issued, delivered,
  \* the live worker process of an agent: generation, response in flight,
  \* grant it works on, heartbeat in flight
  session, reply, hold, beat

taskVars   == <<status, indexed, claimedBy, lease, deadline, doneAt, retries>>
agentVars  == <<registration, presence, current>>
handlers   == <<cancelling, resetting, exposing>>
workerVars == <<session, reply, hold, beat>>
vars == <<taskVars, agentVars, handlers, issued, delivered, workerVars>>

Status   == {"pending", "running", "done", "failed", "cancelled"}
Presence == {"unknown", "idle", "busy", "offline"}
Deadline == {"future", "exposed", "past"}

\* What a successful claim returns to the worker.
Grant == [token : Nat, task : Tasks, agent : Agents]

\* A heartbeat: the sender's registration and the task it believes to run.
Beat == [generation : Nat, task : Tasks \cup {NoTask}]

\* The snapshot a reset compares with at its commit.
ResetRound == [status : {"running", "done", "failed"}, doneAt : Nat, retries : Nat]

TypeOK ==
  /\ status \in [Tasks -> Status]
  /\ indexed \in [Tasks -> SUBSET Status]
  /\ claimedBy \in [Tasks -> Agents \cup {NoAgent}]
  /\ lease \in [Tasks -> Nat]
  /\ deadline \in [Tasks -> Deadline]
  /\ doneAt \in [Tasks -> Nat]
  /\ retries \in [Tasks -> Nat]
  /\ registration \in [Agents -> Nat]
  /\ presence \in [Agents -> Presence]
  /\ current \in [Agents -> Tasks \cup {NoTask}]
  /\ cancelling \in SUBSET Tasks
  /\ resetting \in [Tasks -> ResetRound \cup {NoReset}]
  /\ exposing \in [Tasks -> Agents \cup {NoAgent}]
  /\ issued \in Nat
  /\ delivered \in SUBSET Grant
  /\ session \in [Agents -> Nat]
  /\ reply \in [Agents -> Grant \cup {NoGrant}]
  /\ hold \in [Agents -> Grant \cup {NoGrant}]
  /\ beat \in [Agents -> Beat \cup {NoMessage}]

\* Plan submission has published every task; no agent has registered yet.
Init ==
  /\ status = [t \in Tasks |-> "pending"]
  /\ indexed = [t \in Tasks |-> {"pending"}]
  /\ claimedBy = [t \in Tasks |-> NoAgent]
  /\ lease = [t \in Tasks |-> 0]
  /\ deadline = [t \in Tasks |-> "past"]
  /\ doneAt = [t \in Tasks |-> 0]
  /\ retries = [t \in Tasks |-> 0]
  /\ registration = [a \in Agents |-> 0]
  /\ presence = [a \in Agents |-> "unknown"]
  /\ current = [a \in Agents |-> NoTask]
  /\ cancelling = {}
  /\ resetting = [t \in Tasks |-> NoReset]
  /\ exposing = [t \in Tasks |-> NoAgent]
  /\ issued = 0
  /\ delivered = {}
  /\ session = [a \in Agents |-> 0]
  /\ reply = [a \in Agents |-> NoGrant]
  /\ hold = [a \in Agents |-> NoGrant]
  /\ beat = [a \in Agents |-> NoMessage]

-----------------------------------------------------------------------------
(* Helpers.  A definition named X_What is a faulty variant of X: the README  *)
(* says which property notices it.                                           *)

\* ZREM from the old status sets and ZADD to the new one.
Moved_Added(t, from, to) == [indexed EXCEPT ![t] = @ \cup {to}]
Moved(t, from, to) == [indexed EXCEPT ![t] = (@ \ from) \cup {to}]

\* The agent hash is cleared only when it still points at this task.
Released(a, t) == a # NoAgent /\ current[a] = t
ClearCurrent_Misnamed(a, t) ==
  /\ current' = IF Released(a, t) THEN [current EXCEPT ![a] = NoTask] ELSE current
  /\ presence' = IF Released(a, t) THEN [presence EXCEPT ![a] = "ready"] ELSE presence
ClearCurrent(a, t) ==
  /\ current' = IF Released(a, t) THEN [current EXCEPT ![a] = NoTask] ELSE current
  /\ presence' = IF Released(a, t) THEN [presence EXCEPT ![a] = "idle"] ELSE presence

-----------------------------------------------------------------------------
(* Worker sessions and presence *)

\* A worker process starts under agent id a with a fresh registration id.  An
\* earlier process of the same id may still run: what it received stays in
\* delivered, and its heartbeat may still be under way.
Register(a) ==
  /\ session[a] < SessionBound
  /\ session' = [session EXCEPT ![a] = session[a] + 1]
  /\ registration' = [registration EXCEPT ![a] = session[a] + 1]
  /\ presence' = [presence EXCEPT ![a] = "idle"]
  /\ current' = [current EXCEPT ![a] = NoTask]
  /\ reply' = [reply EXCEPT ![a] = NoGrant]
  /\ hold' = [hold EXCEPT ![a] = NoGrant]
  /\ UNCHANGED <<taskVars, handlers, issued, delivered, beat>>

\* The process ends and says so.  A task that is still running keeps its
\* current_task pointer, so that the stale execution stays visible.
Offline(a) ==
  /\ session[a] > 0 /\ presence[a] # "offline"
  /\ presence' = [presence EXCEPT ![a] = "offline"]
  /\ current' = IF current[a] # NoTask /\ status[current[a]] = "running"
                THEN current ELSE [current EXCEPT ![a] = NoTask]
  /\ reply' = [reply EXCEPT ![a] = NoGrant]
  /\ hold' = [hold EXCEPT ![a] = NoGrant]
  /\ UNCHANGED <<taskVars, registration, handlers, issued, delivered, session, beat>>

\* One heartbeat is under way at a time; a second one is not sent but dropped.
Sent(a, task) ==
  IF beat[a] = NoMessage
  THEN [beat EXCEPT ![a] = [generation |-> session[a], task |-> task]]
  ELSE beat

\* The heartbeat timer, which also runs while a claim call is outstanding.
SendBeat(a) ==
  /\ session[a] > 0 /\ beat[a] = NoMessage
  /\ beat' = Sent(a, IF hold[a] = NoGrant THEN NoTask ELSE hold[a].task)
  /\ UNCHANGED <<taskVars, agentVars, handlers, issued, delivered, session, reply, hold>>

\* The hub overwrites presence with what the heartbeat says, if its epoch is current.
ReceiveBeat(a) ==
  LET m == beat[a]
      accepted == m.generation = registration[a] /\ presence[a] # "offline"
  IN /\ m # NoMessage
     /\ beat' = [beat EXCEPT ![a] = NoMessage]
     /\ current' = IF accepted THEN [current EXCEPT ![a] = m.task] ELSE current
     /\ presence' = IF accepted
                    THEN [presence EXCEPT ![a] = IF m.task = NoTask THEN "idle" ELSE "busy"]
                    ELSE presence
     /\ UNCHANGED <<taskVars, registration, handlers, issued, delivered, session, reply, hold>>

-----------------------------------------------------------------------------
(* Claim, renew, report *)

\* The scan of the running zset that refuses a second task to a busy agent.
OwnsIndexedRunning_ByPresence(a) == presence[a] = "busy"
OwnsIndexedRunning(a) == \E t \in Tasks : "running" \in indexed[t] /\ claimedBy[t] = a

\* The conditions the claim script checks on the agent and on the task.
Claimable(a, t) ==
  /\ session[a] > 0 /\ session[a] = registration[a]
  /\ presence[a] # "offline"
  /\ current[a] = NoTask
  /\ status[t] = "pending" /\ "pending" \in indexed[t]
  /\ lease[t] = 0

Claim(a, t) ==
  LET g == [token |-> issued + 1, task |-> t, agent |-> a]
  IN /\ issued < ClaimBound
     /\ hold[a] = NoGrant /\ reply[a] = NoGrant
     /\ ~OwnsIndexedRunning(a)
     /\ Claimable(a, t)
     /\ issued' = g.token
     /\ lease' = [lease EXCEPT ![t] = g.token]
     /\ status' = [status EXCEPT ![t] = "running"]
     /\ indexed' = Moved(t, {"pending"}, "running")
     /\ claimedBy' = [claimedBy EXCEPT ![t] = a]
     /\ deadline' = [deadline EXCEPT ![t] = "future"]
     /\ current' = [current EXCEPT ![a] = t]
     /\ presence' = [presence EXCEPT ![a] = "busy"]
     /\ reply' = [reply EXCEPT ![a] = g]
     /\ UNCHANGED <<doneAt, retries, registration, handlers, delivered, session, hold, beat>>

\* The claim response reaches the worker, which starts and sends a heartbeat
\* unless one is still under way.
StartWork(a) ==
  /\ reply[a] # NoGrant
  /\ hold' = [hold EXCEPT ![a] = reply[a]]
  /\ delivered' = delivered \cup {reply[a]}
  /\ reply' = [reply EXCEPT ![a] = NoGrant]
  /\ beat' = Sent(a, reply[a].task)
  /\ UNCHANGED <<taskVars, agentVars, handlers, issued, session>>

\* The worker is through with its task: reported, refused, or given up.
EndWork(a) ==
  /\ hold[a] # NoGrant
  /\ hold' = [hold EXCEPT ![a] = NoGrant]
  /\ beat' = Sent(a, NoTask)
  /\ UNCHANGED <<taskVars, agentVars, handlers, issued, delivered, session, reply>>

\* A report must carry the lease of a running task and name its claimant; a
\* renewal names nobody.
Authorised_ByAgent(g) == status[g.task] = "running" /\ claimedBy[g.task] = g.agent
Authorised(g) ==
  /\ lease[g.task] = g.token
  /\ status[g.task] = "running"
  /\ claimedBy[g.task] = g.agent

Renew_Regrant(g) ==
  /\ status[g.task] = "running" /\ claimedBy[g.task] = g.agent
  /\ lease' = [lease EXCEPT ![g.task] = g.token]
  /\ deadline' = [deadline EXCEPT ![g.task] = "future"]
  /\ UNCHANGED <<status, indexed, claimedBy, doneAt, retries, agentVars, handlers,
                 issued, delivered, workerVars>>
Renew(g) ==
  /\ lease[g.task] = g.token
  /\ status[g.task] = "running" /\ claimedBy[g.task] # NoAgent
  /\ deadline' = [deadline EXCEPT ![g.task] = "future"]
  /\ indexed' = [indexed EXCEPT ![g.task] = @ \cup {"running"}]
  /\ UNCHANGED <<status, claimedBy, lease, doneAt, retries, agentVars, handlers,
                 issued, delivered, workerVars>>

\* done_at is the time of the commit; the token stands for that instant.
Report(g, outcome) ==
  /\ Authorised(g)
  /\ lease' = [lease EXCEPT ![g.task] = 0]
  /\ status' = [status EXCEPT ![g.task] = outcome]
  /\ indexed' = Moved(g.task, {"running"}, outcome)
  /\ doneAt' = [doneAt EXCEPT ![g.task] = g.token]
  /\ ClearCurrent(g.agent, g.task)
  /\ UNCHANGED <<claimedBy, deadline, retries, registration, handlers, issued,
                 delivered, workerVars>>

-----------------------------------------------------------------------------
(* Time, and the supervisor's recovery of stale work *)

TimeUp(t) ==
  /\ status[t] = "running" /\ deadline[t] # "past"
  /\ deadline' = [deadline EXCEPT ![t] = "past"]
  /\ UNCHANGED <<status, indexed, claimedBy, lease, doneAt, retries, agentVars,
                 handlers, issued, delivered, workerVars>>

LeaseExpires(t) ==
  /\ lease[t] # 0 /\ deadline[t] = "past"
  /\ lease' = [lease EXCEPT ![t] = 0]
  /\ UNCHANGED <<status, indexed, claimedBy, deadline, doneAt, retries, agentVars,
                 handlers, issued, delivered, workerVars>>

\* A supervisor tick reads a running task and the agent that claimed it ...
ExposeRead(t) ==
  /\ exposing[t] = NoAgent
  /\ "running" \in indexed[t] /\ status[t] = "running" /\ claimedBy[t] # NoAgent
  /\ exposing' = [exposing EXCEPT ![t] = claimedBy[t]]
  /\ UNCHANGED <<taskVars, agentVars, cancelling, resetting, issued, delivered, workerVars>>

\* The agent no longer works on t.
Orphaned_ByPointer(t, a) == lease[t] # 0 /\ current[a] # t
Orphaned(t, a) == lease[t] # 0 /\ (current[a] # t \/ presence[a] = "offline")

\* ... and then, in one script, looks at that agent's hash: a lease whose agent
\* is offline or points elsewhere is deleted and the task made reclaimable.
ExposeCommit(t) ==
  LET a == exposing[t]
      exposed == status[t] = "running" /\ (lease[t] = 0 \/ Orphaned(t, a))
  IN /\ a # NoAgent
     /\ exposing' = [exposing EXCEPT ![t] = NoAgent]
     /\ lease' = IF exposed THEN [lease EXCEPT ![t] = 0] ELSE lease
     /\ deadline' = IF exposed /\ deadline[t] = "future"
                    THEN [deadline EXCEPT ![t] = "exposed"] ELSE deadline
     /\ indexed' = IF exposed THEN [indexed EXCEPT ![t] = @ \cup {"running"}] ELSE indexed
     /\ UNCHANGED <<status, claimedBy, doneAt, retries, agentVars, cancelling,
                    resetting, issued, delivered, workerVars>>

\* No lease, and the running score has passed.
Reclaimable_ByScore(t) == status[t] = "running" /\ deadline[t] # "future"
Reclaimable(t) ==
  /\ "running" \in indexed[t] /\ status[t] = "running"
  /\ lease[t] = 0 /\ deadline[t] # "future"

\* The reclaim script: back to pending, or failed once the retries are used up.
Reclaim(t) ==
  LET a == claimedBy[t]
      next == IF retries[t] + 1 > MaxRetries THEN "failed" ELSE "pending"
  IN /\ Reclaimable(t) /\ a # NoAgent
     /\ status' = [status EXCEPT ![t] = next]
     /\ indexed' = Moved(t, {"running", "pending", "failed"}, next)
     /\ retries' = [retries EXCEPT ![t] = @ + 1]
     /\ claimedBy' = [claimedBy EXCEPT ![t] = NoAgent]
     /\ deadline' = [deadline EXCEPT ![t] = "past"]
     /\ ClearCurrent(a, t)
     /\ UNCHANGED <<lease, doneAt, registration, handlers, issued, delivered, workerVars>>

-----------------------------------------------------------------------------
(* The operator's cancel and reset *)

CancelRead(t) ==
  /\ status[t] = "pending" /\ t \notin cancelling
  /\ cancelling' = cancelling \cup {t}
  /\ UNCHANGED <<taskVars, agentVars, resetting, exposing, issued, delivered, workerVars>>

\* The MULTI of cancelTask is unconditional.
CancelCommit_Unclaiming(t) ==
  /\ t \in cancelling
  /\ cancelling' = cancelling \ {t}
  /\ status' = [status EXCEPT ![t] = "cancelled"]
  /\ claimedBy' = [claimedBy EXCEPT ![t] = NoAgent]
  /\ UNCHANGED <<indexed, lease, deadline, doneAt, retries, agentVars, resetting,
                 exposing, issued, delivered, workerVars>>
CancelCommit(t) ==
  /\ t \in cancelling
  /\ cancelling' = cancelling \ {t}
  /\ status' = [status EXCEPT ![t] = "cancelled"]
  /\ indexed' = Moved(t, {"pending"}, "cancelled")
  /\ UNCHANGED <<claimedBy, lease, deadline, doneAt, retries, agentVars, resetting,
                 exposing, issued, delivered, workerVars>>

\* The checks of taskResetLocked under the task's decision lock; done and
\* failed tasks are reset with force.
ResetRead(t) ==
  /\ resetting[t] = NoReset
  /\ retries[t] < RetryBound
  /\ status[t] \in {"running", "done", "failed"}
  /\ status[t] = "running" => lease[t] = 0 /\ deadline[t] = "past"
  /\ resetting' = [resetting EXCEPT ![t] =
       [status |-> status[t], doneAt |-> doneAt[t], retries |-> retries[t]]]
  /\ UNCHANGED <<taskVars, agentVars, cancelling, exposing, issued, delivered, workerVars>>

SameRound_Unchecked(t) == TRUE
SameRound(t) == status[t] = resetting[t].status /\ doneAt[t] = resetting[t].doneAt

ResetCommit(t) ==
  /\ resetting[t] # NoReset
  /\ resetting' = [resetting EXCEPT ![t] = NoReset]
  /\ IF SameRound(t)
     THEN /\ status' = [status EXCEPT ![t] = "pending"]
          /\ indexed' = Moved(t, {resetting[t].status}, "pending")
          /\ claimedBy' = [claimedBy EXCEPT ![t] = NoAgent]
          /\ lease' = [lease EXCEPT ![t] = 0]
          /\ deadline' = [deadline EXCEPT ![t] = "past"]
          /\ doneAt' = [doneAt EXCEPT ![t] = 0]
          /\ retries' = [retries EXCEPT ![t] = resetting[t].retries + 1]
     ELSE UNCHANGED taskVars
  /\ UNCHANGED <<agentVars, cancelling, exposing, issued, delivered, workerVars>>

-----------------------------------------------------------------------------

WorkerNext ==
  \/ \E a \in Agents : Register(a) \/ Offline(a) \/ SendBeat(a) \/ ReceiveBeat(a)
                       \/ StartWork(a) \/ EndWork(a)
  \/ \E a \in Agents, t \in Tasks : Claim(a, t)
  \/ \E g \in delivered : Renew(g) \/ Report(g, "done") \/ Report(g, "failed")

HubNext ==
  \E t \in Tasks : TimeUp(t) \/ LeaseExpires(t) \/ ExposeRead(t) \/ ExposeCommit(t)
                   \/ Reclaim(t)

OperatorNext ==
  \E t \in Tasks : CancelRead(t) \/ CancelCommit(t) \/ ResetRead(t) \/ ResetCommit(t)

Next == WorkerNext \/ HubNext \/ OperatorNext

Spec == Init /\ [][Next]_vars

\* Every supervisor tick runs the recovery over all running tasks, and handlers
\* that have read go on to their commit.
Fairness ==
  \A t \in Tasks : WF_vars(ExposeRead(t)) /\ WF_vars(ExposeCommit(t)) /\ WF_vars(Reclaim(t))

FairSpec == Spec /\ Fairness

-----------------------------------------------------------------------------
(* Properties *)

\* An agent holds at most one running task, although heartbeats overwrite the
\* current_task field the claim script relies on (claim's scan of the running
\* zset, docs/worker-integration.md:221).
OneTaskPerAgent ==
  \A s, t \in Tasks :
    status[s] = "running" /\ status[t] = "running" /\ claimedBy[s] = claimedBy[t]
      => s = t

\* Every grant the workers can know of.
Known == delivered \cup {reply[a] : a \in {b \in Agents : reply[b] # NoGrant}}

\* A lease belongs to the newest grant of its task: once a task was claimed
\* again, no older token is ever accepted by renew or report.
OldClaimsAreFenced ==
  \A g \in Known : lease[g.task] # 0 => g.token <= lease[g.task]

\* The grant behind a lease names the claimant in the task hash, whatever
\* reset, reclaim and cancel did in between.
LeaseNamesClaimant ==
  \A g \in Known : lease[g.task] = g.token => claimedBy[g.task] = g.agent

\* The status zsets agree with the hash, the cancelled tasks aside: their
\* MULTI removes the task from no other set than pending.
IndexFollowsStatus ==
  \A t \in Tasks : status[t] # "cancelled" => indexed[t] = {status[t]}

\* A task without a claimant is never running and nothing keeps its lease.
UnclaimedHasNoLease ==
  \A t \in Tasks : claimedBy[t] = NoAgent => lease[t] = 0 /\ status[t] # "running"

\* Hash, lease and zsets tell the same of a task (claim, reset, reclaim and cancel
\* each write all three).
ViewsAgree == LeaseNamesClaimant /\ IndexFollowsStatus /\ UnclaimedHasNoLease

\* Tokens are handed out in order, from 1 on; 0 stands for a missing lease.
TokensAreIssued ==
  /\ \A g \in Known : g.token \in 1 .. issued
  /\ \A t \in Tasks : lease[t] <= issued

\* The inductive invariant behind the safety theorems.
Inv ==
  /\ TypeOK
  /\ TokensAreIssued
  /\ OldClaimsAreFenced
  /\ LeaseNamesClaimant
  /\ IndexFollowsStatus
  /\ UnclaimedHasNoLease
  /\ OneTaskPerAgent

\* A delivered result stands until an operator resets the task: the done and
\* failed rounds are left only to pending or by a cancel that read too early,
\* and a cancelled task is never revived.
ResultsStand ==
  [][\A t \in Tasks :
       /\ status[t] = "cancelled" => status'[t] = "cancelled"
       /\ status[t] \in {"done", "failed"} /\ status'[t] # status[t]
            => \/ status'[t] = "pending" /\ resetting[t] # NoReset
               \/ status'[t] = "cancelled" /\ t \in cancelling]_vars

\* What a worker completes counts for the claim it was granted: no report of
\* an earlier claim closes a task that was granted again.
ClosedByNewest(t) ==
  doneAt'[t] = lease[t] /\ \A g \in Known : g.task = t => g.token <= doneAt'[t]
RetriesUsedUp(t) == status'[t] = "failed" /\ lease[t] = 0 /\ retries'[t] > MaxRetries
ReportClosesNewestClaim ==
  [][\A t \in Tasks : status[t] = "running" /\ status'[t] \in {"done", "failed"}
       => ClosedByNewest(t) \/ RetriesUsedUp(t)]_vars

\* A task is closed by the newest claim, and its result is not undone behind the operator.
ResultsAreSafe == ResultsStand /\ ReportClosesNewestClaim

\* A running task whose agent has gone offline is taken back by the
\* supervisor's ticks, however often a surviving process renews the lease.
OfflineWorkIsRecovered ==
  \A t \in Tasks, a \in Agents :
    (status[t] = "running" /\ claimedBy[t] = a /\ presence[a] = "offline")
      ~> (status[t] # "running" \/ claimedBy[t] # a \/ presence[a] # "offline")

\* cancelTask documents that it only withdraws pending tasks.
OnlyPendingIsCancelled ==
  [][\A t \in Tasks : status'[t] = "cancelled" /\ status[t] # "cancelled"
       => status[t] = "pending"]_vars

\* taskReset documents that a live lease is never interrupted.
ResetSparesLiveLease ==
  [][\A t \in Tasks : status[t] = "running" /\ lease[t] # 0 => status'[t] # "pending"]_vars

\* The supervisor took the lease of t away while it was not due.
TakenAway(t) ==
  /\ status[t] = "running" /\ status'[t] = "running"
  /\ lease[t] # 0 /\ lease'[t] = 0
  /\ deadline[t] # "past"

\* The recovery documents that the agent whose lease it deletes has been fenced
\* by a newer registration.
OnlyFencedWorkIsExposed ==
  [][\A t \in Tasks, a \in Agents :
       TakenAway(t) /\ claimedBy[t] = a
         => \/ presence[a] = "offline"
            \/ ~(hold[a] # NoGrant /\ hold[a].task = t /\ hold[a].token = lease[t])]_vars

-----------------------------------------------------------------------------
(* The abstract specification *)

Promise ==
  INSTANCE WorkAssignment
  WITH stage <- status, holder <- claimedBy, ticket <- lease, result <- doneAt

\* Whatever agents, late calls, recovery and operators do to a task is, in the
\* hub's own record of it, one of the steps WorkAssignment allows: in particular
\* a lease is fresh when it appears, and only the valid one closes the task.
ImplementsAssignment == Promise!AssignmentSpec
=============================================================================
