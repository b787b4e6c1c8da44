---------------------------- MODULE NodeAttempts ----------------------------
(***************************************************************************)
(* Execution nodes and their attempts at a task of a project that runs on  *)
(* nodes: enrolment and revocation of a node, claims, leases, reports and  *)
(* cancels of attempts, and the recovery of an attempt whose node has gone *)
(* (a candidate is recorded for its workspace, and an operator takes the   *)
(* task over or discards it).  The handlers are synchronous over SQLite,   *)
(* so that each is one step; but the rows of a takeover are written one by *)
(* one, and the hub may stop between them.                                 *)
(*                                                                         *)
(* One task; its attempts are numbered by their generation.  The token of  *)
(* an attempt is good for the generation in the row of that attempt, which *)
(* never changes: whoever has got it can use it until it expires.          *)
(***************************************************************************)
EXTENDS Naturals, FiniteSets

CONSTANTS
  Nodes,
  AttemptBound,  \* bound on the attempts
  NodeBound      \* bound on the steps of operators for nodes and the project

ASSUME AttemptsAssumption == AttemptBound \in Nat /\ NodeBound \in Nat

VARIABLES
  node,       \* status of each node, and whether it holds its current credential
  session,    \* status of the newest session of each node
  bound,      \* nodes that may work for the project
  writable,   \* the write capability of the project
  task,       \* the task: its status and its active attempt, 0 if it has none
  attempt,    \* the attempts, by generation
  candidate,  \* the recovery candidates, by attempt
  nodeSteps

nodeVars == <<node, session, bound, writable, nodeSteps>>
workVars == <<task, attempt, candidate>>
attemptVars == <<nodeVars, workVars>>

Attempts == 1..AttemptBound
Made == {a \in Attempts : attempt[a].status # "none"}
NoAttempt == [status |-> "none", expired |-> FALSE]
Ended == {"done", "failed", "cancelled"}

NodeState == [status : {"unknown", "online", "draining", "offline", "quarantined"}, valid : BOOLEAN]
TaskState == [status : {"pending", "running", "done"}, active : {0} \cup Attempts]
AttemptState ==
  [status : {"none", "executing", "pending_recovery", "fenced"} \cup Ended, expired : BOOLEAN]
CandidateState ==
  [status : {"none", "pending", "decided", "resolved", "isolated"}, consumed : BOOLEAN]

NodeTypes ==
  /\ node \in [Nodes -> NodeState] /\ session \in [Nodes -> {"none", "active", "fenced"}]
  /\ bound \subseteq Nodes /\ writable \in BOOLEAN /\ nodeSteps \in 0..NodeBound

\* The generations of the attempts follow one another.
WorkTypes ==
  /\ task \in TaskState
  /\ attempt \in [Attempts -> AttemptState] /\ \E n \in 0..AttemptBound : Made = 1..n
  /\ candidate \in [Attempts -> CandidateState]

AttemptsTypeOK == NodeTypes /\ WorkTypes

NodesInit ==
  /\ node = [n \in Nodes |-> [status |-> "unknown", valid |-> FALSE]]
  /\ session = [n \in Nodes |-> "none"]
  /\ bound = Nodes /\ writable = TRUE
  /\ task = [status |-> "pending", active |-> 0]
  /\ attempt = [a \in Attempts |-> NoAttempt]
  /\ candidate = [a \in Attempts |-> [status |-> "none", consumed |-> FALSE]]
  /\ nodeSteps = 0

-----------------------------------------------------------------------------
(* Nodes.  A definition named X_What is a faulty variant of X.             *)

NodeStep == nodeSteps < NodeBound /\ nodeSteps' = nodeSteps + 1 /\ UNCHANGED workVars
Becomes(n, status) == node' = [node EXCEPT ![n].status = status]

\* A new credential; the ones the node had before are of an older generation.
Enroll(n) ==
  /\ nodeSteps < NodeBound \/ node[n].status = "unknown"
  /\ node' = [node EXCEPT ![n] = [status |-> "online", valid |-> TRUE]]
  /\ nodeSteps' = IF node[n].status = "unknown" THEN nodeSteps ELSE nodeSteps + 1
  /\ UNCHANGED <<session, bound, writable, workVars>>

\* The session before is fenced; neither the status nor a credential is looked at.
Register(n) ==
  /\ node[n].status # "unknown" /\ Becomes(n, "online")
  /\ session' = [session EXCEPT ![n] = "active"]
  /\ UNCHANGED <<bound, writable, nodeSteps, workVars>>

Drain(n) ==
  /\ node[n].status # "unknown" /\ Becomes(n, "draining") /\ NodeStep
  /\ UNCHANGED <<session, bound, writable>>

GoOffline(n) ==
  /\ node[n].status # "unknown" /\ node[n].valid /\ Becomes(n, "offline") /\ NodeStep
  /\ UNCHANGED <<session, bound, writable>>

Revoke(n) ==
  /\ node[n].status # "unknown" /\ NodeStep
  /\ node' = [node EXCEPT ![n] = [status |-> "quarantined", valid |-> FALSE]]
  /\ session' = [session EXCEPT ![n] = IF @ = "active" THEN "fenced" ELSE @]
  /\ UNCHANGED <<bound, writable>>

\* The operator gets the new credential, and gives it to the node or not.
Rotate(n) ==
  /\ node[n].status # "unknown" /\ NodeStep
  /\ \E v \in BOOLEAN : node' = [node EXCEPT ![n].valid = v]
  /\ session' = [session EXCEPT ![n] = "active"]
  /\ UNCHANGED <<bound, writable>>

Authorize(n) ==
  /\ NodeStep /\ bound' \in {bound \cup {n}, bound \ {n}}
  /\ UNCHANGED <<node, session, writable>>

\* Pushes of the project were refused by the access rules too often: its attempts are
\* fenced, and the task stays as it is.
BreakCircuit ==
  /\ nodeSteps < NodeBound /\ nodeSteps' = nodeSteps + 1 /\ writable' = FALSE
  /\ attempt' = [a \in Attempts |-> IF attempt[a].status = "executing"
                                    THEN [attempt[a] EXCEPT !.status = "fenced"] ELSE attempt[a]]
  /\ UNCHANGED <<node, session, bound, task, candidate>>

\* The project is on its way to read-only.
FenceAttempts ==
  /\ nodeSteps < NodeBound /\ nodeSteps' = nodeSteps + 1
  /\ attempt' = [a \in Attempts |-> IF attempt[a].status = "executing"
                                    THEN [attempt[a] EXCEPT !.status = "pending_recovery"] ELSE attempt[a]]
  /\ UNCHANGED <<node, session, bound, writable, task, candidate>>

RestoreWrites ==
  /\ ~writable /\ writable' = TRUE /\ NodeStep /\ UNCHANGED <<node, session, bound>>

-----------------------------------------------------------------------------
(* Attempts.                                                               *)

\* A task that is not pending is claimed when the node asks for it by its name.
NoneActive_Expired == \A a \in Made : attempt[a].status = "executing" => attempt[a].expired
NoneActive == \A a \in Made : attempt[a].status # "executing"
Claim(n) ==
  /\ node[n].valid /\ node[n].status \in {"online", "draining"} /\ n \in bound /\ writable
  /\ task.status # "done" /\ NoneActive
  /\ \E a \in Attempts \ Made :
       /\ \A b \in Attempts \ Made : a <= b
       /\ attempt' = [attempt EXCEPT ![a].status = "executing"]
       /\ task' = [status |-> "running", active |-> a]
  /\ UNCHANGED <<candidate, nodeVars>>

\* A renewal is refused for a fenced or cancelled attempt only.
Renew(a) ==
  /\ attempt[a].status \notin {"none", "fenced", "cancelled"}
  /\ attempt' = [attempt EXCEPT ![a].expired = FALSE]
  /\ UNCHANGED <<task, candidate, nodeVars>>

Expire(a) ==
  /\ a \in Made /\ attempt' = [attempt EXCEPT ![a].expired = TRUE]
  /\ UNCHANGED <<task, candidate, nodeVars>>

\* Whatever the attempt and the task are by now: the row of the task is written from
\* the report, without its active attempt.
Report(a) ==
  /\ a \in Made
  /\ \E s \in {"done", "failed"} :
       /\ attempt' = [attempt EXCEPT ![a].status = s]
       /\ task' = [task EXCEPT !.status = IF s = "done" THEN "done" ELSE "pending"]
  /\ UNCHANGED <<candidate, nodeVars>>

Cancel(a) ==
  /\ a \in Made /\ attempt[a].status \notin Ended
  /\ attempt' = [attempt EXCEPT ![a].status = "cancelled"]
  /\ task' = [task EXCEPT !.status = "pending"]
  /\ UNCHANGED <<candidate, nodeVars>>

-----------------------------------------------------------------------------
(* Recovery.                                                               *)

\* The lease is over and the workspace was left half-way, which is not modelled here.
Scan(a) ==
  /\ a \in Made /\ attempt[a].expired /\ candidate[a].status = "none"
  /\ candidate' = [candidate EXCEPT ![a].status = "pending"]
  /\ UNCHANGED <<task, attempt, nodeVars>>

\* The task is given back only while the attempt is still its active one.
Releases_Always(a) == task.status # "done"
Releases(a) == task.active = a /\ task.status # "done"

\* The decision, the fencing of the attempt, the release of the task and the end of the
\* decision are written one after another, up to where the hub stops; a decision of an
\* earlier call is kept.  A lease that has not expired ends the call.
Takeover(a, upTo) ==
  LET held == attempt[a].status = "executing" /\ ~attempt[a].expired
      fences == ~held /\ upTo # "decide"
      releases == fences /\ upTo # "fence" /\ Releases(a) IN
  /\ candidate[a].status \in {"pending", "decided"}
  /\ candidate' = [candidate EXCEPT ![a].status = "decided",
                     ![a].consumed = @ \/ (~held /\ upTo = "end")]
  /\ attempt' = [attempt EXCEPT ![a].status =
                   IF fences /\ @ = "executing" THEN "pending_recovery" ELSE @]
  /\ task' = IF releases THEN [status |-> "pending", active |-> 0] ELSE task
  /\ UNCHANGED nodeVars

Discard(a) ==
  /\ candidate[a].status \in {"pending", "decided"}
  /\ candidate' = [candidate EXCEPT ![a] = [status |-> "resolved", consumed |-> TRUE]]
  /\ UNCHANGED <<task, attempt, nodeVars>>

Isolate(a) ==
  /\ candidate[a].status \notin {"none", "isolated"}
  /\ candidate' = [candidate EXCEPT ![a].status = "isolated"]
  /\ UNCHANGED <<task, attempt, nodeVars>>

OfNode(n) ==
  \/ Enroll(n) \/ Register(n) \/ Drain(n) \/ GoOffline(n) \/ Revoke(n) \/ Rotate(n)
  \/ Authorize(n) \/ Claim(n)
OfAttempt(a) ==
  \/ Renew(a) \/ Expire(a) \/ Report(a) \/ Cancel(a) \/ Scan(a)
  \/ \E p \in {"decide", "fence", "release", "end"} : Takeover(a, p)
  \/ Discard(a) \/ Isolate(a)
NodesNext ==
  \/ \E n \in Nodes : OfNode(n)
  \/ \E a \in Attempts : OfAttempt(a)
  \/ BreakCircuit \/ FenceAttempts \/ RestoreWrites
NodesSpec == NodesInit /\ [][NodesNext]_attemptVars

-----------------------------------------------------------------------------
(* Properties.                                                             *)

Executing == {a \in Attempts : attempt[a].status = "executing"}

\* A takeover, resumed as often as it may be, leaves the task to an attempt that was
\* made since.
TakeoverSparesNewer ==
  [][\A a \in Attempts :
       (\E p \in {"decide", "fence", "release", "end"} : Takeover(a, p)) /\ Executing \ {a} # {}
         => task' = task]_attemptVars

\* Attempts at a task follow one another, whatever becomes of their nodes: however often
\* it is cancelled, failed, taken over and claimed again, only one is executing.
AttemptsAreSafe == [](Cardinality(Executing) <= 1) /\ TakeoverSparesNewer

\* Once there is a newer attempt, an older one cannot report any more
\* (docs/distributed-multi-node-development-plan.md, 8.3 and 13.5).
OldAttemptIsFenced ==
  [][\A a \in Attempts : (\E b \in Made : b > a) /\ Report(a) => task' = task]_attemptVars
=============================================================================
