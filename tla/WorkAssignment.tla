---------------------------- MODULE WorkAssignment ----------------------------
(***************************************************************************)
(* What the hub promises about the work it hands out, without agents that  *)
(* heartbeat, handlers that read first and write later, or calls that      *)
(* arrive late.  Work on a task is granted under a fresh ticket, to one    *)
(* holder that has no other work; only the ticket that is still valid can  *)
(* finish it; a ticket that was revoked never becomes valid again.         *)
(*                                                                         *)
(* TaskLifecycle implements this specification.                            *)
(***************************************************************************)
EXTENDS Naturals

CONSTANTS Tasks, Agents, NoAgent

VARIABLES
  stage,     \* of each task
  holder,    \* the agent that was granted the task last, until it is taken back
  ticket,    \* the valid ticket of each task, 0 when there is none
  result,    \* the ticket that finished the task, 0 when none has
  issued     \* the newest ticket ever

assignmentVars == <<stage, holder, ticket, result, issued>>

AssignmentInit ==
  /\ stage = [t \in Tasks |-> "pending"]
  /\ holder = [t \in Tasks |-> NoAgent]
  /\ ticket = [t \in Tasks |-> 0]
  /\ result = [t \in Tasks |-> 0]
  /\ issued = 0

Grant(a, t) ==
  /\ stage[t] = "pending" /\ ticket[t] = 0
  /\ \A s \in Tasks : ~(stage[s] = "running" /\ holder[s] = a)
  /\ stage' = [stage EXCEPT ![t] = "running"]
  /\ holder' = [holder EXCEPT ![t] = a]
  /\ issued' = issued + 1
  /\ ticket' = [ticket EXCEPT ![t] = issued + 1]
  /\ UNCHANGED result

\* The work is finished under the valid ticket, which is used up.
Finish(t, outcome) ==
  /\ stage[t] = "running" /\ ticket[t] # 0
  /\ stage' = [stage EXCEPT ![t] = outcome]
  /\ ticket' = [ticket EXCEPT ![t] = 0]
  /\ result' = [result EXCEPT ![t] = ticket[t]]
  /\ UNCHANGED <<holder, issued>>

Revoke(t) ==
  /\ ticket[t] # 0
  /\ ticket' = [ticket EXCEPT ![t] = 0]
  /\ UNCHANGED <<stage, holder, result, issued>>

\* Work without a valid ticket goes back to the queue, or is given up.
TakeBack(t, next) ==
  /\ stage[t] = "running" /\ ticket[t] = 0
  /\ stage' = [stage EXCEPT ![t] = next]
  /\ holder' = [holder EXCEPT ![t] = NoAgent]
  /\ UNCHANGED <<ticket, result, issued>>

\* The operator's reset and cancel: neither asks whether the ticket is valid.
Reopen(t) ==
  /\ stage[t] \in {"running", "done", "failed"}
  /\ stage' = [stage EXCEPT ![t] = "pending"]
  /\ holder' = [holder EXCEPT ![t] = NoAgent]
  /\ ticket' = [ticket EXCEPT ![t] = 0]
  /\ result' = [result EXCEPT ![t] = 0]
  /\ UNCHANGED issued

Withdraw(t) ==
  /\ stage' = [stage EXCEPT ![t] = "cancelled"]
  /\ UNCHANGED <<holder, ticket, result, issued>>

AssignmentNext ==
  \E t \in Tasks :
    \/ \E a \in Agents : Grant(a, t)
    \/ Finish(t, "done") \/ Finish(t, "failed")
    \/ Revoke(t)
    \/ TakeBack(t, "pending") \/ TakeBack(t, "failed")
    \/ Reopen(t)
    \/ Withdraw(t)

AssignmentSpec == AssignmentInit /\ [][AssignmentNext]_assignmentVars
===============================================================================
