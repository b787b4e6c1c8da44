----------------------------- MODULE TaskWaiting -----------------------------
(***************************************************************************)
(* Tasks that wait: for the PM's reply to a Question, or for the tasks     *)
(* they depend on; and everything that makes them go on.                   *)
(*                                                                         *)
(* A task that waits holds neither lease nor files.  Only the answer to    *)
(* its Question takes it out of waiting_pm_reply.  Out of                  *)
(* waiting_dependency it is taken by whoever finds its dependencies        *)
(* satisfied: the call of wakeDependents that follows a report or an       *)
(* accept, the operator's resume, or the supervisor's sweep.               *)
(*                                                                         *)
(* Every Lua script, and every WATCH/MULTI transaction that was executed,  *)
(* is one action.  wakeDependents is not: it lists the blocked tasks and   *)
(* then looks at each in a transaction of its own.  The claim checks the   *)
(* dependencies in one step and takes the task in a later one.             *)
(***************************************************************************)
EXTENDS Naturals

CONSTANTS
  Tasks,
  DependsOn,       \* depends_on of each task
  Acceptance,      \* the tasks of type acceptance
  NoQuestion,      \* a question id that is not in use
  ClaimBound,      \* bounds on claims, questions, resets, and on
  QuestionBound,   \* losses: crashes of the hub and transactions given up
  ResetBound, LossBound

ASSUME DependsAssumption == DependsOn \in [Tasks -> SUBSET Tasks]
ASSUME BoundAssumption ==
  ClaimBound \in Nat /\ QuestionBound \in Nat /\ ResetBound \in Nat /\ LossBound \in Nat

VARIABLES
  status, reason, lease, blockedOn, accepted,  \* the task hash and the lease key
  questions, asked, pointer,                   \* question hashes, open-by-task pointers
  checked,                                     \* claims past their dependency check
  issued, grants,                              \* claim tokens
  owed, visits,                                \* calls of wakeDependents
  resets, losses

taskVars     == <<status, reason, lease, blockedOn, accepted>>
questionVars == <<questions, asked, pointer>>
claimVars    == <<checked, issued, grants>>
wakeVars     == <<owed, visits>>
bounds       == <<resets, losses>>
vars == <<taskVars, questionVars, claimVars, wakeVars, bounds>>

Status == {"pending", "running", "blocked", "done", "failed"}
Reason == {"none", "waiting_pm_reply", "waiting_dependency"}
QuestionIds == 1..QuestionBound
Question == [task : Tasks, token : Nat, status : {"open", "answered"}]
ASSUME QuestionAssumption == NoQuestion \notin Question
Grant == [task : Tasks, token : Nat]
\* A call of wakeDependents(task), after a report under the token or an accept.
Wake == [after : {"report", "accept"}, task : Tasks, token : Nat]
AfterReport(g) == [after |-> "report", task |-> g.task, token |-> g.token]
AfterAccept(t) == [after |-> "accept", task |-> t, token |-> 0]

TypeOK ==
  /\ status \in [Tasks -> Status]
  /\ reason \in [Tasks -> Reason]
  /\ lease \in [Tasks -> Nat]
  /\ blockedOn \in [Tasks -> 0..QuestionBound]
  /\ accepted \in [Tasks -> BOOLEAN]
  /\ questions \in [QuestionIds -> Question \cup {NoQuestion}]
  /\ asked \in 0..QuestionBound
  /\ pointer \in [Tasks -> 0..QuestionBound]
  /\ checked \in SUBSET Tasks
  /\ issued \in Nat
  /\ grants \in SUBSET Grant
  /\ owed \in SUBSET Wake
  /\ visits \in SUBSET (Wake \X Tasks)
  /\ resets \in Nat
  /\ losses \in Nat

Init ==
  /\ status = [t \in Tasks |-> "pending"]
  /\ reason = [t \in Tasks |-> "none"]
  /\ lease = [t \in Tasks |-> 0]
  /\ blockedOn = [t \in Tasks |-> 0]
  /\ accepted = [t \in Tasks |-> FALSE]
  /\ questions = [q \in QuestionIds |-> NoQuestion]
  /\ asked = 0
  /\ pointer = [t \in Tasks |-> 0]
  /\ checked = {}
  /\ issued = 0
  /\ grants = {}
  /\ owed = {}
  /\ visits = {}
  /\ resets = 0
  /\ losses = 0

-----------------------------------------------------------------------------
(* Helpers.  A definition named X_What is a faulty variant of X.            *)

\* isDependencySatisfied, for tasks without a repair: a report is enough for an
\* acceptance task, every other task needs the PM's accept.
Satisfied(d, t) == status[d] = "done" /\ (t \in Acceptance \/ accepted[d])
Ready(t) == \A d \in DependsOn[t] : Satisfied(d, t)

\* The task hash of a task that is offered again.
Offered_Unset(t) ==
  /\ status' = [status EXCEPT ![t] = "pending"]
  /\ reason' = [reason EXCEPT ![t] = "none"]
  /\ blockedOn' = [blockedOn EXCEPT ![t] = NoQuestion]
  /\ lease' = [lease EXCEPT ![t] = 0]
Offered(t) ==
  /\ status' = [status EXCEPT ![t] = "pending"]
  /\ reason' = [reason EXCEPT ![t] = "none"]
  /\ blockedOn' = [blockedOn EXCEPT ![t] = 0]
  /\ lease' = [lease EXCEPT ![t] = 0]

IsOpen(q) == q # 0 /\ questions[q] # NoQuestion /\ questions[q].status = "open"
Holds(g) == status[g.task] = "running" /\ lease[g.task] = g.token

-----------------------------------------------------------------------------
(* Claim, report, recovery *)

ClaimCheck(t) ==
  /\ issued < ClaimBound /\ t \notin checked
  /\ status[t] = "pending" /\ Ready(t)
  /\ checked' = checked \cup {t}
  /\ UNCHANGED <<taskVars, questionVars, issued, grants, wakeVars, bounds>>

\* The claim script looks at the status and the lease, not at the dependencies.
ClaimCommit(t) ==
  LET granted == status[t] = "pending" /\ lease[t] = 0 /\ issued < ClaimBound IN
  /\ t \in checked
  /\ checked' = checked \ {t}
  /\ IF granted
     THEN /\ status' = [status EXCEPT ![t] = "running"]
          /\ lease' = [lease EXCEPT ![t] = issued + 1]
          /\ issued' = issued + 1
          /\ grants' = grants \cup {[task |-> t, token |-> issued + 1]}
     ELSE UNCHANGED <<status, lease, issued, grants>>
  /\ UNCHANGED <<reason, blockedOn, accepted, questionVars, wakeVars, bounds>>

\* reportUnlocked; after a done report it goes on to wakeDependents.
Report(g, outcome) ==
  /\ Holds(g)
  /\ status' = [status EXCEPT ![g.task] = outcome]
  /\ lease' = [lease EXCEPT ![g.task] = 0]
  /\ owed' = IF outcome = "done" THEN owed \cup {AfterReport(g)} ELSE owed
  /\ UNCHANGED <<reason, blockedOn, accepted, questionVars, claimVars, visits, bounds>>

\* The lease is lost and the supervisor takes the task back.
Reclaim(t, next) ==
  /\ status[t] = "running"
  /\ status' = [status EXCEPT ![t] = next]
  /\ lease' = [lease EXCEPT ![t] = 0]
  /\ UNCHANGED <<reason, blockedOn, accepted, questionVars, claimVars, wakeVars, bounds>>

\* The PM's accept holds the decision lock of the task until its effects are done.
Undecided(t) ==
  AfterAccept(t) \notin owed /\ \A s \in Tasks : <<AfterAccept(t), s>> \notin visits

\* The audit commit of pmReview, which goes on to wakeDependents.
Accept(t) ==
  /\ Undecided(t)
  /\ status[t] = "done" /\ ~accepted[t]
  /\ accepted' = [accepted EXCEPT ![t] = TRUE]
  /\ owed' = owed \cup {AfterAccept(t)}
  /\ UNCHANGED <<status, reason, lease, blockedOn, questionVars, claimVars, visits, bounds>>

\* taskReset of a delivered, failed or waiting task.  It clears the waiting
\* fields of the task hash and leaves the Question and its pointer alone.
Reset(t) ==
  /\ resets < ResetBound /\ Undecided(t)
  /\ status[t] \in {"done", "failed", "blocked"}
  /\ Offered(t)
  /\ accepted' = [accepted EXCEPT ![t] = FALSE]
  /\ resets' = resets + 1
  /\ UNCHANGED <<questionVars, claimVars, wakeVars, losses>>

-----------------------------------------------------------------------------
(* Questions *)

\* CREATE_QUESTION_CAS.  An open question of the task ends the script: it is
\* the answer to a repeated call, and refuses every other one.  A pointer to a
\* question that is not open is overwritten.
MayAsk_Again(g) == Holds(g)
MayAsk(g) == ~IsOpen(pointer[g.task]) /\ Holds(g)

Ask(g) ==
  LET q == asked + 1
      t == g.task
  IN /\ asked < QuestionBound
     /\ MayAsk(g)
     /\ asked' = q
     /\ questions' = [questions EXCEPT ![q] =
          [task |-> t, token |-> g.token, status |-> "open"]]
     /\ pointer' = [pointer EXCEPT ![t] = q]
     /\ status' = [status EXCEPT ![t] = "blocked"]
     /\ reason' = [reason EXCEPT ![t] = "waiting_pm_reply"]
     /\ blockedOn' = [blockedOn EXCEPT ![t] = q]
     /\ lease' = [lease EXCEPT ![t] = 0]
     /\ UNCHANGED <<accepted, claimVars, wakeVars, bounds>>

\* ANSWER_QUESTION_CAS.  The answer to a task that has ended is recorded and no
\* more; that to a task which is not blocked on this question is refused.
Ended(t) == status[t] \in {"done", "failed"}
AwaitsAnswer(q) ==
  status[questions[q].task] = "blocked" /\ blockedOn[questions[q].task] = q

Answer(q) ==
  LET t == questions[q].task IN
  /\ IsOpen(q)
  /\ Ended(t) \/ AwaitsAnswer(q)
  /\ questions' = [questions EXCEPT ![q].status = "answered"]
  /\ pointer' = IF pointer[t] = q THEN [pointer EXCEPT ![t] = 0] ELSE pointer
  /\ IF Ended(t) THEN UNCHANGED <<status, reason, blockedOn, lease>> ELSE Offered(t)
  /\ UNCHANGED <<accepted, asked, claimVars, wakeVars, bounds>>

-----------------------------------------------------------------------------
(* Waiting for dependencies *)

\* blockTaskWithEligibilityCheck: with the dependencies watched, a task whose
\* dependencies are satisfied by now is offered again instead of blocked.
BlocksAtOnce_Always(t) == TRUE
BlocksAtOnce(t) == ~Ready(t)

Block(g) ==
  LET t == g.task IN
  /\ Holds(g)
  /\ IF BlocksAtOnce(t)
     THEN /\ status' = [status EXCEPT ![t] = "blocked"]
          /\ reason' = [reason EXCEPT ![t] = "waiting_dependency"]
          /\ lease' = [lease EXCEPT ![t] = 0]
          /\ UNCHANGED blockedOn
     ELSE Offered(t)
  /\ UNCHANGED <<accepted, questionVars, claimVars, wakeVars, bounds>>

\* requeueBlockedEligible, all of it watched.
Requeueable_AnyReason(t) == status[t] = "blocked" /\ Ready(t)
Requeueable(t) == status[t] = "blocked" /\ reason[t] = "waiting_dependency" /\ Ready(t)

\* The supervisor's reconcileBlockedWaiters, or a resume of the task.
Requeue(t) ==
  /\ Requeueable(t)
  /\ Offered(t)
  /\ UNCHANGED <<accepted, questionVars, claimVars, wakeVars, bounds>>

\* wakeDependents lists the blocked tasks ...
StartWake(w) ==
  /\ w \in owed
  /\ owed' = owed \ {w}
  /\ visits' = visits \cup ({w} \X {t \in Tasks : status[t] = "blocked"})
  /\ UNCHANGED <<taskVars, questionVars, claimVars, bounds>>

\* ... and requeues those that depend on the task and are ready ...
Visit(w, t) ==
  /\ <<w, t>> \in visits
  /\ visits' = visits \ {<<w, t>>}
  /\ IF w.task \in DependsOn[t] /\ Requeueable(t)
     THEN Offered(t) ELSE UNCHANGED <<status, reason, blockedOn, lease>>
  /\ UNCHANGED <<accepted, questionVars, claimVars, owed, bounds>>

\* ... unless a transaction was disturbed five times in a row.
VisitGivenUp(w, t) ==
  /\ losses < LossBound
  /\ <<w, t>> \in visits
  /\ visits' = visits \ {<<w, t>>}
  /\ losses' = losses + 1
  /\ UNCHANGED <<taskVars, questionVars, claimVars, owed, resets>>

\* The hub restarts.  (Of an accept the supervisor replays the effects; what that
\* does to waiting tasks, its sweep does as well.)
Crash ==
  /\ losses < LossBound
  /\ losses' = losses + 1
  /\ checked' = {}
  /\ owed' = {}
  /\ visits' = {}
  /\ UNCHANGED <<taskVars, questionVars, issued, grants, resets>>

-----------------------------------------------------------------------------

Next ==
  \/ \E t \in Tasks : \/ ClaimCheck(t) \/ ClaimCommit(t) \/ Accept(t) \/ Reset(t)
                      \/ Requeue(t) \/ Reclaim(t, "pending") \/ Reclaim(t, "failed")
  \/ \E g \in grants : Report(g, "done") \/ Report(g, "failed") \/ Ask(g) \/ Block(g)
  \/ \E q \in QuestionIds : Answer(q)
  \/ \E w \in owed : StartWake(w)
  \/ \E v \in visits : Visit(v[1], v[2]) \/ VisitGivenUp(v[1], v[2])
  \/ Crash

Spec == Init /\ [][Next]_vars

-----------------------------------------------------------------------------
(* Properties *)

AwaitsPM(t) == status[t] = "blocked" /\ reason[t] = "waiting_pm_reply"

\* A task that waits for the PM waits for an open question of its own, and every
\* open question is found through its task's pointer, so that a repeated call of
\* the asker gets it: whatever resets, late answers and repetitions came between.
QuestionsAreFound ==
  /\ \A t \in Tasks :
       AwaitsPM(t) => IsOpen(blockedOn[t]) /\ questions[blockedOn[t]].task = t
  /\ \A q \in QuestionIds : IsOpen(q) => pointer[questions[q].task] = q

\* A claim asks at most once and a task has at most one open question, although
\* the worker's call is repeated, and may arrive again after the answer.
QuestionsAreSingle ==
  \A p, q \in QuestionIds :
    p # q /\ questions[p] # NoQuestion /\ questions[q] # NoQuestion
      => /\ questions[p].token # questions[q].token
         /\ ~(IsOpen(p) /\ IsOpen(q) /\ questions[p].task = questions[q].task)

\* Questions are neither lost nor doubled.
QuestionsAreKept == QuestionsAreFound /\ QuestionsAreSingle

\* Tokens are handed out once, from 1 on; one that asked is no lease any more.
TokensAreSpent ==
  /\ \A g \in grants : g.token \in 1..issued
  /\ \A t \in Tasks : lease[t] <= issued
  /\ \A s, t \in Tasks : lease[s] = lease[t] /\ lease[s] # 0 => s = t
  /\ \A q \in QuestionIds : questions[q] # NoQuestion =>
       /\ q <= asked
       /\ questions[q].token \in 1..issued
       /\ \A t \in Tasks : lease[t] # questions[q].token

\* No task is taken out of waiting_pm_reply by a resume, a sweep or a wake-up:
\* only by the answer to its question, or by an operator's reset.
LeavesByAnswer ==
  [][\A t \in Tasks : AwaitsPM(t) /\ ~(AwaitsPM(t))'
       => resets' # resets \/ questions'[blockedOn[t]].status = "answered"]_vars

\* A question is kept until its answer, and only that ends the wait for it.
QuestionsAreSafe == [](QuestionsAreFound /\ QuestionsAreSingle) /\ LeavesByAnswer

\* Unless the hub crashed or a transaction was given up, no wake-up is lost: a
\* waiting task whose dependencies are satisfied is still to be looked at by a
\* call of wakeDependents, and needs no sweep to go on.
ToBeVisited(t) ==
  \/ \E w \in owed : w.task \in DependsOn[t]
  \/ \E v \in visits : v[1].task \in DependsOn[t] /\ v[2] = t
NoWakeupIsLost ==
  \A t \in Tasks : losses = 0 /\ Requeueable(t) => ToBeVisited(t)

\* What is inductive about questions.
QuestionsInv == TokensAreSpent /\ QuestionsAreFound /\ QuestionsAreSingle

\* prepareRestoreProjection asserts of the persisted state that every open
\* question has its task waiting for it.
OpenQuestionsAreAwaited ==
  \A q \in QuestionIds : IsOpen(q) =>
    AwaitsPM(questions[q].task) /\ blockedOn[questions[q].task] = q
=============================================================================
