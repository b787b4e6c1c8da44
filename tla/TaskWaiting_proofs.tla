-------------------------- MODULE TaskWaiting_proofs --------------------------
(***************************************************************************)
(* Proofs about TaskWaiting for any tasks, dependencies and bounds, and     *)
(* about the three components that share its run.                          *)
(*                                                                         *)
(* Questions: an open question of a task is the one its pointer names, and *)
(* a token that asked is no lease any more; so a claim never asks twice.   *)
(* Wake-ups: a report or an accept that makes a task ready owes it a call  *)
(* of wakeDependents from the very step on, and a task is not blocked when *)
(* it is ready already; NoWakeupIsLost is inductive by itself.             *)
(*                                                                         *)
(* Webhooks: the walk of a source has in hand, or a row for, whatever was  *)
(* promised up to where it will save, and what becomes visible meanwhile   *)
(* lies beyond; the posts of a delivery never fall behind the attempts     *)
(* that count, and of one that was in one hand only they are as many.      *)
(*                                                                         *)
(* Modes: a transition's history holds the steps before the one it is at,  *)
(* one transition runs, one to read-only fails by its deadline only and    *)
(* is then over, so from the reconciliation that passed to the commit what *)
(* nobody touched stays drained.                                           *)
(*                                                                         *)
(* The doorbell: a pm-agent that was not told to stop holds the lock of    *)
(* its consumer, who runs a supervisor owns the lock file unless another   *)
(* file was unlinked, and who takes a file over has seen its owner dead.   *)
(***************************************************************************)
EXTENDS MCTaskWaiting, TLAPS, FiniteSetTheorems, SequenceTheorems, WellFoundedInduction

-----------------------------------------------------------------------------
(* Types *)

LEMMA InitTypeOK == Init => TypeOK
BY BoundAssumption DEF Init, TypeOK, Status, Reason

LEMMA OfferedTypes ==
  ASSUME TypeOK, NEW t \in Tasks, Offered(t)
  PROVE  /\ status' \in [Tasks -> Status]
         /\ reason' \in [Tasks -> Reason]
         /\ blockedOn' \in [Tasks -> 0..QuestionBound]
         /\ lease' \in [Tasks -> Nat]
BY BoundAssumption DEF TypeOK, Offered, Status, Reason

LEMMA StepTypeOK == TypeOK /\ [Next]_vars => TypeOK'
<1> SUFFICES ASSUME TypeOK, [Next]_vars PROVE TypeOK'
  OBVIOUS
<1> USE DEF TypeOK, taskVars, questionVars, claimVars, wakeVars, bounds
<1>1. ASSUME NEW t \in Tasks, ClaimCheck(t) PROVE TypeOK'
  BY <1>1 DEF ClaimCheck
<1>2. ASSUME NEW t \in Tasks, ClaimCommit(t) PROVE TypeOK'
  <2>1. CASE status[t] = "pending" /\ lease[t] = 0 /\ issued < ClaimBound
    <3>1. [task |-> t, token |-> issued + 1] \in Grant
      BY DEF Grant
    <3> QED
      BY <1>2, <2>1, <3>1 DEF ClaimCommit, Status
  <2>2. CASE ~(status[t] = "pending" /\ lease[t] = 0 /\ issued < ClaimBound)
    BY <1>2, <2>2 DEF ClaimCommit
  <2> QED
    BY <2>1, <2>2
<1>3. ASSUME NEW g \in grants, NEW outcome \in {"done", "failed"}, Report(g, outcome)
      PROVE TypeOK'
  <2>1. g.task \in Tasks /\ AfterReport(g) \in Wake
    BY DEF Grant, Wake, AfterReport
  <2> QED
    BY <1>3, <2>1 DEF Report, Status
<1>4. ASSUME NEW t \in Tasks, NEW next \in {"pending", "failed"}, Reclaim(t, next)
      PROVE TypeOK'
  BY <1>4 DEF Reclaim, Status
<1>5. ASSUME NEW t \in Tasks, Accept(t) PROVE TypeOK'
  <2>1. AfterAccept(t) \in Wake
    BY DEF Wake, AfterAccept
  <2> QED
    BY <1>5, <2>1 DEF Accept
<1>6. ASSUME NEW t \in Tasks, Reset(t) PROVE TypeOK'
  BY <1>6, OfferedTypes DEF Reset
<1>7. ASSUME NEW g \in grants, Ask(g) PROVE TypeOK'
  <2>1. g.task \in Tasks /\ g.token \in Nat
    BY DEF Grant
  <2>2. asked + 1 \in QuestionIds /\ asked + 1 \in 0..QuestionBound
    BY <1>7, BoundAssumption DEF Ask, QuestionIds
  <2>3. [task |-> g.task, token |-> g.token, status |-> "open"] \in Question
    BY <2>1 DEF Question
  <2> QED
    BY <1>7, <2>1, <2>2, <2>3, BoundAssumption DEF Ask, Status, Reason
<1>8. ASSUME NEW q \in QuestionIds, Answer(q) PROVE TypeOK'
  <2>1. questions[q] \in Question
    BY <1>8 DEF Answer, IsOpen
  <2>2. [questions[q] EXCEPT !.status = "answered"] \in Question /\ questions[q].task \in Tasks
    BY <2>1 DEF Question
  <2>3. questions' \in [QuestionIds -> Question \cup {NoQuestion}]
    BY <1>8, <2>2 DEF Answer
  <2>4. pointer' \in [Tasks -> 0..QuestionBound]
    <3>1. pointer' = pointer \/ pointer' = [pointer EXCEPT ![questions[q].task] = 0]
      BY <1>8 DEF Answer
    <3>2. 0 \in 0..QuestionBound
      BY BoundAssumption
    <3> QED
      BY <2>2, <3>1, <3>2
  <2>5. CASE Ended(questions[q].task)
    BY <1>8, <2>3, <2>4, <2>5 DEF Answer
  <2>6. CASE ~Ended(questions[q].task)
    BY <1>8, <2>2, <2>3, <2>4, <2>6, OfferedTypes DEF Answer
  <2> QED
    BY <2>5, <2>6
<1>9. ASSUME NEW g \in grants, Block(g) PROVE TypeOK'
  <2>1. g.task \in Tasks
    BY DEF Grant
  <2>2. CASE BlocksAtOnce(g.task)
    BY <1>9, <2>1, <2>2 DEF Block, Status, Reason
  <2>3. CASE ~BlocksAtOnce(g.task)
    BY <1>9, <2>1, <2>3, OfferedTypes DEF Block
  <2> QED
    BY <2>2, <2>3
<1>10. ASSUME NEW t \in Tasks, Requeue(t) PROVE TypeOK'
  BY <1>10, OfferedTypes DEF Requeue
<1>11. ASSUME NEW w \in owed, StartWake(w) PROVE TypeOK'
  BY <1>11 DEF StartWake
<1>12. ASSUME NEW w, NEW t, <<w, t>> \in visits, Visit(w, t) PROVE TypeOK'
  <2>1. w \in Wake /\ t \in Tasks
    BY <1>12
  <2>2. CASE w.task \in DependsOn[t] /\ Requeueable(t)
    BY <1>12, <2>1, <2>2, OfferedTypes DEF Visit
  <2>3. CASE ~(w.task \in DependsOn[t] /\ Requeueable(t))
    BY <1>12, <2>3 DEF Visit
  <2> QED
    BY <2>2, <2>3
<1>13. ASSUME NEW w, NEW t, VisitGivenUp(w, t) PROVE TypeOK'
  BY <1>13 DEF VisitGivenUp
<1>14. ASSUME Crash PROVE TypeOK'
  BY <1>14 DEF Crash
<1>15. ASSUME UNCHANGED vars PROVE TypeOK'
  BY <1>15 DEF vars
<1>16. \A v \in visits : v = <<v[1], v[2]>>
  OBVIOUS
<1> QED
  BY <1>1, <1>2, <1>3, <1>4, <1>5, <1>6, <1>7, <1>8, <1>9, <1>10, <1>11, <1>12, <1>13,
     <1>14, <1>15, <1>16 DEF Next

\* Every variable keeps its type (the fields of the task hashes, the questions,
\* the calls under way).
THEOREM WaitingTypeCorrect == Spec => []TypeOK
BY InitTypeOK, StepTypeOK, PTL DEF Spec

-----------------------------------------------------------------------------
(* Wake-ups *)

\* A task that is offered is not waiting, and makes no other task ready.
LEMMA OfferedIsQuiet ==
  ASSUME TypeOK, NEW s \in Tasks, Offered(s), accepted' = accepted \/ accepted' = [accepted EXCEPT ![s] = FALSE],
         NEW t \in Tasks, Requeueable(t)'
  PROVE  Requeueable(t) /\ t # s
<1>1. t # s
  BY DEF TypeOK, Offered, Requeueable
<1>2. \A d \in Tasks : Satisfied(d, t)' => Satisfied(d, t)
  BY DEF TypeOK, Offered, Satisfied, Status
<1> QED
  BY <1>1, <1>2, DependsAssumption DEF TypeOK, Offered, Requeueable, Ready

LEMMA StepWakeups == TypeOK /\ NoWakeupIsLost /\ [Next]_vars => NoWakeupIsLost'
<1> SUFFICES ASSUME TypeOK, NoWakeupIsLost, [Next]_vars,
                    NEW t \in Tasks, losses' = 0, Requeueable(t)'
             PROVE  ToBeVisited(t)'
  BY DEF NoWakeupIsLost
<1>a. losses = 0 => (Requeueable(t) => ToBeVisited(t))
  BY DEF NoWakeupIsLost
<1>b. losses \in Nat
  BY DEF TypeOK
\* An action that leaves the wake-ups alone must leave t as it was.
<1>c. ASSUME losses = 0, UNCHANGED wakeVars, Requeueable(t) PROVE ToBeVisited(t)'
  BY <1>a, <1>c DEF wakeVars, ToBeVisited
<1>1. ASSUME NEW s \in Tasks, ClaimCheck(s) PROVE ToBeVisited(t)'
  BY <1>1, <1>c DEF ClaimCheck, taskVars, bounds, Requeueable, Ready, Satisfied
<1>2. ASSUME NEW s \in Tasks, ClaimCommit(s) PROVE ToBeVisited(t)'
  <2>1. \A d \in Tasks : status'[d] # status[d] => status[d] = "pending" /\ status'[d] = "running"
    BY <1>2 DEF ClaimCommit, TypeOK
  <2>2. Requeueable(t)
    BY <1>2, <2>1, DependsAssumption DEF ClaimCommit, Requeueable, Ready, Satisfied
  <2> QED
    BY <1>2, <2>2, <1>c DEF ClaimCommit, bounds
<1>3. ASSUME NEW g \in grants, NEW outcome \in {"done", "failed"}, Report(g, outcome)
      PROVE ToBeVisited(t)'
  <2>1. g.task \in Tasks /\ AfterReport(g).task = g.task
    BY DEF TypeOK, Grant, AfterReport
  <2>2. CASE outcome = "done" /\ g.task \in DependsOn[t]
    BY <1>3, <2>1, <2>2 DEF Report, ToBeVisited
  <2>3. CASE ~(outcome = "done" /\ g.task \in DependsOn[t])
    <3>1. \A d \in DependsOn[t] : Satisfied(d, t)' => Satisfied(d, t)
      BY <1>3, <2>1, <2>3, DependsAssumption DEF Report, Satisfied, TypeOK
    <3>2. Requeueable(t)
      BY <1>3, <2>1, <3>1 DEF Report, Requeueable, Ready, TypeOK
    <3> QED
      BY <1>3, <3>2, <1>a DEF Report, bounds, ToBeVisited
  <2> QED
    BY <2>2, <2>3
<1>4. ASSUME NEW s \in Tasks, NEW next \in {"pending", "failed"}, Reclaim(s, next)
      PROVE ToBeVisited(t)'
  <2>1. \A d \in DependsOn[t] : Satisfied(d, t)' => Satisfied(d, t)
    BY <1>4, DependsAssumption DEF Reclaim, Satisfied, TypeOK
  <2>2. Requeueable(t)
    BY <1>4, <2>1 DEF Reclaim, Requeueable, Ready, TypeOK
  <2> QED
    BY <1>4, <2>2, <1>c DEF Reclaim, bounds
<1>5. ASSUME NEW s \in Tasks, Accept(s) PROVE ToBeVisited(t)'
  <2>1. AfterAccept(s).task = s
    BY DEF AfterAccept
  <2>2. CASE s \in DependsOn[t]
    BY <1>5, <2>1, <2>2 DEF Accept, ToBeVisited
  <2>3. CASE s \notin DependsOn[t]
    <3>1. Requeueable(t)
      BY <1>5, <2>3, DependsAssumption DEF Accept, Requeueable, Ready, Satisfied, TypeOK
    <3> QED
      BY <1>5, <3>1, <1>a DEF Accept, bounds, ToBeVisited
  <2> QED
    BY <2>2, <2>3
<1>6. ASSUME NEW s \in Tasks, Reset(s) PROVE ToBeVisited(t)'
  <2>1. Requeueable(t)
    BY <1>6, OfferedIsQuiet DEF Reset
  <2> QED
    BY <1>6, <2>1, <1>c DEF Reset
<1>7. ASSUME NEW g \in grants, Ask(g) PROVE ToBeVisited(t)'
  <2>1. g.task \in Tasks
    BY DEF TypeOK, Grant
  <2>2. \A d \in DependsOn[t] : Satisfied(d, t)' => Satisfied(d, t)
    BY <1>7, <2>1, DependsAssumption DEF Ask, Satisfied, TypeOK
  <2>3. Requeueable(t)
    BY <1>7, <2>1, <2>2 DEF Ask, Requeueable, Ready, TypeOK
  <2> QED
    BY <1>7, <2>3, <1>c DEF Ask, bounds
<1>8. ASSUME NEW q \in QuestionIds, Answer(q) PROVE ToBeVisited(t)'
  <2>1. questions[q].task \in Tasks
    BY <1>8 DEF Answer, IsOpen, TypeOK, Question
  <2>2. CASE Ended(questions[q].task)
    BY <1>8, <2>2, <1>c DEF Answer, bounds, Requeueable, Ready, Satisfied
  <2>3. CASE ~Ended(questions[q].task)
    BY <1>8, <2>1, <2>3, <1>c, OfferedIsQuiet DEF Answer, bounds
  <2> QED
    BY <2>2, <2>3
<1>9. ASSUME NEW g \in grants, Block(g) PROVE ToBeVisited(t)'
  <2>1. g.task \in Tasks
    BY DEF TypeOK, Grant
  <2>2. CASE BlocksAtOnce(g.task)
    <3>1. \A d, s \in Tasks : Satisfied(d, s)' => Satisfied(d, s)
      BY <1>9, <2>1, <2>2 DEF Block, Satisfied, TypeOK
    <3>2. Requeueable(t)
      BY <1>9, <2>1, <2>2, <3>1, DependsAssumption
         DEF Block, BlocksAtOnce, Requeueable, Ready, TypeOK
    <3> QED
      BY <1>9, <3>2, <1>c DEF Block, bounds
  <2>3. CASE ~BlocksAtOnce(g.task)
    BY <1>9, <2>1, <2>3, <1>c, OfferedIsQuiet DEF Block, bounds
  <2> QED
    BY <2>2, <2>3
<1>10. ASSUME NEW s \in Tasks, Requeue(s) PROVE ToBeVisited(t)'
  BY <1>10, <1>c, OfferedIsQuiet DEF Requeue, bounds
<1>11. ASSUME NEW w \in owed, StartWake(w) PROVE ToBeVisited(t)'
  <2>1. Requeueable(t)
    BY <1>11 DEF StartWake, taskVars, Requeueable, Ready, Satisfied
  <2>2. ToBeVisited(t)
    BY <1>11, <2>1, <1>a DEF StartWake, bounds
  <2>3. w.task \in DependsOn[t] => <<w, t>> \in visits'
    BY <1>11, <2>1 DEF StartWake, Requeueable
  <2> QED
    BY <1>11, <2>2, <2>3 DEF StartWake, ToBeVisited
<1>12. ASSUME NEW w, NEW u, <<w, u>> \in visits, Visit(w, u) PROVE ToBeVisited(t)'
  <2>1. u \in Tasks
    BY <1>12 DEF TypeOK
  <2>2. CASE w.task \in DependsOn[u] /\ Requeueable(u)
    <3>1. Requeueable(t) /\ t # u
      BY <1>12, <2>1, <2>2, OfferedIsQuiet DEF Visit
    <3> QED
      BY <1>12, <3>1, <1>a DEF Visit, bounds, ToBeVisited
  <2>3. CASE ~(w.task \in DependsOn[u] /\ Requeueable(u))
    <3>1. Requeueable(t)
      BY <1>12, <2>3 DEF Visit, Requeueable, Ready, Satisfied
    <3> QED
      BY <1>12, <2>3, <3>1, <1>a DEF Visit, bounds, ToBeVisited
  <2> QED
    BY <2>2, <2>3
<1>13. ASSUME NEW w, NEW u, VisitGivenUp(w, u) PROVE ToBeVisited(t)'
  BY <1>13, <1>b DEF VisitGivenUp
<1>14. ASSUME Crash PROVE ToBeVisited(t)'
  BY <1>14, <1>b DEF Crash
<1>15. ASSUME UNCHANGED vars PROVE ToBeVisited(t)'
  BY <1>15, <1>c
     DEF vars, taskVars, wakeVars, bounds, Requeueable, Ready, Satisfied
<1>16. \A v \in visits : v = <<v[1], v[2]>>
  BY DEF TypeOK
<1> QED
  BY <1>1, <1>2, <1>3, <1>4, <1>5, <1>6, <1>7, <1>8, <1>9, <1>10, <1>11, <1>12, <1>13,
     <1>14, <1>15, <1>16 DEF Next

\* Without a crash and without a transaction given up, a waiting task whose
\* dependencies are satisfied is still to be visited by some wakeDependents.
THEOREM NoLostWakeup == Spec => []NoWakeupIsLost
<1>1. Init => NoWakeupIsLost
  BY DEF Init, NoWakeupIsLost, Requeueable
<1> QED
  BY <1>1, InitTypeOK, StepTypeOK, StepWakeups, PTL DEF Spec

-----------------------------------------------------------------------------
(* Questions *)

\* A step that leaves questions and tokens alone, takes leases away at most, and
\* makes no task wait for the PM, preserves what is said of questions.
LEMMA QuietForQuestions ==
  ASSUME TypeOK, QuestionsInv, UNCHANGED <<questionVars, issued, grants>>,
         \A t \in Tasks : lease'[t] = lease[t] \/ lease'[t] = 0,
         \A t \in Tasks : AwaitsPM(t)' => AwaitsPM(t) /\ blockedOn'[t] = blockedOn[t]
  PROVE  QuestionsInv'
<1> USE DEF QuestionsInv, questionVars
<1>1. TokensAreSpent'
  BY DEF TypeOK, TokensAreSpent
<1>2. QuestionsAreFound'
  BY DEF QuestionsAreFound, IsOpen
<1>3. QuestionsAreSingle'
  BY DEF QuestionsAreSingle, IsOpen
<1> QED
  BY <1>1, <1>2, <1>3

LEMMA OfferedIsQuietForQuestions ==
  ASSUME TypeOK, QuestionsInv, UNCHANGED <<questionVars, issued, grants>>,
         NEW s \in Tasks, Offered(s)
  PROVE  QuestionsInv'
<1>1. \A t \in Tasks : lease'[t] = lease[t] \/ lease'[t] = 0
  BY DEF TypeOK, Offered
<1>2. \A t \in Tasks : AwaitsPM(t)' => AwaitsPM(t) /\ blockedOn'[t] = blockedOn[t]
  BY DEF TypeOK, Offered, AwaitsPM
<1> QED
  BY <1>1, <1>2, QuietForQuestions

\* A new token is nobody's lease and no question's.
LEMMA ClaimKeepsQuestions ==
  ASSUME TypeOK, QuestionsInv, NEW s \in Tasks, ClaimCommit(s)
  PROVE  QuestionsInv'
<1> USE DEF QuestionsInv, questionVars
<1>1. \A t \in Tasks : AwaitsPM(t)' <=> AwaitsPM(t)
  BY DEF ClaimCommit, AwaitsPM, TypeOK
<1>2. QuestionsAreFound'
  BY <1>1 DEF ClaimCommit, QuestionsAreFound, IsOpen
<1>3. QuestionsAreSingle'
  BY DEF ClaimCommit, QuestionsAreSingle, IsOpen
<1>4. TokensAreSpent'
  BY DEF ClaimCommit, TokensAreSpent, TypeOK, Grant
<1> QED
  BY <1>2, <1>3, <1>4

\* The asker's token was a lease, so it has not asked before; and the pointer
\* would have named an open question of the task.
LEMMA AskKeepsQuestions ==
  ASSUME TypeOK, QuestionsInv, NEW g \in grants, Ask(g)
  PROVE  QuestionsInv'
<1> DEFINE n == asked + 1
<1> DEFINE record == [task |-> g.task, token |-> g.token, status |-> "open"]
<1> USE DEF QuestionsInv
<1>1. /\ g.task \in Tasks /\ g.token \in 1..issued
      /\ lease[g.task] = g.token /\ status[g.task] = "running"
      /\ issued \in Nat /\ asked \in Nat
  BY BoundAssumption DEF TypeOK, Grant, Ask, MayAsk, Holds, TokensAreSpent
<1>2. n \in QuestionIds /\ n # 0 /\ questions[n] = NoQuestion /\ record # NoQuestion
  <2>1. n \in QuestionIds /\ n # 0
    BY <1>1, BoundAssumption DEF Ask, QuestionIds
  <2>2. ~(n <= asked)
    BY <1>1
  <2>3. questions[n] = NoQuestion
    BY <2>1, <2>2 DEF TokensAreSpent
  <2>4. record \in Question
    BY <1>1 DEF Question
  <2> QED
    BY <2>1, <2>3, <2>4, QuestionAssumption
<1>3. /\ questions' = [questions EXCEPT ![n] = record]
      /\ pointer' = [pointer EXCEPT ![g.task] = n]
      /\ blockedOn' = [blockedOn EXCEPT ![g.task] = n]
      /\ status' = [status EXCEPT ![g.task] = "blocked"]
      /\ reason' = [reason EXCEPT ![g.task] = "waiting_pm_reply"]
      /\ lease' = [lease EXCEPT ![g.task] = 0]
      /\ asked' = n /\ issued' = issued /\ grants' = grants
  BY DEF Ask, claimVars
<1>4. \A q \in QuestionIds : q # n => questions'[q] = questions[q]
  BY <1>3 DEF TypeOK
<1>5. questions'[n] = record
  BY <1>2, <1>3 DEF TypeOK
<1>6. \A q \in QuestionIds : IsOpen(q) => questions[q].task # g.task
  BY DEF Ask, MayAsk, QuestionsAreFound
<1>7. TokensAreSpent'
  <2>1. \A t \in Tasks : lease'[t] = lease[t] \/ lease'[t] = 0
    BY <1>3 DEF TypeOK
  <2>2. \A t \in Tasks : lease'[t] # g.token
    BY <1>1, <1>3 DEF TypeOK, TokensAreSpent
  <2>3. ASSUME NEW q \in QuestionIds, questions'[q] # NoQuestion
        PROVE  /\ q <= asked'
               /\ questions'[q].token \in 1..issued'
               /\ \A t \in Tasks : lease'[t] # questions'[q].token
    <3>1. CASE q = n
      BY <1>1, <1>3, <1>5, <2>2, <3>1
    <3>2. CASE q # n
      <4>1. q \in Nat /\ q <= asked /\ questions'[q] = questions[q] /\ questions[q].token \in 1..issued
        BY <1>4, <2>3, <3>2 DEF TokensAreSpent, QuestionIds
      <4>2. \A t \in Tasks : lease[t] # questions[q].token
        BY <2>3, <4>1 DEF TokensAreSpent
      <4> QED
        BY <1>1, <1>3, <2>1, <4>1, <4>2
    <3> QED
      BY <3>1, <3>2
  <2>4. \A r, t \in Tasks : lease'[r] = lease'[t] /\ lease'[r] # 0 => r = t
    BY <2>1 DEF TokensAreSpent
  <2>5. (\A h \in grants' : h.token \in 1..issued') /\ \A t \in Tasks : lease'[t] <= issued'
    BY <1>1, <1>3, <2>1 DEF TokensAreSpent
  <2> QED
    BY <2>3, <2>4, <2>5 DEF TokensAreSpent
<1>8. QuestionsAreFound'
  <2>1. \A q \in QuestionIds : IsOpen(q)' <=> IsOpen(q) \/ q = n
    BY <1>2, <1>4, <1>5 DEF IsOpen
  <2>2. \A t \in Tasks : t # g.task => (AwaitsPM(t)' <=> AwaitsPM(t)) /\ blockedOn'[t] = blockedOn[t]
    BY <1>3 DEF AwaitsPM, TypeOK
  <2>3. ASSUME NEW t \in Tasks, AwaitsPM(t)'
        PROVE  IsOpen(blockedOn[t])' /\ questions'[blockedOn'[t]].task = t
    <3>1. CASE t = g.task
      BY <1>2, <1>3, <1>5, <2>1, <3>1 DEF TypeOK
    <3>2. CASE t # g.task
      <4>1. IsOpen(blockedOn[t]) /\ questions[blockedOn[t]].task = t /\ blockedOn[t] \in QuestionIds
        BY <2>2, <2>3, <3>2, BoundAssumption DEF QuestionsAreFound, TypeOK, IsOpen, QuestionIds
      <4>2. blockedOn[t] # n
        BY <1>2, <4>1 DEF IsOpen
      <4> QED
        BY <1>4, <2>2, <3>2, <4>1, <4>2 DEF IsOpen
    <3> QED
      BY <3>1, <3>2
  <2>4. ASSUME NEW q \in QuestionIds, IsOpen(q)' PROVE pointer'[questions'[q].task] = q
    BY <1>1, <1>3, <1>4, <1>5, <1>6, <2>1, <2>4 DEF QuestionsAreFound, TypeOK
  <2> QED
    BY <2>3, <2>4 DEF QuestionsAreFound
<1>9. QuestionsAreSingle'
  <2>1. \A q \in QuestionIds : questions[q] # NoQuestion => questions[q].token # g.token
    BY <1>1 DEF TokensAreSpent
  <2>2. \A q \in QuestionIds : q # n => (IsOpen(q)' <=> IsOpen(q))
    BY <1>4 DEF IsOpen
  <2> QED
    BY <1>4, <1>5, <1>6, <2>1, <2>2 DEF QuestionsAreSingle
<1> QED
  BY <1>7, <1>8, <1>9

\* The pointer is cleared with the only open question of the task.
LEMMA AnswerKeepsQuestions ==
  ASSUME TypeOK, QuestionsInv, NEW q \in QuestionIds, Answer(q)
  PROVE  QuestionsInv'
<1> DEFINE t == questions[q].task
<1> USE DEF QuestionsInv
<1>1. questions[q] \in Question /\ t \in Tasks /\ IsOpen(q) /\ pointer[t] = q
  <2>1. questions[q] \in Question
    BY DEF Answer, IsOpen, TypeOK
  <2> QED
    BY <2>1 DEF Answer, QuestionsAreFound, Question
<1>2. /\ \A p \in QuestionIds : p # q => questions'[p] = questions[p]
      /\ questions'[q] \in Question /\ questions'[q] # NoQuestion
      /\ questions'[q].task = t /\ questions'[q].token = questions[q].token
      /\ questions'[q].status = "answered"
  BY <1>1, QuestionAssumption DEF Answer, TypeOK, Question
<1>3. \A p \in QuestionIds : IsOpen(p)' <=> IsOpen(p) /\ p # q
  BY <1>2 DEF IsOpen
<1>4. pointer' = [pointer EXCEPT ![t] = 0]
  BY <1>1 DEF Answer
<1>5. asked' = asked /\ issued' = issued /\ grants' = grants
  BY DEF Answer, claimVars
<1>6. \A s \in Tasks : lease'[s] = lease[s] \/ lease'[s] = 0
  BY <1>1 DEF Answer, Offered, TypeOK
<1>7. \A s \in Tasks : AwaitsPM(s)' => AwaitsPM(s) /\ blockedOn'[s] = blockedOn[s] /\ s # t
  <2>1. CASE Ended(t)
    BY <1>1, <2>1 DEF Answer, Ended, AwaitsPM
  <2>2. CASE ~Ended(t)
    BY <1>1, <2>2 DEF Answer, Offered, AwaitsPM, TypeOK
  <2> QED
    BY <2>1, <2>2
<1>8. TokensAreSpent'
  <2>1. \A p \in QuestionIds : questions'[p] # NoQuestion
          => questions[p] # NoQuestion /\ questions'[p].token = questions[p].token
    BY <1>1, <1>2, QuestionAssumption
  <2> QED
    BY <1>5, <1>6, <2>1 DEF TokensAreSpent, TypeOK
<1>9. QuestionsAreFound'
  <2>1. ASSUME NEW s \in Tasks, AwaitsPM(s)'
        PROVE  IsOpen(blockedOn[s])' /\ questions'[blockedOn'[s]].task = s
    <3>1. IsOpen(blockedOn[s]) /\ questions[blockedOn[s]].task = s /\ blockedOn[s] \in QuestionIds
      BY <1>7, <2>1, BoundAssumption DEF QuestionsAreFound, TypeOK, IsOpen, QuestionIds
    <3>2. blockedOn[s] # q
      BY <1>7, <2>1, <3>1
    <3> QED
      BY <1>2, <1>7, <2>1, <3>1, <3>2 DEF IsOpen
  <2>2. ASSUME NEW p \in QuestionIds, IsOpen(p)' PROVE pointer'[questions'[p].task] = p
    <3>1. IsOpen(p) /\ p # q /\ questions'[p] = questions[p] /\ questions[p].task \in Tasks
      BY <1>2, <1>3, <2>2 DEF IsOpen, TypeOK, Question
    <3>2. pointer[questions[p].task] = p
      BY <3>1 DEF QuestionsAreFound
    <3> QED
      BY <1>1, <1>4, <3>1, <3>2 DEF TypeOK
  <2> QED
    BY <2>1, <2>2 DEF QuestionsAreFound
<1>10. QuestionsAreSingle'
  <2>1. \A p \in QuestionIds : questions'[p] # NoQuestion
          => /\ questions[p] # NoQuestion /\ questions'[p].token = questions[p].token
             /\ questions'[p].task = questions[p].task
    BY <1>1, <1>2, QuestionAssumption
  <2> QED
    BY <1>3, <2>1 DEF QuestionsAreSingle
<1> QED
  BY <1>8, <1>9, <1>10

LEMMA StepQuestions == TypeOK /\ QuestionsInv /\ [Next]_vars => QuestionsInv'
<1> SUFFICES ASSUME TypeOK, QuestionsInv, [Next]_vars PROVE QuestionsInv'
  OBVIOUS
<1>a. \A g \in grants : g.task \in Tasks
  BY DEF TypeOK, Grant
<1>1. ASSUME NEW t \in Tasks, ClaimCheck(t) PROVE QuestionsInv'
  BY <1>1, QuietForQuestions DEF ClaimCheck, taskVars, AwaitsPM
<1>2. ASSUME NEW t \in Tasks, ClaimCommit(t) PROVE QuestionsInv'
  BY <1>2, ClaimKeepsQuestions
<1>3. ASSUME NEW g \in grants, NEW outcome \in {"done", "failed"}, Report(g, outcome)
      PROVE QuestionsInv'
  BY <1>3, <1>a, QuietForQuestions DEF Report, claimVars, AwaitsPM, TypeOK
<1>4. ASSUME NEW t \in Tasks, NEW next \in {"pending", "failed"}, Reclaim(t, next)
      PROVE QuestionsInv'
  BY <1>4, QuietForQuestions DEF Reclaim, claimVars, AwaitsPM, TypeOK
<1>5. ASSUME NEW t \in Tasks, Accept(t) PROVE QuestionsInv'
  BY <1>5, QuietForQuestions DEF Accept, claimVars, AwaitsPM
<1>6. ASSUME NEW t \in Tasks, Reset(t) PROVE QuestionsInv'
  BY <1>6, OfferedIsQuietForQuestions DEF Reset, claimVars
<1>7. ASSUME NEW g \in grants, Ask(g) PROVE QuestionsInv'
  BY <1>7, AskKeepsQuestions
<1>8. ASSUME NEW q \in QuestionIds, Answer(q) PROVE QuestionsInv'
  BY <1>8, AnswerKeepsQuestions
<1>9. ASSUME NEW g \in grants, Block(g) PROVE QuestionsInv'
  <2>1. CASE BlocksAtOnce(g.task)
    BY <1>9, <1>a, <2>1, QuietForQuestions DEF Block, claimVars, AwaitsPM, TypeOK
  <2>2. CASE ~BlocksAtOnce(g.task)
    BY <1>9, <1>a, <2>2, OfferedIsQuietForQuestions DEF Block, claimVars
  <2> QED
    BY <2>1, <2>2
<1>10. ASSUME NEW t \in Tasks, Requeue(t) PROVE QuestionsInv'
  BY <1>10, OfferedIsQuietForQuestions DEF Requeue, claimVars
<1>11. ASSUME NEW w \in owed, StartWake(w) PROVE QuestionsInv'
  BY <1>11, QuietForQuestions DEF StartWake, taskVars, claimVars, AwaitsPM
<1>12. ASSUME NEW w, NEW t, <<w, t>> \in visits, Visit(w, t) PROVE QuestionsInv'
  <2>1. t \in Tasks
    BY <1>12 DEF TypeOK
  <2>2. CASE w.task \in DependsOn[t] /\ Requeueable(t)
    BY <1>12, <2>1, <2>2, OfferedIsQuietForQuestions DEF Visit, claimVars
  <2>3. CASE ~(w.task \in DependsOn[t] /\ Requeueable(t))
    BY <1>12, <2>3, QuietForQuestions DEF Visit, claimVars, AwaitsPM
  <2> QED
    BY <2>2, <2>3
<1>13. ASSUME NEW w, NEW t, VisitGivenUp(w, t) PROVE QuestionsInv'
  BY <1>13, QuietForQuestions DEF VisitGivenUp, taskVars, claimVars, AwaitsPM
<1>14. ASSUME Crash PROVE QuestionsInv'
  BY <1>14, QuietForQuestions DEF Crash, taskVars, AwaitsPM
<1>15. ASSUME UNCHANGED vars PROVE QuestionsInv'
  BY <1>15, QuietForQuestions DEF vars, taskVars, claimVars, AwaitsPM
<1>16. \A v \in visits : v = <<v[1], v[2]>>
  BY DEF TypeOK
<1> QED
  BY <1>1, <1>2, <1>3, <1>4, <1>5, <1>6, <1>7, <1>8, <1>9, <1>10, <1>11, <1>12, <1>13,
     <1>14, <1>15, <1>16 DEF Next

LEMMA QuestionsInvariant == Spec => []QuestionsInv
<1>1. Init => QuestionsInv
  BY DEF Init, QuestionsInv, TokensAreSpent, QuestionsAreFound, QuestionsAreSingle, AwaitsPM, IsOpen
<1> QED
  BY <1>1, InitTypeOK, StepTypeOK, StepQuestions, PTL DEF Spec

\* A task waiting for the PM waits for an open question of its own, and every
\* open question is the one its task's pointer names.
THEOREM OpenQuestionsAreFound == Spec => []QuestionsAreFound
BY QuestionsInvariant, PTL DEF QuestionsInv

\* No claim asks twice and no task has two open questions.
THEOREM OneQuestionAtATime == Spec => []QuestionsAreSingle
BY QuestionsInvariant, PTL DEF QuestionsInv

\* Questions are neither lost nor doubled, for any tasks, claims and repeated calls.
THEOREM QuestionsKept == Spec => []QuestionsAreKept
BY OpenQuestionsAreFound, OneQuestionAtATime, PTL DEF QuestionsAreKept

\* Only the answer to its question, or a reset, ends a task's wait for the PM.
THEOREM OnlyAnswersResume == Spec => LeavesByAnswer
<1> DEFINE Leaves(t) == AwaitsPM(t) /\ ~AwaitsPM(t)'
<1> DEFINE Allowed(t) == resets' # resets \/ questions'[blockedOn[t]].status = "answered"
<1>1. ASSUME TypeOK, NEW t \in Tasks, Leaves(t), Next PROVE Allowed(t)
  <2>1. ASSUME NEW s \in Tasks, Reset(s) PROVE Allowed(t)
    BY <1>1, <2>1 DEF Reset, TypeOK
  <2>2. ASSUME NEW q \in QuestionIds, Answer(q) PROVE Allowed(t)
    <3>1. questions[q] \in Question
      BY <1>1, <2>2 DEF Answer, IsOpen, TypeOK
    <3>2. questions'[q].status = "answered"
      BY <1>1, <2>2, <3>1 DEF Answer, TypeOK, Question
    <3>3. ~Ended(questions[q].task) /\ questions[q].task = t
      BY <1>1, <2>2, <3>1 DEF Answer, Offered, AwaitsPM, TypeOK, Question
    <3> QED
      BY <2>2, <3>2, <3>3 DEF Answer, AwaitsAnswer
  <2>3. ASSUME NEW s \in Tasks, Offered(s), Requeueable(s) PROVE FALSE
    BY <1>1, <2>3 DEF Offered, Requeueable, AwaitsPM, TypeOK
  <2>4. ASSUME NEW s \in Tasks,
               ClaimCheck(s) \/ ClaimCommit(s) \/ Accept(s) \/ Requeue(s)
                 \/ Reclaim(s, "pending") \/ Reclaim(s, "failed")
        PROVE  FALSE
    BY <1>1, <2>3, <2>4
       DEF ClaimCheck, ClaimCommit, Accept, Requeue, Reclaim, taskVars, AwaitsPM, TypeOK
  <2>5. ASSUME NEW g \in grants,
               Report(g, "done") \/ Report(g, "failed") \/ Ask(g) \/ Block(g)
        PROVE  FALSE
    <3>1. g.task \in Tasks /\ status[g.task] = "running"
      BY <1>1, <2>5 DEF TypeOK, Grant, Report, Ask, MayAsk, Block, Holds
    <3> QED
      BY <1>1, <2>5, <3>1 DEF Report, Ask, Block, Offered, AwaitsPM, TypeOK
  <2>6. ASSUME NEW w, NEW s, <<w, s>> \in visits, Visit(w, s) \/ VisitGivenUp(w, s) PROVE FALSE
    <3>1. s \in Tasks
      BY <1>1, <2>6 DEF TypeOK
    <3> QED
      BY <1>1, <2>3, <2>6, <3>1 DEF Visit, VisitGivenUp, taskVars, AwaitsPM
  <2>7. ASSUME (\E w \in owed : StartWake(w)) \/ Crash PROVE FALSE
    BY <1>1, <2>7 DEF StartWake, Crash, taskVars, AwaitsPM
  <2>8. \A v \in visits : v = <<v[1], v[2]>>
    BY <1>1 DEF TypeOK
  <2> QED
    BY <1>1, <2>1, <2>2, <2>4, <2>5, <2>6, <2>7, <2>8 DEF Next
<1>2. TypeOK /\ [Next]_vars
        => [\A t \in Tasks : Leaves(t) => Allowed(t)]_vars
  BY <1>1
<1> QED
  BY <1>2, InitTypeOK, StepTypeOK, PTL DEF Spec, LeavesByAnswer

\* Questions are neither lost nor doubled, and only their answers end the waits.
THEOREM QuestionsSafe == Spec => QuestionsAreSafe
BY QuestionsKept, OnlyAnswersResume, PTL DEF QuestionsAreSafe, QuestionsAreKept

-----------------------------------------------------------------------------
(* Webhooks: types, named one by one. *)

Row == [status : {"none", "pending", "delivered", "failed"}, attempts : 0 .. MaxAttempts, due : BOOLEAN]
Sent == [posts : Nat, taken : BOOLEAN, shared : BOOLEAN]
Cursor == [stream : Nat, conflict : 0 .. TimeBound, incident : 0 .. TimeBound]

HookTyped == hook \in [Hooks -> {"none", "active", "failed", "gone"}]
StreamTyped == stream \in Seq(Events) /\ listed \subseteq Events
AtTyped == at \in [Events -> 0 .. TimeBound] /\ resolved \subseteq Events
SavedTyped == saved \in Cursor
RowTyped == row \in [Rows -> Row]
CallerTyped == caller \in [Callers -> Caller]
SentTyped == promised \subseteq Rows /\ sent \in [Rows -> Sent]
LimitsTyped == changes \in 0 .. OwnerBound /\ stops \in 0 .. CrashBound

\* Where an event is, and that its time does not change any more.
Placed ==
  /\ \A i \in 1 .. Len(stream) : SourceOf(stream[i]) = "stream" /\ Dated(stream[i])
  /\ \A e \in listed : SourceOf(e) \in {"conflict", "incident"} /\ Dated(e)
  /\ \A e \in resolved : Dated(e) /\ SourceOf(e) = "incident"
\* A mark in a list is the time of an entry of it.
Mark(src, t) == t = 0 \/ \E o \in Listed(src) : at[o] = t
Lists == {"conflict", "incident"}
\* Whether the walk or the saved state has come past an event.
Covered(e, src, n) ==
  IF src = "stream" THEN \E i \in 1 .. n : i <= Len(stream) /\ stream[i] = e
  ELSE e \in listed /\ at[e] <= n
Marks ==
  /\ saved.stream <= Len(stream)
  /\ \A src \in Lists : Mark(src, saved[src])
  /\ caller[Dispatcher].at = "stream" => caller[Dispatcher].top <= Len(stream)
  /\ \A src \in Lists : caller[Dispatcher].at = src => Mark(src, caller[Dispatcher].top)
\* A promise is about an active webhook and an event that is there and not over.
PromisesStand ==
  \A r \in promised : hook[r[1]] = "active" /\ r[2] \in Visible /\ r[2] \notin resolved
\* Up to where the walk will save, what was promised has its row or is still in hand.
InHand(r) ==
  LET d == caller[Dispatcher] IN r[2] \in d.events \/ (r[2] = d.event /\ r[1] \in d.hooks)
WalkKeeps ==
  \A r \in promised :
    LET d == caller[Dispatcher] src == SourceOf(r[2]) IN
    d.at = src /\ Covered(r[2], src, d.top) => row[r].status # "none" \/ InHand(r)
SavedKeeps ==
  \A r \in promised : Covered(r[2], SourceOf(r[2]), saved[SourceOf(r[2])]) => row[r].status # "none"
\* The webhooks in hand have no row of the event in hand.
HandIsEmpty ==
  LET d == caller[Dispatcher] IN
  \A h \in d.hooks : d.event \in Events /\ row[<<h, d.event>>].status = "none"

PostsAreCounted ==
  /\ \A r \in Rows :
       /\ row[r].status = "none" => row[r].attempts = 0
       /\ row[r].status = "pending" => row[r].attempts < MaxAttempts
       /\ row[r].attempts <= sent[r].posts
       /\ sent[r].taken => row[r].status # "none"
  /\ \A c \in Callers :
       /\ caller[c].post # NoPost =>
            /\ row[caller[c].post.row].status # "none"
            /\ caller[c].post.attempt <= sent[caller[c].post.row].posts
       /\ \A d \in caller[c].due :
            row[d.row].status # "none" /\ d.attempts <= sent[d.row].posts
Posting(c, r) == caller[c].post # NoPost /\ caller[c].post.row = r
\* What holds of a delivery no two callers had in hand at once.
OwnPosts(r) ==
  /\ \A c, k \in Callers : Posting(c, r) /\ Posting(k, r) => c = k
  /\ \A c \in Callers : Posting(c, r) =>
       /\ row[r].status = "pending" /\ caller[c].post.attempt = row[r].attempts + 1
       /\ sent[r].posts <= row[r].attempts + 1 + stops
  /\ (\A c \in Callers : ~Posting(c, r)) => sent[r].posts <= row[r].attempts + stops
  /\ sent[r].taken => row[r].status = "delivered"
UnsharedIsCounted == \A r \in Rows : ~sent[r].shared => OwnPosts(r)

WTypes == HookTyped /\ StreamTyped /\ AtTyped /\ SavedTyped /\ RowTyped /\ CallerTyped /\ SentTyped /\ LimitsTyped


LEMMA LeastExists ==
  ASSUME NEW T \in SUBSET Nat, T # {}
  PROVE  \E m \in T : \A n \in T : m <= n
<1> DEFINE R == OpToRel(<, Nat)
<1>1. IsWellFoundedOn(R, Nat)
  BY NatLessThanWellFounded
<1>2. \A m, n \in Nat : n < m => <<n, m>> \in R
  BY DEF OpToRel
<1> HIDE DEF R
<1>3. PICK m \in T : \A n \in T : ~(<<n, m>> \in R)
  BY <1>1, WFMin
<1>4. ASSUME NEW n \in T PROVE m <= n
  <2>1. m \in Nat /\ n \in Nat /\ ~(n < m)
    BY <1>2, <1>3
  <2> QED
    BY <2>1
<1> QED
  BY <1>4

LEMMA GreatestExists ==
  ASSUME NEW K \in Nat, NEW T \in SUBSET (0 .. K), T # {}
  PROVE  /\ Max(T) \in T /\ \A n \in T : n <= Max(T)
<1> DEFINE Down == {K - n : n \in T}
<1>0. \A n \in T : n \in Nat /\ n <= K /\ K - n \in Nat
  OBVIOUS
<1>1. Down \in SUBSET Nat
  BY <1>0
<1>2. Down # {}
  OBVIOUS
<1>3. PICK d \in Down : \A e \in Down : d <= e
  <2> HIDE DEF Down
  <2> QED
    BY <1>1, <1>2, LeastExists
<1>4. PICK m \in T : d = K - m
  BY <1>3
<1>5. \A n \in T : K - m <= K - n
  BY <1>3, <1>4
<1>6. \A n \in T : m >= n
  BY <1>0, <1>5
<1>7. Max(T) \in T /\ \A n \in T : Max(T) >= n
  BY <1>4, <1>6 DEF Max
<1>8. \A n \in T : n \in Int
  BY <1>0
<1> QED
  BY <1>7, <1>8

-----------------------------------------------------------------------------
(* Types *)

LEMMA WebhookTypesNamed == WTypes <=> WebhooksTypeOK
BY DEF WTypes, WebhooksTypeOK, HookTyped, StreamTyped, AtTyped, SavedTyped, RowTyped, CallerTyped, SentTyped,
       LimitsTyped, Row, Sent, Cursor

LEMMA WebhookTypes ==
  ASSUME WTypes
  PROVE  /\ HookTyped /\ StreamTyped /\ AtTyped /\ SavedTyped /\ RowTyped /\ CallerTyped /\ SentTyped /\ LimitsTyped
         /\ \A h \in Hooks, e \in Events : <<h, e>> \in Rows /\ <<h, e>>[1] = h /\ <<h, e>>[2] = e
         /\ \A r \in Rows : r[1] \in Hooks /\ r[2] \in Events /\ r = <<r[1], r[2]>> /\ row[r] \in Row /\ sent[r] \in Sent
         /\ Dispatcher \in Callers /\ \A c \in Callers : caller[c] \in Caller
         /\ \A r \in promised : r \in Rows
BY DEF WTypes, Rows, RowTyped, SentTyped, CallerTyped, Callers

LEMMA CallerFields ==
  ASSUME NEW d \in Caller
  PROVE  /\ d.at \in {"idle", "due", "stream", "conflict", "incident"} /\ d.events \subseteq Events
         /\ d.event \in Events \cup {NoEvent} /\ d.hooks \subseteq Hooks /\ d.top \in Nat
         /\ d.due \subseteq Due
         /\ d.post # NoPost => d.post.row \in Rows /\ d.post.attempt \in 1 .. MaxAttempts
BY DEF Caller, Post

LEMMA IdleCaller == Idle \in Caller
<1>1. MaxAttempts \in Nat
  BY WebhooksAssumption
<1> QED
  BY <1>1 DEF Idle, Caller

LEMMA NoPostIsNone ==
  ASSUME NEW r \in Rows, NEW n
  PROVE  [row |-> r, attempt |-> n] # NoPost
<1>1. r \in Hooks \X Events
  BY DEF Rows
<1>2. PICK h \in Hooks, e \in Events : r = <<h, e>>
  BY <1>1
<1>3. <<h, e>> # <<>>
  OBVIOUS
<1> QED
  BY <1>2, <1>3 DEF NoPost

LEMMA DueRowsTyped ==
  ASSUME WTypes, PostsAreCounted
  PROVE  /\ DueRows \subseteq Due
         /\ \A d \in DueRows : row[d.row].status = "pending" /\ d.attempts = row[d.row].attempts
<1> SUFFICES ASSUME NEW d \in DueRows
             PROVE  d \in Due /\ row[d.row].status = "pending" /\ d.attempts = row[d.row].attempts
  OBVIOUS
<1>1. PICK r \in Rows : d = [row |-> r, attempts |-> row[r].attempts] /\ row[r].status = "pending"
  BY DEF DueRows
<1>2. row[r].attempts \in 0 .. MaxAttempts /\ row[r].attempts < MaxAttempts
  BY <1>1, WebhookTypes DEF PostsAreCounted, Row
<1>3. row[r].attempts \in 0 .. MaxAttempts - 1
  BY <1>2, WebhooksAssumption
<1> QED
  BY <1>1, <1>3 DEF Due

LEMMA WalkTyped ==
  ASSUME WTypes, NEW src \in {"stream", "conflict", "incident"}
  PROVE  /\ Walk(src) \in Caller /\ Walk(src).at = src /\ Walk(src).events = Unseen(src)
         /\ Walk(src).hooks = {} /\ Walk(src).top = Top(src) /\ Walk(src).post = NoPost /\ Walk(src).due = {}
         /\ src # "stream" => Top(src) = saved[src] \/ \E e \in Unseen(src) : Top(src) = at[e]
         /\ \A e \in Unseen(src) : src # "stream" => at[e] <= Top(src)
         /\ src = "stream" => Top(src) = Len(stream)
<1>1. Unseen(src) \subseteq Events
  <2>1. saved.stream \in Nat /\ stream \in Seq(Events) /\ listed \subseteq Events
    BY WebhookTypes DEF SavedTyped, Cursor, StreamTyped
  <2>2. \A i \in saved.stream + 1 .. Len(stream) : stream[i] \in Events
    <3>1. \A i \in saved.stream + 1 .. Len(stream) : i \in 1 .. Len(stream)
      BY <2>1
    <3> QED
      BY <2>1, <3>1
  <2> QED
    BY <2>1, <2>2 DEF Unseen, Listed
<1>2. CASE src = "stream"
  <2>1. Top(src) = Len(stream) /\ Top(src) \in Nat
    BY <1>2, WebhookTypes DEF Top, StreamTyped
  <2> QED
    BY <1>1, <1>2, <2>1, IdleCaller DEF Walk, Idle, Caller
<1>3. CASE src # "stream"
  <2> DEFINE T == {at[e] : e \in Unseen(src)}
  <2>1. T \subseteq 0 .. TimeBound /\ TimeBound \in Nat
    BY <1>1, WebhookTypes, WebhooksAssumption DEF AtTyped
  <2>2. CASE Unseen(src) = {}
    <3>1. Top(src) = saved[src] /\ Top(src) \in Nat
      BY <1>3, <2>2, WebhookTypes, WebhooksAssumption DEF Top, SavedTyped, Cursor
    <3> QED
      BY <1>1, <1>3, <2>2, <3>1, IdleCaller DEF Walk, Idle, Caller
  <2>3. CASE Unseen(src) # {}
    <3>1. T # {}
      BY <2>3
    <3>2. Max(T) \in T /\ \A n \in T : n <= Max(T)
      <4> HIDE DEF T
      <4> QED
        BY <2>1, <3>1, GreatestExists
    <3>3. Top(src) = Max(T)
      BY <1>3, <2>3 DEF Top
    <3>4. Top(src) \in Nat
      BY <2>1, <3>2, <3>3
    <3>5. \E e \in Unseen(src) : Top(src) = at[e]
      BY <3>2, <3>3
    <3>6. \A e \in Unseen(src) : at[e] <= Top(src)
      BY <3>2, <3>3
    <3> HIDE DEF T
    <3> QED
      BY <1>1, <1>3, <3>4, <3>5, <3>6, IdleCaller DEF Walk, Idle, Caller
  <2> QED
    BY <2>2, <2>3
<1> QED
  BY <1>2, <1>3

LEMMA CallerSet ==
  ASSUME CallerTyped, NEW c \in Callers, NEW n \in Caller, caller' = [caller EXCEPT ![c] = n]
  PROVE  CallerTyped' /\ caller'[c] = n /\ \A k \in Callers : k # c => caller'[k] = caller[k]
BY DEF CallerTyped

LEMMA WorkOfDue ==
  ASSUME WTypes, PostsAreCounted
  PROVE  /\ Work \in Caller /\ Work.at = "due" /\ Work.hooks = {} /\ Work.post = NoPost /\ Work.due = DueRows
BY DueRowsTyped, IdleCaller DEF Work, Idle, Caller

-----------------------------------------------------------------------------
(* Promises *)

PromiseInv == Placed /\ Marks /\ PromisesStand /\ WalkKeeps /\ SavedKeeps /\ HandIsEmpty
PostsInv == PostsAreCounted /\ UnsharedIsCounted

SameHand(d, e) == e.at = d.at /\ e.events = d.events /\ e.event = d.event /\ e.hooks = d.hooks /\ e.top = d.top
Resting(d) == d.at \in {"idle", "due"} /\ d.hooks = {}

LEMMA PromiseFrame ==
  ASSUME WTypes, PromiseInv, stream' = stream, listed' = listed, at' = at, resolved' = resolved, saved' = saved,
         promised' \subseteq promised, \A r \in promised' : hook'[r[1]] = "active",
         \A r \in Rows : row'[r].status = "none" <=> row[r].status = "none",
         SameHand(caller[Dispatcher], caller'[Dispatcher]) \/ Resting(caller'[Dispatcher])
  PROVE  PromiseInv'
<1>1. \A r \in promised' : r \in promised /\ r \in Rows
  BY WebhookTypes
<1>2. Placed'
  BY DEF PromiseInv, Placed, Dated
<1>3. Marks'
  <2>1. CASE SameHand(caller[Dispatcher], caller'[Dispatcher])
    BY <2>1 DEF PromiseInv, Marks, Mark, Listed, SameHand
  <2>2. CASE Resting(caller'[Dispatcher])
    BY <2>2 DEF PromiseInv, Marks, Mark, Listed, Resting, Lists
  <2> QED
    BY <2>1, <2>2
<1>4. PromisesStand'
  BY <1>1 DEF PromiseInv, PromisesStand, Visible
<1>5. SavedKeeps'
  BY <1>1 DEF PromiseInv, SavedKeeps, Covered
<1>6. WalkKeeps'
  <2>1. CASE SameHand(caller[Dispatcher], caller'[Dispatcher])
    BY <1>1, <2>1 DEF PromiseInv, WalkKeeps, Covered, InHand, SameHand
  <2>2. CASE Resting(caller'[Dispatcher])
    <3>1. \A r \in promised' : SourceOf(r[2]) \in {"stream", "conflict", "incident"}
      BY <1>1, WebhookTypes, WebhooksAssumption
    <3> QED
      BY <2>2, <3>1 DEF WalkKeeps, Resting
  <2> QED
    BY <2>1, <2>2
<1>7. HandIsEmpty'
  <2>1. CASE SameHand(caller[Dispatcher], caller'[Dispatcher])
    <3>1. \A h \in caller[Dispatcher].hooks : h \in Hooks
      BY WebhookTypes, CallerFields
    <3> QED
      BY <2>1, <3>1, WebhookTypes DEF PromiseInv, HandIsEmpty, SameHand
  <2>2. CASE Resting(caller'[Dispatcher])
    BY <2>2 DEF HandIsEmpty, Resting
  <2> QED
    BY <2>1, <2>2
<1> QED
  BY <1>2, <1>3, <1>4, <1>5, <1>6, <1>7 DEF PromiseInv

\* An event becomes visible, with a time of its own; promises are made of none other.
NewEvent(e) ==
  /\ e \notin Visible /\ e \notin resolved /\ at'[e] \in 1 .. TimeBound
  /\ \A o \in Events : o # e => at'[o] = at[o]
  /\ stream' \in Seq(Events) /\ Len(stream') \in Nat /\ Len(stream) <= Len(stream')
  /\ \A i \in 1 .. Len(stream) : stream'[i] = stream[i]
  /\ \A i \in 1 .. Len(stream') : i > Len(stream) => stream'[i] = e /\ SourceOf(e) = "stream"
  /\ listed \subseteq listed' /\ listed' \subseteq listed \cup {e}
  /\ e \in listed' => SourceOf(e) \in Lists
  /\ \A r \in promised' : r \in promised
       \/ /\ r \in Rows /\ r[2] = e /\ hook[r[1]] = "active" /\ e \in Visible'
          /\ SourceOf(e) \in Lists => \A o \in Listed(SourceOf(e)) : at[o] < at'[e]

LEMMA CoverStays ==
  ASSUME WTypes, PromiseInv, NEW e \in Events, NewEvent(e), NEW n \in Nat, NEW r \in promised',
         SourceOf(r[2]) = "stream" => n <= Len(stream),
         SourceOf(r[2]) \in Lists => Mark(SourceOf(r[2]), n),
         Covered(r[2], SourceOf(r[2]), n)'
  PROVE  r \in promised /\ Covered(r[2], SourceOf(r[2]), n)
<1>0. /\ stream \in Seq(Events) /\ listed \subseteq Events /\ at \in [Events -> 0 .. TimeBound] /\ Len(stream) \in Nat
  BY WebhookTypes DEF StreamTyped, AtTyped
<1>1. r \in Rows /\ r[2] \in Events /\ SourceOf(r[2]) \in {"stream", "conflict", "incident"}
  BY WebhookTypes, WebhooksAssumption DEF NewEvent
<1>2. CASE SourceOf(r[2]) = "stream"
  <2>1. PICK i \in 1 .. n : i <= Len(stream') /\ stream'[i] = r[2]
    BY <1>2 DEF Covered
  <2>2. i \in 1 .. Len(stream) /\ stream[i] = r[2]
    <3>1. i \in Nat /\ 1 <= i /\ i <= n /\ n <= Len(stream)
      BY <1>2, <2>1
    <3>2. i \in 1 .. Len(stream)
      BY <1>0, <3>1
    <3>3. stream'[i] = stream[i]
      BY <3>2 DEF NewEvent
    <3> QED
      BY <2>1, <3>2, <3>3
  <2>3. r[2] # e
    BY <2>2 DEF NewEvent, Visible
  <2> QED
    BY <1>2, <2>1, <2>2, <2>3 DEF NewEvent, Covered
<1>3. CASE SourceOf(r[2]) \in Lists
  <2>1. r[2] \in listed' /\ at'[r[2]] <= n
    BY <1>3 DEF Covered, Lists
  <2>2. r[2] # e
    <3> SUFFICES ASSUME r[2] = e PROVE FALSE
      OBVIOUS
    <3>0. r \notin promised
      BY DEF NewEvent, PromiseInv, PromisesStand
    <3>1. \A o \in Listed(SourceOf(e)) : at[o] < at'[e]
      BY <1>3, <3>0 DEF NewEvent
    <3>2. at'[e] \in 1 .. TimeBound /\ at'[e] <= n /\ TimeBound \in Nat
      BY <2>1, WebhooksAssumption DEF NewEvent
    <3>3. PICK o \in Listed(SourceOf(e)) : at[o] = n
      BY <1>3, <3>2 DEF Mark
    <3> QED
      BY <3>1, <3>2, <3>3
  <2>3. r \in promised /\ r[2] \in listed /\ at[r[2]] = at'[r[2]]
    BY <1>1, <2>1, <2>2 DEF NewEvent
  <2> QED
    BY <1>3, <2>1, <2>3 DEF Covered, Lists
<1> QED
  BY <1>1, <1>2, <1>3 DEF Lists

LEMMA NewEventStep ==
  ASSUME WTypes, PromiseInv, NEW e \in Events, NewEvent(e),
         hook' = hook, resolved' = resolved, saved' = saved, row' = row, caller' = caller
  PROVE  PromiseInv'
<1>0. /\ stream \in Seq(Events) /\ listed \subseteq Events /\ at \in [Events -> 0 .. TimeBound] /\ Len(stream) \in Nat
      /\ saved \in Cursor /\ caller[Dispatcher] \in Caller /\ TimeBound \in Nat /\ resolved \subseteq Events
  BY WebhookTypes, WebhooksAssumption DEF StreamTyped, AtTyped, SavedTyped
<1>1. \A i \in 1 .. Len(stream) : stream[i] # e /\ stream[i] \in Events /\ at'[stream[i]] = at[stream[i]]
  BY <1>0 DEF NewEvent, Visible
<1>2. e \notin listed /\ \A o \in listed : o # e /\ at'[o] = at[o]
  BY <1>0 DEF NewEvent, Visible
<1>3. Placed'
  <2>1. ASSUME NEW i \in 1 .. Len(stream') PROVE SourceOf(stream'[i]) = "stream" /\ at'[stream'[i]] # 0
    <3>1. CASE i <= Len(stream)
      <4>1. i \in 1 .. Len(stream)
        BY <1>0, <3>1 DEF NewEvent
      <4> QED
        BY <1>1, <4>1 DEF NewEvent, PromiseInv, Placed, Dated
    <3>2. CASE ~(i <= Len(stream))
      <4>1. stream'[i] = e /\ SourceOf(e) = "stream"
        BY <1>0, <3>2 DEF NewEvent
      <4> QED
        BY <1>0, <4>1 DEF NewEvent
    <3> QED
      BY <3>1, <3>2
  <2>2. \A o \in listed' : SourceOf(o) \in {"conflict", "incident"} /\ at'[o] # 0
    BY <1>0, <1>2 DEF NewEvent, PromiseInv, Placed, Dated, Lists
  <2>3. \A o \in resolved' : at'[o] # 0 /\ SourceOf(o) = "incident"
    BY <1>0 DEF NewEvent, PromiseInv, Placed, Dated
  <2> QED
    BY <2>1, <2>2, <2>3 DEF Placed, Dated
<1>4. Marks'
  <2>1. ASSUME NEW src \in Lists, NEW t, Mark(src, t) PROVE Mark(src, t)'
    BY <1>2, <2>1 DEF Mark, Listed, NewEvent
  <2>2. \A src \in Lists : Mark(src, saved[src])'
    BY <2>1 DEF PromiseInv, Marks
  <2>3. PICK n : n = caller[Dispatcher].top
    OBVIOUS
  <2>4. \A src \in Lists : caller'[Dispatcher].at = src => Mark(src, n)'
    BY <2>1, <2>3 DEF PromiseInv, Marks
  <2>5. n \in Nat
    BY <1>0, <2>3, CallerFields
  <2>6. saved'.stream <= Len(stream') /\ (caller'[Dispatcher].at = "stream" => n <= Len(stream'))
    BY <1>0, <2>3, <2>5 DEF PromiseInv, Marks, NewEvent, Cursor
  <2> QED
    BY <2>2, <2>3, <2>4, <2>6 DEF Marks, Mark
<1>5. PromisesStand'
  <2>1. Visible \subseteq Visible'
    <3>1. \A i \in 1 .. Len(stream) : i \in 1 .. Len(stream') /\ stream'[i] = stream[i]
      BY <1>0 DEF NewEvent
    <3> QED
      BY <3>1 DEF Visible, NewEvent
  <2> QED
    BY <2>1 DEF PromiseInv, PromisesStand, NewEvent
<1>6. SavedKeeps'
  <2> SUFFICES ASSUME NEW r \in promised', Covered(r[2], SourceOf(r[2]), saved[SourceOf(r[2])])'
               PROVE  row[r].status # "none"
    BY DEF SavedKeeps
  <2>1. r \in Rows /\ SourceOf(r[2]) \in {"stream", "conflict", "incident"}
    BY WebhookTypes, WebhooksAssumption DEF NewEvent
  <2>2. PICK n : n = saved[SourceOf(r[2])]
    OBVIOUS
  <2>3. n \in Nat
    BY <1>0, <2>1, <2>2 DEF Cursor
  <2>4. /\ SourceOf(r[2]) = "stream" => n <= Len(stream)
        /\ SourceOf(r[2]) \in Lists => Mark(SourceOf(r[2]), n)
    BY <2>2 DEF PromiseInv, Marks
  <2>5. Covered(r[2], SourceOf(r[2]), n)'
    BY <2>2 DEF Covered
  <2>6. r \in promised /\ Covered(r[2], SourceOf(r[2]), n)
    BY <2>3, <2>4, <2>5, CoverStays
  <2> QED
    BY <2>2, <2>6 DEF PromiseInv, SavedKeeps
<1>7. WalkKeeps'
  <2> SUFFICES ASSUME NEW r \in promised', caller[Dispatcher].at = SourceOf(r[2]),
                      Covered(r[2], SourceOf(r[2]), caller[Dispatcher].top)'
               PROVE  row[r].status # "none" \/ InHand(r)
    BY DEF WalkKeeps, InHand
  <2>2. PICK n : n = caller[Dispatcher].top
    OBVIOUS
  <2>3. n \in Nat
    BY <1>0, <2>2, CallerFields
  <2>4. /\ SourceOf(r[2]) = "stream" => n <= Len(stream)
        /\ SourceOf(r[2]) \in Lists => Mark(SourceOf(r[2]), n)
    BY <2>2 DEF PromiseInv, Marks
  <2>5. Covered(r[2], SourceOf(r[2]), n)'
    BY <2>2 DEF Covered
  <2>6. r \in promised /\ Covered(r[2], SourceOf(r[2]), n)
    BY <2>3, <2>4, <2>5, CoverStays
  <2> QED
    BY <2>2, <2>6 DEF PromiseInv, WalkKeeps
<1>8. HandIsEmpty'
  BY DEF PromiseInv, HandIsEmpty
<1> QED
  BY <1>3, <1>4, <1>5, <1>6, <1>7, <1>8 DEF PromiseInv

LEMMA SeesActive ==
  ASSUME WTypes, NEW e \in Events, NEW r \in Sees(e)
  PROVE  r \in Rows /\ r[2] = e /\ hook[r[1]] = "active"
BY WebhookTypes DEF Sees

LEMMA HappensPromise ==
  ASSUME WTypes, PromiseInv, NEW e \in Events, NEW t \in 1 .. TimeBound, Happens(e, t)
  PROVE  PromiseInv'
<1>0. /\ stream \in Seq(Events) /\ listed \subseteq Events /\ at \in [Events -> 0 .. TimeBound] /\ Len(stream) \in Nat
      /\ SourceOf(e) \in {"stream", "conflict", "incident"}
  BY WebhookTypes, WebhooksAssumption DEF StreamTyped, AtTyped
<1>1. /\ ~Dated(e) /\ at' = [at EXCEPT ![e] = t]
      /\ stream' = IF SourceOf(e) = "stream" THEN Append(stream, e) ELSE stream
      /\ listed' = IF SourceOf(e) = "incident" THEN listed \cup {e} ELSE listed
      /\ promised' = IF SourceOf(e) = "stream" \/ (SourceOf(e) = "incident" /\ InOrder(e, t))
                     THEN promised \cup Sees(e) ELSE promised
      /\ hook' = hook /\ resolved' = resolved /\ saved' = saved /\ row' = row /\ caller' = caller
  BY DEF Happens
<1>2. e \notin Visible /\ e \notin resolved
  <2>1. \A i \in 1 .. Len(stream) : stream[i] # e
    BY <1>1 DEF PromiseInv, Placed
  <2>2. e \notin listed /\ e \notin resolved
    BY <1>1 DEF PromiseInv, Placed
  <2> QED
    BY <2>1, <2>2 DEF Visible
<1>3. at'[e] = t /\ \A o \in Events : o # e => at'[o] = at[o]
  BY <1>0, <1>1
<1>4. /\ stream' \in Seq(Events) /\ Len(stream') \in Nat /\ Len(stream) <= Len(stream')
      /\ \A i \in 1 .. Len(stream) : stream'[i] = stream[i]
      /\ \A i \in 1 .. Len(stream') : i > Len(stream) => stream'[i] = e /\ SourceOf(e) = "stream"
      /\ SourceOf(e) = "stream" => \E i \in 1 .. Len(stream') : stream'[i] = e
  <2>1. CASE SourceOf(e) = "stream"
    <3>1. stream' = Append(stream, e)
      BY <1>1, <2>1
    <3>2. Len(stream') = Len(stream) + 1 /\ stream'[Len(stream) + 1] = e
      BY <1>0, <3>1
    <3>3. Len(stream) + 1 \in 1 .. Len(stream')
      BY <1>0, <3>2
    <3> QED
      BY <1>0, <2>1, <3>1, <3>2, <3>3
  <2>2. CASE SourceOf(e) # "stream"
    BY <1>0, <1>1, <2>2
  <2> QED
    BY <2>1, <2>2
<1>5. listed \subseteq listed' /\ listed' \subseteq listed \cup {e} /\ (e \in listed' => SourceOf(e) \in Lists)
  BY <1>1, <1>2 DEF Lists, Visible
<1>6. ASSUME NEW r \in promised', r \notin promised
      PROVE  /\ r \in Rows /\ r[2] = e /\ hook[r[1]] = "active" /\ e \in Visible'
             /\ SourceOf(e) \in Lists => \A o \in Listed(SourceOf(e)) : at[o] < at'[e]
  <2>1. /\ SourceOf(e) = "stream" \/ (SourceOf(e) = "incident" /\ InOrder(e, t))
        /\ r \in Sees(e)
    BY <1>1, <1>6
  <2>2. e \in Visible'
    BY <1>1, <1>4, <2>1 DEF Visible
  <2>3. SourceOf(e) \in Lists => \A o \in Listed(SourceOf(e)) : at[o] < at'[e]
    BY <1>3, <2>1 DEF Lists, InOrder
  <2> QED
    BY <2>1, <2>2, <2>3, SeesActive
<1>7. NewEvent(e)
  BY <1>2, <1>3, <1>4, <1>5, <1>6 DEF NewEvent
<1> QED
  BY <1>1, <1>7, NewEventStep

LEMMA ListConflictPromise ==
  ASSUME WTypes, PromiseInv, NEW e \in Events, ListConflict(e)
  PROVE  PromiseInv'
<1>0. /\ stream \in Seq(Events) /\ listed \subseteq Events /\ at \in [Events -> 0 .. TimeBound] /\ Len(stream) \in Nat
      /\ TimeBound \in Nat
  BY WebhookTypes, WebhooksAssumption DEF StreamTyped, AtTyped
<1>1. /\ SourceOf(e) = "conflict" /\ at[e] # 0 /\ e \notin listed
      /\ listed' = listed \cup {e}
      /\ promised' = IF InOrder(e, at[e]) THEN promised \cup Sees(e) ELSE promised
      /\ hook' = hook /\ resolved' = resolved /\ saved' = saved /\ row' = row /\ caller' = caller
      /\ stream' = stream /\ at' = at
  BY DEF ListConflict, Dated
<1>2. e \notin Visible /\ e \notin resolved
  <2>1. \A i \in 1 .. Len(stream) : stream[i] # e
    BY <1>1 DEF PromiseInv, Placed
  <2>2. e \notin resolved
    BY <1>1 DEF PromiseInv, Placed
  <2> QED
    BY <1>1, <2>1, <2>2 DEF Visible
<1>3. at'[e] \in 1 .. TimeBound
  BY <1>0, <1>1
<1>4. \A i \in 1 .. Len(stream') : ~(i > Len(stream))
  BY <1>0, <1>1
<1>5. ASSUME NEW r \in promised', r \notin promised
      PROVE  /\ r \in Rows /\ r[2] = e /\ hook[r[1]] = "active" /\ e \in Visible'
             /\ SourceOf(e) \in Lists => \A o \in Listed(SourceOf(e)) : at[o] < at'[e]
  <2>1. InOrder(e, at[e]) /\ r \in Sees(e)
    BY <1>1, <1>5
  <2> QED
    BY <1>1, <2>1, SeesActive DEF InOrder, Visible
<1>6. NewEvent(e)
  BY <1>0, <1>1, <1>2, <1>3, <1>4, <1>5 DEF NewEvent, Lists
<1> QED
  BY <1>1, <1>6, NewEventStep

LEMMA ResolvePromise ==
  ASSUME WTypes, PromiseInv, NEW e \in Events, Resolve(e)
  PROVE  PromiseInv'
<1>1. /\ SourceOf(e) = "incident" /\ Dated(e) /\ resolved' = resolved \cup {e}
      /\ promised' = promised \ (Hooks \X {e})
      /\ hook' = hook /\ stream' = stream /\ listed' = listed /\ at' = at /\ saved' = saved /\ row' = row
      /\ caller' = caller
  BY DEF Resolve
<1>2. \A r \in promised' : r \in promised /\ r \in Rows /\ r[2] # e
  BY <1>1, WebhookTypes DEF Rows
<1>3. Placed'
  BY <1>1 DEF PromiseInv, Placed, Dated
<1>4. Marks'
  BY <1>1 DEF PromiseInv, Marks, Mark, Listed
<1>5. PromisesStand'
  BY <1>1, <1>2 DEF PromiseInv, PromisesStand, Visible
<1>6. SavedKeeps'
  BY <1>1, <1>2 DEF PromiseInv, SavedKeeps, Covered
<1>7. WalkKeeps'
  BY <1>1, <1>2 DEF PromiseInv, WalkKeeps, Covered, InHand
<1>8. HandIsEmpty'
  BY <1>1 DEF PromiseInv, HandIsEmpty
<1> QED
  BY <1>3, <1>4, <1>5, <1>6, <1>7, <1>8 DEF PromiseInv

LEMMA SetPromise ==
  ASSUME WTypes, PromiseInv, NEW h \in Hooks, RegisterWebhook(h) \/ DeleteWebhook(h) \/ ReactivateWebhook(h)
  PROVE  PromiseInv'
<1>1. PICK to \in {"active", "gone"} :
        /\ hook' = [hook EXCEPT ![h] = to]
        /\ promised' = IF to = "gone" THEN promised \ ({h} \X Events) ELSE promised
        /\ stream' = stream /\ listed' = listed /\ at' = at /\ resolved' = resolved /\ saved' = saved
        /\ row' = row /\ caller' = caller
  BY DEF RegisterWebhook, DeleteWebhook, ReactivateWebhook, Set, sources
<1>2. ASSUME NEW r \in promised' PROVE r \in promised /\ hook'[r[1]] = "active"
  <2>1. r \in promised /\ r \in Rows /\ r[1] \in Hooks /\ r[2] \in Events /\ r = <<r[1], r[2]>>
    BY <1>1, WebhookTypes
  <2>2. to = "gone" => r[1] # h
    BY <1>1, <2>1
  <2>3. hook[r[1]] = "active"
    BY <2>1 DEF PromiseInv, PromisesStand
  <2> QED
    BY <1>1, <2>1, <2>2, <2>3, WebhookTypes DEF HookTyped
<1>3. SameHand(caller[Dispatcher], caller'[Dispatcher])
  BY <1>1 DEF SameHand
<1> QED
  BY <1>1, <1>2, <1>3, PromiseFrame

\* Answers change rows that are there, and webhooks.
LEMMA BecomesPromise ==
  ASSUME WTypes, PromiseInv, NEW h \in Hooks, NEW outcome \in {"active", "failed"}, Becomes(h, outcome)
  PROVE  promised' \subseteq promised /\ \A r \in promised' : hook'[r[1]] = "active"
<1>1. /\ hook' = IF Registered(h) THEN [hook EXCEPT ![h] = outcome] ELSE hook
      /\ promised' = IF outcome = "failed" THEN promised \ ({h} \X Events) ELSE promised
  BY DEF Becomes
<1>2. ASSUME NEW r \in promised' PROVE r \in promised /\ hook'[r[1]] = "active"
  <2>1. r \in promised /\ r \in Rows /\ r[1] \in Hooks /\ r[2] \in Events /\ r = <<r[1], r[2]>>
    BY <1>1, WebhookTypes
  <2>2. outcome = "failed" => r[1] # h
    BY <1>1, <2>1
  <2>3. hook[r[1]] = "active"
    BY <2>1 DEF PromiseInv, PromisesStand
  <2> QED
    BY <1>1, <2>1, <2>2, <2>3, WebhookTypes DEF HookTyped
<1> QED
  BY <1>2

LEMMA AnswerFacts ==
  ASSUME WTypes, NEW c \in Callers, Answered(c)
  PROVE  /\ caller[c].post # NoPost /\ caller[c].post.row \in Rows /\ caller[c].post.attempt \in 1 .. MaxAttempts
         /\ CallerTyped' /\ caller'[c].post = NoPost /\ caller'[c].due = caller[c].due
         /\ \A k \in Callers : SameHand(caller[k], caller'[k])
         /\ \A k \in Callers : k # c => caller'[k] = caller[k]
<1>1. /\ caller[c].post # NoPost /\ caller' = [caller EXCEPT ![c].post = NoPost]
  BY DEF Answered
<1>2. caller[c] \in Caller
  BY WebhookTypes
<1>3. PICK n : n = [caller[c] EXCEPT !.post = NoPost]
  OBVIOUS
<1>4. /\ n \in Caller /\ n.at = caller[c].at /\ n.events = caller[c].events /\ n.event = caller[c].event
      /\ n.hooks = caller[c].hooks /\ n.top = caller[c].top /\ n.due = caller[c].due /\ n.post = NoPost
  BY <1>2, <1>3 DEF Caller
<1>5. caller' = [caller EXCEPT ![c] = n]
  BY <1>1, <1>3
<1>6. CallerTyped' /\ caller'[c] = n /\ \A k \in Callers : k # c => caller'[k] = caller[k]
  BY <1>4, <1>5, WebhookTypes, CallerSet
<1>7. \A k \in Callers : SameHand(caller[k], caller'[k])
  BY <1>4, <1>6 DEF SameHand
<1> QED
  BY <1>1, <1>2, <1>4, <1>6, <1>7, CallerFields

LEMMA AnswerPromise ==
  ASSUME WTypes, PromiseInv, PostsInv, NEW c \in Callers, Delivers(c) \/ PostFails(c)
  PROVE  PromiseInv'
<1>1. PICK p : p = caller[c].post
  OBVIOUS
<1>2. /\ Answered(c) /\ stream' = stream /\ listed' = listed /\ at' = at /\ resolved' = resolved /\ saved' = saved
  BY DEF Delivers, PostFails, sources
<1>3. /\ p # NoPost /\ p.row \in Rows /\ p.row[1] \in Hooks
      /\ SameHand(caller[Dispatcher], caller'[Dispatcher])
  BY <1>1, <1>2, AnswerFacts, WebhookTypes
<1>4. PICK outcome \in {"delivered", "failed", "pending"} :
        row' = [row EXCEPT ![p.row] = [status |-> outcome, attempts |-> p.attempt, due |-> FALSE]]
  BY <1>1 DEF Delivers, PostFails
<1>5. row[p.row].status # "none"
  BY <1>1, <1>3, WebhookTypes DEF PostsInv, PostsAreCounted
<1>6. \A r \in Rows : row'[r].status = "none" <=> row[r].status = "none"
  BY <1>3, <1>4, <1>5, WebhookTypes DEF RowTyped
<1>7. promised' \subseteq promised /\ \A r \in promised' : hook'[r[1]] = "active"
  <2>1. CASE Becomes(p.row[1], "active")
    BY <1>3, <2>1, BecomesPromise
  <2>2. CASE Becomes(p.row[1], "failed")
    BY <1>3, <2>2, BecomesPromise
  <2>3. CASE UNCHANGED <<hook, promised>>
    BY <2>3 DEF PromiseInv, PromisesStand
  <2> QED
    BY <1>1, <2>1, <2>2, <2>3 DEF Delivers, PostFails
<1> QED
  BY <1>2, <1>3, <1>6, <1>7, PromiseFrame

\* A walk that begins has in hand what it will save as seen and has no row.
LEMMA WalkCovers ==
  ASSUME WTypes, PromiseInv, NEW r \in promised, NEW src, src = SourceOf(r[2]), Covered(r[2], src, Top(src))
  PROVE  row[r].status # "none" \/ r[2] \in Unseen(src)
<1>0. r \in Rows /\ r[2] \in Events /\ src \in {"stream", "conflict", "incident"} /\ saved \in Cursor
  BY WebhookTypes, WebhooksAssumption DEF SavedTyped
<1>1. Covered(r[2], src, saved[src]) => row[r].status # "none"
  BY DEF PromiseInv, SavedKeeps
<1>2. CASE src = "stream"
  <2>1. PICK i \in 1 .. Top(src) : i <= Len(stream) /\ stream[i] = r[2]
    BY <1>2 DEF Covered
  <2>2. Len(stream) \in Nat /\ saved.stream \in Nat /\ Top(src) = Len(stream)
    BY <1>0, <1>2, WebhookTypes DEF StreamTyped, Cursor, Top
  <2>3. CASE i <= saved.stream
    <3>1. i \in 1 .. saved.stream
      BY <2>1, <2>2, <2>3
    <3> QED
      BY <1>1, <1>2, <2>1, <3>1 DEF Covered
  <2>4. CASE ~(i <= saved.stream)
    <3>1. i \in saved.stream + 1 .. Len(stream)
      BY <2>1, <2>2, <2>4
    <3> QED
      BY <1>2, <2>1, <3>1 DEF Unseen
  <2> QED
    BY <2>3, <2>4
<1>3. CASE src # "stream"
  <2>1. r[2] \in listed
    BY <1>3 DEF Covered
  <2>2. at[r[2]] \in Int /\ saved[src] \in Int
    BY <1>0, <1>3, WebhookTypes, WebhooksAssumption DEF AtTyped, Cursor
  <2>3. CASE at[r[2]] <= saved[src]
    BY <1>1, <1>3, <2>1, <2>3 DEF Covered
  <2>4. CASE ~(at[r[2]] <= saved[src])
    <3>1. r[2] \notin resolved
      BY DEF PromiseInv, PromisesStand
    <3>2. at[r[2]] > saved[src]
      BY <2>2, <2>4
    <3> QED
      BY <1>3, <2>1, <3>1, <3>2 DEF Unseen, Listed
  <2> QED
    BY <2>3, <2>4
<1> QED
  BY <1>2, <1>3

LEMMA TopIsMark ==
  ASSUME WTypes, PromiseInv, NEW src \in {"stream", "conflict", "incident"}
  PROVE  /\ src = "stream" => Top(src) <= Len(stream)
         /\ src \in Lists => Mark(src, Top(src))
<1>1. CASE src = "stream"
  BY <1>1, WalkTyped, WebhookTypes DEF Lists, StreamTyped
<1>2. CASE src # "stream"
  <2>1. Top(src) = saved[src] \/ \E e \in Unseen(src) : Top(src) = at[e]
    BY <1>2, WalkTyped
  <2>2. Mark(src, saved[src])
    BY <1>2 DEF PromiseInv, Marks, Lists
  <2>3. Unseen(src) \subseteq Listed(src)
    BY <1>2 DEF Unseen
  <2> QED
    BY <1>2, <2>1, <2>2, <2>3 DEF Mark
<1> QED
  BY <1>1, <1>2

LEMMA StartPromise ==
  ASSUME WTypes, PromiseInv, StartCycle
  PROVE  PromiseInv'
<1>1. /\ caller' = [caller EXCEPT ![Dispatcher] = Walk("stream")]
      /\ hook' = hook /\ saved' = saved /\ row' = row /\ promised' = promised
      /\ stream' = stream /\ listed' = listed /\ at' = at /\ resolved' = resolved
  BY DEF StartCycle, sources
<1>2. PICK w : w = Walk("stream")
  OBVIOUS
<1>3. /\ w \in Caller /\ w.at = "stream" /\ w.events = Unseen("stream") /\ w.hooks = {} /\ w.top = Top("stream")
  BY <1>2, WalkTyped
<1>4. caller'[Dispatcher] = w
  BY <1>1, <1>2, WebhookTypes DEF CallerTyped
<1>5. Placed' /\ PromisesStand' /\ SavedKeeps'
  BY <1>1 DEF PromiseInv, Placed, Dated, PromisesStand, Visible, SavedKeeps, Covered
<1>6. Marks'
  BY <1>1, <1>3, <1>4, TopIsMark DEF PromiseInv, Marks, Mark, Listed, Lists
<1>7. WalkKeeps'
  <2>1. \A r \in promised : SourceOf(r[2]) = "stream" /\ Covered(r[2], SourceOf(r[2]), w.top) =>
          row[r].status # "none" \/ r[2] \in w.events
    BY <1>3, WalkCovers
  <2> QED
    BY <1>1, <1>3, <1>4, <2>1 DEF WalkKeeps, InHand, Covered
<1>8. HandIsEmpty'
  BY <1>3, <1>4 DEF HandIsEmpty
<1> QED
  BY <1>5, <1>6, <1>7, <1>8 DEF PromiseInv

LEMMA NextEventFacts ==
  ASSUME WTypes, NEW e \in caller[Dispatcher].events, NextEvent(e)
  PROVE  /\ e \in Events /\ caller[Dispatcher].hooks = {} /\ caller[Dispatcher].post = NoPost
         /\ CallerTyped' /\ caller'[Dispatcher].at = caller[Dispatcher].at
         /\ caller'[Dispatcher].events = caller[Dispatcher].events \ {e}
         /\ caller'[Dispatcher].event = e /\ caller'[Dispatcher].top = caller[Dispatcher].top
         /\ caller'[Dispatcher].hooks = {h \in Hooks : hook[h] = "active" /\ row[<<h, e>>].status = "none"}
         /\ caller'[Dispatcher].post = NoPost /\ caller'[Dispatcher].due = caller[Dispatcher].due
         /\ \A k \in Callers : k # Dispatcher => caller'[k] = caller[k]
<1>1. PICK d : d = caller[Dispatcher]
  OBVIOUS
<1>2. d \in Caller /\ e \in Events /\ d.hooks = {} /\ d.post = NoPost
  BY <1>1, WebhookTypes, CallerFields DEF NextEvent, Quiet
<1>3. PICK n : n = [d EXCEPT !.events = @ \ {e}, !.event = e,
                       !.hooks = {h \in Hooks : hook[h] = "active" /\ row[<<h, e>>].status = "none"}]
  OBVIOUS
<1>4. /\ n \in Caller /\ n.at = d.at /\ n.events = d.events \ {e} /\ n.event = e /\ n.top = d.top
      /\ n.hooks = {h \in Hooks : hook[h] = "active" /\ row[<<h, e>>].status = "none"}
      /\ n.post = d.post /\ n.due = d.due
  BY <1>2, <1>3 DEF Caller
<1>5. caller' = [caller EXCEPT ![Dispatcher] = n]
  BY <1>1, <1>3 DEF NextEvent
<1>6. CallerTyped' /\ caller'[Dispatcher] = n /\ \A k \in Callers : k # Dispatcher => caller'[k] = caller[k]
  BY <1>4, <1>5, WebhookTypes, CallerSet
<1> QED
  BY <1>1, <1>2, <1>4, <1>6

LEMMA NextEventPromise ==
  ASSUME WTypes, PromiseInv, NEW e \in caller[Dispatcher].events, NextEvent(e)
  PROVE  PromiseInv'
<1>1. /\ hook' = hook /\ saved' = saved /\ row' = row /\ promised' = promised
      /\ stream' = stream /\ listed' = listed /\ at' = at /\ resolved' = resolved
  BY DEF NextEvent, sources
<1>2. PICK d : d = caller[Dispatcher]
  OBVIOUS
<1>3. PICK n : n = caller'[Dispatcher]
  OBVIOUS
<1>4. /\ e \in Events /\ d.hooks = {} /\ n.at = d.at /\ n.events = d.events \ {e} /\ n.event = e /\ n.top = d.top
      /\ n.hooks = {h \in Hooks : hook[h] = "active" /\ row[<<h, e>>].status = "none"}
  BY <1>2, <1>3, NextEventFacts
<1>5. Placed' /\ PromisesStand' /\ SavedKeeps'
  BY <1>1 DEF PromiseInv, Placed, Dated, PromisesStand, Visible, SavedKeeps, Covered
<1>6. Marks'
  BY <1>1, <1>2, <1>3, <1>4 DEF PromiseInv, Marks, Mark, Listed, Lists
<1>7. WalkKeeps'
  <2> SUFFICES ASSUME NEW r \in promised, d.at = SourceOf(r[2]), Covered(r[2], SourceOf(r[2]), d.top)
               PROVE  row[r].status # "none" \/ r[2] \in n.events \/ (r[2] = n.event /\ r[1] \in n.hooks)
    BY <1>1, <1>3, <1>4 DEF WalkKeeps, InHand, Covered
  <2>1. r \in Rows /\ r[1] \in Hooks /\ r = <<r[1], r[2]>>
    BY WebhookTypes
  <2>2. row[r].status # "none" \/ r[2] \in d.events
    BY <1>2, <1>4 DEF PromiseInv, WalkKeeps, InHand
  <2>3. hook[r[1]] = "active"
    BY DEF PromiseInv, PromisesStand
  <2>4. CASE r[2] = e
    <3>1. row[<<r[1], e>>].status = "none" => r[1] \in n.hooks
      BY <1>4, <2>1, <2>3
    <3> QED
      BY <1>4, <2>1, <2>4, <3>1
  <2> QED
    BY <1>4, <2>2, <2>4
<1>8. HandIsEmpty'
  BY <1>1, <1>3, <1>4 DEF HandIsEmpty
<1> QED
  BY <1>5, <1>6, <1>7, <1>8 DEF PromiseInv

LEMMA EndOfSourcePromise ==
  ASSUME WTypes, PromiseInv, PostsInv, NEW i \in DOMAIN Sources, EndOfSource(i)
  PROVE  PromiseInv'
<1>0. i \in 1 .. 3 /\ Len(Sources) = 3 /\ Sources[1] = "stream" /\ Sources[2] = "conflict" /\ Sources[3] = "incident"
  BY DEF Sources
<1>1. PICK src : src = Sources[i]
  OBVIOUS
<1>2. PICK d : d = caller[Dispatcher]
  OBVIOUS
<1>3. /\ d.at = src /\ d.hooks = {} /\ d.events = {}
      /\ saved' = [saved EXCEPT ![src] = d.top]
      /\ caller' = [caller EXCEPT ![Dispatcher] = IF i < Len(Sources) THEN Walk(Sources[i + 1]) ELSE Work]
      /\ hook' = hook /\ row' = row /\ promised' = promised
      /\ stream' = stream /\ listed' = listed /\ at' = at /\ resolved' = resolved
  BY <1>1, <1>2 DEF EndOfSource, SaveTo, sources
<1>4. src \in {"stream", "conflict", "incident"} /\ d \in Caller /\ saved \in Cursor
  BY <1>0, <1>1, <1>2, WebhookTypes DEF SavedTyped
<1>5. PICK n : n = IF i < Len(Sources) THEN Walk(Sources[i + 1]) ELSE Work
  OBVIOUS
<1>6. caller'[Dispatcher] = n
  BY <1>3, <1>5, WebhookTypes DEF CallerTyped
<1>7. saved'[src] = d.top /\ \A s \in {"stream", "conflict", "incident"} : s # src => saved'[s] = saved[s]
  BY <1>3, <1>4 DEF Cursor
<1>8. n.hooks = {} /\ (n.at = "due" \/ (/\ n.at \in Lists /\ n.at # src
                                        /\ n.events = Unseen(n.at) /\ n.top = Top(n.at)))
  <2>1. CASE i = 3
    BY <1>0, <1>5, <2>1, WorkOfDue DEF PostsInv
  <2>2. CASE i # 3
    <3>1. n = Walk(Sources[i + 1]) /\ Sources[i + 1] \in Lists /\ Sources[i + 1] # src
      <4>1. i = 1 \/ i = 2
        BY <1>0, <2>2
      <4> QED
        BY <1>0, <1>1, <1>5, <4>1 DEF Lists
    <3> QED
      BY <3>1, WalkTyped DEF Lists
  <2> QED
    BY <2>1, <2>2
<1>9. Placed' /\ PromisesStand'
  BY <1>3 DEF PromiseInv, Placed, Dated, PromisesStand, Visible
<1>10. \A r \in promised : Covered(r[2], SourceOf(r[2]), saved'[SourceOf(r[2])]) => row[r].status # "none"
  <2> SUFFICES ASSUME NEW r \in promised, Covered(r[2], SourceOf(r[2]), saved'[SourceOf(r[2])])
               PROVE  row[r].status # "none"
    OBVIOUS
  <2>1. SourceOf(r[2]) \in {"stream", "conflict", "incident"}
    BY WebhookTypes, WebhooksAssumption
  <2>2. CASE SourceOf(r[2]) = src
    BY <1>2, <1>3, <1>7, <2>2 DEF PromiseInv, WalkKeeps, InHand
  <2>3. CASE SourceOf(r[2]) # src
    BY <1>7, <2>1, <2>3 DEF PromiseInv, SavedKeeps
  <2> QED
    BY <2>2, <2>3
<1>11. SavedKeeps'
  BY <1>3, <1>10 DEF SavedKeeps, Covered
<1>12. Marks'
  <2>1. saved'.stream <= Len(stream)
    <3>1. CASE src = "stream"
      BY <1>2, <1>3, <1>7, <3>1 DEF PromiseInv, Marks
    <3>2. CASE src # "stream"
      BY <1>7, <3>2 DEF PromiseInv, Marks
    <3> QED
      BY <3>1, <3>2
  <2>2. \A s \in Lists : Mark(s, saved'[s])
    <3> SUFFICES ASSUME NEW s \in Lists PROVE Mark(s, saved'[s])
      OBVIOUS
    <3>1. CASE s = src
      BY <1>2, <1>3, <1>7, <3>1 DEF PromiseInv, Marks
    <3>2. CASE s # src
      BY <1>7, <3>2 DEF PromiseInv, Marks, Lists
    <3> QED
      BY <3>1, <3>2
  <2>3. \A s \in Lists : n.at = s => Mark(s, n.top)
    BY <1>8, TopIsMark DEF Lists
  <2> QED
    BY <1>3, <1>6, <1>8, <2>1, <2>2, <2>3 DEF Marks, Mark, Listed, Lists
<1>13. WalkKeeps'
  <2> SUFFICES ASSUME NEW r \in promised, n.at = SourceOf(r[2]), Covered(r[2], SourceOf(r[2]), n.top)
               PROVE  row[r].status # "none" \/ r[2] \in n.events
    BY <1>3, <1>6 DEF WalkKeeps, InHand, Covered
  <2>1. SourceOf(r[2]) \in {"stream", "conflict", "incident"}
    BY WebhookTypes, WebhooksAssumption
  <2> QED
    BY <1>8, <2>1, WalkCovers DEF Lists
<1>14. HandIsEmpty'
  BY <1>6, <1>8 DEF HandIsEmpty
<1> QED
  BY <1>9, <1>11, <1>12, <1>13, <1>14 DEF PromiseInv

\* A post begins.
LEMMA PostsFacts ==
  ASSUME WTypes, NEW c \in Callers, NEW r \in Rows, NEW n \in 0 .. MaxAttempts - 1, NEW new \in Caller,
         Posts(c, r, n, new)
  PROVE  /\ CallerTyped' /\ sent' \in [Rows -> Sent]
         /\ SameHand(new, caller'[c]) /\ caller'[c].due = new.due
         /\ caller'[c].post = [row |-> r, attempt |-> n + 1] /\ caller'[c].post # NoPost
         /\ \A k \in Callers : k # c => caller'[k] = caller[k]
         /\ \A q \in Rows : q # r => sent'[q] = sent[q]
         /\ sent'[r].taken = sent[r].taken
         /\ sent[r].posts <= sent'[r].posts /\ sent'[r].posts <= sent[r].posts + 1
         /\ n <= sent[r].posts => n + 1 <= sent'[r].posts
         /\ ~sent'[r].shared => ~sent[r].shared /\ ~Shared(r, n)
<1>1. PICK p : p = [new EXCEPT !.post = [row |-> r, attempt |-> n + 1]]
  OBVIOUS
<1>2. [row |-> r, attempt |-> n + 1] \in Post
  <2>1. n + 1 \in 1 .. MaxAttempts
    BY WebhooksAssumption
  <2> QED
    BY <2>1 DEF Post
<1>3. /\ p \in Caller /\ p.at = new.at /\ p.events = new.events /\ p.event = new.event /\ p.hooks = new.hooks
      /\ p.top = new.top /\ p.due = new.due /\ p.post = [row |-> r, attempt |-> n + 1]
  BY <1>1, <1>2 DEF Caller
<1>4. caller' = [caller EXCEPT ![c] = p]
  BY <1>1 DEF Posts
<1>5. CallerTyped' /\ caller'[c] = p /\ \A k \in Callers : k # c => caller'[k] = caller[k]
  BY <1>3, <1>4, WebhookTypes, CallerSet
<1>6. sent \in [Rows -> Sent] /\ sent[r] \in Sent
  BY WebhookTypes DEF SentTyped
<1>7. PICK b \in BOOLEAN : b = (sent[r].shared \/ Shared(r, n))
  OBVIOUS
<1>8. PICK m : m = IF sent[r].posts > MaxAttempts + CrashBound THEN sent[r].posts ELSE sent[r].posts + 1
  OBVIOUS
<1>9. /\ m \in Nat /\ sent[r].posts <= m /\ m <= sent[r].posts + 1
      /\ n <= sent[r].posts => n + 1 <= m
  BY <1>6, <1>8, WebhooksAssumption DEF Sent
<1>10. PICK s : s = [sent[r] EXCEPT !.posts = m, !.shared = b]
  OBVIOUS
<1>11. s \in Sent /\ s.taken = sent[r].taken /\ s.posts = m /\ s.shared = b
  BY <1>6, <1>9, <1>10 DEF Sent
<1>12. sent' = [sent EXCEPT ![r] = s]
  <2>1. sent' = [sent EXCEPT ![r].posts = m, ![r].shared = sent[r].shared \/ Shared(r, n)]
    BY <1>6, <1>8 DEF Posts, Sent
  <2> QED
    BY <1>6, <1>7, <1>10, <2>1
<1>13. sent' \in [Rows -> Sent] /\ sent'[r] = s /\ \A q \in Rows : q # r => sent'[q] = sent[q]
  BY <1>6, <1>11, <1>12
<1>14. ~s.shared => ~sent[r].shared /\ ~Shared(r, n)
  BY <1>7, <1>11
<1> QED
  BY <1>3, <1>5, <1>9, <1>11, <1>13, <1>14, NoPostIsNone DEF SameHand

LEMMA DispatchFacts ==
  ASSUME WTypes, PromiseInv, NEW h \in Hooks, DispatchTo(h)
  PROVE  /\ h \in caller[Dispatcher].hooks /\ caller[Dispatcher].event \in Events
         /\ caller[Dispatcher].post = NoPost
         /\ <<h, caller[Dispatcher].event>> \in Rows
         /\ row[<<h, caller[Dispatcher].event>>].status = "none"
         /\ 0 \in 0 .. MaxAttempts - 1
         /\ row' = [row EXCEPT ![<<h, caller[Dispatcher].event>>] = [status |-> "pending", attempts |-> 0, due |-> TRUE]]
         /\ \E new \in Caller :
              /\ new.at = caller[Dispatcher].at /\ new.events = caller[Dispatcher].events
              /\ new.top = caller[Dispatcher].top /\ new.due = caller[Dispatcher].due
              /\ new.hooks = caller[Dispatcher].hooks \ {h}
              /\ new.event = IF caller[Dispatcher].hooks = {h} THEN NoEvent ELSE caller[Dispatcher].event
              /\ Posts(Dispatcher, <<h, caller[Dispatcher].event>>, 0, new)
<1>1. PICK d : d = caller[Dispatcher]
  OBVIOUS
<1>2. d \in Caller /\ h \in d.hooks /\ d.post = NoPost
  BY <1>1, WebhookTypes DEF DispatchTo, Quiet
<1>3. d.event \in Events /\ row[<<h, d.event>>].status = "none"
  BY <1>1, <1>2 DEF PromiseInv, HandIsEmpty
<1>4. PICK new : new = [d EXCEPT !.hooks = @ \ {h}, !.event = IF d.hooks = {h} THEN NoEvent ELSE @]
  OBVIOUS
<1>5. /\ new \in Caller /\ new.at = d.at /\ new.events = d.events /\ new.top = d.top /\ new.due = d.due
      /\ new.hooks = d.hooks \ {h} /\ new.event = IF d.hooks = {h} THEN NoEvent ELSE d.event
  BY <1>2, <1>4 DEF Caller
<1>6. Posts(Dispatcher, <<h, d.event>>, 0, new)
  BY <1>1, <1>4 DEF DispatchTo
<1>7. row' = [row EXCEPT ![<<h, d.event>>] = [status |-> "pending", attempts |-> 0, due |-> TRUE]]
  BY <1>1 DEF DispatchTo
<1>8. 0 \in 0 .. MaxAttempts - 1
  BY WebhooksAssumption
<1> QED
  BY <1>1, <1>2, <1>3, <1>5, <1>6, <1>7, <1>8, WebhookTypes

LEMMA DispatchPromise ==
  ASSUME WTypes, PromiseInv, NEW h \in Hooks, DispatchTo(h)
  PROVE  PromiseInv'
<1>1. PICK d : d = caller[Dispatcher]
  OBVIOUS
<1>2. PICK x : x = <<h, d.event>>
  OBVIOUS
<1>3. PICK new \in Caller :
        /\ new.at = d.at /\ new.events = d.events /\ new.top = d.top /\ new.due = d.due
        /\ new.hooks = d.hooks \ {h} /\ new.event = IF d.hooks = {h} THEN NoEvent ELSE d.event
        /\ Posts(Dispatcher, x, 0, new)
  BY <1>1, <1>2, DispatchFacts
<1>4. /\ h \in d.hooks /\ d.event \in Events /\ x \in Rows /\ row[x].status = "none" /\ 0 \in 0 .. MaxAttempts - 1
      /\ row' = [row EXCEPT ![x] = [status |-> "pending", attempts |-> 0, due |-> TRUE]]
  BY <1>1, <1>2, DispatchFacts
<1>5. PICK n : n = caller'[Dispatcher]
  OBVIOUS
<1>6. SameHand(new, n)
  BY <1>3, <1>4, <1>5, PostsFacts, WebhookTypes
<1>7. /\ n.at = d.at /\ n.events = d.events /\ n.top = d.top /\ n.hooks = d.hooks \ {h}
      /\ n.event = IF d.hooks = {h} THEN NoEvent ELSE d.event
  BY <1>3, <1>6 DEF SameHand
<1>8. /\ hook' = hook /\ saved' = saved /\ promised' = promised
      /\ stream' = stream /\ listed' = listed /\ at' = at /\ resolved' = resolved
  BY DEF DispatchTo, sources
<1>9. row'[x].status = "pending" /\ \A q \in Rows : q # x => row'[q] = row[q]
  BY <1>4, WebhookTypes DEF RowTyped
<1>10. Placed' /\ PromisesStand'
  BY <1>8 DEF PromiseInv, Placed, Dated, PromisesStand, Visible
<1>11. Marks'
  BY <1>1, <1>5, <1>7, <1>8 DEF PromiseInv, Marks, Mark, Listed, Lists
<1>12. SavedKeeps'
  <2>1. \A r \in promised : Covered(r[2], SourceOf(r[2]), saved[SourceOf(r[2])]) => row'[r].status # "none"
    BY <1>9, WebhookTypes DEF PromiseInv, SavedKeeps
  <2> QED
    BY <1>8, <2>1 DEF SavedKeeps, Covered
<1>13. WalkKeeps'
  <2> SUFFICES ASSUME NEW r \in promised, d.at = SourceOf(r[2]), Covered(r[2], SourceOf(r[2]), d.top)
               PROVE  row'[r].status # "none" \/ r[2] \in d.events \/ (r[2] = n.event /\ r[1] \in n.hooks)
    BY <1>5, <1>7, <1>8 DEF WalkKeeps, InHand, Covered
  <2>1. r \in Rows /\ r = <<r[1], r[2]>>
    BY WebhookTypes
  <2>2. row[r].status # "none" \/ r[2] \in d.events \/ (r[2] = d.event /\ r[1] \in d.hooks)
    BY <1>1 DEF PromiseInv, WalkKeeps, InHand
  <2>3. CASE r = x
    BY <1>9, <2>3
  <2>4. CASE r # x
    <3>1. row'[r] = row[r]
      BY <1>9, <2>1, <2>4
    <3>2. r[2] = d.event => r[1] # h
      BY <1>2, <2>1, <2>4
    <3> QED
      BY <1>7, <2>2, <3>1, <3>2
  <2> QED
    BY <2>3, <2>4
<1>14. HandIsEmpty'
  <2> SUFFICES ASSUME NEW k \in n.hooks PROVE n.event \in Events /\ row'[<<k, n.event>>].status = "none"
    BY <1>5 DEF HandIsEmpty
  <2>1. k \in d.hooks /\ k # h /\ n.event = d.event
    BY <1>7
  <2>2. row[<<k, d.event>>].status = "none" /\ k \in Hooks
    BY <1>1, <2>1, WebhookTypes, CallerFields DEF PromiseInv, HandIsEmpty
  <2>3. <<k, d.event>> # x /\ <<k, d.event>> \in Rows
    BY <1>2, <1>4, <2>1, <2>2, WebhookTypes
  <2> QED
    BY <1>4, <1>9, <2>1, <2>2, <2>3
<1> QED
  BY <1>10, <1>11, <1>12, <1>13, <1>14 DEF PromiseInv

LEMMA PostDueFacts ==
  ASSUME WTypes, PostsInv, NEW c \in Callers, NEW d \in caller[c].due, PostDue(c, d)
  PROVE  /\ d.row \in Rows /\ d.attempts \in 0 .. MaxAttempts - 1 /\ caller[c].post = NoPost
         /\ row[d.row].status # "none" /\ d.attempts <= sent[d.row].posts
         /\ CallerTyped' /\ SentTyped'
         /\ SameHand(caller[c], caller'[c]) /\ caller'[c].due = caller[c].due \ {d}
         /\ \A k \in Callers : k # c => caller'[k] = caller[k]
         /\ \/ \E new \in Caller : Posts(c, d.row, d.attempts, new)
            \/ caller'[c].post = NoPost /\ sent' = sent
<1>1. PICK u : u = caller[c]
  OBVIOUS
<1>2. u \in Caller /\ d \in u.due /\ u.post = NoPost
  BY <1>1, WebhookTypes DEF PostDue, Quiet
<1>3. d \in Due
  BY <1>2, CallerFields
<1>4. d.row \in Rows /\ d.attempts \in 0 .. MaxAttempts - 1
  BY <1>3 DEF Due
<1>5. row[d.row].status # "none" /\ d.attempts <= sent[d.row].posts
  BY <1>1, <1>2 DEF PostsInv, PostsAreCounted
<1>6. PICK rest : rest = [u EXCEPT !.due = @ \ {d}]
  OBVIOUS
<1>7. /\ rest \in Caller /\ rest.at = u.at /\ rest.events = u.events /\ rest.event = u.event
      /\ rest.hooks = u.hooks /\ rest.top = u.top /\ rest.due = u.due \ {d} /\ rest.post = NoPost
  BY <1>2, <1>6 DEF Caller
<1>8. IF Registered(d.row[1]) THEN Posts(c, d.row, d.attempts, rest)
      ELSE caller' = [caller EXCEPT ![c] = rest] /\ sent' = sent
  BY <1>1, <1>6 DEF PostDue
<1>9. promised' = promised
  BY DEF PostDue
<1>10. CASE Registered(d.row[1])
  <2>1. Posts(c, d.row, d.attempts, rest)
    BY <1>8, <1>10
  <2>2. /\ CallerTyped' /\ sent' \in [Rows -> Sent]
        /\ SameHand(rest, caller'[c]) /\ caller'[c].due = rest.due
        /\ \A k \in Callers : k # c => caller'[k] = caller[k]
    <3>1. PICK r \in Rows, n \in 0 .. MaxAttempts - 1 : r = d.row /\ n = d.attempts
      BY <1>4
    <3>2. Posts(c, r, n, rest)
      BY <2>1, <3>1
    <3>3. rest \in Caller
      BY <1>7
    <3>4. CallerTyped' /\ sent' \in [Rows -> Sent]
      BY <3>2, <3>3, PostsFacts
    <3>5. SameHand(rest, caller'[c]) /\ caller'[c].due = rest.due
      BY <3>2, <3>3, PostsFacts
    <3>6. \A k \in Callers : k # c => caller'[k] = caller[k]
      BY <3>2, <3>3, PostsFacts
    <3> QED
      BY <3>4, <3>5, <3>6
  <2>3. SameHand(u, caller'[c])
    BY <1>7, <2>2 DEF SameHand
  <2> QED
    BY <1>1, <1>2, <1>4, <1>5, <1>7, <1>9, <2>1, <2>2, <2>3, WebhookTypes DEF SentTyped
<1>11. CASE ~Registered(d.row[1])
  <2>1. caller' = [caller EXCEPT ![c] = rest] /\ sent' = sent
    BY <1>8, <1>11
  <2>2. CallerTyped' /\ caller'[c] = rest /\ \A k \in Callers : k # c => caller'[k] = caller[k]
    BY <1>7, <2>1, WebhookTypes, CallerSet
  <2>3. SameHand(u, caller'[c])
    BY <1>7, <2>2 DEF SameHand
  <2> QED
    BY <1>1, <1>2, <1>4, <1>5, <1>7, <1>9, <2>1, <2>2, <2>3, WebhookTypes DEF SentTyped
<1> QED
  BY <1>10, <1>11

LEMMA CallerPromise ==
  ASSUME WTypes, PromiseInv, PostsInv,
         \/ \E c \in Callers : EndDue(c) \/ \E d \in caller[c].due : PostDue(c, d)
         \/ \E m \in Manuals : AskForDue(m)
         \/ HubRestarts
         \/ \E r \in Rows : BackoffEnds(r)
  PROVE  PromiseInv'
<1>1. /\ stream' = stream /\ listed' = listed /\ at' = at /\ resolved' = resolved /\ saved' = saved
      /\ hook' = hook /\ promised' = promised
  BY DEF EndDue, PostDue, AskForDue, HubRestarts, BackoffEnds, sources
<1>2. \A r \in promised : hook[r[1]] = "active"
  BY DEF PromiseInv, PromisesStand
<1>3. Resting(Idle) /\ Resting(Work)
  BY WorkOfDue DEF Resting, Idle, PostsInv
<1>4. SameHand(caller[Dispatcher], caller[Dispatcher])
  BY DEF SameHand
<1>5. \A r \in Rows : row'[r].status = "none" <=> row[r].status = "none"
  <2>1. ASSUME NEW r \in Rows, BackoffEnds(r) PROVE \A q \in Rows : row'[q].status = "none" <=> row[q].status = "none"
    BY <2>1, WebhookTypes DEF BackoffEnds, RowTyped, Row
  <2> QED
    BY <2>1 DEF EndDue, PostDue, AskForDue, HubRestarts
<1>6. SameHand(caller[Dispatcher], caller'[Dispatcher]) \/ Resting(caller'[Dispatcher])
  <2>1. ASSUME NEW c \in Callers, EndDue(c)
        PROVE  SameHand(caller[Dispatcher], caller'[Dispatcher]) \/ Resting(caller'[Dispatcher])
    BY <1>3, <1>4, <2>1, WebhookTypes DEF EndDue, CallerTyped
  <2>2. ASSUME NEW c \in Callers, NEW d \in caller[c].due, PostDue(c, d)
        PROVE  SameHand(caller[Dispatcher], caller'[Dispatcher]) \/ Resting(caller'[Dispatcher])
    <3>1. SameHand(caller[c], caller'[c]) /\ \A k \in Callers : k # c => caller'[k] = caller[k]
      BY <2>2, PostDueFacts
    <3> QED
      BY <1>4, <3>1, WebhookTypes
  <2>3. ASSUME NEW m \in Manuals, AskForDue(m)
        PROVE  SameHand(caller[Dispatcher], caller'[Dispatcher]) \/ Resting(caller'[Dispatcher])
    <3>1. m \in Callers
      BY DEF Callers
    <3> QED
      BY <1>3, <1>4, <2>3, <3>1, WebhookTypes DEF AskForDue, CallerTyped
  <2>4. CASE HubRestarts
    BY <1>3, <2>4, WebhookTypes DEF HubRestarts
  <2>5. CASE caller' = caller
    BY <1>4, <2>5
  <2> QED
    BY <2>1, <2>2, <2>3, <2>4, <2>5 DEF BackoffEnds
<1> QED
  BY <1>1, <1>2, <1>5, <1>6, PromiseFrame

-----------------------------------------------------------------------------
(* Posts *)

LEMMA PostsFrame ==
  ASSUME WTypes, PostsInv, sent' = sent, stops' = stops,
         \A r \in Rows : row'[r].status = row[r].status /\ row'[r].attempts = row[r].attempts,
         \A c \in Callers : /\ caller'[c].post = caller[c].post
                            /\ \A d \in caller'[c].due : d \in caller[c].due \/ d \in DueRows
  PROVE  PostsInv'
<1>0. \A d \in DueRows : /\ d.row \in Rows /\ row[d.row].status # "none"
                         /\ d.attempts <= sent[d.row].posts
  <2>1. \A d \in DueRows : d.row \in Rows /\ row[d.row].status = "pending" /\ d.attempts = row[d.row].attempts
    BY DueRowsTyped DEF PostsInv, Due
  <2> QED
    BY <2>1 DEF PostsInv, PostsAreCounted
<1>1. \A c \in Callers : /\ caller[c].post # NoPost => caller[c].post.row \in Rows
                         /\ \A d \in caller[c].due : d.row \in Rows
  BY WebhookTypes, CallerFields DEF Due
<1>2. PostsAreCounted'
  <2>1. \A r \in Rows :
          /\ row'[r].status = "none" => row'[r].attempts = 0
          /\ row'[r].status = "pending" => row'[r].attempts < MaxAttempts
          /\ row'[r].attempts <= sent[r].posts
          /\ sent[r].taken => row'[r].status # "none"
    BY DEF PostsInv, PostsAreCounted
  <2>2. \A c \in Callers : caller'[c].post # NoPost =>
            /\ row'[caller'[c].post.row].status # "none"
            /\ caller'[c].post.attempt <= sent[caller'[c].post.row].posts
    BY <1>1 DEF PostsInv, PostsAreCounted
  <2>3. \A c \in Callers : \A d \in caller'[c].due :
            row'[d.row].status # "none" /\ d.attempts <= sent[d.row].posts
    <3> SUFFICES ASSUME NEW c \in Callers, NEW d \in caller'[c].due
                 PROVE  row'[d.row].status # "none" /\ d.attempts <= sent[d.row].posts
      OBVIOUS
    <3>1. CASE d \in caller[c].due
      BY <1>1, <3>1 DEF PostsInv, PostsAreCounted
    <3>2. CASE d \in DueRows
      BY <1>0, <3>2
    <3> QED
      BY <3>1, <3>2
  <2> QED
    BY <2>1, <2>2, <2>3 DEF PostsAreCounted
<1>3. \A c \in Callers, r \in Rows : Posting(c, r)' <=> Posting(c, r)
  BY DEF Posting
<1>4. UnsharedIsCounted'
  <2> SUFFICES ASSUME NEW r \in Rows, ~sent[r].shared PROVE OwnPosts(r)'
    BY DEF UnsharedIsCounted
  <2>1. OwnPosts(r)
    BY DEF PostsInv, UnsharedIsCounted
  <2> QED
    BY <1>3, <2>1 DEF OwnPosts
<1> QED
  BY <1>2, <1>4 DEF PostsInv

LEMMA PostsBegin ==
  ASSUME WTypes, PostsInv, NEW c \in Callers, NEW r \in Rows, NEW n \in 0 .. MaxAttempts - 1, NEW new \in Caller,
         Posts(c, r, n, new), caller[c].post = NoPost, new.due \subseteq caller[c].due,
         n <= sent[r].posts, stops' = stops,
         row'[r].attempts = row[r].attempts,
         \/ row[r].status # "none" /\ row'[r].status = row[r].status
         \/ row[r].status = "none" /\ row'[r].status = "pending",
         \A q \in Rows : q # r => row'[q] = row[q]
  PROVE  PostsInv'
<1>1. /\ sent' \in [Rows -> Sent]
      /\ caller'[c].due = new.due
      /\ caller'[c].post = [row |-> r, attempt |-> n + 1] /\ caller'[c].post # NoPost
      /\ \A k \in Callers : k # c => caller'[k] = caller[k]
      /\ \A q \in Rows : q # r => sent'[q] = sent[q]
  BY PostsFacts
<1>2. /\ sent'[r].taken = sent[r].taken
      /\ sent[r].posts <= sent'[r].posts /\ sent'[r].posts <= sent[r].posts + 1
      /\ n + 1 <= sent'[r].posts
      /\ ~sent'[r].shared => ~sent[r].shared /\ ~Shared(r, n)
  BY PostsFacts
<1>3. /\ \A q \in Rows : sent[q].posts \in Nat /\ sent'[q].posts \in Nat
      /\ row[r].attempts \in Nat /\ stops \in Nat /\ MaxAttempts \in Nat \ {0}
  BY <1>1, WebhookTypes, WebhooksAssumption DEF Sent, Row, LimitsTyped
<1>4. \A q \in Rows : sent[q].posts <= sent'[q].posts
  BY <1>1, <1>2, <1>3
<1>5. \A q \in Rows : row[q].status # "none" => row'[q].status # "none"
  OBVIOUS
<1>6. \A k \in Callers : /\ caller[k].post # NoPost => caller[k].post.row \in Rows /\ caller[k].post.attempt \in Nat
                         /\ \A d \in caller[k].due : d.row \in Rows /\ d.attempts \in Nat
  <2> SUFFICES ASSUME NEW k \in Callers
               PROVE  /\ caller[k].post # NoPost => caller[k].post.row \in Rows /\ caller[k].post.attempt \in Nat
                      /\ \A d \in caller[k].due : d.row \in Rows /\ d.attempts \in Nat
    OBVIOUS
  <2>1. caller[k] \in Caller
    BY WebhookTypes
  <2>2. 0 .. MaxAttempts - 1 \subseteq Nat /\ 1 .. MaxAttempts \subseteq Nat
    BY <1>3
  <2>3. caller[k].due \subseteq Due
    BY <2>1, CallerFields
  <2>4. caller[k].post # NoPost => caller[k].post.row \in Rows /\ caller[k].post.attempt \in 1 .. MaxAttempts
    BY <2>1, CallerFields
  <2> QED
    BY <2>2, <2>3, <2>4 DEF Due
<1>7. PostsAreCounted'
  <2>1. ASSUME NEW q \in Rows
        PROVE  /\ row'[q].status = "none" => row'[q].attempts = 0
               /\ row'[q].status = "pending" => row'[q].attempts < MaxAttempts
               /\ row'[q].attempts <= sent'[q].posts
               /\ sent'[q].taken => row'[q].status # "none"
    <3>1. /\ row[q].status = "none" => row[q].attempts = 0
          /\ row[q].status = "pending" => row[q].attempts < MaxAttempts
          /\ row[q].attempts <= sent[q].posts
          /\ sent[q].taken => row[q].status # "none"
          /\ row[q].attempts \in Nat
      BY WebhookTypes DEF PostsInv, PostsAreCounted, Row
    <3>2. CASE q = r
      BY <1>2, <1>3, <3>1, <3>2
    <3>3. CASE q # r
      BY <1>1, <3>1, <3>3
    <3> QED
      BY <3>2, <3>3
  <2>2. ASSUME NEW k \in Callers, caller'[k].post # NoPost
        PROVE  /\ row'[caller'[k].post.row].status # "none"
               /\ caller'[k].post.attempt <= sent'[caller'[k].post.row].posts
    <3>1. CASE k = c
      BY <1>1, <1>2, <3>1
    <3>2. CASE k # c
      <4>1. caller'[k] = caller[k]
        BY <1>1, <3>2
      <4>2. PICK q \in Rows : q = caller[k].post.row
        BY <1>6, <2>2, <4>1
      <4>3. row[q].status # "none" /\ caller[k].post.attempt <= sent[q].posts /\ caller[k].post.attempt \in Nat
        BY <1>6, <2>2, <4>1, <4>2 DEF PostsInv, PostsAreCounted
      <4>4. sent[q].posts <= sent'[q].posts /\ sent[q].posts \in Nat /\ sent'[q].posts \in Nat
        BY <1>3, <1>4
      <4>5. caller[k].post.attempt <= sent'[q].posts
        BY <4>3, <4>4
      <4> QED
        BY <1>5, <4>1, <4>2, <4>3, <4>5
    <3> QED
      BY <3>1, <3>2
  <2>3. ASSUME NEW k \in Callers, NEW d \in caller'[k].due
        PROVE  row'[d.row].status # "none" /\ d.attempts <= sent'[d.row].posts
    <3>1. d \in caller[k].due
      BY <1>1
    <3>2. PICK q \in Rows : q = d.row
      BY <1>6, <3>1
    <3>3. row[q].status # "none" /\ d.attempts <= sent[q].posts /\ d.attempts \in Nat
      BY <1>6, <3>1, <3>2 DEF PostsInv, PostsAreCounted
    <3>4. sent[q].posts <= sent'[q].posts /\ sent[q].posts \in Nat /\ sent'[q].posts \in Nat
      BY <1>3, <1>4
    <3>5. d.attempts <= sent'[q].posts
      BY <3>3, <3>4
    <3> QED
      BY <1>5, <3>2, <3>3, <3>5
  <2> QED
    BY <2>1, <2>2, <2>3 DEF PostsAreCounted
<1>8. \A k \in Callers, q \in Rows : q # r => (Posting(k, q)' <=> Posting(k, q))
  BY <1>1 DEF Posting
<1>9. UnsharedIsCounted'
  <2> SUFFICES ASSUME NEW q \in Rows, ~sent'[q].shared PROVE OwnPosts(q)'
    BY DEF UnsharedIsCounted
  <2>1. CASE q # r
    <3>1. OwnPosts(q)
      BY <1>1, <2>1 DEF PostsInv, UnsharedIsCounted
    <3>2. row'[q] = row[q] /\ sent'[q] = sent[q]
      BY <1>1, <2>1
    <3>3. \A k \in Callers : Posting(k, q) => caller'[k] = caller[k]
      BY <1>1 DEF Posting
    <3> QED
      BY <1>8, <2>1, <3>1, <3>2, <3>3 DEF OwnPosts
  <2>2. CASE q = r
    <3>1. OwnPosts(r) /\ ~Shared(r, n)
      BY <1>2, <2>2 DEF PostsInv, UnsharedIsCounted
    <3>2. /\ \A k \in Callers : ~Posting(k, r)
          /\ row[r].status \notin {"delivered", "failed"} /\ row[r].attempts = n
      BY <3>1 DEF Shared, Posting
    <3>3. row'[r].status = "pending" /\ row'[r].attempts = n
      BY <3>2, WebhookTypes DEF Row
    <3>4. sent[r].posts <= n + stops /\ ~sent[r].taken
      BY <3>1, <3>2 DEF OwnPosts
    <3>5. \A k \in Callers : Posting(k, r)' => k = c
      BY <1>1, <3>2 DEF Posting
    <3>6. Posting(c, r)' /\ caller'[c].post.attempt = n + 1
      BY <1>1 DEF Posting
    <3>7. sent'[r].posts <= n + 1 + stops /\ ~sent'[r].taken
      BY <1>2, <1>3, <3>4
    <3> QED
      BY <2>2, <3>3, <3>5, <3>6, <3>7 DEF OwnPosts
  <2> QED
    BY <2>1, <2>2
<1> QED
  BY <1>7, <1>9 DEF PostsInv

LEMMA PostsEnd ==
  ASSUME WTypes, PostsInv, NEW c \in Callers, Delivers(c) \/ PostFails(c)
  PROVE  PostsInv'
<1>1. PICK p : p = caller[c].post
  OBVIOUS
<1>2. /\ p # NoPost /\ p.row \in Rows /\ p.attempt \in 1 .. MaxAttempts
      /\ caller'[c].post = NoPost /\ caller'[c].due = caller[c].due
      /\ \A k \in Callers : k # c => caller'[k] = caller[k]
  BY <1>1, AnswerFacts DEF Delivers, PostFails
<1>3. PICK r \in Rows : r = p.row
  BY <1>2
<1>4. PICK s \in {"delivered", "failed", "pending"} :
        /\ row' = [row EXCEPT ![r] = [status |-> s, attempts |-> p.attempt, due |-> FALSE]]
        /\ s = "pending" => p.attempt < MaxAttempts
        /\ s = "delivered" => sent' = [sent EXCEPT ![r].taken = TRUE]
        /\ s # "delivered" => sent' = sent
  <2>1. CASE Delivers(c)
    BY <1>1, <1>3, <2>1 DEF Delivers
  <2>2. CASE PostFails(c)
    <3>1. p.attempt \in Nat /\ MaxAttempts \in Nat
      BY <1>2, WebhooksAssumption
    <3> QED
      BY <1>1, <1>3, <2>2, <3>1 DEF PostFails, Exhausted
  <2> QED
    BY <2>1, <2>2
<1>5. stops' = stops
  BY DEF Delivers, PostFails
<1>6. /\ row'[r].status = s /\ row'[r].attempts = p.attempt
      /\ \A q \in Rows : q # r => row'[q] = row[q]
  BY <1>4, WebhookTypes DEF RowTyped
<1>7. /\ \A q \in Rows : sent'[q].posts = sent[q].posts /\ sent'[q].shared = sent[q].shared
      /\ \A q \in Rows : q # r => sent'[q] = sent[q]
      /\ sent'[r].taken => s = "delivered" \/ sent[r].taken
  BY <1>4, WebhookTypes DEF SentTyped, Sent
<1>8. \A k \in Callers : /\ caller[k].post # NoPost => caller[k].post.row \in Rows
                         /\ \A d \in caller[k].due : d.row \in Rows
  BY WebhookTypes, CallerFields DEF Due
<1>9. \A q \in Rows : row[q].status # "none" => row'[q].status # "none"
  BY <1>6
<1>10. PostsAreCounted'
  <2>1. ASSUME NEW q \in Rows
        PROVE  /\ row'[q].status = "none" => row'[q].attempts = 0
               /\ row'[q].status = "pending" => row'[q].attempts < MaxAttempts
               /\ row'[q].attempts <= sent'[q].posts
               /\ sent'[q].taken => row'[q].status # "none"
    <3>1. CASE q = r
      BY <1>1, <1>2, <1>3, <1>4, <1>6, <1>7, <3>1 DEF PostsInv, PostsAreCounted
    <3>2. CASE q # r
      BY <1>6, <1>7, <3>2 DEF PostsInv, PostsAreCounted
    <3> QED
      BY <3>1, <3>2
  <2>2. ASSUME NEW k \in Callers, caller'[k].post # NoPost
        PROVE  /\ row'[caller'[k].post.row].status # "none"
               /\ caller'[k].post.attempt <= sent'[caller'[k].post.row].posts
    <3>1. caller'[k] = caller[k]
      BY <1>2, <2>2
    <3> QED
      BY <1>7, <1>8, <1>9, <2>2, <3>1 DEF PostsInv, PostsAreCounted
  <2>3. ASSUME NEW k \in Callers, NEW d \in caller'[k].due
        PROVE  row'[d.row].status # "none" /\ d.attempts <= sent'[d.row].posts
    <3>1. d \in caller[k].due
      BY <1>2
    <3> QED
      BY <1>7, <1>8, <1>9, <3>1 DEF PostsInv, PostsAreCounted
  <2> QED
    BY <2>1, <2>2, <2>3 DEF PostsAreCounted
<1>11. \A k \in Callers, q \in Rows : q # r => (Posting(k, q)' <=> Posting(k, q))
  BY <1>1, <1>2, <1>3 DEF Posting
<1>12. UnsharedIsCounted'
  <2> SUFFICES ASSUME NEW q \in Rows, ~sent'[q].shared PROVE OwnPosts(q)'
    BY DEF UnsharedIsCounted
  <2>0. OwnPosts(q)
    BY <1>7 DEF PostsInv, UnsharedIsCounted
  <2>1. CASE q # r
    <3>1. row'[q] = row[q] /\ sent'[q] = sent[q]
      BY <1>6, <1>7, <2>1
    <3>2. \A k \in Callers : Posting(k, q) => caller'[k] = caller[k]
      BY <1>1, <1>2, <1>3, <2>1 DEF Posting
    <3> QED
      BY <1>5, <1>11, <2>0, <2>1, <3>1, <3>2 DEF OwnPosts
  <2>2. CASE q = r
    <3>1. Posting(c, r)
      BY <1>1, <1>2, <1>3 DEF Posting
    <3>2. /\ row[r].status = "pending" /\ p.attempt = row[r].attempts + 1
          /\ sent[r].posts <= row[r].attempts + 1 + stops
          /\ \A k \in Callers : Posting(k, r) => k = c
          /\ ~sent[r].taken
      BY <1>1, <2>0, <2>2, <3>1 DEF OwnPosts
    <3>3. \A k \in Callers : ~Posting(k, r)'
      BY <1>2, <3>2 DEF Posting
    <3>4. sent'[r].posts <= row'[r].attempts + stops
      BY <1>6, <1>7, <3>2
    <3>5. sent'[r].taken => row'[r].status = "delivered"
      BY <1>6, <1>7, <3>2
    <3> QED
      BY <1>5, <2>2, <3>3, <3>4, <3>5 DEF OwnPosts
  <2> QED
    BY <2>1, <2>2
<1> QED
  BY <1>10, <1>12 DEF PostsInv

LEMMA RestartPosts ==
  ASSUME WTypes, PostsInv, HubRestarts
  PROVE  PostsInv'
<1>1. /\ stops' = stops + 1 /\ row' = row /\ sent' = sent
      /\ \A c \in Callers : caller'[c].post = NoPost /\ caller'[c].due = {}
  BY DEF HubRestarts, Idle
<1>2. PostsAreCounted'
  BY <1>1 DEF PostsInv, PostsAreCounted
<1>3. UnsharedIsCounted'
  <2> SUFFICES ASSUME NEW r \in Rows, ~sent[r].shared PROVE OwnPosts(r)'
    BY <1>1 DEF UnsharedIsCounted
  <2>0. OwnPosts(r)
    BY DEF PostsInv, UnsharedIsCounted
  <2>1. \A c \in Callers : ~Posting(c, r)'
    BY <1>1 DEF Posting
  <2>2. sent[r].posts \in Nat /\ row[r].attempts \in Nat /\ stops \in Nat
    BY WebhookTypes DEF Sent, Row, LimitsTyped
  <2>3. sent[r].posts <= row[r].attempts + (stops + 1)
    <3>1. CASE \E c \in Callers : Posting(c, r)
      <4>1. sent[r].posts <= row[r].attempts + 1 + stops
        BY <2>0, <3>1 DEF OwnPosts
      <4> QED
        BY <2>2, <4>1
    <3>2. CASE \A c \in Callers : ~Posting(c, r)
      <4>1. sent[r].posts <= row[r].attempts + stops
        BY <2>0, <3>2 DEF OwnPosts
      <4> QED
        BY <2>2, <4>1
    <3> QED
      BY <3>1, <3>2
  <2> QED
    BY <1>1, <2>0, <2>1, <2>3 DEF OwnPosts
<1> QED
  BY <1>2, <1>3 DEF PostsInv

LEMMA SourcePosts ==
  ASSUME WTypes, PostsInv,
         \/ \E e \in Events : ListConflict(e) \/ Resolve(e) \/ \E t \in 1 .. TimeBound : Happens(e, t)
         \/ \E h \in Hooks : RegisterWebhook(h) \/ DeleteWebhook(h) \/ ReactivateWebhook(h)
  PROVE  PostsInv'
<1>1. sent' = sent /\ stops' = stops /\ row' = row /\ caller' = caller
  BY DEF ListConflict, Resolve, Happens, RegisterWebhook, DeleteWebhook, ReactivateWebhook, Set
<1> QED
  BY <1>1, PostsFrame

LEMMA BackoffPosts ==
  ASSUME WTypes, PostsInv, NEW r \in Rows, BackoffEnds(r)
  PROVE  PostsInv'
<1>1. /\ row' = [row EXCEPT ![r].due = TRUE] /\ sent' = sent /\ stops' = stops /\ caller' = caller
  BY DEF BackoffEnds
<1>2. \A q \in Rows : row'[q].status = row[q].status /\ row'[q].attempts = row[q].attempts
  BY <1>1, WebhookTypes DEF RowTyped, Row
<1> QED
  BY <1>1, <1>2, PostsFrame

\* A caller that posts nothing is replaced by one that posts nothing.
LEMMA ReplacedPosts ==
  ASSUME WTypes, PostsInv, NEW c \in Callers, NEW n, caller' = [caller EXCEPT ![c] = n],
         caller[c].post = NoPost, n.post = NoPost, n.due \subseteq caller[c].due \/ n.due = DueRows,
         row' = row, sent' = sent, stops' = stops
  PROVE  PostsInv'
<1>1. caller'[c] = n /\ \A k \in Callers : k # c => caller'[k] = caller[k]
  BY WebhookTypes DEF CallerTyped
<1>2. \A k \in Callers : /\ caller'[k].post = caller[k].post
                         /\ \A d \in caller'[k].due : d \in caller[k].due \/ d \in DueRows
  BY <1>1
<1> QED
  BY <1>2, PostsFrame

LEMMA PostDuePosts ==
  ASSUME WTypes, PostsInv, NEW c \in Callers, NEW d \in caller[c].due, PostDue(c, d)
  PROVE  PostsInv'
<1>1. PICK r \in Rows, n \in 0 .. MaxAttempts - 1 : r = d.row /\ n = d.attempts
  BY PostDueFacts
<1>2. /\ caller[c].post = NoPost /\ row[r].status # "none" /\ n <= sent[r].posts
      /\ \A k \in Callers : k # c => caller'[k] = caller[k]
  BY <1>1, PostDueFacts
<1>3. row' = row /\ stops' = stops
  BY DEF PostDue
<1>4. CASE Registered(d.row[1])
  <2>1. PICK rest : rest = [caller[c] EXCEPT !.due = @ \ {d}]
    OBVIOUS
  <2>2. rest \in Caller /\ rest.due \subseteq caller[c].due
    BY <2>1, WebhookTypes DEF Caller
  <2>3. Posts(c, r, n, rest)
    BY <1>1, <1>4, <2>1 DEF PostDue
  <2>4. \A q \in Rows : q # r => row'[q] = row[q]
    BY <1>3
  <2>5. row'[r].attempts = row[r].attempts /\ row'[r].status = row[r].status
    BY <1>3
  <2> QED
    BY <1>2, <1>3, <2>2, <2>3, <2>4, <2>5, PostsBegin
<1>5. CASE ~Registered(d.row[1])
  <2>1. PICK rest : rest = [caller[c] EXCEPT !.due = @ \ {d}]
    OBVIOUS
  <2>2. rest.due \subseteq caller[c].due /\ rest.post = NoPost
    BY <1>2, <2>1, WebhookTypes DEF Caller
  <2>3. caller' = [caller EXCEPT ![c] = rest] /\ sent' = sent
    BY <1>5, <2>1 DEF PostDue
  <2> QED
    BY <1>2, <1>3, <2>2, <2>3, ReplacedPosts
<1> QED
  BY <1>4, <1>5

LEMMA RestPosts ==
  ASSUME WTypes, PostsInv, (\E c \in Callers : EndDue(c)) \/ \E m \in Manuals : AskForDue(m)
  PROVE  PostsInv'
<1>0. Idle.post = NoPost /\ Idle.due = {}
  BY DEF Idle
<1>1. ASSUME NEW c \in Callers, EndDue(c) PROVE PostsInv'
  <2>1. /\ caller' = [caller EXCEPT ![c] = Idle] /\ row' = row /\ sent' = sent /\ stops' = stops
        /\ caller[c].post = NoPost /\ Idle.due \subseteq caller[c].due
    BY <1>0, <1>1 DEF EndDue, Quiet
  <2> QED
    BY <1>0, <2>1, ReplacedPosts
<1>2. ASSUME NEW m \in Manuals, AskForDue(m) PROVE PostsInv'
  <2>1. /\ caller' = [caller EXCEPT ![m] = Work] /\ row' = row /\ sent' = sent /\ stops' = stops
        /\ caller[m].post = NoPost /\ m \in Callers
    BY <1>0, <1>2 DEF AskForDue, Callers
  <2>2. Work.post = NoPost /\ Work.due = DueRows
    BY WorkOfDue DEF PostsInv
  <2> QED
    BY <2>1, <2>2, ReplacedPosts
<1> QED
  BY <1>1, <1>2

LEMMA DispatcherPosts ==
  ASSUME WTypes, PromiseInv, PostsInv, DispatcherStep
  PROVE  PostsInv'
<1>0. Dispatcher \in Callers /\ Idle.post = NoPost /\ Idle.due = {}
  BY WebhookTypes DEF Idle
<1>1. CASE StartCycle
  <2>1. PICK n : n = Walk("stream")
    OBVIOUS
  <2>2. n.post = NoPost /\ n.due = {}
    BY <2>1, WalkTyped
  <2>3. /\ caller' = [caller EXCEPT ![Dispatcher] = n] /\ row' = row /\ sent' = sent /\ stops' = stops
        /\ caller[Dispatcher].post = NoPost
    BY <1>0, <1>1, <2>1 DEF StartCycle
  <2> QED
    BY <1>0, <2>2, <2>3, ReplacedPosts
<1>2. ASSUME NEW e \in caller[Dispatcher].events, NextEvent(e) PROVE PostsInv'
  <2>1. /\ caller'[Dispatcher].post = caller[Dispatcher].post /\ caller'[Dispatcher].due = caller[Dispatcher].due
        /\ \A k \in Callers : k # Dispatcher => caller'[k] = caller[k]
    BY <1>2, NextEventFacts
  <2>2. row' = row /\ sent' = sent /\ stops' = stops
    BY <1>2 DEF NextEvent
  <2>3. \A k \in Callers : /\ caller'[k].post = caller[k].post
                           /\ \A d \in caller'[k].due : d \in caller[k].due \/ d \in DueRows
    BY <2>1
  <2> QED
    BY <2>2, <2>3, PostsFrame
<1>3. ASSUME NEW h \in Hooks, DispatchTo(h) PROVE PostsInv'
  <2>1. PICK x : x = <<h, caller[Dispatcher].event>>
    OBVIOUS
  <2>2. PICK new \in Caller : new.due = caller[Dispatcher].due /\ Posts(Dispatcher, x, 0, new)
    BY <1>3, <2>1, DispatchFacts
  <2>3. /\ x \in Rows /\ row[x].status = "none" /\ 0 \in 0 .. MaxAttempts - 1 /\ caller[Dispatcher].post = NoPost
        /\ row' = [row EXCEPT ![x] = [status |-> "pending", attempts |-> 0, due |-> TRUE]]
    BY <1>3, <2>1, DispatchFacts
  <2>4. row[x].attempts = 0 /\ 0 <= sent[x].posts
    BY <2>3, WebhookTypes DEF PostsInv, PostsAreCounted, Sent
  <2>5. /\ row'[x].status = "pending" /\ row'[x].attempts = row[x].attempts
        /\ \A q \in Rows : q # x => row'[q] = row[q]
    BY <2>3, <2>4, WebhookTypes DEF RowTyped
  <2>6. stops' = stops /\ new.due \subseteq caller[Dispatcher].due
    BY <1>3, <2>2 DEF DispatchTo
  <2> QED
    BY <1>0, <2>2, <2>3, <2>4, <2>5, <2>6, PostsBegin
<1>4. ASSUME NEW i \in DOMAIN Sources, EndOfSource(i) PROVE PostsInv'
  <2>1. PICK n : n = IF i < Len(Sources) THEN Walk(Sources[i + 1]) ELSE Work
    OBVIOUS
  <2>2. n.post = NoPost /\ (n.due = {} \/ n.due = DueRows)
    <3>1. CASE i < Len(Sources)
      <4>1. i = 1 \/ i = 2
        BY <3>1 DEF Sources
      <4>2. Sources[i + 1] \in {"stream", "conflict", "incident"}
        BY <4>1 DEF Sources
      <4>3. n = Walk(Sources[i + 1])
        BY <2>1, <3>1
      <4> QED
        BY <4>2, <4>3, WalkTyped
    <3>2. CASE ~(i < Len(Sources))
      <4>1. n = Work
        BY <2>1, <3>2
      <4> QED
        BY <4>1, WorkOfDue DEF PostsInv
    <3> QED
      BY <3>1, <3>2
  <2>3. /\ caller' = [caller EXCEPT ![Dispatcher] = n] /\ row' = row /\ sent' = sent /\ stops' = stops
        /\ caller[Dispatcher].post = NoPost
    BY <1>4, <2>1 DEF EndOfSource, Quiet
  <2>4. n.due \subseteq caller[Dispatcher].due \/ n.due = DueRows
    BY <2>2
  <2> QED
    BY <1>0, <2>2, <2>3, <2>4, ReplacedPosts
<1>5. ASSUME NEW d \in caller[Dispatcher].due, PostDue(Dispatcher, d) PROVE PostsInv'
  BY <1>0, <1>5, PostDuePosts
<1>6. CASE EndDue(Dispatcher)
  BY <1>0, <1>6, RestPosts
<1> QED
  BY <1>1, <1>2, <1>3, <1>4, <1>5, <1>6 DEF DispatcherStep

-----------------------------------------------------------------------------
(* Types of each step, and the invariant. *)

LEMMA SourceTypes ==
  ASSUME WTypes, \E e \in Events : ListConflict(e) \/ Resolve(e) \/ \E t \in 1 .. TimeBound : Happens(e, t)
  PROVE  WTypes'
<1>0. /\ stream \in Seq(Events) /\ listed \subseteq Events /\ at \in [Events -> 0 .. TimeBound] /\ resolved \subseteq Events
      /\ promised \subseteq Rows /\ TimeBound \in Nat
  BY WebhookTypes, WebhooksAssumption DEF StreamTyped, AtTyped, SentTyped
<1>1. /\ hook' = hook /\ saved' = saved /\ row' = row /\ caller' = caller /\ sent' = sent /\ changes' = changes
      /\ stops' = stops
  BY DEF ListConflict, Resolve, Happens
<1>2. HookTyped' /\ SavedTyped' /\ RowTyped' /\ CallerTyped' /\ LimitsTyped'
  BY <1>1, WebhookTypes DEF HookTyped, SavedTyped, RowTyped, CallerTyped, LimitsTyped
<1>3. \A e \in Events : Sees(e) \subseteq Rows
  BY SeesActive
<1>4. stream' \in Seq(Events) /\ listed' \subseteq Events /\ at' \in [Events -> 0 .. TimeBound] /\ resolved' \subseteq Events
      /\ promised' \subseteq Rows
  <2>1. ASSUME NEW e \in Events, ListConflict(e)
        PROVE  /\ stream' \in Seq(Events) /\ listed' \subseteq Events /\ at' \in [Events -> 0 .. TimeBound]
               /\ resolved' \subseteq Events /\ promised' \subseteq Rows
    BY <1>0, <1>3, <2>1 DEF ListConflict
  <2>2. ASSUME NEW e \in Events, Resolve(e)
        PROVE  /\ stream' \in Seq(Events) /\ listed' \subseteq Events /\ at' \in [Events -> 0 .. TimeBound]
               /\ resolved' \subseteq Events /\ promised' \subseteq Rows
    BY <1>0, <2>2 DEF Resolve
  <2>3. ASSUME NEW e \in Events, NEW t \in 1 .. TimeBound, Happens(e, t)
        PROVE  /\ stream' \in Seq(Events) /\ listed' \subseteq Events /\ at' \in [Events -> 0 .. TimeBound]
               /\ resolved' \subseteq Events /\ promised' \subseteq Rows
    <3>1. Append(stream, e) \in Seq(Events)
      BY <1>0
    <3>2. t \in 0 .. TimeBound
      BY <1>0
    <3> QED
      BY <1>0, <1>3, <2>3, <3>1, <3>2 DEF Happens
  <2> QED
    BY <2>1, <2>2, <2>3
<1> QED
  BY <1>1, <1>2, <1>4, WebhookTypes DEF WTypes, StreamTyped, AtTyped, SentTyped

LEMMA SetTypes ==
  ASSUME WTypes, \E h \in Hooks : RegisterWebhook(h) \/ DeleteWebhook(h) \/ ReactivateWebhook(h)
  PROVE  WTypes'
<1>1. PICK h \in Hooks, to \in {"active", "gone"} :
        /\ hook' = [hook EXCEPT ![h] = to] /\ changes < OwnerBound /\ changes' = changes + 1
        /\ promised' \subseteq promised
        /\ stream' = stream /\ listed' = listed /\ at' = at /\ resolved' = resolved /\ saved' = saved
        /\ row' = row /\ caller' = caller /\ sent' = sent /\ stops' = stops
  BY DEF RegisterWebhook, DeleteWebhook, ReactivateWebhook, Set, sources, OwnersTurn
<1>2. HookTyped'
  BY <1>1, WebhookTypes DEF HookTyped
<1>3. LimitsTyped'
  BY <1>1, WebhookTypes, WebhooksAssumption DEF LimitsTyped
<1> QED
  BY <1>1, <1>2, <1>3, WebhookTypes
     DEF WTypes, StreamTyped, AtTyped, SentTyped, SavedTyped, RowTyped, CallerTyped

LEMMA AnswerTypes ==
  ASSUME WTypes, NEW c \in Callers, Delivers(c) \/ PostFails(c)
  PROVE  WTypes'
<1>1. PICK p : p = caller[c].post
  OBVIOUS
<1>2. p.row \in Rows /\ p.attempt \in 1 .. MaxAttempts /\ CallerTyped'
  BY <1>1, AnswerFacts DEF Delivers, PostFails
<1>3. PICK s \in {"delivered", "failed", "pending"} :
        row' = [row EXCEPT ![p.row] = [status |-> s, attempts |-> p.attempt, due |-> FALSE]]
  BY <1>1 DEF Delivers, PostFails
<1>4. [status |-> s, attempts |-> p.attempt, due |-> FALSE] \in Row
  <2>1. p.attempt \in 0 .. MaxAttempts
    BY <1>2, WebhooksAssumption
  <2> QED
    BY <2>1 DEF Row
<1>5. RowTyped'
  BY <1>2, <1>3, <1>4, WebhookTypes DEF RowTyped
<1>6. HookTyped' /\ promised' \subseteq promised
  <2>1. ASSUME NEW outcome \in {"active", "failed"}, Becomes(p.row[1], outcome)
        PROVE  HookTyped' /\ promised' \subseteq promised
    BY <1>2, <2>1, WebhookTypes DEF Becomes, HookTyped
  <2>2. CASE UNCHANGED <<hook, promised>>
    BY <2>2, WebhookTypes DEF HookTyped
  <2> QED
    BY <1>1, <2>1, <2>2 DEF Delivers, PostFails
<1>7. sent' \in [Rows -> Sent]
  <2>1. sent' = sent \/ sent' = [sent EXCEPT ![p.row].taken = TRUE]
    BY <1>1 DEF Delivers, PostFails
  <2>2. sent \in [Rows -> Sent]
    BY WebhookTypes DEF SentTyped
  <2>3. [sent[p.row] EXCEPT !.taken = TRUE] \in Sent
    BY <1>2, <2>2 DEF Sent
  <2>4. CASE sent' = [sent EXCEPT ![p.row].taken = TRUE]
    <3>1. sent' = [sent EXCEPT ![p.row] = [sent[p.row] EXCEPT !.taken = TRUE]]
      BY <2>4
    <3> QED
      BY <2>2, <2>3, <3>1
  <2> QED
    BY <2>1, <2>2, <2>4
<1>8. /\ saved' = saved /\ changes' = changes /\ stops' = stops
      /\ stream' = stream /\ listed' = listed /\ at' = at /\ resolved' = resolved
  BY DEF Delivers, PostFails, sources
<1> QED
  BY <1>2, <1>5, <1>6, <1>7, <1>8, WebhookTypes
     DEF WTypes, StreamTyped, AtTyped, SentTyped, SavedTyped, LimitsTyped

LEMMA BackoffTypes ==
  ASSUME WTypes, NEW r \in Rows, BackoffEnds(r)
  PROVE  WTypes'
<1>1. /\ row' = [row EXCEPT ![r].due = TRUE]
      /\ hook' = hook /\ promised' = promised /\ caller' = caller /\ sent' = sent
      /\ saved' = saved /\ changes' = changes /\ stops' = stops
      /\ stream' = stream /\ listed' = listed /\ at' = at /\ resolved' = resolved
  BY DEF BackoffEnds, sources
<1>2. RowTyped'
  <2>1. PICK n : n = [row[r] EXCEPT !.due = TRUE]
    OBVIOUS
  <2>2. n \in Row
    <3>1. row[r] \in Row
      BY WebhookTypes
    <3> QED
      BY <2>1, <3>1 DEF Row
  <2>3. row' = [row EXCEPT ![r] = n]
    BY <1>1, <2>1
  <2> QED
    BY <2>2, <2>3, WebhookTypes DEF RowTyped
<1> QED
  BY <1>1, <1>2, WebhookTypes
     DEF WTypes, HookTyped, StreamTyped, AtTyped, SentTyped, SavedTyped, CallerTyped, LimitsTyped

\* Steps that change the callers, the saved state and the posts.
LEMMA CallerTypes ==
  ASSUME WTypes, CallerTyped', SavedTyped', RowTyped', sent' \in [Rows -> Sent], LimitsTyped',
         hook' = hook, promised' = promised, UNCHANGED sources
  PROVE  WTypes'
BY WebhookTypes DEF WTypes, HookTyped, StreamTyped, AtTyped, SentTyped, sources

LEMMA DispatcherTypes ==
  ASSUME WTypes, PromiseInv, PostsInv,
         \/ DispatcherStep
         \/ \E c \in Callers : EndDue(c) \/ \E d \in caller[c].due : PostDue(c, d)
         \/ \E m \in Manuals : AskForDue(m)
         \/ HubRestarts
  PROVE  WTypes'
<1>0. /\ SavedTyped /\ RowTyped /\ CallerTyped /\ sent \in [Rows -> Sent] /\ LimitsTyped
      /\ changes \in 0 .. OwnerBound /\ stops \in 0 .. CrashBound /\ Dispatcher \in Callers
  BY WebhookTypes DEF SentTyped, LimitsTyped
<1>1. CASE StartCycle
  <2>1. PICK n : n = Walk("stream")
    OBVIOUS
  <2>2. n \in Caller
    BY <2>1, WalkTyped
  <2>3. /\ caller' = [caller EXCEPT ![Dispatcher] = n] /\ hook' = hook /\ saved' = saved /\ row' = row
        /\ promised' = promised /\ sent' = sent /\ changes' = changes /\ stops' = stops /\ UNCHANGED sources
    BY <1>1, <2>1 DEF StartCycle
  <2>4. CallerTyped'
    BY <1>0, <2>2, <2>3, CallerSet
  <2> QED
    BY <1>0, <2>3, <2>4, CallerTypes DEF SavedTyped, RowTyped, LimitsTyped
<1>2. ASSUME NEW e \in caller[Dispatcher].events, NextEvent(e) PROVE WTypes'
  <2>1. CallerTyped'
    BY <1>2, NextEventFacts
  <2>2. /\ hook' = hook /\ saved' = saved /\ row' = row
        /\ promised' = promised /\ sent' = sent /\ changes' = changes /\ stops' = stops /\ UNCHANGED sources
    BY <1>2 DEF NextEvent
  <2> QED
    BY <1>0, <2>1, <2>2, CallerTypes DEF SavedTyped, RowTyped, LimitsTyped
<1>3. ASSUME NEW h \in Hooks, DispatchTo(h) PROVE WTypes'
  <2>1. PICK x : x = <<h, caller[Dispatcher].event>>
    OBVIOUS
  <2>2. PICK new \in Caller : Posts(Dispatcher, x, 0, new)
    BY <1>3, <2>1, DispatchFacts
  <2>3. /\ x \in Rows /\ 0 \in 0 .. MaxAttempts - 1
        /\ row' = [row EXCEPT ![x] = [status |-> "pending", attempts |-> 0, due |-> TRUE]]
    BY <1>3, <2>1, DispatchFacts
  <2>4. CallerTyped' /\ sent' \in [Rows -> Sent]
    BY <1>0, <2>2, <2>3, PostsFacts
  <2>5. RowTyped'
    <3>1. 0 \in 0 .. MaxAttempts
      BY WebhooksAssumption
    <3>2. [status |-> "pending", attempts |-> 0, due |-> TRUE] \in Row
      BY <3>1 DEF Row
    <3> QED
      BY <1>0, <2>3, <3>2 DEF RowTyped
  <2>6. /\ hook' = hook /\ saved' = saved
        /\ promised' = promised /\ changes' = changes /\ stops' = stops /\ UNCHANGED sources
    BY <1>3 DEF DispatchTo
  <2> QED
    BY <1>0, <2>4, <2>5, <2>6, CallerTypes DEF SavedTyped, LimitsTyped
<1>4. ASSUME NEW i \in DOMAIN Sources, EndOfSource(i) PROVE WTypes'
  <2>1. PICK n : n = IF i < Len(Sources) THEN Walk(Sources[i + 1]) ELSE Work
    OBVIOUS
  <2>2. n \in Caller
    <3>1. CASE i < Len(Sources)
      <4>1. i = 1 \/ i = 2
        BY <3>1 DEF Sources
      <4>2. Sources[i + 1] \in {"stream", "conflict", "incident"}
        BY <4>1 DEF Sources
      <4>3. n = Walk(Sources[i + 1])
        BY <2>1, <3>1
      <4> QED
        BY <4>2, <4>3, WalkTyped
    <3>2. CASE ~(i < Len(Sources))
      <4>1. n = Work
        BY <2>1, <3>2
      <4> QED
        BY <4>1, WorkOfDue DEF PostsInv
    <3> QED
      BY <3>1, <3>2
  <2>3. /\ caller' = [caller EXCEPT ![Dispatcher] = n] /\ hook' = hook /\ row' = row
        /\ promised' = promised /\ sent' = sent /\ changes' = changes /\ stops' = stops /\ UNCHANGED sources
    BY <1>4, <2>1 DEF EndOfSource
  <2>4. CallerTyped'
    BY <1>0, <2>2, <2>3, CallerSet
  <2>5. SavedTyped'
    <3>1. PICK src : src = Sources[i]
      OBVIOUS
    <3>2. PICK top : top = caller[Dispatcher].top
      OBVIOUS
    <3>3. saved' = [saved EXCEPT ![src] = top] /\ caller[Dispatcher].at = src
      BY <1>4, <3>1, <3>2 DEF EndOfSource, SaveTo
    <3>4. i = 1 \/ i = 2 \/ i = 3
      BY DEF Sources
    <3>5. CASE i = 1
      <4>1. src = "stream" /\ top \in Nat
        BY <1>0, <3>1, <3>2, <3>5, WebhookTypes, CallerFields DEF Sources
      <4> QED
        BY <1>0, <3>3, <4>1 DEF SavedTyped, Cursor
    <3>6. CASE i # 1
      <4>1. src \in Lists
        BY <3>1, <3>4, <3>6 DEF Sources, Lists
      <4>2. Mark(src, top)
        BY <3>2, <3>3, <4>1 DEF PromiseInv, Marks
      <4>3. top \in 0 .. TimeBound
        <5>1. 0 \in 0 .. TimeBound
          BY WebhooksAssumption
        <5>2. Listed(src) \subseteq Events /\ at \in [Events -> 0 .. TimeBound]
          BY WebhookTypes DEF Listed, StreamTyped, AtTyped
        <5> QED
          BY <4>2, <5>1, <5>2 DEF Mark
      <4>4. CASE src = "conflict"
        BY <1>0, <3>3, <4>3, <4>4 DEF SavedTyped, Cursor
      <4>5. CASE src = "incident"
        BY <1>0, <3>3, <4>3, <4>5 DEF SavedTyped, Cursor
      <4> QED
        BY <4>1, <4>4, <4>5 DEF Lists
    <3> QED
      BY <3>5, <3>6
  <2> QED
    BY <1>0, <2>3, <2>4, <2>5, CallerTypes DEF RowTyped, LimitsTyped
<1>5. ASSUME NEW c \in Callers, NEW d \in caller[c].due, PostDue(c, d) PROVE WTypes'
  <2>1. CallerTyped' /\ SentTyped'
    BY <1>5, PostDueFacts
  <2>2. /\ hook' = hook /\ saved' = saved /\ row' = row
        /\ promised' = promised /\ changes' = changes /\ stops' = stops /\ UNCHANGED sources
    BY <1>5 DEF PostDue
  <2> QED
    BY <1>0, <2>1, <2>2, CallerTypes DEF SavedTyped, RowTyped, LimitsTyped, SentTyped
<1>6. ASSUME NEW c \in Callers, EndDue(c) PROVE WTypes'
  <2>1. /\ caller' = [caller EXCEPT ![c] = Idle] /\ hook' = hook /\ saved' = saved /\ row' = row /\ sent' = sent
        /\ promised' = promised /\ changes' = changes /\ stops' = stops /\ UNCHANGED sources
    BY <1>6 DEF EndDue
  <2>2. CallerTyped'
    BY <1>0, <2>1, IdleCaller, CallerSet
  <2> QED
    BY <1>0, <2>1, <2>2, CallerTypes DEF SavedTyped, RowTyped, LimitsTyped
<1>7. ASSUME NEW m \in Manuals, AskForDue(m) PROVE WTypes'
  <2>0. PICK n : n = Work
    OBVIOUS
  <2>1. /\ caller' = [caller EXCEPT ![m] = n] /\ hook' = hook /\ saved' = saved /\ row' = row /\ sent' = sent
        /\ promised' = promised /\ changes < OwnerBound /\ changes' = changes + 1 /\ stops' = stops /\ UNCHANGED sources
    BY <1>7, <2>0 DEF AskForDue, OwnersTurn
  <2>2. CallerTyped'
    <3>1. m \in Callers /\ n \in Caller
      BY <2>0, WorkOfDue DEF Callers, PostsInv
    <3> QED
      BY <1>0, <2>1, <3>1, CallerSet
  <2>3. LimitsTyped'
    BY <1>0, <2>1, WebhooksAssumption DEF LimitsTyped
  <2> QED
    BY <1>0, <2>1, <2>2, <2>3, CallerTypes DEF SavedTyped, RowTyped
<1>8. CASE HubRestarts
  <2>1. /\ caller' = [c \in Callers |-> Idle] /\ hook' = hook /\ saved' = saved /\ row' = row /\ sent' = sent
        /\ promised' = promised /\ changes' = changes /\ stops < CrashBound /\ stops' = stops + 1 /\ UNCHANGED sources
    BY <1>8 DEF HubRestarts
  <2>2. CallerTyped'
    BY <2>1, IdleCaller DEF CallerTyped
  <2>3. LimitsTyped'
    BY <1>0, <2>1, WebhooksAssumption DEF LimitsTyped
  <2> QED
    BY <1>0, <2>1, <2>2, <2>3, CallerTypes DEF SavedTyped, RowTyped
<1> QED
  BY <1>0, <1>1, <1>2, <1>3, <1>4, <1>5, <1>6, <1>7, <1>8 DEF DispatcherStep

WebhooksInv == WTypes /\ PromiseInv /\ PostsInv

LEMMA WebhooksStart == WebhooksInit => WebhooksInv
<1> SUFFICES ASSUME WebhooksInit PROVE WebhooksInv
  OBVIOUS
<1>0. /\ MaxAttempts \in Nat \ {0} /\ TimeBound \in Nat /\ OwnerBound \in Nat /\ CrashBound \in Nat
      /\ 0 \in 0 .. MaxAttempts /\ 0 \in 0 .. TimeBound /\ 0 \in 0 .. OwnerBound /\ 0 \in 0 .. CrashBound
  BY WebhooksAssumption
<1>1. WTypes
  BY <1>0, IdleCaller
     DEF WebhooksInit, WTypes, HookTyped, StreamTyped, AtTyped, SavedTyped, RowTyped, CallerTyped, SentTyped,
         LimitsTyped, Row, Sent, Cursor
<1>2. /\ stream = <<>> /\ listed = {} /\ resolved = {} /\ promised = {}
      /\ saved.stream = 0 /\ saved.conflict = 0 /\ saved.incident = 0
      /\ caller[Dispatcher] = Idle /\ \A c \in Callers : caller[c] = Idle
      /\ \A r \in Rows : row[r] = [status |-> "none", attempts |-> 0, due |-> FALSE]
      /\ \A r \in Rows : sent[r] = [posts |-> 0, taken |-> FALSE, shared |-> FALSE]
      /\ stops = 0
  BY DEF WebhooksInit, Callers
<1>3. PromiseInv
  BY <1>2 DEF PromiseInv, Placed, Marks, Mark, Lists, PromisesStand, WalkKeeps, SavedKeeps, HandIsEmpty, Idle
<1>4. PostsAreCounted
  BY <1>0, <1>2 DEF PostsAreCounted, Idle
<1>5. \A c \in Callers, r \in Rows : ~Posting(c, r)
  BY <1>2 DEF Posting, Idle
<1>6. UnsharedIsCounted
  BY <1>2, <1>5 DEF UnsharedIsCounted, OwnPosts
<1> QED
  BY <1>1, <1>3, <1>4, <1>6 DEF WebhooksInv, PostsInv

LEMMA DispatcherPromise ==
  ASSUME WTypes, PromiseInv, PostsInv, DispatcherStep
  PROVE  PromiseInv'
<1>1. Dispatcher \in Callers
  BY WebhookTypes
<1> QED
  BY <1>1, StartPromise, NextEventPromise, DispatchPromise, EndOfSourcePromise, CallerPromise DEF DispatcherStep

LEMMA WebhooksStep == WebhooksInv /\ [WebhooksNext]_webhookVars => WebhooksInv'
<1> SUFFICES ASSUME WTypes, PromiseInv, PostsInv, [WebhooksNext]_webhookVars
             PROVE  WTypes' /\ PromiseInv' /\ PostsInv'
  BY DEF WebhooksInv
<1>1. CASE HubRestarts
  BY <1>1, DispatcherTypes, CallerPromise, RestartPosts
<1>2. ASSUME NEW e \in Events, ListConflict(e) \/ Resolve(e) \/ \E t \in 1 .. TimeBound : Happens(e, t)
      PROVE  WTypes' /\ PromiseInv' /\ PostsInv'
  BY <1>2, SourceTypes, SourcePosts, ListConflictPromise, ResolvePromise, HappensPromise
<1>3. ASSUME NEW h \in Hooks, RegisterWebhook(h) \/ DeleteWebhook(h) \/ ReactivateWebhook(h)
      PROVE  WTypes' /\ PromiseInv' /\ PostsInv'
  BY <1>3, SetTypes, SourcePosts, SetPromise
<1>4. CASE DispatcherStep
  BY <1>4, DispatcherTypes, DispatcherPromise, DispatcherPosts
<1>5. ASSUME NEW m \in Manuals, AskForDue(m) PROVE WTypes' /\ PromiseInv' /\ PostsInv'
  BY <1>5, DispatcherTypes, CallerPromise, RestPosts
<1>6. ASSUME NEW m \in Manuals, EndDue(m) PROVE WTypes' /\ PromiseInv' /\ PostsInv'
  <2>1. m \in Callers
    BY DEF Callers
  <2> QED
    BY <1>6, <2>1, DispatcherTypes, CallerPromise, RestPosts
<1>7. ASSUME NEW m \in Manuals, NEW d \in caller[m].due, PostDue(m, d) PROVE WTypes' /\ PromiseInv' /\ PostsInv'
  <2>1. m \in Callers
    BY DEF Callers
  <2> QED
    BY <1>7, <2>1, DispatcherTypes, CallerPromise, PostDuePosts
<1>8. ASSUME NEW c \in Callers, Delivers(c) \/ PostFails(c) PROVE WTypes' /\ PromiseInv' /\ PostsInv'
  BY <1>8, AnswerTypes, AnswerPromise, PostsEnd
<1>9. ASSUME NEW r \in Rows, BackoffEnds(r) PROVE WTypes' /\ PromiseInv' /\ PostsInv'
  BY <1>9, BackoffTypes, CallerPromise, BackoffPosts
<1>10. CASE UNCHANGED webhookVars
  <2>1. /\ hook' = hook /\ stream' = stream /\ listed' = listed /\ at' = at /\ resolved' = resolved
        /\ saved' = saved /\ row' = row /\ caller' = caller /\ promised' = promised /\ sent' = sent
        /\ changes' = changes /\ stops' = stops
    BY <1>10 DEF webhookVars
  <2>2. WTypes'
    BY <2>1, WebhookTypes
       DEF WTypes, HookTyped, StreamTyped, AtTyped, SavedTyped, RowTyped, CallerTyped, SentTyped, LimitsTyped
  <2>3. PostsInv'
    BY <2>1, PostsFrame
  <2>4. SameHand(caller[Dispatcher], caller'[Dispatcher]) /\ \A r \in promised : hook[r[1]] = "active"
    BY <2>1 DEF SameHand, PromiseInv, PromisesStand
  <2>5. PromiseInv'
    BY <2>1, <2>4, PromiseFrame
  <2> QED
    BY <2>2, <2>3, <2>5
<1> QED
  BY <1>1, <1>2, <1>3, <1>4, <1>5, <1>6, <1>7, <1>8, <1>9, <1>10 DEF WebhooksNext

\* Past the cursor or the watermark nothing promised is without its row.
LEMMA PassedHaveRows ==
  ASSUME WebhooksInv, NEW r \in promised, PassedOver(r[2])
  PROVE  row[r].status # "none"
<1>1. SourceOf(r[2]) \in {"stream", "conflict", "incident"} /\ stream \in Seq(Events) /\ saved.stream \in Nat
  BY WebhookTypes, WebhooksAssumption DEF WebhooksInv, StreamTyped, SavedTyped, Cursor
<1>2. Covered(r[2], SourceOf(r[2]), saved[SourceOf(r[2])])
  <2>1. CASE SourceOf(r[2]) = "stream"
    <3>1. PICK i \in 1 .. saved.stream : stream[i] = r[2]
      BY <2>1 DEF PassedOver
    <3>2. saved.stream <= Len(stream) /\ Len(stream) \in Nat
      BY <1>1 DEF WebhooksInv, PromiseInv, Marks
    <3>3. i <= Len(stream)
      BY <1>1, <3>2
    <3> QED
      BY <2>1, <3>1, <3>3 DEF Covered
  <2>2. CASE SourceOf(r[2]) # "stream"
    BY <2>2 DEF PassedOver, Covered
  <2> QED
    BY <2>1, <2>2
<1> QED
  BY <1>2 DEF WebhooksInv, PromiseInv, SavedKeeps

LEMMA OwnPostsAreFew ==
  ASSUME WebhooksInv, NEW r \in Rows, ~sent[r].shared
  PROVE  sent[r].posts <= MaxAttempts + stops /\ (sent[r].taken => row[r].status = "delivered")
<1>1. OwnPosts(r)
  BY DEF WebhooksInv, PostsInv, UnsharedIsCounted
<1>2. /\ sent[r].posts \in Nat /\ row[r].attempts \in 0 .. MaxAttempts /\ stops \in Nat /\ MaxAttempts \in Nat
  BY WebhookTypes, WebhooksAssumption DEF WebhooksInv, Sent, Row, LimitsTyped
<1>3. CASE \E c \in Callers : Posting(c, r)
  <2>1. PICK c \in Callers : Posting(c, r)
    BY <1>3
  <2>2. caller[c].post.attempt \in 1 .. MaxAttempts
    BY <2>1, WebhookTypes, CallerFields DEF WebhooksInv, Posting
  <2>3. caller[c].post.attempt = row[r].attempts + 1 /\ sent[r].posts <= row[r].attempts + 1 + stops
    BY <1>1, <2>1 DEF OwnPosts
  <2> QED
    BY <1>1, <1>2, <2>2, <2>3 DEF OwnPosts
<1>4. CASE \A c \in Callers : ~Posting(c, r)
  BY <1>1, <1>2, <1>4 DEF OwnPosts
<1> QED
  BY <1>3, <1>4

LEMMA GivesUpStep ==
  ASSUME WebhooksInv, [WebhooksNext]_webhookVars, NEW r \in Rows, row[r].status # "failed", row'[r].status = "failed"
  PROVE  sent[r].posts >= MaxAttempts
<1>1. ASSUME NEW c \in Callers, PostFails(c) PROVE sent[r].posts >= MaxAttempts
  <2>1. PICK p : p = caller[c].post
    OBVIOUS
  <2>2. p # NoPost /\ p.row \in Rows /\ p.attempt \in 1 .. MaxAttempts
    BY <1>1, <2>1, AnswerFacts DEF PostFails, WebhooksInv
  <2>3. PICK s \in {"failed", "pending"} :
          /\ row' = [row EXCEPT ![p.row] = [status |-> s, attempts |-> p.attempt, due |-> FALSE]]
          /\ s = "failed" => p.attempt >= MaxAttempts
    BY <1>1, <2>1 DEF PostFails, Exhausted
  <2>4. p.row = r /\ s = "failed"
    BY <2>2, <2>3, WebhookTypes DEF WebhooksInv, RowTyped
  <2>5. p.attempt <= sent[r].posts
    BY <2>1, <2>2, <2>4 DEF WebhooksInv, PostsInv, PostsAreCounted
  <2>6. sent[r].posts \in Nat /\ MaxAttempts \in Nat
    BY WebhookTypes, WebhooksAssumption DEF WebhooksInv, Sent
  <2> QED
    BY <2>2, <2>3, <2>4, <2>5, <2>6
<1>2. ASSUME NEW c \in Callers, Delivers(c) PROVE FALSE
  <2>1. caller[c].post.row \in Rows
    BY <1>2, AnswerFacts DEF Delivers, WebhooksInv
  <2> QED
    BY <1>2, <2>1, WebhookTypes DEF Delivers, WebhooksInv, RowTyped
<1>3. ASSUME NEW h \in Hooks, DispatchTo(h) PROVE FALSE
  BY <1>3, WebhookTypes DEF DispatchTo, WebhooksInv, RowTyped
<1>4. ASSUME NEW q \in Rows, BackoffEnds(q) PROVE FALSE
  BY <1>4, WebhookTypes DEF BackoffEnds, WebhooksInv, RowTyped, Row
<1>5. CASE row' = row
  BY <1>5
<1> QED
  BY <1>1, <1>2, <1>3, <1>4, <1>5 DEF WebhooksNext, webhookVars, HubRestarts, ListConflict, Resolve, Happens,
     RegisterWebhook, DeleteWebhook, ReactivateWebhook, Set, DispatcherStep, StartCycle, NextEvent, EndOfSource,
     PostDue, EndDue, AskForDue

THEOREM WebhooksTypes == WebhooksSpec => []WebhooksTypeOK
<1>1. WebhooksInv => WebhooksTypeOK
  BY WebhookTypesNamed DEF WebhooksInv
<1> QED
  BY <1>1, WebhooksStart, WebhooksStep, PTL DEF WebhooksSpec

\* What was promised is delivered or in hand when the dispatcher has passed it, a delivery in
\* one hand is posted as often as the bound allows and its success stands, and none is given up early.
THEOREM Webhooks_Safe == WebhooksSpec => WebhooksAreSafe
<1>1. WebhooksInv => \A r \in promised : PassedOver(r[2]) => row[r].status # "none"
  BY PassedHaveRows
<1>2. WebhooksInv => \A r \in Rows : ~sent[r].shared =>
                /\ sent[r].posts <= MaxAttempts + stops
                /\ sent[r].taken => row[r].status = "delivered"
  BY OwnPostsAreFew
<1>3. WebhooksInv /\ [WebhooksNext]_webhookVars =>
        [\A r \in Rows : row[r].status # "failed" /\ row'[r].status = "failed" => sent[r].posts >= MaxAttempts]_webhookVars
  BY GivesUpStep
<1> QED
  BY <1>1, <1>2, <1>3, WebhooksStart, WebhooksStep, PTL DEF WebhooksSpec, WebhooksAreSafe, GivesUp

-----------------------------------------------------------------------------
(* Types of the switch of modes, named one by one. *)

ProjectType == [status : {"active", "paused"}, mode : Modes, pointer : {0} \cup TransitionIds,
                capability : {"ready", "suspect", "lost", "disabled"}]
TransitionType == [to : Modes, at : 1 .. 6, overdue : BOOLEAN, expired : BOOLEAN,
                   status : {"none", "running", "failed", "completed"}]
WorkType == [task : {"pending", "running", "blocked", "done"}, marked : BOOLEAN,
             attempt : {"none", "executing", "fenced", "ended"},
             delivery : {"none", "open", "closed"}, job : BOOLEAN,
             candidate : {"none", "pending", "settled"}]
BindingType == [online : BOOLEAN, credential : {"eligible", "suspended"}]
StepNames == {"pause"} \cup {Steps(m)[i] : m \in Modes, i \in 1 .. 6}

ProjectTyped == project \in ProjectType
TransitionsTyped == transition \in [TransitionIds -> TransitionType]
WorkTyped == work \in [Works -> WorkType]
BindingTyped == binding \in [Nodes -> BindingType]
SoundTyped == sound \in [fingerprint : BOOLEAN, plans : BOOLEAN]
DoneTyped == done \in [TransitionIds -> SUBSET StepNames]
ModeHistoryTyped == touched \subseteq Works /\ retried \subseteq TransitionIds /\ upsets \in 0 .. UpsetBound

LEMMA ModeTypesNamed ==
  ModesTypeOK <=> /\ ProjectTyped /\ TransitionsTyped /\ WorkTyped /\ BindingTyped
                  /\ SoundTyped /\ DoneTyped /\ ModeHistoryTyped
BY DEF ModesTypeOK, ProjectTyped, TransitionsTyped, WorkTyped, BindingTyped, SoundTyped, DoneTyped,
       ModeHistoryTyped, ProjectType, TransitionType, WorkType, BindingType, StepNames

\* The names of the steps tell their places.
LEMMA StepPlaces ==
  ASSUME NEW m \in Modes, NEW i \in 1 .. 6
  PROVE  /\ Steps(m)[i] \in StepNames
         /\ Steps(m)[i] = "pause" <=> i = 1
         /\ Steps(m)[i] = "commit-mode" <=> i = 6
         /\ m = "read-only" => (Steps(m)[i] = "reconcile" <=> i = 5)
         /\ Steps(m)[i] \in {"validate-capability", "revalidate-plans"} => m = "full"
<1>1. Steps(m)[i] \in StepNames
  BY DEF StepNames
<1>2. CASE m = "read-only"
  <2>1. Steps(m) = <<"pause", "fence-attempts", "invalidate-lineage", "block-dependents", "reconcile", "commit-mode">>
    BY <1>2 DEF Steps, DRAINING_STEPS
  <2>2. i = 1 \/ i = 2 \/ i = 3 \/ i = 4 \/ i = 5 \/ i = 6
    OBVIOUS
  <2> QED
    BY <1>1, <1>2, <2>1, <2>2
<1>3. CASE m = "full"
  <2>1. Steps(m) = <<"pause", "validate-capability", "reconcile", "refresh-bindings", "revalidate-plans", "commit-mode">>
    BY <1>3 DEF Steps, VALIDATING_STEPS
  <2>2. i = 1 \/ i = 2 \/ i = 3 \/ i = 4 \/ i = 5 \/ i = 6
    OBVIOUS
  <2> QED
    BY <1>1, <1>3, <2>1, <2>2
<1> QED
  BY <1>2, <1>3 DEF Modes

LEMMA StepOfPlaces ==
  ASSUME TransitionsTyped, NEW t \in TransitionIds
  PROVE  /\ transition[t] \in TransitionType /\ transition[t].to \in Modes /\ transition[t].at \in 1 .. 6
         /\ StepOf(t) \in StepNames
         /\ StepOf(t) = "pause" <=> transition[t].at = 1
         /\ StepOf(t) = "commit-mode" <=> transition[t].at = 6
         /\ transition[t].to = "read-only" => (StepOf(t) = "reconcile" <=> transition[t].at = 5)
         /\ Fails(t) => transition[t].to = "full"
         /\ transition[t].at = 6 => Succeeds(t)
<1>1. transition[t] \in TransitionType /\ transition[t].to \in Modes /\ transition[t].at \in 1 .. 6
  BY DEF TransitionsTyped, TransitionType
<1>2. /\ StepOf(t) \in StepNames
      /\ StepOf(t) = "pause" <=> transition[t].at = 1
      /\ StepOf(t) = "commit-mode" <=> transition[t].at = 6
      /\ transition[t].to = "read-only" => (StepOf(t) = "reconcile" <=> transition[t].at = 5)
      /\ StepOf(t) \in {"validate-capability", "revalidate-plans"} => transition[t].to = "full"
  BY <1>1, StepPlaces DEF StepOf
<1>3. Fails(t) => transition[t].to = "full"
  BY <1>2 DEF Fails
<1>4. transition[t].at = 6 => Succeeds(t)
  BY <1>2 DEF Succeeds, Waits, Fails
<1> QED
  BY <1>1, <1>2, <1>3, <1>4

LEMMA ProjectAfterTyped ==
  ASSUME ProjectTyped, TransitionsTyped, NEW t \in TransitionIds
  PROVE  ProjectAfter(t) \in ProjectType /\ PointedTo(t) \in ProjectType
<1>1. PointedTo(t) \in ProjectType
  BY DEF PointedTo, ProjectTyped, ProjectType
<1>2. transition[t].to \in Modes
  BY StepOfPlaces
<1> QED
  BY <1>1, <1>2 DEF ProjectAfter, ProjectTyped, ProjectType

LEMMA WorkAfterTyped ==
  ASSUME WorkTyped, NEW t \in TransitionIds, NEW w \in Works
  PROVE  WorkAfter(t, w) \in WorkType
<1>1. work[w] \in WorkType
  BY DEF WorkTyped
<1> QED
  BY <1>1 DEF WorkAfter, WorkType

LEMMA RowAfterTyped ==
  ASSUME TransitionsTyped, NEW t \in TransitionIds, NEW f \in BOOLEAN
  PROVE  RowAfter(t, f) \in TransitionType
<1>1. /\ transition[t] \in TransitionType /\ transition[t].to \in Modes /\ transition[t].at \in 1 .. 6
      /\ StepOf(t) = "commit-mode" <=> transition[t].at = 6
  BY StepOfPlaces
<1>2. CASE ~f \/ Waits(t)
  BY <1>1, <1>2 DEF RowAfter, Succeeds, TransitionType
<1>3. CASE f /\ ~Waits(t) /\ Fails(t)
  BY <1>1, <1>3 DEF RowAfter, Succeeds, TransitionType
<1>4. CASE f /\ Succeeds(t) /\ StepOf(t) = "commit-mode"
  BY <1>1, <1>4 DEF RowAfter, Succeeds, TransitionType
<1>5. CASE f /\ Succeeds(t) /\ StepOf(t) # "commit-mode"
  <2>1. RowAfter(t, f) = [transition[t] EXCEPT !.at = @ + 1]
    BY <1>5 DEF RowAfter, Succeeds
  <2>2. transition[t].at + 1 \in 1 .. 6
    BY <1>1, <1>5
  <2> QED
    BY <1>1, <2>1, <2>2 DEF TransitionType
<1> QED
  BY <1>2, <1>3, <1>4, <1>5 DEF Succeeds

-----------------------------------------------------------------------------
(* The inductive invariant of the switch. *)

OneRunning == \A t, u \in Running : t = u
\* The steps before the one a transition is at are in its history.
CarriedInOrder ==
  \A t \in TransitionIds : \A i \in 1 .. 6 :
    i < transition[t].at => Steps(transition[t].to)[i] \in done[t]
\* Only time ends a transition to read-only; an expired one has failed.
HowTheyFail ==
  \A t \in TransitionIds :
    /\ transition[t].expired => transition[t].status = "failed"
    /\ transition[t].status = "failed" /\ transition[t].to = "read-only" => transition[t].expired
Drained(w) ==
  /\ work[w].attempt # "executing" /\ work[w].delivery # "open"
  /\ ~work[w].job /\ work[w].candidate # "pending"
\* Ready to commit, what nobody touched since the reconciliation is drained.
DrainedToCommit ==
  \A t \in Running : transition[t].to = "read-only" /\ transition[t].at = 6 =>
    \A w \in Works \ touched : Drained(w)

ModesInv == ModesTypeOK /\ OneRunning /\ CarriedInOrder /\ HowTheyFail /\ DrainedToCommit /\ KeepsPaused

LEMMA ModesStart == ModesInit => ModesInv
<1> SUFFICES ASSUME ModesInit PROVE ModesInv
  OBVIOUS
<1>1. ModesTypeOK
  BY ModesAssumption DEF ModesInit, ModesTypeOK, Unmade, Modes
<1>2. \A t \in TransitionIds : transition[t] = Unmade
  BY DEF ModesInit
<1>3. Running = {}
  BY <1>2 DEF Running, Unmade
<1>4. CarriedInOrder /\ HowTheyFail
  BY <1>2 DEF CarriedInOrder, HowTheyFail, Unmade
<1> QED
  BY <1>1, <1>3, <1>4 DEF ModesInv, OneRunning, DrainedToCommit, KeepsPaused

\* What happens to the tasks and leaves the transitions and the project's pause alone.
LEMMA WorkStep ==
  ASSUME ModesInv, WorkTyped', ProjectTyped',
         transition' = transition, done' = done, retried' = retried, binding' = binding,
         sound' = sound, upsets' \in 0 .. UpsetBound, touched' \subseteq Works,
         project'.status = project.status,
         \A w \in Works \ touched' : w \notin touched /\ (Drained(w) => Drained(w)')
  PROVE  ModesInv'
<1>1. ModesTypeOK'
  BY ModeTypesNamed DEF ModesInv, ModesTypeOK, WorkTyped, WorkType, ProjectTyped, ProjectType
<1>2. Running' = Running
  BY DEF Running
<1>3. OneRunning' /\ CarriedInOrder' /\ HowTheyFail' /\ KeepsPaused'
  BY <1>2 DEF ModesInv, OneRunning, CarriedInOrder, HowTheyFail, KeepsPaused
<1>4. DrainedToCommit'
  BY <1>2 DEF ModesInv, DrainedToCommit
<1> QED
  BY <1>1, <1>3, <1>4 DEF ModesInv

LEMMA ModeFacts ==
  ASSUME ModesInv
  PROVE  /\ ProjectTyped /\ TransitionsTyped /\ WorkTyped /\ BindingTyped /\ SoundTyped /\ DoneTyped
         /\ ModeHistoryTyped /\ OneRunning /\ CarriedInOrder /\ HowTheyFail /\ DrainedToCommit /\ KeepsPaused
BY ModeTypesNamed DEF ModesInv

LEMMA WorkedStep ==
  ASSUME ModesInv, NEW w \in Works, NEW record \in WorkType, Worked(w, record), UNCHANGED project
  PROVE  ModesInv'
<1>1. /\ work' = [work EXCEPT ![w] = record] /\ touched' = touched \cup {w}
      /\ transition' = transition /\ done' = done /\ retried' = retried /\ binding' = binding
      /\ sound' = sound /\ upsets' = upsets /\ project' = project
  BY DEF Worked, history
<1>2. WorkTyped' /\ ProjectTyped'
  BY <1>1, ModeFacts DEF WorkTyped, ProjectTyped
<1>3. \A v \in Works \ touched' : v \notin touched /\ work'[v] = work[v]
  BY <1>1, ModeFacts DEF WorkTyped
<1>4. \A v \in Works \ touched' : v \notin touched /\ (Drained(v) => Drained(v)')
  BY <1>3 DEF Drained
<1>5. upsets' \in 0 .. UpsetBound /\ touched' \subseteq Works
  BY <1>1, ModeFacts DEF ModeHistoryTyped
<1> QED
  BY <1>1, <1>2, <1>4, <1>5, WorkStep

LEMMA OfTaskStep ==
  ASSUME ModesInv, NEW w \in Works, OfTask(w)
  PROVE  ModesInv'
<1>1. work[w] \in WorkType
  BY ModeFacts DEF WorkTyped
<1>2. PICK record : Worked(w, record) /\ record \in WorkType
  <2>1. CASE Claim(w)
    <3>1. [work[w] EXCEPT !.task = "running", !.attempt = "executing", !.candidate = "none",
                          !.delivery = IF @ = "open" THEN @ ELSE "none"] \in WorkType
      BY <1>1 DEF WorkType
    <3> QED
      BY <2>1, <3>1 DEF Claim
  <2>2. CASE ReportTask(w)
    <3>1. PICK s \in {"done", "pending"} : Worked(w, [work[w] EXCEPT !.task = s, !.attempt = "ended"])
      BY <2>2 DEF ReportTask
    <3>2. [work[w] EXCEPT !.task = s, !.attempt = "ended"] \in WorkType
      BY <1>1 DEF WorkType
    <3> QED
      BY <3>1, <3>2
  <2>3. CASE Deliver(w) \/ Enqueue(w)
    <3>1. [work[w] EXCEPT !.delivery = "open"] \in WorkType /\ [work[w] EXCEPT !.job = TRUE] \in WorkType
      BY <1>1 DEF WorkType
    <3> QED
      BY <2>3, <3>1 DEF Deliver, Enqueue
  <2>4. CASE SettleDelivery(w)
    <3>1. [work[w] EXCEPT !.delivery = IF @ = "open" THEN "closed" ELSE @, !.job = FALSE] \in WorkType
      BY <1>1 DEF WorkType
    <3> QED
      BY <2>4, <3>1 DEF SettleDelivery
  <2>5. CASE FindCandidate(w) \/ Decide(w)
    <3>1. /\ [work[w] EXCEPT !.candidate = "pending"] \in WorkType
          /\ [work[w] EXCEPT !.candidate = "settled"] \in WorkType
      BY <1>1 DEF WorkType
    <3> QED
      BY <2>5, <3>1 DEF FindCandidate, Decide
  <2> QED
    BY <2>1, <2>2, <2>3, <2>4, <2>5 DEF OfTask
<1>3. UNCHANGED project
  BY DEF OfTask, Claim, ReportTask, Deliver, Enqueue, SettleDelivery, FindCandidate, Decide
<1> QED
  BY <1>2, <1>3, WorkedStep

LEMMA BreakCircuitStep ==
  ASSUME ModesInv, BreakCircuit
  PROVE  ModesInv'
<1>1. /\ project' = [project EXCEPT !.capability = "lost"]
      /\ work' = [w \in Works |-> [work[w] EXCEPT !.attempt = IF @ = "executing" THEN "ended" ELSE @]]
      /\ transition' = transition /\ done' = done /\ retried' = retried /\ binding' = binding
      /\ sound' = sound /\ touched' = touched /\ upsets < UpsetBound /\ upsets' = upsets + 1
  BY DEF BreakCircuit, history, Upset
<1>2. ProjectTyped' /\ project'.status = project.status
  BY <1>1, ModeFacts DEF ProjectTyped, ProjectType
<1>3. \A w \in Works : work[w] \in WorkType
  BY ModeFacts DEF WorkTyped
<1>4. WorkTyped'
  BY <1>1, <1>3 DEF WorkTyped, WorkType
<1>5. \A w \in Works \ touched' : w \notin touched /\ (Drained(w) => Drained(w)')
  BY <1>1, <1>3 DEF Drained, WorkType
<1>6. upsets' \in 0 .. UpsetBound /\ touched' \subseteq Works
  BY <1>1, ModeFacts, ModesAssumption DEF ModeHistoryTyped
<1> QED
  BY <1>1, <1>2, <1>4, <1>5, <1>6, WorkStep

LEMMA RestoreWritesStep ==
  ASSUME ModesInv, RestoreWrites
  PROVE  ModesInv'
<1>1. /\ project' = [project EXCEPT !.capability = "ready"] /\ work' = work
      /\ transition' = transition /\ done' = done /\ retried' = retried /\ binding' = binding
      /\ sound' = sound /\ touched' = touched /\ upsets' = upsets
  BY DEF RestoreWrites, history, workVars
<1>2. ProjectTyped' /\ project'.status = project.status /\ WorkTyped'
  BY <1>1, ModeFacts DEF ProjectTyped, ProjectType, WorkTyped
<1>3. \A w \in Works \ touched' : w \notin touched /\ (Drained(w) => Drained(w)')
  BY <1>1 DEF Drained
<1>4. upsets' \in 0 .. UpsetBound /\ touched' \subseteq Works
  BY <1>1, ModeFacts DEF ModeHistoryTyped
<1> QED
  BY <1>1, <1>2, <1>3, <1>4, WorkStep

\* Nodes come and go, and so does what validation looks at.
LEMMA AroundStep ==
  ASSUME ModesInv, Outside \/ \E n \in Nodes : Resync(n) \/ Flips(n)
  PROVE  ModesInv'
<1>1. /\ project' = project /\ work' = work /\ transition' = transition /\ done' = done
      /\ retried' = retried /\ touched' = touched /\ (upsets' = upsets \/ Upset)
  BY DEF Outside, Resync, Flips, history, workVars
<1>2. upsets' \in 0 .. UpsetBound
  BY <1>1, ModeFacts, ModesAssumption DEF ModeHistoryTyped, Upset
<1>3. BindingTyped' /\ SoundTyped'
  <2>1. CASE Outside
    BY <2>1, ModeFacts DEF Outside, BindingTyped, SoundTyped
  <2>2. ASSUME NEW n \in Nodes, Resync(n) PROVE BindingTyped' /\ SoundTyped'
    BY <2>2, ModeFacts DEF Resync, BindingTyped, SoundTyped, BindingType
  <2>3. ASSUME NEW n \in Nodes, Flips(n) PROVE BindingTyped' /\ SoundTyped'
    <3>1. binding[n] \in BindingType /\ (~binding[n].online) \in BOOLEAN
      BY ModeFacts DEF BindingTyped
    <3>2. [binding[n] EXCEPT !.online = ~binding[n].online] \in BindingType
      BY <3>1 DEF BindingType
    <3>3. binding' = [binding EXCEPT ![n] = [binding[n] EXCEPT !.online = ~binding[n].online]]
      BY <2>3 DEF Flips
    <3> QED
      BY <2>3, <3>2, <3>3, ModeFacts DEF Flips, BindingTyped, SoundTyped
  <2> QED
    BY <2>1, <2>2, <2>3
<1>4. ModesTypeOK'
  BY <1>1, <1>2, <1>3, ModeFacts
     DEF ModesTypeOK, ProjectTyped, TransitionsTyped, WorkTyped, BindingTyped, SoundTyped, DoneTyped,
         ModeHistoryTyped, ProjectType, TransitionType, WorkType, BindingType, StepNames
<1>5. Running' = Running /\ \A w : Drained(w)' <=> Drained(w)
  BY <1>1 DEF Running, Drained
<1>6. OneRunning' /\ CarriedInOrder' /\ HowTheyFail' /\ KeepsPaused' /\ DrainedToCommit'
  BY <1>1, <1>5, ModeFacts DEF OneRunning, CarriedInOrder, HowTheyFail, KeepsPaused, DrainedToCommit
<1> QED
  BY <1>4, <1>6 DEF ModesInv

\* The row after a step: it stays, goes on by one when the step succeeded, or ends.
LEMMA RowAfterFacts ==
  ASSUME ModesInv, NEW t \in TransitionIds, Live(t), NEW f \in BOOLEAN, NEW r, r = RowAfter(t, f)
  PROVE  /\ r \in TransitionType /\ r.to = transition[t].to /\ r.expired = FALSE
         /\ r.status = "failed" => r.to = "full"
         /\ \/ r.at = transition[t].at
            \/ f /\ Succeeds(t) /\ r.at = transition[t].at + 1
<1>1. /\ transition[t] \in TransitionType /\ transition[t].at \in 1 .. 6 /\ transition[t].status = "running"
      /\ Fails(t) => transition[t].to = "full"
      /\ transition[t].expired = FALSE
  BY ModeFacts, StepOfPlaces DEF Live, HowTheyFail, TransitionType
<1>2. r \in TransitionType
  BY ModeFacts, RowAfterTyped
<1>3. CASE ~f \/ Waits(t)
  BY <1>1, <1>2, <1>3 DEF RowAfter, Succeeds, TransitionType
<1>4. CASE f /\ ~Waits(t) /\ Fails(t)
  BY <1>1, <1>2, <1>4 DEF RowAfter, Succeeds, TransitionType
<1>5. CASE f /\ Succeeds(t) /\ StepOf(t) = "commit-mode"
  BY <1>1, <1>2, <1>5 DEF RowAfter, Succeeds, TransitionType
<1>6. CASE f /\ Succeeds(t) /\ StepOf(t) # "commit-mode"
  <2>1. r = [transition[t] EXCEPT !.at = @ + 1]
    BY <1>6 DEF RowAfter, Succeeds
  <2> QED
    BY <1>1, <1>2, <1>6, <2>1 DEF TransitionType
<1> QED
  BY <1>3, <1>4, <1>5, <1>6 DEF Succeeds

LEMMA CarriesFacts ==
  ASSUME ModesInv, NEW t \in TransitionIds, Live(t), NEW ws, NEW ns, NEW whole \in BOOLEAN,
         Carries(t, ws, ns, whole)
  PROVE  /\ ProjectTyped' /\ WorkTyped' /\ BindingTyped' /\ SoundTyped' /\ DoneTyped'
         /\ touched' \subseteq Works /\ retried' = retried
         /\ \A u \in TransitionIds : done[u] \subseteq done'[u]
         /\ \A u \in TransitionIds : u # t => done'[u] = done[u]
         /\ done'[t] = IF whole /\ Succeeds(t) THEN done[t] \cup {StepOf(t)} ELSE done[t]
         /\ project'.mode # project.mode => StepOf(t) = "commit-mode" /\ project'.mode = transition[t].to
         /\ project'.status = "active" /\ project.status = "paused" => whole /\ StepOf(t) = "commit-mode"
         /\ whole /\ StepOf(t) = "pause" => project'.status = "paused"
<1>1. /\ project' = IF whole THEN ProjectAfter(t) ELSE PointedTo(t)
      /\ work' = [w \in Works |-> IF w \in ws THEN WorkAfter(t, w) ELSE work[w]]
      /\ binding' = [n \in Nodes |-> IF n \in ns THEN BindingAfter(t, n) ELSE binding[n]]
      /\ done' = [done EXCEPT ![t] = IF whole /\ Succeeds(t) THEN @ \cup {StepOf(t)} ELSE @]
      /\ touched' = IF whole /\ StepOf(t) = "reconcile" /\ Succeeds(t) THEN {} ELSE touched
      /\ sound' = sound /\ retried' = retried
  BY DEF Carries
<1>2. ProjectTyped'
  BY <1>1, ModeFacts, ProjectAfterTyped DEF ProjectTyped
<1>3. WorkTyped'
  BY <1>1, ModeFacts, WorkAfterTyped DEF WorkTyped
<1>4. BindingTyped'
  <2>1. \A n \in Nodes : BindingAfter(t, n) \in BindingType /\ binding[n] \in BindingType
    BY ModeFacts DEF BindingTyped, BindingAfter, BindingType
  <2> QED
    BY <1>1, <2>1 DEF BindingTyped
<1>5. StepOf(t) \in StepNames
  BY ModeFacts, StepOfPlaces
<1>6. /\ done'[t] = IF whole /\ Succeeds(t) THEN done[t] \cup {StepOf(t)} ELSE done[t]
      /\ \A u \in TransitionIds : u # t => done'[u] = done[u]
      /\ DoneTyped'
  BY <1>1, <1>5, ModeFacts DEF DoneTyped
<1>7. \A u \in TransitionIds : done[u] \subseteq done'[u]
  BY <1>6
<1>8. /\ project'.mode # project.mode => StepOf(t) = "commit-mode" /\ project'.mode = transition[t].to
      /\ project'.status = "active" /\ project.status = "paused" => whole /\ StepOf(t) = "commit-mode"
  <2>1. /\ PointedTo(t).mode = project.mode /\ PointedTo(t).status = project.status
    BY ModeFacts DEF PointedTo, ProjectTyped, ProjectType
  <2>2. CASE StepOf(t) # "commit-mode"
    BY <1>1, <2>1, <2>2, ModeFacts DEF ProjectAfter, PointedTo, ProjectTyped, ProjectType
  <2>3. CASE StepOf(t) = "commit-mode"
    <3>1. ~Fails(t)
      BY <2>3 DEF Fails
    <3>2. ProjectAfter(t).mode = transition[t].to
      BY <2>3, <3>1 DEF ProjectAfter
    <3> QED
      BY <1>1, <2>1, <2>3, <3>2
  <2> QED
    BY <2>2, <2>3
<1>9. whole /\ StepOf(t) = "pause" => project'.status = "paused"
  BY <1>1, ModeFacts DEF ProjectAfter, PointedTo, ProjectTyped, ProjectType, Fails
<1> QED
  BY <1>1, <1>2, <1>3, <1>4, <1>6, <1>7, <1>8, <1>9, ModeFacts DEF SoundTyped, ModeHistoryTyped

LEMMA CarriesStep ==
  ASSUME ModesInv, NEW t \in TransitionIds, Live(t), NEW ws, NEW ns, NEW whole \in BOOLEAN, NEW f \in BOOLEAN,
         Carries(t, ws, ns, whole), f => whole,
         transition' = [transition EXCEPT ![t] = RowAfter(t, f)], upsets' \in 0 .. UpsetBound
  PROVE  ModesInv'
<1>1. PICK r : r = RowAfter(t, f)
  OBVIOUS
<1>2. /\ r \in TransitionType /\ r.to = transition[t].to /\ r.expired = FALSE
      /\ r.status = "failed" => r.to = "full"
      /\ \/ r.at = transition[t].at
         \/ f /\ Succeeds(t) /\ r.at = transition[t].at + 1
  BY <1>1, RowAfterFacts
<1>3. /\ transition'[t] = r /\ \A u \in TransitionIds : u # t => transition'[u] = transition[u]
      /\ TransitionsTyped'
  BY <1>1, <1>2, ModeFacts DEF TransitionsTyped
<1>4. /\ ProjectTyped' /\ WorkTyped' /\ BindingTyped' /\ SoundTyped' /\ DoneTyped'
      /\ touched' \subseteq Works /\ retried' = retried
      /\ \A u \in TransitionIds : done[u] \subseteq done'[u]
      /\ \A u \in TransitionIds : u # t => done'[u] = done[u]
      /\ done'[t] = IF whole /\ Succeeds(t) THEN done[t] \cup {StepOf(t)} ELSE done[t]
      /\ project'.mode # project.mode => StepOf(t) = "commit-mode" /\ project'.mode = transition[t].to
      /\ project'.status = "active" /\ project.status = "paused" => whole /\ StepOf(t) = "commit-mode"
      /\ whole /\ StepOf(t) = "pause" => project'.status = "paused"
  BY CarriesFacts
<1>5. ModesTypeOK'
  BY <1>3, <1>4, ModeFacts
     DEF ModesTypeOK, ProjectTyped, TransitionsTyped, WorkTyped, BindingTyped, SoundTyped, DoneTyped,
         ModeHistoryTyped, ProjectType, TransitionType, WorkType, BindingType, StepNames
<1>6. t \in Running /\ Running' \subseteq {t}
  BY <1>3, ModeFacts DEF Running, OneRunning, Live
<1>7. /\ transition[t].to \in Modes /\ transition[t].at \in 1 .. 6
      /\ StepOf(t) = "pause" <=> transition[t].at = 1
      /\ StepOf(t) = "commit-mode" <=> transition[t].at = 6
      /\ transition[t].to = "read-only" => (StepOf(t) = "reconcile" <=> transition[t].at = 5)
      /\ transition[t].at = 6 => Succeeds(t)
      /\ StepOf(t) = Steps(transition[t].to)[transition[t].at]
  BY ModeFacts, StepOfPlaces DEF StepOf
<1>8. CarriedInOrder'
  <2> SUFFICES ASSUME NEW u \in TransitionIds, NEW i \in 1 .. 6, i < transition'[u].at
               PROVE  Steps(transition'[u].to)[i] \in done'[u]
    BY DEF CarriedInOrder
  <2>1. CASE u # t
    BY <1>3, <1>4, <2>1, ModeFacts DEF CarriedInOrder
  <2>2. CASE u = t /\ i < transition[t].at
    <3>1. Steps(transition[t].to)[i] \in done[t]
      BY <2>2, ModeFacts DEF CarriedInOrder
    <3> QED
      BY <1>2, <1>3, <1>4, <2>2, <3>1
  <2>3. CASE u = t /\ ~(i < transition[t].at)
    <3>1. i = transition[t].at /\ f /\ Succeeds(t)
      BY <1>2, <1>3, <1>7, <2>3
    <3> QED
      <4>1. StepOf(t) \in done'[t]
        BY <1>4, <3>1
      <4>2. StepOf(t) = Steps(transition'[u].to)[i]
        BY <1>2, <1>3, <1>7, <2>3, <3>1
      <4> QED
        BY <2>3, <4>1, <4>2
  <2> QED
    BY <2>1, <2>2, <2>3
<1>9. HowTheyFail'
  BY <1>2, <1>3, ModeFacts DEF HowTheyFail
<1>10. KeepsPaused'
  <2> SUFFICES ASSUME t \in Running', t \notin retried, "pause" \in done'[t], "commit-mode" \notin done'[t]
               PROVE  project'.status = "paused"
    BY <1>4, <1>6 DEF KeepsPaused
  <2>1. CASE StepOf(t) = "pause" /\ whole
    BY <1>4, <2>1
  <2>2. CASE ~(StepOf(t) = "pause" /\ whole)
    <3>1. "pause" \in done[t] /\ "commit-mode" \notin done[t]
      BY <1>4, <2>2
    <3>2. project.status = "paused"
      BY <1>6, <3>1, ModeFacts DEF KeepsPaused
    <3>3. ~(whole /\ StepOf(t) = "commit-mode")
      BY <1>4, <1>7
    <3> QED
      BY <1>4, <3>2, <3>3 DEF ProjectTyped, ProjectType
  <2> QED
    BY <2>1, <2>2
<1>11. DrainedToCommit'
  <2> SUFFICES ASSUME transition'[t].to = "read-only", transition'[t].at = 6, NEW w \in Works \ touched'
               PROVE  Drained(w)'
    BY <1>6 DEF DrainedToCommit
  <2>1. transition[t].to = "read-only"
    BY <1>2, <1>3
  <2>2. /\ work' = [v \in Works |-> IF v \in ws THEN WorkAfter(t, v) ELSE work[v]]
        /\ touched' = IF whole /\ StepOf(t) = "reconcile" /\ Succeeds(t) THEN {} ELSE touched
    BY DEF Carries
  <2>3. CASE transition[t].at = 6
    <3>1. StepOf(t) = "commit-mode"
      BY <1>7, <2>3
    <3>2. work'[w] = work[w] /\ touched' = touched
      BY <2>2, <3>1 DEF WorkAfter
    <3>3. Drained(w)
      BY <1>6, <2>1, <2>3, <3>2, ModeFacts DEF DrainedToCommit
    <3> QED
      BY <3>2, <3>3 DEF Drained
  <2>4. CASE transition[t].at = 5 /\ Succeeds(t)
    <3>1. StepOf(t) = "reconcile"
      BY <1>7, <2>1, <2>4
    <3>2. work'[w] = work[w]
      BY <2>2, <3>1 DEF WorkAfter
    <3>3. ~OnChecklist(w)
      BY <2>1, <2>4, <3>1 DEF Succeeds, Waits
    <3> QED
      BY <3>2, <3>3 DEF Drained, OnChecklist
  <2> QED
    BY <1>2, <1>3, <1>7, <2>3, <2>4
<1> QED
  BY <1>5, <1>6, <1>8, <1>9, <1>10, <1>11 DEF ModesInv, OneRunning

\* A step that changes one row and leaves the history of its steps alone.
LEMMA RowStep ==
  ASSUME ModesInv, NEW t \in TransitionIds, NEW r \in TransitionType,
         transition' = [transition EXCEPT ![t] = r],
         project' = project, done' = done, UNCHANGED workVars, binding' = binding, sound' = sound,
         upsets' \in 0 .. UpsetBound,
         retried' \subseteq TransitionIds, retried \subseteq retried',
         r.to = transition[t].to, r.at = transition[t].at,
         r.expired => r.status = "failed",
         r.status = "failed" /\ r.to = "read-only" => r.expired,
         r.status = "running" => t \in Running \/ (Running = {} /\ t \in retried' /\ r.to = "full")
  PROVE  ModesInv'
<1>1. /\ transition'[t] = r /\ \A u \in TransitionIds : u # t => transition'[u] = transition[u]
      /\ TransitionsTyped' /\ work' = work /\ touched' = touched
  BY ModeFacts DEF TransitionsTyped, workVars
<1>2. ModesTypeOK'
  BY <1>1, ModeFacts
     DEF ModesTypeOK, ProjectTyped, TransitionsTyped, WorkTyped, BindingTyped, SoundTyped, DoneTyped,
         ModeHistoryTyped, ProjectType, TransitionType, WorkType, BindingType, StepNames
<1>3. \A u \in Running' : u \in Running \/ (u = t /\ Running = {} /\ t \in retried' /\ r.to = "full")
  <2> SUFFICES ASSUME NEW u \in TransitionIds, transition'[u].status = "running"
               PROVE  u \in Running \/ (u = t /\ Running = {} /\ t \in retried' /\ r.to = "full")
    BY DEF Running
  <2>1. CASE u = t
    BY <1>1, <2>1
  <2>2. CASE u # t
    BY <1>1, <2>2 DEF Running
  <2> QED
    BY <2>1, <2>2
<1>4. OneRunning'
  BY <1>3, ModeFacts DEF OneRunning
<1>5. CarriedInOrder' /\ HowTheyFail'
  BY <1>1, ModeFacts DEF CarriedInOrder, HowTheyFail
<1>6. KeepsPaused'
  BY <1>3, ModeFacts DEF KeepsPaused
<1>7. DrainedToCommit'
  <2>1. \A u \in Running' : transition'[u].to = "read-only" => u \in Running /\ transition[u].to = "read-only"
                                                            /\ transition'[u].at = transition[u].at
    BY <1>1, <1>3 DEF Running
  <2> QED
    BY <1>1, <2>1, ModeFacts DEF DrainedToCommit, Drained
<1> QED
  BY <1>2, <1>4, <1>5, <1>6, <1>7 DEF ModesInv

LEMMA OwnersStep ==
  ASSUME ModesInv, NEW t \in TransitionIds, DeadlinePasses(t) \/ Expire(t) \/ Retry(t)
  PROVE  ModesInv'
<1>1. /\ transition[t] \in TransitionType /\ retried \subseteq TransitionIds /\ upsets \in 0 .. UpsetBound
      /\ transition[t].expired => transition[t].status = "failed"
      /\ transition[t].status = "failed" /\ transition[t].to = "read-only" => transition[t].expired
      /\ transition[t].to \in Modes
  BY ModeFacts, StepOfPlaces DEF TransitionsTyped, ModeHistoryTyped, HowTheyFail
<1>2. CASE DeadlinePasses(t)
  <2>1. PICK r : r = [transition[t] EXCEPT !.overdue = TRUE]
    OBVIOUS
  <2>2. /\ r \in TransitionType /\ r.to = transition[t].to /\ r.at = transition[t].at
        /\ r.expired = transition[t].expired /\ r.status = transition[t].status
    BY <1>1, <2>1 DEF TransitionType
  <2>3. transition' = [transition EXCEPT ![t] = r] /\ t \in Running
    BY <1>2, <2>1 DEF DeadlinePasses
  <2>4. /\ project' = project /\ done' = done /\ UNCHANGED workVars /\ binding' = binding /\ sound' = sound
        /\ retried' = retried
    BY <1>2 DEF DeadlinePasses, history
  <2>5. upsets' \in 0 .. UpsetBound
    BY <1>1, <1>2, ModesAssumption DEF DeadlinePasses, Upset
  <2>6. /\ retried' \subseteq TransitionIds /\ retried \subseteq retried'
        /\ r.expired => r.status = "failed"
        /\ r.status = "failed" /\ r.to = "read-only" => r.expired
    BY <1>1, <2>2, <2>4
  <2> QED
    BY <1>1, <2>2, <2>3, <2>4, <2>5, <2>6, RowStep
<1>3. CASE Expire(t)
  <2>1. PICK r : r = [transition[t] EXCEPT !.status = "failed", !.expired = TRUE]
    OBVIOUS
  <2>2. /\ r \in TransitionType /\ r.to = transition[t].to /\ r.at = transition[t].at
        /\ r.expired = TRUE /\ r.status = "failed"
    BY <1>1, <2>1 DEF TransitionType
  <2>3. transition' = [transition EXCEPT ![t] = r]
    <3>1. transition' = [transition EXCEPT ![t].status = "failed", ![t].expired = TRUE]
      BY <1>3 DEF Expire
    <3> QED
      BY <2>1, <3>1, ModeFacts DEF TransitionsTyped
  <2>4. /\ project' = project /\ done' = done /\ UNCHANGED workVars /\ binding' = binding /\ sound' = sound
        /\ retried' = retried /\ upsets' = upsets
    BY <1>3 DEF Expire, history
  <2>6. retried' \subseteq TransitionIds /\ retried \subseteq retried' /\ upsets' \in 0 .. UpsetBound
    BY <1>1, <2>4
  <2> QED
    BY <1>1, <2>2, <2>3, <2>4, <2>6, RowStep
<1>4. CASE Retry(t)
  <2>1. PICK r : r = [transition[t] EXCEPT !.status = "running"]
    OBVIOUS
  <2>2. /\ r \in TransitionType /\ r.to = transition[t].to /\ r.at = transition[t].at
        /\ r.expired = transition[t].expired /\ r.status = "running"
    BY <1>1, <2>1 DEF TransitionType
  <2>3. /\ transition' = [transition EXCEPT ![t] = r] /\ Running = {}
        /\ transition[t].status = "failed" /\ ~transition[t].expired
    BY <1>4, <2>1 DEF Retry, IndexAllows
  <2>4. /\ project' = project /\ done' = done /\ UNCHANGED workVars /\ binding' = binding /\ sound' = sound
        /\ retried' = retried \cup {t} /\ upsets' = upsets
    BY <1>4 DEF Retry
  <2>5. r.to = "full"
    BY <1>1, <2>2, <2>3 DEF Modes
  <2>6. /\ retried' \subseteq TransitionIds /\ retried \subseteq retried' /\ upsets' \in 0 .. UpsetBound
        /\ t \in retried'
    BY <1>1, <2>4
  <2> QED
    BY <1>1, <2>2, <2>3, <2>4, <2>5, <2>6, RowStep
<1> QED
  BY <1>2, <1>3, <1>4

LEMMA BeginStep ==
  ASSUME ModesInv, NEW t \in TransitionIds, NEW to \in Modes, NEW whole \in BOOLEAN, BeginTransition(t, to, whole)
  PROVE  ModesInv'
<1>1. PICK r : r = [Unmade EXCEPT !.to = to, !.status = "running", !.at = IF whole THEN 2 ELSE 1]
  OBVIOUS
<1>2. /\ r \in TransitionType /\ r.to = to /\ r.status = "running" /\ r.expired = FALSE
      /\ r.at = IF whole THEN 2 ELSE 1
  <2>1. r = [to |-> to, at |-> IF whole THEN 2 ELSE 1, status |-> "running", overdue |-> FALSE, expired |-> FALSE]
    BY <1>1 DEF Unmade
  <2>2. (IF whole THEN 2 ELSE 1) \in 1 .. 6
    OBVIOUS
  <2> QED
    BY <2>1, <2>2 DEF TransitionType
<1>3. /\ Running = {} /\ transition' = [transition EXCEPT ![t] = r]
      /\ project' = IF ~whole THEN project
                    ELSE [project EXCEPT !.status = "paused", !.pointer = t,
                            !.capability = IF @ = "disabled" /\ to = "full" THEN "suspect" ELSE @]
      /\ done' = [done EXCEPT ![t] = IF whole THEN {"pause"} ELSE {}]
      /\ upsets' = upsets \/ Upset
      /\ work' = work /\ touched' = touched /\ binding' = binding /\ sound' = sound /\ retried' = retried
  BY <1>1 DEF BeginTransition
<1>4. /\ transition'[t] = r /\ \A u \in TransitionIds : u # t => transition'[u] = transition[u]
      /\ TransitionsTyped'
  BY <1>2, <1>3, ModeFacts DEF TransitionsTyped
<1>5. /\ done'[t] = IF whole THEN {"pause"} ELSE {}
      /\ \A u \in TransitionIds : u # t => done'[u] = done[u]
      /\ DoneTyped'
  BY <1>3, ModeFacts DEF DoneTyped, StepNames
<1>6. ProjectTyped' /\ (whole => project'.status = "paused")
  BY <1>3, ModeFacts DEF ProjectTyped, ProjectType
<1>7. upsets' \in 0 .. UpsetBound
  BY <1>3, ModeFacts, ModesAssumption DEF ModeHistoryTyped, Upset
<1>8. ModesTypeOK'
  BY <1>3, <1>4, <1>5, <1>6, <1>7, ModeFacts
     DEF ModesTypeOK, ProjectTyped, TransitionsTyped, WorkTyped, BindingTyped, SoundTyped, DoneTyped,
         ModeHistoryTyped, ProjectType, TransitionType, WorkType, BindingType, StepNames
<1>9. Running' = {t}
  BY <1>2, <1>3, <1>4 DEF Running
<1>10. CarriedInOrder'
  <2> SUFFICES ASSUME NEW u \in TransitionIds, NEW i \in 1 .. 6, i < transition'[u].at
               PROVE  Steps(transition'[u].to)[i] \in done'[u]
    BY DEF CarriedInOrder
  <2>1. CASE u # t
    BY <1>4, <1>5, <2>1, ModeFacts DEF CarriedInOrder
  <2>2. CASE u = t
    <3>1. i = 1 /\ whole
      BY <1>2, <1>4, <2>2
    <3>2. Steps(to)[i] = "pause"
      BY <3>1, StepPlaces
    <3> QED
      BY <1>2, <1>4, <1>5, <2>2, <3>1, <3>2
  <2> QED
    BY <2>1, <2>2
<1>11. HowTheyFail'
  BY <1>2, <1>4, ModeFacts DEF HowTheyFail
<1>12. KeepsPaused'
  BY <1>5, <1>6, <1>9 DEF KeepsPaused
<1>13. DrainedToCommit'
  BY <1>2, <1>4, <1>9 DEF DrainedToCommit
<1> QED
  BY <1>8, <1>9, <1>10, <1>11, <1>12, <1>13 DEF ModesInv, OneRunning

LEMMA AdvancesStep ==
  ASSUME ModesInv, NEW t \in TransitionIds, AdvanceStep(t) \/ CutShort(t)
  PROVE  ModesInv'
<1>0. upsets \in 0 .. UpsetBound
  BY ModeFacts DEF ModeHistoryTyped
<1>1. CASE AdvanceStep(t)
  <2>1. /\ Live(t) /\ Carries(t, Works, Nodes, TRUE) /\ upsets' \in 0 .. UpsetBound
        /\ transition' = [transition EXCEPT ![t] = RowAfter(t, TRUE)]
    BY <1>0, <1>1 DEF AdvanceStep
  <2> QED
    BY <2>1, CarriesStep
<1>2. CASE CutShort(t)
  <2>1. PICK whole \in BOOLEAN, ws \in SUBSET Works, ns \in SUBSET Nodes : Carries(t, ws, ns, whole)
    BY <1>2 DEF CutShort
  <2>2. /\ Live(t) /\ upsets' \in 0 .. UpsetBound
        /\ transition' = [transition EXCEPT ![t] = RowAfter(t, FALSE)]
    BY <1>0, <1>2, ModesAssumption DEF CutShort, Upset
  <2> QED
    BY <2>1, <2>2, CarriesStep
<1> QED
  BY <1>1, <1>2

LEMMA ModesStep == ModesInv /\ [ModesNext]_modeVars => ModesInv'
<1> SUFFICES ASSUME ModesInv, [ModesNext]_modeVars PROVE ModesInv'
  OBVIOUS
<1>1. ASSUME NEW w \in Works, OfTask(w) PROVE ModesInv'
  BY <1>1, OfTaskStep
<1>2. ASSUME NEW t \in TransitionIds, OfTransition(t) PROVE ModesInv'
  BY <1>2, BeginStep, AdvancesStep, OwnersStep DEF OfTransition
<1>3. ASSUME NEW n \in Nodes, Resync(n) \/ Flips(n) PROVE ModesInv'
  BY <1>3, AroundStep
<1>4. CASE BreakCircuit \/ RestoreWrites \/ Outside
  BY <1>4, BreakCircuitStep, RestoreWritesStep, AroundStep
<1>5. CASE UNCHANGED modeVars
  <2>1. /\ project' = project /\ transition' = transition /\ work' = work /\ binding' = binding
        /\ sound' = sound /\ done' = done /\ touched' = touched /\ retried' = retried /\ upsets' = upsets
    BY <1>5 DEF modeVars
  <2>2. ModesTypeOK'
    BY <2>1, ModeFacts
       DEF ModesTypeOK, ProjectTyped, TransitionsTyped, WorkTyped, BindingTyped, SoundTyped, DoneTyped,
           ModeHistoryTyped, ProjectType, TransitionType, WorkType, BindingType, StepNames
  <2>3. Running' = Running /\ \A w : Drained(w)' <=> Drained(w)
    BY <2>1 DEF Running, Drained
  <2> QED
    BY <2>1, <2>2, <2>3 DEF ModesInv, OneRunning, CarriedInOrder, HowTheyFail, KeepsPaused, DrainedToCommit
<1> QED
  BY <1>1, <1>2, <1>3, <1>4, <1>5 DEF ModesNext

-----------------------------------------------------------------------------
(* What the switch promises. *)

LEMMA ModeKept ==
  ASSUME ModesInv, [ModesNext]_modeVars, project'.mode # project.mode
  PROVE  \E t \in Running : /\ transition[t].to = project'.mode /\ transition[t].at = 6
                            /\ Live(t)
<1>1. project \in ProjectType
  BY ModeFacts DEF ProjectTyped
<1>2. PICK t \in TransitionIds : AdvanceStep(t) \/ CutShort(t)
  BY <1>1 DEF ModesNext, modeVars, OfTask, OfTransition, Claim, ReportTask, Deliver, Enqueue, SettleDelivery, FindCandidate, Decide,
     Resync, Flips, BreakCircuit, RestoreWrites, Outside, BeginTransition, DeadlinePasses, Expire, Retry, ProjectType
<1>3. PICK whole \in BOOLEAN : \E ws, ns : Carries(t, ws, ns, whole)
  <2>1. CASE AdvanceStep(t)
    BY <2>1 DEF AdvanceStep
  <2>2. CASE CutShort(t)
    BY <2>2 DEF CutShort
  <2> QED
    BY <1>2, <2>1, <2>2
<1>4. Live(t)
  BY <1>2 DEF AdvanceStep, CutShort
<1>5. StepOf(t) = "commit-mode" /\ project'.mode = transition[t].to
  BY <1>3, <1>4, CarriesFacts
<1>6. transition[t].at = 6
  BY <1>5, ModeFacts, StepOfPlaces
<1> QED
  BY <1>3, <1>4, <1>5, <1>6 DEF Live, Running

LEMMA ComesFirstStep ==
  ASSUME ModesInv, [ModesNext]_modeVars, project'.mode # project.mode
  PROVE  \E t \in Running : transition[t].to = project'.mode /\ Earlier(t) \subseteq done[t]
<1>1. PICK t \in Running : transition[t].to = project'.mode /\ transition[t].at = 6
  BY ModeKept
<1>2. t \in TransitionIds
  BY DEF Running
<1>3. \A i \in 1 .. 5 : i \in 1 .. 6 /\ i < 6
  OBVIOUS
<1>4. Earlier(t) \subseteq done[t]
  BY <1>1, <1>2, <1>3, ModeFacts DEF Earlier, CarriedInOrder
<1> QED
  BY <1>1, <1>4

LEMMA DrainedStep ==
  ASSUME ModesInv, [ModesNext]_modeVars, project'.mode = "read-only", project.mode = "full"
  PROVE  \A w \in Works \ touched : Drained(w)
<1>1. PICK t \in Running : transition[t].to = project'.mode /\ transition[t].at = 6
  BY ModeKept
<1> QED
  BY <1>1, ModeFacts DEF DrainedToCommit

LEMMA OverStep ==
  ASSUME ModesInv, [ModesNext]_modeVars, NEW t \in TransitionIds, transition[t].expired
  PROVE  transition'[t] = transition[t] /\ done'[t] = done[t]
<1>1. transition[t].status = "failed"
  BY ModeFacts DEF HowTheyFail
<1>2. ASSUME NEW u \in TransitionIds, OfTransition(u) PROVE transition'[t] = transition[t] /\ done'[t] = done[t]
  <2>1. CASE t = u
    <3>1. u \in Made /\ u \notin Running
      BY <1>1, <2>1 DEF Made, Running
    <3>2. ~(\E to \in Modes, whole \in BOOLEAN : BeginTransition(u, to, whole))
      <4> SUFFICES ASSUME Made = 1 .. (u - 1) PROVE FALSE
        BY DEF BeginTransition
      <4> QED
        BY <3>1 DEF TransitionIds
    <3> QED
      BY <1>1, <1>2, <2>1, <3>1, <3>2
      DEF OfTransition, AdvanceStep, CutShort, Live, DeadlinePasses, Expire, Retry
  <2>2. CASE t # u
    <3>1. /\ transition \in [TransitionIds -> TransitionType]
          /\ done \in [TransitionIds -> SUBSET StepNames]
      BY ModeFacts DEF TransitionsTyped, DoneTyped
    <3> QED
      BY <1>2, <2>2, <3>1 DEF OfTransition, AdvanceStep, CutShort, Carries, BeginTransition, DeadlinePasses, Expire, Retry, history
  <2> QED
    BY <2>1, <2>2
<1>3. CASE UNCHANGED <<transition, done>>
  BY <1>3
<1> QED
  BY <1>2, <1>3 DEF ModesNext, modeVars, OfTask, Worked, Claim, ReportTask, Deliver, Enqueue, SettleDelivery, FindCandidate, Decide,
     Resync, Flips, BreakCircuit, RestoreWrites, Outside, history

LEMMA OneAtMost == OneRunning => Cardinality(Running) <= 1
<1> SUFFICES ASSUME OneRunning PROVE Cardinality(Running) <= 1
  OBVIOUS
<1>1. CASE Running = {}
  BY <1>1, FS_EmptySet
<1>2. CASE Running # {}
  <2>1. PICK t : t \in Running
    BY <1>2
  <2>2. Running = {t}
    BY <2>1 DEF OneRunning
  <2>3. Cardinality({t}) = 1
    BY FS_Singleton
  <2> QED
    BY <2>2, <2>3
<1> QED
  BY <1>1, <1>2

THEOREM ModesInvariant == ModesSpec => []ModesInv
<1> QED
  BY ModesStart, ModesStep, PTL DEF ModesSpec

\* A change of mode carries out its steps in their order and drains what it found, whatever
\* fails, lapses and is taken up again, and the project is paused all along.
THEOREM Modes_Safe == ModesSpec => ModesAreSafe
<1>1. ModesInv => Cardinality(Running) <= 1 /\ KeepsPaused
  BY OneAtMost DEF ModesInv
<1>2. ModesInv /\ [ModesNext]_modeVars =>
        [project'.mode # project.mode =>
           \E t \in Running : transition[t].to = project'.mode /\ Earlier(t) \subseteq done[t]]_modeVars
  BY ComesFirstStep
<1>3. ModesInv /\ [ModesNext]_modeVars =>
        [project'.mode = "read-only" /\ project.mode = "full" =>
           \A w \in Works \ touched :
             /\ work[w].attempt # "executing" /\ work[w].delivery # "open"
             /\ ~work[w].job /\ work[w].candidate # "pending"]_modeVars
  BY DrainedStep DEF Drained
<1>4. ModesInv /\ [ModesNext]_modeVars =>
        [\A t \in TransitionIds : transition[t].expired =>
           transition'[t] = transition[t] /\ done'[t] = done[t]]_modeVars
  BY OverStep
<1> QED
  BY <1>1, <1>2, <1>3, <1>4, ModesInvariant, PTL
     DEF ModesSpec, ModesAreSafe, EveryStepComesFirst, DrainedWhenReadOnly, ExpiredIsOver

\* Types of the switch.
LEMMA ModesTypes == ModesSpec => []ModesTypeOK
<1>1. ModesInv => ModesTypeOK
  BY DEF ModesInv
<1> QED
  BY <1>1, ModesInvariant, PTL

-----------------------------------------------------------------------------
(* The doorbell: types *)

LEMMA ProcessMoves ==
  ASSUME DoorbellTypeOK, NEW s \in Supervisors,
         \/ Create(s) \/ Write(s) \/ Look(s) \/ Compare(s) \/ Unlink(s)
         \/ Read(s) \/ EndRound(s) \/ Stop(s) \/ Retire(s) \/ Leave(s) \/ Dies(s)
         \/ \E p \in Plans : Ring(s, p)
  PROVE  \E q \in Process : supervisor' = [supervisor EXCEPT ![s] = q]
<1>1. supervisor \in [Supervisors -> Process]
  BY DEF DoorbellTypeOK
<1>2. supervisor[s] \in Process /\ supervisor = [supervisor EXCEPT ![s] = supervisor[s]]
  BY <1>1
<1>3. ASSUME NEW st \in Stage, Goes(s, st)
      PROVE  \E q \in Process : supervisor' = [supervisor EXCEPT ![s] = q]
  <2>1. PICK q : q = [supervisor[s] EXCEPT !.stage = st]
    OBVIOUS
  <2>2. q \in Process
    BY <1>2, <1>3, <2>1 DEF Process
  <2> QED
    BY <2>1, <2>2, <1>1, <1>3 DEF Goes
<1>4. ASSUME TriesAgain(s)
      PROVE  \E q \in Process : supervisor' = [supervisor EXCEPT ![s] = q]
  <2>0. PICK st : st = (IF supervisor[s].tries = 0 THEN "create" ELSE "refused")
    OBVIOUS
  <2>1. PICK q : q = [supervisor[s] EXCEPT !.tries = 1, !.stage = st]
    OBVIOUS
  <2>2. st \in Stage /\ 1 \in 0..1
    BY <2>0 DEF Stage
  <2>3. q \in Process
    BY <1>2, <2>2, <2>1 DEF Process
  <2>4. supervisor' = [supervisor EXCEPT ![s] = q]
    BY <2>0, <2>1, <1>1, <1>4 DEF TriesAgain
  <2> QED
    BY <2>3, <2>4
<1>5. ASSUME UNCHANGED supervisor
      PROVE  \E q \in Process : supervisor' = [supervisor EXCEPT ![s] = q]
  BY <1>2, <1>5
<1>6. "create" \in Stage /\ "write" \in Stage /\ "look" \in Stage /\ "compare" \in Stage /\ "unlink" \in Stage
      /\ "refused" \in Stage /\ "rest" \in Stage /\ "round" \in Stage /\ "closing" \in Stage /\ "gone" \in Stage
  BY DEF Stage
<1>7. CASE Create(s)
  BY <1>3, <1>6, <1>7 DEF Create
<1>8. CASE Write(s)
  BY <1>3, <1>6, <1>8 DEF Write
<1>9. CASE Look(s)
  <2>1. CASE lockFile # Nobody /\ ~Refusing(lockFile)
    <3>1. lockFile.owner \in Supervisors \cup {Dead}
      BY <2>1 DEF DoorbellTypeOK, File
    <3>2. PICK q : q = [supervisor[s] EXCEPT !.stage = "compare", !.saw = lockFile.owner]
      OBVIOUS
    <3>3. q \in Process
      BY <1>2, <1>6, <3>1, <3>2 DEF Process
    <3>4. supervisor' = [supervisor EXCEPT ![s] = q]
      BY <2>1, <3>2, <1>1, <1>9 DEF Look
    <3> QED
      BY <3>3, <3>4
  <2> QED
    BY <2>1, <1>3, <1>4, <1>6, <1>9 DEF Look
<1>10. CASE Compare(s)
  BY <1>3, <1>4, <1>6, <1>10 DEF Compare
<1>11. CASE Unlink(s)
  BY <1>4, <1>11 DEF Unlink
<1>12. CASE Read(s)
  <2>1. PICK q : q = [supervisor[s] EXCEPT !.stage = "round", !.got = open, !.todo = Plans]
    OBVIOUS
  <2>2. q \in Process
    BY <1>2, <1>6, <2>1 DEF Process, DoorbellTypeOK
  <2>3. supervisor' = [supervisor EXCEPT ![s] = q]
    BY <2>1, <1>1, <1>12 DEF Read
  <2> QED
    BY <2>2, <2>3
<1>13. CASE EndRound(s)
  <2>0. PICK st : st = (IF supervisor[s].once \/ Stopping(s) THEN "closing" ELSE "rest")
    OBVIOUS
  <2>1. PICK q : q = [supervisor[s] EXCEPT !.got = {}, !.stage = st]
    OBVIOUS
  <2>2. q \in Process
    BY <1>2, <1>6, <2>0, <2>1 DEF Process
  <2>3. supervisor' = [supervisor EXCEPT ![s] = q]
    BY <2>0, <2>1, <1>1, <1>13 DEF EndRound
  <2> QED
    BY <2>2, <2>3
<1>14. CASE Stop(s)
  <2>0. PICK st : st = (IF supervisor[s].stage = "rest" THEN "closing" ELSE supervisor[s].stage)
    OBVIOUS
  <2>1. PICK q : q = [supervisor[s] EXCEPT !.signalled = TRUE, !.stage = st]
    OBVIOUS
  <2>2. q \in Process
    BY <1>2, <1>6, <2>0, <2>1 DEF Process
  <2>3. supervisor' = [supervisor EXCEPT ![s] = q]
    BY <2>0, <2>1, <1>1, <1>14 DEF Stop
  <2> QED
    BY <2>2, <2>3
<1>15. CASE Retire(s)
  BY <1>3, <1>6, <1>15 DEF Retire
<1>16. CASE Leave(s)
  BY <1>3, <1>6, <1>16 DEF Leave
<1>17. CASE Dies(s)
  <2>1. PICK q : q = [supervisor[s] EXCEPT !.stage = "gone", !.todo = {}, !.got = {}]
    OBVIOUS
  <2>2. q \in Process
    BY <1>2, <1>6, <2>1 DEF Process
  <2>3. supervisor' = [supervisor EXCEPT ![s] = q]
    BY <2>1, <1>1, <1>17 DEF Dies
  <2> QED
    BY <2>2, <2>3
<1>18. ASSUME NEW p \in Plans, Ring(s, p)
       PROVE  \E q \in Process : supervisor' = [supervisor EXCEPT ![s] = q]
  <2>1. PICK q : q = [supervisor[s] EXCEPT !.todo = supervisor[s].todo \ {p}]
    OBVIOUS
  <2>2. q \in Process
    BY <1>2, <2>1 DEF Process
  <2>3. supervisor' = [supervisor EXCEPT ![s] = q]
    BY <2>1, <1>1, <1>18 DEF Ring
  <2> QED
    BY <2>2, <2>3
<1> QED
  BY <1>7, <1>8, <1>9, <1>10, <1>11, <1>12, <1>13, <1>14, <1>15, <1>16, <1>17, <1>18

\* What the steps do to the children and the kernel locks.
LEMMA ChildMoves ==
  ASSUME DoorbellTypeOK, NEW s \in Supervisors, NEW k \in PmSlots,
         \/ TakeLock(s, k) \/ ReadIntake(s, k) \/ AgentEnds(s, k) \/ RunsOut(s, k)
         \/ Reap(s, k) \/ Check(s, k) \/ OrphanEnds(s, k)
  PROVE  /\ child[s][k] \in Child
         /\ \/ /\ child' = [child EXCEPT ![s][k] = NoChild]
               /\ kernelLock' = IF kernelLock[k] = s /\ child[s][k].phase # "orphan"
                                THEN [kernelLock EXCEPT ![k] = Nobody] ELSE kernelLock
            \/ /\ child[s][k].phase = "start" /\ kernelLock[k] = Nobody
               /\ child' = [child EXCEPT ![s][k].phase = "read"]
               /\ kernelLock' = [kernelLock EXCEPT ![k] = s]
            \/ /\ child[s][k].phase \in {"read", "agent"}
               /\ \E ph \in {"agent", "ending", "check"} : child' = [child EXCEPT ![s][k].phase = ph]
               /\ kernelLock' = kernelLock
         /\ UNCHANGED <<open, opened, lockFile, raced, supervisor, deaths>>
<1>1. child[s][k] \in Child \cup {NoChild}
  BY DEF DoorbellTypeOK
<1>2. child[s][k] # NoChild
  BY DEF TakeLock, ReadIntake, AgentEnds, RunsOut, Reap, Check, OrphanEnds, Phase
<1>3. child[s][k] \in Child
  BY <1>1, <1>2
<1>4. ASSUME NEW code, Exits(s, k, code), child[s][k].phase # "orphan"
      PROVE  /\ child' = [child EXCEPT ![s][k] = NoChild]
             /\ kernelLock' = IF kernelLock[k] = s /\ child[s][k].phase # "orphan"
                              THEN [kernelLock EXCEPT ![k] = Nobody] ELSE kernelLock
             /\ UNCHANGED <<open, opened, lockFile, raced, supervisor, deaths>>
  BY <1>4 DEF Exits, hubVars, fileVars
<1>5. CASE TakeLock(s, k)
  BY <1>3, <1>4, <1>5 DEF TakeLock, Phase, Turns, Contended, hubVars, fileVars
<1>6. CASE ReadIntake(s, k)
  BY <1>3, <1>4, <1>6 DEF ReadIntake, Phase, Turns, hubVars, fileVars
<1>7. CASE AgentEnds(s, k)
  BY <1>3, <1>4, <1>7 DEF AgentEnds, Phase, Turns, hubVars, fileVars
<1>8. CASE RunsOut(s, k)
  BY <1>3, <1>8 DEF RunsOut, Phase, Turns, hubVars, fileVars
<1>9. CASE Reap(s, k)
  BY <1>3, <1>4, <1>9 DEF Reap, Phase
<1>10. CASE Check(s, k)
  BY <1>3, <1>4, <1>10 DEF Check, Phase
<1>11. CASE OrphanEnds(s, k)
  BY <1>3, <1>11 DEF OrphanEnds, Phase, hubVars, fileVars
<1> QED
  BY <1>5, <1>6, <1>7, <1>8, <1>9, <1>10, <1>11

\* A signal, or a kill.
LEMMA SignalMoves ==
  ASSUME DoorbellTypeOK, NEW s \in Supervisors,
         \/ Tells(s) \/ \E left \in SUBSET PmSlots : Kills(s, left)
  PROVE  /\ \E f \in [PmSlots -> Child \cup {NoChild}] :
              /\ child' = [child EXCEPT ![s] = f]
              /\ \A k \in PmSlots : f[k] # NoChild => f[k].told
         /\ kernelLock' = [k \in PmSlots |-> IF kernelLock[k] = s THEN Nobody ELSE kernelLock[k]]
<1>1. child[s] \in [PmSlots -> Child \cup {NoChild}]
  BY DEF DoorbellTypeOK
<1>2. CASE Tells(s)
  <2>1. PICK f : f = [k \in PmSlots |-> Told(child[s][k])]
    OBVIOUS
  <2>2. ASSUME NEW k \in PmSlots
        PROVE  f[k] \in Child \cup {NoChild} /\ (f[k] # NoChild => f[k].told)
    <3>1. f[k] = Told(child[s][k])
      BY <2>1
    <3>2. CASE child[s][k] # NoChild /\ child[s][k].phase \in AgentLives
      <4>0. PICK ph : ph = (IF child[s][k].phase = "agent" THEN "ending" ELSE child[s][k].phase)
        OBVIOUS
      <4>1. f[k] = [child[s][k] EXCEPT !.told = TRUE, !.phase = ph]
        BY <3>1, <3>2, <4>0 DEF Told
      <4>2. child[s][k] \in Child
        BY <1>1, <3>2
      <4>3. ph \in {"ending", "orphan"}
        BY <3>2, <4>0 DEF AgentLives
      <4>4. f[k] \in Child
        BY <4>1, <4>2, <4>3 DEF Child
      <4>5. f[k].told
        BY <4>1, <4>2 DEF Child
      <4> QED
        BY <4>4, <4>5
    <3>3. CASE ~(child[s][k] # NoChild /\ child[s][k].phase \in AgentLives)
      BY <3>1, <3>3 DEF Told
    <3> QED
      BY <3>2, <3>3
  <2>3. f \in [PmSlots -> Child \cup {NoChild}]
    BY <2>1, <2>2
  <2>4. child' = [child EXCEPT ![s] = f]
    BY <1>2, <2>1 DEF Tells
  <2> QED
    BY <1>2, <2>2, <2>3, <2>4 DEF Tells
<1>3. ASSUME NEW left \in SUBSET PmSlots, Kills(s, left)
      PROVE  /\ \E f \in [PmSlots -> Child \cup {NoChild}] :
                   /\ child' = [child EXCEPT ![s] = f]
                   /\ \A k \in PmSlots : f[k] # NoChild => f[k].told
             /\ kernelLock' = [k \in PmSlots |-> IF kernelLock[k] = s THEN Nobody ELSE kernelLock[k]]
  <2>1. PICK f : f = [k \in PmSlots |->
          IF k \in left THEN [child[s][k] EXCEPT !.phase = "orphan", !.told = TRUE] ELSE NoChild]
    OBVIOUS
  <2>2. ASSUME NEW k \in PmSlots
        PROVE  f[k] \in Child \cup {NoChild} /\ (f[k] # NoChild => f[k].told)
    <3>1. CASE k \in left
      <4>1. f[k] = [child[s][k] EXCEPT !.phase = "orphan", !.told = TRUE]
        BY <2>1, <3>1
      <4>2. child[s][k] \in Child
        BY <1>1, <1>3, <3>1 DEF Kills
      <4>3. f[k] \in Child
        BY <4>1, <4>2 DEF Child
      <4>4. f[k].told
        BY <4>1, <4>2 DEF Child
      <4> QED
        BY <4>3, <4>4
    <3>2. CASE k \notin left
      BY <2>1, <3>2
    <3> QED
      BY <3>1, <3>2
  <2>3. f \in [PmSlots -> Child \cup {NoChild}]
    BY <2>1, <2>2
  <2>4. child' = [child EXCEPT ![s] = f]
    BY <1>3, <2>1 DEF Kills
  <2> QED
    BY <1>3, <2>2, <2>3, <2>4 DEF Kills
<1> QED
  BY <1>2, <1>3

LEMMA RingMoves ==
  ASSUME DoorbellTypeOK, NEW s \in Supervisors, NEW p \in Plans, Ring(s, p)
  PROVE  /\ \E f \in [PmSlots -> Child \cup {NoChild}] :
              /\ child' = [child EXCEPT ![s] = f]
              /\ \A k \in PmSlots : f[k] # child[s][k] =>
                   ~Stopping(s) /\ f[k] # NoChild /\ f[k].phase = "start"
         /\ cooling' \in [Supervisors -> [PmSlots \X Plans -> SUBSET Items]]
<1>1. child[s] \in [PmSlots -> Child \cup {NoChild}] /\ supervisor[s] \in Process
  BY DEF DoorbellTypeOK
<1> DEFINE For(k) == {i \in supervisor[s].got : PlanOf[i] = p /\ SlotOf[i] = k}
<1>2. ASSUME NEW k \in PmSlots PROVE For(k) \in SUBSET Items
  BY <1>1 DEF Process
<1>3. PICK f : f = [k \in PmSlots |->
        IF Wakes(s, k, p, For(k)) THEN [plan |-> p, phase |-> "start", told |-> FALSE] ELSE child[s][k]]
  OBVIOUS
<1>4. child' = [child EXCEPT ![s] = f]
  BY <1>3, Zenon DEF Ring
<1>5. [plan |-> p, phase |-> "start", told |-> FALSE] \in Child
  BY DEF Child
<1>6. ASSUME NEW k \in PmSlots
      PROVE  /\ f[k] \in Child \cup {NoChild}
             /\ f[k] # child[s][k] => ~Stopping(s) /\ f[k] # NoChild /\ f[k].phase = "start"
  <2> HIDE DEF For
  <2>1. CASE Wakes(s, k, p, For(k))
    BY <1>3, <1>5, <2>1, DoorbellAssumption DEF Wakes
  <2>2. CASE ~Wakes(s, k, p, For(k))
    BY <1>1, <1>3, <2>2
  <2> QED
    BY <2>1, <2>2
<1>7. f \in [PmSlots -> Child \cup {NoChild}]
  BY <1>3, <1>6
<1>8. PICK g : g = [kp \in PmSlots \X Plans |->
        IF kp[2] = p /\ Wakes(s, kp[1], p, For(kp[1])) THEN For(kp[1]) ELSE cooling[s][kp]]
  OBVIOUS
<1>9. cooling' = [cooling EXCEPT ![s] = g]
  BY <1>8, Zenon DEF Ring
<1>10. cooling \in [Supervisors -> [PmSlots \X Plans -> SUBSET Items]]
  BY DEF DoorbellTypeOK
<1>11. ASSUME NEW kp \in PmSlots \X Plans PROVE g[kp] \in SUBSET Items
  <2>1. kp[1] \in PmSlots
    OBVIOUS
  <2>2. For(kp[1]) \in SUBSET Items
    BY <1>2, <2>1
  <2> HIDE DEF For
  <2> QED
    BY <1>8, <1>10, <2>2
<1>12. g \in [PmSlots \X Plans -> SUBSET Items]
  BY <1>8, <1>11
<1> QED
  BY <1>4, <1>6, <1>7, <1>9, <1>10, <1>12

LEMMA CoolingTypes ==
  ASSUME DoorbellTypeOK, [DoorbellNext]_doorbellVars
  PROVE  cooling' \in [Supervisors -> [PmSlots \X Plans -> SUBSET Items]]
<1>1. cooling \in [Supervisors -> [PmSlots \X Plans -> SUBSET Items]]
  BY DEF DoorbellTypeOK
<1>2. ASSUME NEW s \in Supervisors, Forgets(s)
      PROVE  cooling' \in [Supervisors -> [PmSlots \X Plans -> SUBSET Items]]
  BY <1>1, <1>2 DEF Forgets
<1>3. ASSUME NEW s \in Supervisors, NEW kp \in PmSlots \X Plans, Elapse(s, kp)
      PROVE  cooling' \in [Supervisors -> [PmSlots \X Plans -> SUBSET Items]]
  BY <1>1, <1>3 DEF Elapse
<1>4. ASSUME NEW s \in Supervisors, NEW k \in PmSlots, NEW code, Exits(s, k, code)
      PROVE  cooling' \in [Supervisors -> [PmSlots \X Plans -> SUBSET Items]]
  BY <1>1, <1>4 DEF Exits
<1>5. ASSUME NEW s \in Supervisors, NEW k \in PmSlots,
             \/ TakeLock(s, k) \/ ReadIntake(s, k) \/ AgentEnds(s, k) \/ RunsOut(s, k)
             \/ Reap(s, k) \/ Check(s, k) \/ OrphanEnds(s, k)
      PROVE  cooling' \in [Supervisors -> [PmSlots \X Plans -> SUBSET Items]]
  BY <1>1, <1>4, <1>5 DEF TakeLock, ReadIntake, AgentEnds, RunsOut, Reap, Check, OrphanEnds, Turns
<1>6. ASSUME NEW s \in Supervisors, Stop(s) \/ Retire(s) \/ Dies(s)
      PROVE  cooling' \in [Supervisors -> [PmSlots \X Plans -> SUBSET Items]]
  BY <1>2, <1>6 DEF Stop, Retire, Dies, Tells
<1>7. ASSUME NEW s \in Supervisors, NEW p \in Plans, Ring(s, p)
      PROVE  cooling' \in [Supervisors -> [PmSlots \X Plans -> SUBSET Items]]
  BY <1>7, RingMoves
<1>8. ASSUME NEW s \in Supervisors,
             \/ Create(s) \/ Write(s) \/ Look(s) \/ Compare(s) \/ Unlink(s)
             \/ Read(s) \/ EndRound(s) \/ Leave(s) \/ \E left \in SUBSET PmSlots : ForceStop(s, left)
      PROVE  cooling' \in [Supervisors -> [PmSlots \X Plans -> SUBSET Items]]
  BY <1>1, <1>8 DEF Create, Write, Look, Compare, Unlink, Read, EndRound, Leave, ForceStop
<1>9. ASSUME NEW i \in Items, Opens(i) \/ Handled(i)
      PROVE  cooling' \in [Supervisors -> [PmSlots \X Plans -> SUBSET Items]]
  BY <1>1, <1>9 DEF Opens, Handled
<1>10. CASE UNCHANGED doorbellVars
  BY <1>1, <1>10 DEF doorbellVars
<1> QED
  BY <1>3, <1>5, <1>6, <1>7, <1>8, <1>9, <1>10, Zenon DEF DoorbellNext

\* The children and the kernel locks of a step, by what changes them.
LEMMA LocksMove ==
  ASSUME DoorbellTypeOK, [DoorbellNext]_doorbellVars
  PROVE  \/ UNCHANGED <<child, kernelLock>>
         \/ \E s \in Supervisors, p \in Plans : Ring(s, p)
         \/ \E s \in Supervisors : Tells(s) \/ \E left \in SUBSET PmSlots : Kills(s, left)
         \/ \E s \in Supervisors, k \in PmSlots :
              \/ TakeLock(s, k) \/ ReadIntake(s, k) \/ AgentEnds(s, k) \/ RunsOut(s, k)
              \/ Reap(s, k) \/ Check(s, k) \/ OrphanEnds(s, k)
<1>1. ASSUME NEW s \in Supervisors,
             \/ Create(s) \/ Write(s) \/ Look(s) \/ Compare(s) \/ Unlink(s)
             \/ Read(s) \/ EndRound(s) \/ Leave(s) \/ Dies(s)
      PROVE  UNCHANGED <<child, kernelLock>>
  BY <1>1 DEF Create, Write, Look, Compare, Unlink, Read, EndRound, Leave, Dies, agentVars
<1>2. ASSUME NEW s \in Supervisors, NEW kp \in PmSlots \X Plans, Elapse(s, kp)
      PROVE  UNCHANGED <<child, kernelLock>>
  BY <1>2 DEF Elapse, agentVars
<1>3. ASSUME NEW i \in Items, Opens(i) \/ Handled(i)
      PROVE  UNCHANGED <<child, kernelLock>>
  BY <1>3 DEF Opens, Handled, agentVars
<1>4. UNCHANGED doorbellVars => UNCHANGED <<child, kernelLock>>
  BY DEF doorbellVars
<1>5. \A s \in Supervisors : Stop(s) \/ Retire(s) => Tells(s)
  BY DEF Stop, Retire
<1>6. \A s \in Supervisors : \A left \in SUBSET PmSlots : ForceStop(s, left) => Kills(s, left)
  BY DEF ForceStop
<1> QED
  BY <1>1, <1>2, <1>3, <1>4, <1>5, <1>6, Zenon DEF DoorbellNext

LEMMA LockTypes ==
  ASSUME DoorbellTypeOK, [DoorbellNext]_doorbellVars
  PROVE  /\ child' \in [Supervisors -> [PmSlots -> Child \cup {NoChild}]]
         /\ kernelLock' \in [PmSlots -> Supervisors \cup {Nobody}]
<1>0. /\ child \in [Supervisors -> [PmSlots -> Child \cup {NoChild}]]
      /\ kernelLock \in [PmSlots -> Supervisors \cup {Nobody}]
  BY DEF DoorbellTypeOK
<1>1. CASE UNCHANGED <<child, kernelLock>>
  BY <1>0, <1>1
<1>2. ASSUME NEW s \in Supervisors, NEW p \in Plans, Ring(s, p)
      PROVE  /\ child' \in [Supervisors -> [PmSlots -> Child \cup {NoChild}]]
             /\ kernelLock' \in [PmSlots -> Supervisors \cup {Nobody}]
  <2>1. kernelLock' = kernelLock
    BY <1>2 DEF Ring
  <2>2. PICK f \in [PmSlots -> Child \cup {NoChild}] : child' = [child EXCEPT ![s] = f]
    BY <1>2, RingMoves
  <2> QED
    BY <1>0, <2>1, <2>2
<1>3. ASSUME NEW s \in Supervisors, Tells(s) \/ \E left \in SUBSET PmSlots : Kills(s, left)
      PROVE  /\ child' \in [Supervisors -> [PmSlots -> Child \cup {NoChild}]]
             /\ kernelLock' \in [PmSlots -> Supervisors \cup {Nobody}]
  <2>1. PICK f \in [PmSlots -> Child \cup {NoChild}] : child' = [child EXCEPT ![s] = f]
    BY <1>3, SignalMoves
  <2>2. kernelLock' = [k \in PmSlots |-> IF kernelLock[k] = s THEN Nobody ELSE kernelLock[k]]
    BY <1>3, SignalMoves
  <2> QED
    BY <1>0, <2>1, <2>2
<1>4. ASSUME NEW s \in Supervisors, NEW k \in PmSlots,
             \/ TakeLock(s, k) \/ ReadIntake(s, k) \/ AgentEnds(s, k) \/ RunsOut(s, k)
             \/ Reap(s, k) \/ Check(s, k) \/ OrphanEnds(s, k)
      PROVE  /\ child' \in [Supervisors -> [PmSlots -> Child \cup {NoChild}]]
             /\ kernelLock' \in [PmSlots -> Supervisors \cup {Nobody}]
  <2>1. /\ child[s][k] \in Child
        /\ \/ child' = [child EXCEPT ![s][k] = NoChild]
           \/ \E ph \in {"read", "agent", "ending", "check"} : child' = [child EXCEPT ![s][k].phase = ph]
        /\ \/ kernelLock' = [kernelLock EXCEPT ![k] = Nobody]
           \/ kernelLock' = [kernelLock EXCEPT ![k] = s]
           \/ kernelLock' = kernelLock
    BY <1>4, ChildMoves
  <2>2. ASSUME NEW ph \in {"read", "agent", "ending", "check"}, child' = [child EXCEPT ![s][k].phase = ph]
        PROVE  child' \in [Supervisors -> [PmSlots -> Child \cup {NoChild}]]
    <3>1. PICK c : c = [child[s][k] EXCEPT !.phase = ph]
      OBVIOUS
    <3>2. c \in Child
      BY <2>1, <3>1 DEF Child
    <3>3. child' = [child EXCEPT ![s][k] = c]
      BY <1>0, <2>2, <3>1
    <3> QED
      BY <1>0, <3>2, <3>3
  <2>3. child' \in [Supervisors -> [PmSlots -> Child \cup {NoChild}]]
    BY <1>0, <2>1, <2>2
  <2> QED
    BY <1>0, <2>1, <2>3
<1> QED
  BY <1>1, <1>2, <1>3, <1>4, LocksMove

LEMMA HubAndFileTypes ==
  ASSUME DoorbellTypeOK, [DoorbellNext]_doorbellVars
  PROVE  /\ open' \in SUBSET Items /\ opened' \in 0..OpenBound
         /\ lockFile' \in File \cup {Nobody} /\ raced' \in BOOLEAN /\ deaths' \in 0..DeathBound
<1>0. /\ open \in SUBSET Items /\ opened \in 0..OpenBound
      /\ lockFile \in File \cup {Nobody} /\ raced \in BOOLEAN /\ deaths \in 0..DeathBound
      /\ OpenBound \in Nat /\ DeathBound \in Nat
  BY DoorbellAssumption DEF DoorbellTypeOK
<1>1. ASSUME NEW s \in Supervisors, Create(s) \/ Leave(s)
      PROVE  /\ open' \in SUBSET Items /\ opened' \in 0..OpenBound
             /\ lockFile' \in File \cup {Nobody} /\ raced' \in BOOLEAN /\ deaths' \in 0..DeathBound
  <2>1. [owner |-> s, written |-> FALSE] \in File
    BY DEF File
  <2> QED
    BY <1>0, <1>1, <2>1 DEF Create, Leave, hubVars, fileVars
<1>2. ASSUME NEW s \in Supervisors, Write(s)
      PROVE  /\ open' \in SUBSET Items /\ opened' \in 0..OpenBound
             /\ lockFile' \in File \cup {Nobody} /\ raced' \in BOOLEAN /\ deaths' \in 0..DeathBound
  <2>1. [owner |-> s, written |-> TRUE] \in File
    BY DEF File
  <2> QED
    BY <1>0, <1>2, <2>1 DEF Write, hubVars
<1>3. ASSUME NEW s \in Supervisors, Unlink(s)
      PROVE  /\ open' \in SUBSET Items /\ opened' \in 0..OpenBound
             /\ lockFile' \in File \cup {Nobody} /\ raced' \in BOOLEAN /\ deaths' \in 0..DeathBound
  BY <1>0, <1>3 DEF Unlink, hubVars, fileVars
<1>4. ASSUME NEW s \in Supervisors, Dies(s)
      PROVE  /\ open' \in SUBSET Items /\ opened' \in 0..OpenBound
             /\ lockFile' \in File \cup {Nobody} /\ raced' \in BOOLEAN /\ deaths' \in 0..DeathBound
  BY <1>0, <1>4 DEF Dies, hubVars, fileVars
<1>5. ASSUME NEW s \in Supervisors, Look(s) \/ Compare(s) \/ Read(s) \/ EndRound(s) \/ Stop(s) \/ Retire(s)
      PROVE  /\ open' \in SUBSET Items /\ opened' \in 0..OpenBound
             /\ lockFile' \in File \cup {Nobody} /\ raced' \in BOOLEAN /\ deaths' \in 0..DeathBound
  BY <1>0, <1>5 DEF Look, Compare, Read, EndRound, Stop, Retire, hubVars, fileVars
<1>6. ASSUME NEW s \in Supervisors, NEW p \in Plans, Ring(s, p)
      PROVE  /\ open' \in SUBSET Items /\ opened' \in 0..OpenBound
             /\ lockFile' \in File \cup {Nobody} /\ raced' \in BOOLEAN /\ deaths' \in 0..DeathBound
  BY <1>0, <1>6 DEF Ring, hubVars, fileVars
<1>7. ASSUME NEW s \in Supervisors, NEW kp \in PmSlots \X Plans, Elapse(s, kp)
      PROVE  /\ open' \in SUBSET Items /\ opened' \in 0..OpenBound
             /\ lockFile' \in File \cup {Nobody} /\ raced' \in BOOLEAN /\ deaths' \in 0..DeathBound
  BY <1>0, <1>7 DEF Elapse, hubVars, fileVars
<1>8. ASSUME NEW s \in Supervisors, NEW left \in SUBSET PmSlots, ForceStop(s, left)
      PROVE  /\ open' \in SUBSET Items /\ opened' \in 0..OpenBound
             /\ lockFile' \in File \cup {Nobody} /\ raced' \in BOOLEAN /\ deaths' \in 0..DeathBound
  BY <1>0, <1>8 DEF ForceStop, hubVars, fileVars
<1>9. ASSUME NEW s \in Supervisors, NEW k \in PmSlots,
             \/ TakeLock(s, k) \/ ReadIntake(s, k) \/ AgentEnds(s, k) \/ RunsOut(s, k)
             \/ Reap(s, k) \/ Check(s, k) \/ OrphanEnds(s, k)
      PROVE  /\ open' \in SUBSET Items /\ opened' \in 0..OpenBound
             /\ lockFile' \in File \cup {Nobody} /\ raced' \in BOOLEAN /\ deaths' \in 0..DeathBound
  BY <1>0, <1>9, ChildMoves
<1>10. ASSUME NEW i \in Items, Opens(i) \/ Handled(i)
      PROVE  /\ open' \in SUBSET Items /\ opened' \in 0..OpenBound
             /\ lockFile' \in File \cup {Nobody} /\ raced' \in BOOLEAN /\ deaths' \in 0..DeathBound
  BY <1>0, <1>10 DEF Opens, Handled, hubVars, fileVars
<1>11. CASE UNCHANGED doorbellVars
  BY <1>0, <1>11 DEF doorbellVars
<1> QED
  BY <1>1, <1>2, <1>3, <1>4, <1>5, <1>6, <1>7, <1>8, <1>9, <1>10, <1>11, Zenon DEF DoorbellNext

LEMMA DoorbellTypesStep ==
  ASSUME DoorbellTypeOK, [DoorbellNext]_doorbellVars
  PROVE  DoorbellTypeOK'
<1>1. supervisor' \in [Supervisors -> Process]
  <2>0. supervisor \in [Supervisors -> Process]
    BY DEF DoorbellTypeOK
  <2>1. ASSUME NEW s \in Supervisors,
               \/ Create(s) \/ Write(s) \/ Look(s) \/ Compare(s) \/ Unlink(s)
               \/ Read(s) \/ EndRound(s) \/ Stop(s) \/ Retire(s) \/ Leave(s) \/ Dies(s)
               \/ \E p \in Plans : Ring(s, p)
        PROVE  supervisor' \in [Supervisors -> Process]
    BY <2>0, <2>1, ProcessMoves
  <2>2. ASSUME NEW s \in Supervisors, NEW k \in PmSlots,
               \/ TakeLock(s, k) \/ ReadIntake(s, k) \/ AgentEnds(s, k) \/ RunsOut(s, k)
               \/ Reap(s, k) \/ Check(s, k) \/ OrphanEnds(s, k)
        PROVE  supervisor' = supervisor
    BY <2>2, ChildMoves
  <2>3. ASSUME NEW s \in Supervisors, NEW kp \in PmSlots \X Plans, Elapse(s, kp)
        PROVE  supervisor' = supervisor
    BY <2>3 DEF Elapse
  <2>4. ASSUME NEW s \in Supervisors, NEW left \in SUBSET PmSlots, ForceStop(s, left)
        PROVE  supervisor' = supervisor
    BY <2>4 DEF ForceStop
  <2>5. ASSUME NEW i \in Items, Opens(i) \/ Handled(i)
        PROVE  supervisor' = supervisor
    BY <2>5 DEF Opens, Handled
  <2>6. UNCHANGED doorbellVars => supervisor' = supervisor
    BY DEF doorbellVars
  <2>7. \/ supervisor' = supervisor
        \/ supervisor' \in [Supervisors -> Process]
    BY <2>1, <2>2, <2>3, <2>4, <2>5, <2>6, Zenon DEF DoorbellNext
  <2> QED
    BY <2>0, <2>7
<1> QED
  BY <1>1, CoolingTypes, HubAndFileTypes, LockTypes DEF DoorbellTypeOK

-----------------------------------------------------------------------------
(* The doorbell: locks and signals *)

\* A pm-agent past its start that was not told to stop holds the lock of its consumer.
HoldsItsLock ==
  \A s \in Supervisors : \A k \in PmSlots :
    child[s][k] # NoChild /\ child[s][k].phase # "start" /\ ~child[s][k].told => kernelLock[k] = s

LEMMA LockHeldStep ==
  ASSUME DoorbellTypeOK, HoldsItsLock, [DoorbellNext]_doorbellVars
  PROVE  HoldsItsLock'
<1>0. /\ child \in [Supervisors -> [PmSlots -> Child \cup {NoChild}]]
      /\ kernelLock \in [PmSlots -> Supervisors \cup {Nobody}]
  BY DEF DoorbellTypeOK
<1> SUFFICES ASSUME NEW z \in Supervisors, NEW j \in PmSlots, child'[z][j] # NoChild,
                    child'[z][j].phase # "start", ~child'[z][j].told
             PROVE  kernelLock'[j] = z
  BY DEF HoldsItsLock
<1>1. CASE UNCHANGED <<child, kernelLock>>
  BY <1>1 DEF HoldsItsLock
<1>2. ASSUME NEW s \in Supervisors, NEW p \in Plans, Ring(s, p)
      PROVE  kernelLock'[j] = z
  <2>1. kernelLock' = kernelLock
    BY <1>2 DEF Ring
  <2>2. PICK f \in [PmSlots -> Child \cup {NoChild}] :
          /\ child' = [child EXCEPT ![s] = f]
          /\ \A k \in PmSlots : f[k] # child[s][k] => f[k].phase = "start"
    BY <1>2, RingMoves
  <2>3. child'[z][j] = child[z][j]
    BY <1>0, <2>2
  <2> QED
    BY <2>1, <2>3 DEF HoldsItsLock
<1>3. ASSUME NEW s \in Supervisors, Tells(s) \/ \E left \in SUBSET PmSlots : Kills(s, left)
      PROVE  kernelLock'[j] = z
  <2>1. PICK f \in [PmSlots -> Child \cup {NoChild}] :
          /\ child' = [child EXCEPT ![s] = f]
          /\ \A k \in PmSlots : f[k] # NoChild => f[k].told
    BY <1>3, SignalMoves
  <2>2. kernelLock' = [k \in PmSlots |-> IF kernelLock[k] = s THEN Nobody ELSE kernelLock[k]]
    BY <1>3, SignalMoves
  <2>3. z # s /\ child'[z][j] = child[z][j]
    BY <1>0, <2>1
  <2>4. kernelLock[j] = z
    BY <2>3 DEF HoldsItsLock
  <2> QED
    BY <2>2, <2>3, <2>4
<1>4. ASSUME NEW s \in Supervisors, NEW k \in PmSlots,
             \/ TakeLock(s, k) \/ ReadIntake(s, k) \/ AgentEnds(s, k) \/ RunsOut(s, k)
             \/ Reap(s, k) \/ Check(s, k) \/ OrphanEnds(s, k)
      PROVE  kernelLock'[j] = z
  <2>0. child[s][k] \in Child
    BY <1>4, ChildMoves
  <2>1. CASE /\ child' = [child EXCEPT ![s][k] = NoChild]
             /\ kernelLock' = IF kernelLock[k] = s /\ child[s][k].phase # "orphan"
                              THEN [kernelLock EXCEPT ![k] = Nobody] ELSE kernelLock
    <3>1. (z # s \/ j # k) /\ child'[z][j] = child[z][j]
      BY <1>0, <2>1
    <3>2. kernelLock[j] = z
      BY <3>1 DEF HoldsItsLock
    <3> QED
      BY <1>0, <2>1, <3>1, <3>2
  <2>2. CASE /\ child[s][k].phase = "start" /\ kernelLock[k] = Nobody
             /\ child' = [child EXCEPT ![s][k].phase = "read"]
             /\ kernelLock' = [kernelLock EXCEPT ![k] = s]
    <3>1. CASE z = s /\ j = k
      BY <1>0, <2>2, <3>1
    <3>2. CASE ~(z = s /\ j = k)
      <4>1. child'[z][j] = child[z][j]
        BY <1>0, <2>2, <3>2
      <4>2. kernelLock[j] = z
        BY <4>1 DEF HoldsItsLock
      <4>3. j # k
        BY <2>2, <4>2, DoorbellAssumption
      <4> QED
        BY <1>0, <2>2, <4>2, <4>3
    <3> QED
      BY <3>1, <3>2
  <2>3. CASE /\ child[s][k].phase \in {"read", "agent"}
             /\ \E ph \in {"agent", "ending", "check"} : child' = [child EXCEPT ![s][k].phase = ph]
             /\ kernelLock' = kernelLock
    <3>1. CASE z = s /\ j = k
      <4>1. child'[s][k].told = child[s][k].told
        BY <1>0, <2>0, <2>3 DEF Child
      <4> QED
        BY <2>0, <2>3, <3>1, <4>1, DoorbellAssumption DEF HoldsItsLock
    <3>2. CASE ~(z = s /\ j = k)
      <4>1. child'[z][j] = child[z][j]
        BY <1>0, <2>3, <3>2
      <4> QED
        BY <2>3, <4>1 DEF HoldsItsLock
    <3> QED
      BY <3>1, <3>2
  <2> QED
    BY <1>4, ChildMoves, <2>1, <2>2, <2>3
<1> QED
  BY <1>1, <1>2, <1>3, <1>4, LocksMove

\* Nobody who has not got the lock file was sent a signal, ...
Starting == {"create", "write", "look", "compare", "unlink"}
StartsUnsignalled ==
  \A s \in Supervisors : supervisor[s].stage \in Starting => ~supervisor[s].signalled

\* ... a process that takes a file over has seen its owner dead, and, as long as no other
\* file was unlinked, one that runs owns the file.
TakesFromDead ==
  \A s \in Supervisors : At(s, "compare") \/ At(s, "unlink") => ~Alive(supervisor[s].saw)
OwnsItsFile ==
  /\ TakesFromDead
  /\ ~raced => \A s \in Supervisors :
       /\ Up(s) => lockFile = [owner |-> s, written |-> TRUE]
       /\ At(s, "write") => lockFile = [owner |-> s, written |-> FALSE]

\* What is not a step of a process itself leaves the processes and their file alone.
LEMMA ProcessesStay ==
  ASSUME DoorbellTypeOK, [DoorbellNext]_doorbellVars,
         ~ \E s \in Supervisors :
             \/ Create(s) \/ Write(s) \/ Look(s) \/ Compare(s) \/ Unlink(s)
             \/ Read(s) \/ EndRound(s) \/ Stop(s) \/ Retire(s) \/ Leave(s) \/ Dies(s)
  PROVE  /\ lockFile' = lockFile /\ raced' = raced
         /\ \A z \in Supervisors :
              /\ supervisor'[z].stage = supervisor[z].stage
              /\ supervisor'[z].signalled = supervisor[z].signalled
              /\ supervisor'[z].saw = supervisor[z].saw
<1>0. supervisor \in [Supervisors -> Process]
  BY DEF DoorbellTypeOK
<1>1. ASSUME NEW s \in Supervisors, NEW p \in Plans, Ring(s, p)
      PROVE  /\ lockFile' = lockFile /\ raced' = raced
             /\ \A z \in Supervisors :
                  /\ supervisor'[z].stage = supervisor[z].stage
                  /\ supervisor'[z].signalled = supervisor[z].signalled
                  /\ supervisor'[z].saw = supervisor[z].saw
  <2>1. supervisor' = [supervisor EXCEPT ![s].todo = @ \ {p}] /\ UNCHANGED fileVars
    BY <1>1 DEF Ring
  <2> QED
    BY <1>0, <2>1 DEF Process, fileVars
<1>2. ASSUME NEW s \in Supervisors, NEW k \in PmSlots,
             \/ TakeLock(s, k) \/ ReadIntake(s, k) \/ AgentEnds(s, k) \/ RunsOut(s, k)
             \/ Reap(s, k) \/ Check(s, k) \/ OrphanEnds(s, k)
      PROVE  lockFile' = lockFile /\ raced' = raced /\ supervisor' = supervisor
  BY <1>2, ChildMoves
<1>3. ASSUME NEW s \in Supervisors, NEW kp \in PmSlots \X Plans, Elapse(s, kp)
      PROVE  lockFile' = lockFile /\ raced' = raced /\ supervisor' = supervisor
  BY <1>3 DEF Elapse, fileVars
<1>4. ASSUME NEW s \in Supervisors, NEW left \in SUBSET PmSlots, ForceStop(s, left)
      PROVE  lockFile' = lockFile /\ raced' = raced /\ supervisor' = supervisor
  BY <1>4 DEF ForceStop, fileVars
<1>5. ASSUME NEW i \in Items, Opens(i) \/ Handled(i)
      PROVE  lockFile' = lockFile /\ raced' = raced /\ supervisor' = supervisor
  BY <1>5 DEF Opens, Handled, fileVars
<1>6. UNCHANGED doorbellVars => lockFile' = lockFile /\ raced' = raced /\ supervisor' = supervisor
  BY DEF doorbellVars
<1>7. \/ \E s \in Supervisors, p \in Plans : Ring(s, p)
      \/ lockFile' = lockFile /\ raced' = raced /\ supervisor' = supervisor
  BY <1>2, <1>3, <1>4, <1>5, <1>6, Zenon DEF DoorbellNext
<1> QED
  BY <1>1, <1>7

LEMMA UnsignalledStep ==
  ASSUME DoorbellTypeOK, StartsUnsignalled, [DoorbellNext]_doorbellVars
  PROVE  StartsUnsignalled'
<1>0. supervisor \in [Supervisors -> Process]
  BY DEF DoorbellTypeOK
<1> SUFFICES ASSUME NEW z \in Supervisors, supervisor'[z].stage \in Starting
             PROVE  ~supervisor'[z].signalled
  BY DEF StartsUnsignalled
<1>1. ASSUME NEW s \in Supervisors,
             \/ Create(s) \/ Look(s) \/ Compare(s) \/ Unlink(s)
      PROVE  ~supervisor'[z].signalled
  BY <1>0, <1>1 DEF Create, Look, Compare, Unlink, Goes, TriesAgain, At, Process, Starting, StartsUnsignalled
<1>2. ASSUME NEW s \in Supervisors,
             \/ Write(s) \/ Read(s) \/ EndRound(s) \/ Stop(s) \/ Retire(s) \/ Leave(s) \/ Dies(s)
      PROVE  ~supervisor'[z].signalled
  BY <1>0, <1>2 DEF Write, Read, EndRound, Stop, Retire, Leave, Dies, Goes, At, Up, Process, Starting, StartsUnsignalled
<1> QED
  BY <1>1, <1>2, ProcessesStay DEF StartsUnsignalled

LEMMA SignalledBefore ==
  ASSUME DoorbellTypeOK, StartsUnsignalled, [DoorbellNext]_doorbellVars,
         NEW z \in Supervisors, Stopping(z)', Up(z)', ~Stop(z)
  PROVE  Stopping(z) /\ Up(z)
<1>0. supervisor \in [Supervisors -> Process]
  BY DEF DoorbellTypeOK
<1>1. ASSUME NEW s \in Supervisors, Create(s) \/ Look(s) \/ Compare(s) \/ Unlink(s)
      PROVE  Stopping(z) /\ Up(z)
  BY <1>0, <1>1 DEF Create, Look, Compare, Unlink, Goes, TriesAgain, At, Process, Stopping, Up
<1>2. ASSUME NEW s \in Supervisors, Write(s)
      PROVE  Stopping(z) /\ Up(z)
  BY <1>0, <1>2 DEF Write, Goes, At, Process, Stopping, Up, StartsUnsignalled, Starting
<1>3. ASSUME NEW s \in Supervisors, Read(s) \/ EndRound(s) \/ Retire(s) \/ Leave(s) \/ Dies(s)
      PROVE  Stopping(z) /\ Up(z)
  BY <1>0, <1>3 DEF Read, EndRound, Retire, Leave, Dies, Goes, At, Process, Stopping, Up
<1>4. ASSUME NEW s \in Supervisors, Stop(s)
      PROVE  Stopping(z) /\ Up(z)
  BY <1>0, <1>4 DEF Stop, Process, Stopping, Up
<1> QED
  BY <1>1, <1>2, <1>3, <1>4, ProcessesStay DEF Stopping, Up

LEMMA StopReachesStep ==
  ASSUME DoorbellTypeOK, StartsUnsignalled, StopReachesAll, [DoorbellNext]_doorbellVars
  PROVE  StopReachesAll'
<1>0. /\ child \in [Supervisors -> [PmSlots -> Child \cup {NoChild}]]
      /\ supervisor \in [Supervisors -> Process]
  BY DEF DoorbellTypeOK
<1> SUFFICES ASSUME NEW z \in Supervisors, NEW j \in PmSlots, Stopping(z)', Up(z)', child'[z][j] # NoChild
             PROVE  child'[z][j].told
  BY DEF StopReachesAll
<1>1. ASSUME NEW s \in Supervisors, Tells(s) \/ \E left \in SUBSET PmSlots : Kills(s, left),
             z = s \/ ~Stop(z)
      PROVE  child'[z][j].told
  <2>1. PICK f \in [PmSlots -> Child \cup {NoChild}] :
          /\ child' = [child EXCEPT ![s] = f]
          /\ \A k \in PmSlots : f[k] # NoChild => f[k].told
    BY <1>1, SignalMoves
  <2>2. CASE z = s
    BY <1>0, <2>1, <2>2
  <2>3. CASE z # s
    <3>1. Stopping(z) /\ Up(z)
      BY <1>1, <2>3, SignalledBefore
    <3> QED
      BY <1>0, <2>1, <2>3, <3>1 DEF StopReachesAll
  <2> QED
    BY <2>2, <2>3
<1>2. CASE Stop(z)
  BY <1>1, <1>2 DEF Stop
<1>3. CASE ~Stop(z)
  <2>0. Stopping(z) /\ Up(z)
    BY <1>3, SignalledBefore
  <2>1. CASE UNCHANGED <<child, kernelLock>>
    BY <2>0, <2>1 DEF StopReachesAll
  <2>2. ASSUME NEW s \in Supervisors, NEW p \in Plans, Ring(s, p)
        PROVE  child'[z][j].told
    <3>1. PICK f \in [PmSlots -> Child \cup {NoChild}] :
            /\ child' = [child EXCEPT ![s] = f]
            /\ \A k \in PmSlots : f[k] # child[s][k] => ~Stopping(s)
      BY <2>2, RingMoves
    <3>2. child'[z][j] = child[z][j]
      BY <1>0, <2>0, <3>1
    <3> QED
      BY <2>0, <3>2 DEF StopReachesAll
  <2>3. ASSUME NEW s \in Supervisors, Tells(s) \/ \E left \in SUBSET PmSlots : Kills(s, left)
        PROVE  child'[z][j].told
    BY <1>1, <1>3, <2>3
  <2>4. ASSUME NEW s \in Supervisors, NEW k \in PmSlots,
               \/ TakeLock(s, k) \/ ReadIntake(s, k) \/ AgentEnds(s, k) \/ RunsOut(s, k)
               \/ Reap(s, k) \/ Check(s, k) \/ OrphanEnds(s, k)
        PROVE  child'[z][j].told
    <3>1. /\ child[s][k] \in Child
          /\ \/ child' = [child EXCEPT ![s][k] = NoChild]
             \/ \E ph \in {"read", "agent", "ending", "check"} : child' = [child EXCEPT ![s][k].phase = ph]
      BY <2>4, ChildMoves
    <3>2. CASE z = s /\ j = k
      <4>1. child'[s][k].told = child[s][k].told
        BY <1>0, <3>1, <3>2 DEF Child
      <4> QED
        BY <2>0, <3>1, <3>2, <4>1, DoorbellAssumption DEF StopReachesAll
    <3>3. CASE ~(z = s /\ j = k)
      <4>1. child'[z][j] = child[z][j]
        BY <1>0, <3>1, <3>3
      <4> QED
        BY <2>0, <4>1 DEF StopReachesAll
    <3> QED
      BY <3>2, <3>3
  <2> QED
    BY <2>1, <2>2, <2>3, <2>4, LocksMove
<1> QED
  BY <1>2, <1>3

LEMMA FileOwnedStep ==
  ASSUME DoorbellTypeOK, OwnsItsFile, [DoorbellNext]_doorbellVars
  PROVE  OwnsItsFile'
<1>0. /\ supervisor \in [Supervisors -> Process]
      /\ lockFile \in File \cup {Nobody} /\ Dead \notin Supervisors /\ Nobody \notin File
  BY DoorbellAssumption DEF DoorbellTypeOK
<1>1. ASSUME NEW o \in Supervisors \cup {Dead}, ~Alive(o) PROVE ~Alive(o)'
  <2>1. ASSUME NEW s \in Supervisors, Create(s) \/ Look(s) \/ Compare(s) \/ Unlink(s)
        PROVE  ~Alive(o)'
    BY <1>0, <1>1, <2>1 DEF Create, Look, Compare, Unlink, Goes, TriesAgain, At, Process, Alive
  <2>2. ASSUME NEW s \in Supervisors, Write(s) \/ Read(s) \/ EndRound(s) \/ Stop(s) \/ Retire(s) \/ Leave(s) \/ Dies(s)
        PROVE  ~Alive(o)'
    BY <1>0, <1>1, <2>2 DEF Write, Read, EndRound, Stop, Retire, Leave, Dies, Goes, At, Up, Process, Alive
  <2> QED
    BY <1>1, <2>1, <2>2, ProcessesStay DEF Alive
<1>2. TakesFromDead'
  <2> SUFFICES ASSUME NEW z \in Supervisors, At(z, "compare")' \/ At(z, "unlink")'
               PROVE  (~Alive(supervisor[z].saw))'
    BY DEF TakesFromDead
  <2>0. supervisor'[z].saw \in Supervisors \cup {Dead}
    BY DoorbellTypesStep DEF DoorbellTypeOK, Process
  <2>1. ASSUME NEW s \in Supervisors, Look(s)
        PROVE  ~Alive(supervisor'[z].saw)
    BY <1>0, <2>1 DEF Look, Goes, TriesAgain, At, Process, OwnsItsFile, TakesFromDead, Refusing
  <2>2. ASSUME NEW s \in Supervisors, Create(s) \/ Compare(s) \/ Unlink(s)
        PROVE  ~Alive(supervisor'[z].saw)
    BY <1>0, <2>2 DEF Create, Compare, Unlink, Goes, TriesAgain, At, Process, OwnsItsFile, TakesFromDead
  <2>3. ASSUME NEW s \in Supervisors, Write(s) \/ Read(s) \/ EndRound(s) \/ Stop(s) \/ Retire(s) \/ Leave(s) \/ Dies(s)
        PROVE  ~Alive(supervisor'[z].saw)
    BY <1>0, <2>3 DEF Write, Read, EndRound, Stop, Retire, Leave, Dies, Goes, At, Up, Process, OwnsItsFile, TakesFromDead
  <2>4. ~Alive(supervisor'[z].saw)
    BY <2>1, <2>2, <2>3, ProcessesStay DEF At, OwnsItsFile, TakesFromDead
  <2>5. PICK o : o = supervisor'[z].saw
    OBVIOUS
  <2>6. ~Alive(o)'
    BY <1>1, <2>0, <2>4, <2>5
  <2> QED
    BY <2>5, <2>6 DEF Alive
<1>3. ASSUME ~raced', NEW z \in Supervisors
      PROVE  /\ Up(z)' => lockFile' = [owner |-> z, written |-> TRUE]
             /\ At(z, "write")' => lockFile' = [owner |-> z, written |-> FALSE]
  <2>0. ~raced
    <3>1. CASE \E s \in Supervisors : Create(s) \/ Write(s) \/ Look(s) \/ Compare(s)
      BY <1>3, <3>1 DEF Create, Write, Look, Compare, fileVars
    <3>2. CASE \E s \in Supervisors : Unlink(s)
      BY <1>3, <3>2 DEF Unlink
    <3>3. CASE \E s \in Supervisors : Read(s) \/ EndRound(s) \/ Stop(s) \/ Retire(s) \/ Leave(s) \/ Dies(s)
      BY <1>3, <3>3 DEF Read, EndRound, Stop, Retire, Leave, Dies, fileVars
    <3> QED
      BY <1>3, <3>1, <3>2, <3>3, ProcessesStay
  <2>1. /\ Up(z) => lockFile = [owner |-> z, written |-> TRUE]
        /\ At(z, "write") => lockFile = [owner |-> z, written |-> FALSE]
    BY <2>0 DEF OwnsItsFile
  <2>2. lockFile # Nobody => lockFile \in File
    BY <1>0
  <2>3. ASSUME NEW s \in Supervisors, Create(s)
        PROVE  /\ Up(z)' => lockFile' = [owner |-> z, written |-> TRUE]
               /\ At(z, "write")' => lockFile' = [owner |-> z, written |-> FALSE]
    <3>1. CASE lockFile = Nobody
      <4>0. [owner |-> z, written |-> TRUE] \in File /\ [owner |-> z, written |-> FALSE] \in File
        BY DEF File
      <4>1. [owner |-> z, written |-> TRUE] # Nobody /\ [owner |-> z, written |-> FALSE] # Nobody
        BY <1>0, <4>0
      <4> QED
        BY <1>0, <2>1, <2>3, <3>1, <4>1 DEF Create, Goes, At, Up, Process
    <3>2. CASE lockFile # Nobody
      BY <1>0, <2>1, <2>3, <3>2 DEF Create, Goes, At, Up, Process
    <3> QED
      BY <3>1, <3>2
  <2>4. ASSUME NEW s \in Supervisors, Write(s)
        PROVE  /\ Up(z)' => lockFile' = [owner |-> z, written |-> TRUE]
               /\ At(z, "write")' => lockFile' = [owner |-> z, written |-> FALSE]
    <3>1. lockFile = [owner |-> s, written |-> FALSE] /\ lockFile' = [owner |-> s, written |-> TRUE]
      BY <2>0, <2>4 DEF Write, OwnsItsFile
    <3>2. CASE z = s
      BY <1>0, <2>4, <3>1, <3>2 DEF Write, Goes, At, Up, Process
    <3>3. CASE z # s
      <4>1. supervisor'[z] = supervisor[z]
        BY <1>0, <2>4, <3>3 DEF Write, Goes
      <4>2. lockFile # [owner |-> z, written |-> TRUE] /\ lockFile # [owner |-> z, written |-> FALSE]
        BY <3>1, <3>3
      <4> QED
        BY <2>1, <4>1, <4>2 DEF At, Up
    <3> QED
      BY <3>2, <3>3
  <2>5. ASSUME NEW s \in Supervisors, Look(s) \/ Compare(s)
        PROVE  /\ Up(z)' => lockFile' = [owner |-> z, written |-> TRUE]
               /\ At(z, "write")' => lockFile' = [owner |-> z, written |-> FALSE]
    BY <1>0, <2>1, <2>5 DEF Look, Compare, Goes, TriesAgain, At, Up, Process, fileVars
  <2>6. ASSUME NEW s \in Supervisors, Unlink(s)
        PROVE  /\ Up(z)' => lockFile' = [owner |-> z, written |-> TRUE]
               /\ At(z, "write")' => lockFile' = [owner |-> z, written |-> FALSE]
    <3>1. ~Alive(supervisor[s].saw)
      BY <2>6 DEF Unlink, OwnsItsFile, TakesFromDead
    <3>2. lockFile # Nobody => lockFile.owner = supervisor[s].saw
      BY <1>3, <2>6 DEF Unlink, Saw
    <3>3. ~(Up(z) \/ At(z, "write"))
      <4>1. SUFFICES ASSUME Up(z) \/ At(z, "write") PROVE FALSE
        OBVIOUS
      <4>0. [owner |-> z, written |-> TRUE] \in File /\ [owner |-> z, written |-> FALSE] \in File
        BY DEF File
      <4>2. lockFile = [owner |-> z, written |-> TRUE] \/ lockFile = [owner |-> z, written |-> FALSE]
        BY <2>1, <4>1
      <4>5. lockFile # Nobody
        BY <1>0, <4>0, <4>2
      <4>6. lockFile.owner = z
        BY <4>2
      <4>3. Alive(z)
        BY <1>0, <4>1 DEF Up, At, Alive
      <4> QED
        BY <3>1, <3>2, <4>3, <4>5, <4>6
    <3> QED
      BY <1>0, <2>6, <3>3 DEF Unlink, TriesAgain, At, Up, Process
  <2>7. ASSUME NEW s \in Supervisors, Read(s) \/ EndRound(s) \/ Stop(s) \/ Retire(s) \/ Dies(s)
        PROVE  /\ Up(z)' => lockFile' = [owner |-> z, written |-> TRUE]
               /\ At(z, "write")' => lockFile' = [owner |-> z, written |-> FALSE]
    BY <1>0, <2>1, <2>7 DEF Read, EndRound, Stop, Retire, Dies, Goes, At, Up, Process, fileVars
  <2>8. ASSUME NEW s \in Supervisors, Leave(s)
        PROVE  /\ Up(z)' => lockFile' = [owner |-> z, written |-> TRUE]
               /\ At(z, "write")' => lockFile' = [owner |-> z, written |-> FALSE]
    <3>1. lockFile = [owner |-> s, written |-> TRUE]
      BY <2>0, <2>8 DEF Leave, At, Up, OwnsItsFile
    <3>2. CASE z = s
      BY <1>0, <2>8, <3>2 DEF Leave, Goes, At, Up, Process
    <3>3. CASE z # s
      <4>1. supervisor'[z] = supervisor[z]
        BY <1>0, <2>8, <3>3 DEF Leave, Goes
      <4>2. lockFile # [owner |-> z, written |-> TRUE] /\ lockFile # [owner |-> z, written |-> FALSE]
        BY <3>1, <3>3
      <4> QED
        BY <2>1, <4>1, <4>2 DEF At, Up
    <3> QED
      BY <3>2, <3>3
  <2> QED
    BY <2>1, <2>3, <2>4, <2>5, <2>6, <2>7, <2>8, ProcessesStay DEF At, Up
<1>4. OwnsItsFile' <=> TakesFromDead' /\ (~raced' => \A z \in Supervisors :
         /\ Up(z)' => lockFile' = [owner |-> z, written |-> TRUE]
         /\ At(z, "write")' => lockFile' = [owner |-> z, written |-> FALSE])
  BY DEF OwnsItsFile
<1> QED
  BY <1>2, <1>3, <1>4

DoorbellInv ==
  DoorbellTypeOK /\ HoldsItsLock /\ StartsUnsignalled /\ StopReachesAll /\ OwnsItsFile

LEMMA DoorbellInvHolds == DoorbellSpec => []DoorbellInv
<1>1. DoorbellInit => DoorbellInv
  <2> SUFFICES ASSUME DoorbellInit PROVE DoorbellInv
    OBVIOUS
  <2>0. \A s \in Supervisors :
          supervisor[s].stage = "create" /\ ~supervisor[s].signalled /\ supervisor[s] \in Process
    <3> TAKE s \in Supervisors
    <3>1. PICK o \in BOOLEAN : supervisor[s] =
            [stage |-> "create", tries |-> 0, saw |-> Dead, once |-> o, todo |-> {}, got |-> {}, signalled |-> FALSE]
      BY DEF DoorbellInit
    <3>2. "create" \in Stage /\ 0 \in 0..1
      BY DEF Stage
    <3>3. supervisor[s] \in Process
      BY <3>1, <3>2 DEF Process
    <3> QED
      BY <3>1, <3>3
  <2>1. /\ supervisor \in [Supervisors -> Process] /\ 0 \in 0..OpenBound /\ 0 \in 0..DeathBound
        /\ [owner |-> Dead, written |-> TRUE] \in File
    BY <2>0, DoorbellAssumption DEF DoorbellInit, File
  <2>2. DoorbellTypeOK
    BY <2>1 DEF DoorbellInit, DoorbellTypeOK
  <2>3. HoldsItsLock /\ StopReachesAll
    BY DEF DoorbellInit, HoldsItsLock, StopReachesAll
  <2>4. StartsUnsignalled /\ OwnsItsFile
    BY <2>0 DEF StartsUnsignalled, OwnsItsFile, TakesFromDead, At, Up
  <2> QED
    BY <2>2, <2>3, <2>4 DEF DoorbellInv
<1>2. DoorbellInv /\ [DoorbellNext]_doorbellVars => DoorbellInv'
  BY DoorbellTypesStep, LockHeldStep, UnsignalledStep, StopReachesStep, FileOwnedStep DEF DoorbellInv
<1> QED
  BY <1>1, <1>2, PTL DEF DoorbellSpec

LEMMA DoorbellHolds == DoorbellSpec => [](DoorbellTypeOK /\ DoorbellIsSafe)
<1>1. DoorbellInv => OneAgentPerConsumer
  BY DEF DoorbellInv, HoldsItsLock, OneAgentPerConsumer, AgentLives
<1>2. DoorbellInv => OneSupervisor
  <2> SUFFICES ASSUME DoorbellInv, ~raced, NEW s \in Supervisors, NEW z \in Supervisors, Up(s), Up(z)
               PROVE  s = z
    BY DEF OneSupervisor
  <2>1. lockFile = [owner |-> s, written |-> TRUE] /\ lockFile = [owner |-> z, written |-> TRUE]
    BY DEF DoorbellInv, OwnsItsFile
  <2> QED
    BY <2>1
<1>3. DoorbellInv => DoorbellTypeOK /\ DoorbellIsSafe
  BY <1>1, <1>2 DEF DoorbellInv, DoorbellIsSafe
<1> QED
  BY <1>3, DoorbellInvHolds, PTL

-----------------------------------------------------------------------------
(* The components do not touch each other's state. *)

LEMMA PartsMove == AllSpec => WebhooksSpec /\ ModesSpec /\ DoorbellSpec
<1>1. AllInit => WebhooksInit /\ ModesInit /\ DoorbellInit
  BY DEF AllInit
<1>2. [AllNext]_allVars =>
        [WebhooksNext]_webhookVars /\ [ModesNext]_modeVars /\ [DoorbellNext]_doorbellVars
  BY DEF AllNext, allVars
<1> QED
  BY <1>1, <1>2, PTL DEF AllSpec, WebhooksSpec, ModesSpec, DoorbellSpec

\* Whatever supervisors are started, stopped, killed or die (supervisor.mjs, pm-agent.mjs):
\* one consumer has one agent that was not told to stop, a signal reaches every agent, and
\* two supervisors run only after a file was unlinked that had not been compared.
THEOREM DoorbellSafe == AllSpec => []DoorbellIsSafe
<1> QED
  BY PartsMove, DoorbellHolds, PTL

\* What a project is promised besides its tasks: no delivery is passed over or given up
\* early, and a change of mode carries out all its steps (webhook-service.ts,
\* project-service.ts).
THEOREM Project_Served == AllSpec => ProjectIsServed
<1> QED
  BY PartsMove, WebhooksTypes, Webhooks_Safe, ModesTypes, Modes_Safe, DoorbellHolds, PTL DEF ProjectIsServed
=============================================================================
