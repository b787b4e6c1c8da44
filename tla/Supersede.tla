------------------------------ MODULE Supersede ------------------------------
(***************************************************************************)
(* Work that was delivered and never reviewed can be superseded: one task  *)
(* by itself, or all such tasks of a plan as a batch that was previewed.   *)
(* The decision is one guarded script; the locks it names, the reads it is *)
(* computed from and the durable copies that follow are calls of their own,*)
(* while reviews, resets and submissions go on.                            *)
(***************************************************************************)
EXTENDS Naturals, FiniteSets

CONSTANTS
  Tasks, PlanIds,
  PlanOf(_), DependsOn(_),  \* of each task: its plan, the tasks it depends on
  PlanDeciders, TaskDeciders, \* callers that supersede plans, and single tasks
  RoundBound, PreviewBound, LapseBound,
  NoOne, NoDecision, NoReview

Deciders == PlanDeciders \cup TaskDeciders
ASSUME SupersedeAssumption ==
  /\ RoundBound \in Nat /\ PreviewBound \in Nat /\ LapseBound \in Nat /\ NoOne \notin Deciders
  /\ PlanDeciders \cap TaskDeciders = {}
  /\ \A t \in Tasks : PlanOf(t) \in PlanIds /\ DependsOn(t) \subseteq Tasks

VARIABLES
  work,       \* the hub's record of each task
  moved,      \* deciders that read revisionByPlan before its last change
  decided,    \* superseded_by and supersede_preview_token of each task
  saved,      \* the superseded tasks SQLite knows as such
  lock,       \* pmReviewLock of each task
  planLock,   \* planSupersedeLock of each plan
  token,      \* the preview each plan decider holds, and its number
  decision,   \* the request of each decider
  review,     \* the review under way
  verdicts,   \* history: a task, its round, and what was said of it
  promised,   \* history: tasks that were answered to be superseded
  lapses

supersedeVars == <<work, moved, decided, saved, lock, planLock, token, decision, review, verdicts, promised, lapses>>

Work == [status : {"absent", "pending", "done", "cancelled", "superseded"}, accepted : BOOLEAN, round : Nat]
MarkAll == [by : Deciders \cup {NoOne}, number : Nat]
Decision == [plan : PlanIds, at : {"look", "lock", "tasks", "revisions", "commit", "persist"},
             want : SUBSET Tasks, held : SUBSET Tasks, seen : [Tasks -> Work],
             left : SUBSET Tasks]

SupersedeTypeOK ==
  /\ work \in [Tasks -> Work] /\ moved \subseteq PlanDeciders /\ lapses \in 0 .. LapseBound
  /\ decided \in [Tasks -> MarkAll]
  /\ {saved, promised} \subseteq SUBSET Tasks
  /\ lock \in [Tasks -> Deciders \cup {NoOne, "reviewer"}] /\ planLock \in [PlanIds -> Deciders \cup {NoOne}]
  /\ token \in [PlanDeciders -> [seen : [Tasks -> Work], number : Nat]]
  /\ decision \in [Deciders -> Decision \cup {NoDecision}]
  /\ review \in [task : Tasks, round : Nat, at : {"read", "commit"}] \cup {NoReview}
  /\ verdicts \subseteq Tasks \X (0 .. RoundBound) \X {"accepted", "superseded"}

Absent == [t \in Tasks |-> [status |-> "absent", accepted |-> FALSE, round |-> 0]]
SupersedeInit ==
  /\ work = Absent
  /\ moved = {} /\ lapses = 0
  /\ decided = [t \in Tasks |-> [by |-> NoOne, number |-> 0]]
  /\ saved = {} /\ promised = {} /\ verdicts = {}
  /\ lock = [t \in Tasks |-> NoOne] /\ planLock = [p \in PlanIds |-> NoOne]
  /\ token = [d \in PlanDeciders |-> [seen |-> Absent, number |-> 0]]
  /\ decision = [d \in Deciders |-> NoDecision]
  /\ review = NoReview

TasksOf(p) == {t \in Tasks : PlanOf(t) = p}
Idle(d) == decision[d] = NoDecision
Is(d, step) == ~Idle(d) /\ decision[d].at = step

\* Every change of a task bumps the revision of its plan, and submissions add plans.
Bump == moved' = {d \in PlanDeciders : Is(d, "commit")}

\* isSupersedeCandidate and activeDependents, over a snapshot.
CandidatesIn(seen, p) == {t \in TasksOf(p) : seen[t].status = "done" /\ ~seen[t].accepted}
Active(seen) == {t \in Tasks : seen[t].status \notin {"absent", "cancelled", "superseded"}}
DependentsIn(seen, these) == {t \in Active(seen) \ these : DependsOn(t) \cap these # {}}

\* Unfinished work of the plan, and tasks outside the batch that depend on it.
BlockersIn(seen, p) ==
  LET these == CandidatesIn(seen, p) IN
  {t \in TasksOf(p) \ these : seen[t].status = "pending"} \cup DependentsIn(seen, these)

\* What the preview's digest covers.
Relevant(seen, p) ==
  TasksOf(p) \cup {t \in Tasks : DependsOn(t) \cap CandidatesIn(seen, p) # {}}
Snapshot(p) == [t \in Tasks |-> IF t \in Relevant(work, p) THEN work[t] ELSE Absent[t]]

-----------------------------------------------------------------------------
(* Superseding a plan *)

Fresh(p) == [plan |-> p, at |-> "look", want |-> {}, held |-> {}, seen |-> Absent, left |-> {}]

PreviewPlan(d, p) ==
  /\ Idle(d) /\ token[d].number < PreviewBound
  /\ token' = [token EXCEPT ![d] = [seen |-> Snapshot(p), number |-> @.number + 1]]
  /\ UNCHANGED <<work, moved, decided, saved, lock, planLock, decision, review, verdicts, promised, lapses>>

\* Every exit stops the renewals and gives back the locks that are still owned.
Leaves(d) ==
  /\ decision' = [decision EXCEPT ![d] = NoDecision]
  /\ lock' = [t \in Tasks |-> IF lock[t] = d THEN NoOne ELSE lock[t]]
  /\ planLock' = [p \in PlanIds |-> IF planLock[p] = d THEN NoOne ELSE planLock[p]]
Step(d, changed) ==
  /\ decision' = [decision EXCEPT ![d] = changed]
  /\ UNCHANGED <<lock, planLock>>

StartPlan(d, p) ==
  /\ Idle(d) /\ token[d].number > 0 /\ planLock[p] = NoOne
  /\ planLock' = [planLock EXCEPT ![p] = d]
  /\ decision' = [decision EXCEPT ![d] = Fresh(p)]
  /\ UNCHANGED <<work, moved, decided, saved, lock, token, review, verdicts, promised, lapses>>

\* A batch this very preview has already superseded is only made durable again.
Replayed(d) == {t \in TasksOf(decision[d].plan) :
                  work[t].status = "superseded" /\ decided[t] = [by |-> d, number |-> token[d].number]}
Look_AnswersAtOnce(d) ==
  LET p == decision[d].plan IN
  /\ Is(d, "look") /\ d \in PlanDeciders
  /\ IF Replayed(d) # {}
     THEN Step(d, [decision[d] EXCEPT !.at = "persist", !.want = Replayed(d)])
     ELSE Step(d, [decision[d] EXCEPT !.at = "lock", !.want = CandidatesIn(work, p)])
  /\ UNCHANGED <<work, moved, decided, saved, token, review, verdicts, promised, lapses>>
Look(d) ==
  LET p == decision[d].plan IN
  /\ Is(d, "look") /\ d \in PlanDeciders
  /\ IF Replayed(d) # {}
     THEN Step(d, [decision[d] EXCEPT !.at = "persist", !.left = Replayed(d), !.want = Replayed(d)])
     ELSE Step(d, [decision[d] EXCEPT !.at = "lock", !.want = CandidatesIn(work, p)])
  /\ UNCHANGED <<work, moved, decided, saved, token, review, verdicts, promised, lapses>>

\* One lock after the other; a busy one is tried for a while.
Take(d, t) ==
  /\ Is(d, "lock") /\ t \in decision[d].want \ decision[d].held /\ lock[t] = NoOne
  /\ lock' = [lock EXCEPT ![t] = d]
  /\ decision' = [decision EXCEPT ![d].held = @ \cup {t}]
  /\ UNCHANGED <<work, moved, decided, saved, planLock, token, review, verdicts, promised, lapses>>

GivesUp(d) ==
  /\ Is(d, "lock") /\ \E t \in decision[d].want \ decision[d].held : lock[t] # NoOne
  /\ Leaves(d)
  /\ UNCHANGED <<work, moved, decided, saved, token, review, verdicts, promised, lapses>>

ReadTasks(d) ==
  /\ Is(d, "lock") /\ decision[d].held = decision[d].want
  /\ Step(d, [decision[d] EXCEPT !.at = "revisions", !.seen = Snapshot(decision[d].plan)])
  /\ UNCHANGED <<work, moved, decided, saved, token, review, verdicts, promised, lapses>>

\* The revisions are read after the tasks.
ReadRevisions(d) ==
  LET p == decision[d].plan  seen == decision[d].seen IN
  /\ Is(d, "revisions")
  /\ moved' = moved \ {d}
  /\ IF /\ token[d].seen = seen
        /\ BlockersIn(seen, p) = {} /\ CandidatesIn(seen, p) # {}
     THEN Step(d, [decision[d] EXCEPT !.at = "commit", !.want = CandidatesIn(seen, p)])
     ELSE Leaves(d)
  /\ UNCHANGED <<work, decided, saved, token, review, verdicts, promised, lapses>>

\* COMMIT_SUPERSEDE_BATCH: locks, rounds, the tasks of the preview and the
\* revisions of all plans are compared before anything is written.
Unchanged_Unfenced(d, these) == \A t \in these : decision[d].seen[t].status = "done"
Unchanged(d, these) ==
  \A t \in these : lock[t] = d /\ work[t] = decision[d].seen[t] /\ work[t].status = "done" /\ ~work[t].accepted
PlanUnchanged(d) ==
  LET p == decision[d].plan IN
  /\ planLock[p] = d
  /\ \A t \in Relevant(decision[d].seen, p) : decision[d].seen[t].status # "absent" => work[t] = decision[d].seen[t]
  /\ d \notin moved

Superseded(d, these, number) ==
  /\ work' = [t \in Tasks |-> IF t \in these THEN [work[t] EXCEPT !.status = "superseded"] ELSE work[t]]
  /\ decided' = [t \in Tasks |-> IF t \in these THEN [by |-> d, number |-> number] ELSE decided[t]]
  /\ verdicts' = verdicts \cup {<<t, work[t].round, "superseded">> : t \in these}
  /\ Bump

CommitPlan(d) ==
  LET these == decision[d].want IN
  /\ Is(d, "commit") /\ d \in PlanDeciders
  /\ IF Unchanged(d, these) /\ PlanUnchanged(d)
     THEN /\ Superseded(d, these, token[d].number)
          /\ Step(d, [decision[d] EXCEPT !.at = "persist", !.left = these, !.seen = Absent])
     ELSE Leaves(d) /\ UNCHANGED <<work, moved, decided, verdicts>>
  /\ UNCHANGED <<saved, token, review, promised, lapses>>

-----------------------------------------------------------------------------
(* Superseding one task *)

StartTask(d, t) ==
  /\ Idle(d) /\ lock[t] = NoOne /\ work[t].status # "absent"
  /\ lock' = [lock EXCEPT ![t] = d]
  /\ decision' = [decision EXCEPT ![d] = [Fresh(PlanOf(t)) EXCEPT !.want = {t}, !.held = {t}]]
  /\ UNCHANGED <<work, moved, decided, saved, planLock, token, review, verdicts, promised, lapses>>

\* The same decision again is made durable again; another one is refused.
LookAtTask(d) ==
  LET t == CHOOSE u \in decision[d].want : TRUE IN
  /\ Is(d, "look") /\ d \in TaskDeciders
  /\ IF work[t].status = "superseded" /\ decided[t].by = d
     THEN Step(d, [decision[d] EXCEPT !.at = "persist", !.left = {t}])
     ELSE IF work[t].status = "done" /\ ~work[t].accepted
     THEN Step(d, [decision[d] EXCEPT !.at = "tasks", !.seen = [Absent EXCEPT ![t] = work[t]]])
     ELSE Leaves(d)
  /\ UNCHANGED <<work, moved, decided, saved, token, review, verdicts, promised, lapses>>

\* Its dependents are read once more, before the script and not in it.
ReadDependents(d) ==
  /\ Is(d, "tasks")
  /\ IF DependentsIn(work, decision[d].want) # {} THEN Leaves(d)
     ELSE Step(d, [decision[d] EXCEPT !.at = "commit"])
  /\ UNCHANGED <<work, moved, decided, saved, token, review, verdicts, promised, lapses>>

CommitTask(d) ==
  /\ Is(d, "commit") /\ d \in TaskDeciders
  /\ IF Unchanged(d, decision[d].want)
     THEN /\ Superseded(d, decision[d].want, 0)
          /\ Step(d, [decision[d] EXCEPT !.at = "persist", !.left = decision[d].want, !.seen = Absent])
     ELSE Leaves(d) /\ UNCHANGED <<work, moved, decided, verdicts>>
  /\ UNCHANGED <<saved, token, review, promised, lapses>>

-----------------------------------------------------------------------------
(* After the decision *)

\* SQLite's copy, and the doorbell of the review that is no longer due.
Persist(d, t) ==
  /\ Is(d, "persist") /\ t \in decision[d].left
  /\ saved' = saved \cup {t}
  /\ Step(d, [decision[d] EXCEPT !.left = @ \ {t}])
  /\ UNCHANGED <<work, moved, decided, token, review, verdicts, promised, lapses>>

AnswerDecision(d) ==
  /\ Is(d, "persist") /\ decision[d].left = {}
  /\ promised' = promised \cup decision[d].want
  /\ Leaves(d)
  /\ UNCHANGED <<work, moved, decided, saved, token, review, verdicts, lapses>>

\* SQLite or Redis fails, or the hub stops: the caller gets no answer and may
\* repeat its request.
Fails(d) ==
  /\ ~Idle(d)
  /\ Leaves(d)
  /\ UNCHANGED <<work, moved, decided, saved, token, review, verdicts, promised, lapses>>

\* The renewal of a lock stalls for longer than its term.
LockLapses(t) ==
  /\ lapses < LapseBound /\ lapses' = lapses + 1
  /\ lock[t] # NoOne
  /\ lock' = [lock EXCEPT ![t] = NoOne]
  /\ UNCHANGED <<work, moved, decided, saved, planLock, token, decision, review, verdicts, promised>>

PlanLockLapses(p) ==
  /\ lapses < LapseBound /\ lapses' = lapses + 1
  /\ planLock[p] # NoOne
  /\ planLock' = [planLock EXCEPT ![p] = NoOne]
  /\ UNCHANGED <<work, moved, decided, saved, lock, token, decision, review, verdicts, promised>>

-----------------------------------------------------------------------------
(* Submissions, deliveries, reviews, resets *)

Writes(t, record) == work' = [work EXCEPT ![t] = record] /\ Bump

PublishLate(t) ==
  /\ work[t].status = "absent"
  /\ Writes(t, [work[t] EXCEPT !.status = "pending"])
  /\ UNCHANGED <<decided, saved, lock, planLock, token, decision, review, verdicts, promised, lapses>>

Deliver(t) ==
  /\ work[t].status = "pending" /\ work[t].round < RoundBound
  /\ Writes(t, [work[t] EXCEPT !.status = "done", !.round = @ + 1])
  /\ UNCHANGED <<decided, saved, lock, planLock, token, decision, review, verdicts, promised, lapses>>

Cancel(t) ==
  /\ work[t].status = "pending"
  /\ Writes(t, [work[t] EXCEPT !.status = "cancelled"])
  /\ UNCHANGED <<decided, saved, lock, planLock, token, decision, review, verdicts, promised, lapses>>

\* A reset holds the task's lock while it runs.
Reset(t) ==
  /\ work[t].status = "done" /\ lock[t] = NoOne
  /\ Writes(t, [work[t] EXCEPT !.status = "pending", !.accepted = FALSE])
  /\ UNCHANGED <<decided, saved, lock, planLock, token, decision, review, verdicts, promised, lapses>>

BeginReview(t) ==
  /\ review = NoReview /\ work[t].status = "done" /\ ~work[t].accepted /\ lock[t] = NoOne
  /\ lock' = [lock EXCEPT ![t] = "reviewer"]
  /\ review' = [task |-> t, round |-> work[t].round, at |-> "commit"]
  /\ UNCHANGED <<work, moved, decided, saved, planLock, token, decision, verdicts, promised, lapses>>

EndReview ==
  LET t == review.task IN
  /\ review # NoReview
  /\ IF lock[t] = "reviewer" /\ work[t].status = "done" /\ work[t].round = review.round /\ ~work[t].accepted
     THEN /\ Writes(t, [work[t] EXCEPT !.accepted = TRUE])
          /\ verdicts' = verdicts \cup {<<t, review.round, "accepted">>}
     ELSE UNCHANGED <<work, moved, verdicts>>
  /\ lock' = [lock EXCEPT ![t] = IF @ = "reviewer" THEN NoOne ELSE @]
  /\ review' = NoReview
  /\ UNCHANGED <<decided, saved, planLock, token, decision, promised, lapses>>

SupersedeNext ==
  \/ \E d \in PlanDeciders, p \in PlanIds : PreviewPlan(d, p) \/ StartPlan(d, p)
  \/ \E d \in PlanDeciders : Look(d) \/ ReadTasks(d) \/ ReadRevisions(d) \/ CommitPlan(d) \/ GivesUp(d)
  \/ \E d \in PlanDeciders, t \in Tasks : Take(d, t)
  \/ \E d \in TaskDeciders, t \in Tasks : StartTask(d, t)
  \/ \E d \in TaskDeciders : LookAtTask(d) \/ ReadDependents(d) \/ CommitTask(d)
  \/ \E d \in Deciders, t \in Tasks : Persist(d, t)
  \/ \E d \in Deciders : AnswerDecision(d) \/ Fails(d)
  \/ \E t \in Tasks : LockLapses(t) \/ PublishLate(t) \/ Deliver(t) \/ Cancel(t) \/ Reset(t) \/ BeginReview(t)
  \/ \E p \in PlanIds : PlanLockLapses(p)
  \/ EndReview

SupersedeSpec == SupersedeInit /\ [][SupersedeNext]_supersedeVars

-----------------------------------------------------------------------------
(* Properties *)

\* A delivery is accepted or superseded, never both, even when a lock lapses
\* under its holder.
OneVerdict == \A t \in Tasks, r \in 0 .. RoundBound :
  ~(<<t, r, "accepted">> \in verdicts /\ <<t, r, "superseded">> \in verdicts)

\* Whoever was told that tasks are superseded can rely on it after a restore, also
\* when the answer came from the repetition of a request that had failed.
AnswerIsDurable == \A t \in promised : work[t].status = "superseded" /\ t \in saved

\* Who superseded a task, and by which preview, never changes.
DecisionStays == \A t \in Tasks : decided[t].by # NoOne =>
  decided'[t] = decided[t] /\ work'[t].status = "superseded"

SupersedeIsSafe ==
  /\ [](OneVerdict /\ AnswerIsDurable)
  /\ [][DecisionStays]_supersedeVars

\* "A blocker that appears between the preview and the commit makes the whole
\* batch fail" (the comment in COMMIT_SUPERSEDE_BATCH): no batch leaves an active
\* dependent behind.
BatchLeavesNoDependents ==
  [][\A p \in PlanIds : LET gone == {t \in TasksOf(p) : work[t].status = "done" /\ work'[t].status = "superseded"
                                                        /\ decided'[t].number > 0}
     IN gone # {} => DependentsIn(work', gone) = {}]_supersedeVars
=============================================================================
