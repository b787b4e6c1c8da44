-------------------------- MODULE ModeTransitions --------------------------
(***************************************************************************)
(* A project on nodes is switched to read-only and back in six steps each  *)
(* (v2/project-service.ts).  A step is one call of advanceModeTransition,  *)
(* a sequence of writes to SQLite; the hub may stop between any two of     *)
(* them, and its next start repeats the step the row of the transition is  *)
(* at.  The owner may walk away from a transition that failed, begin       *)
(* another and come back, and all along the nodes go on working: neither   *)
(* a claim nor a delivery looks at the pause.                              *)
(***************************************************************************)
EXTENDS Integers, Sequences, FiniteSets

CONSTANTS
  Works,            \* the project's tasks that write
  Nodes,            \* nodes bound to the project
  TransitionBound,  \* bound on the transitions begun
  UpsetBound      \* bound on crashes, lapsed deadlines and what is outside the project

ASSUME ModesAssumption == TransitionBound \in Nat /\ UpsetBound \in Nat

VARIABLES
  project,     \* status, mode, the transition it points to (0: none), write capability
  transition,  \* the rows, in the order in which they were made
  work,        \* each task with its newest attempt and what has come of it
  binding,     \* each node: online, and its right to push
  sound,       \* what validation looks at: the fingerprint is known, the plans are complete
  done,        \* history: the steps each transition has carried out in full
  touched,     \* history: tasks something happened to since a reconciliation passed
  retried,     \* history: transitions taken up again after a failure
  upsets

modeVars == <<project, transition, work, binding, sound, done, touched, retried, upsets>>
workVars == <<work, touched>>
history == <<done, retried>>

Modes == {"full", "read-only"}
DRAINING_STEPS ==
  <<"pause", "fence-attempts", "invalidate-lineage", "block-dependents", "reconcile", "commit-mode">>
VALIDATING_STEPS ==
  <<"pause", "validate-capability", "reconcile", "refresh-bindings", "revalidate-plans", "commit-mode">>
Steps(to) == IF to = "read-only" THEN DRAINING_STEPS ELSE VALIDATING_STEPS

TransitionIds == 1 .. TransitionBound
Unmade == [to |-> "full", at |-> 1, status |-> "none", overdue |-> FALSE, expired |-> FALSE]
Running == {t \in TransitionIds : transition[t].status = "running"}
Made == {t \in TransitionIds : transition[t].status # "none"}

ModesTypeOK ==
  /\ project \in [status : {"active", "paused"}, mode : Modes, pointer : {0} \cup TransitionIds,
                  capability : {"ready", "suspect", "lost", "disabled"}]
  /\ transition \in [TransitionIds -> [to : Modes, at : 1 .. 6, overdue : BOOLEAN, expired : BOOLEAN,
                                 status : {"none", "running", "failed", "completed"}]]
  /\ work \in [Works -> [task : {"pending", "running", "blocked", "done"}, marked : BOOLEAN,
                         attempt : {"none", "executing", "fenced", "ended"},
                         delivery : {"none", "open", "closed"}, job : BOOLEAN,
                         candidate : {"none", "pending", "settled"}]]
  /\ binding \in [Nodes -> [online : BOOLEAN, credential : {"eligible", "suspended"}]]
  /\ sound \in [fingerprint : BOOLEAN, plans : BOOLEAN]
  /\ done \in [TransitionIds -> SUBSET ({"pause"} \cup {Steps(m)[i] : m \in Modes, i \in 1 .. 6})]
  /\ touched \subseteq Works /\ retried \subseteq TransitionIds
  /\ upsets \in 0 .. UpsetBound

ModesInit ==
  /\ \E m \in Modes :
       project = [status |-> "active", mode |-> m, pointer |-> 0, capability |-> "ready"]
  /\ transition = [t \in TransitionIds |-> Unmade]
  /\ work = [w \in Works |-> [task |-> "pending", marked |-> FALSE, attempt |-> "none",
                              delivery |-> "none", job |-> FALSE, candidate |-> "none"]]
  /\ binding = [n \in Nodes |-> [online |-> TRUE, credential |-> "eligible"]]
  /\ sound = [fingerprint |-> FALSE, plans |-> TRUE]
  /\ done = [t \in TransitionIds |-> {}] /\ touched = {} /\ retried = {} /\ upsets = 0

Upset == upsets < UpsetBound /\ upsets' = upsets + 1

-----------------------------------------------------------------------------
(* The nodes' work on the project, and what the owner decides about it.    *)

Worked(w, record) ==
  /\ work' = [work EXCEPT ![w] = record] /\ touched' = touched \cup {w}
  /\ UNCHANGED <<transition, binding, sound, history, upsets>>

\* The write capability is looked at, the mode, the pause and a block are not.
Claim(w) ==
  /\ project.capability \notin {"lost", "disabled"}
  /\ work[w].task # "done" /\ work[w].attempt # "executing"
  /\ Worked(w, [work[w] EXCEPT !.task = "running", !.attempt = "executing", !.candidate = "none",
                               !.delivery = IF @ = "open" THEN @ ELSE "none"])
  /\ UNCHANGED project

\* A report is taken whatever has become of the attempt; it does not clear the mark.
ReportTask(w) ==
  /\ work[w].attempt # "none"
  /\ \E s \in {"done", "pending"} :
       Worked(w, [work[w] EXCEPT !.task = s, !.attempt = "ended"])
  /\ UNCHANGED project

Deliver(w) ==
  /\ work[w].attempt # "none" /\ work[w].delivery = "none"
  /\ Worked(w, [work[w] EXCEPT !.delivery = "open"]) /\ UNCHANGED project

Enqueue(w) ==
  /\ work[w].delivery = "open" /\ ~work[w].job
  /\ Worked(w, [work[w] EXCEPT !.job = TRUE]) /\ UNCHANGED project

\* Merged, cancelled or turned down.
SettleDelivery(w) ==
  /\ work[w].delivery = "open" \/ work[w].job
  /\ Worked(w, [work[w] EXCEPT !.delivery = IF @ = "open" THEN "closed" ELSE @, !.job = FALSE])
  /\ UNCHANGED project

FindCandidate(w) ==
  /\ work[w].attempt # "none" /\ work[w].candidate = "none"
  /\ Worked(w, [work[w] EXCEPT !.candidate = "pending"]) /\ UNCHANGED project

\* Decided, or put aside in isolation.
Decide(w) ==
  /\ work[w].candidate = "pending"
  /\ Worked(w, [work[w] EXCEPT !.candidate = "settled"]) /\ UNCHANGED project

\* The remote refused pushes once too often.
BreakCircuit ==
  /\ Upset /\ project' = [project EXCEPT !.capability = "lost"]
  /\ work' = [w \in Works |-> [work[w] EXCEPT !.attempt = IF @ = "executing" THEN "ended" ELSE @]]
  /\ UNCHANGED <<transition, binding, sound, history, touched>>

\* The owner may open a project again by hand, whatever its mode.
RestoreWrites ==
  /\ project.capability \in {"lost", "disabled"}
  /\ project' = [project EXCEPT !.capability = "ready"]
  /\ UNCHANGED <<transition, workVars, binding, sound, history, upsets>>

-----------------------------------------------------------------------------
(* The checklist, and a step.  A definition named X_What is a faulty       *)
(* variant of X.                                                           *)

StepOf(t) == Steps(transition[t].to)[transition[t].at]

OnChecklist(w) ==
  \/ work[w].attempt = "executing"
  \/ work[w].task \in {"pending", "running"} /\ ~work[w].marked
  \/ work[w].delivery = "open"
  \/ work[w].job
  \/ work[w].candidate = "pending"

Waits_Candidates(t) == StepOf(t) = "reconcile" /\ \E w \in Works : work[w].candidate = "pending"
Waits(t) ==
  /\ StepOf(t) = "reconcile"
  /\ \E w \in Works : IF transition[t].to = "read-only" THEN OnChecklist(w)
                                                         ELSE work[w].candidate = "pending"

Fails(t) ==
  \/ StepOf(t) = "validate-capability" /\ ~sound.fingerprint
  \/ StepOf(t) = "revalidate-plans" /\ ~sound.plans

Succeeds(t) == ~Waits(t) /\ ~Fails(t)

\* The pointer is repeated before the step; the end of a commit takes it away.
PointedTo(t) == [project EXCEPT !.pointer = t]
ProjectAfter(t) ==
  LET to == transition[t].to
      new == PointedTo(t) IN
  IF Fails(t) THEN new
  ELSE CASE StepOf(t) = "pause" ->
              [new EXCEPT !.status = "paused",
                          !.capability = IF @ = "disabled" /\ to = "full" THEN "suspect" ELSE @]
         [] StepOf(t) = "validate-capability" -> [new EXCEPT !.capability = "ready"]
         [] StepOf(t) = "commit-mode" ->
              [status |-> "active", mode |-> to, pointer |-> 0,
               capability |-> IF to = "full" THEN "ready" ELSE "disabled"]
         [] OTHER -> new

\* What a step does to a task.  Works that wait for an answer are taken for finished.
WorkAfter(t, w) ==
  CASE StepOf(t) = "fence-attempts" ->
         [work[w] EXCEPT !.attempt = IF @ = "executing" THEN "fenced" ELSE @]
    [] StepOf(t) = "invalidate-lineage" ->
         [work[w] EXCEPT !.delivery = IF @ = "open" THEN "closed" ELSE @, !.job = FALSE]
    [] StepOf(t) = "block-dependents" ->
         IF work[w].task \in {"pending", "running"} /\ ~work[w].marked
         THEN [work[w] EXCEPT !.task = "blocked", !.marked = TRUE] ELSE work[w]
    [] OTHER -> work[w]

BindingAfter(t, n) ==
  IF StepOf(t) = "refresh-bindings"
  THEN [binding[n] EXCEPT !.credential = IF binding[n].online THEN "eligible" ELSE "suspended"]
  ELSE binding[n]

\* The row moves on only after the step, so that a step that was cut short is repeated.
RowAfter_Early(t, finished) ==
  CASE ~Succeeds(t) -> [transition[t] EXCEPT !.status = IF Fails(t) THEN "failed" ELSE @]
    [] Succeeds(t) /\ StepOf(t) = "commit-mode" -> [transition[t] EXCEPT !.status = "completed"]
    [] OTHER -> [transition[t] EXCEPT !.at = @ + 1]
RowAfter(t, finished) ==
  CASE ~finished -> transition[t]
    [] finished /\ Waits(t) -> transition[t]
    [] finished /\ Fails(t) -> [transition[t] EXCEPT !.status = "failed"]
    [] finished /\ Succeeds(t) /\ StepOf(t) = "commit-mode" -> [transition[t] EXCEPT !.status = "completed"]
    [] OTHER -> [transition[t] EXCEPT !.at = @ + 1]

\* advanceModeTransition of a running one: to its end, or cut short after the writes for
\* some of the tasks or nodes, or after all the writes of the step but not of the row.
Carries(t, ws, ns, whole) ==
  /\ project' = IF whole THEN ProjectAfter(t) ELSE PointedTo(t)
  /\ work' = [w \in Works |-> IF w \in ws THEN WorkAfter(t, w) ELSE work[w]]
  /\ binding' = [n \in Nodes |-> IF n \in ns THEN BindingAfter(t, n) ELSE binding[n]]
  /\ done' = [done EXCEPT ![t] = IF whole /\ Succeeds(t) THEN @ \cup {StepOf(t)} ELSE @]
  /\ touched' = IF whole /\ StepOf(t) = "reconcile" /\ Succeeds(t) THEN {} ELSE touched
  /\ UNCHANGED <<sound, retried>>

Live(t) == transition[t].status = "running" /\ ~transition[t].overdue

AdvanceStep(t) ==
  /\ Live(t) /\ Carries(t, Works, Nodes, TRUE)
  /\ transition' = [transition EXCEPT ![t] = RowAfter(t, TRUE)]
  /\ UNCHANGED upsets

CutShort(t) ==
  /\ Live(t) /\ Upset
  /\ \E whole \in BOOLEAN, ws \in SUBSET Works, ns \in SUBSET Nodes :
       /\ whole => ws = Works /\ ns = Nodes
       /\ Carries(t, ws, ns, whole)
  /\ transition' = [transition EXCEPT ![t] = RowAfter(t, FALSE)]

-----------------------------------------------------------------------------
(* The owner, time and the outside.                                        *)

\* applyModeTransition: the row, the pointer and the first step, or the row alone.
BeginTransition(t, to, whole) ==
  /\ Made = 1 .. (t - 1) /\ Running = {} /\ project.mode # to
  /\ transition' = [transition EXCEPT ![t] = [Unmade EXCEPT !.to = to, !.status = "running",
                                                            !.at = IF whole THEN 2 ELSE 1]]
  /\ project' = IF ~whole THEN project
                ELSE [project EXCEPT !.status = "paused", !.pointer = t,
                        !.capability = IF @ = "disabled" /\ to = "full" THEN "suspect" ELSE @]
  /\ done' = [done EXCEPT ![t] = IF whole THEN {"pause"} ELSE {}]
  /\ IF whole THEN UNCHANGED upsets ELSE Upset
  /\ UNCHANGED <<work, touched, binding, sound, retried>>

DeadlinePasses(t) ==
  /\ t \in Running /\ ~transition[t].overdue /\ Upset
  /\ transition' = [transition EXCEPT ![t].overdue = TRUE]
  /\ UNCHANGED <<project, workVars, binding, sound, history>>

\* Found by the next call or the next start of the hub; kept aside for a review.
Expire(t) ==
  /\ t \in Running /\ transition[t].overdue
  /\ transition' = [transition EXCEPT ![t].status = "failed", ![t].expired = TRUE]
  /\ UNCHANGED <<project, workVars, binding, sound, history, upsets>>

\* Only the unique index keeps a second one from running.  The deadline stays.
IndexAllows_Always == TRUE
IndexAllows == Running = {}
Retry(t) ==
  /\ transition[t].status = "failed" /\ ~transition[t].expired /\ IndexAllows
  /\ transition' = [transition EXCEPT ![t].status = "running"]
  /\ retried' = retried \cup {t}
  /\ UNCHANGED <<project, workVars, binding, sound, done, upsets>>

Resync(n) ==
  /\ binding[n].online /\ binding' = [binding EXCEPT ![n].credential = "eligible"]
  /\ UNCHANGED <<project, transition, workVars, sound, history, upsets>>

Flips(n) ==
  /\ binding[n].online => Upset
  /\ ~binding[n].online => UNCHANGED upsets
  /\ binding' = [binding EXCEPT ![n].online = ~@]
  /\ UNCHANGED <<project, transition, workVars, sound, history>>

\* The first preparation of a workspace registers the fingerprint; plans come and go.
Outside ==
  /\ \/ ~sound.fingerprint /\ sound' = [sound EXCEPT !.fingerprint = TRUE] /\ UNCHANGED upsets
     \/ sound.plans /\ sound' = [sound EXCEPT !.plans = FALSE] /\ Upset
     \/ ~sound.plans /\ sound' = [sound EXCEPT !.plans = TRUE] /\ UNCHANGED upsets
  /\ UNCHANGED <<project, transition, workVars, binding, history>>

OfTask(w) ==
  \/ Claim(w) \/ ReportTask(w) \/ Deliver(w) \/ Enqueue(w) \/ SettleDelivery(w)
  \/ FindCandidate(w) \/ Decide(w)
OfTransition(t) ==
  \/ \E to \in Modes, whole \in BOOLEAN : BeginTransition(t, to, whole)
  \/ AdvanceStep(t) \/ CutShort(t) \/ DeadlinePasses(t) \/ Expire(t) \/ Retry(t)
ModesNext ==
  \/ \E w \in Works : OfTask(w)
  \/ \E t \in TransitionIds : OfTransition(t)
  \/ \E n \in Nodes : Resync(n) \/ Flips(n)
  \/ BreakCircuit \/ RestoreWrites \/ Outside
ModesSpec == ModesInit /\ [][ModesNext]_modeVars

-----------------------------------------------------------------------------
(* Properties.                                                             *)

Earlier(t) == {Steps(transition[t].to)[i] : i \in 1 .. 5}

\* Wherever the hub stopped and however often a transition failed and was taken up
\* again: when the mode changes, each step before the commit has been carried out in full.
EveryStepComesFirst ==
  [][project'.mode # project.mode =>
       \E t \in Running : transition[t].to = project'.mode /\ Earlier(t) \subseteq done[t]]_modeVars

\* What the checklist is for: a project becomes read-only with nothing of what was there
\* when its reconciliation passed still open.  (Work begun since then may be.)
DrainedWhenReadOnly ==
  [][project'.mode = "read-only" /\ project.mode = "full" =>
       \A w \in Works \ touched :
         /\ work[w].attempt # "executing" /\ work[w].delivery # "open"
         /\ ~work[w].job /\ work[w].candidate # "pending"]_modeVars

\* A transition that expired is over for good: its row stays and nothing is done for it.
ExpiredIsOver ==
  [][\A t \in TransitionIds : transition[t].expired =>
       transition'[t] = transition[t] /\ done'[t] = done[t]]_modeVars

\* From its pause to its commit a transition that was never taken up again keeps the
\* project paused, whatever else happens and wherever the hub stops.
KeepsPaused ==
  \A t \in Running \ retried :
    "pause" \in done[t] /\ "commit-mode" \notin done[t] => project.status = "paused"

ModesAreSafe ==
  /\ [](Cardinality(Running) <= 1 /\ KeepsPaused)
  /\ EveryStepComesFirst /\ DrainedWhenReadOnly /\ ExpiredIsOver

\* Not so: no task is claimed while the project is paused (the comment of the pause step
\* says that it stops claims).
PausedIsNotClaimed ==
  [][\A w \in Works : Claim(w) => project.status # "paused"]_modeVars

\* Not so: a project stays shut to claims until it is full again (the comment of the
\* commit step); after a validation that failed the project is read-only and claimed from.
ReadOnlyIsNotClaimed ==
  [][\A w \in Works : Claim(w) => project.mode = "full"]_modeVars

\* Not so: a capability that was lost is ready again only after it was validated; the
\* commit to full writes it without a look.
LossIsValidated ==
  [][project.capability = "lost" /\ project'.capability = "ready" =>
       \E t \in Running : StepOf(t) = "validate-capability"]_modeVars

\* Not so: nothing is open when the project becomes read-only.
NothingIsOpen ==
  [][project'.mode = "read-only" /\ project.mode = "full" =>
       \A w \in Works : ~OnChecklist(w)]_modeVars

\* Not so: a transition taken up again keeps the project paused.
RetriedIsPaused ==
  \A t \in Running : "commit-mode" \notin done[t] /\ "pause" \in done[t] => project.status = "paused"
=============================================================================
