----------------------------- MODULE PlanStatus -----------------------------
(***************************************************************************)
(* What the status of a plan says of its tasks: derivePlanStatus and       *)
(* buildPlanStatusProjection, two computations over the same task hashes.  *)
(* Both take T, a function from the ids of the plan's tasks to their       *)
(* fields [status, review, fixFor, resolution, origin, pointer, lineage,   *)
(* resolvedBy, why, batch]; an unset field is "none", and an unset id is any    *)
(* value that is not an id.                                                *)
(***************************************************************************)
EXTENDS Naturals, FiniteSets

\* The task a resolution points at, while it is under way.
Underway(t) == t.status \in {"pending", "running", "blocked"} \/ (t.status = "done" /\ t.review = "none")
CurrentChild(T, i) == {c \in DOMAIN T : c = T[i].pointer /\ Underway(T[c])}

-----------------------------------------------------------------------------
(* derivePlanStatus.  A definition named X_What is a faulty variant of X.   *)

\* Repairs and reverifications are the history of their root.
ResolutionChild_Own(T, i) == FALSE
ResolutionChild(T, i) ==
  \/ \E r \in DOMAIN T : i \in T[r].lineage
  \/ T[i].origin \in DOMAIN T \ {i} /\ T[T[i].origin].resolution # "none"

Completed_Reviewed(t) == t.status = "done" /\ t.review = "accepted"
Completed(t) == \/ t.resolution = "resolved"
                \/ t.resolution = "none" /\ t.status = "done" /\ t.review = "accepted"

Stuck_Failed(T, i) ==
  /\ ~Completed(T[i]) /\ T[i].resolution # "cancelled"
  /\ T[i].status = "failed" \/ T[i].review = "rejected"
  /\ T[i].resolution \notin {"required", "repairing", "needs_pm_decision"}
Stuck_Child(T, i) ==
  /\ ~Completed(T[i]) /\ T[i].resolution # "cancelled" /\ CurrentChild(T, i) = {}
  /\ T[i].resolution # "none" \/ T[i].status = "failed" \/ T[i].review = "rejected"
Stuck(T, i) ==
  /\ ~Completed(T[i]) /\ T[i].resolution # "cancelled" /\ CurrentChild(T, i) = {}
  /\ \/ T[i].resolution = "needs_pm_decision"
     \/ /\ T[i].status = "failed" \/ T[i].review = "rejected"
        /\ T[i].resolution \notin {"required", "repairing"}

GivenUp(t) == \/ t.status = "cancelled" \/ t.resolution = "cancelled"
              \/ t.status = "superseded" /\ t.batch > 0

DerivePlanStatus(T) ==
  LET roots == {i \in DOMAIN T : ~ResolutionChild(T, i)}
      effective == {i \in roots : T[i].status \notin {"cancelled", "superseded"}}
  IN IF effective = {} THEN IF DOMAIN T = {} THEN "submitted" ELSE "cancelled"
     ELSE IF \E i \in effective : Stuck(T, i) THEN "failed"
     ELSE IF \A i \in effective : Completed(T[i]) \/ T[i].resolution = "cancelled"
          THEN IF \E i \in roots : GivenUp(T[i]) THEN "cancelled" ELSE "completed"
     ELSE "active"

-----------------------------------------------------------------------------
(* buildPlanStatusProjection.                                               *)

\* The counter of the root tasks that a declared root goes into.
AcceptedResolution(T, i) ==
  /\ T[i].resolution = "resolved" /\ T[i].resolvedBy \in DOMAIN T
  /\ LET c == T[T[i].resolvedBy] IN c.origin = i /\ c.status = "done" /\ c.review = "accepted"

DeclaredRoots(T) == {i \in DOMAIN T : T[i].fixFor \notin DOMAIN T /\ T[i].origin \notin DOMAIN T \ {i}}

InProgress(t) == IF t.status = "done" THEN "review_pending" ELSE t.status

RootCounter(T, i) ==
  LET t == T[i] IN
  IF t.status \in {"cancelled", "superseded"} \/ t.resolution = "cancelled" THEN "cancelled"
  ELSE IF AcceptedResolution(T, i) \/ (t.resolution = "none" /\ t.status = "done" /\ t.review = "accepted")
       THEN "accepted"
  ELSE IF CurrentChild(T, i) # {} THEN InProgress(T[t.pointer])
  ELSE IF t.resolution = "needs_pm_decision" THEN "needs_pm_decision"
  ELSE IF t.resolution \in {"required", "repairing"} THEN "failed"
  ELSE IF Underway(t) THEN InProgress(t) ELSE "failed"

\* What asks for the PM's attention, counted by root.
EffectiveRoot(T, i) == IF T[i].origin \in DOMAIN T THEN T[i].origin ELSE i
EffectiveResolution(T, i) ==
  LET r == T[EffectiveRoot(T, i)].resolution IN IF r = "none" THEN T[i].resolution ELSE r
Adverse(t) == t.status = "failed" \/ (t.status = "done" /\ t.review = "rejected")

OpenFailures(T) ==
  {EffectiveRoot(T, i) : i \in {j \in DOMAIN T : /\ Adverse(T[j])
                                  /\ EffectiveResolution(T, j) \in {"none", "needs_pm_decision"}}}
Decisions(T) ==
  {EffectiveRoot(T, i) : i \in {j \in DOMAIN T : /\ Adverse(T[j])
                                  /\ EffectiveResolution(T, j) = "needs_pm_decision"
                                  /\ CurrentChild(T, EffectiveRoot(T, j)) = {}}}

-----------------------------------------------------------------------------
(* What the PM and the workers are told: pmIntake, the watchdog, the        *)
(* decision on offer and the hint of getStatus.                             *)

\* hasActiveResolutionChild.
Pursued(T, i) == \E c \in DOMAIN T : c \in T[i].lineage \cup {T[i].pointer} /\ Underway(T[c])

\* The index of the failures that can be acted on: a root speaks for its repairs.
ActionableFailure(T, i) ==
  /\ T[i].origin \in DOMAIN T \ {i} => T[T[i].origin].resolution = "none"
  /\ T[i].resolution = "needs_pm_decision" \/ (T[i].status = "failed" /\ T[i].resolution = "none")

IntakeDecisions_Loud(T) == {i \in DOMAIN T : ActionableFailure(T, i) /\ T[i].resolution = "needs_pm_decision"}
IntakeDecisions(T) ==
  {i \in DOMAIN T : ActionableFailure(T, i) /\ T[i].resolution = "needs_pm_decision" /\ ~Pursued(T, i)}
IntakeFailures(T) == {i \in DOMAIN T : ActionableFailure(T, i) /\ T[i].resolution = "none"}

\* The watchdog names the root when the root waits for a decision.
WatchdogFailures(T) ==
  {IF T[EffectiveRoot(T, i)].resolution = "needs_pm_decision" THEN EffectiveRoot(T, i) ELSE i :
     i \in {j \in DOMAIN T : /\ T[j].status = "failed"
                             /\ EffectiveResolution(T, j) \in {"none", "needs_pm_decision"}}}

\* availableResolutionDecisionActions.
Offered(t) ==
  {"inspect"}
    \cup (IF t.resolution = "needs_pm_decision" THEN {"cancel"} ELSE {})
    \cup (IF t.resolution \in {"needs_pm_decision", "cancelled"} /\ t.why = "retry_limit"
          THEN {"continue"} ELSE {})

\* Workers are called for, when none is online, for what of an open plan is on offer.
Hinted(T, offered) ==
  DerivePlanStatus(T) \in {"submitted", "active"} /\ \E i \in offered \cap DOMAIN T : T[i].status = "pending"
=============================================================================
