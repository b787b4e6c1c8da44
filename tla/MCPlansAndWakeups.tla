------------------------- MODULE MCPlansAndWakeups --------------------------
(***************************************************************************)
(* Instances of three components that share no state here: the submission  *)
(* of plans, the supersede of delivered work, and the reservations a       *)
(* wake-up makes.  The first state chooses the one that moves.             *)
(***************************************************************************)
EXTENDS PlanSubmission, Supersede, WakeReservation, TLC

\* The task `old' of plan p1 was delivered; the task `late' of p2 will depend on it.
CONSTANTS old, late, p1, p2
MCPlanOf(t) == IF t = late THEN p2 ELSE p1
MCDependsOn(t) == IF t = late THEN {old} ELSE {}

VARIABLE part

allVars == <<part, submissionVars, supersedeVars, wakeVars>>

\* The ones that do not move stay as they were when the part began.
PlansTypesOK ==
  CASE part = "submission" -> SubmissionTypeOK
    [] part = "supersede" -> SupersedeTypeOK
    [] part = "wake" -> WakeTypeOK

Init ==
  /\ part \in {"submission", "supersede", "wake"}
  /\ SubmissionInit /\ SupersedeInit /\ WakeInit

Next ==
  \/ part = "submission" /\ SubmissionNext /\ UNCHANGED <<part, supersedeVars, wakeVars>>
  \/ part = "supersede"  /\ SupersedeNext  /\ UNCHANGED <<part, submissionVars, wakeVars>>
  \/ part = "wake"       /\ WakeNext       /\ UNCHANGED <<part, submissionVars, supersedeVars>>

Spec == Init /\ [][Next]_allVars

\* Whatever is done to plans that are under way (submitPlan, supersedeTask and its
\* batches): what runs keeps its text, and what was delivered is decided once.
PlansAreSafe ==
  /\ SubmissionIsSafe
  /\ SupersedeIsSafe

\* Only claims ask what claim requests have read, and nothing what a worker was given: a run
\* that was claimed with an overwritten text is checked, and not followed further.
InTime == overtaken = {} /\ \A n \in Names : Cardinality(outdated[n]) + entry[n].runs <= 1

\* Submits and WakeTasks are the same model values.
Symmetry == Permutations(Submits) \cup Permutations(Plans)
=============================================================================
