---------------------------- MODULE MCHubIndexes ----------------------------
(***************************************************************************)
(* Instances of five components that share no state: the registrations of  *)
(* an agent, the inbox of the PM, the counters of a plan, the gate of a    *)
(* restore, and the scheduler of a supervisor with its workers.  The first *)
(* state chooses the one that moves.                                       *)
(***************************************************************************)
EXTENDS AgentEpoch, PmIntake, PlanProjection, RestoreGate, SupervisorWorkers, TLC

VARIABLE part

allVars == <<part, epochVars, intakeVars, projectionVars, restoreVars, supervisorVars>>

\* The ones that do not move stay as they were when their own part began.
HubTypesOK ==
  CASE part = "epoch" -> EpochTypeOK
    [] part = "intake" -> IntakeTypeOK
    [] part = "projection" -> ProjectionTypeOK
    [] part = "restore" -> RestoreTypeOK
    [] part = "supervisor" -> SupervisorTypeOK

Init ==
  /\ part \in {"epoch", "intake", "projection", "restore", "supervisor"}
  /\ EpochInit /\ IntakeInit /\ ProjectionInit /\ RestoreInit /\ SupervisorInit
  \* One initial state is enough for a component that does not move.
  /\ part # "epoch" => durable /\ known = {}
  /\ part # "intake" => stream = <<>> /\ \A i \in Items : want[i] = "busy"
  /\ part # "projection" => \A t \in PlanTasks : content[t] = 0
  /\ part # "restore" => live = {}

Next ==
  \/ /\ part = "epoch" /\ EpochNext
     /\ UNCHANGED <<part, intakeVars, projectionVars, restoreVars, supervisorVars>>
  \/ /\ part = "intake" /\ IntakeNext
     /\ UNCHANGED <<part, epochVars, projectionVars, restoreVars, supervisorVars>>
  \/ /\ part = "projection" /\ ProjectionNext
     /\ UNCHANGED <<part, epochVars, intakeVars, restoreVars, supervisorVars>>
  \/ /\ part = "restore" /\ RestoreNext
     /\ UNCHANGED <<part, epochVars, intakeVars, projectionVars, supervisorVars>>
  \/ /\ part = "supervisor" /\ SupervisorNext
     /\ UNCHANGED <<part, epochVars, intakeVars, projectionVars, restoreVars>>

Spec == Init /\ [][Next]_allVars

\* The slots of the components are the same model values: one permutation of them
\* serves whichever component moves.  The sessions are few enough without one.
Symmetry == Permutations(Handlers) \cup Permutations(PlanTasks)
=============================================================================
