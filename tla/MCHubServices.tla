---------------------------- MODULE MCHubServices ----------------------------
(***************************************************************************)
(* Instances of four components of the distributed mode that share no      *)
(* state (the merge queue of a project, the workspace of an attempt, the   *)
(* attempts at a task and the daemon of a node), and of the planning       *)
(* commands.  The first state chooses the one that moves; a plan begins    *)
(* with one task.                                                          *)
(***************************************************************************)
EXTENDS DeliveryMerge, AttemptWorkspace, NodeAttempts, NodeDaemon, PlanFiles, TLC

CONSTANTS known, plain

VARIABLE part

allVars == <<part, mergeVars, wsVars, attemptVars, daemonVars, planFilesVars>>

\* The ones that do not move stay as they were when their own part began.
ServicesTypesOK ==
  CASE part = "merge" -> MergeTypeOK
    [] part = "workspace" -> WorkspaceTypeOK
    [] part = "attempts" -> AttemptsTypeOK
    [] part = "daemon" -> DaemonTypeOK
    [] part = "commands" -> PlanFilesTypeOK

Init ==
  /\ part \in {"merge", "workspace", "attempts", "daemon", "commands"}
  /\ MergeInit /\ WorkspaceInit /\ NodesInit /\ DaemonInit
  /\ file = [n \in TaskNames |-> IF n = known THEN plain ELSE NoText]
  /\ PlanFilesInit

Next ==
  \/ part = "merge"     /\ MergeNext     /\ UNCHANGED <<part, wsVars, attemptVars, daemonVars, planFilesVars>>
  \/ part = "workspace" /\ WorkspaceNext /\ UNCHANGED <<part, mergeVars, attemptVars, daemonVars, planFilesVars>>
  \/ part = "attempts"  /\ NodesNext     /\ UNCHANGED <<part, mergeVars, wsVars, daemonVars, planFilesVars>>
  \/ part = "daemon"    /\ DaemonNext    /\ UNCHANGED <<part, mergeVars, wsVars, attemptVars, planFilesVars>>
  \/ part = "commands"  /\ PlanFilesNext /\ UNCHANGED <<part, mergeVars, wsVars, attemptVars, daemonVars>>

Spec == Init /\ [][Next]_allVars

\* Attempts and daemons, each for itself.
NodesAreSafe ==
  /\ AttemptsAreSafe
  /\ DaemonIsSafe

\* Mergers and Callers are the same model values.
Symmetry == Permutations(Mergers) \cup Permutations(Works) \cup Permutations(Operators)
=============================================================================
