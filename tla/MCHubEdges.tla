----------------------------- MODULE MCHubEdges -----------------------------
(***************************************************************************)
(* Instances of three components that share no state here: the acceptances *)
(* that are verified again, the slots of a worker process, and the         *)
(* credentials of people and machines.  The first state chooses the one    *)
(* that moves.                                                             *)
(***************************************************************************)
EXTENDS AcceptanceReverify, WorkerExecution, Credentials, TLC

\* Two tasks that want one file, the second more urgent, and one that wants none.
CONSTANTS t1, t2, t3, f1
MCOwns(j) == IF j = t3 THEN {} ELSE {f1}
MCRank(j) == IF j = t2 THEN 1 ELSE 0

VARIABLE part

allVars == <<part, reverifyVars, executionVars, credentialVars>>

\* The ones that do not move stay as they were when the part began.
EdgesTypesOK ==
  CASE part = "reverify" -> ReverifyTypeOK
    [] part = "execution" -> ExecutionTypeOK
    [] part \in {"people", "machines"} -> CredentialsTypeOK

Init ==
  /\ part \in {"reverify", "execution", "people", "machines"}
  /\ ReverifyInit /\ ExecutionInit /\ CredentialsInit

\* The keyring serves people and machines; the two share nothing else.
Next ==
  \/ part = "reverify" /\ ReverifyNext /\ UNCHANGED <<part, executionVars, credentialVars>>
  \/ part = "execution" /\ ExecutionNext /\ UNCHANGED <<part, reverifyVars, credentialVars>>
  \/ part = "people" /\ (PeopleNext \/ RingNext) /\ UNCHANGED <<part, reverifyVars, executionVars>>
  \/ part = "machines" /\ (MachinesNext \/ RingNext) /\ UNCHANGED <<part, reverifyVars, executionVars>>

Spec == Init /\ [][Next]_allVars

\* A root that was pointed away from a standing attempt is not followed any further.
OnCourse == ~Diverted

\* Slots and Sessions are the same model values, and so are Requests and Callers.
Symmetry == Permutations(Slots) \cup Permutations(Requests) \cup Permutations(Reverifiers)
=============================================================================
