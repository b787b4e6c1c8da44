---------------------------- MODULE MCTaskWaiting ----------------------------
(***************************************************************************)
(* TaskWaiting with a chain of three tasks, the middle one an acceptance,  *)
(* and, as they share nothing with it, instances of what else is done for  *)
(* a project: its webhooks and the switch of its mode.  The first state    *)
(* chooses the one that moves.                                             *)
(***************************************************************************)
EXTENDS TaskWaiting, Webhooks, ModeTransitions, PmDoorbell

CONSTANTS base, check, tail

\* tail needs base accepted and check accepted; check, an acceptance task, needs
\* base reported.
MCDependsOn == [t \in {base, check, tail} |->
  IF t = base THEN {} ELSE IF t = check THEN {base} ELSE {base, check}]
MCAcceptance == {check}

\* One event of each source.
CONSTANTS e1, c1, i1
MCSource(e) == IF e = e1 THEN "stream" ELSE IF e = c1 THEN "conflict" ELSE "incident"

\* One consumer with an item of each of two plans; two supervisors, the second of which
\* makes a single round.
CONSTANTS d1, d2, pA, pB, k2, s1, s2
MCPlanOf == [i \in Items |-> IF i = d1 THEN pA ELSE pB]
MCSlotOf == [i \in Items |-> k2]

VARIABLE part

allVars == <<part, vars, webhookVars, modeVars, doorbellVars>>

AllInit ==
  /\ part \in {"waiting", "webhooks", "modes", "doorbell"}
  /\ open = {d1}
  /\ Init /\ WebhooksInit /\ ModesInit /\ DoorbellInit
  /\ \A s \in Supervisors : supervisor[s].once = (s = s2)
  \* One initial state is enough for a component that does not move.
  /\ part # "modes" => project.mode = "full"
  /\ part # "webhooks" => hook = [h \in Hooks |-> "none"]
  /\ lockFile # Nobody

AllNext ==
  \/ part = "waiting"  /\ Next         /\ UNCHANGED <<part, webhookVars, modeVars, doorbellVars>>
  \/ part = "webhooks" /\ WebhooksNext /\ UNCHANGED <<part, vars, modeVars, doorbellVars>>
  \/ part = "modes"    /\ ModesNext    /\ UNCHANGED <<part, vars, webhookVars, doorbellVars>>
  \/ part = "doorbell" /\ DoorbellNext /\ UNCHANGED <<part, vars, webhookVars, modeVars>>

AllSpec == AllInit /\ [][AllNext]_allVars

\* What a project is promised besides its tasks (webhook-service.ts, project-service.ts):
\* the deliveries of its webhooks and the steps of a change of mode.
ProjectIsServed ==
  /\ WebhooksAreSafe
  /\ ModesAreSafe
  /\ [](WebhooksTypeOK /\ ModesTypeOK /\ DoorbellTypeOK)
=============================================================================
