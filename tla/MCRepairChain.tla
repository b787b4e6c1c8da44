---------------------------- MODULE MCRepairChain ----------------------------
(***************************************************************************)
(* RepairChain with at most two repairs, and what the hub says of a plan   *)
(* whose one declared task is repaired that way: its status, what the PM   *)
(* is asked, and what workers are told.                                    *)
(***************************************************************************)
EXTENDS RepairChain, PlanStatus, TLC

RepairSymmetry == Permutations(Requests)

Limit(m, c, r, d) == [retries |-> m, continues |-> c, resets |-> r, crashes |-> d]
\* One automatic repair, and a continue, a reset, or a lost lock; or two repairs.
Races == {Limit(1, 1, 0, 0), Limit(1, 0, 1, 0), Limit(1, 0, 0, 1), Limit(2, 0, 0, 0)}
\* One or two automatic repairs, with a crash or a reset.
Interrupted == {Limit(1, 1, 0, 1), Limit(1, 0, 1, 0), Limit(2, 0, 0, 1)}

\* Bounds on the requests: where the hub makes a second repair by itself, a reconciliation
\* runs beside nothing but a call of ensureRepairTask that has not read the root yet; where
\* a continue makes it, not both are reconciliations.  With a reset or a lost lock there is
\* one repair, and no such bound.
Reconciling(p) == "clean" \in {req[p].todo[i] : i \in DOMAIN req[p].todo}
FewReconcile ==
  /\ limit.continues > 0 => \E p \in Requests : ~Reconciling(p)
  /\ limit.retries > 1 => \A p, q \in Requests : Reconciling(p) => q = p \/ req[q].todo \in {<<>>, <<"ensure">>}

-----------------------------------------------------------------------------
\* The task hashes of the plan, as getPlan reads them.
Plan ==
  [t \in {s \in Task : status[s] # "absent"} |->
    [status |-> status[t], review |-> review[t], fixFor |-> fixFor[t], resolution |-> resolution[t],
     origin |-> IF t = 0 THEN NoTask ELSE 0, pointer |-> pointer[t],
     lineage |-> IF t = 0 THEN root.history ELSE {}, resolvedBy |-> resolvedBy[t],
     why |-> IF t = 0 THEN root.why ELSE "none", batch |-> 0]]

\* A plan is completed exactly when every declared root has a result that was
\* accepted: no bare marker of a resolution completes it, and no failed attempt of
\* a root that was repaired in the end keeps it open (comments in both), at
\* whatever point the requests on the chain are.
CompletedIsAccepted ==
  DerivePlanStatus(Plan) = "completed" <=> \A i \in DeclaredRoots(Plan) : RootCounter(Plan, i) = "accepted"

\* A failed plan tells the PM what failed, unless its root was reset while the
\* report of its failure was still on its way.
FailedHasAttention ==
  resets = 0 /\ DerivePlanStatus(Plan) = "failed" => OpenFailures(Plan) \cup Decisions(Plan) # {}

\* An open decision shows in the status of the plan and in the root's own counter.
DecisionIsShown ==
  Decisions(Plan) # {} =>
    DerivePlanStatus(Plan) = "failed" /\ \A i \in Decisions(Plan) : RootCounter(Plan, i) = "needs_pm_decision"

\* An active plan has a task that somebody can work on or review, or the hub
\* has something left to do for it.
ActiveHasWork ==
  DerivePlanStatus(Plan) = "active" =>
    \/ \E i \in DOMAIN Plan : Underway(Plan[i])
    \/ candidates # {} \/ \E p \in Requests : req[p] # Idle

\* Nobody works on the chain, and the hub has nothing left to do for it.
Quiet == candidates = {} /\ \A p \in Requests : req[p] = Idle

\* The intake, the status and the watchdog, computed by three functions from the same
\* hashes, agree on what waits for the PM, unless a root was reset while its failure
\* was still being dealt with; and no plan has failed for good without the PM being asked.
AttentionAgrees ==
  /\ resets = 0 => IntakeDecisions(Plan) = Decisions(Plan)
  /\ WatchdogFailures(Plan)
       \subseteq IntakeDecisions(Plan) \cup IntakeFailures(Plan) \cup {i \in DOMAIN Plan : Pursued(Plan, i)}
  /\ Quiet /\ DerivePlanStatus(Plan) = "failed" => IntakeDecisions(Plan) # {}

\* Once nothing is under way, workers are called for whatever they could do.
OpenWorkIsHinted ==
  Quiet /\ resets = 0 => \A t \in queued : Superseded(t) \/ Hinted(Plan, queued)

\* The status tells the truth about every root, and whoever must act finds out.
StatusIsHonest ==
  /\ CompletedIsAccepted /\ FailedHasAttention /\ DecisionIsShown /\ ActiveHasWork
  /\ AttentionAgrees /\ OpenWorkIsHinted

\* A decision the PM is asked for can be taken, each action on offer, at whatever point
\* other requests are; a failure that is shown without one is still being dealt with,
\* unless the root was reset twice.
AskedIsOpen ==
  /\ 0 \in IntakeDecisions(Plan) =>
       /\ "cancel" \in Offered(Plan[0]) => MayCancel
       /\ "continue" \in Offered(Plan[0]) /\ continues < limit.continues => MayContinue
  /\ Quiet /\ resets <= 1 => IntakeFailures(Plan) = {}

\* Repairs go on one after the other, the automatic ones come to an end, what the PM is
\* asked the PM can answer, and an answer is recorded once and stands.
RepairsAreSafe == [](RepairsStayInLine /\ AskedIsOpen) /\ DecisionsAreFinal
=============================================================================
