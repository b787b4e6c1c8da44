------------------------ MODULE TaskLifecycle_proofs ------------------------
(***************************************************************************)
(* Proofs about TaskLifecycle for any set of tasks and agents and any      *)
(* bounds.  The inductive invariant is Inv: the type invariant, the index  *)
(* that follows the status, the token order of the grants, and the single  *)
(* running task of an agent.                                               *)
(***************************************************************************)
EXTENDS TaskLifecycle, TLAPS

LEMMA InitTypeOK == Init => TypeOK
BY BoundAssumption DEF Init, TypeOK, Status, Presence, Deadline

LEMMA StepTypeOK == TypeOK /\ [Next]_vars => TypeOK'
<1> SUFFICES ASSUME TypeOK, [Next]_vars PROVE TypeOK'
  OBVIOUS
<1> USE DEF TypeOK, Status, Presence, Deadline, Moved
<1>1. ASSUME NEW a \in Agents, Register(a) PROVE TypeOK'
  BY <1>1 DEF Register, taskVars, handlers
<1>2. ASSUME NEW a \in Agents, Offline(a) PROVE TypeOK'
  BY <1>2 DEF Offline, taskVars, handlers
<1>3. ASSUME NEW a \in Agents, SendBeat(a) PROVE TypeOK'
  BY <1>3 DEF SendBeat, Sent, Beat, Grant, taskVars, agentVars, handlers
<1>4. ASSUME NEW a \in Agents, ReceiveBeat(a) PROVE TypeOK'
  BY <1>4 DEF ReceiveBeat, Beat, taskVars, handlers
<1>5. ASSUME NEW a \in Agents, StartWork(a) PROVE TypeOK'
  BY <1>5 DEF StartWork, Sent, Beat, Grant, taskVars, agentVars, handlers
<1>6. ASSUME NEW a \in Agents, EndWork(a) PROVE TypeOK'
  BY <1>6 DEF EndWork, Sent, Beat, taskVars, agentVars, handlers
<1>7. ASSUME NEW a \in Agents, NEW t \in Tasks, Claim(a, t) PROVE TypeOK'
  BY <1>7 DEF Claim, Grant, handlers
<1>8. ASSUME NEW g \in delivered, Renew(g) PROVE TypeOK'
  BY <1>8 DEF Renew, Grant, agentVars, handlers, workerVars
<1>9. ASSUME NEW g \in delivered, NEW o \in {"done", "failed"}, Report(g, o) PROVE TypeOK'
  BY <1>9 DEF Report, ClearCurrent, Grant, handlers, workerVars
<1>10. ASSUME NEW t \in Tasks, TimeUp(t) PROVE TypeOK'
  BY <1>10 DEF TimeUp, agentVars, handlers, workerVars
<1>11. ASSUME NEW t \in Tasks, LeaseExpires(t) PROVE TypeOK'
  BY <1>11 DEF LeaseExpires, agentVars, handlers, workerVars
<1>12. ASSUME NEW t \in Tasks, ExposeRead(t) PROVE TypeOK'
  BY <1>12 DEF ExposeRead, taskVars, agentVars, workerVars
<1>13. ASSUME NEW t \in Tasks, ExposeCommit(t) PROVE TypeOK'
  BY <1>13 DEF ExposeCommit, agentVars, workerVars
<1>14. ASSUME NEW t \in Tasks, Reclaim(t) PROVE TypeOK'
  BY <1>14 DEF Reclaimable, Reclaim, ClearCurrent, handlers, workerVars
<1>15. ASSUME NEW t \in Tasks, CancelRead(t) PROVE TypeOK'
  BY <1>15 DEF CancelRead, taskVars, agentVars, workerVars
<1>16. ASSUME NEW t \in Tasks, CancelCommit(t) PROVE TypeOK'
  BY <1>16 DEF CancelCommit, agentVars, workerVars
<1>17. ASSUME NEW t \in Tasks, ResetRead(t) PROVE TypeOK'
  BY <1>17 DEF ResetRead, ResetRound, taskVars, agentVars, workerVars
<1>18. ASSUME NEW t \in Tasks, ResetCommit(t) PROVE TypeOK'
  <2>1. resetting[t] \in ResetRound
    BY <1>18 DEF ResetCommit
  <2>2. CASE SameRound(t)
    <3>1. retries' \in [Tasks -> Nat]
      BY <1>18, <2>1, <2>2 DEF ResetCommit, ResetRound
    <3>2. indexed' \in [Tasks -> SUBSET Status]
      BY <1>18, <2>1, <2>2 DEF ResetCommit, ResetRound
    <3> QED
      BY <1>18, <2>2, <3>1, <3>2 DEF ResetCommit, agentVars, workerVars
  <2>3. CASE ~SameRound(t)
    BY <1>18, <2>3 DEF ResetCommit, taskVars, agentVars, workerVars
  <2> QED
    BY <2>2, <2>3
<1>19. CASE UNCHANGED vars
  BY <1>19 DEF vars, taskVars, agentVars, handlers, workerVars
<1> QED
  BY <1>1, <1>2, <1>3, <1>4, <1>5, <1>6, <1>7, <1>8, <1>9, <1>10, <1>11, <1>12, <1>13,
     <1>14, <1>15, <1>16, <1>17, <1>18, <1>19
     DEF Next, WorkerNext, HubNext, OperatorNext

\* Every variable keeps its type in every reachable state.
THEOREM TypeCorrect == Spec => []TypeOK
BY InitTypeOK, StepTypeOK, PTL DEF Spec

-----------------------------------------------------------------------------
(* The inductive invariant *)

\* Leases only ever vanish, or keep their token and their claimant: then the
\* order of the tokens and the names behind the leases are kept.
LEMMA LeasesOnlyVanish ==
  ASSUME Inv, TypeOK', Known' \subseteq Known, issued' = issued,
         \A t \in Tasks : \/ lease'[t] = 0
                          \/ lease'[t] = lease[t] /\ claimedBy'[t] = claimedBy[t]
  PROVE  TokensAreIssued' /\ OldClaimsAreFenced' /\ LeaseNamesClaimant'
<1>1. \A g \in Known : g \in Grant
  BY DEF Inv, TypeOK, Known
<1>2. TokensAreIssued'
  BY <1>1 DEF Inv, TypeOK, TokensAreIssued
<1>3. OldClaimsAreFenced'
  BY <1>1 DEF Inv, OldClaimsAreFenced, Grant
<1>4. LeaseNamesClaimant'
  BY <1>1 DEF Inv, TypeOK, TokensAreIssued, LeaseNamesClaimant, Grant
<1> QED
  BY <1>2, <1>3, <1>4

\* A step that touches neither the tasks nor the set of grants.
LEMMA Frame ==
  ASSUME Inv, TypeOK', Known' \subseteq Known, issued' = issued,
         UNCHANGED <<status, indexed, claimedBy, lease>>
  PROVE  Inv'
<1>1. TokensAreIssued' /\ OldClaimsAreFenced' /\ LeaseNamesClaimant'
  BY LeasesOnlyVanish
<1> QED
  BY <1>1 DEF Inv, IndexFollowsStatus, UnclaimedHasNoLease, OneTaskPerAgent

LEMMA InitInv == Init => Inv
<1> SUFFICES ASSUME Init PROVE Inv
  OBVIOUS
<1>1. TypeOK
  BY InitTypeOK
<1>2. Known = {}
  BY DEF Init, Known
<1> QED
  BY <1>1, <1>2, SentinelAssumption
     DEF Init, Inv, TokensAreIssued, OldClaimsAreFenced, LeaseNamesClaimant,
         IndexFollowsStatus, UnclaimedHasNoLease, OneTaskPerAgent

\* The token of a new claim is larger than every token known before it.
LEMMA ClaimInv ==
  ASSUME Inv, TypeOK', NEW a \in Agents, NEW t \in Tasks, Claim(a, t)
  PROVE  Inv'
<1> DEFINE g == [token |-> issued + 1, task |-> t, agent |-> a]
<1>1. Known' \subseteq Known \cup {g}
  BY DEF Moved, Claim, Known, Inv, TypeOK
<1>2. \A k \in Known : k \in Grant /\ k.token \in 1 .. issued
  BY DEF Inv, TypeOK, Known, TokensAreIssued
<1>3. lease' = [lease EXCEPT ![t] = issued + 1] /\ issued' = issued + 1 /\ issued \in Nat
      /\ claimedBy' = [claimedBy EXCEPT ![t] = a]
  BY DEF Moved, Claim, Inv, TypeOK
<1>4. TokensAreIssued'
  <2>1. \A k \in Known' : k.token \in 1 .. issued'
    BY <1>1, <1>2, <1>3
  <2>2. \A s \in Tasks : lease'[s] <= issued'
    BY <1>3 DEF Inv, TypeOK, TokensAreIssued
  <2> QED
    BY <2>1, <2>2 DEF TokensAreIssued
<1>5. OldClaimsAreFenced'
  <2> SUFFICES ASSUME NEW k \in Known', lease'[k.task] # 0 PROVE k.token <= lease'[k.task]
    BY DEF OldClaimsAreFenced
  <2>1. CASE k = g
    BY <2>1, <1>3 DEF Inv, TypeOK
  <2>2. CASE k \in Known /\ k.task = t
    BY <2>2, <1>2, <1>3 DEF Inv, TypeOK
  <2>3. CASE k \in Known /\ k.task # t
    BY <2>3, <1>2, <1>3 DEF Inv, TypeOK, OldClaimsAreFenced, Grant
  <2> QED
    BY <1>1, <2>1, <2>2, <2>3
<1>6. LeaseNamesClaimant'
  <2> SUFFICES ASSUME NEW k \in Known', lease'[k.task] = k.token
               PROVE claimedBy'[k.task] = k.agent
    BY DEF LeaseNamesClaimant
  <2>1. CASE k = g
    BY <2>1, <1>3 DEF Inv, TypeOK
  <2>2. CASE k \in Known /\ k.task = t
    BY <2>2, <1>2, <1>3 DEF Inv, TypeOK
  <2>3. CASE k \in Known /\ k.task # t
    BY <2>3, <1>2, <1>3 DEF Inv, TypeOK, LeaseNamesClaimant, Grant
  <2> QED
    BY <1>1, <2>1, <2>2, <2>3
<1>7. IndexFollowsStatus'
  BY DEF Moved, Claim, Claimable, Inv, TypeOK, IndexFollowsStatus
<1>8. UnclaimedHasNoLease'
  BY SentinelAssumption DEF Moved, Claim, Inv, TypeOK, UnclaimedHasNoLease
<1>9. OneTaskPerAgent'
  <2>1. \A s \in Tasks : ~(status[s] = "running" /\ claimedBy[s] = a)
    BY DEF Moved, Claim, OwnsIndexedRunning, Inv, IndexFollowsStatus
  <2> QED
    BY <2>1 DEF Moved, Claim, Inv, TypeOK, OneTaskPerAgent
<1> QED
  BY <1>4, <1>5, <1>6, <1>7, <1>8, <1>9 DEF Inv

LEMMA StepInv == Inv /\ [Next]_vars => Inv'
<1> SUFFICES ASSUME Inv, [Next]_vars PROVE Inv'
  OBVIOUS
<1>t. TypeOK /\ TypeOK'
  BY StepTypeOK DEF Inv
<1>1. ASSUME NEW a \in Agents, Register(a) PROVE Inv'
  <2>1. Known' \subseteq Known
    BY <1>1, <1>t DEF Register, Known, TypeOK
  <2> QED
    BY <1>1, <1>t, <2>1, Frame DEF Register, taskVars
<1>2. ASSUME NEW a \in Agents, Offline(a) PROVE Inv'
  <2>1. Known' \subseteq Known
    BY <1>2, <1>t DEF Offline, Known, TypeOK
  <2> QED
    BY <1>2, <1>t, <2>1, Frame DEF Offline, taskVars
<1>3. ASSUME NEW a \in Agents, SendBeat(a) \/ ReceiveBeat(a) PROVE Inv'
  <2>1. Known' \subseteq Known
    BY <1>3 DEF SendBeat, ReceiveBeat, Known
  <2> QED
    BY <1>3, <1>t, <2>1, Frame DEF SendBeat, ReceiveBeat, taskVars
<1>4. ASSUME NEW a \in Agents, StartWork(a) PROVE Inv'
  <2>1. Known' \subseteq Known
    BY <1>4, <1>t DEF StartWork, Known, TypeOK
  <2> QED
    BY <1>4, <1>t, <2>1, Frame DEF StartWork, taskVars
<1>5. ASSUME NEW a \in Agents, EndWork(a) PROVE Inv'
  <2>1. Known' \subseteq Known
    BY <1>5 DEF EndWork, Known
  <2> QED
    BY <1>5, <1>t, <2>1, Frame DEF EndWork, taskVars
<1>6. ASSUME NEW a \in Agents, NEW t \in Tasks, Claim(a, t) PROVE Inv'
  BY <1>6, <1>t, ClaimInv
<1>7. ASSUME NEW t \in Tasks,
             TimeUp(t) \/ ExposeRead(t) \/ CancelRead(t) \/ ResetRead(t)
      PROVE Inv'
  <2>1. Known' \subseteq Known
    BY <1>7 DEF TimeUp, ExposeRead, CancelRead, ResetRead, Known, workerVars
  <2> QED
    BY <1>7, <1>t, <2>1, Frame DEF TimeUp, ExposeRead, CancelRead, ResetRead, taskVars
<1>8. CASE UNCHANGED vars
  <2>1. Known' \subseteq Known
    BY <1>8 DEF vars, Known, workerVars
  <2> QED
    BY <1>8, <1>t, <2>1, Frame DEF vars, taskVars
<1>9. ASSUME NEW g \in delivered,
             Renew(g) \/ \E o \in {"done", "failed"} : Report(g, o)
      PROVE Inv'
  <2>1. g \in Grant
    BY <1>t DEF TypeOK
  <2>2. Known' \subseteq Known
    BY <1>9 DEF Renew, Report, Known, workerVars
  <2>3. TokensAreIssued' /\ OldClaimsAreFenced' /\ LeaseNamesClaimant'
    BY <1>9, <1>t, <2>1, <2>2, LeasesOnlyVanish DEF Moved, Renew, Report, TypeOK, Grant
  <2>4. IndexFollowsStatus'
    <3>1. g.task \in Tasks /\ status[g.task] = "running" /\ indexed[g.task] = {"running"}
      BY <1>9, <2>1 DEF Moved, Renew, Report, Authorised, Grant, Inv, IndexFollowsStatus
    <3>2. CASE Renew(g)
      BY <3>1, <3>2, <1>t DEF Renew, Inv, TypeOK, IndexFollowsStatus
    <3>3. ASSUME NEW o \in {"done", "failed"}, Report(g, o) PROVE IndexFollowsStatus'
      BY <3>1, <3>3, <1>t DEF Moved, Report, Inv, TypeOK, IndexFollowsStatus
    <3> QED
      BY <1>9, <3>2, <3>3
  <2>5. UnclaimedHasNoLease'
    BY <1>9, <1>t, <2>1 DEF Moved, Renew, Report, Inv, TypeOK, UnclaimedHasNoLease, Grant
  <2>6. OneTaskPerAgent'
    BY <1>9, <1>t, <2>1 DEF Moved, Renew, Report, Inv, TypeOK, OneTaskPerAgent, Grant
  <2> QED
    BY <1>t, <2>3, <2>4, <2>5, <2>6 DEF Inv
<1>10. ASSUME NEW t \in Tasks, LeaseExpires(t) \/ ExposeCommit(t) PROVE Inv'
  <2>1. Known' \subseteq Known
    BY <1>10 DEF LeaseExpires, ExposeCommit, Known, workerVars
  <2>2. \A s \in Tasks : lease'[s] = 0 \/ lease'[s] = lease[s]
    BY <1>10, <1>t DEF LeaseExpires, ExposeCommit, TypeOK
  <2>3. issued' = issued /\ UNCHANGED <<status, claimedBy>>
    BY <1>10 DEF LeaseExpires, ExposeCommit
  <2>4. TokensAreIssued' /\ OldClaimsAreFenced' /\ LeaseNamesClaimant'
    BY <1>t, <2>1, <2>2, <2>3, LeasesOnlyVanish
  <2>5. IndexFollowsStatus'
    BY <1>10, <1>t DEF LeaseExpires, ExposeCommit, Inv, TypeOK, IndexFollowsStatus
  <2>6. UnclaimedHasNoLease' /\ OneTaskPerAgent'
    BY <2>2, <2>3 DEF Inv, UnclaimedHasNoLease, OneTaskPerAgent
  <2> QED
    BY <1>t, <2>4, <2>5, <2>6 DEF Inv
<1>11. ASSUME NEW t \in Tasks, Reclaim(t) PROVE Inv'
  <2>1. Known' \subseteq Known
    BY <1>11 DEF Reclaimable, Reclaim, Known, workerVars
  <2>2. TokensAreIssued' /\ OldClaimsAreFenced' /\ LeaseNamesClaimant'
    BY <1>11, <1>t, <2>1, LeasesOnlyVanish DEF Moved, Reclaimable, Reclaim, TypeOK
  <2>3. IndexFollowsStatus'
    BY <1>11, <1>t DEF Moved, Reclaimable, Reclaim, Inv, TypeOK, IndexFollowsStatus
  <2>4. UnclaimedHasNoLease' /\ OneTaskPerAgent'
    BY <1>11, <1>t DEF Reclaimable, Reclaim, Inv, TypeOK, UnclaimedHasNoLease,
                       OneTaskPerAgent
  <2> QED
    BY <1>t, <2>2, <2>3, <2>4 DEF Inv
<1>12. ASSUME NEW t \in Tasks, CancelCommit(t) PROVE Inv'
  <2>1. Known' \subseteq Known
    BY <1>12 DEF CancelCommit, Known, workerVars
  <2>2. TokensAreIssued' /\ OldClaimsAreFenced' /\ LeaseNamesClaimant'
    BY <1>12, <1>t, <2>1, LeasesOnlyVanish DEF CancelCommit
  <2>3. IndexFollowsStatus' /\ UnclaimedHasNoLease' /\ OneTaskPerAgent'
    BY <1>12, <1>t DEF Moved, CancelCommit, Inv, TypeOK, IndexFollowsStatus,
                       UnclaimedHasNoLease, OneTaskPerAgent
  <2> QED
    BY <1>t, <2>2, <2>3 DEF Inv
<1>13. ASSUME NEW t \in Tasks, ResetCommit(t) PROVE Inv'
  <2>1. Known' \subseteq Known
    BY <1>13 DEF ResetCommit, Known, workerVars
  <2>2. resetting[t] \in ResetRound
    BY <1>13, <1>t DEF Moved, ResetCommit, TypeOK
  <2>3. TokensAreIssued' /\ OldClaimsAreFenced' /\ LeaseNamesClaimant'
    BY <1>13, <1>t, <2>1, LeasesOnlyVanish DEF Moved, ResetCommit, TypeOK, taskVars
  <2>4. IndexFollowsStatus'
    BY <1>13, <1>t, <2>2 DEF Moved, ResetCommit, ResetRound, SameRound, Inv, TypeOK,
                             IndexFollowsStatus, taskVars
  <2>5. UnclaimedHasNoLease' /\ OneTaskPerAgent'
    <3>1. CASE SameRound(t)
      <4>1. /\ status' = [status EXCEPT ![t] = "pending"]
            /\ claimedBy' = [claimedBy EXCEPT ![t] = NoAgent]
            /\ lease' = [lease EXCEPT ![t] = 0]
        BY <1>13, <3>1 DEF ResetCommit
      <4> QED
        BY <4>1, <1>t DEF Inv, TypeOK, UnclaimedHasNoLease, OneTaskPerAgent
    <3>2. CASE ~SameRound(t)
      BY <1>13, <3>2 DEF ResetCommit, Inv, UnclaimedHasNoLease, OneTaskPerAgent, taskVars
    <3> QED
      BY <3>1, <3>2
  <2> QED
    BY <1>t, <2>3, <2>4, <2>5 DEF Inv
<1> QED
  BY <1>1, <1>2, <1>3, <1>4, <1>5, <1>6, <1>7, <1>8, <1>9, <1>10, <1>11, <1>12, <1>13
     DEF Next, WorkerNext, HubNext, OperatorNext

LEMMA Invariance == Spec => []Inv
BY InitInv, StepInv, PTL DEF Spec

\* No agent holds two running tasks, although heartbeats overwrite the
\* current_task pointer the claim script looks at.
THEOREM OneTask == Spec => []OneTaskPerAgent
<1>1. Inv => OneTaskPerAgent
  BY DEF Inv
<1> QED
  BY Invariance, <1>1, PTL

\* Renew and report never accept the token of a claim that was superseded.
THEOREM Fenced == Spec => []OldClaimsAreFenced
<1>1. Inv => OldClaimsAreFenced
  BY DEF Inv
<1> QED
  BY Invariance, <1>1, PTL

\* Lease, hash and zsets of a task tell the same, for all claims, resets and reclaims.
THEOREM ViewsStayTogether == Spec => []ViewsAgree
<1>1. Inv => ViewsAgree
  BY DEF Inv, ViewsAgree
<1> QED
  BY Invariance, <1>1, PTL

-----------------------------------------------------------------------------
(* Action properties *)

\* The actions that change the status of a task at all.
LEMMA StatusChanges ==
  ASSUME Inv, [Next]_vars, NEW t \in Tasks, status'[t] # status[t]
  PROVE  \/ \E a \in Agents : Claim(a, t)
         \/ \E g \in delivered, o \in {"done", "failed"} : g.task = t /\ Report(g, o)
         \/ Reclaim(t)
         \/ CancelCommit(t)
         \/ ResetCommit(t) /\ SameRound(t)
<1> USE DEF Inv, TypeOK
<1>1. ASSUME NEW a \in Agents, NEW s \in Tasks, Claim(a, s) PROVE s = t
  BY <1>1 DEF Claim
<1>2. ASSUME NEW g \in delivered, NEW o \in {"done", "failed"}, Report(g, o) PROVE g.task = t
  BY <1>2 DEF Report, Grant
<1>3. ASSUME NEW s \in Tasks, Reclaim(s) PROVE s = t
  BY <1>3 DEF Reclaimable, Reclaim
<1>4. ASSUME NEW s \in Tasks, CancelCommit(s) PROVE s = t
  BY <1>4 DEF CancelCommit
<1>5. ASSUME NEW s \in Tasks, ResetCommit(s) PROVE s = t /\ SameRound(s)
  BY <1>5 DEF ResetCommit, taskVars
<1>6. ASSUME NEW a \in Agents,
             Register(a) \/ Offline(a) \/ SendBeat(a) \/ ReceiveBeat(a)
             \/ StartWork(a) \/ EndWork(a)
      PROVE FALSE
  BY <1>6 DEF Register, Offline, SendBeat, ReceiveBeat, StartWork, EndWork, taskVars
<1>7. ASSUME NEW g \in delivered, Renew(g) PROVE FALSE
  BY <1>7 DEF Renew
<1>8. ASSUME NEW s \in Tasks,
             TimeUp(s) \/ LeaseExpires(s) \/ ExposeRead(s) \/ ExposeCommit(s)
             \/ CancelRead(s) \/ ResetRead(s)
      PROVE FALSE
  BY <1>8 DEF TimeUp, LeaseExpires, ExposeRead, ExposeCommit, CancelRead, ResetRead, taskVars
<1>9. CASE UNCHANGED vars
  BY <1>9 DEF vars, taskVars
<1> QED
  BY <1>1, <1>2, <1>3, <1>4, <1>5, <1>6, <1>7, <1>8, <1>9
     DEF Next, WorkerNext, HubNext, OperatorNext

\* A result is undone only by an operator's reset or by a cancel that read
\* the task while it was pending; a cancelled task stays cancelled.
THEOREM ResultsAreKept == Spec => ResultsStand
<1>1. ASSUME Inv, [Next]_vars, NEW t \in Tasks
      PROVE /\ status[t] = "cancelled" => status'[t] = "cancelled"
            /\ status[t] \in {"done", "failed"} /\ status'[t] # status[t]
                 => \/ status'[t] = "pending" /\ resetting[t] # NoReset
                    \/ status'[t] = "cancelled" /\ t \in cancelling
  <2> SUFFICES ASSUME status'[t] # status[t]
               PROVE /\ status[t] = "cancelled" => status'[t] = "cancelled"
                     /\ status[t] \in {"done", "failed"}
                          => \/ status'[t] = "pending" /\ resetting[t] # NoReset
                             \/ status'[t] = "cancelled" /\ t \in cancelling
    OBVIOUS
  <2>1. ASSUME NEW a \in Agents, Claim(a, t) PROVE status[t] = "pending"
    BY <2>1 DEF Claim, Claimable
  <2>2. ASSUME NEW g \in delivered, NEW o \in {"done", "failed"}, g.task = t, Report(g, o)
        PROVE status[t] = "running"
    BY <2>2 DEF Report, Authorised
  <2>3. ASSUME Reclaim(t) PROVE status[t] = "running"
    BY <2>3 DEF Reclaimable, Reclaim
  <2>4. ASSUME CancelCommit(t) PROVE status'[t] = "cancelled" /\ t \in cancelling
    BY <1>1, <2>4 DEF Moved, CancelCommit, Inv, TypeOK
  <2>5. ASSUME ResetCommit(t), SameRound(t)
        PROVE status'[t] = "pending" /\ resetting[t] # NoReset /\ status[t] # "cancelled"
    BY <1>1, <2>5 DEF Moved, ResetCommit, SameRound, ResetRound, Inv, TypeOK
  <2> QED
    BY <1>1, <2>1, <2>2, <2>3, <2>4, <2>5, StatusChanges
<1>2. Inv /\ [Next]_vars =>
        [\A t \in Tasks :
           /\ status[t] = "cancelled" => status'[t] = "cancelled"
           /\ status[t] \in {"done", "failed"} /\ status'[t] # status[t]
                => \/ status'[t] = "pending" /\ resetting[t] # NoReset
                   \/ status'[t] = "cancelled" /\ t \in cancelling]_vars
  BY <1>1
<1> QED
  BY Invariance, <1>2, PTL DEF Spec, ResultsStand

\* A task is closed with the result of its newest claim, or failed by the
\* supervisor once its retries are used up.
THEOREM NewestClaimCloses == Spec => ReportClosesNewestClaim
<1>1. ASSUME Inv, [Next]_vars, NEW t \in Tasks,
             status[t] = "running", status'[t] \in {"done", "failed"}
      PROVE  ClosedByNewest(t) \/ RetriesUsedUp(t)
  <2>1. ASSUME NEW a \in Agents, Claim(a, t) PROVE FALSE
    BY <1>1, <2>1 DEF Claim, Claimable
  <2>2. ASSUME NEW g \in delivered, NEW o \in {"done", "failed"}, g.task = t, Report(g, o)
        PROVE ClosedByNewest(t)
    <3>1. g.token = lease[t] /\ doneAt'[t] = g.token
      BY <1>1, <2>2 DEF Moved, Report, Authorised, Inv, TypeOK
    <3>2. lease[t] # 0
      BY <1>1, <3>1 DEF Inv, TokensAreIssued, TypeOK, Known
    <3> QED
      BY <1>1, <3>1, <3>2 DEF Inv, OldClaimsAreFenced, ClosedByNewest
  <2>3. CASE Reclaim(t)
    <3>1. TypeOK /\ lease[t] = 0 /\ retries'[t] = retries[t] + 1
      BY <2>3, <1>1 DEF Moved, Reclaimable, Reclaim, Inv, TypeOK
    <3>2. retries[t] + 1 > MaxRetries
      <4>1. SUFFICES ASSUME ~(retries[t] + 1 > MaxRetries) PROVE FALSE
        OBVIOUS
      <4>2. status' = [status EXCEPT ![t] = "pending"]
        BY <2>3, <4>1 DEF Reclaimable, Reclaim
      <4> QED
        BY <1>1, <3>1, <4>2 DEF TypeOK
    <3>3. status' = [status EXCEPT ![t] = "failed"]
      BY <2>3, <3>2 DEF Reclaimable, Reclaim
    <3> QED
      BY <3>1, <3>2, <3>3 DEF TypeOK, RetriesUsedUp
  <2>4. ~(CancelCommit(t) \/ (ResetCommit(t) /\ SameRound(t)))
    BY <1>1 DEF Moved, CancelCommit, ResetCommit, Inv, TypeOK
  <2>5. \/ \E a \in Agents : Claim(a, t)
        \/ \E g \in delivered, o \in {"done", "failed"} : g.task = t /\ Report(g, o)
        \/ Reclaim(t)
        \/ CancelCommit(t)
        \/ ResetCommit(t) /\ SameRound(t)
    <3>1. status'[t] # status[t]
      BY <1>1
    <3> QED
      BY <1>1, <3>1, StatusChanges
  <2> QED
    BY <2>1, <2>2, <2>3, <2>4, <2>5
<1>2. Inv /\ [Next]_vars =>
        [\A t \in Tasks : status[t] = "running" /\ status'[t] \in {"done", "failed"}
           => ClosedByNewest(t) \/ RetriesUsedUp(t)]_vars
  BY <1>1
<1> QED
  BY Invariance, <1>2, PTL DEF Spec, ReportClosesNewestClaim

-----------------------------------------------------------------------------
(* Refinement *)

\* The hub's own record of the tasks.
record == <<status, claimedBy, lease, doneAt, issued>>

\* Every step is a step of the abstract specification, or leaves the record alone.
LEMMA StepRefines ==
  ASSUME Inv, [Next]_vars
  PROVE  [Promise!AssignmentNext]_(Promise!assignmentVars)
<1> USE DEF Inv, TypeOK
<1>u. UNCHANGED record => UNCHANGED Promise!assignmentVars
  BY DEF record, Promise!assignmentVars
<1>1. ASSUME NEW a \in Agents,
             Register(a) \/ Offline(a) \/ SendBeat(a) \/ ReceiveBeat(a)
             \/ StartWork(a) \/ EndWork(a)
      PROVE UNCHANGED record
  BY <1>1 DEF record, Register, Offline, SendBeat, ReceiveBeat, StartWork, EndWork, taskVars
<1>2. ASSUME NEW t \in Tasks,
             TimeUp(t) \/ ExposeRead(t) \/ CancelRead(t) \/ ResetRead(t)
      PROVE UNCHANGED record
  BY <1>2 DEF record, TimeUp, ExposeRead, CancelRead, ResetRead, taskVars
<1>3. ASSUME NEW g \in delivered, Renew(g) PROVE UNCHANGED record
  BY <1>3 DEF record, Renew
<1>4. ASSUME UNCHANGED vars PROVE UNCHANGED record
  BY <1>4 DEF record, vars, taskVars
<1>5. ASSUME NEW a \in Agents, NEW t \in Tasks, Claim(a, t) PROVE Promise!Grant(a, t)
  <2>1. \A s \in Tasks : ~(status[s] = "running" /\ claimedBy[s] = a)
    BY <1>5 DEF Claim, OwnsIndexedRunning, IndexFollowsStatus
  <2>2. status[t] = "pending" /\ lease[t] = 0
    BY <1>5 DEF Claim, Claimable
  <2> QED
    BY <1>5, <2>1, <2>2 DEF Claim, Promise!Grant
<1>6. ASSUME NEW g \in delivered, NEW o \in {"done", "failed"}, Report(g, o)
      PROVE g.task \in Tasks /\ Promise!Finish(g.task, o)
  <2>1. g.task \in Tasks /\ g.token # 0
    BY DEF Known, TokensAreIssued, Grant
  <2> QED
    BY <1>6, <2>1 DEF Report, Authorised, Promise!Finish
<1>7. ASSUME NEW t \in Tasks, LeaseExpires(t) PROVE Promise!Revoke(t)
  BY <1>7 DEF LeaseExpires, Promise!Revoke
<1>8. ASSUME NEW t \in Tasks, ExposeCommit(t) PROVE Promise!Revoke(t) \/ UNCHANGED record
  BY <1>8 DEF ExposeCommit, Promise!Revoke, record
<1>9. ASSUME NEW t \in Tasks, Reclaim(t)
      PROVE Promise!TakeBack(t, "pending") \/ Promise!TakeBack(t, "failed")
  BY <1>9 DEF Reclaim, Reclaimable, Promise!TakeBack
<1>10. ASSUME NEW t \in Tasks, CancelCommit(t) PROVE Promise!Withdraw(t)
  BY <1>10 DEF CancelCommit, Promise!Withdraw
<1>11. ASSUME NEW t \in Tasks, ResetCommit(t)
       PROVE Promise!Reopen(t) \/ UNCHANGED record
  <2>1. CASE SameRound(t)
    <3>1. status[t] \in {"running", "done", "failed"}
      BY <1>11, <2>1 DEF ResetCommit, SameRound, ResetRound
    <3> QED
      BY <1>11, <2>1, <3>1 DEF ResetCommit, Promise!Reopen
  <2>2. CASE ~SameRound(t)
    BY <1>11, <2>2 DEF ResetCommit, record, taskVars
  <2> QED
    BY <2>1, <2>2
<1>12. \/ UNCHANGED record
       \/ \E t \in Tasks :
            \/ \E a \in Agents : Promise!Grant(a, t)
            \/ Promise!Finish(t, "done") \/ Promise!Finish(t, "failed")
            \/ Promise!Revoke(t)
            \/ Promise!TakeBack(t, "pending") \/ Promise!TakeBack(t, "failed")
            \/ Promise!Reopen(t)
            \/ Promise!Withdraw(t)
  <2> SUFFICES ASSUME ~UNCHANGED record
               PROVE \E t \in Tasks :
                       \/ \E a \in Agents : Promise!Grant(a, t)
                       \/ Promise!Finish(t, "done") \/ Promise!Finish(t, "failed")
                       \/ Promise!Revoke(t)
                       \/ Promise!TakeBack(t, "pending") \/ Promise!TakeBack(t, "failed")
                       \/ Promise!Reopen(t)
                       \/ Promise!Withdraw(t)
    OBVIOUS
  <2> HIDE DEF Inv, TypeOK
  <2>1. CASE WorkerNext
    BY <1>1, <1>3, <1>5, <1>6, <2>1 DEF WorkerNext
  <2>2. CASE HubNext
    BY <1>2, <1>7, <1>8, <1>9, <2>2 DEF HubNext
  <2>3. CASE OperatorNext
    BY <1>2, <1>10, <1>11, <2>3 DEF OperatorNext
  <2> QED
    BY <1>4, <2>1, <2>2, <2>3 DEF Next
<1> QED
  BY <1>u, <1>12 DEF Promise!AssignmentNext

\* The task's life in the hub implements the assignment of work by tickets.
THEOREM Implements == Spec => ImplementsAssignment
<1>1. Init => Promise!AssignmentInit
  BY DEF Init, Promise!AssignmentInit
<1>2. Inv /\ [Next]_vars => [Promise!AssignmentNext]_(Promise!assignmentVars)
  BY StepRefines
<1> QED
  BY Invariance, <1>1, <1>2, PTL DEF Spec, ImplementsAssignment, Promise!AssignmentSpec

\* Results come from the newest claim and stand.
THEOREM ResultsSafe == Spec => ResultsAreSafe
BY ResultsAreKept, NewestClaimCloses DEF ResultsAreSafe
=============================================================================
