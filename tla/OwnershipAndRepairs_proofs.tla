---------------------- MODULE OwnershipAndRepairs_proofs ----------------------
(***************************************************************************)
(* Proofs about FileOwnership, for any tasks, agents, globs, overlap       *)
(* relation, priorities and bounds.  The handlers reach the registry only  *)
(* through the operators of OwnershipRegistry: lemmas about those, then    *)
(* one lemma that says which of them a step may apply, then the theorems.  *)
(*                                                                         *)
(* And about RepairChain, for any requests and bounds: unless the PM's     *)
(* pointer was diverted, one repair at a time is at work, the automatic    *)
(* ones are within the limit, a decision the PM is asked for is open to    *)
(* him, and what was decided once stands.                                  *)
(***************************************************************************)
EXTENDS FileOwnership, MCRepairChain, TLAPS, FiniteSetTheorems, SequenceTheorems

-----------------------------------------------------------------------------
(* What the registry operators keep *)

LEMMA RegistryTypes ==
  ASSUME NEW reg \in Registry, NEW a \in Agents, NEW t \in Tasks, NEW files \in SUBSET Globs
  PROVE  Activated(reg, a, t, files) \in Registry
BY DEF Registry, OwnershipRecord, Activated

LEMMA OwnTypes ==
  ASSUME NEW reg \in Registry, NEW a, NEW t
  PROVE  /\ ReleasedFor(reg, a, t) \in Registry
         /\ RenewedFor(reg, a, t) \in Registry
         /\ LapsedFor(reg, a, t) \in Registry
BY DEF Registry, OwnershipRecord, ReleasedFor, RenewedFor, LapsedFor, OwnedBy

\* An activation drops every live record it runs into, so it leaves no overlap.
LEMMA ActivationKeepsExclusive ==
  ASSUME NEW reg \in Registry, NEW a \in Agents, NEW t \in Tasks,
         NEW files \in SUBSET Globs, Exclusive(reg)
  PROVE  Exclusive(Activated(reg, a, t, files))
<1> DEFINE after == Activated(reg, a, t, files)
<1> SUFFICES ASSUME NEW g \in Globs, NEW h \in Globs,
                    Live(after, g), Live(after, h), <<g, h>> \in Overlaps
             PROVE  after[g].agent = after[h].agent /\ after[g].task = after[h].task
  BY DEF Exclusive
<1>1. \A f \in files : after[f].agent = a /\ after[f].task = t
  BY DEF Activated
<1>2. \A k \in Globs \ files : Live(after, k) => /\ after[k] = reg[k] /\ Live(reg, k)
                                                 /\ k \notin Contested(reg, a, t, files)
  BY DEF Activated, Live
<1>3. \A k \in Globs \ files, f \in files :
        Live(after, k) /\ <<k, f>> \in Overlaps => after[k].agent = a /\ after[k].task = t
  BY <1>2 DEF Contested, OwnedBy, Live
<1>4. CASE g \in files /\ h \in files
  BY <1>1, <1>4
<1>5. CASE g \notin files /\ h \notin files
  BY <1>2, <1>5 DEF Exclusive
<1>6. CASE g \notin files /\ h \in files
  BY <1>1, <1>3, <1>6
<1>7. CASE g \in files /\ h \notin files
  BY <1>1, <1>3, <1>7, OverlapAssumption
<1> QED
  BY <1>4, <1>5, <1>6, <1>7

\* Dropping records, or letting them run out, leaves no new overlap.
LEMMA FewerLiveKeepsExclusive ==
  ASSUME NEW reg \in Registry, NEW after, Exclusive(reg),
         \A g \in Globs : Live(after, g) => after[g] = reg[g]
  PROVE  Exclusive(after)
BY DEF Exclusive, Live

-----------------------------------------------------------------------------
(* Types and the claimant of a running task *)

RunningHasClaimant == \A t \in Tasks : taskState[t] = "running" => claimedBy[t] \in Agents
TypeInv == OwnershipTypeOK /\ RunningHasClaimant

LEMMA InitTypeInv == Init => TypeInv
BY AttemptAssumption DEF Init, TypeInv, OwnershipTypeOK, RunningHasClaimant, Registry, TaskState

LEMMA FinishedTypes ==
  ASSUME OwnershipTypeOK, NEW i \in AttemptIds, Finished(i)
  PROVE  /\ attempts' \in [AttemptIds -> Attempt \cup {NoAttempt}]
         /\ reservation' \in [Agents -> 0..AttemptBound]
<1>1. 0 \in 0..AttemptBound
  BY AttemptAssumption
<1> QED
  BY <1>1 DEF Finished, OwnershipTypeOK

LEMMA StepTypeInv == TypeInv /\ [Next]_vars => TypeInv'
<1> SUFFICES ASSUME TypeInv, [Next]_vars PROVE TypeInv'
  OBVIOUS
<1> USE AttemptAssumption DEF TypeInv, OwnershipTypeOK, RunningHasClaimant, TaskState, AttemptIds
<1>1. ASSUME NEW a \in Agents, NEW t \in Tasks, BeginClaim(a, t) PROVE TypeInv'
  <2>1. begun + 1 \in AttemptIds
    BY <1>1 DEF BeginClaim
  <2>2. [agent |-> a, task |-> t, session |-> session[a], phase |-> "chosen"] \in Attempt
    BY DEF Attempt, Phase
  <2> QED
    BY <1>1, <2>1, <2>2 DEF BeginClaim, leaseVars
<1>2. ASSUME NEW a \in Agents, ReservationLapses(a) \/ Reregister(a) PROVE TypeInv'
  <2>1. CASE ReservationLapses(a)
    BY <2>1 DEF ReservationLapses, leaseVars
  <2>2. CASE Reregister(a)
    BY <2>2 DEF Reregister, leaseVars
  <2> QED
    BY <1>2, <2>1, <2>2
<1>3. ASSUME NEW i \in AttemptIds, Activate(i) PROVE TypeInv'
  <2>1. attempts[i] \in Attempt
    BY <1>3 DEF Activate
  <2>2. Files[attempts[i].task] \in SUBSET Globs /\ attempts[i].agent \in Agents
        /\ attempts[i].task \in Tasks
    BY <2>1, FilesAssumption DEF Attempt
  <2>3. registry' \in Registry
    <3>1. Activated(registry, attempts[i].agent, attempts[i].task, Files[attempts[i].task])
            \in Registry
      BY <2>2, RegistryTypes
    <3> QED
      BY <1>3, <3>1 DEF Activate
  <2>4. attempts' \in [AttemptIds -> Attempt \cup {NoAttempt}]
        /\ reservation' \in [Agents -> 0..AttemptBound]
    <3>1. [attempts[i] EXCEPT !.phase = "activated"] \in Attempt
      BY <2>1 DEF Attempt, Phase
    <3>2. CASE MayActivate(registry, attempts[i].agent, attempts[i].task,
                           Files[attempts[i].task], TRUE)
      BY <1>3, <3>1, <3>2 DEF Activate
    <3>3. CASE ~MayActivate(registry, attempts[i].agent, attempts[i].task,
                            Files[attempts[i].task], TRUE)
      BY <1>3, <3>3, FinishedTypes DEF Activate
    <3> QED
      BY <3>2, <3>3
  <2> QED
    BY <1>3, <2>3, <2>4 DEF Activate, leaseVars
<1>4. ASSUME NEW i \in AttemptIds, Abandon(i) PROVE TypeInv'
  BY <1>4 DEF Abandon, Finished, leaseVars
<1>5. ASSUME NEW i \in AttemptIds, CommitClaim(i) PROVE TypeInv'
  <2>1. attempts[i] \in Attempt
    BY <1>5 DEF CommitClaim
  <2>2. attempts' \in [AttemptIds -> Attempt \cup {NoAttempt}]
        /\ reservation' \in [Agents -> 0..AttemptBound]
    <3>1. [attempts[i] EXCEPT !.phase = "refused"] \in Attempt
      BY <2>1 DEF Attempt, Phase
    <3>2. \/ Finished(i)
          \/ /\ attempts' = [attempts EXCEPT ![i].phase = "refused"]
             /\ UNCHANGED reservation
      BY <1>5 DEF CommitClaim
    <3>3. CASE attempts' = [attempts EXCEPT ![i].phase = "refused"] /\ UNCHANGED reservation
      BY <3>1, <3>3
    <3> QED
      BY <3>2, <3>3, FinishedTypes
  <2>3. attempts[i].agent \in Agents /\ attempts[i].task \in Tasks
    BY <2>1 DEF Attempt
  <2>4. CASE CommitOutcome(attempts[i], i) = "CLAIMED"
    BY <1>5, <2>2, <2>3, <2>4 DEF CommitClaim
  <2>5. CASE CommitOutcome(attempts[i], i) # "CLAIMED"
    BY <1>5, <2>2, <2>5 DEF CommitClaim, leaseVars
  <2> QED
    BY <2>4, <2>5
<1>6. ASSUME NEW i \in AttemptIds, Cleanup(i) PROVE TypeInv'
  BY <1>6, OwnTypes DEF Cleanup, Finished, leaseVars
<1>7. ASSUME NEW t \in Tasks, Renew(t) PROVE TypeInv'
  BY <1>7, OwnTypes DEF Renew, claimVars
<1>8. ASSUME NEW t \in Tasks, NEW g \in Globs, NEW f \in BOOLEAN, Declare(t, g, f) PROVE TypeInv'
  <2>1. claimedBy[t] \in Agents
    BY <1>8 DEF Declare, Holds
  <2>2. registry' \in Registry
    BY <1>8, <2>1, RegistryTypes DEF Declare
  <2> QED
    BY <1>8, <2>2 DEF Declare, leaseVars, claimVars
<1>9. ASSUME NEW t \in Tasks, NEW g \in Globs, ReleaseFile(t, g) PROVE TypeInv'
  BY <1>9 DEF ReleaseFile, Registry, leaseVars, claimVars
<1>10. ASSUME NEW t \in Tasks, Report(t) PROVE TypeInv'
  BY <1>10 DEF Report, Holds, claimVars
<1>11. ASSUME NEW a \in Agents, NEW t \in Tasks, ReleaseAfterCommit(a, t) PROVE TypeInv'
  BY <1>11, OwnTypes DEF ReleaseAfterCommit, leaseVars, claimVars
<1>12. ASSUME NEW t \in Tasks, Block(t) PROVE TypeInv'
  BY <1>12, OwnTypes DEF Block, claimVars
<1>13. ASSUME NEW t \in Tasks, Requeue(t) PROVE TypeInv'
  BY <1>13 DEF Requeue, claimVars
<1>14. ASSUME NEW t \in Tasks, TimeUp(t) PROVE TypeInv'
  BY <1>14, OwnTypes DEF TimeUp, claimVars
<1>15. ASSUME NEW t \in Tasks, LeaseExpires(t) PROVE TypeInv'
  BY <1>15 DEF LeaseExpires, claimVars
<1>16. ASSUME NEW t \in Tasks, Reset(t) PROVE TypeInv'
  <2>1. ToRelease(t) \subseteq Agents \X Tasks
    BY DEF ToRelease
  <2> QED
    BY <1>16, <2>1 DEF Reset, claimVars
<1>17. ASSUME NEW t \in Tasks, NEW s \in {"pending", "ended"}, ReclaimTask(t, s) PROVE TypeInv'
  BY <1>17, OwnTypes DEF ReclaimTask, claimVars
<1>18. ASSUME NEW g \in Globs, OwnershipExpires(g) PROVE TypeInv'
  <2>1. registry[g] \in OwnershipRecord
    BY <1>18 DEF OwnershipExpires, Live, Registry
  <2>2. [registry[g] EXCEPT !.live = FALSE] \in OwnershipRecord
    BY <2>1 DEF OwnershipRecord
  <2>3. registry' \in Registry
    BY <1>18, <2>2 DEF OwnershipExpires, Registry
  <2> QED
    BY <1>18, <2>3 DEF OwnershipExpires, leaseVars, claimVars
<1>19. CASE UNCHANGED vars
  BY <1>19 DEF vars, leaseVars, claimVars
<1> QED
  BY <1>1, <1>2, <1>3, <1>4, <1>5, <1>6, <1>7, <1>8, <1>9, <1>10, <1>11, <1>12, <1>13,
     <1>14, <1>15, <1>16, <1>17, <1>18, <1>19
     DEF Next, ClaimNext, HolderNext, HubNext

LEMMA TypeInvariance == Spec => []TypeInv
BY InitTypeInv, StepTypeInv, PTL DEF Spec

\* Every variable keeps its type in every reachable state.
THEOREM OwnershipTypeCorrect == Spec => []OwnershipTypeOK
<1>1. TypeInv => OwnershipTypeOK
  BY DEF TypeInv
<1> QED
  BY TypeInvariance, <1>1, PTL

-----------------------------------------------------------------------------
(* What a step may do to the registry *)

\* Dropping or ending records in the registry, never writing a new one.
Fewer == \A g \in Globs : Live(registry', g) => registry'[g] = registry[g]

LEMMA FewerByRelease ==
  ASSUME OwnershipTypeOK, NEW a, NEW t, registry' = ReleasedFor(registry, a, t) PROVE Fewer
BY DEF Fewer, ReleasedFor, Live, OwnershipTypeOK, Registry

LEMMA FewerByLapse ==
  ASSUME OwnershipTypeOK, NEW a, NEW t, registry' = LapsedFor(registry, a, t) PROVE Fewer
<1>1. ASSUME NEW g \in Globs, Live(registry', g) PROVE registry'[g] = registry[g]
  <2>1. CASE OwnedBy(registry, g, a, t)
    <3>1. registry[g] \in OwnershipRecord
      BY <2>1 DEF OwnedBy, OwnershipTypeOK, Registry
    <3>2. registry'[g] = [registry[g] EXCEPT !.live = FALSE]
      BY <2>1 DEF LapsedFor
    <3>3. ~registry'[g].live
      BY <3>1, <3>2 DEF OwnershipRecord
    <3> QED
      BY <1>1, <3>3 DEF Live
  <2>2. CASE ~OwnedBy(registry, g, a, t)
    BY <2>2 DEF LapsedFor
  <2> QED
    BY <2>1, <2>2
<1> QED
  BY <1>1 DEF Fewer

\* The records a step writes come from one activation or from one renewal.
LEMMA RegistryStep ==
  ASSUME TypeInv, [Next]_vars
  PROVE  \/ Fewer
         \/ \E a \in Agents, t \in Tasks, files \in SUBSET Globs, allow \in BOOLEAN :
              /\ MayActivate(registry, a, t, files, allow)
              /\ registry' = Activated(registry, a, t, files)
         \/ \E t \in Tasks : Renew(t)
<1> DEFINE Activation ==
      \E a \in Agents, t \in Tasks, files \in SUBSET Globs, allow \in BOOLEAN :
        /\ MayActivate(registry, a, t, files, allow)
        /\ registry' = Activated(registry, a, t, files)
<1> USE DEF TypeInv, OwnershipTypeOK
<1>1. ASSUME UNCHANGED registry PROVE Fewer
  BY <1>1 DEF Fewer
<1>2. ASSUME NEW i \in AttemptIds, Activate(i) PROVE Fewer \/ Activation
  <2>1. attempts[i].agent \in Agents /\ attempts[i].task \in Tasks
    BY <1>2 DEF Activate, Attempt
  <2>2. Files[attempts[i].task] \in SUBSET Globs /\ TRUE \in BOOLEAN
    BY <2>1, FilesAssumption
  <2>3. CASE MayActivate(registry, attempts[i].agent, attempts[i].task,
                         Files[attempts[i].task], TRUE)
    <3>1. registry' = Activated(registry, attempts[i].agent, attempts[i].task,
                                Files[attempts[i].task])
      BY <1>2, <2>3 DEF Activate
    <3> QED
      BY <2>1, <2>2, <2>3, <3>1
  <2>4. CASE ~MayActivate(registry, attempts[i].agent, attempts[i].task,
                          Files[attempts[i].task], TRUE)
    BY <1>1, <1>2, <2>4 DEF Activate
  <2> QED
    BY <2>3, <2>4
<1>3. ASSUME NEW t \in Tasks, NEW g \in Globs, NEW f \in BOOLEAN, Declare(t, g, f)
      PROVE Activation
  <2>1. claimedBy[t] \in Agents /\ {g} \in SUBSET Globs
    BY <1>3 DEF Declare, Holds, RunningHasClaimant
  <2>2. /\ MayActivate(registry, claimedBy[t], t, {g}, f)
        /\ registry' = Activated(registry, claimedBy[t], t, {g})
    BY <1>3 DEF Declare
  <2> QED
    BY <2>1, <2>2
<1>4. ASSUME NEW t \in Tasks, NEW g \in Globs, ReleaseFile(t, g) PROVE Fewer
  BY <1>4 DEF ReleaseFile, Fewer, Live, Registry
<1>5. ASSUME NEW i \in AttemptIds, Cleanup(i) PROVE Fewer
  BY <1>5, FewerByRelease DEF Cleanup
<1>6. ASSUME NEW a \in Agents, NEW t \in Tasks, ReleaseAfterCommit(a, t) PROVE Fewer
  BY <1>6, FewerByRelease DEF ReleaseAfterCommit
<1>7. ASSUME NEW t \in Tasks, Block(t) \/ \E s \in {"pending", "ended"} : ReclaimTask(t, s)
      PROVE Fewer
  BY <1>7, FewerByRelease DEF Block, ReclaimTask
<1>8. ASSUME NEW t \in Tasks, TimeUp(t) PROVE Fewer
  BY <1>8, FewerByLapse DEF TimeUp
<1>9. ASSUME NEW g \in Globs, OwnershipExpires(g) PROVE Fewer
  <2>1. registry[g] \in OwnershipRecord
    BY <1>9 DEF OwnershipExpires, Live, Registry
  <2>2. registry'[g] = [registry[g] EXCEPT !.live = FALSE]
        /\ \A h \in Globs : h # g => registry'[h] = registry[h]
    BY <1>9 DEF OwnershipExpires, Registry
  <2>3. ~registry'[g].live
    BY <2>1, <2>2 DEF OwnershipRecord
  <2> QED
    BY <2>2, <2>3 DEF Fewer, Live
<1>10. CASE \/ \E a \in Agents, t \in Tasks : BeginClaim(a, t)
            \/ \E a \in Agents : ReservationLapses(a) \/ Reregister(a)
            \/ \E i \in AttemptIds : Abandon(i) \/ CommitClaim(i)
            \/ \E t \in Tasks : Report(t) \/ Requeue(t) \/ LeaseExpires(t) \/ Reset(t)
            \/ UNCHANGED vars
  BY <1>1, <1>10 DEF BeginClaim, ReservationLapses, Reregister, Abandon, CommitClaim, Report,
                     Requeue, LeaseExpires, Reset, vars
<1> QED
  BY <1>2, <1>3, <1>4, <1>5, <1>6, <1>7, <1>8, <1>9, <1>10
     DEF Next, ClaimNext, HolderNext, HubNext

\* A renewal of records that are all live changes nothing.
LEMMA RenewLive ==
  ASSUME TypeInv, NEW t \in Tasks, Renew(t), ~RevivesLapsed(t)
  PROVE  registry' = registry
<1>1. registry' = RenewedFor(registry, claimedBy[t], t) /\ Holds(t)
  BY DEF Renew
<1>2. \A g \in Globs : OwnedBy(registry, g, claimedBy[t], t) => Live(registry, g)
  BY <1>1 DEF RevivesLapsed
<1>3. ASSUME NEW g \in Globs, OwnedBy(registry, g, claimedBy[t], t)
      PROVE [registry[g] EXCEPT !.live = TRUE] = registry[g]
  <2>1. registry[g] \in OwnershipRecord /\ registry[g].live = TRUE
    BY <1>2, <1>3 DEF OwnedBy, Live, TypeInv, OwnershipTypeOK, Registry, OwnershipRecord
  <2> QED
    BY <2>1 DEF OwnershipRecord
<1>4. \A g \in Globs : registry'[g] = registry[g]
  BY <1>1, <1>3 DEF RenewedFor
<1> QED
  BY <1>1, <1>4 DEF RenewedFor, TypeInv, OwnershipTypeOK, Registry

-----------------------------------------------------------------------------
(* The theorems *)

\* However claims, preemptions, refusals, releases and expiries interleave, two
\* claims come to share live files only by a renewal after their expiry.
THEOREM OnlyLateRenewalOverlaps == Spec => OverlapOnlyByLateRenewal
<1>1. ASSUME TypeInv, [Next]_vars, Exclusive(registry)
      PROVE  Exclusive(registry') \/ \E t \in Tasks : RevivesLapsed(t)
  <2>1. CASE Fewer
    BY <1>1, <2>1, FewerLiveKeepsExclusive DEF Fewer, TypeInv, OwnershipTypeOK
  <2>2. ASSUME NEW a \in Agents, NEW t \in Tasks, NEW files \in SUBSET Globs,
               registry' = Activated(registry, a, t, files)
        PROVE  Exclusive(registry')
    BY <1>1, <2>2, ActivationKeepsExclusive DEF TypeInv, OwnershipTypeOK
  <2>3. ASSUME NEW t \in Tasks, Renew(t), ~RevivesLapsed(t) PROVE Exclusive(registry')
    BY <1>1, <2>3, RenewLive
  <2> QED
    BY <1>1, <2>1, <2>2, <2>3, RegistryStep
<1>2. TypeInv /\ [Next]_vars =>
        [Exclusive(registry) => Exclusive(registry') \/ \E t \in Tasks : RevivesLapsed(t)]_vars
  BY <1>1
<1> QED
  BY TypeInvariance, <1>2, PTL DEF Spec, OverlapOnlyByLateRenewal

\* A claim gets files under the live records of another one only with strictly
\* higher priority, whether it takes them at claim or by a declaration.
THEOREM PriorityDisplaces == Spec => DisplacedOnlyByPriority
<1>1. ASSUME TypeInv, [Next]_vars, NEW g \in Globs, NEW h \in Globs, TakesOver(h, g)
      PROVE  Priority[registry'[h].task] > Priority[registry[g].task]
  <2>1. CASE Fewer
    BY <1>1, <2>1 DEF Fewer, TakesOver
  <2>2. ASSUME NEW a \in Agents, NEW t \in Tasks, NEW files \in SUBSET Globs,
               NEW allow \in BOOLEAN, MayActivate(registry, a, t, files, allow),
               registry' = Activated(registry, a, t, files)
        PROVE  Priority[registry'[h].task] > Priority[registry[g].task]
    <3>1. h \in files
      BY <1>1, <2>2 DEF TakesOver, Activated, Live
    <3>2. registry'[h].agent = a /\ registry'[h].task = t
      BY <2>2, <3>1 DEF Activated
    <3>3. g \in Contested(registry, a, t, files)
      BY <1>1, <3>1, <3>2 DEF TakesOver, Contested
    <3> QED
      BY <2>2, <3>2, <3>3 DEF MayActivate
  <2>3. ASSUME NEW t \in Tasks, Renew(t) PROVE FALSE
    <3>1. registry' = RenewedFor(registry, claimedBy[t], t)
      BY <2>3 DEF Renew
    <3>2. OwnedBy(registry, h, claimedBy[t], t)
      BY <1>1, <3>1 DEF TakesOver, RenewedFor
    <3>3. registry[h] \in OwnershipRecord
      BY <1>1, <3>2 DEF OwnedBy, TypeInv, OwnershipTypeOK, Registry
    <3>4. registry'[h].agent = registry[h].agent /\ registry'[h].task = registry[h].task
      BY <3>1, <3>2, <3>3 DEF RenewedFor, OwnershipRecord
    <3> QED
      BY <1>1, <3>2, <3>4 DEF TakesOver, OwnedBy
  <2> QED
    BY <1>1, <2>1, <2>2, <2>3, RegistryStep
<1>2. TypeInv /\ [Next]_vars =>
        [\A g, h \in Globs :
           TakesOver(h, g) => Priority[registry'[h].task] > Priority[registry[g].task]]_vars
  BY <1>1
<1> QED
  BY TypeInvariance, <1>2, PTL DEF Spec, DisplacedOnlyByPriority

\* Files go from one claim to another by strictly higher priority, or by the renewal
\* of a claim whose records had run out.
THEOREM FilesAreSafe == Spec => FilesChangeHands
BY OnlyLateRenewalOverlaps, PriorityDisplaces DEF FilesChangeHands

-----------------------------------------------------------------------------
(* The repair chain.                                                        *)

\* The calls ahead of a request.
Ahead(s) == {s[i] : i \in DOMAIN s}

\* Calls that come at once or behind certain others.
Placed == {"create", "publish", "root", "await", "close", "kill"}
InPlace(s) ==
  \A i \in DOMAIN s :
    /\ s[i] \in {"create", "await", "kill"} => i = 1
    /\ s[i] = "publish" => i = 1 \/ (i = 2 /\ s[1] = "create")
    /\ s[i] = "root" => i = 1 \/ (i = 2 /\ s[1] = "publish") \/ (i = 3 /\ s[1] = "create" /\ s[2] = "publish")
    /\ s[i] = "close" => \A j \in 1..(i - 1) : s[j] \in {"kill", "sweep"}

\* The mark on the source of a repair comes behind the write of the root.
Sourced(s) == \A i \in DOMAIN s : s[i] = "source" => i = 1 \/ s[i - 1] = "root"

\* What is left after the first call.
LEMMA TailAhead ==
  ASSUME NEW s \in Seq(Call), s # <<>>
  PROVE  /\ Head(s) \in Ahead(s) /\ Head(s) = s[1] /\ Tail(s) \in Seq(Call) /\ Ahead(Tail(s)) \subseteq Ahead(s)
         /\ Ahead(s) \subseteq {Head(s)} \cup Ahead(Tail(s))
<1>1. /\ Len(s) \in Nat \ {0} /\ DOMAIN s = 1..Len(s) /\ Tail(s) \in Seq(Call) /\ Len(Tail(s)) = Len(s) - 1
      /\ \A i \in 1..Len(Tail(s)) : Tail(s)[i] = s[i + 1]
      /\ DOMAIN Tail(s) = 1..Len(Tail(s))
  BY EmptySeq, LenProperties, HeadTailProperties
<1>2. Head(s) = s[1] /\ s[1] \in Ahead(s)
  BY <1>1 DEF Ahead
<1>3. Ahead(Tail(s)) \subseteq Ahead(s)
  <2> SUFFICES ASSUME NEW i \in DOMAIN Tail(s) PROVE Tail(s)[i] \in Ahead(s)
    BY DEF Ahead
  <2>1. i + 1 \in DOMAIN s /\ Tail(s)[i] = s[i + 1]
    BY <1>1
  <2> QED
    BY <2>1 DEF Ahead
<1>4. Ahead(s) \subseteq {Head(s)} \cup Ahead(Tail(s))
  <2> SUFFICES ASSUME NEW i \in DOMAIN s, i # 1 PROVE s[i] \in Ahead(Tail(s))
    BY <1>2 DEF Ahead
  <2>1. i - 1 \in DOMAIN Tail(s) /\ Tail(s)[i - 1] = s[i]
    BY <1>1
  <2> QED
    BY <2>1 DEF Ahead
<1> QED
  BY <1>1, <1>2, <1>3, <1>4

LEMMA TailInPlace ==
  ASSUME NEW s \in Seq(Call), s # <<>>, InPlace(s)
  PROVE  /\ InPlace(Tail(s)) /\ Ahead(Tail(s)) \cap {"create", "await", "kill"} = {}
         /\ Tail(s) # <<>> /\ Head(Tail(s)) \in {"publish", "root"} => Head(s) \in {"create", "publish"}
<1>1. /\ Len(s) \in Nat \ {0} /\ DOMAIN s = 1..Len(s) /\ Tail(s) \in Seq(Call) /\ Len(Tail(s)) = Len(s) - 1
      /\ \A i \in 1..Len(Tail(s)) : Tail(s)[i] = s[i + 1]
      /\ DOMAIN Tail(s) = 1..Len(Tail(s)) /\ Head(s) = s[1]
  BY EmptySeq, LenProperties, HeadTailProperties
<1>2. InPlace(Tail(s))
  <2> SUFFICES ASSUME NEW i \in DOMAIN Tail(s)
      PROVE /\ Tail(s)[i] \in {"create", "await", "kill"} => i = 1
            /\ Tail(s)[i] = "publish" => i = 1 \/ (i = 2 /\ Tail(s)[1] = "create")
            /\ Tail(s)[i] = "root" => \/ i = 1 \/ (i = 2 /\ Tail(s)[1] = "publish")
                                      \/ (i = 3 /\ Tail(s)[1] = "create" /\ Tail(s)[2] = "publish")
            /\ Tail(s)[i] = "close" => \A j \in 1..(i - 1) : Tail(s)[j] \in {"kill", "sweep"}
    BY DEF InPlace
  <2>1. i + 1 \in DOMAIN s /\ Tail(s)[i] = s[i + 1] /\ i \in Nat /\ i >= 1
    BY <1>1
  <2>2. s[i + 1] = "close" => \A j \in 1..(i - 1) : Tail(s)[j] \in {"kill", "sweep"}
    <3> SUFFICES ASSUME s[i + 1] = "close", NEW j \in 1..(i - 1) PROVE Tail(s)[j] \in {"kill", "sweep"}
      OBVIOUS
    <3>1. j + 1 \in 1..i /\ Tail(s)[j] = s[j + 1]
      BY <1>1, <2>1
    <3> QED
      BY <3>1, <2>1 DEF InPlace
  <2>3. s[i + 1] = "root" => i = 1 \/ (i = 2 /\ Tail(s)[1] = "publish")
    <3> SUFFICES ASSUME s[i + 1] = "root", i = 2 PROVE Tail(s)[1] = "publish"
      BY <2>1 DEF InPlace
    <3>1. s[2] = "publish" /\ Tail(s)[1] = s[2]
      BY <1>1, <2>1 DEF InPlace
    <3> QED
      BY <3>1
  <2>4. s[i + 1] \notin {"create", "await", "kill"} /\ (s[i + 1] = "publish" => i = 1)
    BY <2>1 DEF InPlace
  <2> QED
    BY <2>1, <2>2, <2>3, <2>4
<1>3. Ahead(Tail(s)) \cap {"create", "await", "kill"} = {}
  <2> SUFFICES ASSUME NEW i \in DOMAIN Tail(s) PROVE Tail(s)[i] \notin {"create", "await", "kill"}
    BY DEF Ahead
  <2>1. i + 1 \in DOMAIN s /\ Tail(s)[i] = s[i + 1] /\ i + 1 # 1
    BY <1>1
  <2> QED
    BY <2>1 DEF InPlace
<1>4. Tail(s) # <<>> /\ Head(Tail(s)) \in {"publish", "root"} => Head(s) \in {"create", "publish"}
  <2> SUFFICES ASSUME Tail(s) # <<>>, Head(Tail(s)) \in {"publish", "root"} PROVE s[1] \in {"create", "publish"}
    BY <1>1
  <2>1. 2 \in DOMAIN s /\ Head(Tail(s)) = s[2]
    BY <1>1, EmptySeq
  <2> QED
    BY <2>1 DEF InPlace
<1> QED
  BY <1>2, <1>3, <1>4

\* None but the first of its calls, or what a sweep precedes, has a place.
LEMMA NothingPlaced ==
  ASSUME NEW s \in Seq(Call), s # <<>>, InPlace(s), Head(s) \notin {"create", "publish", "kill", "sweep"}
  PROVE  /\ Ahead(Tail(s)) \cap Placed = {}
         /\ Head(s) \notin Placed => Ahead(s) \cap Placed = {}
<1>1. /\ Len(s) \in Nat \ {0} /\ DOMAIN s = 1..Len(s) /\ Len(Tail(s)) = Len(s) - 1
      /\ \A i \in 1..Len(Tail(s)) : Tail(s)[i] = s[i + 1]
      /\ DOMAIN Tail(s) = 1..Len(Tail(s)) /\ Head(s) = s[1]
  BY EmptySeq, LenProperties, HeadTailProperties
<1>2. \A i \in DOMAIN s : i # 1 => s[i] \notin Placed
  <2> SUFFICES ASSUME NEW i \in DOMAIN s, i # 1 PROVE s[i] \notin Placed
    OBVIOUS
  <2>1. 1 \in 1..(i - 1)
    BY <1>1
  <2>2. s[i] # "close"
    BY <1>1, <2>1 DEF InPlace
  <2> QED
    BY <1>1, <2>2 DEF InPlace, Placed
<1>3. Ahead(Tail(s)) \cap Placed = {}
  <2> SUFFICES ASSUME NEW i \in DOMAIN Tail(s) PROVE Tail(s)[i] \notin Placed
    BY DEF Ahead
  <2>1. i + 1 \in DOMAIN s /\ Tail(s)[i] = s[i + 1] /\ i + 1 # 1
    BY <1>1
  <2> QED
    BY <2>1, <1>2
<1>4. Head(s) \notin Placed => Ahead(s) \cap Placed = {}
  BY <1>1, <1>2 DEF Ahead
<1> QED
  BY <1>3, <1>4

\* Calls put before others that have no place.
LEMMA BeforeInPlace ==
  ASSUME NEW a \in Seq(Call), NEW s \in Seq(Call), InPlace(a), Ahead(s) \cap Placed = {}
  PROVE  a \o s \in Seq(Call) /\ InPlace(a \o s) /\ Ahead(a \o s) = Ahead(a) \cup Ahead(s)
<1>1. /\ a \o s \in Seq(Call) /\ Len(a \o s) = Len(a) + Len(s) /\ Len(a) \in Nat /\ Len(s) \in Nat
      /\ \A i \in 1..(Len(a) + Len(s)) : (a \o s)[i] = IF i <= Len(a) THEN a[i] ELSE s[i - Len(a)]
      /\ DOMAIN a = 1..Len(a) /\ DOMAIN s = 1..Len(s) /\ DOMAIN (a \o s) = 1..(Len(a) + Len(s))
  BY ConcatProperties, LenProperties
<1> PICK c : c = a \o s
  OBVIOUS
<1>2. \A i \in DOMAIN a : i \in DOMAIN c /\ c[i] = a[i]
  BY <1>1
<1>3. \A i \in DOMAIN c : i \notin DOMAIN a => i - Len(a) \in DOMAIN s /\ c[i] = s[i - Len(a)]
  BY <1>1
<1>4. \A i \in DOMAIN c : i \notin DOMAIN a => c[i] \in Ahead(s) /\ c[i] \notin Placed
  BY <1>3 DEF Ahead
<1>5. InPlace(c)
  <2> SUFFICES ASSUME NEW i \in DOMAIN c
      PROVE /\ c[i] \in {"create", "await", "kill"} => i = 1
            /\ c[i] = "publish" => i = 1 \/ (i = 2 /\ c[1] = "create")
            /\ c[i] = "root" => i = 1 \/ (i = 2 /\ c[1] = "publish") \/ (i = 3 /\ c[1] = "create" /\ c[2] = "publish")
            /\ c[i] = "close" => \A j \in 1..(i - 1) : c[j] \in {"kill", "sweep"}
    BY DEF InPlace
  <2>1. CASE i \notin DOMAIN a
    BY <2>1, <1>4 DEF Placed
  <2>2. CASE i \in DOMAIN a
    <3>1. \A j \in 1..i : j \in DOMAIN a /\ c[j] = a[j]
      BY <2>2, <1>1, <1>2
    <3>2. i \in Nat /\ i >= 1 /\ c[i] = a[i]
      BY <2>2, <1>1, <1>2
    <3>3. c[i] = "close" => \A j \in 1..(i - 1) : c[j] \in {"kill", "sweep"}
      BY <2>2, <3>1, <3>2 DEF InPlace
    <3>4. c[i] \in {"create", "await", "kill"} => i = 1
      BY <2>2, <3>2 DEF InPlace
    <3>5. c[i] = "publish" => i = 1 \/ (i = 2 /\ c[1] = "create")
      BY <2>2, <3>1, <3>2 DEF InPlace
    <3>6. c[i] = "root" => i = 1 \/ (i = 2 /\ c[1] = "publish") \/ (i = 3 /\ c[1] = "create" /\ c[2] = "publish")
      BY <2>2, <3>1, <3>2 DEF InPlace
    <3> QED
      BY <3>3, <3>4, <3>5, <3>6
  <2> QED
    BY <2>1, <2>2
<1>6. Ahead(c) \subseteq Ahead(a) \cup Ahead(s)
  <2> SUFFICES ASSUME NEW i \in DOMAIN c PROVE c[i] \in Ahead(a) \cup Ahead(s)
    BY DEF Ahead
  <2> QED
    BY <1>2, <1>4 DEF Ahead
<1>7. Ahead(a) \subseteq Ahead(c)
  BY <1>2 DEF Ahead
<1>8. Ahead(s) \subseteq Ahead(c)
  <2> SUFFICES ASSUME NEW i \in DOMAIN s PROVE s[i] \in Ahead(c)
    BY DEF Ahead
  <2>1. i + Len(a) \in DOMAIN c /\ c[i + Len(a)] = s[i]
    BY <1>1
  <2> QED
    BY <2>1 DEF Ahead
<1> QED
  BY <1>1, <1>5, <1>6, <1>7, <1>8

\* A child is killed within its sweep.
LEMMA KillInPlace ==
  ASSUME NEW s \in Seq(Call), s # <<>>, Head(s) = "sweep", InPlace(s)
  PROVE  /\ <<"kill">> \o s \in Seq(Call) /\ InPlace(<<"kill">> \o s) /\ Ahead(<<"kill">> \o s) = {"kill"} \cup Ahead(s)
<1>0. <<"kill">> \in Seq(Call) /\ Len(<<"kill">>) = 1 /\ <<"kill">>[1] = "kill"
  BY DEF Call
<1> PICK c : c = <<"kill">> \o s
  OBVIOUS
<1>1. /\ c \in Seq(Call) /\ Len(s) \in Nat \ {0} /\ DOMAIN s = 1..Len(s) /\ DOMAIN c = 1..(Len(s) + 1)
      /\ c[1] = "kill" /\ \A i \in 1..Len(s) : c[i + 1] = s[i]
      /\ s[1] = "sweep"
  BY <1>0, ConcatProperties, LenProperties, EmptySeq, HeadTailProperties
<1>2. \A i \in DOMAIN c : i # 1 => i - 1 \in DOMAIN s /\ c[i] = s[i - 1]
  BY <1>1
<1>3. Ahead(c) = {"kill"} \cup Ahead(s)
  <2>1. \A i \in DOMAIN s : i + 1 \in DOMAIN c /\ c[i + 1] = s[i]
    BY <1>1
  <2>2. Ahead(s) \subseteq Ahead(c)
    BY <2>1 DEF Ahead
  <2>3. "kill" \in Ahead(c)
    BY <1>1 DEF Ahead
  <2>4. Ahead(c) \subseteq {"kill"} \cup Ahead(s)
    BY <1>1, <1>2 DEF Ahead
  <2> QED
    BY <2>2, <2>3, <2>4
<1>4. \A i \in DOMAIN s : s[i] \notin Placed \ {"close"}
  BY <1>1 DEF InPlace, Placed
<1>5. InPlace(c)
  <2> SUFFICES ASSUME NEW i \in DOMAIN c, i # 1
      PROVE /\ c[i] \notin Placed \ {"close"}
            /\ c[i] = "close" => \A j \in 1..(i - 1) : c[j] \in {"kill", "sweep"}
    BY <1>1 DEF InPlace, Placed
  <2>1. ASSUME c[i] = "close", NEW j \in 1..(i - 1) PROVE c[j] \in {"kill", "sweep"}
    <3>1. CASE j = 1
      BY <3>1, <1>1
    <3>2. CASE j # 1
      <4>1. j - 1 \in 1..((i - 1) - 1) /\ c[j] = s[j - 1] /\ i - 1 \in DOMAIN s /\ s[i - 1] = "close"
        BY <3>2, <1>1, <1>2, <2>1
      <4> QED
        BY <4>1 DEF InPlace
    <3> QED
      BY <3>1, <3>2
  <2> QED
    BY <1>2, <1>4, <2>1
<1> QED
  BY <1>1, <1>3, <1>5

\* Nothing of the making of a repair is left behind its first three calls.
LEMMA RestUnplaced ==
  ASSUME NEW s \in Seq(Call), s # <<>>, InPlace(s), Head(s) = "create", NEW m \in {4, 5}
  PROVE  /\ SubSeq(s, m, Len(s)) \in Seq(Call) /\ Ahead(SubSeq(s, m, Len(s))) \subseteq Ahead(s)
         /\ Ahead(SubSeq(s, m, Len(s))) \cap Placed = {}
         /\ Sourced(s) /\ ("source" \in Ahead(s) => m = 5) => "source" \notin Ahead(SubSeq(s, m, Len(s)))
<1>1. Len(s) \in Nat \ {0} /\ DOMAIN s = 1..Len(s) /\ s[1] = "create"
  BY EmptySeq, LenProperties, HeadTailProperties
<1> PICK c : c = SubSeq(s, m, Len(s))
  OBVIOUS
<1>2. /\ c \in Seq(Call) /\ Len(c) = IF m <= Len(s) THEN Len(s) - m + 1 ELSE 0
      /\ \A i \in 1..(Len(s) - m + 1) : c[i] = s[m + i - 1]
  <2>1. \A i \in m..Len(s) : s[i] \in Call
    BY <1>1, ElementOfSeq
  <2> QED
    BY <1>1, <2>1, SubSeqProperties
<1>3. \A i \in DOMAIN c : m + i - 1 \in DOMAIN s /\ c[i] = s[m + i - 1] /\ m + i - 1 >= 4
  BY <1>1, <1>2, LenProperties
<1>4. \A i \in DOMAIN c : c[i] \notin Placed
  <2> SUFFICES ASSUME NEW i \in DOMAIN c PROVE s[m + i - 1] \notin Placed
    BY <1>3
  <2> PICK k : k = m + i - 1
    OBVIOUS
  <2>1. k \in DOMAIN s /\ k >= 4 /\ 1 \in 1..(k - 1) /\ k \in Nat
    BY <1>3, <1>1
  <2>2. s[k] # "close"
    BY <2>1, <1>1 DEF InPlace
  <2> QED
    BY <2>1, <2>2 DEF InPlace, Placed
<1>5. ASSUME Sourced(s), "source" \in Ahead(s) => m = 5 PROVE "source" \notin Ahead(c)
  <2> SUFFICES ASSUME NEW i \in DOMAIN c, c[i] = "source" PROVE FALSE
    BY DEF Ahead
  <2> PICK k : k = m + i - 1
    OBVIOUS
  <2>1. k \in DOMAIN s /\ s[k] = "source" /\ k \in Nat /\ k >= 4
    BY <1>1, <1>3
  <2>2. m = 5
    BY <2>1, <1>5 DEF Ahead
  <2>3. k >= 5
    BY <1>1, <1>2, <2>2, LenProperties
  <2>4. k - 1 \in DOMAIN s /\ s[k - 1] = "root"
    BY <1>1, <1>5, <2>1, <2>3 DEF Sourced
  <2> QED
    BY <2>3, <2>4, <1>1 DEF InPlace
<1> QED
  BY <1>2, <1>3, <1>4, <1>5 DEF Ahead

\* The lists of calls that requests begin with or put before others.
LEMMA KnownCalls ==
  /\ \A c \in Call : <<c>> \in Seq(Call) /\ <<c>> # <<>> /\ Head(<<c>>) = c /\ InPlace(<<c>>) /\ Ahead(<<c>>) = {c}
  /\ \A c \in Call, d \in Call \ Placed :
       /\ <<c, d>> \in Seq(Call) /\ <<c, d>> # <<>> /\ Head(<<c, d>>) = c /\ InPlace(<<c, d>>)
       /\ Ahead(<<c, d>>) = {c, d}
  /\ <<>> \in Seq(Call) /\ InPlace(<<>>) /\ Ahead(<<>>) = {}
  /\ LET s == <<"sweep", "close", "wake", "mark">> IN
       s \in Seq(Call) /\ s # <<>> /\ Head(s) = "sweep" /\ InPlace(s) /\ Ahead(s) = {"sweep", "close", "wake", "mark"}
  /\ LET s == <<"reconcile", "redo", "clean">> IN
       s \in Seq(Call) /\ s # <<>> /\ Head(s) = "reconcile" /\ InPlace(s) /\ Ahead(s) = {"reconcile", "redo", "clean"}
<1>1. ASSUME NEW c \in Call
      PROVE  <<c>> \in Seq(Call) /\ <<c>> # <<>> /\ Head(<<c>>) = c /\ InPlace(<<c>>) /\ Ahead(<<c>>) = {c}
  <2>1. DOMAIN <<c>> = {1} /\ <<c>>[1] = c /\ <<c>> \in Seq(Call) /\ <<c>> # <<>> /\ Head(<<c>>) = c
    OBVIOUS
  <2> QED
    BY <2>1 DEF InPlace, Ahead
<1>2. ASSUME NEW c \in Call, NEW d \in Call \ Placed
      PROVE  /\ <<c, d>> \in Seq(Call) /\ <<c, d>> # <<>> /\ Head(<<c, d>>) = c /\ InPlace(<<c, d>>)
             /\ Ahead(<<c, d>>) = {c, d}
  <2>1. /\ DOMAIN <<c, d>> = {1, 2} /\ <<c, d>>[1] = c /\ <<c, d>>[2] = d
        /\ <<c, d>> \in Seq(Call) /\ <<c, d>> # <<>> /\ Head(<<c, d>>) = c
    OBVIOUS
  <2> QED
    BY <2>1 DEF InPlace, Ahead, Placed
<1>3. <<>> \in Seq(Call) /\ InPlace(<<>>) /\ Ahead(<<>>) = {}
  <2>1. <<>> \in Seq(Call) /\ DOMAIN <<>> = {}
    BY EmptySeq, LenProperties
  <2> QED
    BY <2>1 DEF InPlace, Ahead
<1>4. LET s == <<"sweep", "close", "wake", "mark">> IN
       s \in Seq(Call) /\ s # <<>> /\ Head(s) = "sweep" /\ InPlace(s) /\ Ahead(s) = {"sweep", "close", "wake", "mark"}
  <2> PICK s : s = <<"sweep", "close", "wake", "mark">>
    OBVIOUS
  <2>1. /\ DOMAIN s = 1..4 /\ s[1] = "sweep" /\ s[2] = "close" /\ s[3] = "wake" /\ s[4] = "mark"
        /\ s \in Seq(Call) /\ s # <<>> /\ Head(s) = "sweep"
    BY DEF Call
  <2>2. InPlace(s) /\ Ahead(s) = {"sweep", "close", "wake", "mark"}
    BY <2>1 DEF InPlace, Ahead
  <2> QED
    BY <2>1, <2>2
<1>5. LET s == <<"reconcile", "redo", "clean">> IN
       s \in Seq(Call) /\ s # <<>> /\ Head(s) = "reconcile" /\ InPlace(s) /\ Ahead(s) = {"reconcile", "redo", "clean"}
  <2> PICK s : s = <<"reconcile", "redo", "clean">>
    OBVIOUS
  <2>1. /\ DOMAIN s = 1..3 /\ s[1] = "reconcile" /\ s[2] = "redo" /\ s[3] = "clean"
        /\ s \in Seq(Call) /\ s # <<>> /\ Head(s) = "reconcile"
    BY DEF Call
  <2>2. InPlace(s) /\ Ahead(s) = {"reconcile", "redo", "clean"}
    BY <2>1 DEF InPlace, Ahead
  <2> QED
    BY <2>1, <2>2
<1> QED
  BY <1>1, <1>2, <1>3, <1>4, <1>5

\* Calls put before others come first.
LEMMA HeadOfCalls ==
  ASSUME NEW a \in Seq(Call), NEW s \in Seq(Call), a # <<>>
  PROVE  a \o s # <<>> /\ Head(a \o s) = Head(a)
<1>1. Len(a) \in Nat \ {0} /\ Len(s) \in Nat /\ a \o s \in Seq(Call) /\ Len(a \o s) = Len(a) + Len(s) /\ (a \o s)[1] = a[1]
  BY EmptySeq, LenProperties, ConcatProperties
<1> QED
  BY <1>1, EmptySeq, HeadTailProperties

\* A mark put after the one on the root.
LEMMA RootBefore ==
  ASSUME NEW a \in Seq(Call), NEW u \in Seq(Call), a # <<>>, a[Len(a)] = "root", "source" \notin Ahead(a),
         \A i \in DOMAIN u : u[i] = "source" => i = 1
  PROVE  Sourced(a \o u)
<1> PICK n : n = Len(a)
  OBVIOUS
<1> PICK w : w = a \o u
  OBVIOUS
<1>1. /\ n \in Nat \ {0} /\ Len(u) \in Nat /\ DOMAIN a = 1..n /\ DOMAIN u = 1..Len(u)
      /\ DOMAIN w = 1..(n + Len(u)) /\ \A i \in 1..(n + Len(u)) : w[i] = IF i <= n THEN a[i] ELSE u[i - n]
  BY EmptySeq, LenProperties, ConcatProperties
<1> SUFFICES ASSUME NEW i \in DOMAIN w, w[i] = "source" PROVE w[i - 1] = "root"
  BY DEF Sourced
<1>2. i \in 1..(n + Len(u)) /\ ~(i <= n)
  BY <1>1 DEF Ahead
<1>3. i - n \in DOMAIN u /\ u[i - n] = "source"
  BY <1>1, <1>2
<1>4. i - n = 1
  BY <1>3
<1>5. i - 1 = n /\ n \in 1..(n + Len(u))
  BY <1>1, <1>2, <1>4
<1> QED
  BY <1>1, <1>5

\* The calls that make a repair, with the mark on its source or without.
LEMMA MakingCalls ==
  ASSUME NEW s \in Seq(Call), Ahead(s) \cap Placed = {}, NEW mid, mid \in {<<>>, <<"source">>}
  PROVE  LET t == <<"publish", "root">> \o mid \o s IN
         /\ t \in Seq(Call) /\ t # <<>> /\ Head(t) = "publish" /\ InPlace(t)
         /\ Ahead(t) \subseteq {"publish", "root", "source"} \cup Ahead(s)
         /\ <<"create">> \o t \in Seq(Call) /\ <<"create">> \o t # <<>> /\ Head(<<"create">> \o t) = "create"
         /\ InPlace(<<"create">> \o t) /\ Ahead(<<"create">> \o t) = {"create"} \cup Ahead(t)
         /\ "source" \notin Ahead(s) =>
              Sourced(t) /\ Sourced(<<"create">> \o t) /\ ("source" \in Ahead(t) => mid = <<"source">>)
<1>1. mid \in Seq(Call) /\ Ahead(mid) \subseteq {"source"} /\ "source" \in Call \ Placed
  <2>1. "source" \in Call \ Placed
    BY DEF Call, Placed
  <2>2. <<"source">> \in Seq(Call) /\ Ahead(<<"source">>) = {"source"}
    BY <2>1, KnownCalls
  <2>3. <<>> \in Seq(Call) /\ Ahead(<<>>) = {}
    BY KnownCalls
  <2>4. CASE mid = <<>>
    BY <2>1, <2>3, <2>4
  <2>5. CASE mid = <<"source">>
    BY <2>1, <2>2, <2>5
  <2> QED
    BY <2>4, <2>5
<1> PICK u : u = mid \o s
  OBVIOUS
<1>2. u \in Seq(Call) /\ Ahead(u) = Ahead(mid) \cup Ahead(s) /\ Ahead(u) \cap Placed = {}
  <2>1. CASE mid = <<>>
    <3>1. InPlace(<<>>)
      BY KnownCalls
    <3> QED
      BY <1>1, <2>1, <3>1, BeforeInPlace DEF Placed
  <2>2. CASE mid = <<"source">>
    <3>1. InPlace(<<"source">>)
      BY <1>1, KnownCalls
    <3> QED
      BY <1>1, <2>2, <3>1, BeforeInPlace DEF Placed
  <2> QED
    BY <2>1, <2>2
<1> PICK two : two = <<"publish", "root">>
  OBVIOUS
<1>3. DOMAIN two = {1, 2} /\ two[1] = "publish" /\ two[2] = "root" /\ two \in Seq(Call) /\ Len(two) = 2
  BY DEF Call
<1>4. InPlace(two) /\ Ahead(two) = {"publish", "root"}
  BY <1>3 DEF InPlace, Ahead
<1> PICK t : t = two \o mid \o s
  OBVIOUS
<1>5. t = two \o u
  BY <1>1, <1>3, ConcatAssociative
<1>6. t \in Seq(Call) /\ InPlace(t) /\ Ahead(t) = {"publish", "root"} \cup Ahead(u)
  <2>1. u \in Seq(Call) /\ Ahead(u) \cap Placed = {}
    BY <1>1, <1>2
  <2>2. two \o u \in Seq(Call) /\ InPlace(two \o u) /\ Ahead(two \o u) = Ahead(two) \cup Ahead(u)
    BY <2>1, <1>3, <1>4, BeforeInPlace
  <2> QED
    BY <2>2, <1>4, <1>5
<1>7. t # <<>> /\ Head(t) = "publish"
  BY <1>2, <1>3, <1>5, HeadOfCalls
<1> PICK c : c = <<"create">> \o t
  OBVIOUS
<1> PICK three : three = <<"create", "publish", "root">>
  OBVIOUS
<1>9. three \in Seq(Call) /\ DOMAIN three = 1..3 /\ three[1] = "create" /\ three[2] = "publish" /\ three[3] = "root" /\ Len(three) = 3
  BY DEF Call
<1>10. InPlace(three) /\ Ahead(three) = {"create", "publish", "root"}
  BY <1>9 DEF InPlace, Ahead
<1>11. <<"create">> \in Seq(Call) /\ Len(<<"create">>) = 1 /\ <<"create">>[1] = "create"
  BY DEF Call
<1>12. <<"create">> \o two = three
  <2>1. /\ <<"create">> \o two \in Seq(Call) /\ Len(<<"create">> \o two) = 3
        /\ \A i \in 1..3 : (<<"create">> \o two)[i] = IF i <= 1 THEN <<"create">>[i] ELSE two[i - 1]
    BY <1>3, <1>11, ConcatProperties
  <2>2. \A i \in 1..3 : (<<"create">> \o two)[i] = three[i]
    BY <2>1, <1>3, <1>9, <1>11
  <2> QED
    BY <2>1, <2>2, <1>9, SeqEqual
<1>13. c = three \o u
  <2>1. (<<"create">> \o two) \o u = <<"create">> \o (two \o u)
    BY <1>2, <1>3, <1>11, ConcatAssociative
  <2> QED
    BY <2>1, <1>5, <1>12
<1>14. c \in Seq(Call) /\ InPlace(c) /\ Ahead(c) = {"create", "publish", "root"} \cup Ahead(u)
  <2>1. three \o u \in Seq(Call) /\ InPlace(three \o u) /\ Ahead(three \o u) = Ahead(three) \cup Ahead(u)
    BY <1>2, <1>9, <1>10, BeforeInPlace
  <2> QED
    BY <2>1, <1>10, <1>13
<1>15. c # <<>> /\ Head(c) = "create"
  BY <1>2, <1>9, <1>13, HeadOfCalls
<1>17. ASSUME "source" \notin Ahead(s)
       PROVE  Sourced(t) /\ Sourced(c) /\ ("source" \in Ahead(t) => mid = <<"source">>)
  <2>1. \A i \in DOMAIN u : u[i] = "source" => i = 1 /\ mid = <<"source">>
    <3>1. CASE mid = <<>>
      <4>1. "source" \notin Ahead(u)
        <5>1. Ahead(<<>>) = {}
          BY KnownCalls
        <5> QED
          BY <5>1, <3>1, <1>2, <1>17
      <4> QED
        BY <4>1 DEF Ahead
    <3>2. CASE mid = <<"source">>
      <4>1. /\ Len(u) = 1 + Len(s) /\ DOMAIN u = 1..Len(u) /\ Len(s) \in Nat /\ DOMAIN s = 1..Len(s)
            /\ \A i \in 1..(1 + Len(s)) : u[i] = IF i <= 1 THEN mid[i] ELSE s[i - 1]
        <5>1. mid \in Seq(Call) /\ Len(mid) = 1
          BY <1>1, <3>2
        <5>2. /\ mid \o s \in Seq(Call) /\ Len(mid \o s) = Len(mid) + Len(s)
              /\ \A i \in 1..(Len(mid) + Len(s)) : (mid \o s)[i] = IF i <= Len(mid) THEN mid[i] ELSE s[i - Len(mid)]
          BY <5>1, ConcatProperties
        <5>3. Len(s) \in Nat /\ DOMAIN s = 1..Len(s) /\ DOMAIN (mid \o s) = 1..Len(mid \o s)
          BY <5>2, LenProperties
        <5> QED
          BY <5>1, <5>2, <5>3
      <4>2. \A i \in DOMAIN u : i # 1 => i - 1 \in DOMAIN s /\ u[i] = s[i - 1]
        BY <4>1
      <4> QED
        BY <4>2, <3>2, <1>17 DEF Ahead
    <3> QED
      BY <3>1, <3>2
  <2>2. Sourced(t)
    <3>1. two # <<>> /\ two[Len(two)] = "root" /\ "source" \notin Ahead(two)
      BY <1>3, <1>4
    <3>2. Sourced(two \o u)
      BY <1>2, <1>3, <2>1, <3>1, RootBefore
    <3> QED
      BY <3>2, <1>5
  <2>3. Sourced(c)
    BY <1>2, <1>9, <1>10, <1>13, <2>1, RootBefore
  <2>4. "source" \in Ahead(t) => mid = <<"source">>
    BY <1>6, <2>1 DEF Ahead
  <2> QED
    BY <2>2, <2>3, <2>4
<1> QED
  BY <1>1, <1>2, <1>6, <1>7, <1>14, <1>15, <1>17

-----------------------------------------------------------------------------
(* Types.                                                                   *)

TasksTyped == /\ status \in [Task -> Status] /\ review \in [Task -> {"none", "accepted", "rejected"}]
              /\ fixFor \in [Task -> Task \cup {NoTask}]
QueueTyped == queued \subseteq {t \in Task : status[t] = "pending"}
ChainTyped == /\ resolution \in [Task -> Resolution]
              /\ pointer \in [Task -> Task \cup {NoTask}] /\ resolvedBy \in [Task -> Task \cup {NoTask}]
RootTyped == root \in [gen : Task, attempts : Nat, history : SUBSET Task, why : Why,
                       owner : Owner, snapshot : Snapshot]
DoneTyped == applied \subseteq Task /\ candidates \subseteq Task /\ dependent \in {"blocked", "pending"}
RequestsTyped == lock \in [Task -> Owner] /\ req \in [Requests -> Request]
BoundsTyped == /\ limit \in Limits /\ audits \in Nat /\ diverted \in BOOLEAN
               /\ continues \in 0..limit.continues /\ resets \in 0..limit.resets /\ crashes \in 0..limit.crashes

LEMMA TypeParts ==
  TypeOK <=> TasksTyped /\ QueueTyped /\ ChainTyped /\ RootTyped /\ DoneTyped /\ RequestsTyped /\ BoundsTyped
BY DEF TypeOK, TasksTyped, QueueTyped, ChainTyped, RootTyped, DoneTyped, RequestsTyped, BoundsTyped

LEMMA TasksAre == 0 \in Task /\ NoTask \notin Task /\ Task \subseteq Int /\ \A t \in Task : t >= 0 /\ t <= MaxGen
BY BoundAssumption DEF Task, NoTask

LEMMA IdleTyped == NoSnapshot \in Snapshot /\ Idle \in Request /\ Idle.todo = <<>> /\ Idle.kill = {} /\ Idle.by = 0
<1>1. NoSnapshot \in Snapshot
  BY TasksAre DEF NoSnapshot, Snapshot, Resolution, Why
<1>2. <<>> \in Seq(Call)
  BY KnownCalls
<1> QED
  BY <1>1, <1>2, TasksAre DEF Idle, Request, Why

LEMMA SnapTyped ==
  ASSUME RootTyped, ChainTyped, BoundsTyped
  PROVE  /\ Snap \in Snapshot
         /\ Snap.gen = root.gen /\ Snap.attempts = root.attempts /\ Snap.history = root.history
         /\ Snap.resolution = resolution[0]
<1>1. /\ root.gen \in Task /\ root.attempts \in Nat /\ root.history \in SUBSET Task /\ root.why \in Why
      /\ resolution[0] \in Resolution
  BY TasksAre DEF RootTyped, ChainTyped
<1>2. resets \in Nat
  BY BoundAssumption DEF BoundsTyped
<1> QED
  BY <1>1, <1>2 DEF Snap, Snapshot

\* How a request goes on.
LEMMA GoOnMoves ==
  ASSUME RequestsTyped, NEW p \in Requests, NEW r \in Request, NEW calls \in Seq(Call), GoOn(p, r, calls)
  PROVE  /\ RequestsTyped'
         /\ req'[p].todo = calls
         /\ calls # <<>> => /\ req'[p].task = r.task /\ req'[p].by = r.by /\ req'[p].cur = r.cur
                            /\ req'[p].source = r.source /\ req'[p].base = r.base /\ req'[p].kill = r.kill
         /\ calls = <<>> => req'[p] = Idle
         /\ \A q \in Requests : q # p => req'[q] = req[q]
         /\ \A t \in Task : lock'[t] = lock[t] \/ (lock[t] = p /\ lock'[t] = Nobody)
<1>1. lock \in [Task -> Owner] /\ req \in [Requests -> Request] /\ Idle \in Request /\ Idle.todo = <<>> /\ Nobody \in Owner
  BY IdleTyped DEF RequestsTyped, Owner
<1>2. CASE calls = <<>>
  BY <1>1, <1>2 DEF GoOn, RequestsTyped
<1>3. CASE calls # <<>>
  <2> PICK x : x = [r EXCEPT !.todo = calls]
    OBVIOUS
  <2>1. /\ x \in Request /\ x.todo = calls /\ x.task = r.task /\ x.by = r.by /\ x.cur = r.cur /\ x.source = r.source
        /\ x.base = r.base /\ x.kill = r.kill
    BY DEF Request
  <2>2. req' = [req EXCEPT ![p] = x] /\ lock' = lock
    BY <1>3 DEF GoOn
  <2> QED
    BY <1>1, <1>3, <2>1, <2>2 DEF RequestsTyped
<1> QED
  BY <1>2, <1>3

LEMMA StartMoves ==
  ASSUME RequestsTyped, NEW p \in Requests, NEW r \in Request, Start(p, r)
  PROVE  /\ req' \in [Requests -> Request] /\ req[p] = Idle /\ req'[p] = r
         /\ \A q \in Requests : q # p => req'[q] = req[q]
BY DEF RequestsTyped, Start

\* What a request that makes a call has.
LEMMA CallingMoves ==
  ASSUME RequestsTyped, NEW p \in Requests, NEW c, Calling(p, c)
  PROVE  /\ req[p] \in Request /\ req[p].todo \in Seq(Call) /\ req[p].todo # <<>> /\ Head(req[p].todo) = c
         /\ Rest(p) \in Seq(Call) /\ Rest(p) = Tail(req[p].todo)
         /\ c \in Ahead(req[p].todo) /\ Ahead(Rest(p)) \subseteq Ahead(req[p].todo)
<1>1. req[p] \in Request /\ req[p].todo \in Seq(Call) /\ req[p].todo # <<>> /\ Head(req[p].todo) = c
  BY DEF RequestsTyped, Request, Calling
<1> QED
  BY <1>1, TailAhead DEF Rest

-----------------------------------------------------------------------------
(* Requests.                                                                *)

\* The calls that make a repair.
Making == {"create", "publish", "root"}

\* What holds of a request between any two of its calls.
Sound(x) ==
  /\ InPlace(x.todo)
  /\ 0 \notin x.kill /\ 0 \notin x.base.history
  /\ Ahead(x.todo) \cap {"close", "await"} # {} => x.by # 0
  /\ "kill" \in Ahead(x.todo) => x.cur # 0
AllSound == \A p \in Requests : Sound(req[p])

\* The root is not its own repair.
RootSound == pointer[0] # 0 /\ 0 \notin root.history /\ fixFor[0] = NoTask

\* Request p goes on, with these calls at most.
StepsTo(p, S) ==
  /\ RequestsTyped' /\ \A q \in Requests : q # p => req'[q] = req[q]
  /\ Sound(req'[p]) /\ Ahead(req'[p].todo) \subseteq S

LEMMA IdleSound == Sound(Idle) /\ Ahead(Idle.todo) = {}
<1>1. InPlace(<<>>) /\ Ahead(<<>>) = {}
  BY KnownCalls
<1>2. Idle.base.history = {}
  BY DEF Idle, NoSnapshot
<1> QED
  BY <1>1, <1>2, IdleTyped DEF Sound

LEMMA MakingIsFirst ==
  ASSUME NEW s \in Seq(Call), s # <<>>, InPlace(s)
  PROVE  /\ Head(s) \notin Making => Ahead(s) \cap Making = {}
         /\ Head(s) \notin {"create", "publish"} => Ahead(Tail(s)) \cap Making = {}
<1>1. Len(s) \in Nat \ {0} /\ DOMAIN s = 1..Len(s) /\ Head(s) = s[1]
  BY EmptySeq, LenProperties, HeadTailProperties
<1>2. Head(s) \notin Making => Ahead(s) \cap Making = {}
  <2> SUFFICES ASSUME s[1] \notin Making, NEW i \in DOMAIN s PROVE s[i] \notin Making
    BY <1>1 DEF Ahead
  <2> QED
    BY <1>1 DEF InPlace, Making
<1>3. CASE Head(s) = "root"
  <2>1. Ahead(Tail(s)) \cap Placed = {}
    BY <1>3, NothingPlaced
  <2> QED
    BY <2>1, <1>2, <1>3 DEF Making, Placed
<1>4. CASE Head(s) \notin Making
  BY <1>2, <1>4, TailAhead
<1>5. CASE Head(s) \in {"create", "publish"}
  BY <1>5 DEF Making
<1> QED
  BY <1>3, <1>4, <1>5 DEF Making

\* The calls after the first one.
LEMMA RestMoves ==
  ASSUME RequestsTyped, NEW p \in Requests, NEW c, Calling(p, c), Sound(req[p])
  PROVE  /\ InPlace(Rest(p)) /\ Ahead(Rest(p)) \subseteq Ahead(req[p].todo) /\ Rest(p) \in Seq(Call)
         /\ Ahead(Rest(p)) \cap {"create", "await", "kill"} = {}
         /\ c \notin {"create", "publish"} => Ahead(Rest(p)) \cap Making = {}
         /\ c \notin {"create", "publish", "kill", "sweep"} => Ahead(Rest(p)) \cap Placed = {}
         /\ Rest(p) # <<>> /\ Head(Rest(p)) \in {"publish", "root"} => c \in {"create", "publish"}
<1>1. /\ req[p] \in Request /\ req[p].todo \in Seq(Call) /\ req[p].todo # <<>> /\ Head(req[p].todo) = c
      /\ Rest(p) = Tail(req[p].todo) /\ Ahead(Rest(p)) \subseteq Ahead(req[p].todo) /\ Rest(p) \in Seq(Call)
  BY CallingMoves
<1>2. InPlace(req[p].todo)
  BY DEF Sound
<1>3. InPlace(Rest(p)) /\ Ahead(Rest(p)) \cap {"create", "await", "kill"} = {}
      /\ (Rest(p) # <<>> /\ Head(Rest(p)) \in {"publish", "root"} => c \in {"create", "publish"})
  BY <1>1, <1>2, TailInPlace
<1>4. c \notin {"create", "publish"} => Ahead(Rest(p)) \cap Making = {}
  BY <1>1, <1>2, MakingIsFirst
<1>5. c \notin {"create", "publish", "kill", "sweep"} => Ahead(Rest(p)) \cap Placed = {}
  BY <1>1, <1>2, NothingPlaced
<1> QED
  BY <1>1, <1>3, <1>4, <1>5

\* A request that goes on with the calls it has left.
LEMMA ReturnSound ==
  ASSUME RequestsTyped, NEW p \in Requests, NEW c, Calling(p, c), Sound(req[p]),
         NEW r \in Request, 0 \notin r.kill, 0 \notin r.base.history,
         c \in {"create", "publish", "kill", "sweep"} => r.by = req[p].by,
         GoOn(p, r, Rest(p))
  PROVE  StepsTo(p, Ahead(Rest(p)))
<1>1. /\ InPlace(Rest(p)) /\ Ahead(Rest(p)) \subseteq Ahead(req[p].todo) /\ Rest(p) \in Seq(Call)
      /\ Ahead(Rest(p)) \cap {"create", "await", "kill"} = {}
      /\ c \notin {"create", "publish", "kill", "sweep"} => Ahead(Rest(p)) \cap Placed = {}
  BY RestMoves
<1>2. /\ RequestsTyped' /\ req'[p].todo = Rest(p)
      /\ Rest(p) # <<>> => /\ req'[p].by = r.by /\ req'[p].cur = r.cur
                           /\ req'[p].base = r.base /\ req'[p].kill = r.kill
      /\ Rest(p) = <<>> => req'[p] = Idle
      /\ \A q \in Requests : q # p => req'[q] = req[q]
  BY <1>1, GoOnMoves
<1>3. CASE Rest(p) = <<>>
  BY <1>2, <1>3, IdleSound DEF StepsTo
<1>4. CASE Rest(p) # <<>>
  <2>1. Ahead(Rest(p)) \cap {"close", "await"} # {} => r.by # 0
    BY <1>1 DEF Sound, Placed
  <2>2. Sound(req'[p])
    BY <1>1, <1>2, <1>4, <2>1 DEF Sound
  <2> QED
    BY <1>2, <2>2 DEF StepsTo
<1> QED
  BY <1>3, <1>4

\* A request that goes on with these calls.
LEMMA GoOnSound ==
  ASSUME RequestsTyped, NEW p \in Requests, NEW r \in Request, 0 \notin r.kill, 0 \notin r.base.history,
         NEW s \in Seq(Call), s # <<>>, InPlace(s),
         Ahead(s) \cap {"close", "await"} # {} => r.by # 0, "kill" \in Ahead(s) => r.cur # 0,
         GoOn(p, r, s)
  PROVE  StepsTo(p, Ahead(s))
<1>1. /\ RequestsTyped' /\ req'[p].todo = s
      /\ req'[p].by = r.by /\ req'[p].cur = r.cur /\ req'[p].base = r.base /\ req'[p].kill = r.kill
      /\ \A q \in Requests : q # p => req'[q] = req[q]
  BY GoOnMoves
<1>2. Sound(req'[p])
  BY <1>1 DEF Sound
<1> QED
  BY <1>1, <1>2 DEF StepsTo

\* A request that does something else first.
LEMMA PrependSound ==
  ASSUME RequestsTyped, NEW p \in Requests, NEW c, Calling(p, c), Sound(req[p]),
         c \notin {"create", "publish", "kill", "sweep"},
         NEW r \in Request, 0 \notin r.kill, 0 \notin r.base.history,
         NEW a \in Seq(Call), a # <<>>, InPlace(a), "kill" \notin Ahead(a),
         Ahead(a) \cap {"close", "await"} # {} => r.by # 0,
         NEW s, s = a \o Rest(p), GoOn(p, r, s)
  PROVE  StepsTo(p, Ahead(a) \cup Ahead(Rest(p)))
<1>1. InPlace(Rest(p)) /\ Rest(p) \in Seq(Call) /\ Ahead(Rest(p)) \cap Placed = {}
  BY RestMoves
<1>2. a \o Rest(p) \in Seq(Call) /\ InPlace(a \o Rest(p)) /\ Ahead(a \o Rest(p)) = Ahead(a) \cup Ahead(Rest(p))
  BY <1>1, BeforeInPlace
<1>3. a \o Rest(p) # <<>>
  BY <1>1, HeadOfCalls
<1>4. s \in Seq(Call) /\ s # <<>> /\ InPlace(s) /\ Ahead(s) = Ahead(a) \cup Ahead(Rest(p))
  BY <1>2, <1>3
<1>5. (Ahead(s) \cap {"close", "await"} # {} => r.by # 0) /\ "kill" \notin Ahead(s)
  BY <1>1, <1>4 DEF Placed
<1>6. StepsTo(p, Ahead(s))
  BY <1>4, <1>5, GoOnSound
<1> QED
  BY <1>4, <1>6

\* A request that drops the calls it had.
LEMMA ReplaceSound ==
  ASSUME RequestsTyped, NEW p \in Requests, NEW r \in Request, 0 \notin r.kill, 0 \notin r.base.history,
         NEW a \in Seq(Call), InPlace(a), Ahead(a) \cap {"close", "await", "kill"} = {},
         GoOn(p, r, a)
  PROVE  StepsTo(p, Ahead(a))
<1>1. /\ RequestsTyped' /\ req'[p].todo = a
      /\ a # <<>> => req'[p].base = r.base /\ req'[p].kill = r.kill
      /\ a = <<>> => req'[p] = Idle
      /\ \A q \in Requests : q # p => req'[q] = req[q]
  BY GoOnMoves
<1>2. CASE a = <<>>
  BY <1>1, <1>2, IdleSound DEF StepsTo
<1>3. CASE a # <<>>
  <2>1. Sound(req'[p])
    BY <1>1, <1>3 DEF Sound
  <2> QED
    BY <1>1, <2>1 DEF StepsTo
<1> QED
  BY <1>2, <1>3

\* A request that begins.
LEMMA StartSound ==
  ASSUME RequestsTyped, NEW p \in Requests, NEW r \in Request, 0 \notin r.kill, 0 \notin r.base.history,
         InPlace(r.todo), "kill" \notin Ahead(r.todo), Ahead(r.todo) \cap {"close", "await"} # {} => r.by # 0,
         Start(p, r), lock' \in [Task -> Owner]
  PROVE  StepsTo(p, Ahead(r.todo)) /\ req[p] = Idle /\ req'[p] = r
<1>1. /\ req' \in [Requests -> Request] /\ req[p] = Idle /\ req'[p] = r
      /\ \A q \in Requests : q # p => req'[q] = req[q]
  BY StartMoves
<1>2. Sound(r)
  BY DEF Sound
<1> QED
  BY <1>1, <1>2 DEF StepsTo, RequestsTyped

\* What every step of a request begins from.
ChainSound == TypeOK /\ AllSound /\ RootSound

\* The request that makes its next call.
LEMMA CallerMoves ==
  ASSUME ChainSound, NEW p \in Requests
  PROVE  /\ RequestsTyped /\ Sound(req[p]) /\ req[p] \in Request
         /\ 0 \notin req[p].kill /\ 0 \notin req[p].base.history
         /\ req[p].by \in Task /\ req[p].cur \in Task /\ req[p].task \in Task /\ req[p].source \in Task
         /\ req[p].kill \subseteq Task /\ req[p].base \in Snapshot /\ req[p].todo \in Seq(Call) /\ req[p].why \in Why
<1>1. RequestsTyped /\ Sound(req[p])
  BY TypeParts DEF ChainSound, AllSound
<1>2. req[p] \in Request
  BY <1>1 DEF RequestsTyped
<1> QED
  BY <1>1, <1>2 DEF Sound, Request

LEMMA RootMoves ==
  ASSUME ChainSound
  PROVE  /\ TasksTyped /\ ChainTyped /\ RootTyped /\ BoundsTyped /\ Children \subseteq Task /\ 0 \notin Children
         /\ pointer[0] \in Task \cup {NoTask} /\ pointer[0] # 0 /\ 0 \notin root.history
         /\ fixFor[0] = NoTask /\ root.gen \in Task /\ root.attempts \in Nat /\ root.history \subseteq Task
         /\ Snap \in Snapshot /\ 0 \notin Snap.history
<1>1. TasksTyped /\ ChainTyped /\ RootTyped /\ BoundsTyped
  BY TypeParts DEF ChainSound
<1>2. pointer[0] \in Task \cup {NoTask} /\ root.gen \in Task /\ root.attempts \in Nat /\ root.history \subseteq Task
  BY <1>1, TasksAre DEF ChainTyped, RootTyped
<1>3. pointer[0] # 0 /\ 0 \notin root.history /\ fixFor[0] = NoTask
  BY DEF ChainSound, RootSound
<1>4. Children \subseteq Task /\ 0 \notin Children
  BY <1>2, <1>3 DEF Children
<1>5. Snap \in Snapshot /\ Snap.history = root.history
  BY <1>1, SnapTyped
<1> QED
  BY <1>1, <1>2, <1>3, <1>4, <1>5

\* ensureRepairTask makes a repair only while none is at work for the root.
LEMMA EnsureMoves ==
  ASSUME ChainSound, NEW p \in Requests, Ensure(p)
  PROVE  /\ \E S : StepsTo(p, S) /\ S \subseteq {"await", "needs", "create", "publish", "root", "source"} \cup Ahead(Rest(p))
         /\ \/ Ahead(req'[p].todo) \cap Making = {} /\ Ahead(req'[p].todo) \subseteq {"await", "needs"} \cup Ahead(Rest(p))
            \/ /\ pointer[0] = NoTask \/ status[pointer[0]] \notin {"pending", "running"}
               /\ "source" \notin Ahead(Rest(p)) =>
                    Sourced(req'[p].todo) /\ ("source" \in Ahead(req'[p].todo) => req'[p].source # 0)
               /\ ~LimitReached(p)
               /\ root.gen + 1 \in Task /\ req'[p].cur = root.gen + 1 /\ req'[p].base = Snap
               /\ req'[p].todo # <<>>
               /\ \/ Head(req'[p].todo) = "create" /\ status[root.gen + 1] = "absent"
                  \/ Head(req'[p].todo) = "publish" /\ status[root.gen + 1] # "absent"
<1>1. /\ RequestsTyped /\ Sound(req[p]) /\ req[p] \in Request /\ 0 \notin req[p].kill /\ 0 \notin req[p].base.history
      /\ req[p].source \in Task /\ req[p].task \in Task /\ req[p].by \in Task
  BY CallerMoves
<1>2. /\ pointer[0] \in Task \cup {NoTask} /\ pointer[0] # 0 /\ Snap \in Snapshot /\ 0 \notin Snap.history
      /\ root.gen \in Task /\ TasksTyped
  BY RootMoves
<1>3. Calling(p, "ensure") /\ "ensure" \notin Making /\ "ensure" \notin {"create", "publish", "kill", "sweep"}
  BY DEF Ensure, Making
<1>4. Rest(p) \in Seq(Call) /\ Ahead(Rest(p)) \cap Making = {} /\ Ahead(Rest(p)) \cap Placed = {}
  BY <1>1, <1>3, RestMoves
<1>5. \A x \in Request, s \in Seq(Call) :
        s # <<>> /\ GoOn(p, x, s) =>
          req'[p].todo = s /\ req'[p].cur = x.cur /\ req'[p].base = x.base /\ req'[p].source = x.source
  BY <1>1, GoOnMoves
<1> PICK r : r = req[p]
  OBVIOUS
<1> PICK none : none = [r EXCEPT !.cur = 0, !.source = 0]
  OBVIOUS
<1> PICK cur : cur = pointer[0]
  OBVIOUS
<1>12. none \in Request /\ none.kill = r.kill /\ none.base = r.base
  BY <1>1, TasksAre DEF Request
<1>6. CASE \E x \in Request : GoOn(p, x, Rest(p)) /\ x.kill = r.kill /\ x.base = r.base
  <2>1. PICK x \in Request : GoOn(p, x, Rest(p)) /\ x.kill = r.kill /\ x.base = r.base
    BY <1>6
  <2>2. StepsTo(p, Ahead(Rest(p)))
    BY <1>1, <1>3, <2>1, ReturnSound
  <2> QED
    BY <1>4, <2>2 DEF StepsTo
<1>7. CASE \E a \in {<<"await">>, <<"needs">>}, x \in Request :
             /\ GoOn(p, x, a \o Rest(p)) /\ x.kill = r.kill /\ x.base = r.base /\ (a = <<"await">> => x.by # 0)
  <2> PICK a \in {<<"await">>, <<"needs">>}, x \in Request :
             /\ GoOn(p, x, a \o Rest(p)) /\ x.kill = r.kill /\ x.base = r.base /\ (a = <<"await">> => x.by # 0)
    BY <1>7
  <2>1. "await" \in Call /\ "needs" \in Call
    BY DEF Call
  <2>2. a \in Seq(Call) /\ a # <<>> /\ InPlace(a) /\ Ahead(a) \subseteq {"await", "needs"} /\ (Ahead(a) \cap {"close", "await"} # {} => a = <<"await">>)
    <3>1. CASE a = <<"await">>
      BY <2>1, <3>1, KnownCalls
    <3>2. CASE a = <<"needs">>
      BY <2>1, <3>2, KnownCalls
    <3> QED
      BY <3>1, <3>2
  <2> PICK s : s = a \o Rest(p)
    OBVIOUS
  <2>3. StepsTo(p, Ahead(a) \cup Ahead(Rest(p)))
    BY <1>1, <1>3, <2>2, PrependSound
  <2>4. Ahead(req'[p].todo) \cap Making = {} /\ Ahead(req'[p].todo) \subseteq {"await", "needs"} \cup Ahead(Rest(p))
    BY <1>4, <2>2, <2>3 DEF StepsTo, Making
  <2> QED
    BY <2>2, <2>3, <2>4
<1> PICK g : g = root.gen + 1
  OBVIOUS
<1> PICK mid : mid = IF r.source = 0 THEN <<>> ELSE <<"source">>
  OBVIOUS
<1> PICK publish : publish = <<"publish", "root">> \o mid \o Rest(p)
  OBVIOUS
<1> PICK made : made = [Idle EXCEPT !.task = r.task, !.by = r.by, !.source = r.source, !.cur = g,
                                    !.base = Snap, !.awaiting = g \in Task /\ Awaiting(g)]
  OBVIOUS
<1> DEFINE Make ==
         /\ cur = NoTask \/ ~Active(cur) \/ Awaiting(cur)
         /\ ~LimitReached(p) /\ g <= MaxGen
         /\ \/ status[g] = "absent" /\ GoOn(p, made, <<"create">> \o publish)
            \/ status[g] # "absent" /\ GoOn(p, made, publish)
<1> DEFINE Wait ==
         cur # NoTask /\ Awaiting(cur) /\ GoOn(p, [r EXCEPT !.by = cur, !.cur = cur, !.source = 0], <<"await">> \o Rest(p))
<1> DEFINE Ask == \E w \in Why : GoOn(p, [none EXCEPT !.why = w], <<"needs">> \o Rest(p))
<1>8. CASE Make
  <2>1. g \in Task /\ g # 0
    BY <1>2, <1>8, BoundAssumption DEF Task
  <2>2. made \in Request /\ made.kill = {} /\ made.base = Snap /\ made.cur = g /\ made.source = r.source
    BY <1>1, <1>2, <2>1, IdleTyped DEF Request, Awaiting
  <2>3. pointer[0] = NoTask \/ status[pointer[0]] \notin {"pending", "running"}
    BY <1>8 DEF Active, Awaiting
  <2>4. /\ publish \in Seq(Call) /\ publish # <<>> /\ Head(publish) = "publish" /\ InPlace(publish)
        /\ Ahead(publish) \subseteq {"publish", "root", "source"} \cup Ahead(Rest(p))
        /\ <<"create">> \o publish \in Seq(Call) /\ <<"create">> \o publish # <<>> /\ Head(<<"create">> \o publish) = "create"
        /\ InPlace(<<"create">> \o publish) /\ Ahead(<<"create">> \o publish) = {"create"} \cup Ahead(publish)
        /\ "source" \notin Ahead(Rest(p)) =>
             Sourced(publish) /\ Sourced(<<"create">> \o publish) /\ ("source" \in Ahead(publish) => r.source # 0)
    <3>1. mid \in {<<>>, <<"source">>}
      OBVIOUS
    <3>2. mid = <<"source">> => r.source # 0
      <4>1. <<"source">> # <<>>
        OBVIOUS
      <4> QED
        BY <4>1
    <3>3. Rest(p) \in Seq(Call) /\ Ahead(Rest(p)) \cap Placed = {}
      BY <1>4
    <3> HIDE DEF Sourced, InPlace, Ahead
    <3> QED
      BY <3>1, <3>2, <3>3, MakingCalls
  <2>5. PICK s : /\ s \in Seq(Call) /\ s # <<>> /\ InPlace(s) /\ GoOn(p, made, s)
                 /\ Ahead(s) \subseteq {"create", "publish", "root", "source"} \cup Ahead(Rest(p))
                 /\ \/ Head(s) = "create" /\ status[g] = "absent"
                    \/ Head(s) = "publish" /\ status[g] # "absent"
                 /\ "source" \notin Ahead(Rest(p)) => Sourced(s) /\ ("source" \in Ahead(s) => r.source # 0)
    BY <1>8, <2>4
  <2>6. Ahead(s) \cap {"close", "await", "kill"} = {}
    BY <1>4, <2>5 DEF Placed
  <2>7. StepsTo(p, Ahead(s))
    BY <1>1, <1>2, <2>2, <2>5, <2>6, ReplaceSound
  <2>8. req'[p].todo = s /\ req'[p].cur = g /\ req'[p].base = Snap /\ req'[p].source = r.source
    <3>1. RequestsTyped /\ s \in Seq(Call) /\ s # <<>> /\ made \in Request /\ GoOn(p, made, s)
      BY <1>1, <2>2, <2>5
    <3>2. req'[p].todo = s /\ req'[p].cur = made.cur /\ req'[p].base = made.base /\ req'[p].source = made.source
      BY <3>1, <1>5
    <3> QED
      BY <3>2, <2>2
  <2> QED
    BY <1>8, <2>1, <2>3, <2>5, <2>7, <2>8
<1>9. CASE Wait
  <2>1. [r EXCEPT !.by = cur, !.cur = cur, !.source = 0] \in Request
    BY <1>1, <1>2, <1>9, TasksAre DEF Request
  <2>2. PICK x \in Request : GoOn(p, x, <<"await">> \o Rest(p)) /\ x.kill = r.kill /\ x.base = r.base /\ x.by # 0
    BY <1>1, <1>2, <1>9, <2>1 DEF Request
  <2> QED
    BY <1>7, <2>2
<1>10. CASE Ask
  <2> PICK w \in Why : GoOn(p, [none EXCEPT !.why = w], <<"needs">> \o Rest(p))
    BY <1>10
  <2>1. [none EXCEPT !.why = w] \in Request
    BY <1>12 DEF Request
  <2>2. PICK x \in Request : GoOn(p, x, <<"needs">> \o Rest(p)) /\ x.kill = r.kill /\ x.base = r.base
    BY <1>12, <2>1 DEF Request
  <2>3. <<"needs">> # <<"await">>
    OBVIOUS
  <2> QED
    BY <1>7, <2>2, <2>3
<1>11. \/ GoOn(p, none, Rest(p)) \/ (GoOn(p, [r EXCEPT !.cur = cur, !.source = 0], Rest(p)) /\ cur # NoTask) \/ Wait \/ Ask \/ Make
  <2>1. "retry_limit" \in Why /\ "collision" \in Why
    BY DEF Why
  <2>2. CASE Terminated
    BY <2>2 DEF Ensure
  <2>3. CASE ~Terminated /\ cur # NoTask /\ Active(cur) /\ ~(Override(p) /\ root.owner # Nobody /\ cur # NoTask /\ Awaiting(cur))
    BY <2>3, Zenon DEF Ensure
  <2>4. CASE ~Terminated /\ ~(cur # NoTask /\ Active(cur) /\ ~(Override(p) /\ root.owner # Nobody /\ cur # NoTask /\ Awaiting(cur)))
    <3>1. /\ LimitReached(p) => GoOn(p, [none EXCEPT !.why = "retry_limit"], <<"needs">> \o Rest(p))
          /\ ~LimitReached(p) /\ g > MaxGen => GoOn(p, none, Rest(p))
          /\ ~LimitReached(p) /\ ~(g > MaxGen) /\ status[g] = "absent" => GoOn(p, made, <<"create">> \o publish)
          /\ ~LimitReached(p) /\ ~(g > MaxGen) /\ status[g] # "absent" /\ SameRepair(g, r.source) => GoOn(p, made, publish)
          /\ ~LimitReached(p) /\ ~(g > MaxGen) /\ status[g] # "absent" /\ ~SameRepair(g, r.source)
               => GoOn(p, [none EXCEPT !.why = "collision"], <<"needs">> \o Rest(p))
      BY <2>4, Zenon DEF Ensure
    <3>2. ~(g > MaxGen) => g <= MaxGen
      BY <1>2, BoundAssumption DEF Task
    <3> QED
      BY <2>1, <2>4, <3>1, <3>2
  <2> QED
    BY <2>2, <2>3, <2>4
<1> QED
  <2>1. CASE GoOn(p, none, Rest(p))
    BY <2>1, <1>6, <1>12
  <2>5. CASE GoOn(p, [r EXCEPT !.cur = cur, !.source = 0], Rest(p)) /\ cur # NoTask
    <3> PICK x : x = [r EXCEPT !.cur = cur, !.source = 0]
      OBVIOUS
    <3>1. x \in Request /\ x.kill = r.kill /\ x.base = r.base
      BY <1>1, <1>2, <2>5, TasksAre DEF Request
    <3> QED
      BY <2>5, <3>1, <1>6
  <2>2. CASE Wait
    BY <2>2, <1>9
  <2>3. CASE Ask
    BY <2>3, <1>10
  <2>4. CASE Make
    BY <2>4, <1>8
  <2> QED
    BY <1>11, <2>1, <2>2, <2>3, <2>4, <2>5

\* Calls that only take their own from what a request has ahead.
Follow(p) == \/ PublishRepair(p) \/ WriteRoot(p) \/ WriteSource(p) \/ AskPm(p) \/ KillChild(p) \/ Wake(p) \/ MarkApplied(p)
              \/ CancelCommit(p) \/ Audit(p) \/ Clear(p) \/ CleanCandidate(p)

LEMMA ReturnsMove ==
  ASSUME ChainSound, NEW p \in Requests, Follow(p)
  PROVE  StepsTo(p, Ahead(Rest(p)))
<1>1. /\ RequestsTyped /\ Sound(req[p]) /\ req[p] \in Request /\ 0 \notin req[p].kill /\ 0 \notin req[p].base.history
      /\ NoSnapshot \in Snapshot /\ 0 \notin NoSnapshot.history
  BY CallerMoves, IdleTyped DEF NoSnapshot
<1>2. ASSUME NEW c, Calling(p, c), NEW x \in Request, GoOn(p, x, Rest(p)), x.kill = req[p].kill,
             x.base = req[p].base \/ x.base = NoSnapshot, x.by = req[p].by \/ c \notin {"create", "publish", "kill", "sweep"}
      PROVE  StepsTo(p, Ahead(Rest(p)))
  BY <1>1, <1>2, ReturnSound
<1>3. ASSUME NEW c, Calling(p, c), Return(p) PROVE StepsTo(p, Ahead(Rest(p)))
  BY <1>1, <1>2, <1>3 DEF Return
<1>4. CASE PublishRepair(p) \/ KillChild(p) \/ Wake(p) \/ CancelCommit(p) \/ Clear(p) \/ CleanCandidate(p)
  <2>1. \E c : Calling(p, c) /\ Return(p)
    BY <1>4 DEF PublishRepair, KillChild, Wake, CancelCommit, Clear, CleanCandidate
  <2> QED
    BY <2>1, <1>3
<1> PICK r : r = req[p]
  OBVIOUS
<1>5. CASE WriteRoot(p)
  <2>1. [r EXCEPT !.base = NoSnapshot] \in Request
    BY <1>1 DEF Request
  <2>2. PICK x \in Request : GoOn(p, x, Rest(p)) /\ x.kill = r.kill /\ x.base = NoSnapshot /\ x.by = r.by
    BY <1>1, <1>5, <2>1 DEF WriteRoot, Request
  <2> QED
    BY <1>2, <1>5, <2>2 DEF WriteRoot
<1>6. CASE WriteSource(p)
  <2>1. [r EXCEPT !.source = 0, !.awaiting = FALSE] \in Request
    BY <1>1, TasksAre DEF Request
  <2>2. PICK x \in Request : GoOn(p, x, Rest(p)) /\ x.kill = r.kill /\ x.base = r.base /\ x.by = r.by
    BY <1>1, <1>6, <2>1 DEF WriteSource, Request
  <2> QED
    BY <1>2, <1>6, <2>2 DEF WriteSource
<1>7. CASE AskPm(p)
  <2>1. [r EXCEPT !.cur = 0, !.why = "none"] \in Request
    BY <1>1, TasksAre DEF Request, Why
  <2>2. PICK x \in Request : GoOn(p, x, Rest(p)) /\ x.kill = r.kill /\ x.base = r.base /\ x.by = r.by
    BY <1>1, <1>7, <2>1 DEF AskPm, Request
  <2> QED
    BY <1>2, <1>7, <2>2 DEF AskPm
<1>8. CASE MarkApplied(p)
  <2>1. [r EXCEPT !.by = 0] \in Request
    BY <1>1, TasksAre DEF Request
  <2>2. PICK x \in Request : GoOn(p, x, Rest(p)) /\ x.kill = r.kill /\ x.base = r.base
    BY <1>1, <1>8, <2>1 DEF MarkApplied, Request
  <2>3. Calling(p, "mark") /\ "mark" \notin {"create", "publish", "kill", "sweep"}
    BY <1>8 DEF MarkApplied
  <2> QED
    BY <1>2, <2>2, <2>3
<1>9. CASE Audit(p)
  <2>1. [r EXCEPT !.cur = 0, !.by = 0] \in Request
    BY <1>1, TasksAre DEF Request
  <2>2. PICK x \in Request : GoOn(p, x, Rest(p)) /\ x.kill = r.kill /\ x.base = r.base
    BY <1>1, <1>9, <2>1 DEF Audit, Request
  <2>3. Calling(p, "audit") /\ "audit" \notin {"create", "publish", "kill", "sweep"}
    BY <1>9 DEF Audit
  <2> QED
    BY <1>2, <2>2, <2>3
<1> QED
  BY <1>4, <1>5, <1>6, <1>7, <1>8, <1>9 DEF Follow

\* A cancel goes on to ask the PM or ends.
LEMMA CheckMoves ==
  ASSUME ChainSound, NEW p \in Requests, Check(p)
  PROVE  \E S \in {{"needs"}, {}} : StepsTo(p, S)
<1>1. /\ RequestsTyped /\ req[p] \in Request /\ 0 \notin req[p].kill /\ 0 \notin req[p].base.history
  BY CallerMoves
<1>2. /\ <<"needs">> \in Seq(Call) /\ InPlace(<<"needs">>) /\ Ahead(<<"needs">>) = {"needs"}
      /\ <<>> \in Seq(Call) /\ InPlace(<<>>) /\ Ahead(<<>>) = {}
  BY KnownCalls DEF Call
<1>3. CASE GoOn(p, req[p], <<"needs">>)
  <2>1. StepsTo(p, {"needs"})
    BY <1>1, <1>2, <1>3, ReplaceSound
  <2> QED
    BY <2>1
<1>4. CASE GoOn(p, req[p], <<>>)
  <2>1. StepsTo(p, {})
    BY <1>1, <1>2, <1>4, ReplaceSound
  <2> QED
    BY <2>1
<1> QED
  BY <1>3, <1>4 DEF Check

\* What is read of the root for the PM is written back next.
LEMMA NeedsMoves ==
  ASSUME ChainSound, NEW p \in Requests, Needs(p)
  PROVE  StepsTo(p, {"decide"} \cup Ahead(Rest(p)))
<1>1. /\ RequestsTyped /\ Sound(req[p]) /\ req[p] \in Request /\ 0 \notin req[p].kill /\ 0 \notin req[p].base.history
  BY CallerMoves
<1>2. PICK t \in Task : GoOn(p, [req[p] EXCEPT !.cur = t], <<"decide">> \o Rest(p))
  BY DEF Needs
<1>3. PICK x \in Request : GoOn(p, x, <<"decide">> \o Rest(p)) /\ x.kill = req[p].kill /\ x.base = req[p].base
  <2>1. [req[p] EXCEPT !.cur = t] \in Request
    BY <1>1 DEF Request
  <2> QED
    BY <1>1, <1>2, <2>1 DEF Request
<1>4. /\ <<"decide">> \in Seq(Call) /\ <<"decide">> # <<>> /\ InPlace(<<"decide">>) /\ Ahead(<<"decide">>) = {"decide"}
  BY KnownCalls DEF Call
<1>5. Calling(p, "needs") /\ "needs" \notin {"create", "publish", "kill", "sweep"}
  BY DEF Needs
<1>6. Ahead(<<"decide">>) \cap {"close", "await", "kill"} = {}
  BY <1>4
<1> PICK s : s = <<"decide">> \o Rest(p)
  OBVIOUS
<1>7. StepsTo(p, Ahead(<<"decide">>) \cup Ahead(Rest(p)))
  BY <1>1, <1>3, <1>4, <1>5, <1>6, PrependSound
<1> QED
  BY <1>4, <1>7

\* Of a request with these calls, the mark on a source has one.
SourceSound(x) == Sourced(x.todo) /\ ("source" \in Ahead(x.todo) => x.source # 0)

\* A request that makes a repair goes on with it.
MakesOn(p) == /\ req'[p].todo = Rest(p)
              /\ req'[p].todo # <<>> => /\ req'[p].cur = req[p].cur /\ req'[p].base = req[p].base
                                        /\ req'[p].source = req[p].source /\ Head(req'[p].todo) # "create"

\* The repair exists: everything is looked at again.
Retries(p, S) ==
  /\ StepsTo(p, S) /\ S \subseteq {"ensure"} \cup Ahead(req[p].todo) /\ S \cap Making = {}
  /\ SourceSound(req[p]) => "source" \notin S

LEMMA CreateMoves ==
  ASSUME ChainSound, NEW p \in Requests, Create(p)
  PROVE  \/ /\ status[req[p].cur] # "absent" /\ UNCHANGED <<status, fixFor>>
            /\ \E S : Retries(p, S)
         \/ /\ status[req[p].cur] = "absent" /\ status' = [status EXCEPT ![req[p].cur] = "pending"]
            /\ fixFor' = [fixFor EXCEPT ![req[p].cur] = req[p].source]
            /\ StepsTo(p, Ahead(Rest(p)))
            /\ MakesOn(p)
<1>1. /\ RequestsTyped /\ Sound(req[p]) /\ req[p] \in Request /\ 0 \notin req[p].kill /\ 0 \notin req[p].base.history
      /\ NoSnapshot \in Snapshot /\ 0 \notin NoSnapshot.history /\ req[p].todo \in Seq(Call)
  BY CallerMoves, IdleTyped DEF NoSnapshot
<1>2. Calling(p, "create") /\ req[p].todo # <<>> /\ Head(req[p].todo) = "create" /\ InPlace(req[p].todo)
  BY <1>1 DEF Create, Calling, Sound
<1>3. CASE status[req[p].cur] # "absent"
  <2> PICK x : x = [req[p] EXCEPT !.cur = 0, !.base = NoSnapshot, !.awaiting = FALSE]
    OBVIOUS
  <2>1. x \in Request /\ x.kill = req[p].kill /\ x.base = NoSnapshot
    BY <1>1, TasksAre DEF Request
  <2> PICK m : m = IF req[p].source = 0 THEN 4 ELSE 5
    OBVIOUS
  <2> PICK s : s = SubSeq(req[p].todo, m, Len(req[p].todo))
    OBVIOUS
  <2>2. /\ s \in Seq(Call) /\ Ahead(s) \subseteq Ahead(req[p].todo) /\ Ahead(s) \cap Placed = {}
        /\ SourceSound(req[p]) => "source" \notin Ahead(s)
    <3>1. m \in {4, 5}
      OBVIOUS
    <3>2. SourceSound(req[p]) => Sourced(req[p].todo) /\ ("source" \in Ahead(req[p].todo) => m = 5)
      BY DEF SourceSound
    <3> QED
      BY <1>1, <1>2, <3>1, <3>2, RestUnplaced
  <2>3. GoOn(p, x, <<"ensure">> \o s) /\ UNCHANGED <<status, fixFor>>
    <3>1. CASE req[p].source = 0
      <4>1. 3 + 1 = m
        BY <3>1
      <4> QED
        BY <1>3, <3>1, <4>1 DEF Create
    <3>2. CASE req[p].source # 0
      <4>1. 4 + 1 = m
        BY <3>2
      <4> QED
        BY <1>3, <3>2, <4>1 DEF Create
    <3> QED
      BY <3>1, <3>2
  <2>4. "ensure" \in Call /\ "ensure" \notin Making /\ "ensure" \notin {"kill", "close", "await"}
    BY DEF Call, Making
  <2>5. <<"ensure">> \in Seq(Call) /\ <<"ensure">> # <<>> /\ InPlace(<<"ensure">>) /\ Ahead(<<"ensure">>) = {"ensure"}
    BY <2>4, KnownCalls
  <2> PICK t : t = <<"ensure">> \o s
    OBVIOUS
  <2>6. t \in Seq(Call) /\ t # <<>> /\ InPlace(t) /\ Ahead(t) = {"ensure"} \cup Ahead(s)
    BY <2>2, <2>5, BeforeInPlace, HeadOfCalls
  <2>7. Ahead(t) \cap {"close", "await", "kill"} = {} /\ Ahead(t) \cap Making = {}
    BY <2>2, <2>4, <2>6 DEF Placed, Making
  <2>8. StepsTo(p, Ahead(t))
    BY <1>1, <2>1, <2>3, <2>6, <2>7, ReplaceSound
  <2>9. Retries(p, Ahead(t))
    BY <2>2, <2>6, <2>7, <2>8 DEF Retries
  <2> QED
    BY <1>3, <2>3, <2>9
<1>4. CASE status[req[p].cur] = "absent"
  <2>1. /\ GoOn(p, req[p], Rest(p)) /\ status' = [status EXCEPT ![req[p].cur] = "pending"]
        /\ fixFor' = [fixFor EXCEPT ![req[p].cur] = req[p].source]
    BY <1>4 DEF Create, Return
  <2>2. StepsTo(p, Ahead(Rest(p)))
    BY <1>1, <1>2, <2>1, ReturnSound
  <2>3. Rest(p) \in Seq(Call) /\ Ahead(Rest(p)) \cap {"create", "await", "kill"} = {}
    BY <1>1, <1>2, RestMoves
  <2>4. /\ req'[p].todo = Rest(p)
        /\ req'[p].todo # <<>> => /\ req'[p].cur = req[p].cur /\ req'[p].base = req[p].base
                                  /\ req'[p].source = req[p].source
    BY <1>1, <2>1, <2>3, GoOnMoves
  <2>5. Rest(p) # <<>> => Head(Rest(p)) \in Ahead(Rest(p))
    BY <2>3, TailAhead
  <2>6. MakesOn(p)
    BY <2>3, <2>4, <2>5 DEF MakesOn
  <2> QED
    BY <1>4, <2>1, <2>2, <2>6
<1> QED
  BY <1>3, <1>4

LEMMA PublishMoves ==
  ASSUME ChainSound, NEW p \in Requests, PublishRepair(p)
  PROVE  MakesOn(p)
<1>1. RequestsTyped /\ Sound(req[p]) /\ req[p] \in Request
  BY CallerMoves
<1>2. Calling(p, "publish") /\ GoOn(p, req[p], Rest(p))
  BY DEF PublishRepair, Return
<1>3. Rest(p) \in Seq(Call) /\ Ahead(Rest(p)) \cap {"create", "await", "kill"} = {}
  BY <1>1, <1>2, RestMoves
<1>4. /\ req'[p].todo = Rest(p)
      /\ req'[p].todo # <<>> => /\ req'[p].cur = req[p].cur /\ req'[p].base = req[p].base
                                /\ req'[p].source = req[p].source
  BY <1>1, <1>2, <1>3, GoOnMoves
<1>5. Rest(p) # <<>> => Head(Rest(p)) \in Ahead(Rest(p))
  BY <1>3, TailAhead
<1> QED
  BY <1>3, <1>4, <1>5 DEF MakesOn

LEMMA WriteRootMoves ==
  ASSUME ChainSound, NEW p \in Requests, WriteRoot(p)
  PROVE  req'[p].todo = Rest(p) /\ (req'[p].todo # <<>> => req'[p].source = req[p].source)
<1>1. RequestsTyped /\ Sound(req[p]) /\ req[p] \in Request /\ NoSnapshot \in Snapshot
  BY CallerMoves, IdleTyped
<1>2. Calling(p, "root")
  BY DEF WriteRoot
<1>3. Rest(p) \in Seq(Call)
  BY <1>1, <1>2, RestMoves
<1>4. \A x \in Request : GoOn(p, x, Rest(p)) =>
        req'[p].todo = Rest(p) /\ (Rest(p) # <<>> => req'[p].source = x.source)
  BY <1>1, <1>3, GoOnMoves
<1>5. /\ [req[p] EXCEPT !.base = NoSnapshot] \in Request
      /\ [req[p] EXCEPT !.base = NoSnapshot].source = req[p].source
  BY <1>1 DEF Request
<1> QED
  BY <1>4, <1>5 DEF WriteRoot

\* A delivery is made known to, or an accept closes, one task after the other.
LEMMA WalkMoves ==
  ASSUME ChainSound, NEW p \in Requests, AwaitReview(p) \/ Close(p)
  PROVE  /\ \E S : StepsTo(p, S) /\ S \subseteq Ahead(req[p].todo) /\ S \cap Making = {}
         /\ fixFor[req[p].cur] # NoTask => req[p].by # 0
<1>1. /\ RequestsTyped /\ Sound(req[p]) /\ req[p] \in Request /\ 0 \notin req[p].kill /\ 0 \notin req[p].base.history
      /\ req[p].todo \in Seq(Call) /\ req[p].cur \in Task /\ req[p].by \in Task
  BY CallerMoves
<1>2. \E c \in {"await", "close"} : Calling(p, c)
  BY DEF AwaitReview, Close
<1>3. PICK c \in {"await", "close"} : Calling(p, c)
  BY <1>2
<1>4. c \notin {"create", "publish", "kill", "sweep"} /\ c \notin Making
  BY <1>3 DEF Making
<1>5. /\ req[p].todo # <<>> /\ Head(req[p].todo) = c /\ InPlace(req[p].todo) /\ c \in Ahead(req[p].todo)
      /\ Ahead(req[p].todo) \subseteq {c} \cup Ahead(Rest(p)) /\ Ahead(Rest(p)) \subseteq Ahead(req[p].todo)
  BY <1>1, <1>3, CallingMoves, TailAhead DEF Sound
<1>6. /\ Ahead(Rest(p)) \cap Placed = {} /\ Ahead(Rest(p)) \cap Making = {}
      /\ "kill" \notin Ahead(req[p].todo) /\ Ahead(req[p].todo) \cap Making = {}
  BY <1>1, <1>3, <1>4, <1>5, RestMoves DEF Placed
<1>7. req[p].by # 0
  BY <1>1, <1>3, <1>5 DEF Sound
<1>8. ASSUME NEW x \in Request, x.kill = req[p].kill, x.base = req[p].base, x.by = req[p].by,
             GoOn(p, x, Rest(p)) \/ GoOn(p, x, req[p].todo)
      PROVE  \E S : StepsTo(p, S) /\ S \subseteq Ahead(req[p].todo) /\ S \cap Making = {}
  <2>1. CASE GoOn(p, x, Rest(p))
    <3>1. StepsTo(p, Ahead(Rest(p)))
      BY <1>1, <1>3, <1>8, <2>1, ReturnSound
    <3> QED
      BY <3>1, <1>5, <1>6
  <2>2. CASE GoOn(p, x, req[p].todo)
    <3>1. StepsTo(p, Ahead(req[p].todo))
      BY <1>1, <1>5, <1>6, <1>7, <1>8, <2>2, GoOnSound
    <3> QED
      BY <3>1, <1>6
  <2> QED
    BY <1>8, <2>1, <2>2
<1>9. \E d \in Task : GoOn(p, [req[p] EXCEPT !.cur = d], Rest(p)) \/ GoOn(p, [req[p] EXCEPT !.cur = d], req[p].todo)
  <2>1. TasksTyped
    BY RootMoves
  <2>2. fixFor[req[p].cur] # NoTask => fixFor[req[p].cur] \in Task
    BY <1>1, <2>1 DEF TasksTyped
  <2>3. CASE fixFor[req[p].cur] = NoTask
    BY <1>1, <2>3, TasksAre DEF AwaitReview, Close
  <2>4. CASE fixFor[req[p].cur] # NoTask
    BY <2>2, <2>4 DEF AwaitReview, Close
  <2> QED
    BY <2>3, <2>4
<1>10. PICK d \in Task : GoOn(p, [req[p] EXCEPT !.cur = d], Rest(p)) \/ GoOn(p, [req[p] EXCEPT !.cur = d], req[p].todo)
  BY <1>9
<1>11. PICK x \in Request : /\ x.kill = req[p].kill /\ x.base = req[p].base /\ x.by = req[p].by
                            /\ GoOn(p, x, Rest(p)) \/ GoOn(p, x, req[p].todo)
  <2>1. [req[p] EXCEPT !.cur = d] \in Request
    BY <1>1 DEF Request
  <2> PICK x : x = [req[p] EXCEPT !.cur = d]
    OBVIOUS
  <2>2. x \in Request /\ x.kill = req[p].kill /\ x.base = req[p].base /\ x.by = req[p].by
    BY <1>1, <2>1 DEF Request
  <2> QED
    BY <2>2, <1>10
<1> QED
  BY <1>7, <1>8, <1>11

LEMMA CommitMoves ==
  ASSUME ChainSound, NEW p \in Requests, NEW ruling \in {"accept", "reject"}, Commit(p, ruling)
  PROVE  \/ StepsTo(p, {"replay"}) /\ ruling = "accept"
         \/ StepsTo(p, {"ensure"}) /\ ruling = "reject" /\ SameReview(p, req[p].task)
         \/ StepsTo(p, {})
<1>1. /\ RequestsTyped /\ req[p] \in Request /\ 0 \notin req[p].kill /\ req[p].task \in Task
      /\ NoSnapshot \in Snapshot /\ 0 \notin NoSnapshot.history
  BY CallerMoves, IdleTyped DEF NoSnapshot
<1> PICK x : x = [req[p] EXCEPT !.base = NoSnapshot]
  OBVIOUS
<1>2. x \in Request /\ x.kill = req[p].kill /\ x.base = NoSnapshot /\ x.task = req[p].task
  BY <1>1 DEF Request
<1> PICK y : y = [x EXCEPT !.source = x.task]
  OBVIOUS
<1>3. y \in Request /\ y.kill = req[p].kill /\ y.base = NoSnapshot
  BY <1>1, <1>2 DEF Request
<1>4. \/ GoOn(p, x, <<"replay">>) /\ ruling = "accept"
      \/ GoOn(p, y, <<"ensure">>) /\ ruling = "reject" /\ SameReview(p, req[p].task)
      \/ GoOn(p, x, <<>>)
  BY <1>2 DEF Commit
<1>5. "replay" \in Call /\ "ensure" \in Call
  BY DEF Call
<1>6. /\ <<"replay">> \in Seq(Call) /\ InPlace(<<"replay">>) /\ Ahead(<<"replay">>) = {"replay"}
      /\ <<"ensure">> \in Seq(Call) /\ InPlace(<<"ensure">>) /\ Ahead(<<"ensure">>) = {"ensure"}
      /\ <<>> \in Seq(Call) /\ InPlace(<<>>) /\ Ahead(<<>>) = {}
  BY <1>5, KnownCalls
<1>7. CASE GoOn(p, x, <<"replay">>) /\ ruling = "accept"
  <2>1. StepsTo(p, Ahead(<<"replay">>))
    BY <1>1, <1>2, <1>6, <1>7, ReplaceSound
  <2> QED
    BY <2>1, <1>6, <1>7
<1>8. CASE GoOn(p, y, <<"ensure">>) /\ ruling = "reject" /\ SameReview(p, req[p].task)
  <2>1. StepsTo(p, Ahead(<<"ensure">>))
    BY <1>1, <1>3, <1>6, <1>8, ReplaceSound
  <2> QED
    BY <2>1, <1>6, <1>8
<1>9. CASE GoOn(p, x, <<>>)
  <2>1. StepsTo(p, Ahead(<<>>))
    BY <1>1, <1>2, <1>6, <1>9, ReplaceSound
  <2> QED
    BY <2>1, <1>6
<1> QED
  BY <1>4, <1>7, <1>8, <1>9

LEMMA ReplayMoves ==
  ASSUME ChainSound, NEW p \in Requests, Replay(p)
  PROVE  \/ StepsTo(p, {"wake", "mark"} \cup Ahead(Rest(p)))
         \/ /\ StepsTo(p, {"sweep", "close", "wake", "mark"} \cup Ahead(Rest(p)))
            /\ fixFor[req[p].by] # NoTask /\ Accepted(req[p].by)
<1>1. /\ RequestsTyped /\ Sound(req[p]) /\ req[p] \in Request /\ 0 \notin req[p].kill /\ 0 \notin req[p].base.history
      /\ req[p].by \in Task /\ Children \subseteq Task /\ 0 \notin Children /\ fixFor[0] = NoTask
  BY CallerMoves, RootMoves
<1>2. Calling(p, "replay") /\ "replay" \notin {"create", "publish", "kill", "sweep"}
  BY DEF Replay
<1>3. CASE Return(p)
  <2>1. StepsTo(p, Ahead(Rest(p)))
    BY <1>1, <1>2, <1>3, ReturnSound DEF Return
  <2> QED
    BY <2>1 DEF StepsTo
<1>4. CASE GoOn(p, req[p], <<"wake", "mark">> \o Rest(p))
  <2>1. "wake" \in Call /\ "mark" \in Call \ Placed /\ "wake" \notin Placed
    BY DEF Call, Placed
  <2> PICK a : a = <<"wake", "mark">>
    OBVIOUS
  <2>2. a \in Seq(Call) /\ a # <<>> /\ InPlace(a) /\ Ahead(a) = {"wake", "mark"}
    BY <2>1, KnownCalls
  <2>3. StepsTo(p, Ahead(a) \cup Ahead(Rest(p)))
    BY <1>1, <1>2, <1>4, <2>2, PrependSound
  <2> QED
    BY <2>2, <2>3
<1>5. CASE /\ GoOn(p, [req[p] EXCEPT !.kill = Children \ {req[p].by}, !.cur = req[p].by],
                   <<"sweep", "close", "wake", "mark">> \o Rest(p))
           /\ fixFor[req[p].by] # NoTask /\ Accepted(req[p].by)
  <2> PICK x : x = [req[p] EXCEPT !.kill = Children \ {req[p].by}, !.cur = req[p].by]
    OBVIOUS
  <2>1. x \in Request /\ x.kill = Children \ {req[p].by} /\ x.base = req[p].base /\ x.by = req[p].by
    BY <1>1 DEF Request
  <2>2. req[p].by # 0 /\ 0 \notin x.kill /\ 0 \notin x.base.history /\ x.by # 0
    BY <1>1, <1>5, <2>1
  <2> PICK a : a = <<"sweep", "close", "wake", "mark">>
    OBVIOUS
  <2>3. a \in Seq(Call) /\ a # <<>> /\ InPlace(a) /\ Ahead(a) = {"sweep", "close", "wake", "mark"}
    BY KnownCalls
  <2>4. StepsTo(p, Ahead(a) \cup Ahead(Rest(p)))
    BY <1>1, <1>2, <1>5, <2>1, <2>2, <2>3, PrependSound
  <2> QED
    BY <1>5, <2>3, <2>4
<1> QED
  BY <1>3, <1>4, <1>5 DEF Replay

LEMMA SweepMoves ==
  ASSUME ChainSound, NEW p \in Requests, Sweep(p)
  PROVE  \E S : StepsTo(p, S) /\ S \subseteq {"kill"} \cup Ahead(req[p].todo) /\ S \cap Making = {}
<1>1. /\ RequestsTyped /\ Sound(req[p]) /\ req[p] \in Request /\ 0 \notin req[p].kill /\ 0 \notin req[p].base.history
      /\ req[p].by \in Task /\ req[p].kill \subseteq Task /\ req[p].todo \in Seq(Call)
  BY CallerMoves
<1>2. Calling(p, "sweep") /\ "sweep" \notin {"create", "publish"} /\ "sweep" \notin Making /\ "kill" \notin Making
  BY DEF Sweep, Making
<1>3. req[p].todo # <<>> /\ Head(req[p].todo) = "sweep" /\ InPlace(req[p].todo) /\ Ahead(req[p].todo) \cap Making = {}
  <2>1. req[p].todo # <<>> /\ Head(req[p].todo) = "sweep" /\ InPlace(req[p].todo)
    BY <1>1, <1>2, CallingMoves DEF Sound
  <2> QED
    BY <1>1, <1>2, <2>1, MakingIsFirst
<1>4. CASE \E t \in req[p].kill : GoOn(p, [req[p] EXCEPT !.kill = req[p].kill \ {t}, !.cur = t], <<"kill">> \o req[p].todo)
  <2> PICK t \in req[p].kill : GoOn(p, [req[p] EXCEPT !.kill = req[p].kill \ {t}, !.cur = t], <<"kill">> \o req[p].todo)
    BY <1>4
  <2> PICK x : x = [req[p] EXCEPT !.kill = req[p].kill \ {t}, !.cur = t]
    OBVIOUS
  <2>1. x \in Request /\ x.kill = req[p].kill \ {t} /\ x.base = req[p].base /\ x.by = req[p].by /\ x.cur = t
    BY <1>1 DEF Request
  <2>2. 0 \notin x.kill /\ 0 \notin x.base.history /\ x.cur # 0
    BY <1>1, <2>1
  <2> PICK s : s = <<"kill">> \o req[p].todo
    OBVIOUS
  <2>3. s \in Seq(Call) /\ InPlace(s) /\ Ahead(s) = {"kill"} \cup Ahead(req[p].todo)
    BY <1>1, <1>3, KillInPlace
  <2>4. s # <<>>
    <3>1. "kill" \in Ahead(s) /\ Ahead(<<>>) = {}
      BY <2>3, KnownCalls
    <3> QED
      BY <3>1
  <2>5. (Ahead(s) \cap {"close", "await"} # {} => x.by # 0)
    BY <1>1, <2>1, <2>3 DEF Sound
  <2>6. StepsTo(p, Ahead(s))
    BY <1>1, <2>1, <2>2, <2>3, <2>4, <2>5, GoOnSound
  <2> QED
    BY <1>2, <1>3, <2>3, <2>6
<1>5. CASE GoOn(p, [req[p] EXCEPT !.kill = {}, !.cur = req[p].by], Rest(p))
  <2> PICK x : x = [req[p] EXCEPT !.kill = {}, !.cur = req[p].by]
    OBVIOUS
  <2>1. x \in Request /\ x.kill = {} /\ x.base = req[p].base /\ x.by = req[p].by
    BY <1>1 DEF Request
  <2>2. StepsTo(p, Ahead(Rest(p)))
    BY <1>1, <1>2, <1>5, <2>1, ReturnSound
  <2>3. Ahead(Rest(p)) \subseteq Ahead(req[p].todo)
    BY <1>1, <1>2, RestMoves
  <2> QED
    BY <1>3, <2>2, <2>3
<1> QED
  BY <1>4, <1>5 DEF Sweep

LEMMA ReopenMoves ==
  ASSUME ChainSound, NEW p \in Requests, Reopen(p)
  PROVE  \E S : StepsTo(p, S) /\ S \subseteq Ahead(Rest(p))
<1>1. /\ RequestsTyped /\ Sound(req[p]) /\ req[p] \in Request /\ 0 \notin req[p].kill /\ 0 \notin req[p].base.history
      /\ req[p].base \in Snapshot
  BY CallerMoves
<1>2. Calling(p, "reopen")
  BY DEF Reopen
<1>3. CASE GoOn(p, req[p], <<>>)
  <2>1. <<>> \in Seq(Call) /\ InPlace(<<>>) /\ Ahead(<<>>) = {}
    BY KnownCalls
  <2>2. StepsTo(p, Ahead(<<>>))
    BY <1>1, <1>3, <2>1, ReplaceSound
  <2> QED
    BY <2>1, <2>2
<1>4. CASE GoOn(p, [req[p] EXCEPT !.base.resolution = "needs_pm_decision"], Rest(p))
  <2> PICK b : b = [req[p].base EXCEPT !.resolution = "needs_pm_decision"]
    OBVIOUS
  <2>1. b \in Snapshot /\ b.history = req[p].base.history
    BY <1>1 DEF Snapshot, Resolution
  <2> PICK x : x = [req[p] EXCEPT !.base = b]
    OBVIOUS
  <2>2. x \in Request /\ x.kill = req[p].kill /\ x.base = b /\ x.by = req[p].by
    BY <1>1, <2>1 DEF Request
  <2>3. GoOn(p, x, Rest(p))
    BY <1>4
  <2>4. StepsTo(p, Ahead(Rest(p)))
    BY <1>1, <1>2, <2>1, <2>2, <2>3, ReturnSound
  <2> QED
    BY <2>4
<1> QED
  BY <1>3, <1>4 DEF Reopen

LEMMA ContinueSourceTyped ==
  ASSUME ChainSound
  PROVE  ContinueSource \in Task
<1>1. TasksTyped /\ pointer[0] \in Task \cup {NoTask}
  BY RootMoves
<1> QED
  BY <1>1, TasksAre DEF ContinueSource, TasksTyped

LEMMA BeginMoves ==
  ASSUME ChainSound, NEW p \in Requests, BeginContinue(p)
  PROVE  \/ StepsTo(p, {"ensure", "audit"}) /\ SameDecision(p)
         \/ StepsTo(p, {})
<1>1. /\ RequestsTyped /\ Sound(req[p]) /\ req[p] \in Request /\ 0 \notin req[p].kill /\ 0 \notin req[p].base.history
  BY CallerMoves
<1>2. CASE GoOn(p, req[p], <<>>)
  <2>1. <<>> \in Seq(Call) /\ InPlace(<<>>) /\ Ahead(<<>>) = {}
    BY KnownCalls
  <2>2. StepsTo(p, Ahead(<<>>))
    BY <1>1, <1>2, <2>1, ReplaceSound
  <2> QED
    BY <2>1, <2>2
<1>3. CASE GoOn(p, [Idle EXCEPT !.source = ContinueSource], <<"ensure", "audit">>) /\ SameDecision(p)
  <2> PICK x : x = [Idle EXCEPT !.source = ContinueSource]
    OBVIOUS
  <2>1. x \in Request /\ x.kill = Idle.kill /\ x.base = Idle.base
    BY IdleTyped, ContinueSourceTyped DEF Request
  <2>2. 0 \notin x.kill /\ 0 \notin x.base.history
    BY <2>1, IdleSound DEF Sound
  <2>3. "ensure" \in Call /\ "audit" \in Call \ Placed
    BY DEF Call, Placed
  <2> PICK a : a = <<"ensure", "audit">>
    OBVIOUS
  <2>4. a \in Seq(Call) /\ InPlace(a) /\ Ahead(a) = {"ensure", "audit"}
    BY <2>3, KnownCalls
  <2>5. StepsTo(p, Ahead(a))
    BY <1>1, <1>3, <2>1, <2>2, <2>4, ReplaceSound
  <2> QED
    BY <1>3, <2>4, <2>5
<1> QED
  BY <1>2, <1>3 DEF BeginContinue

LEMMA ReconcileMoves ==
  ASSUME ChainSound, NEW p \in Requests, Reconcile(p)
  PROVE  \/ StepsTo(p, Ahead(Rest(p)))
         \/ /\ StepsTo(p, {"sweep", "clear"} \cup Ahead(Rest(p)))
            /\ Accepted(0) /\ resolution[0] # "none"
         \/ StepsTo(p, {"sweep", "ensure"} \cup Ahead(Rest(p))) /\ Failure(req[p].task)
<1>1. /\ RequestsTyped /\ Sound(req[p]) /\ req[p] \in Request /\ 0 \notin req[p].kill /\ 0 \notin req[p].base.history
      /\ req[p].task \in Task /\ Children \subseteq Task /\ 0 \notin Children
  BY CallerMoves, RootMoves
<1>2. Calling(p, "reconcile") /\ "reconcile" \notin {"create", "publish", "kill", "sweep"}
  BY DEF Reconcile
<1>3. CASE Return(p)
  <2>1. StepsTo(p, Ahead(Rest(p)))
    BY <1>1, <1>2, <1>3, ReturnSound DEF Return
  <2> QED
    BY <2>1
<1> PICK x : x = [req[p] EXCEPT !.kill = Children]
  OBVIOUS
<1>4. x \in Request /\ x.kill = Children /\ x.base = req[p].base
  BY <1>1 DEF Request
<1> PICK y : y = [req[p] EXCEPT !.source = req[p].task]
  OBVIOUS
<1>5. y \in Request /\ y.kill = req[p].kill /\ y.base = req[p].base
  BY <1>1 DEF Request
<1>6. "sweep" \in Call /\ "clear" \in Call \ Placed /\ "ensure" \in Call
  BY DEF Call, Placed
<1>7. CASE GoOn(p, x, <<"sweep", "clear">> \o Rest(p)) /\ Accepted(0) /\ resolution[0] # "none"
  <2> PICK a : a = <<"sweep", "clear">>
    OBVIOUS
  <2>1. a \in Seq(Call) /\ a # <<>> /\ InPlace(a) /\ Ahead(a) = {"sweep", "clear"}
    BY <1>6, KnownCalls
  <2>2. StepsTo(p, Ahead(a) \cup Ahead(Rest(p)))
    BY <1>1, <1>2, <1>4, <1>7, <2>1, PrependSound
  <2> QED
    BY <1>7, <2>1, <2>2
<1>8. CASE GoOn(p, x, <<"sweep">> \o Rest(p)) /\ Failure(req[p].task)
  <2> PICK a : a = <<"sweep">>
    OBVIOUS
  <2>1. a \in Seq(Call) /\ a # <<>> /\ InPlace(a) /\ Ahead(a) = {"sweep"}
    BY <1>6, KnownCalls
  <2>2. StepsTo(p, Ahead(a) \cup Ahead(Rest(p)))
    BY <1>1, <1>2, <1>4, <1>8, <2>1, PrependSound
  <2> QED
    BY <1>8, <2>1, <2>2 DEF StepsTo
<1>9. CASE GoOn(p, y, <<"ensure">> \o Rest(p)) /\ Failure(req[p].task)
  <2> PICK a : a = <<"ensure">>
    OBVIOUS
  <2>1. a \in Seq(Call) /\ a # <<>> /\ InPlace(a) /\ Ahead(a) = {"ensure"}
    BY <1>6, KnownCalls
  <2>2. StepsTo(p, Ahead(a) \cup Ahead(Rest(p)))
    BY <1>1, <1>2, <1>5, <1>9, <2>1, PrependSound
  <2> QED
    BY <1>9, <2>1, <2>2 DEF StepsTo
<1>10. CASE ReconcileAccepted(p)
  <2>1. Return(p) \/ (/\ GoOn(p, x, <<"sweep", "clear">> \o Rest(p)) /\ req[p].task = 0 /\ Accepted(req[p].task)
                      /\ resolution[0] \in {"required", "repairing", "needs_pm_decision"})
    BY <1>10 DEF ReconcileAccepted
  <2> QED
    BY <2>1, <1>3, <1>7
<1>11. CASE ReconcileHalted(p)
  BY <1>3, <1>8, <1>11 DEF ReconcileHalted
<1>12. CASE ReconcileFailure(p)
  BY <1>3, <1>9, <1>12 DEF ReconcileFailure
<1> QED
  BY <1>3, <1>10, <1>11, <1>12 DEF Reconcile

LEMMA RedoMoves ==
  ASSUME ChainSound, NEW p \in Requests, Redo(p)
  PROVE  StepsTo(p, {"replay"} \cup Ahead(req[p].todo))
<1>1. /\ RequestsTyped /\ Sound(req[p]) /\ req[p] \in Request /\ 0 \notin req[p].kill /\ 0 \notin req[p].base.history
      /\ req[p].task \in Task /\ req[p].todo \in Seq(Call) /\ RootTyped /\ ChainTyped
  BY CallerMoves, RootMoves
<1>2. Calling(p, "redo") /\ "redo" \notin {"create", "publish", "kill", "sweep"} /\ "redo" \notin Placed
  BY DEF Redo, Placed
<1> PICK r : r = [req[p] EXCEPT !.cur = 0, !.by = 0, !.source = 0]
  OBVIOUS
<1>3. r \in Request /\ r.kill = req[p].kill /\ r.base = req[p].base /\ r.todo = req[p].todo /\ r.task = req[p].task
  BY <1>1, TasksAre DEF Request
<1>4. StandsFor(r.task) \subseteq Task
  BY <1>1, <1>3 DEF StandsFor, RootTyped, ChainTyped
<1>5. CASE \E u \in Task : GoOn(p, [r EXCEPT !.by = u], <<"replay">> \o req[p].todo)
  <2> PICK u \in Task : GoOn(p, [r EXCEPT !.by = u], <<"replay">> \o req[p].todo)
    BY <1>5
  <2> PICK x : x = [r EXCEPT !.by = u]
    OBVIOUS
  <2>1. x \in Request /\ x.kill = r.kill /\ x.base = r.base
    BY <1>3 DEF Request
  <2>2. InPlace(req[p].todo) /\ req[p].todo # <<>> /\ Head(req[p].todo) = "redo"
    BY <1>1, <1>2, CallingMoves DEF Sound
  <2>3. Ahead(req[p].todo) \cap Placed = {}
    BY <1>1, <1>2, <2>2, NothingPlaced
  <2>4. "replay" \in Call /\ "replay" \notin Placed
    BY DEF Call, Placed
  <2> PICK a : a = <<"replay">>
    OBVIOUS
  <2>5. a \in Seq(Call) /\ a # <<>> /\ InPlace(a) /\ Ahead(a) = {"replay"}
    BY <2>4, KnownCalls
  <2> PICK s : s = a \o req[p].todo
    OBVIOUS
  <2>6. s \in Seq(Call) /\ s # <<>> /\ InPlace(s) /\ Ahead(s) = {"replay"} \cup Ahead(req[p].todo)
    BY <1>1, <2>3, <2>5, BeforeInPlace, HeadOfCalls
  <2>7. Ahead(s) \cap {"close", "await", "kill"} = {}
    BY <2>3, <2>4, <2>6 DEF Placed
  <2>8. StepsTo(p, Ahead(s))
    BY <1>1, <1>3, <2>1, <2>6, <2>7, ReplaceSound
  <2> QED
    BY <2>6, <2>8
<1>6. CASE GoOn(p, r, Rest(p))
  <2>1. StepsTo(p, Ahead(Rest(p)))
    BY <1>1, <1>2, <1>3, <1>6, ReturnSound
  <2>2. Ahead(Rest(p)) \subseteq Ahead(req[p].todo)
    BY <1>1, <1>2, RestMoves
  <2> QED
    BY <2>1, <2>2 DEF StepsTo
<1> QED
  BY <1>3, <1>4, <1>5, <1>6 DEF Redo

-----------------------------------------------------------------------------
(* Requests that begin.                                                     *)

\* A request that begins with one call.
LEMMA BeginsWith ==
  ASSUME RequestsTyped, NEW p \in Requests, NEW c \in Call \ {"close", "kill"}, NEW x \in Request,
         x.todo = <<c>>, x.kill = {}, 0 \notin x.base.history, c = "await" => x.by # 0,
         Start(p, x), lock' \in [Task -> Owner]
  PROVE  StepsTo(p, {c}) /\ req[p] = Idle
<1>1. InPlace(x.todo) /\ Ahead(x.todo) = {c}
  BY KnownCalls
<1> QED
  BY <1>1, StartSound

\* What every such request is made from.
LEMMA Beginnings ==
  ASSUME ChainSound
  PROVE  /\ RequestsTyped /\ lock \in [Task -> Owner] /\ Nobody \in Owner /\ 0 \notin NoSnapshot.history
         /\ NoSnapshot \in Snapshot /\ Idle \in Request /\ Idle.kill = {} /\ Idle.base = NoSnapshot
         /\ \A c \in Call : <<c>> \in Seq(Call)
BY TypeParts, IdleTyped, KnownCalls DEF ChainSound, RequestsTyped, NoSnapshot, Idle, Owner

LEMMA ReportBegins ==
  ASSUME ChainSound, NEW p \in Requests, NEW t \in Task
  PROVE  /\ ReportDone(p, t) /\ t # 0 => StepsTo(p, {"await"}) /\ req[p] = Idle
         /\ ReportFailed(p, t) => StepsTo(p, {"ensure"}) /\ req[p] = Idle
         /\ CancelTask(p, t) => StepsTo(p, {"check"}) /\ req[p] = Idle
<1>1. <<"await">> \in Seq(Call) /\ <<"ensure">> \in Seq(Call) /\ <<"check">> \in Seq(Call)
  BY KnownCalls DEF Call
<1>2. {"await", "ensure", "check"} \subseteq Call \ {"close", "kill"}
  BY DEF Call
<1>3. ASSUME ReportDone(p, t), t # 0 PROVE StepsTo(p, {"await"}) /\ req[p] = Idle
  <2> PICK x : x = [Idle EXCEPT !.todo = <<"await">>, !.by = t, !.cur = t]
    OBVIOUS
  <2>1. x \in Request /\ x.todo = <<"await">> /\ x.kill = {} /\ x.base = NoSnapshot /\ x.by = t
    BY <1>1, Beginnings DEF Request
  <2>2. Start(p, x) /\ lock' = lock
    BY <1>3 DEF ReportDone
  <2> QED
    BY <1>2, <1>3, <2>1, <2>2, Beginnings, BeginsWith
<1>4. ASSUME ReportFailed(p, t) PROVE StepsTo(p, {"ensure"}) /\ req[p] = Idle
  <2> PICK x : x = [Idle EXCEPT !.todo = <<"ensure">>, !.source = t]
    OBVIOUS
  <2>1. x \in Request /\ x.todo = <<"ensure">> /\ x.kill = {} /\ x.base = NoSnapshot
    BY <1>1, Beginnings DEF Request
  <2>2. Start(p, x) /\ lock' = lock
    BY <1>4 DEF ReportFailed
  <2> QED
    BY <1>2, <2>1, <2>2, Beginnings, BeginsWith
<1>5. ASSUME CancelTask(p, t) PROVE StepsTo(p, {"check"}) /\ req[p] = Idle
  <2> PICK x : x = [Idle EXCEPT !.todo = <<"check">>, !.cur = t, !.why = "repair_cancelled"]
    OBVIOUS
  <2>1. x \in Request /\ x.todo = <<"check">> /\ x.kill = {} /\ x.base = NoSnapshot
    BY <1>1, Beginnings DEF Request, Why
  <2>2. Start(p, x) /\ lock' = lock
    BY <1>5 DEF CancelTask
  <2> QED
    BY <1>2, <2>1, <2>2, Beginnings, BeginsWith
<1> QED
  BY <1>3, <1>4, <1>5

LEMMA ReviewBegins ==
  ASSUME ChainSound, NEW p \in Requests, NEW t \in Task, NEW ruling \in {"accept", "reject"}, ReviewBegin(p, t, ruling)
  PROVE  /\ req[p] = Idle
         /\ \/ StepsTo(p, {ruling}) \/ StepsTo(p, {"replay"})
            \/ StepsTo(p, {"ensure"}) /\ review[t] = "rejected"
<1>1. <<ruling>> \in Seq(Call) /\ <<"replay">> \in Seq(Call) /\ <<"ensure">> \in Seq(Call)
  BY KnownCalls DEF Call
<1>2. {ruling, "replay", "ensure"} \subseteq Call \ {"close", "kill"} /\ "await" \notin {ruling, "replay", "ensure"}
  BY DEF Call
<1>3. lock' \in [Task -> Owner]
  BY Beginnings DEF ReviewBegin, Owner
<1>4. ASSUME FirstReview(p, t, ruling) PROVE StepsTo(p, {ruling}) /\ req[p] = Idle
  <2> PICK b : b = [NoSnapshot EXCEPT !.round = resets, !.resolution = resolution[t]]
    OBVIOUS
  <2>1. b \in Snapshot /\ b.history = NoSnapshot.history
    <3>1. resets \in Nat /\ resolution[t] \in Resolution
      BY RootMoves, BoundAssumption DEF BoundsTyped, ChainTyped
    <3> QED
      BY <3>1, Beginnings DEF Snapshot
  <2> PICK x : x = [Idle EXCEPT !.task = t, !.by = t, !.todo = <<ruling>>, !.base = b]
    OBVIOUS
  <2>2. x \in Request /\ x.todo = <<ruling>> /\ x.kill = {} /\ x.base = b
    BY <1>1, <2>1, Beginnings DEF Request
  <2>3. x = [Idle EXCEPT !.task = t, !.by = t, !.todo = <<ruling>>, !.base.round = resets, !.base.resolution = resolution[t]]
    BY DEF Idle, NoSnapshot
  <2>4. Start(p, x)
    BY <1>4, <2>3 DEF FirstReview
  <2> QED
    BY <1>2, <1>3, <2>1, <2>2, <2>4, Beginnings, BeginsWith
<1>5. ASSUME AcceptAgain(p, t) PROVE StepsTo(p, {"replay"}) /\ req[p] = Idle
  <2> PICK x : x = [Idle EXCEPT !.task = t, !.by = t, !.todo = <<"replay">>]
    OBVIOUS
  <2>1. x \in Request /\ x.todo = <<"replay">> /\ x.kill = {} /\ x.base = NoSnapshot
    BY <1>1, Beginnings DEF Request
  <2>2. Start(p, x)
    BY <1>5 DEF AcceptAgain
  <2> QED
    BY <1>2, <1>3, <2>1, <2>2, Beginnings, BeginsWith
<1>6. ASSUME RejectAgain(p, t) PROVE StepsTo(p, {"ensure"}) /\ req[p] = Idle /\ review[t] = "rejected"
  <2> PICK x : x = [Idle EXCEPT !.task = t, !.by = t, !.todo = <<"ensure">>, !.source = t]
    OBVIOUS
  <2>1. x \in Request /\ x.todo = <<"ensure">> /\ x.kill = {} /\ x.base = NoSnapshot
    BY <1>1, Beginnings DEF Request
  <2>2. Start(p, x) /\ review[t] = "rejected"
    BY <1>6 DEF RejectAgain
  <2> QED
    BY <1>2, <1>3, <2>1, <2>2, Beginnings, BeginsWith
<1> QED
  BY <1>4, <1>5, <1>6 DEF ReviewBegin

LEMMA DecideBegins ==
  ASSUME ChainSound, NEW p \in Requests, NEW action, DecideBegin(p, action)
  PROVE  /\ req[p] = Idle
         /\ \/ StepsTo(p, {"replay"})
            \/ StepsTo(p, {"cancel", "reopen", "begin"}) /\ resolution[0] # "none"
<1>1. Snap \in Snapshot /\ 0 \notin Snap.history /\ root.history \subseteq Task
  BY RootMoves
<1>2. "replay" \in Call \ {"close", "kill"} /\ "cancel" \in Call /\ "reopen" \in Call /\ "begin" \in Call \ Placed
  BY DEF Call, Placed
<1>3. lock' \in [Task -> Owner]
  BY Beginnings DEF DecideBegin, Owner
<1>4. ASSUME NEW t \in Winners, Start(p, [Idle EXCEPT !.todo = <<"replay">>, !.by = t])
      PROVE  StepsTo(p, {"replay"}) /\ req[p] = Idle
  <2> PICK x : x = [Idle EXCEPT !.todo = <<"replay">>, !.by = t]
    OBVIOUS
  <2>1. t \in Task /\ <<"replay">> \in Seq(Call)
    BY <1>1, <1>2, KnownCalls DEF Winners
  <2>2. x \in Request /\ x.todo = <<"replay">> /\ x.kill = {} /\ x.base = NoSnapshot
    BY <2>1, Beginnings DEF Request
  <2> QED
    BY <1>2, <1>3, <1>4, <2>2, Beginnings, BeginsWith
<1> PICK r : r = [Idle EXCEPT !.base = Snap]
  OBVIOUS
<1>5. r \in Request /\ r.kill = {} /\ r.base = Snap
  BY <1>1, Beginnings DEF Request
<1>6. ASSUME NEW a \in Seq(Call), InPlace(a), Ahead(a) \subseteq {"cancel", "reopen", "begin"},
             Start(p, [r EXCEPT !.todo = a])
      PROVE  StepsTo(p, {"cancel", "reopen", "begin"}) /\ req[p] = Idle
  <2> PICK x : x = [r EXCEPT !.todo = a]
    OBVIOUS
  <2>1. x \in Request /\ x.todo = a /\ x.kill = {} /\ x.base = Snap
    BY <1>5 DEF Request
  <2>2. /\ InPlace(x.todo) /\ "kill" \notin Ahead(x.todo) /\ Ahead(x.todo) \cap {"close", "await"} = {}
        /\ 0 \notin x.kill /\ 0 \notin x.base.history /\ Start(p, x)
    BY <1>1, <1>6, <2>1
  <2>3. StepsTo(p, Ahead(x.todo)) /\ req[p] = Idle
    BY <1>3, <2>1, <2>2, Beginnings, StartSound
  <2> QED
    BY <1>6, <2>1, <2>3 DEF StepsTo
<1>7. /\ <<"cancel">> \in Seq(Call) /\ InPlace(<<"cancel">>) /\ Ahead(<<"cancel">>) = {"cancel"}
      /\ <<"begin">> \in Seq(Call) /\ InPlace(<<"begin">>) /\ Ahead(<<"begin">>) = {"begin"}
      /\ <<"reopen", "begin">> \in Seq(Call) /\ InPlace(<<"reopen", "begin">>)
      /\ Ahead(<<"reopen", "begin">>) = {"reopen", "begin"}
  BY <1>2, KnownCalls
<1>8. \/ \E t \in Winners : Start(p, [Idle EXCEPT !.todo = <<"replay">>, !.by = t])
      \/ MayCancel /\ Start(p, [r EXCEPT !.todo = <<"cancel">>])
      \/ MayContinue /\ Start(p, [r EXCEPT !.todo = <<"reopen", "begin">>])
      \/ MayContinue /\ Start(p, [r EXCEPT !.todo = <<"begin">>])
  BY DEF DecideBegin
<1>9. MayCancel \/ MayContinue => resolution[0] # "none"
  BY DEF MayCancel, MayContinue
<1>10. CASE MayCancel /\ Start(p, [r EXCEPT !.todo = <<"cancel">>])
  BY <1>6, <1>7, <1>9, <1>10
<1>11. CASE MayContinue /\ Start(p, [r EXCEPT !.todo = <<"reopen", "begin">>])
  BY <1>6, <1>7, <1>9, <1>11
<1>12. CASE MayContinue /\ Start(p, [r EXCEPT !.todo = <<"begin">>])
  BY <1>6, <1>7, <1>9, <1>12
<1> QED
  BY <1>4, <1>8, <1>10, <1>11, <1>12

LEMMA ReconcileBegins ==
  ASSUME ChainSound, NEW p \in Requests, NEW t \in Task, ReconcileBegin(p, t)
  PROVE  /\ req[p] = Idle
         /\ \/ StepsTo(p, {"reconcile", "redo", "clean"})
            \/ StepsTo(p, {"ensure", "audit", "reconcile", "redo", "clean"}) /\ root.owner # Nobody
<1>1. lock' = lock /\ ContinueSource \in Task
  BY ContinueSourceTyped DEF ReconcileBegin
<1>2. "ensure" \in Call /\ "audit" \in Call \ Placed
  BY DEF Call, Placed
<1> PICK rest : rest = <<"reconcile", "redo", "clean">>
  OBVIOUS
<1>3. rest \in Seq(Call) /\ InPlace(rest) /\ Ahead(rest) = {"reconcile", "redo", "clean"}
  BY KnownCalls
<1> PICK r : r = [Idle EXCEPT !.task = t]
  OBVIOUS
<1>4. r \in Request /\ r.kill = {} /\ r.base = NoSnapshot
  BY Beginnings DEF Request
<1>5. CASE Start(p, [r EXCEPT !.todo = rest])
  <2> PICK x : x = [r EXCEPT !.todo = rest]
    OBVIOUS
  <2>1. x \in Request /\ x.todo = rest /\ x.kill = {} /\ x.base = NoSnapshot
    BY <1>3, <1>4 DEF Request
  <2>2. /\ InPlace(x.todo) /\ "kill" \notin Ahead(x.todo) /\ Ahead(x.todo) \cap {"close", "await"} = {}
        /\ 0 \notin x.kill /\ 0 \notin x.base.history /\ Start(p, x)
    BY <1>3, <1>5, <2>1, Beginnings
  <2>3. StepsTo(p, Ahead(x.todo)) /\ req[p] = Idle
    BY <1>1, <2>1, <2>2, Beginnings, StartSound
  <2> QED
    BY <1>3, <2>1, <2>3
<1>6. CASE Start(p, [r EXCEPT !.todo = <<"ensure", "audit">> \o rest, !.source = ContinueSource]) /\ root.owner # Nobody
  <2> PICK a : a = <<"ensure", "audit">>
    OBVIOUS
  <2>1. a \in Seq(Call) /\ InPlace(a) /\ Ahead(a) = {"ensure", "audit"}
    BY <1>2, KnownCalls
  <2> PICK s : s = a \o rest
    OBVIOUS
  <2>2. s \in Seq(Call) /\ InPlace(s) /\ Ahead(s) = {"ensure", "audit", "reconcile", "redo", "clean"}
    <3>1. Ahead(rest) \cap Placed = {}
      BY <1>3 DEF Placed
    <3>2. a \o rest \in Seq(Call) /\ InPlace(a \o rest) /\ Ahead(a \o rest) = Ahead(a) \cup Ahead(rest)
      BY <1>3, <2>1, <3>1, BeforeInPlace
    <3> QED
      BY <1>3, <2>1, <3>2
  <2> PICK x : x = [r EXCEPT !.todo = s, !.source = ContinueSource]
    OBVIOUS
  <2>3. x \in Request /\ x.todo = s /\ x.kill = {} /\ x.base = NoSnapshot
    BY <1>1, <1>4, <2>2 DEF Request
  <2>4. /\ InPlace(x.todo) /\ "kill" \notin Ahead(x.todo) /\ Ahead(x.todo) \cap {"close", "await"} = {}
        /\ 0 \notin x.kill /\ 0 \notin x.base.history /\ Start(p, x)
    BY <1>6, <2>2, <2>3, Beginnings
  <2>5. StepsTo(p, Ahead(x.todo)) /\ req[p] = Idle
    BY <1>1, <2>3, <2>4, Beginnings, StartSound
  <2> QED
    BY <1>6, <2>2, <2>3, <2>5
<1> QED
  BY <1>5, <1>6 DEF ReconcileBegin

LEMMA CrashMoves ==
  ASSUME ChainSound, NEW p \in Requests, Crash(p)
  PROVE  StepsTo(p, {}) /\ req'[p] = Idle
<1>1. lock \in [Task -> Owner] /\ req \in [Requests -> Request] /\ Idle \in Request /\ Gone \in Owner
  BY CallerMoves, IdleTyped DEF RequestsTyped, Owner
<1>2. /\ req' \in [Requests -> Request] /\ req'[p] = Idle /\ \A q \in Requests : q # p => req'[q] = req[q]
      /\ lock' \in [Task -> Owner]
  BY <1>1 DEF Crash
<1> QED
  BY <1>2, IdleSound DEF StepsTo, RequestsTyped

-----------------------------------------------------------------------------
(* What a step of a request leaves ahead.                                   *)

AllSourced == \A p \in Requests : SourceSound(req[p])

\* Calls of one kind of request each.
Ending == {"accept", "reject", "replay", "wake", "mark", "reconcile", "redo", "clean"}
Chain == {"await", "ensure", "check", "needs", "decide", "sweep", "close", "cancel", "reopen", "begin"}
Apart == {"create", "publish", "root", "source", "kill"}

\* Request p goes on, and gets these calls at most.
Heads(p, N) ==
  /\ RequestsTyped' /\ \A q \in Requests : q # p => req'[q] = req[q]
  /\ Sound(req'[p]) /\ Ahead(req'[p].todo) \subseteq N \cup Ahead(req[p].todo)
Tame(p) == Ahead(req'[p].todo) \cap Apart = {}

LEMMA CalmCaller ==
  ASSUME ChainSound, AllSourced, NEW p \in Requests, NEW c, Calling(p, c)
  PROVE  /\ c \notin Making \cup {"source"} => "source" \notin Ahead(req[p].todo)
         /\ c # "kill" => "kill" \notin Ahead(req[p].todo)
         /\ c \notin Apart => Ahead(req[p].todo) \cap Apart = {}
         /\ c \in {"source", "kill"} => Ahead(Rest(p)) \cap Apart = {}
<1>1. /\ RequestsTyped /\ Sound(req[p]) /\ SourceSound(req[p]) /\ req[p].todo \in Seq(Call)
  BY CallerMoves DEF AllSourced
<1>2. /\ req[p].todo # <<>> /\ Head(req[p].todo) = c /\ InPlace(req[p].todo) /\ Sourced(req[p].todo)
      /\ Rest(p) = Tail(req[p].todo)
  BY <1>1, CallingMoves DEF Sound, SourceSound
<1> PICK s : s = req[p].todo
  OBVIOUS
<1>3. /\ Len(s) \in Nat \ {0} /\ DOMAIN s = 1..Len(s) /\ s[1] = c /\ InPlace(s) /\ Sourced(s)
      /\ Len(Tail(s)) = Len(s) - 1 /\ \A i \in 1..Len(Tail(s)) : Tail(s)[i] = s[i + 1]
      /\ DOMAIN Tail(s) = 1..Len(Tail(s))
  BY <1>1, <1>2, EmptySeq, LenProperties, HeadTailProperties
<1>4. c \notin Making \cup {"source"} => "source" \notin Ahead(s)
  <2> SUFFICES ASSUME c \notin Making \cup {"source"}, NEW i \in DOMAIN s, s[i] = "source" PROVE FALSE
    BY DEF Ahead
  <2>1. i # 1 /\ i - 1 \in DOMAIN s /\ s[i - 1] = "root"
    BY <1>3 DEF Sourced
  <2> QED
    BY <2>1, <1>3 DEF InPlace, Making
<1>5. c # "kill" => "kill" \notin Ahead(s)
  <2> SUFFICES ASSUME NEW i \in DOMAIN s, s[i] = "kill" PROVE c = "kill"
    BY DEF Ahead
  <2> QED
    BY <1>3 DEF InPlace
<1>6. c \notin Making => Ahead(s) \cap Making = {}
  BY <1>1, <1>2, MakingIsFirst
<1>7. c \notin Apart => Ahead(s) \cap Apart = {}
  BY <1>4, <1>5, <1>6 DEF Apart, Making
<1>8. c \in {"source", "kill"} => Ahead(Rest(p)) \cap Apart = {}
  <2> SUFFICES ASSUME c \in {"source", "kill"} PROVE Ahead(Rest(p)) \cap Apart = {}
    OBVIOUS
  <2>1. /\ Ahead(Rest(p)) \subseteq Ahead(s) /\ Ahead(Rest(p)) \cap {"create", "await", "kill"} = {}
        /\ Ahead(Rest(p)) \cap Making = {}
    <3>1. c \notin {"create", "publish"}
      OBVIOUS
    <3> QED
      BY <1>1, <3>1, RestMoves
  <2>2. "source" \notin Ahead(Rest(p))
    <3>1. CASE c = "kill"
      BY <3>1, <1>4, <2>1 DEF Making
    <3>2. CASE c = "source"
      <4> SUFFICES ASSUME NEW i \in DOMAIN Tail(s), Tail(s)[i] = "source" PROVE FALSE
        BY <1>2 DEF Ahead
      <4>1. i + 1 \in DOMAIN s /\ s[i + 1] = "source" /\ i \in DOMAIN s /\ i + 1 # 1 /\ (i + 1) - 1 = i
        BY <1>3
      <4>2. s[i] = "root"
        BY <4>1, <1>3 DEF Sourced
      <4> QED
        BY <4>1, <4>2, <3>2, <1>3 DEF InPlace
    <3> QED
      BY <3>1, <3>2
  <2> QED
    BY <2>1, <2>2 DEF Apart, Making
<1> QED
  BY <1>4, <1>5, <1>7, <1>8

\* A request that only leaves its first call behind.
LEMMA TailSourced ==
  ASSUME NEW s \in Seq(Call), s # <<>>, Sourced(s)
  PROVE  Sourced(Tail(s))
<1>1. /\ Len(s) \in Nat \ {0} /\ DOMAIN s = 1..Len(s)
      /\ Len(Tail(s)) = Len(s) - 1 /\ \A i \in 1..Len(Tail(s)) : Tail(s)[i] = s[i + 1]
      /\ DOMAIN Tail(s) = 1..Len(Tail(s))
  BY EmptySeq, LenProperties, HeadTailProperties
<1> SUFFICES ASSUME NEW i \in DOMAIN Tail(s), Tail(s)[i] = "source", i # 1 PROVE Tail(s)[i - 1] = "root"
  BY DEF Sourced
<1>2. i + 1 \in DOMAIN s /\ s[i + 1] = "source" /\ i + 1 # 1 /\ (i + 1) - 1 = i /\ i - 1 \in 1..Len(Tail(s))
  BY <1>1
<1>3. s[i] = "root" /\ Tail(s)[i - 1] = s[(i - 1) + 1] /\ (i - 1) + 1 = i
  BY <1>1, <1>2 DEF Sourced
<1> QED
  BY <1>3

\* A request with no mark on a source ahead.
LEMMA NoSource ==
  ASSUME NEW x, "source" \notin Ahead(x.todo)
  PROVE  SourceSound(x)
BY DEF SourceSound, Sourced, Ahead

\* There is a chain to work on, or soon is.
Trouble(p) ==
  \/ \E t \in Task \ {0} : status[t] # "absent"
  \/ Failure(0) \/ Failure(0)' \/ resolution[0] # "none" \/ root.owner # Nobody
  \/ ~(Ahead(req[p].todo) \subseteq Ending)

\* The steps that are not about making a repair, and what they may add.
Turns(p) ==
  /\ Tame(p)
  /\ \/ Heads(p, Ending)
     \/ Heads(p, Ending \cup Chain) /\ Trouble(p)
     \/ Heads(p, {"sweep", "clear"}) /\ Accepted(0) /\ resolution[0] # "none"
     \/ Heads(p, {"audit"} \cup Ending \cup Chain) /\ (root.owner # Nobody \/ BeginContinue(p))
Creating(p) == Create(p) /\ status[req[p].cur] = "absent"

LEMMA GoesWith ==
  ASSUME NEW p \in Requests, NEW S, NEW N, StepsTo(p, S), S \subseteq N \cup Ahead(req[p].todo), S \cap Apart = {}
  PROVE  Tame(p) /\ Heads(p, N)
BY DEF StepsTo, Heads, Tame

LEMMA CallerTurns ==
  ASSUME ChainSound, AllSourced, NEW p \in Requests, Step(p)
  PROVE  Turns(p) \/ Ensure(p) \/ Creating(p) \/ PublishRepair(p) \/ WriteRoot(p) \/ Sweep(p)
<1>1. /\ RequestsTyped /\ Sound(req[p]) /\ SourceSound(req[p]) /\ req[p].task \in Task /\ req[p].by \in Task
  BY CallerMoves DEF AllSourced
<1>2. ASSUME NEW c, Calling(p, c)
      PROVE  c \in Ahead(req[p].todo) /\ Ahead(Rest(p)) \subseteq Ahead(req[p].todo)
  BY <1>1, <1>2, CallingMoves
<1>3. ASSUME NEW c, Calling(p, c), c \notin {"create", "publish", "root"}, StepsTo(p, Ahead(Rest(p)))
      PROVE  Turns(p)
  <2>1. Ahead(Rest(p)) \cap Apart = {}
    BY <1>2, <1>3, CalmCaller DEF Apart
  <2>2. Tame(p) /\ Heads(p, Ending)
    BY <1>2, <1>3, <2>1, GoesWith
  <2> QED
    BY <2>2 DEF Turns
<1>4. ASSUME NEW c, Calling(p, c), c \notin Apart, NEW N, NEW S, StepsTo(p, S),
             S \subseteq N \cup Ahead(req[p].todo), N \cap Apart = {}
      PROVE  Tame(p) /\ Heads(p, N)
  <2>1. Ahead(req[p].todo) \cap Apart = {}
    BY <1>4, CalmCaller
  <2> QED
    BY <1>4, <2>1, GoesWith
<1>5. CASE WriteSource(p) \/ AskPm(p) \/ KillChild(p) \/ Wake(p) \/ MarkApplied(p) \/ CancelCommit(p) \/ Audit(p) \/ Clear(p) \/ CleanCandidate(p)
  <2>1. StepsTo(p, Ahead(Rest(p)))
    BY <1>5, ReturnsMove DEF Follow
  <2>2. \E c : Calling(p, c) /\ c \notin {"create", "publish", "root"}
    BY <1>5 DEF WriteSource, AskPm, KillChild, Wake, MarkApplied, CancelCommit, Audit, Clear, CleanCandidate
  <2> QED
    BY <2>1, <2>2, <1>3
<1>6. CASE Create(p)
  <2> SUFFICES ASSUME status[req[p].cur] # "absent" PROVE Turns(p)
    BY <1>6 DEF Creating
  <2>0. \E S : Retries(p, S)
    BY <1>6, CreateMoves
  <2>1. PICK S : StepsTo(p, S) /\ S \subseteq {"ensure"} \cup Ahead(req[p].todo) /\ S \cap Making = {} /\ "source" \notin S
    BY <1>1, <2>0 DEF Retries
  <2>2. Calling(p, "create")
    BY <1>6 DEF Create
  <2>3. "kill" \notin Ahead(req[p].todo) /\ "create" \in Ahead(req[p].todo)
    BY <1>2, <2>2, CalmCaller
  <2>4. S \cap Apart = {}
    BY <2>1, <2>3 DEF Apart, Making
  <2>5. Tame(p) /\ Heads(p, {"ensure"})
    BY <2>1, <2>4, GoesWith
  <2>6. Trouble(p) /\ Heads(p, Ending \cup Chain)
    BY <2>3, <2>5 DEF Trouble, Heads, Ending, Chain
  <2> QED
    BY <2>5, <2>6 DEF Turns
<1>7. CASE AwaitReview(p) \/ Close(p)
  <2>1. PICK S : StepsTo(p, S) /\ S \subseteq Ahead(req[p].todo)
    BY <1>7, WalkMoves
  <2>2. \E c : Calling(p, c) /\ c \notin Apart
    BY <1>7 DEF AwaitReview, Close, Apart
  <2>3. Tame(p) /\ Heads(p, {})
    BY <1>4, <2>1, <2>2
  <2> QED
    BY <2>3 DEF Turns, Heads
<1>8. CASE \E ruling \in {"accept", "reject"} : Commit(p, ruling)
  <2> PICK ruling \in {"accept", "reject"} : Commit(p, ruling)
    BY <1>8
  <2>1. Calling(p, ruling) /\ ruling \notin Apart
    BY DEF Commit, Apart
  <2>2. CASE StepsTo(p, {"replay"})
    <3>1. Tame(p) /\ Heads(p, {"replay"})
      BY <2>1, <2>2, <1>4 DEF Apart
    <3> QED
      BY <3>1 DEF Turns, Heads, Ending
  <2>3. CASE StepsTo(p, {"ensure"}) /\ ruling = "reject" /\ SameReview(p, req[p].task)
    <3>1. Tame(p) /\ Heads(p, {"ensure"})
      BY <2>1, <2>3, <1>4 DEF Apart
    <3>2. Trouble(p)
      <4>1. status[req[p].task] = "done"
        BY <2>3 DEF SameReview, Awaiting
      <4>2. CASE req[p].task # 0
        BY <4>1, <4>2, <1>1 DEF Trouble
      <4>3. CASE req[p].task = 0
        <5>1. status' = status /\ review' = [review EXCEPT ![0] = "rejected"]
          BY <2>3, <4>3, <1>1 DEF Commit
        <5>2. review \in [Task -> {"none", "accepted", "rejected"}]
          BY RootMoves DEF TasksTyped
        <5>3. Failure(0)'
          BY <4>1, <4>3, <5>1, <5>2, TasksAre DEF Failure, Rejected
        <5> QED
          BY <5>3 DEF Trouble
      <4> QED
        BY <4>2, <4>3
    <3> QED
      BY <3>1, <3>2 DEF Turns, Heads, Chain
  <2>4. CASE StepsTo(p, {})
    <3>1. Tame(p) /\ Heads(p, {})
      BY <2>1, <2>4, <1>4
    <3> QED
      BY <3>1 DEF Turns, Heads
  <2> QED
    BY <2>2, <2>3, <2>4, CommitMoves
<1>9. CASE Replay(p)
  <2>1. Calling(p, "replay") /\ "replay" \notin Apart
    BY <1>9 DEF Replay, Apart
  <2>2. Ahead(Rest(p)) \subseteq Ahead(req[p].todo)
    BY <1>2, <2>1
  <2>3. CASE StepsTo(p, {"wake", "mark"} \cup Ahead(Rest(p)))
    <3>1. Tame(p) /\ Heads(p, {"wake", "mark"})
      BY <2>1, <2>2, <2>3, <1>4 DEF Apart
    <3> QED
      BY <3>1 DEF Turns, Heads, Ending
  <2>4. CASE StepsTo(p, {"sweep", "close", "wake", "mark"} \cup Ahead(Rest(p))) /\ fixFor[req[p].by] # NoTask /\ Accepted(req[p].by)
    <3>1. Tame(p) /\ Heads(p, {"sweep", "close", "wake", "mark"})
      BY <2>1, <2>2, <2>4, <1>4 DEF Apart
    <3>2. req[p].by # 0 /\ status[req[p].by] # "absent"
      BY <2>4, RootMoves DEF Accepted
    <3>3. Trouble(p) /\ Heads(p, Ending \cup Chain)
      BY <3>1, <3>2, <1>1 DEF Trouble, Heads, Ending, Chain
    <3> QED
      BY <3>1, <3>3 DEF Turns
  <2> QED
    BY <1>9, <2>3, <2>4, ReplayMoves
<1>10. CASE Reopen(p)
  <2>1. Calling(p, "reopen") /\ "reopen" \notin Apart
    BY <1>10 DEF Reopen, Apart
  <2>2. PICK S : StepsTo(p, S) /\ S \subseteq Ahead(Rest(p))
    BY <1>10, ReopenMoves
  <2>3. Tame(p) /\ Heads(p, {})
    BY <2>1, <2>2, <1>2, <1>4
  <2> QED
    BY <2>3 DEF Turns, Heads
<1>11. CASE BeginContinue(p)
  <2>1. Calling(p, "begin") /\ "begin" \notin Apart
    BY <1>11 DEF BeginContinue, Apart
  <2>2. CASE StepsTo(p, {"ensure", "audit"})
    <3>1. Tame(p) /\ Heads(p, {"ensure", "audit"})
      BY <2>1, <2>2, <1>4 DEF Apart
    <3> QED
      BY <3>1, <1>11 DEF Turns, Heads, Chain
  <2>3. CASE StepsTo(p, {})
    <3>1. Tame(p) /\ Heads(p, {})
      BY <2>1, <2>3, <1>4
    <3> QED
      BY <3>1 DEF Turns, Heads
  <2> QED
    BY <1>11, <2>2, <2>3, BeginMoves
<1>12. CASE Reconcile(p)
  <2>1. Calling(p, "reconcile") /\ "reconcile" \notin Apart
    BY <1>12 DEF Reconcile, Apart
  <2>2. Ahead(Rest(p)) \subseteq Ahead(req[p].todo)
    BY <1>2, <2>1
  <2>3. CASE StepsTo(p, Ahead(Rest(p)))
    BY <2>1, <2>3, <1>3
  <2>4. CASE StepsTo(p, {"sweep", "clear"} \cup Ahead(Rest(p))) /\ Accepted(0) /\ resolution[0] # "none"
    <3>1. Tame(p) /\ Heads(p, {"sweep", "clear"})
      BY <2>1, <2>2, <2>4, <1>4 DEF Apart
    <3> QED
      BY <3>1, <2>4 DEF Turns
  <2>5. CASE StepsTo(p, {"sweep", "ensure"} \cup Ahead(Rest(p))) /\ Failure(req[p].task)
    <3>1. Tame(p) /\ Heads(p, {"sweep", "ensure"})
      BY <2>1, <2>2, <2>5, <1>4 DEF Apart
    <3>2. Trouble(p)
      <4>1. status[req[p].task] # "absent"
        BY <2>5 DEF Failure, Rejected
      <4> QED
        BY <4>1, <1>1, <2>5 DEF Trouble
    <3>3. Heads(p, Ending \cup Chain)
      BY <3>1 DEF Heads, Chain
    <3> QED
      BY <3>1, <3>2, <3>3 DEF Turns
  <2> QED
    BY <1>12, <2>3, <2>4, <2>5, ReconcileMoves
<1>13. CASE Redo(p)
  <2>1. Calling(p, "redo") /\ "redo" \notin Apart
    BY <1>13 DEF Redo, Apart
  <2>2. StepsTo(p, {"replay"} \cup Ahead(req[p].todo))
    BY <1>13, RedoMoves
  <2>3. Tame(p) /\ Heads(p, {"replay"})
    BY <2>1, <2>2, <1>4 DEF Apart
  <2> QED
    BY <2>3 DEF Turns, Heads, Ending
<1>14. CASE Check(p) \/ Needs(p)
  <2>1. PICK c \in {"check", "needs"} : Calling(p, c)
    BY <1>14 DEF Check, Needs
  <2>2. PICK S : StepsTo(p, S) /\ S \subseteq {"needs", "decide"} \cup Ahead(req[p].todo)
    <3>1. CASE Check(p)
      BY <3>1, CheckMoves
    <3>2. CASE Needs(p)
      BY <2>1, <3>2, <1>2, NeedsMoves
    <3> QED
      BY <1>14, <3>1, <3>2
  <2>3. Tame(p) /\ Heads(p, {"needs", "decide"})
    BY <2>1, <2>2, <1>4 DEF Apart
  <2>4. Trouble(p) /\ Heads(p, Ending \cup Chain)
    BY <2>1, <2>3, <1>2 DEF Trouble, Heads, Ending, Chain
  <2> QED
    BY <2>3, <2>4 DEF Turns
<1> QED
  BY <1>5, <1>6, <1>7, <1>8, <1>9, <1>10, <1>11, <1>12, <1>13, <1>14 DEF Step

LEMMA BeginnerTurns ==
  ASSUME ChainSound, NEW p \in Requests, NEW t \in Task,
         \/ (ReportDone(p, t) /\ t # 0) \/ ReportFailed(p, t) \/ CancelTask(p, t)
         \/ ReviewBegin(p, t, "accept") \/ ReviewBegin(p, t, "reject") \/ ReconcileBegin(p, t)
         \/ DecideBegin(p, "cancel") \/ DecideBegin(p, "continue") \/ Crash(p)
  PROVE  Turns(p)
<1>1. ASSUME NEW S, StepsTo(p, S), S \cap Apart = {}
      PROVE  Tame(p) /\ Heads(p, S)
  BY <1>1, GoesWith
<1>2. ASSUME NEW S, StepsTo(p, S), S \subseteq Ending
      PROVE  Turns(p)
  <2>1. Tame(p) /\ Heads(p, S)
    BY <1>1, <1>2 DEF Ending, Apart
  <2>2. Heads(p, Ending)
    BY <1>2, <2>1 DEF Heads
  <2> QED
    BY <2>1, <2>2 DEF Turns
<1>3. ASSUME NEW S, StepsTo(p, S), S \subseteq Ending \cup Chain, Trouble(p)
      PROVE  Turns(p)
  <2>1. Tame(p) /\ Heads(p, S)
    BY <1>1, <1>3 DEF Ending, Chain, Apart
  <2>2. Heads(p, Ending \cup Chain)
    BY <1>3, <2>1 DEF Heads
  <2> QED
    BY <1>3, <2>1, <2>2 DEF Turns
<1>4. TasksTyped
  BY RootMoves
<1>5. CASE ReportDone(p, t) /\ t # 0
  <2>1. StepsTo(p, {"await"})
    BY <1>5, ReportBegins
  <2>2. Trouble(p)
    BY <1>5 DEF ReportDone, Trouble
  <2> QED
    BY <2>1, <2>2, <1>3 DEF Chain
<1>6. CASE ReportFailed(p, t)
  <2>1. StepsTo(p, {"ensure"})
    BY <1>6, ReportBegins
  <2>2. CASE t # 0
    <3>1. Trouble(p)
      BY <1>6, <2>2 DEF ReportFailed, Trouble
    <3> QED
      BY <2>1, <3>1, <1>3 DEF Chain
  <2>3. CASE t = 0
    <3>1. Failure(0)'
      BY <1>4, <1>6, <2>3, TasksAre DEF ReportFailed, Failure, TasksTyped
    <3>2. Trouble(p)
      BY <3>1 DEF Trouble
    <3> QED
      BY <2>1, <3>2, <1>3 DEF Chain
  <2> QED
    BY <2>2, <2>3
<1>7. CASE CancelTask(p, t)
  <2>1. StepsTo(p, {"check"})
    BY <1>7, ReportBegins
  <2>2. Trouble(p)
    BY <1>7 DEF CancelTask, Trouble
  <2> QED
    BY <2>1, <2>2, <1>3 DEF Chain
<1>8. CASE \E ruling \in {"accept", "reject"} : ReviewBegin(p, t, ruling)
  <2> PICK ruling \in {"accept", "reject"} : ReviewBegin(p, t, ruling)
    BY <1>8
  <2>1. CASE StepsTo(p, {ruling}) \/ StepsTo(p, {"replay"})
    BY <2>1, <1>2 DEF Ending
  <2>2. CASE StepsTo(p, {"ensure"}) /\ review[t] = "rejected"
    <3>1. status[t] = "done"
      BY DEF ReviewBegin
    <3>2. CASE t = 0
      <4>1. Failure(0)
        BY <2>2, <3>1, <3>2 DEF Failure, Rejected
      <4>2. Trouble(p)
        BY <4>1 DEF Trouble
      <4> QED
        BY <2>2, <4>2, <1>3 DEF Chain
    <3>3. CASE t # 0
      <4>1. Trouble(p)
        BY <3>1, <3>3 DEF Trouble
      <4> QED
        BY <2>2, <4>1, <1>3 DEF Chain
    <3> QED
      BY <3>2, <3>3
  <2> QED
    BY <2>1, <2>2, ReviewBegins
<1>9. CASE ReconcileBegin(p, t)
  <2>1. CASE StepsTo(p, {"reconcile", "redo", "clean"})
    BY <2>1, <1>2 DEF Ending
  <2>2. CASE StepsTo(p, {"ensure", "audit", "reconcile", "redo", "clean"}) /\ root.owner # Nobody
    <3>1. Tame(p) /\ Heads(p, {"ensure", "audit", "reconcile", "redo", "clean"})
      BY <2>2, <1>1 DEF Apart
    <3>2. Heads(p, {"audit"} \cup Ending \cup Chain)
      BY <3>1 DEF Heads, Ending, Chain
    <3> QED
      BY <2>2, <3>1, <3>2 DEF Turns
  <2> QED
    BY <1>9, <2>1, <2>2, ReconcileBegins
<1>10. CASE \E action \in {"cancel", "continue"} : DecideBegin(p, action)
  <2> PICK action \in {"cancel", "continue"} : DecideBegin(p, action)
    BY <1>10
  <2>1. CASE StepsTo(p, {"replay"})
    BY <2>1, <1>2 DEF Ending
  <2>2. CASE StepsTo(p, {"cancel", "reopen", "begin"}) /\ resolution[0] # "none"
    <3>1. Trouble(p)
      BY <2>2 DEF Trouble
    <3> QED
      BY <2>2, <3>1, <1>3 DEF Chain
  <2> QED
    BY <2>1, <2>2, DecideBegins
<1>11. CASE Crash(p)
  <2>1. StepsTo(p, {})
    BY <1>11, CrashMoves
  <2> QED
    BY <2>1, <1>2
<1> QED
  BY <1>5, <1>6, <1>7, <1>8, <1>9, <1>10, <1>11

\* The steps that leave the requests alone.
Alone ==
  \/ \E t \in Task : PickSuperseded(t) \/ Claim(t) \/ Reclaim(t) \/ Lose(t) \/ Expire(t)
  \/ \E p \in Requests : ReportDone(p, 0)
  \/ ResetRoot \/ SweepDependent

LEMMA AloneMoves ==
  ASSUME RequestsTyped, Alone
  PROVE  UNCHANGED req /\ RequestsTyped'
<1>1. Nobody \in Owner
  BY DEF Owner
<1>2. UNCHANGED req
  BY DEF Alone, PickSuperseded, Claim, Reclaim, Lose, Expire, ReportDone, ResetRoot, SweepDependent
<1>3. UNCHANGED lock \/ \E t \in Task : lock' = [lock EXCEPT ![t] = Nobody]
  BY DEF Alone, PickSuperseded, Claim, Reclaim, Lose, Expire, ReportDone, ResetRoot, SweepDependent
<1> QED
  BY <1>1, <1>2, <1>3 DEF RequestsTyped

\* The calls that make a repair.
Hands(p) ==
  /\ StepsTo(p, Ahead(Rest(p)))
  /\ req'[p].todo = Rest(p) /\ (req'[p].todo # <<>> => req'[p].source = req[p].source)
  /\ \/ ((Creating(p) /\ Calling(p, "create")) \/ (PublishRepair(p) /\ Calling(p, "publish"))) /\ MakesOn(p)
     \/ WriteRoot(p) /\ Calling(p, "root")

LEMMA HandsMove ==
  ASSUME ChainSound, NEW p \in Requests, Creating(p) \/ PublishRepair(p) \/ WriteRoot(p)
  PROVE  Hands(p)
<1>1. CASE Creating(p)
  <2>1. Calling(p, "create") /\ StepsTo(p, Ahead(Rest(p))) /\ MakesOn(p)
    BY <1>1, CreateMoves DEF Creating, Create
  <2> QED
    BY <1>1, <2>1 DEF Hands, MakesOn
<1>2. CASE PublishRepair(p)
  <2>1. StepsTo(p, Ahead(Rest(p))) /\ MakesOn(p)
    BY <1>2, ReturnsMove, PublishMoves DEF Follow
  <2>2. Calling(p, "publish")
    BY <1>2 DEF PublishRepair
  <2> QED
    BY <1>2, <2>1, <2>2 DEF Hands, MakesOn
<1>3. CASE WriteRoot(p)
  <2>1. StepsTo(p, Ahead(Rest(p)))
    BY <1>3, ReturnsMove DEF Follow
  <2>2. Calling(p, "root")
    BY <1>3 DEF WriteRoot
  <2> QED
    BY <1>3, <2>1, <2>2, WriteRootMoves DEF Hands
<1> QED
  BY <1>1, <1>2, <1>3

\* Every step is of one of these kinds.
LEMMA EveryStep ==
  ASSUME ChainSound, AllSourced, RepairNext
  PROVE  \/ Alone
         \/ \E p \in Requests : Turns(p) \/ Ensure(p) \/ Hands(p) \/ Sweep(p)
<1>1. CASE \E p \in Requests : Step(p)
  BY <1>1, CallerTurns, HandsMove
<1>2. CASE \E p \in Requests, t \in Task :
             \/ ReportDone(p, t) \/ ReportFailed(p, t) \/ CancelTask(p, t)
             \/ ReviewBegin(p, t, "accept") \/ ReviewBegin(p, t, "reject") \/ ReconcileBegin(p, t)
  <2> PICK p \in Requests, t \in Task :
             \/ ReportDone(p, t) \/ ReportFailed(p, t) \/ CancelTask(p, t)
             \/ ReviewBegin(p, t, "accept") \/ ReviewBegin(p, t, "reject") \/ ReconcileBegin(p, t)
    BY <1>2
  <2>1. CASE ReportDone(p, t) /\ t = 0
    BY <2>1 DEF Alone
  <2>2. CASE ~(ReportDone(p, t) /\ t = 0)
    <3>1. Turns(p)
      BY <2>2, BeginnerTurns
    <3> QED
      BY <3>1
  <2> QED
    BY <2>1, <2>2
<1>3. CASE \E p \in Requests : DecideBegin(p, "cancel") \/ DecideBegin(p, "continue") \/ Crash(p)
  <2> PICK p \in Requests : DecideBegin(p, "cancel") \/ DecideBegin(p, "continue") \/ Crash(p)
    BY <1>3
  <2>1. 0 \in Task
    BY TasksAre
  <2>2. Turns(p)
    BY <2>1, BeginnerTurns
  <2> QED
    BY <2>2
<1>4. CASE \/ \E t \in Task : PickSuperseded(t) \/ Claim(t) \/ Reclaim(t) \/ Lose(t) \/ Expire(t)
           \/ ResetRoot \/ SweepDependent
  BY <1>4 DEF Alone
<1> QED
  BY <1>1, <1>2, <1>3, <1>4 DEF RepairNext

\* So of every request.
LEMMA WhoMoves ==
  ASSUME ChainSound, AllSourced, RepairNext
  PROVE  /\ RequestsTyped'
         /\ \A q \in Requests : req'[q] = req[q] \/ Turns(q) \/ Ensure(q) \/ Hands(q) \/ Sweep(q)
<1>1. ASSUME NEW p \in Requests, Turns(p) PROVE RequestsTyped' /\ \A q \in Requests : q # p => req'[q] = req[q]
  BY <1>1 DEF Turns, Heads
<1>2. ASSUME NEW p \in Requests, Ensure(p) \/ Hands(p) \/ Sweep(p)
      PROVE  RequestsTyped' /\ \A q \in Requests : q # p => req'[q] = req[q]
  <2>1. \E S : StepsTo(p, S)
    BY <1>2, EnsureMoves, SweepMoves DEF Hands
  <2> QED
    BY <2>1 DEF StepsTo
<1>3. CASE Alone
  BY <1>3, AloneMoves, TypeParts DEF ChainSound
<1> QED
  BY <1>1, <1>2, <1>3, EveryStep

\* Who gets a call it had not ahead.
LEMMA NewCall ==
  ASSUME ChainSound, AllSourced, RepairNext, NEW q \in Requests, NEW c \in Ahead(req'[q].todo), c \notin Ahead(req[q].todo)
  PROVE  \/ Turns(q)
         \/ Ensure(q) /\ c \in {"await", "needs", "create", "publish", "root", "source"}
         \/ Sweep(q) /\ c = "kill"
<1>1. ASSUME NEW d, Calling(q, d) PROVE Ahead(Rest(q)) \subseteq Ahead(req[q].todo)
  BY <1>1, CallerMoves, CallingMoves
<1>2. CASE Ensure(q)
  <2>1. Ahead(Rest(q)) \subseteq Ahead(req[q].todo)
    BY <1>1, <1>2 DEF Ensure
  <2> QED
    BY <1>2, <2>1, EnsureMoves DEF StepsTo
<1>3. CASE Hands(q)
  BY <1>1, <1>3 DEF Hands, StepsTo
<1>4. CASE Sweep(q)
  BY <1>4, SweepMoves DEF StepsTo
<1> QED
  BY <1>2, <1>3, <1>4, WhoMoves

\* The requests stay well-formed.
LEMMA RequestsKeep ==
  ASSUME ChainSound, AllSourced, RepairNext
  PROVE  RequestsTyped' /\ AllSound' /\ AllSourced'
<1>1. RequestsTyped /\ AllSound /\ RequestsTyped'
  BY TypeParts, WhoMoves DEF ChainSound
<1> SUFFICES ASSUME NEW q \in Requests PROVE Sound(req'[q]) /\ SourceSound(req'[q])
  BY <1>1 DEF AllSound, AllSourced
<1>2. CASE req'[q] = req[q]
  BY <1>1, <1>2 DEF AllSound, AllSourced
<1>3. CASE Turns(q)
  <2>1. Sound(req'[q]) /\ "source" \notin Ahead(req'[q].todo)
    BY <1>3 DEF Turns, Heads, Tame, Apart
  <2> QED
    BY <2>1, NoSource
<1>4. CASE Hands(q)
  <2>1. /\ req[q].todo \in Seq(Call) /\ req[q].todo # <<>> /\ Rest(q) = Tail(req[q].todo)
        /\ Ahead(Rest(q)) \subseteq Ahead(req[q].todo)
    BY <1>1, <1>4, CallingMoves DEF Hands
  <2>2. Sourced(req[q].todo) /\ ("source" \in Ahead(req[q].todo) => req[q].source # 0)
    BY DEF AllSourced, SourceSound
  <2>3. Sourced(Tail(req[q].todo))
    BY <2>1, <2>2, TailSourced
  <2>4. CASE Rest(q) = <<>>
    <3>1. "source" \notin Ahead(<<>>)
      BY KnownCalls
    <3> QED
      BY <3>1, <2>4, <1>4, NoSource DEF Hands, StepsTo
  <2>5. CASE Rest(q) # <<>>
    BY <1>4, <2>1, <2>2, <2>3, <2>5 DEF SourceSound, Hands, StepsTo
  <2> QED
    BY <2>4, <2>5
<1>5. CASE Ensure(q)
  <2>1. Calling(q, "ensure") /\ "ensure" \notin Making \cup {"source"}
    BY <1>5 DEF Ensure, Making
  <2>2. "source" \notin Ahead(Rest(q))
    BY <1>1, <2>1, CallingMoves, CalmCaller
  <2>3. Sound(req'[q])
    BY <1>5, EnsureMoves DEF StepsTo
  <2>4. CASE Ahead(req'[q].todo) \subseteq {"await", "needs"} \cup Ahead(Rest(q))
    <3>1. "source" \notin Ahead(req'[q].todo)
      BY <2>2, <2>4
    <3> QED
      BY <2>3, <3>1, NoSource
  <2>5. CASE Sourced(req'[q].todo) /\ ("source" \in Ahead(req'[q].todo) => req'[q].source # 0)
    BY <2>3, <2>5 DEF SourceSound
  <2> QED
    BY <1>5, <2>2, <2>4, <2>5, EnsureMoves
<1>6. CASE Sweep(q)
  <2>1. Calling(q, "sweep") /\ "sweep" \notin Making \cup {"source"}
    BY <1>6 DEF Sweep, Making
  <2>2. "source" \notin Ahead(req[q].todo)
    BY <2>1, CalmCaller
  <2>3. Sound(req'[q]) /\ "source" \notin Ahead(req'[q].todo)
    BY <1>6, <2>2, SweepMoves DEF StepsTo
  <2> QED
    BY <2>3, NoSource
<1> QED
  BY <1>2, <1>3, <1>4, <1>5, <1>6, WhoMoves

-----------------------------------------------------------------------------
(* Which steps change what.                                                 *)

LEMMA TaskChanges ==
  ASSUME RepairNext
  PROVE  \/ UNCHANGED <<status, review, fixFor, queued>>
         \/ \E t \in Task : PickSuperseded(t) \/ Claim(t) \/ Reclaim(t)
         \/ \E p \in Requests, t \in Task : ReportDone(p, t) \/ ReportFailed(p, t) \/ CancelTask(p, t)
         \/ \E p \in Requests : Create(p) \/ PublishRepair(p) \/ KillChild(p) \/ Reconcile(p)
         \/ \E p \in Requests, ruling \in {"accept", "reject"} : Commit(p, ruling)
         \/ ResetRoot
<1> DEFINE Same == UNCHANGED <<status, review, fixFor, queued>>
<1>1. ASSUME NEW p \in Requests, Step(p)
      PROVE  \/ Same
             \/ Create(p) \/ PublishRepair(p) \/ KillChild(p) \/ Reconcile(p)
             \/ \E ruling \in {"accept", "reject"} : Commit(p, ruling)
  <2>1. CASE Ensure(p) \/ WriteRoot(p) \/ WriteSource(p) \/ AwaitReview(p) \/ Check(p) \/ Needs(p) \/ AskPm(p)
    BY <2>1 DEF Ensure, WriteRoot, WriteSource, AwaitReview, Check, Needs, AskPm, taskVars
  <2>2. CASE Replay(p) \/ Sweep(p) \/ Close(p) \/ Wake(p) \/ MarkApplied(p)
    BY <2>2 DEF Replay, Sweep, Close, Wake, MarkApplied, taskVars
  <2>3. CASE CancelCommit(p) \/ Reopen(p) \/ BeginContinue(p) \/ Audit(p) \/ Clear(p) \/ Redo(p) \/ CleanCandidate(p)
    BY <2>3 DEF CancelCommit, Reopen, BeginContinue, Audit, Clear, Redo, CleanCandidate, taskVars
  <2> QED
    BY <1>1, <2>1, <2>2, <2>3 DEF Step
<1>2. ASSUME NEW p \in Requests, NEW t \in Task,
             ReviewBegin(p, t, "accept") \/ ReviewBegin(p, t, "reject") \/ ReconcileBegin(p, t)
      PROVE  Same
  BY <1>2 DEF ReviewBegin, ReconcileBegin, taskVars
<1>3. ASSUME NEW p \in Requests, DecideBegin(p, "cancel") \/ DecideBegin(p, "continue") \/ Crash(p)
      PROVE  Same
  BY <1>3 DEF DecideBegin, Crash, taskVars
<1>4. ASSUME NEW t \in Task, Lose(t) \/ Expire(t)
      PROVE  Same
  BY <1>4 DEF Lose, Expire, taskVars
<1>5. SweepDependent => Same
  BY DEF SweepDependent, taskVars
<1> QED
  BY <1>1, <1>2, <1>3, <1>4, <1>5 DEF RepairNext

LEMMA ChainChanges ==
  ASSUME RepairNext
  PROVE  \/ UNCHANGED <<resolution, pointer, resolvedBy, root>>
         \/ \E p \in Requests : \/ WriteRoot(p) \/ WriteSource(p) \/ AwaitReview(p) \/ AskPm(p) \/ Close(p)
                                \/ CancelCommit(p) \/ Reopen(p) \/ BeginContinue(p) \/ Audit(p) \/ Clear(p) \/ Crash(p)
         \/ \E p \in Requests, t \in Task : ReconcileBegin(p, t)
         \/ ResetRoot
<1> DEFINE Same == UNCHANGED <<resolution, pointer, resolvedBy, root>>
<1>1. ASSUME NEW p \in Requests, Step(p)
      PROVE  \/ Same
             \/ WriteRoot(p) \/ WriteSource(p) \/ AwaitReview(p) \/ AskPm(p) \/ Close(p)
             \/ CancelCommit(p) \/ Reopen(p) \/ BeginContinue(p) \/ Audit(p) \/ Clear(p)
  <2>1. CASE Ensure(p) \/ Create(p) \/ PublishRepair(p) \/ Check(p) \/ Needs(p) \/ Commit(p, "accept") \/ Commit(p, "reject")
    BY <2>1 DEF Ensure, Create, PublishRepair, Check, Needs, Commit, chainVars
  <2>2. CASE Replay(p) \/ Sweep(p) \/ KillChild(p) \/ Wake(p) \/ MarkApplied(p) \/ Reconcile(p) \/ Redo(p) \/ CleanCandidate(p)
    BY <2>2 DEF Replay, Sweep, KillChild, Wake, MarkApplied, Reconcile, Redo, CleanCandidate, chainVars
  <2> QED
    BY <1>1, <2>1, <2>2 DEF Step
<1>2. ASSUME NEW p \in Requests, NEW t \in Task,
             \/ ReportDone(p, t) \/ ReportFailed(p, t) \/ CancelTask(p, t)
             \/ ReviewBegin(p, t, "accept") \/ ReviewBegin(p, t, "reject")
      PROVE  Same
  BY <1>2 DEF ReportDone, ReportFailed, CancelTask, ReviewBegin, chainVars
<1>3. ASSUME NEW p \in Requests, DecideBegin(p, "cancel") \/ DecideBegin(p, "continue")
      PROVE  Same
  BY <1>3 DEF DecideBegin, chainVars
<1>4. ASSUME NEW t \in Task, PickSuperseded(t) \/ Claim(t) \/ Reclaim(t) \/ Lose(t) \/ Expire(t)
      PROVE  Same
  BY <1>4 DEF PickSuperseded, Claim, Reclaim, Lose, Expire, chainVars
<1>5. SweepDependent => Same
  BY DEF SweepDependent, chainVars
<1> QED
  BY <1>1, <1>2, <1>3, <1>4, <1>5 DEF RepairNext

LEMMA DoneChanges ==
  ASSUME RepairNext
  PROVE  \/ UNCHANGED <<applied, candidates, dependent>>
         \/ \E p \in Requests : \/ Wake(p) \/ MarkApplied(p) \/ Reopen(p) \/ BeginContinue(p) \/ Audit(p) \/ CleanCandidate(p)
         \/ \E p \in Requests, ruling \in {"accept", "reject"} : Commit(p, ruling)
         \/ \E p \in Requests, t \in Task : ReportFailed(p, t) \/ ReconcileBegin(p, t)
         \/ ResetRoot \/ SweepDependent
<1> DEFINE Same == UNCHANGED <<applied, candidates, dependent>>
<1>1. ASSUME NEW p \in Requests, Step(p)
      PROVE  \/ Same
             \/ Wake(p) \/ MarkApplied(p) \/ Reopen(p) \/ BeginContinue(p) \/ Audit(p) \/ CleanCandidate(p)
             \/ \E ruling \in {"accept", "reject"} : Commit(p, ruling)
  <2>1. CASE Ensure(p) \/ Create(p) \/ PublishRepair(p) \/ WriteRoot(p) \/ WriteSource(p) \/ AwaitReview(p)
    BY <2>1 DEF Ensure, Create, PublishRepair, WriteRoot, WriteSource, AwaitReview, doneVars
  <2>3. CASE Check(p) \/ Needs(p) \/ AskPm(p)
    BY <2>3 DEF Check, Needs, AskPm, doneVars
  <2>2. CASE Replay(p) \/ Sweep(p) \/ KillChild(p) \/ Close(p) \/ CancelCommit(p) \/ Reconcile(p) \/ Clear(p) \/ Redo(p)
    BY <2>2 DEF Replay, Sweep, KillChild, Close, CancelCommit, Reconcile, Clear, Redo, doneVars
  <2> QED
    BY <1>1, <2>1, <2>2, <2>3 DEF Step
<1>2. ASSUME NEW p \in Requests, NEW t \in Task,
             \/ ReportDone(p, t) \/ CancelTask(p, t) \/ ReviewBegin(p, t, "accept") \/ ReviewBegin(p, t, "reject")
      PROVE  Same
  BY <1>2 DEF ReportDone, CancelTask, ReviewBegin, doneVars
<1>3. ASSUME NEW p \in Requests, DecideBegin(p, "cancel") \/ DecideBegin(p, "continue") \/ Crash(p)
      PROVE  Same
  BY <1>3 DEF DecideBegin, Crash, doneVars
<1>4. ASSUME NEW t \in Task, PickSuperseded(t) \/ Claim(t) \/ Reclaim(t) \/ Lose(t) \/ Expire(t)
      PROVE  Same
  BY <1>4 DEF PickSuperseded, Claim, Reclaim, Lose, Expire, doneVars
<1> QED
  BY <1>1, <1>2, <1>3, <1>4 DEF RepairNext

LEMMA BoundChanges ==
  ASSUME RepairNext
  PROVE  \/ UNCHANGED <<audits, continues, resets, crashes, limit, diverted>>
         \/ \E p \in Requests : AwaitReview(p) \/ AskPm(p) \/ Close(p) \/ Clear(p) \/ BeginContinue(p) \/ Audit(p) \/ Crash(p)
         \/ \E t \in Task : Lose(t)
         \/ ResetRoot
<1> DEFINE Same == UNCHANGED <<audits, continues, resets, crashes, limit, diverted>>
<1>1. ASSUME NEW p \in Requests, Step(p)
      PROVE  \/ Same
             \/ AwaitReview(p) \/ AskPm(p) \/ Close(p) \/ Clear(p) \/ BeginContinue(p) \/ Audit(p)
  <2>1. CASE Ensure(p) \/ Create(p) \/ PublishRepair(p) \/ WriteRoot(p) \/ WriteSource(p) \/ Check(p) \/ Needs(p)
    BY <2>1 DEF Ensure, Create, PublishRepair, WriteRoot, WriteSource, Check, Needs, bounds, counters
  <2>2. CASE Commit(p, "accept") \/ Commit(p, "reject") \/ Replay(p) \/ Sweep(p) \/ KillChild(p) \/ Wake(p) \/ MarkApplied(p)
    BY <2>2 DEF Commit, Replay, Sweep, KillChild, Wake, MarkApplied, bounds, counters
  <2>3. CASE CancelCommit(p) \/ Reopen(p) \/ Reconcile(p) \/ Redo(p) \/ CleanCandidate(p)
    BY <2>3 DEF CancelCommit, Reopen, Reconcile, Redo, CleanCandidate, bounds, counters
  <2> QED
    BY <1>1, <2>1, <2>2, <2>3 DEF Step
<1>2. ASSUME NEW p \in Requests, NEW t \in Task,
             \/ ReportDone(p, t) \/ ReportFailed(p, t) \/ CancelTask(p, t) \/ ReviewBegin(p, t, "accept")
             \/ ReviewBegin(p, t, "reject") \/ ReconcileBegin(p, t)
      PROVE  Same
  BY <1>2 DEF ReportDone, ReportFailed, CancelTask, ReviewBegin, ReconcileBegin, bounds, counters
<1>3. ASSUME NEW p \in Requests, DecideBegin(p, "cancel") \/ DecideBegin(p, "continue")
      PROVE  Same
  BY <1>3 DEF DecideBegin, bounds, counters
<1>4. ASSUME NEW t \in Task, PickSuperseded(t) \/ Claim(t) \/ Reclaim(t) \/ Expire(t)
      PROVE  Same
  BY <1>4 DEF PickSuperseded, Claim, Reclaim, Expire, bounds, counters
<1>5. SweepDependent => Same
  BY DEF SweepDependent, bounds, counters
<1> QED
  BY <1>1, <1>2, <1>3, <1>4, <1>5 DEF RepairNext

-----------------------------------------------------------------------------
(* Tasks come into being one after the other.                               *)

\* A child that is going to be killed exists.
KillKnown == \A p \in Requests : "kill" \in Ahead(req[p].todo) => status[req[p].cur] # "absent"

\* No task comes into being, or goes, and none but the root goes to work again.
Remains ==
  /\ fixFor' = fixFor /\ \A t \in Task : (status'[t] = "absent") <=> (status[t] = "absent")
  /\ \A t \in Task \ {0} : status'[t] \in {"pending", "running"} => status[t] \in {"pending", "running"}

LEMMA TaskMoves ==
  ASSUME TasksTyped, QueueTyped, NEW t \in Task, NEW v \in Status \ {"absent"}, status[t] # "absent",
         status' = [status EXCEPT ![t] = v], fixFor' = fixFor,
         t # 0 /\ v \in {"pending", "running"} => status[t] \in {"pending", "running"},
         queued' \subseteq queued \cup {t}, t \in queued' => v = "pending"
  PROVE  Remains /\ status' \in [Task -> Status] /\ QueueTyped'
<1>1. status \in [Task -> Status] /\ queued \subseteq Task /\ \A u \in queued : status[u] = "pending"
  BY DEF TasksTyped, QueueTyped
<1>2. status' \in [Task -> Status] /\ status'[t] = v /\ \A u \in Task : u # t => status'[u] = status[u]
  BY <1>1
<1>3. Remains
  BY <1>2 DEF Remains
<1>4. QueueTyped'
  BY <1>1, <1>2 DEF QueueTyped
<1> QED
  BY <1>2, <1>3, <1>4

LEMMA TasksMove ==
  ASSUME ChainSound, KillKnown, RepairNext
  PROVE  TasksTyped' /\ QueueTyped' /\ (Remains \/ \E p \in Requests : Creating(p))
<1> DEFINE Fine == TasksTyped' /\ QueueTyped' /\ Remains
<1> DEFINE Reviews == review' \in [Task -> {"none", "accepted", "rejected"}]
<1>1. TasksTyped /\ QueueTyped /\ ChainTyped
  BY TypeParts DEF ChainSound
<1>2. /\ status \in [Task -> Status] /\ review \in [Task -> {"none", "accepted", "rejected"}]
      /\ fixFor \in [Task -> Task \cup {NoTask}] /\ queued \subseteq Task /\ \A t \in queued : status[t] = "pending"
  BY <1>1 DEF TasksTyped, QueueTyped
<1>3. ASSUME NEW t \in Task, NEW v \in Status \ {"absent"}, status[t] # "absent",
             status' = [status EXCEPT ![t] = v], fixFor' = fixFor, Reviews,
             t # 0 /\ v \in {"pending", "running"} => status[t] \in {"pending", "running"},
             queued' \subseteq queued \cup {t}, t \in queued' => v = "pending"
      PROVE  Fine
  <2>1. Remains /\ status' \in [Task -> Status] /\ QueueTyped'
    BY <1>1, <1>3, TaskMoves
  <2> QED
    BY <2>1, <1>2, <1>3 DEF TasksTyped
<1>4. ASSUME status' = status, fixFor' = fixFor, Reviews, QueueTyped'
      PROVE  Fine
  BY <1>2, <1>4 DEF TasksTyped, Remains
<1>5. ASSUME NEW u \in Task, status' = status, queued' = WithPublished(u)
      PROVE  QueueTyped'
  BY <1>2, <1>5 DEF WithPublished, QueueTyped
<1>6. {"pending", "running", "done", "failed", "cancelled"} \subseteq Status \ {"absent"}
  BY DEF Status
<1>7. CASE UNCHANGED <<status, review, fixFor, queued>>
  <2>1. QueueTyped'
    BY <1>2, <1>7 DEF QueueTyped
  <2> QED
    BY <2>1, <1>2, <1>4, <1>7
<1>8. ASSUME NEW t \in Task, PickSuperseded(t) PROVE Fine
  BY <1>2, <1>3, <1>6, <1>8 DEF PickSuperseded
<1>9. ASSUME NEW t \in Task, Claim(t) PROVE Fine
  BY <1>2, <1>3, <1>6, <1>9 DEF Claim
<1>10. ASSUME NEW t \in Task, Reclaim(t) PROVE Fine
  <2>1. CASE Superseded(t)
    BY <2>1, <1>2, <1>3, <1>6, <1>10 DEF Reclaim
  <2>2. CASE ~Superseded(t)
    BY <2>2, <1>2, <1>3, <1>6, <1>10 DEF Reclaim
  <2> QED
    BY <2>1, <2>2
<1>11. ASSUME NEW p \in Requests, NEW t \in Task, ReportDone(p, t) PROVE Fine
  BY <1>2, <1>3, <1>6, <1>11 DEF ReportDone
<1>12. ASSUME NEW p \in Requests, NEW t \in Task, ReportFailed(p, t) PROVE Fine
  BY <1>2, <1>3, <1>6, <1>12 DEF ReportFailed
<1>13. ASSUME NEW p \in Requests, NEW t \in Task, CancelTask(p, t) PROVE Fine
  BY <1>2, <1>3, <1>6, <1>13 DEF CancelTask
<1>14. ASSUME NEW p \in Requests, Create(p)
       PROVE TasksTyped' /\ QueueTyped' /\ (Remains \/ Creating(p))
  <2>1. req[p].cur \in Task /\ req[p].source \in Task
    BY CallerMoves
  <2>2. review' = review /\ queued' = queued
    BY <1>14 DEF Create
  <2>3. CASE status[req[p].cur] # "absent"
    <3>1. status' = status /\ fixFor' = fixFor
      BY <1>14, <2>3, CreateMoves
    <3>2. QueueTyped'
      BY <2>2, <3>1, <1>2 DEF QueueTyped
    <3> QED
      BY <1>2, <1>4, <2>2, <3>1, <3>2
  <2>4. CASE status[req[p].cur] = "absent"
    <3>1. status' = [status EXCEPT ![req[p].cur] = "pending"] /\ fixFor' = [fixFor EXCEPT ![req[p].cur] = req[p].source]
      BY <1>14, <2>4, CreateMoves
    <3>2. TasksTyped'
      BY <1>2, <1>6, <2>1, <2>2, <3>1 DEF TasksTyped
    <3>3. \A u \in Task : status[u] = "pending" => status'[u] = "pending"
      BY <1>2, <2>1, <3>1
    <3>4. QueueTyped'
      BY <1>2, <2>2, <3>3 DEF QueueTyped
    <3> QED
      BY <1>14, <2>4, <3>2, <3>4 DEF Creating
  <2> QED
    BY <2>3, <2>4
<1>15. ASSUME NEW p \in Requests, PublishRepair(p) PROVE Fine
  <2>1. req[p].cur \in Task
    BY CallerMoves
  <2>2. QueueTyped'
    BY <2>1, <1>5, <1>15 DEF PublishRepair
  <2> QED
    BY <2>2, <1>2, <1>4, <1>15 DEF PublishRepair
<1>16. ASSUME NEW p \in Requests, KillChild(p) PROVE Fine
  <2>1. RequestsTyped /\ req[p].cur \in Task
    BY CallerMoves
  <2>2. "kill" \in Ahead(req[p].todo)
    BY <1>16, <2>1, CallingMoves DEF KillChild
  <2>3. status[req[p].cur] # "absent"
    BY <2>2 DEF KillKnown
  <2>4. status' = [status EXCEPT ![req[p].cur] = "cancelled"] /\ queued' = queued \ {req[p].cur} /\ review' = review /\ fixFor' = fixFor
    BY <1>16 DEF KillChild
  <2> QED
    BY <1>2, <1>3, <1>6, <2>1, <2>3, <2>4
<1>17. ASSUME NEW p \in Requests, Reconcile(p) PROVE Fine
  <2>1. status' = status /\ review' = review /\ fixFor' = fixFor
    BY <1>17 DEF Reconcile
  <2>2. queued' = queued \/ (pointer[0] # NoTask /\ queued' = WithPublished(pointer[0]))
    BY <1>17 DEF Reconcile, ReconcileAccepted, ReconcileHalted, ReconcileFailure
  <2>3. pointer[0] \in Task \cup {NoTask}
    BY RootMoves
  <2>4. QueueTyped'
    <3>1. CASE queued' = queued
      BY <1>2, <2>1, <3>1 DEF QueueTyped
    <3>2. CASE pointer[0] # NoTask /\ queued' = WithPublished(pointer[0])
      BY <1>5, <2>1, <2>3, <3>2
    <3> QED
      BY <2>2, <3>1, <3>2
  <2> QED
    BY <1>2, <1>4, <2>1, <2>4
<1>18. ASSUME NEW p \in Requests, NEW ruling \in {"accept", "reject"}, Commit(p, ruling)
       PROVE Fine
  <2>1. status' = status /\ fixFor' = fixFor /\ queued' = queued
    BY <1>18 DEF Commit
  <2>2. \/ review' = review
        \/ review' = [review EXCEPT ![req[p].task] = IF ruling = "accept" THEN "accepted" ELSE "rejected"]
    <3>1. [req[p] EXCEPT !.base = NoSnapshot].task = req[p].task
      BY CallerMoves DEF Request
    <3> QED
      BY <1>18, <3>1 DEF Commit
  <2>3. Reviews
    BY <1>2, <2>2
  <2>4. QueueTyped'
    BY <1>2, <2>1 DEF QueueTyped
  <2> QED
    BY <1>4, <2>1, <2>3, <2>4
<1>19. CASE ResetRoot
  <2>1. 0 \in Task /\ "pending" \in Status \ {"absent"}
    BY TasksAre, <1>6
  <2>2. /\ status' = [status EXCEPT ![0] = "pending"] /\ review' = [review EXCEPT ![0] = "none"] /\ fixFor' = fixFor
        /\ queued' = queued \cup {0} /\ status[0] # "absent"
    BY <1>19 DEF ResetRoot
  <2> QED
    BY <1>2, <1>3, <2>1, <2>2
<1> QED
  BY <1>7, <1>8, <1>9, <1>10, <1>11, <1>12, <1>13, <1>14, <1>15, <1>16, <1>17, <1>18, <1>19, TaskChanges

\* Request x makes a repair: it knows which, and all before that one exist.
MakesNow(x) == x.todo # <<>> /\ Head(x.todo) \in Making
MakesNext ==
  \A p \in Requests : MakesNow(req[p]) =>
    /\ req[p].cur # 0 /\ (Head(req[p].todo) = "create" \/ status[req[p].cur] # "absent")
    /\ \A t \in 1..(req[p].cur - 1) : status[t] # "absent"

\* The root after a continue is done with, or its request gone.
LEMMA RootKept ==
  ASSUME RootTyped, NEW p \in Requests
  PROVE  /\ root' \in {root, Released, Forget(p)} => RootTyped' /\ root'.history = root.history /\ root'.gen = root.gen
                                                       /\ root'.attempts = root.attempts
         /\ Released.owner = Nobody /\ (root.owner = Nobody => Forget(p).owner = Nobody)
         /\ root.owner # Nobody => Forget(p).owner # Nobody
<1>1. NoSnapshot \in Snapshot /\ Nobody \in Owner /\ Gone \in Owner
  BY IdleTyped DEF Owner
<1> PICK a : a = Released
  OBVIOUS
<1>2. /\ a \in [gen : Task, attempts : Nat, history : SUBSET Task, why : Why, owner : Owner, snapshot : Snapshot]
      /\ a.history = root.history /\ a.gen = root.gen /\ a.attempts = root.attempts /\ a.owner = Nobody
  BY <1>1 DEF Released, RootTyped
<1> PICK b : b = Forget(p)
  OBVIOUS
<1>3. /\ b \in [gen : Task, attempts : Nat, history : SUBSET Task, why : Why, owner : Owner, snapshot : Snapshot]
      /\ b.history = root.history /\ b.gen = root.gen /\ b.attempts = root.attempts
      /\ b.owner = IF root.owner = p THEN Gone ELSE root.owner
  BY <1>1 DEF Forget, RootTyped
<1>4. root' \in {root, Released, Forget(p)} => RootTyped' /\ root'.history = root.history /\ root'.gen = root.gen
                                                 /\ root'.attempts = root.attempts
  <2>1. CASE root' = root
    BY <2>1 DEF RootTyped
  <2>2. CASE root' = a
    BY <2>2, <1>2 DEF RootTyped
  <2>3. CASE root' = b
    BY <2>3, <1>3 DEF RootTyped
  <2> QED
    BY <2>1, <2>2, <2>3
<1> QED
  BY <1>2, <1>3, <1>4, RequestAssumption

\* What a step makes of the root's decision and of the pointers.
LEMMA ChainMoves ==
  ASSUME ChainSound, AllSourced, MakesNext, RepairNext
  PROVE  ChainTyped' /\ RootTyped' /\ pointer'[0] # 0 /\ 0 \notin root'.history
<1> DEFINE Marks == ChainTyped' /\ pointer'[0] # 0
<1> DEFINE Root == RootTyped' /\ 0 \notin root'.history
<1> DEFINE Fine == Marks /\ Root
<1>1. ChainTyped /\ RootTyped /\ BoundsTyped /\ pointer[0] # 0 /\ 0 \notin root.history
  BY RootMoves
<1>2. /\ resolution \in [Task -> Resolution] /\ pointer \in [Task -> Task \cup {NoTask}]
      /\ resolvedBy \in [Task -> Task \cup {NoTask}] /\ 0 \in Task /\ NoTask # 0
      /\ {"none", "required", "repairing", "needs_pm_decision", "resolved", "cancelled"} \subseteq Resolution
      /\ "none" \in Why
  BY <1>1, TasksAre DEF ChainTyped, Resolution, Why, NoTask
<1>3. ASSUME resolution' = resolution \/ (\E t \in Task, v \in Resolution : resolution' = [resolution EXCEPT ![t] = v]),
             pointer' = pointer \/ (\E t \in Task, v \in Task \cup {NoTask} :
                                      pointer' = [pointer EXCEPT ![t] = v] /\ (t = 0 => v # 0)),
             resolvedBy' = resolvedBy \/ (\E t \in Task, v \in Task \cup {NoTask} : resolvedBy' = [resolvedBy EXCEPT ![t] = v])
      PROVE  Marks
  <2>1. resolution' \in [Task -> Resolution]
    BY <1>2, <1>3
  <2>2. pointer' \in [Task -> Task \cup {NoTask}] /\ pointer'[0] # 0
    BY <1>1, <1>2, <1>3
  <2>3. resolvedBy' \in [Task -> Task \cup {NoTask}]
    BY <1>2, <1>3
  <2> QED
    BY <2>1, <2>2, <2>3 DEF ChainTyped
<1>4. ASSUME NEW p \in Requests, root' \in {root, Released, Forget(p)}
      PROVE  Root
  BY <1>1, <1>4, RootKept
<1>5. ASSUME NEW w \in Why, root' = [root EXCEPT !.why = w]
      PROVE  Root
  BY <1>1, <1>5 DEF RootTyped
<1>6. ASSUME root' = root PROVE Root
  BY <1>1, <1>6 DEF RootTyped
<1>7. CASE UNCHANGED <<resolution, pointer, resolvedBy, root>>
  BY <1>1, <1>3, <1>6, <1>7
<1>8. ASSUME NEW p \in Requests
      PROVE  /\ req[p].cur \in Task /\ req[p].by \in Task /\ req[p].source \in Task /\ req[p].base \in Snapshot
             /\ req[p].base.attempts \in Nat /\ req[p].base.history \subseteq Task /\ 0 \notin req[p].base.history
             /\ req[p].why \in Why /\ RequestsTyped
             /\ fixFor[req[p].cur] \in Task \cup {NoTask}
  <2>1. TasksTyped
    BY RootMoves
  <2> QED
    BY <2>1, CallerMoves DEF Snapshot, TasksTyped
<1>9. ASSUME NEW p \in Requests, WriteRoot(p) PROVE Fine
  <2>1. req[p].cur # 0
    BY <1>9 DEF WriteRoot, Calling, MakesNext, MakesNow, Making
  <2>2. \E v \in Resolution : resolution' = [resolution EXCEPT ![0] = v]
    BY <1>2, <1>9 DEF WriteRoot
  <2>3. pointer' = [pointer EXCEPT ![0] = req[p].cur] /\ resolvedBy' = [resolvedBy EXCEPT ![0] = NoTask]
    BY <1>9 DEF WriteRoot
  <2>4. Marks
    BY <1>2, <1>3, <1>8, <2>1, <2>2, <2>3
  <2>5. root' = [root EXCEPT !.gen = req[p].cur, !.attempts = req[p].base.attempts + 1,
                             !.history = req[p].base.history \cup {req[p].cur}, !.why = "none"]
    BY <1>9 DEF WriteRoot
  <2>6. RootTyped'
    <3> PICK n : n = req[p].base.attempts + 1
      OBVIOUS
    <3> PICK h : h = req[p].base.history \cup {req[p].cur}
      OBVIOUS
    <3>1. n \in Nat /\ h \in SUBSET Task /\ req[p].cur \in Task
      BY <1>8
    <3>2. root' = [root EXCEPT !.gen = req[p].cur, !.attempts = n, !.history = h, !.why = "none"]
      BY <2>5
    <3> QED
      BY <1>1, <1>2, <3>1, <3>2 DEF RootTyped
  <2>7. root'.history = req[p].base.history \cup {req[p].cur}
    BY <1>1, <2>5 DEF RootTyped
  <2> QED
    BY <1>8, <2>1, <2>4, <2>6, <2>7
<1>10. ASSUME NEW p \in Requests, WriteSource(p) PROVE Fine
  <2>1. req[p].source # 0
    <3>1. "source" \in Ahead(req[p].todo)
      BY <1>8, <1>10, CallingMoves DEF WriteSource
    <3> QED
      BY <3>1 DEF AllSourced, SourceSound
  <2>2. \E v \in Resolution : resolution' = [resolution EXCEPT ![req[p].source] = v]
    BY <1>2, <1>10 DEF WriteSource
  <2>3. pointer' = [pointer EXCEPT ![req[p].source] = req[p].cur] /\ resolvedBy' = resolvedBy /\ root' = root
    BY <1>10 DEF WriteSource
  <2> QED
    BY <1>3, <1>6, <1>8, <2>1, <2>2, <2>3
<1>11. ASSUME NEW p \in Requests, AwaitReview(p) PROVE Fine
  <2>1. root' = root
    BY <1>11 DEF AwaitReview
  <2>2. CASE fixFor[req[p].cur] = NoTask
    BY <2>1, <2>2, <1>3, <1>6, <1>11 DEF AwaitReview
  <2>3. CASE fixFor[req[p].cur] # NoTask
    <3>1. req[p].by # 0
      BY <1>11, <2>3, WalkMoves
    <3> PICK t : t = fixFor[req[p].cur]
      OBVIOUS
    <3>2. t \in Task
      BY <1>8, <2>3
    <3>3. /\ resolution' = [resolution EXCEPT ![t] = "required"] /\ pointer' = [pointer EXCEPT ![t] = req[p].by]
          /\ resolvedBy' = [resolvedBy EXCEPT ![t] = NoTask]
      BY <1>11, <2>3 DEF AwaitReview
    <3> QED
      BY <1>2, <1>3, <1>6, <1>8, <2>1, <3>1, <3>2, <3>3
  <2> QED
    BY <2>2, <2>3
<1>12. ASSUME NEW p \in Requests, Close(p) PROVE Fine
  <2>2. CASE fixFor[req[p].cur] = NoTask
    <3>1. UNCHANGED <<resolution, pointer, resolvedBy, root>>
      BY <2>2, <1>12 DEF Close, chainVars
    <3> QED
      BY <3>1, <1>7
  <2>3. CASE fixFor[req[p].cur] # NoTask
    <3>1. req[p].by # 0
      BY <1>12, <2>3, WalkMoves
    <3> PICK t : t = fixFor[req[p].cur]
      OBVIOUS
    <3>2. t \in Task
      BY <1>8, <2>3
    <3>3. /\ resolution' = [resolution EXCEPT ![t] = "resolved"] /\ pointer' = [pointer EXCEPT ![t] = req[p].by]
          /\ resolvedBy' = [resolvedBy EXCEPT ![t] = req[p].by]
          /\ root' = root \/ root' = [root EXCEPT !.why = "none", !.owner = Nobody, !.snapshot = NoSnapshot]
      BY <1>12, <2>3 DEF Close
    <3>4. Marks
      BY <1>2, <1>3, <1>8, <3>1, <3>2, <3>3
    <3>5. Root
      <4>1. CASE root' = root
        BY <4>1, <1>6
      <4>2. CASE root' = [root EXCEPT !.why = "none", !.owner = Nobody, !.snapshot = NoSnapshot]
        BY <4>2, <1>1, <1>2, IdleTyped DEF RootTyped, Owner
      <4> QED
        BY <3>3, <4>1, <4>2
    <3> QED
      BY <3>4, <3>5
  <2> QED
    BY <2>2, <2>3
<1>13. ASSUME NEW p \in Requests, AskPm(p) PROVE Fine
  <2> PICK c : c = IF req[p].cur = 0 THEN NoTask ELSE req[p].cur
    OBVIOUS
  <2>1. /\ pointer' = [pointer EXCEPT ![0] = c] /\ resolvedBy' = resolvedBy
        /\ resolution' = [resolution EXCEPT ![0] = "needs_pm_decision"] /\ root' = [root EXCEPT !.why = req[p].why]
    BY <1>13 DEF AskPm
  <2>2. c \in Task \cup {NoTask} /\ c # 0
    BY <1>8, TasksAre
  <2> QED
    BY <1>2, <1>3, <1>5, <1>6, <1>8, <2>1, <2>2
<1>14. ASSUME NEW p \in Requests, CancelCommit(p) \/ Reopen(p) PROVE Fine
  <2>1. /\ pointer' = pointer /\ resolvedBy' = resolvedBy /\ root' = root
        /\ \/ resolution' = resolution \/ \E v \in {"cancelled", "needs_pm_decision"} : resolution' = [resolution EXCEPT ![0] = v]
    BY <1>14 DEF CancelCommit, Reopen
  <2> QED
    BY <1>2, <1>3, <1>6, <2>1
<1>15. ASSUME NEW p \in Requests, BeginContinue(p) PROVE Fine
  <2>1. /\ pointer' = pointer /\ resolvedBy' = resolvedBy
        /\ \/ resolution' = resolution /\ root' = root
           \/ resolution' = [resolution EXCEPT ![0] = "repairing"] /\ root' = [root EXCEPT !.owner = p, !.snapshot = req[p].base]
    BY <1>15 DEF BeginContinue
  <2>2. Root
    <3>1. CASE root' = root
      BY <3>1, <1>6
    <3>2. CASE root' = [root EXCEPT !.owner = p, !.snapshot = req[p].base]
      BY <3>2, <1>1, <1>8 DEF RootTyped, Owner
    <3> QED
      BY <2>1, <3>1, <3>2
  <2> QED
    BY <1>2, <1>3, <2>1, <2>2
<1>16. ASSUME NEW p \in Requests, Audit(p) PROVE Fine
  <2>1. pointer' = pointer /\ resolvedBy' = resolvedBy
    BY <1>16 DEF Audit
  <2>2. \/ resolution' = resolution /\ root' \in {root, Released, Forget(p)}
        \/ Rollback(p)
    BY <1>16 DEF Audit
  <2>3. CASE resolution' = resolution /\ root' \in {root, Released, Forget(p)}
    BY <1>3, <1>4, <2>1, <2>3
  <2>4. CASE Rollback(p)
    <3>1. \/ resolution' = [resolution EXCEPT ![0] = "needs_pm_decision"] /\ root' = [Released EXCEPT !.why = root.snapshot.why]
          \/ resolution' = resolution /\ root' \in {root, Released, Forget(p)}
      BY <2>4 DEF Rollback
    <3>2. CASE resolution' = [resolution EXCEPT ![0] = "needs_pm_decision"] /\ root' = [Released EXCEPT !.why = root.snapshot.why]
      <4>1. root.snapshot.why \in Why
        BY <1>1 DEF RootTyped, Snapshot
      <4>2. Root
        BY <1>1, <3>2, <4>1, IdleTyped DEF RootTyped, Released, Owner
      <4> QED
        BY <1>2, <1>3, <2>1, <3>2, <4>2
    <3>3. CASE resolution' = resolution /\ root' \in {root, Released, Forget(p)}
      BY <1>3, <1>4, <2>1, <3>3
    <3> QED
      BY <3>1, <3>2, <3>3
  <2> QED
    BY <2>2, <2>3, <2>4
<1>17. ASSUME NEW p \in Requests, Clear(p) PROVE Fine
  <2>1. /\ resolution' = [resolution EXCEPT ![0] = "none"] /\ pointer' = [pointer EXCEPT ![0] = NoTask]
        /\ resolvedBy' = [resolvedBy EXCEPT ![0] = NoTask] /\ root' = [root EXCEPT !.why = "none"]
    BY <1>17 DEF Clear
  <2> QED
    BY <1>2, <1>3, <1>5, <2>1
<1>18. ASSUME NEW p \in Requests, NEW t \in Task, Crash(p) \/ ReconcileBegin(p, t) PROVE Fine
  <2>1. /\ resolution' = resolution /\ pointer' = pointer /\ resolvedBy' = resolvedBy /\ root' \in {root, Released, Forget(p)}
    BY <1>18 DEF Crash, ReconcileBegin
  <2> QED
    BY <1>3, <1>4, <2>1
<1>19. CASE ResetRoot
  <2>1. /\ resolution' = resolution /\ pointer' = [pointer EXCEPT ![0] = NoTask]
        /\ resolvedBy' = [resolvedBy EXCEPT ![0] = NoTask] /\ root' = [root EXCEPT !.gen = 0, !.attempts = 0, !.history = {}]
    BY <1>19 DEF ResetRoot
  <2>2. Root
    BY <1>1, <1>2, <2>1 DEF RootTyped
  <2> QED
    BY <1>2, <1>3, <2>1, <2>2
<1>20. 0 \in Task
  BY <1>2
<1> QED
  BY <1>7, <1>9, <1>10, <1>11, <1>12, <1>13, <1>14, <1>15, <1>16, <1>17, <1>18, <1>19, <1>20, ChainChanges

\* What a step makes of the effects, the candidates and the dependent.
LEMMA DoneMoves ==
  ASSUME ChainSound, RepairNext
  PROVE  DoneTyped'
<1>1. DoneTyped /\ 0 \in Task
  BY TypeParts, TasksAre DEF ChainSound
<1>2. ASSUME NEW A, A \subseteq Task, NEW t \in Task, applied' \in {applied, applied \cup {t}, applied \ {t}},
             candidates' \in {candidates, candidates \cup {t}, candidates \ {t}}, dependent' \in {dependent, "pending"}
      PROVE  DoneTyped'
  BY <1>1, <1>2 DEF DoneTyped
<1>3. CASE UNCHANGED <<applied, candidates, dependent>>
  BY <1>1, <1>2, <1>3
<1>4. ASSUME NEW p \in Requests, \/ Wake(p) \/ MarkApplied(p) \/ Reopen(p) \/ BeginContinue(p) \/ CleanCandidate(p)
      PROVE  DoneTyped'
  <2>1. req[p].by \in Task /\ req[p].task \in Task
    BY CallerMoves
  <2>2. CASE Wake(p)
    BY <1>1, <1>2, <2>2 DEF Wake
  <2>3. CASE MarkApplied(p)
    BY <1>2, <2>1, <2>3 DEF MarkApplied
  <2>4. CASE Reopen(p)
    BY <1>1, <1>2, <2>4 DEF Reopen
  <2>5. CASE BeginContinue(p)
    BY <1>1, <1>2, <2>5 DEF BeginContinue
  <2>6. CASE CleanCandidate(p)
    BY <1>2, <2>1, <2>6 DEF CleanCandidate
  <2> QED
    BY <1>4, <2>2, <2>3, <2>4, <2>5, <2>6
<1>5. ASSUME NEW p \in Requests, Audit(p)
      PROVE  DoneTyped'
  <2>1. UNCHANGED <<applied, dependent>>
    BY <1>5 DEF Audit
  <2>2. candidates' \in {candidates, candidates \ {0}}
    BY <1>5, Zenon DEF Audit, Rollback
  <2> QED
    BY <1>1, <1>2, <2>1, <2>2
<1>6. ASSUME NEW p \in Requests, NEW ruling \in {"accept", "reject"}, Commit(p, ruling)
      PROVE  DoneTyped'
  <2>1. req[p].task \in Task
    BY CallerMoves
  <2>2. UNCHANGED <<applied, dependent>> /\ candidates' \in {candidates, candidates \cup {req[p].task}}
    <3>1. req[p] \in Request
      BY CallerMoves
    <3>2. [req[p] EXCEPT !.base = NoSnapshot].task = req[p].task
      BY <3>1 DEF Request
    <3> QED
      BY <1>6, <3>2 DEF Commit
  <2> QED
    BY <1>2, <2>1, <2>2
<1>7. ASSUME NEW p \in Requests, NEW t \in Task, ReportFailed(p, t) \/ ReconcileBegin(p, t)
      PROVE  DoneTyped'
  <2>1. CASE ReportFailed(p, t)
    BY <1>2, <2>1 DEF ReportFailed
  <2>2. CASE ReconcileBegin(p, t)
    BY <1>1, <1>2, <2>2 DEF ReconcileBegin
  <2> QED
    BY <1>7, <2>1, <2>2
<1>8. CASE ResetRoot \/ SweepDependent
  BY <1>1, <1>2, <1>8 DEF ResetRoot, SweepDependent
<1> QED
  BY <1>3, <1>4, <1>5, <1>6, <1>7, <1>8, DoneChanges

\* What a step makes of the counters.
LEMMA BoundsMove ==
  ASSUME ChainSound, RepairNext
  PROVE  BoundsTyped' /\ limit' = limit /\ resets' >= resets /\ continues' >= continues
<1>1. BoundsTyped /\ limit.continues \in Nat /\ limit.resets \in Nat /\ limit.crashes \in Nat
  BY TypeParts, BoundAssumption DEF ChainSound, BoundsTyped
<1>2. audits \in Nat /\ continues \in Nat /\ resets \in Nat /\ crashes \in Nat /\ diverted \in BOOLEAN
  BY <1>1 DEF BoundsTyped
<1>3. ASSUME limit' = limit, audits' \in {audits, audits + 1}, diverted' \in BOOLEAN,
             continues' = continues \/ (continues < limit.continues /\ continues' = continues + 1),
             resets' = resets \/ (resets < limit.resets /\ resets' = resets + 1),
             crashes' = crashes \/ (crashes < limit.crashes /\ crashes' = crashes + 1)
      PROVE  BoundsTyped' /\ resets' >= resets /\ continues' >= continues
  BY <1>1, <1>2, <1>3 DEF BoundsTyped
<1>4. CASE UNCHANGED <<audits, continues, resets, crashes, limit, diverted>>
  BY <1>2, <1>3, <1>4
<1>5. ASSUME NEW p \in Requests, AwaitReview(p) \/ AskPm(p) \/ Close(p) \/ Clear(p)
      PROVE  BoundsTyped' /\ limit' = limit /\ resets' >= resets /\ continues' >= continues
  <2>1. UNCHANGED <<audits, continues, resets, crashes, limit>>
    BY <1>5 DEF AwaitReview, AskPm, Close, Clear, counters
  <2>2. diverted' \in BOOLEAN
    <3>1. CASE AwaitReview(p)
      BY <1>2, <3>1 DEF AwaitReview, Divert
    <3>2. CASE Close(p)
      BY <1>2, <3>2 DEF Close, Divert
    <3>3. CASE Clear(p)
      BY <1>2, <3>3 DEF Clear, Divert
    <3>4. CASE AskPm(p)
      <4>1. UNCHANGED diverted \/ \E c : Divert(c)
        BY <3>4, Zenon DEF AskPm
      <4> QED
        BY <1>2, <4>1 DEF Divert
    <3> QED
      BY <1>5, <3>1, <3>2, <3>3, <3>4
  <2> QED
    BY <1>3, <2>1, <2>2
<1>6. ASSUME NEW p \in Requests, BeginContinue(p)
      PROVE  BoundsTyped' /\ limit' = limit /\ resets' >= resets /\ continues' >= continues
  BY <1>2, <1>3, <1>6 DEF BeginContinue
<1>7. ASSUME NEW p \in Requests, Audit(p)
      PROVE  BoundsTyped' /\ limit' = limit /\ resets' >= resets /\ continues' >= continues
  <2>1. UNCHANGED <<continues, resets, crashes, limit, diverted>> /\ audits' \in {audits, audits + 1}
    BY <1>7, Zenon DEF Audit
  <2> QED
    BY <1>2, <1>3, <2>1
<1>8. CASE (\E p \in Requests : Crash(p)) \/ (\E t \in Task : Lose(t))
  BY <1>2, <1>3, <1>8 DEF Crash, Lose
<1>9. CASE ResetRoot
  BY <1>2, <1>3, <1>9 DEF ResetRoot
<1> QED
  BY <1>4, <1>5, <1>6, <1>7, <1>8, <1>9, BoundChanges

\* The root is nobody's repair.
LEMMA RootStaysRoot ==
  ASSUME ChainSound, RepairNext, Remains \/ \E p \in Requests : Creating(p), status[0] # "absent"
  PROVE  fixFor'[0] = NoTask
<1>1. TasksTyped /\ fixFor[0] = NoTask /\ 0 \in Task
  BY RootMoves, TasksAre
<1>2. ASSUME NEW p \in Requests, Creating(p) PROVE fixFor'[0] = NoTask
  <2>1. req[p].cur # 0
    BY <1>2 DEF Creating
  <2>2. fixFor' = [fixFor EXCEPT ![req[p].cur] = req[p].source]
    BY <1>2 DEF Creating, Create
  <2> QED
    BY <1>1, <2>1, <2>2 DEF TasksTyped
<1> QED
  BY <1>1, <1>2 DEF Remains

\* What the invariant says of how tasks come into being: no generation is left out.
InOrder == \A t \in Task \ {0} : status[t] # "absent" => \A u \in 1..t : status[u] # "absent"
RootKnown == status[0] # "absent" /\ (root.gen = 0 \/ status[root.gen] # "absent")
Gapless == MakesNext /\ KillKnown /\ InOrder /\ RootKnown
Base == ChainSound /\ AllSourced /\ Gapless

\* Only a child that is pending is going to be killed.
LEMMA SweepKills ==
  ASSUME ChainSound, NEW p \in Requests, Sweep(p), "kill" \in Ahead(req'[p].todo)
  PROVE  status[req'[p].cur] = "pending"
<1>1. /\ RequestsTyped /\ req[p] \in Request /\ req[p].by \in Task /\ req[p].kill \subseteq Task /\ req[p].todo \in Seq(Call)
      /\ Sound(req[p])
  BY CallerMoves
<1>2. Calling(p, "sweep")
  BY DEF Sweep
<1>3. /\ req[p].todo # <<>> /\ Head(req[p].todo) = "sweep" /\ InPlace(req[p].todo)
      /\ Rest(p) \in Seq(Call) /\ "kill" \notin Ahead(Rest(p))
  BY <1>1, <1>2, CallingMoves, RestMoves DEF Sound
<1>4. CASE \E t \in req[p].kill : /\ status[t] = "pending"
                                  /\ GoOn(p, [req[p] EXCEPT !.kill = req[p].kill \ {t}, !.cur = t], <<"kill">> \o req[p].todo)
  <2> PICK t \in req[p].kill : /\ status[t] = "pending"
                               /\ GoOn(p, [req[p] EXCEPT !.kill = req[p].kill \ {t}, !.cur = t], <<"kill">> \o req[p].todo)
    BY <1>4
  <2> PICK x : x = [req[p] EXCEPT !.kill = req[p].kill \ {t}, !.cur = t]
    OBVIOUS
  <2>1. x \in Request /\ x.cur = t
    BY <1>1 DEF Request
  <2> PICK s : s = <<"kill">> \o req[p].todo
    OBVIOUS
  <2>2. s \in Seq(Call) /\ Ahead(s) = {"kill"} \cup Ahead(req[p].todo)
    BY <1>1, <1>3, KillInPlace
  <2>3. s # <<>>
    BY <2>2, KnownCalls
  <2>4. ASSUME NEW y \in Request, NEW c \in Seq(Call), c # <<>>, GoOn(p, y, c) PROVE req'[p].cur = y.cur
    BY <1>1, <2>4, GoOnMoves
  <2>5. GoOn(p, x, s)
    OBVIOUS
  <2>6. req'[p].cur = x.cur
    BY <2>1, <2>2, <2>3, <2>4, <2>5
  <2> QED
    BY <2>1, <2>6
<1>5. CASE GoOn(p, [req[p] EXCEPT !.kill = {}, !.cur = req[p].by], Rest(p))
  <2> PICK x : x = [req[p] EXCEPT !.kill = {}, !.cur = req[p].by]
    OBVIOUS
  <2>1. x \in Request
    BY <1>1 DEF Request
  <2>2. req'[p].todo = Rest(p)
    BY <1>1, <1>3, <1>5, <2>1, GoOnMoves
  <2> QED
    BY <1>3, <2>2
<1> QED
  BY <1>4, <1>5 DEF Sweep

\* Who makes a repair: ensureRepairTask decides to, and then it is created and published.
Decides(q) ==
  /\ Ensure(q) /\ (pointer[0] = NoTask \/ status[pointer[0]] \notin {"pending", "running"})
  /\ ~LimitReached(q) /\ root.gen + 1 \in Task /\ req'[q].cur = root.gen + 1 /\ req'[q].base = Snap
  /\ \/ Head(req'[q].todo) = "create" /\ status[root.gen + 1] = "absent"
     \/ Head(req'[q].todo) = "publish" /\ status[root.gen + 1] # "absent"
Carries(q) == /\ Creating(q) \/ PublishRepair(q)
              /\ MakesNow(req[q]) /\ req'[q].cur = req[q].cur /\ req'[q].base = req[q].base
              /\ Head(req'[q].todo) # "create"

LEMMA WhoMakes ==
  ASSUME ChainSound, AllSourced, RepairNext, NEW q \in Requests, MakesNow(req'[q])
  PROVE  req'[q] = req[q] \/ Decides(q) \/ Carries(q)
<1>1. RequestsTyped /\ RequestsTyped' /\ Sound(req[q])
  BY CallerMoves, RequestsKeep
<1>2. req'[q].todo # <<>> /\ Head(req'[q].todo) \in Making /\ Head(req'[q].todo) \in Ahead(req'[q].todo)
  <2>1. req'[q].todo \in Seq(Call)
    BY <1>1 DEF RequestsTyped, Request
  <2> QED
    BY <2>1, TailAhead DEF MakesNow
<1>3. Head(req'[q].todo) \in Apart /\ Ahead(req'[q].todo) \cap Making # {}
  BY <1>2 DEF Making, Apart
<1>4. CASE Turns(q)
  BY <1>2, <1>3, <1>4 DEF Turns, Tame
<1>5. CASE Ensure(q)
  BY <1>3, <1>5, EnsureMoves DEF Decides
<1>6. CASE Hands(q)
  <2>1. CASE WriteRoot(q) /\ Calling(q, "root")
    <3>1. Ahead(Rest(q)) \cap Making = {}
      BY <1>1, <2>1, RestMoves
    <3> QED
      BY <1>3, <1>6, <3>1 DEF Hands, StepsTo
  <2>2. CASE ((Creating(q) /\ Calling(q, "create")) \/ (PublishRepair(q) /\ Calling(q, "publish"))) /\ MakesOn(q)
    BY <1>2, <2>2 DEF Carries, MakesOn, MakesNow, Calling, Making
  <2> QED
    BY <1>6, <2>1, <2>2 DEF Hands
<1>7. CASE Sweep(q)
  BY <1>3, <1>7, SweepMoves DEF StepsTo
<1> QED
  BY <1>4, <1>5, <1>6, <1>7, WhoMoves

\* Who writes the counters of the root, and who takes it for a continue.
Puts(p) == /\ WriteRoot(p) /\ Calling(p, "root")
             /\ root'.gen = req[p].cur /\ root'.attempts = req[p].base.attempts + 1
             /\ root'.history = req[p].base.history \cup {req[p].cur}

LEMMA RootWritten ==
  ASSUME ChainSound, NEW p \in Requests, WriteRoot(p)
  PROVE  Puts(p) /\ root'.owner = root.owner
<1> PICK n : n = req[p].base.attempts + 1
  OBVIOUS
<1> PICK h : h = req[p].base.history \cup {req[p].cur}
  OBVIOUS
<1>1. Calling(p, "root") /\ root' = [root EXCEPT !.gen = req[p].cur, !.attempts = n, !.history = h, !.why = "none"]
  BY DEF WriteRoot
<1>2. root'.gen = req[p].cur /\ root'.attempts = n /\ root'.history = h /\ root'.owner = root.owner
  BY <1>1, RootMoves DEF RootTyped
<1> QED
  BY <1>1, <1>2 DEF Puts

LEMMA RootChanges ==
  ASSUME ChainSound, RepairNext
  PROVE  /\ \/ root'.gen = root.gen /\ root'.attempts = root.attempts /\ root'.history = root.history
            \/ \E p \in Requests : Puts(p)
            \/ ResetRoot /\ root'.gen = 0 /\ root'.attempts = 0 /\ root'.history = {}
         /\ \/ root.owner = Nobody => root'.owner = Nobody
            \/ \E p \in Requests : BeginContinue(p) /\ continues' = continues + 1
<1>1. RootTyped
  BY RootMoves
<1> DEFINE Same == root'.gen = root.gen /\ root'.attempts = root.attempts /\ root'.history = root.history
<1> DEFINE Freed == root.owner = Nobody => root'.owner = Nobody
<1>2. CASE UNCHANGED root
  BY <1>2
<1>3. ASSUME NEW p \in Requests, root' \in {root, Released, Forget(p)} PROVE Same /\ Freed
  BY <1>1, <1>3, RootKept
<1>4. ASSUME NEW w, root' = [root EXCEPT !.why = w] PROVE Same /\ Freed
  BY <1>1, <1>4 DEF RootTyped
<1>5. ASSUME NEW p \in Requests, WriteSource(p) \/ AwaitReview(p) \/ CancelCommit(p) \/ Reopen(p) \/ Crash(p) PROVE Same /\ Freed
  BY <1>3, <1>5, Zenon DEF WriteSource, AwaitReview, CancelCommit, Reopen, Crash
<1>6. ASSUME NEW p \in Requests, AskPm(p) PROVE Same /\ Freed
  BY <1>4, <1>6 DEF AskPm
<1>7. ASSUME NEW p \in Requests, Close(p) PROVE Same /\ Freed
  <2>1. root' = root \/ root' = [root EXCEPT !.why = "none", !.owner = Nobody, !.snapshot = NoSnapshot]
    BY <1>7, Zenon DEF Close, chainVars
  <2> QED
    BY <1>1, <1>3, <2>1 DEF RootTyped
<1>8. ASSUME NEW p \in Requests, BeginContinue(p) PROVE Same /\ (Freed \/ continues' = continues + 1)
  <2>1. root' = root \/ (root' = [root EXCEPT !.owner = p, !.snapshot = req[p].base] /\ continues' = continues + 1)
    BY <1>8 DEF BeginContinue
  <2> QED
    BY <1>1, <1>3, <2>1 DEF RootTyped
<1>9. ASSUME NEW p \in Requests, Audit(p) PROVE Same /\ Freed
  <2>1. root' \in {root, Released, Forget(p)} \/ root' = [Released EXCEPT !.why = root.snapshot.why]
    BY <1>9, Zenon DEF Audit, Rollback
  <2>2. CASE root' = [Released EXCEPT !.why = root.snapshot.why]
    BY <1>1, <2>2 DEF RootTyped, Released
  <2> QED
    BY <1>3, <2>1, <2>2
<1>10. ASSUME NEW p \in Requests, Clear(p) PROVE Same /\ Freed
  BY <1>4, <1>10 DEF Clear
<1>11. ASSUME NEW p \in Requests, NEW t \in Task, ReconcileBegin(p, t) PROVE Same /\ Freed
  <2>1. root' \in {root, Released}
    BY <1>11, Zenon DEF ReconcileBegin
  <2> QED
    BY <1>3, <2>1
<1>12. CASE ResetRoot
  <2>1. root' = [root EXCEPT !.gen = 0, !.attempts = 0, !.history = {}]
    BY <1>12 DEF ResetRoot
  <2>2. root'.gen = 0 /\ root'.attempts = 0 /\ root'.history = {} /\ root'.owner = root.owner
    BY <1>1, <2>1 DEF RootTyped
  <2> QED
    BY <1>12, <2>2
<1> QED
  BY <1>2, <1>5, <1>6, <1>7, <1>8, <1>9, <1>10, <1>11, <1>12, ChainChanges, RootWritten

\* Tasks stay in being, and the one that is created is the next one.
LEMMA MadeMoves ==
  ASSUME Base, RepairNext
  PROVE  /\ \A t \in Task : status[t] # "absent" => status'[t] # "absent"
         /\ \A t \in Task : status[t] = "absent" /\ status'[t] # "absent" =>
              \E p \in Requests : Creating(p) /\ req[p].cur = t /\ MakesNow(req[p])
<1>1. TasksTyped
  BY RootMoves DEF Base
<1>2. Remains \/ \E p \in Requests : Creating(p)
  BY TasksMove DEF Base, Gapless
<1>3. ASSUME NEW p \in Requests, Creating(p)
      PROVE  /\ status' = [status EXCEPT ![req[p].cur] = "pending"] /\ MakesNow(req[p])
  <2>1. Calling(p, "create")
    BY <1>3 DEF Creating, Create
  <2>2. MakesNow(req[p])
    BY <2>1 DEF Calling, MakesNow, Making
  <2> QED
    BY <1>3, <2>2 DEF Creating, Create
<1>4. CASE Remains
  BY <1>4 DEF Remains
<1>5. ASSUME NEW p \in Requests, Creating(p)
      PROVE  /\ \A t \in Task : status[t] # "absent" => status'[t] # "absent"
             /\ \A t \in Task : status[t] = "absent" /\ status'[t] # "absent" => req[p].cur = t
  BY <1>1, <1>3, <1>5 DEF TasksTyped
<1> QED
  BY <1>2, <1>3, <1>4, <1>5

\* No generation is left out.
LEMMA GaplessMoves ==
  ASSUME Base, RepairNext
  PROVE  Gapless'
<1>1. ChainSound /\ AllSourced /\ TasksTyped /\ RootTyped /\ root.gen \in Task /\ 0 \in Task /\ Task \subseteq Int
      /\ \A t \in Task : t >= 0 /\ \A u \in 1..t : u \in Task
  BY RootMoves, TasksAre, BoundAssumption DEF Base, Task
<1>2. \A t \in Task : status[t] # "absent" => status'[t] # "absent"
  BY MadeMoves
<1>3. MakesNext /\ KillKnown /\ InOrder /\ RootKnown
  BY DEF Base, Gapless
<1>4. ASSUME NEW p \in Requests
      PROVE  /\ req[p].cur \in Task /\ RequestsTyped /\ Sound(req[p])
             /\ MakesNow(req[p]) => /\ req[p].cur # 0 /\ (Head(req[p].todo) = "create" \/ status[req[p].cur] # "absent")
                                    /\ \A t \in 1..(req[p].cur - 1) : status[t] # "absent"
  BY <1>1, <1>3, CallerMoves DEF MakesNext
<1>5. InOrder'
  <2> SUFFICES ASSUME NEW t \in Task \ {0}, status'[t] # "absent", NEW u \in 1..t PROVE status'[u] # "absent"
    BY DEF InOrder
  <2>1. CASE status[t] # "absent"
    BY <1>1, <1>2, <1>3, <2>1 DEF InOrder
  <2>2. CASE status[t] = "absent"
    <3> PICK p \in Requests : Creating(p) /\ req[p].cur = t /\ MakesNow(req[p])
      BY <2>2, MadeMoves
    <3>1. u = t \/ u \in 1..(req[p].cur - 1)
      BY <1>1
    <3> QED
      BY <1>1, <1>2, <1>4, <3>1
  <2> QED
    BY <2>1, <2>2
<1>6. RootKnown'
  <2>1. status'[0] # "absent"
    BY <1>1, <1>2, <1>3 DEF RootKnown
  <2>2. root'.gen = 0 \/ status'[root'.gen] # "absent"
    <3>1. CASE root'.gen = root.gen
      BY <1>1, <1>2, <1>3, <3>1 DEF RootKnown
    <3>2. ASSUME NEW p \in Requests, Puts(p) PROVE status'[root'.gen] # "absent"
      <4>1. MakesNow(req[p]) /\ Head(req[p].todo) # "create" /\ root'.gen = req[p].cur
        BY <3>2 DEF Puts, Calling, MakesNow, Making
      <4>2. status[req[p].cur] # "absent" /\ req[p].cur \in Task
        BY <1>4, <4>1
      <4> QED
        BY <1>2, <4>1, <4>2
    <3> QED
      BY <1>1, <3>1, <3>2, RootChanges
  <2> QED
    BY <2>1, <2>2 DEF RootKnown
<1>7. KillKnown'
  <2> SUFFICES ASSUME NEW q \in Requests, "kill" \in Ahead(req'[q].todo) PROVE status'[req'[q].cur] # "absent"
    BY DEF KillKnown
  <2>1. CASE req'[q] = req[q]
    BY <1>2, <1>3, <1>4, <2>1 DEF KillKnown
  <2>2. CASE Turns(q)
    BY <2>2 DEF Turns, Tame, Apart
  <2>3. ASSUME NEW c, Calling(q, c) PROVE "kill" \notin Ahead(Rest(q))
    BY <1>4, <2>3, RestMoves
  <2>4. CASE Ensure(q)
    <3>1. "kill" \notin Ahead(Rest(q))
      BY <2>3, <2>4 DEF Ensure
    <3> QED
      BY <1>1, <2>4, <3>1, EnsureMoves DEF StepsTo
  <2>5. CASE Hands(q)
    BY <2>3, <2>5 DEF Hands, StepsTo
  <2>6. CASE Sweep(q)
    <3>1. status[req'[q].cur] = "pending" /\ UNCHANGED status
      BY <1>1, <2>6, SweepKills DEF Sweep, taskVars
    <3> QED
      BY <3>1
  <2> QED
    BY <1>1, <2>1, <2>2, <2>4, <2>5, <2>6, WhoMoves
<1>8. MakesNext'
  <2> SUFFICES ASSUME NEW q \in Requests, MakesNow(req'[q])
      PROVE  /\ req'[q].cur # 0 /\ (Head(req'[q].todo) = "create" \/ status'[req'[q].cur] # "absent")
             /\ \A t \in 1..(req'[q].cur - 1) : status'[t] # "absent"
    BY DEF MakesNext, MakesNow
  <2>1. ASSUME MakesNow(req[q]), req'[q].cur = req[q].cur
        PROVE  /\ req'[q].cur # 0 /\ \A t \in 1..(req'[q].cur - 1) : status'[t] # "absent"
               /\ Head(req[q].todo) # "create" => status'[req'[q].cur] # "absent"
    <3>0. req[q].cur \in Task /\ req[q].cur \in Int
      BY <1>1, <1>4
    <3>1. \A t \in 1..(req[q].cur - 1) : t \in Task
      <4> SUFFICES ASSUME NEW t \in 1..(req[q].cur - 1) PROVE t \in Task
        OBVIOUS
      <4>1. t \in 1..req[q].cur
        BY <3>0
      <4> QED
        BY <1>1, <3>0, <4>1
    <3> QED
      BY <1>2, <1>4, <2>1, <3>1
  <2>2. CASE req'[q] = req[q]
    BY <2>1, <2>2
  <2>3. CASE Decides(q)
    <3>1. /\ root.gen + 1 \in Task /\ req'[q].cur = root.gen + 1
          /\ Head(req'[q].todo) = "create" \/ status[root.gen + 1] # "absent"
      BY <2>3 DEF Decides
    <3> PICK g : g = root.gen
      OBVIOUS
    <3>4. g \in Int /\ g >= 0 /\ g \in Task /\ \A u \in 1..g : u \in Task
      BY <1>1
    <3>5. g + 1 # 0 /\ \A t \in 1..((g + 1) - 1) : t \in 1..g /\ g # 0
      BY <3>4
    <3>2. req'[q].cur # 0 /\ \A t \in 1..(req'[q].cur - 1) : t \in 1..root.gen /\ t \in Task /\ root.gen # 0
      BY <3>1, <3>4, <3>5
    <3>3. root.gen # 0 => \A t \in 1..root.gen : status[t] # "absent"
      BY <1>1, <1>3 DEF RootKnown, InOrder
    <3> QED
      BY <1>2, <3>1, <3>2, <3>3
  <2>4. CASE Carries(q)
    <3>1. MakesNow(req[q]) /\ req'[q].cur = req[q].cur
      BY <2>4 DEF Carries
    <3>2. status'[req[q].cur] # "absent"
      <4>1. CASE Creating(q)
        <5>1. status' = [status EXCEPT ![req[q].cur] = "pending"]
          BY <4>1 DEF Creating, Create
        <5> QED
          BY <1>1, <1>4, <5>1 DEF TasksTyped
      <4>2. CASE PublishRepair(q)
        <5>1. Head(req[q].todo) # "create"
          BY <4>2 DEF PublishRepair, Calling
        <5> QED
          BY <2>1, <3>1, <5>1
      <4> QED
        BY <2>4, <4>1, <4>2 DEF Carries
    <3> QED
      BY <2>1, <3>1, <3>2
  <2> QED
    BY <1>1, <2>2, <2>3, <2>4, WhoMakes
<1> QED
  BY <1>5, <1>6, <1>7, <1>8 DEF Gapless

LEMMA BaseInit == RepairInit => Base
<1> SUFFICES ASSUME RepairInit PROVE Base
  OBVIOUS
<1>1. NoSnapshot \in Snapshot /\ Idle \in Request /\ Idle.todo = <<>> /\ Sound(Idle) /\ Ahead(Idle.todo) = {} /\ 0 \in Task
      /\ NoTask # 0
  BY IdleTyped, IdleSound, TasksAre DEF NoTask
<1>2. req = [p \in Requests |-> Idle] /\ \A p \in Requests : req[p] = Idle
  BY DEF RepairInit
<1>3. TasksTyped /\ QueueTyped
  BY <1>1 DEF RepairInit, TasksTyped, QueueTyped, Status
<1>4. ChainTyped
  BY DEF RepairInit, ChainTyped, Resolution
<1>5. RootTyped
  <2>1. root = [gen |-> 0, attempts |-> 0, history |-> {}, why |-> "none", owner |-> Nobody, snapshot |-> NoSnapshot]
    BY DEF RepairInit
  <2> QED
    BY <1>1, <2>1 DEF RootTyped, Why, Owner
<1>6. DoneTyped
  BY DEF RepairInit, DoneTyped
<1>7. RequestsTyped
  BY <1>1, <1>2 DEF RepairInit, RequestsTyped, Owner
<1>8. BoundsTyped
  <2>1. limit \in Limits /\ limit.continues \in Nat /\ limit.resets \in Nat /\ limit.crashes \in Nat
    BY BoundAssumption DEF RepairInit
  <2>2. audits = 0 /\ continues = 0 /\ resets = 0 /\ crashes = 0 /\ diverted \in BOOLEAN
    BY DEF RepairInit
  <2>3. 0 \in 0..limit.continues /\ 0 \in 0..limit.resets /\ 0 \in 0..limit.crashes /\ 0 \in Nat
    BY <2>1
  <2> QED
    BY <2>1, <2>2, <2>3 DEF BoundsTyped
<1>9. RootSound
  BY <1>1 DEF RepairInit, RootSound
<1>10. ChainSound
  BY <1>1, <1>2, <1>3, <1>4, <1>5, <1>6, <1>7, <1>8, <1>9, TypeParts DEF ChainSound, AllSound
<1>11. AllSourced
  <2>1. SourceSound(Idle)
    BY <1>1, NoSource
  <2> QED
    BY <1>2, <2>1 DEF AllSourced
<1>12. MakesNext /\ KillKnown
  BY <1>1, <1>2 DEF MakesNext, MakesNow, KillKnown
<1>13. InOrder /\ RootKnown
  BY <1>1 DEF RepairInit, InOrder, RootKnown
<1> QED
  BY <1>10, <1>11, <1>12, <1>13 DEF Base, Gapless

LEMMA BaseMoves ==
  ASSUME Base, RepairNext
  PROVE  Base'
<1>1. ChainSound /\ AllSourced /\ MakesNext /\ KillKnown /\ status[0] # "absent"
  BY DEF Base, Gapless, RootKnown
<1>2. RequestsTyped' /\ AllSound' /\ AllSourced'
  BY <1>1, RequestsKeep
<1>3. TasksTyped' /\ QueueTyped' /\ (Remains \/ \E p \in Requests : Creating(p))
  BY <1>1, TasksMove
<1>4. ChainTyped' /\ RootTyped' /\ pointer'[0] # 0 /\ 0 \notin root'.history
  BY <1>1, ChainMoves
<1>5. DoneTyped' /\ BoundsTyped'
  BY <1>1, DoneMoves, BoundsMove
<1>6. fixFor'[0] = NoTask
  BY <1>1, <1>3, RootStaysRoot
<1>7. TypeOK'
  BY <1>2, <1>3, <1>4, <1>5
     DEF TypeOK, TasksTyped, QueueTyped, ChainTyped, RootTyped, DoneTyped, RequestsTyped, BoundsTyped
<1>8. ChainSound'
  BY <1>2, <1>4, <1>6, <1>7 DEF ChainSound, RootSound
<1> QED
  BY <1>2, <1>8, GaplessMoves DEF Base

LEMMA BaseStays == Base /\ UNCHANGED repairVars => Base'
<1> SUFFICES ASSUME Base, UNCHANGED repairVars PROVE Base'
  OBVIOUS
<1>1. /\ UNCHANGED <<status, review, fixFor, queued, resolution, pointer, resolvedBy, root>>
      /\ UNCHANGED <<applied, candidates, dependent, lock, req, audits, continues, resets, crashes, limit, diverted>>
  BY DEF repairVars, taskVars, chainVars, doneVars, bounds, counters
<1> QED
  BY <1>1 DEF Base, ChainSound, TypeOK, AllSound, RootSound, AllSourced, Gapless, MakesNext, KillKnown, InOrder, RootKnown

LEMMA RepairBase == RepairSpec => []Base
<1>1. Base /\ [RepairNext]_repairVars => Base'
  BY BaseMoves, BaseStays
<1> QED
  BY <1>1, BaseInit, PTL DEF RepairSpec

\* The variables of the repair chain keep their types, whatever the number of
\* requests, generations, continues, resets and crashes.
THEOREM RepairTypes == RepairSpec => []TypeOK
<1>1. Base => TypeOK
  BY DEF Base, ChainSound
<1> QED
  BY <1>1, RepairBase, PTL

-----------------------------------------------------------------------------
(* Repairs go on one after the other.                                       *)

\* Until the root is pointed away from a repair at work, the repair at work is the last
\* one made; it is the one the root knows of and points at; and none is about to be
\* created beside it.
InLine == ~diverted =>
  /\ \A t \in AtWork, u \in Task \ {0} : status[u] # "absent" => u <= t
  /\ root.gen \in AtWork => pointer[0] = root.gen
  /\ \A p \in Requests : Calling(p, "create") /\ status[req[p].cur] = "absent" => AtWork = {}

\* Once the root was pointed away that is remembered.
LEMMA DivertedStays ==
  ASSUME RepairNext, diverted
  PROVE  diverted'
<1>1. CASE UNCHANGED diverted
  BY <1>1
<1>2. ASSUME NEW p \in Requests, AwaitReview(p) \/ AskPm(p) \/ Close(p) \/ Clear(p) PROVE diverted'
  <2>1. UNCHANGED diverted \/ \E c : Divert(c)
    <3>1. CASE AwaitReview(p)
      BY <3>1, Zenon DEF AwaitReview
    <3>2. CASE Close(p)
      BY <3>2, Zenon DEF Close
    <3>3. CASE Clear(p)
      BY <3>3, Zenon DEF Clear
    <3>4. CASE AskPm(p)
      BY <3>4, Zenon DEF AskPm
    <3> QED
      BY <1>2, <3>1, <3>2, <3>3, <3>4
  <2> QED
    BY <2>1 DEF Divert
<1>3. ASSUME NEW p \in Requests, BeginContinue(p) \/ Audit(p) \/ Crash(p) PROVE UNCHANGED diverted
  BY <1>3, Zenon DEF BeginContinue, Audit, Crash
<1>4. ASSUME NEW t \in Task, Lose(t) PROVE UNCHANGED diverted
  BY <1>4 DEF Lose
<1>5. CASE ResetRoot
  BY <1>5 DEF ResetRoot
<1> QED
  BY <1>1, <1>2, <1>3, <1>4, <1>5, BoundChanges

\* Where the root is pointed at.
LEMMA PointerMoves ==
  ASSUME ChainSound, AllSourced, RepairNext, ~diverted'
  PROVE  \/ pointer'[0] = pointer[0]
         \/ \E p \in Requests : Puts(p) /\ pointer'[0] = req[p].cur
         \/ AtWork \subseteq {pointer'[0]}
         \/ ResetRoot
<1>1. pointer \in [Task -> Task \cup {NoTask}] /\ 0 \in Task /\ NoTask \notin Task /\ ChainSound
  BY RootMoves, TasksAre DEF ChainTyped
<1>2. ASSUME NEW c, Divert(c) PROVE AtWork \subseteq {c}
  BY <1>2 DEF Divert
<1>3. ASSUME NEW p \in Requests, WriteRoot(p) PROVE Puts(p) /\ pointer'[0] = req[p].cur
  <2>1. pointer' = [pointer EXCEPT ![0] = req[p].cur]
    BY <1>3 DEF WriteRoot
  <2> QED
    BY <1>1, <1>3, <2>1, RootWritten
<1>4. ASSUME NEW p \in Requests, WriteSource(p) PROVE pointer'[0] = pointer[0]
  <2>1. "source" \in Ahead(req[p].todo)
    BY <1>1, <1>4, CallerMoves, CallingMoves DEF WriteSource
  <2>2. req[p].source # 0 /\ req[p].source \in Task
    BY <2>1, CallerMoves DEF AllSourced, SourceSound
  <2>3. pointer' = [pointer EXCEPT ![req[p].source] = req[p].cur]
    BY <1>4 DEF WriteSource
  <2> QED
    BY <1>1, <2>2, <2>3
<1>5. ASSUME NEW p \in Requests, AwaitReview(p) \/ Close(p) PROVE pointer'[0] = pointer[0] \/ AtWork \subseteq {pointer'[0]}
  <2>1. CASE UNCHANGED pointer
    BY <2>1
  <2>2. CASE /\ pointer' = [pointer EXCEPT ![fixFor[req[p].cur]] = req[p].by]
             /\ fixFor[req[p].cur] = 0 => Divert(req[p].by)
    BY <1>1, <1>2, <2>2
  <2>3. \/ UNCHANGED pointer
        \/ /\ pointer' = [pointer EXCEPT ![fixFor[req[p].cur]] = req[p].by]
           /\ fixFor[req[p].cur] = 0 => Divert(req[p].by)
    <3>1. CASE AwaitReview(p)
      BY <3>1, Zenon DEF AwaitReview
    <3>2. CASE Close(p)
      BY <3>2, Zenon DEF Close, chainVars
    <3> QED
      BY <1>5, <3>1, <3>2
  <2> QED
    BY <2>1, <2>2, <2>3
<1>6. ASSUME NEW p \in Requests, Clear(p) PROVE AtWork \subseteq {pointer'[0]}
  <2>1. Divert(NoTask) /\ pointer' = [pointer EXCEPT ![0] = NoTask]
    BY <1>6 DEF Clear
  <2> QED
    BY <1>1, <1>2, <2>1
<1>7. ASSUME NEW p \in Requests, CancelCommit(p) \/ Reopen(p) \/ BeginContinue(p) \/ Audit(p) \/ Crash(p)
      PROVE UNCHANGED pointer
  BY <1>7, Zenon DEF CancelCommit, Reopen, BeginContinue, Audit, Crash
<1>8. ASSUME NEW p \in Requests, NEW t \in Task, ReconcileBegin(p, t) PROVE UNCHANGED pointer
  BY <1>8 DEF ReconcileBegin
<1>9. ASSUME NEW p \in Requests, AskPm(p) PROVE pointer'[0] = pointer[0] \/ AtWork \subseteq {pointer'[0]}
  <2> PICK c : c = IF req[p].cur = 0 THEN NoTask ELSE req[p].cur
    OBVIOUS
  <2>1. pointer' = [pointer EXCEPT ![0] = c] /\ (c = pointer[0] \/ Divert(c))
    BY <1>9 DEF AskPm
  <2>2. pointer'[0] = c
    BY <1>1, <2>1
  <2> QED
    BY <1>2, <2>1, <2>2
<1> QED
  BY <1>3, <1>4, <1>5, <1>6, <1>7, <1>8, <1>9, ChainChanges

\* Two that are about to create the next repair create the same one.
LEMMA NextIsOne ==
  ASSUME Base, NEW p \in Requests, NEW q \in Requests,
         Calling(p, "create"), status[req[p].cur] = "absent", Calling(q, "create"), status[req[q].cur] = "absent"
  PROVE  req[p].cur = req[q].cur
<1>1. ASSUME NEW r \in Requests, Calling(r, "create")
      PROVE  req[r].cur \in Nat \ {0} /\ \A t \in 1..(req[r].cur - 1) : status[t] # "absent"
  <2>1. MakesNow(req[r])
    BY <1>1 DEF Calling, MakesNow, Making
  <2>2. req[r].cur \in Task
    BY CallerMoves DEF Base
  <2>3. req[r].cur \in Nat
    BY <2>2, BoundAssumption DEF Task
  <2> QED
    BY <2>1, <2>3 DEF Base, Gapless, MakesNext
<1>2. \/ req[p].cur = req[q].cur
      \/ req[p].cur \in 1..(req[q].cur - 1)
      \/ req[q].cur \in 1..(req[p].cur - 1)
  BY <1>1
<1> QED
  BY <1>1, <1>2

LEMMA InLineMoves ==
  ASSUME Base, InLine, RepairNext
  PROVE  InLine'
<1> SUFFICES ASSUME ~diverted' PROVE
      /\ \A t \in AtWork', u \in Task \ {0} : status'[u] # "absent" => u <= t
      /\ root'.gen \in AtWork' => pointer'[0] = root'.gen
      /\ \A q \in Requests : Head(req'[q].todo) = "create" /\ req'[q].todo # <<>> /\ status'[req'[q].cur] = "absent" =>
           AtWork' = {}
  BY DEF InLine, Calling
<1>1. /\ \A t \in AtWork, u \in Task \ {0} : status[u] # "absent" => u <= t
      /\ root.gen \in AtWork => pointer[0] = root.gen
      /\ \A p \in Requests : Calling(p, "create") /\ status[req[p].cur] = "absent" => AtWork = {}
  BY DivertedStays DEF InLine
<1>2. ChainSound /\ AllSourced /\ TasksTyped /\ root.gen \in Task /\ 0 \in Task /\ NoTask \notin Task
      /\ InOrder /\ RootKnown /\ Task \subseteq Nat
  BY RootMoves, TasksAre, BoundAssumption DEF Base, Gapless, Task
<1>3. CASE Remains
  <2>1. AtWork' \subseteq AtWork
    BY <1>3 DEF Remains, AtWork
  <2>2. \A t \in AtWork', u \in Task \ {0} : status'[u] # "absent" => u <= t
    BY <1>1, <1>3, <2>1 DEF Remains
  <2>3. ASSUME root'.gen \in AtWork' PROVE pointer'[0] = root'.gen
    <3>0. ChainSound
      BY <1>2
    <3>1. root'.gen # 0
      BY <2>3 DEF AtWork
    <3>2. ASSUME NEW p \in Requests, Puts(p) PROVE pointer'[0] = root'.gen
      <4>1. pointer' = [pointer EXCEPT ![0] = req[p].cur] /\ root'.gen = req[p].cur
        BY <3>2 DEF Puts, WriteRoot
      <4>2. pointer \in [Task -> Task \cup {NoTask}]
        BY <3>0, RootMoves DEF ChainTyped
      <4> QED
        BY <1>2, <4>1, <4>2
    <3>3. CASE root'.gen = root.gen
      <4>1. root.gen \in AtWork /\ pointer[0] = root.gen
        BY <1>1, <2>1, <2>3, <3>3
      <4>2. CASE pointer'[0] = pointer[0]
        BY <3>3, <4>1, <4>2
      <4>3. CASE AtWork \subseteq {pointer'[0]}
        BY <3>3, <4>1, <4>3
      <4>4. CASE ResetRoot
        <5>1. root' = [root EXCEPT !.gen = 0, !.attempts = 0, !.history = {}]
          BY <4>4 DEF ResetRoot
        <5>2. RootTyped
          BY <3>0, RootMoves
        <5>3. root'.gen = 0
          BY <5>1, <5>2 DEF RootTyped
        <5> QED
          BY <3>1, <5>3
      <4> QED
        BY <1>2, <3>2, <4>2, <4>3, <4>4, PointerMoves
    <3> QED
      BY <3>0, <3>1, <3>2, <3>3, RootChanges
  <2>4. ASSUME NEW q \in Requests, Head(req'[q].todo) = "create", req'[q].todo # <<>>, status'[req'[q].cur] = "absent"
        PROVE  AtWork = {}
    <3>1. MakesNow(req'[q])
      BY <2>4 DEF MakesNow, Making
    <3>2. req'[q] = req[q] \/ Decides(q)
      BY <1>2, <2>4, <3>1, WhoMakes DEF Carries
    <3>3. CASE req'[q] = req[q]
      <4>1. req[q].cur \in Task /\ Calling(q, "create")
        BY <1>2, <2>4, <3>3, CallerMoves DEF Calling
      <4> QED
        BY <1>1, <1>3, <2>4, <3>3, <4>1 DEF Remains
    <3>4. CASE Decides(q)
      <4>1. /\ pointer[0] = NoTask \/ status[pointer[0]] \notin {"pending", "running"}
            /\ root.gen + 1 \in Task /\ req'[q].cur = root.gen + 1
        BY <3>4 DEF Decides
      <4>2. status[root.gen + 1] = "absent"
        BY <1>3, <2>4, <4>1 DEF Remains
      <4> SUFFICES ASSUME NEW t \in AtWork PROVE FALSE
        OBVIOUS
      <4>3. t \in Task \ {0} /\ status[t] \in {"pending", "running"} /\ t \in Nat
        BY <1>2 DEF AtWork
      <4> PICK g : g = root.gen
        OBVIOUS
      <4>4. g \in Task /\ g \in Nat /\ g <= t
        <5>1. g \in Task /\ g \in Nat /\ (g = 0 \/ status[g] # "absent")
          BY <1>2 DEF RootKnown
        <5>2. g # 0 => g \in Task \ {0} /\ status[g] # "absent"
          BY <5>1
        <5>3. g # 0 => g <= t
          BY <1>1, <5>2
        <5> QED
          BY <4>3, <5>1, <5>3
      <4>5. ~(g + 1 \in 1..t)
        <5>1. \A u \in 1..t : status[u] # "absent"
          BY <1>2, <4>3 DEF InOrder
        <5> QED
          BY <4>2, <5>1
      <4>6. root.gen = t
        BY <4>3, <4>4, <4>5
      <4> QED
        BY <1>1, <1>2, <4>1, <4>3, <4>6
    <3> QED
      BY <3>2, <3>3, <3>4
  <2> QED
    BY <2>1, <2>2, <2>3, <2>4
<1>4. ASSUME NEW p \in Requests, Creating(p)
      PROVE  /\ \A t \in AtWork', u \in Task \ {0} : status'[u] # "absent" => u <= t
             /\ root'.gen \in AtWork' => pointer'[0] = root'.gen
             /\ \A q \in Requests : Head(req'[q].todo) = "create" /\ req'[q].todo # <<>> /\ status'[req'[q].cur] = "absent" =>
                  AtWork' = {}
  <2>1. Calling(p, "create") /\ status[req[p].cur] = "absent" /\ UNCHANGED <<root, pointer>>
    BY <1>4 DEF Creating, Create, chainVars
  <2>2. req[p].cur \in Task /\ MakesNow(req[p]) /\ status' = [status EXCEPT ![req[p].cur] = "pending"]
    BY <1>2, <1>4, <2>1, CallerMoves DEF Creating, Create, Calling, MakesNow, Making
  <2>3. req[p].cur # 0 /\ AtWork = {}
    BY <1>1, <2>1, <2>2 DEF Base, Gapless, MakesNext
  <2> PICK c : c = req[p].cur
    OBVIOUS
  <2>4. c \in Task \ {0} /\ c \in Nat /\ status[c] = "absent" /\ status' = [status EXCEPT ![c] = "pending"]
    BY <1>2, <2>1, <2>2, <2>3
  <2>5. AtWork' \subseteq {c}
    BY <1>2, <2>3, <2>4 DEF AtWork, TasksTyped
  <2>6. \A u \in Task \ {0} : status'[u] # "absent" => u <= c
    <3> SUFFICES ASSUME NEW u \in Task \ {0}, status'[u] # "absent", u # c PROVE u <= c
      BY <2>4
    <3>1. status[u] # "absent" /\ u \in Nat
      BY <1>2, <2>4 DEF TasksTyped
    <3>2. c \notin 1..u
      BY <1>2, <2>4, <3>1 DEF InOrder
    <3> QED
      BY <2>4, <3>1, <3>2
  <2>7. root'.gen \notin AtWork'
    BY <1>2, <2>1, <2>4, <2>5 DEF RootKnown
  <2>8. ASSUME NEW q \in Requests, Head(req'[q].todo) = "create", req'[q].todo # <<>>, status'[req'[q].cur] = "absent"
        PROVE  FALSE
    <3>1. MakesNow(req'[q]) /\ ~Ensure(q)
      <4>2. ~Ensure(q)
        <5> SUFFICES ASSUME Ensure(q) PROVE FALSE
          OBVIOUS
        <5>1. UNCHANGED status
          BY DEF Ensure, taskVars
        <5> QED
          BY <1>2, <2>4, <5>1 DEF TasksTyped
      <4> QED
        BY <2>8, <4>2 DEF MakesNow, Making
    <3>2. req'[q] = req[q]
      BY <1>2, <2>8, <3>1, WhoMakes DEF Carries, Decides
    <3>3. Calling(q, "create") /\ req[q].cur \in Task
      BY <1>2, <2>8, <3>2, CallerMoves DEF Calling
    <3>4. status[req[q].cur] = "absent" /\ req[q].cur # c
      BY <1>2, <2>4, <2>8, <3>2, <3>3 DEF TasksTyped
    <3>5. req[q].cur = req[p].cur
      BY <2>1, <3>3, <3>4, NextIsOne
    <3> QED
      BY <3>4, <3>5
  <2> QED
    BY <2>5, <2>6, <2>7, <2>8
<1> QED
  BY <1>2, <1>3, <1>4, TasksMove DEF Base, Gapless

LEMMA InLineIsOne ==
  ASSUME InLine
  PROVE  diverted \/ OneRepairAtATime
<1> SUFFICES ASSUME ~diverted, NEW t \in AtWork, NEW u \in AtWork PROVE t = u
  BY DEF OneRepairAtATime
<1>1. t \in Task \ {0} /\ u \in Task \ {0} /\ status[t] # "absent" /\ status[u] # "absent" /\ Task \subseteq Int
  BY TasksAre DEF AtWork
<1> QED
  BY <1>1 DEF InLine

-----------------------------------------------------------------------------
(* The counters.                                                            *)

\* Who counts a continue, and who audits one.
LEMMA CountMoves ==
  ASSUME ChainSound, RepairNext
  PROVE  \/ audits' = audits /\ continues' = continues
         \/ audits' = audits /\ continues' = continues + 1
         \/ audits' = audits + 1 /\ continues' = continues /\ root.owner # Nobody /\ root'.owner = Nobody
<1>1. RootTyped
  BY RootMoves
<1>2. CASE UNCHANGED <<audits, continues>>
  BY <1>2
<1>3. ASSUME NEW p \in Requests, AwaitReview(p) \/ AskPm(p) \/ Close(p) \/ Clear(p) \/ Crash(p)
      PROVE  UNCHANGED <<audits, continues>>
  BY <1>3, Zenon DEF AwaitReview, AskPm, Close, Clear, Crash, counters
<1>4. ASSUME NEW p \in Requests, BeginContinue(p) PROVE audits' = audits /\ continues' \in {continues, continues + 1}
  BY <1>4, Zenon DEF BeginContinue
<1>5. ASSUME NEW p \in Requests, Audit(p)
      PROVE  \/ UNCHANGED <<audits, continues>>
             \/ audits' = audits + 1 /\ continues' = continues /\ root.owner # Nobody /\ root'.owner = Nobody
  <2>1. Released.owner = Nobody
    BY <1>1, <1>5, RootKept
  <2>2. continues' = continues
    BY <1>5 DEF Audit
  <2>3. audits' = audits \/ (audits' = audits + 1 /\ root.owner # Nobody /\ root' = Released)
    BY <1>5, Zenon DEF Audit
  <2> QED
    BY <2>1, <2>2, <2>3
<1>6. CASE (\E t \in Task : Lose(t)) \/ ResetRoot
  BY <1>6 DEF Lose, ResetRoot
<1> QED
  BY <1>2, <1>3, <1>4, <1>5, <1>6, BoundChanges

\* Every audit is of a continue that has begun, and the one under way has none yet.
Audited == audits + (IF root.owner = Nobody THEN 0 ELSE 1) <= continues

LEMMA AuditedMoves ==
  ASSUME ChainSound, Audited, RepairNext
  PROVE  Audited'
<1>1. audits \in Nat /\ continues \in Nat
  BY RootMoves, BoundAssumption DEF BoundsTyped
<1>2. CASE audits' = audits /\ continues' = continues
  <2>1. root.owner = Nobody => root'.owner = Nobody
    BY <1>1, <1>2, RootChanges
  <2> QED
    BY <1>1, <1>2, <2>1 DEF Audited
<1>3. CASE audits' = audits /\ continues' = continues + 1
  BY <1>1, <1>3 DEF Audited
<1>4. CASE audits' = audits + 1 /\ continues' = continues /\ root.owner # Nobody /\ root'.owner = Nobody
  BY <1>1, <1>4 DEF Audited
<1> QED
  BY <1>2, <1>3, <1>4, CountMoves

\* A decision on a delivery is only taken where there is none.
LEMMA ReviewMoves ==
  ASSUME ChainSound, RepairNext, NEW t \in Task
  PROVE  review'[t] = review[t] \/ review[t] = "none" \/ resets' > resets
<1>1. review \in [Task -> {"none", "accepted", "rejected"}] /\ resets \in Nat
  BY RootMoves, BoundAssumption DEF TasksTyped, BoundsTyped
<1>2. CASE UNCHANGED review
  BY <1>2
<1>3. ASSUME NEW u \in Task, PickSuperseded(u) \/ Claim(u) \/ Reclaim(u) PROVE UNCHANGED review
  BY <1>3 DEF PickSuperseded, Claim, Reclaim
<1>4. ASSUME NEW p \in Requests, NEW u \in Task, ReportDone(p, u) \/ ReportFailed(p, u) \/ CancelTask(p, u) PROVE UNCHANGED review
  BY <1>4, Zenon DEF ReportDone, ReportFailed, CancelTask
<1>5. ASSUME NEW p \in Requests, Create(p) \/ PublishRepair(p) \/ KillChild(p) \/ Reconcile(p) PROVE UNCHANGED review
  BY <1>5, Zenon DEF Create, PublishRepair, KillChild, Reconcile
<1>6. ASSUME NEW p \in Requests, NEW ruling \in {"accept", "reject"}, Commit(p, ruling)
      PROVE  review'[t] = review[t] \/ review[t] = "none"
  <2>1. req[p] \in Request
    BY CallerMoves
  <2>2. [req[p] EXCEPT !.base = NoSnapshot].task = req[p].task
    BY <2>1 DEF Request
  <2>3. \/ UNCHANGED review
        \/ SameReview(p, req[p].task) /\ \E v : review' = [review EXCEPT ![req[p].task] = v]
    BY <1>6, <2>2, Zenon DEF Commit
  <2> QED
    BY <1>1, <2>3 DEF SameReview, Awaiting
<1>7. CASE ResetRoot
  BY <1>1, <1>7 DEF ResetRoot
<1> QED
  BY <1>2, <1>3, <1>4, <1>5, <1>6, <1>7, TaskChanges

\* Without a reset the counters of the root follow its generation, and without a
\* continue nothing is made beyond the retry limit.
Counted == resets = 0 =>
  /\ root.attempts = root.gen
  /\ \A p \in Requests : MakesNow(req[p]) =>
       req[p].base.gen + 1 = req[p].cur /\ req[p].base.attempts = req[p].base.gen
  /\ continues = 0 =>
       /\ \A t \in Task \ {0} : status[t] # "absent" => t <= limit.retries
       /\ root.owner = Nobody
       /\ \A p \in Requests : /\ "audit" \notin Ahead(req[p].todo)
                              /\ MakesNow(req[p]) => req[p].cur <= limit.retries

\* A reset is counted.
LEMMA ResetCounts ==
  ASSUME ChainSound, RepairNext
  PROVE  resets' = 0 => resets = 0 /\ ~ResetRoot
<1>1. resets \in Nat /\ resets' >= resets /\ resets' \in Nat
  BY BoundsMove, RootMoves, BoundAssumption DEF BoundsTyped
<1> QED
  BY <1>1 DEF ResetRoot

\* Who gets the audit of a continue ahead.
LEMMA AuditAhead ==
  ASSUME ChainSound, AllSourced, RepairNext, NEW q \in Requests,
         "audit" \in Ahead(req'[q].todo), "audit" \notin Ahead(req[q].todo)
  PROVE  root.owner # Nobody \/ continues' = continues + 1
<1>1. Turns(q)
  BY NewCall
<1>2. ASSUME NEW N, Heads(q, N), "audit" \notin N PROVE FALSE
  BY <1>2 DEF Heads
<1>3. CASE BeginContinue(q)
  <2> SUFFICES ASSUME continues' # continues + 1 PROVE FALSE
    OBVIOUS
  <2>1. GoOn(q, req[q], <<>>)
    BY <1>3, Zenon DEF BeginContinue
  <2>2. <<>> \in Seq(Call) /\ Ahead(<<>>) = {} /\ req[q] \in Request /\ RequestsTyped
    BY KnownCalls, CallerMoves
  <2>3. req'[q].todo = <<>>
    BY <2>1, <2>2, GoOnMoves
  <2> QED
    BY <2>2, <2>3
<1> QED
  BY <1>1, <1>2, <1>3 DEF Turns, Ending, Chain

LEMMA CountedMoves ==
  ASSUME Base, Counted, RepairNext
  PROVE  Counted'
<1>1. ChainSound /\ AllSourced /\ TasksTyped
  BY RootMoves DEF Base
<1>2. resets' = 0 => resets = 0 /\ ~ResetRoot
  BY <1>1, ResetCounts
<1>3. limit' = limit /\ continues \in Nat /\ continues' \in Nat /\ continues' >= continues
  <2>1. BoundsTyped /\ BoundsTyped' /\ limit' = limit /\ continues' >= continues /\ limit.continues \in Nat
    BY <1>1, BoundsMove, RootMoves, BoundAssumption DEF BoundsTyped
  <2> QED
    BY <2>1 DEF BoundsTyped
<1>4. limit.retries \in Nat /\ root.gen \in Nat /\ Task \subseteq Nat
  <2>1. BoundsTyped /\ root.gen \in Task
    BY <1>1, RootMoves
  <2> QED
    BY <2>1, BoundAssumption DEF BoundsTyped, Task
<1> SUFFICES ASSUME resets' = 0 PROVE
      /\ root'.attempts = root'.gen
      /\ \A q \in Requests : MakesNow(req'[q]) =>
           req'[q].base.gen + 1 = req'[q].cur /\ req'[q].base.attempts = req'[q].base.gen
      /\ continues' = 0 =>
           /\ \A t \in Task \ {0} : status'[t] # "absent" => t <= limit'.retries
           /\ root'.owner = Nobody
           /\ \A q \in Requests : /\ "audit" \notin Ahead(req'[q].todo)
                                  /\ MakesNow(req'[q]) => req'[q].cur <= limit'.retries
  BY DEF Counted, MakesNow
<1>5. /\ root.attempts = root.gen
      /\ \A p \in Requests : MakesNow(req[p]) =>
           req[p].base.gen + 1 = req[p].cur /\ req[p].base.attempts = req[p].base.gen
      /\ continues = 0 =>
           /\ \A t \in Task \ {0} : status[t] # "absent" => t <= limit.retries
           /\ root.owner = Nobody
           /\ \A p \in Requests : /\ "audit" \notin Ahead(req[p].todo)
                                  /\ MakesNow(req[p]) => req[p].cur <= limit.retries
  BY <1>2 DEF Counted
<1>6. root'.attempts = root'.gen
  <2>1. ASSUME NEW p \in Requests, Puts(p) PROVE root'.attempts = root'.gen
    <3>1. MakesNow(req[p])
      BY <2>1 DEF Puts, Calling, MakesNow, Making
    <3> QED
      BY <1>5, <2>1, <3>1 DEF Puts
  <2> QED
    BY <1>1, <1>2, <1>5, <2>1, RootChanges
<1>7. ASSUME NEW q \in Requests, MakesNow(req'[q])
      PROVE  req'[q].base.gen + 1 = req'[q].cur /\ req'[q].base.attempts = req'[q].base.gen
  <2>1. CASE Decides(q)
    <3>1. Snap.gen = root.gen /\ Snap.attempts = root.attempts
      BY <1>1, RootMoves, SnapTyped
    <3> QED
      BY <1>5, <2>1, <3>1 DEF Decides
  <2>2. CASE Carries(q)
    BY <1>5, <2>2 DEF Carries
  <2> QED
    BY <1>1, <1>5, <1>7, <2>1, <2>2, WhoMakes
<1>8. ASSUME continues' = 0
      PROVE /\ \A t \in Task \ {0} : status'[t] # "absent" => t <= limit'.retries
            /\ root'.owner = Nobody
            /\ \A q \in Requests : /\ "audit" \notin Ahead(req'[q].todo)
                                   /\ MakesNow(req'[q]) => req'[q].cur <= limit'.retries
  <2>1. continues = 0 /\ continues' # continues + 1
    BY <1>3, <1>8
  <2>2. ASSUME NEW t \in Task \ {0}, status'[t] # "absent" PROVE t <= limit'.retries
    <3>1. CASE status[t] # "absent"
      BY <1>3, <1>5, <2>1, <3>1
    <3>2. CASE status[t] = "absent"
      <4> PICK p \in Requests : Creating(p) /\ req[p].cur = t /\ MakesNow(req[p])
        BY <2>2, <3>2, MadeMoves
      <4> QED
        BY <1>3, <1>5, <2>1
    <3> QED
      BY <3>1, <3>2
  <2>3. root'.owner = Nobody
    BY <1>1, <1>5, <2>1, RootChanges
  <2>4. ASSUME NEW q \in Requests PROVE "audit" \notin Ahead(req'[q].todo)
    BY <1>1, <1>5, <2>1, AuditAhead
  <2>5. ASSUME NEW q \in Requests, MakesNow(req'[q]) PROVE req'[q].cur <= limit'.retries
    <3>1. CASE Decides(q)
      <4>1. ~Override(q)
        BY <1>5, <2>1 DEF Override, Ahead
      <4>2. ~(root.gen >= limit.retries) /\ req'[q].cur = root.gen + 1
        BY <1>5, <3>1, <4>1 DEF Decides, LimitReached
      <4> QED
        BY <1>3, <1>4, <4>2
    <3>2. CASE Carries(q)
      BY <1>3, <1>5, <2>1, <3>2 DEF Carries
    <3> QED
      BY <1>1, <1>3, <1>5, <2>1, <2>5, <3>1, <3>2, WhoMakes
  <2> QED
    BY <2>2, <2>3, <2>4, <2>5
<1> QED
  BY <1>6, <1>7, <1>8

-----------------------------------------------------------------------------
(* Failures are dealt with.                                                 *)

LEMMA ResetMoves ==
  ASSUME RepairNext
  PROVE  resets' = resets \/ (ResetRoot /\ resets' = resets + 1)
<1>1. ASSUME NEW p \in Requests,
             AwaitReview(p) \/ AskPm(p) \/ Close(p) \/ Clear(p) \/ BeginContinue(p) \/ Audit(p) \/ Crash(p)
      PROVE  resets' = resets
  BY <1>1, Zenon DEF AwaitReview, AskPm, Close, Clear, BeginContinue, Audit, Crash, counters
<1>2. ASSUME NEW t \in Task, Lose(t) PROVE resets' = resets
  BY <1>2 DEF Lose
<1>3. CASE ResetRoot
  BY <1>3 DEF ResetRoot
<1> QED
  BY <1>1, <1>2, <1>3, BoundChanges

\* Only a reset undoes the failure or the acceptance of the root.
LEMMA RootTask ==
  ASSUME ChainSound, RepairNext, resets' = resets
  PROVE  /\ Failure(0) => Failure(0)'
         /\ Accepted(0) => Accepted(0)'
<1>1. /\ TasksTyped /\ QueueTyped /\ 0 \in Task /\ resets \in Nat
      /\ status \in [Task -> Status]
  BY RootMoves, TypeParts, TasksAre, BoundAssumption DEF ChainSound, BoundsTyped, TasksTyped
<1>2. review[0] # "none" => review'[0] = review[0]
  BY <1>1, ReviewMoves
<1>3. ASSUME status[0] \in {"done", "failed"} PROVE status'[0] = status[0]
  <2>1. CASE UNCHANGED status
    BY <2>1
  <2>2. ASSUME NEW t \in Task, PickSuperseded(t) \/ Claim(t) \/ Reclaim(t) PROVE status'[0] = status[0]
    <3>1. status[t] \in {"pending", "running"}
      BY <1>1, <2>2 DEF PickSuperseded, Claim, Reclaim, QueueTyped
    <3>2. \E v : status' = [status EXCEPT ![t] = v]
      BY <2>2, Zenon DEF PickSuperseded, Claim, Reclaim
    <3> QED
      BY <1>1, <1>3, <3>1, <3>2
  <2>3. ASSUME NEW p \in Requests, NEW t \in Task, ReportDone(p, t) \/ ReportFailed(p, t) \/ CancelTask(p, t)
        PROVE  status'[0] = status[0]
    <3>1. status[t] \in {"pending", "running"} /\ \E v : status' = [status EXCEPT ![t] = v]
      BY <2>3, Zenon DEF ReportDone, ReportFailed, CancelTask
    <3> QED
      BY <1>1, <1>3, <3>1
  <2>4. ASSUME NEW p \in Requests, Create(p) PROVE status'[0] = status[0]
    <3>1. \/ UNCHANGED status
          \/ status[req[p].cur] = "absent" /\ status' = [status EXCEPT ![req[p].cur] = "pending"]
      BY <2>4, Zenon DEF Create
    <3> QED
      BY <1>1, <1>3, <3>1
  <2>5. ASSUME NEW p \in Requests, KillChild(p) PROVE status'[0] = status[0]
    <3>1. "kill" \in Ahead(req[p].todo)
      BY <1>1, <2>5, CallerMoves, CallingMoves DEF KillChild
    <3>2. req[p].cur # 0 /\ status' = [status EXCEPT ![req[p].cur] = "cancelled"]
      BY <2>5, <3>1, CallerMoves DEF KillChild, Sound
    <3> QED
      BY <1>1, <3>2
  <2>6. ASSUME NEW p \in Requests, PublishRepair(p) \/ Reconcile(p) PROVE UNCHANGED status
    BY <2>6, Zenon DEF PublishRepair, Reconcile
  <2>7. ASSUME NEW p \in Requests, NEW ruling \in {"accept", "reject"}, Commit(p, ruling) PROVE UNCHANGED status
    BY <2>7, Zenon DEF Commit
  <2>8. ~ResetRoot
    BY <1>1 DEF ResetRoot
  <2> QED
    BY <2>1, <2>2, <2>3, <2>4, <2>5, <2>6, <2>7, <2>8, TaskChanges
<1>4. Failure(0) => Failure(0)'
  BY <1>2, <1>3 DEF Failure, Rejected
<1>5. Accepted(0) => Accepted(0)'
  BY <1>2, <1>3 DEF Accepted
<1> QED
  BY <1>4, <1>5

\* Before the root fails for the first time there is no chain, and nobody works on one.
NoChain == /\ resolution[0] = "none" /\ root.owner = Nobody
           /\ \A t \in Task \ {0} : status[t] = "absent"
           /\ \A p \in Requests : Ahead(req[p].todo) \subseteq Ending
FirstFailure == resets = 0 /\ ~Failure(0) => NoChain

\* Who makes this call has it ahead.
LEMMA CallIsAhead ==
  ASSUME ChainSound, NEW p \in Requests, NEW c, Calling(p, c)
  PROVE  c \in Ahead(req[p].todo)
BY CallerMoves, CallingMoves

LEMMA FirstFailureMoves ==
  ASSUME Base, FirstFailure, RepairNext
  PROVE  FirstFailure'
<1> SUFFICES ASSUME resets' = 0, ~(Failure(0)') PROVE NoChain'
  BY DEF FirstFailure
<1>1. ChainSound /\ AllSourced /\ 0 \in Task /\ resolution \in [Task -> Resolution]
  BY RootMoves, TasksAre DEF Base, ChainTyped
<1>2. resets = 0 /\ ~ResetRoot /\ ~Failure(0)
  <2>1. resets = 0 /\ ~ResetRoot
    BY <1>1, ResetCounts
  <2> QED
    BY <1>1, <2>1, RootTask
<1>3. NoChain
  BY <1>2 DEF FirstFailure
<1>4. ASSUME NEW p \in Requests, NEW c, Calling(p, c) PROVE c \in Ending
  BY <1>1, <1>3, <1>4, CallIsAhead DEF NoChain
<1>5. ASSUME NEW p \in Requests
      PROVE  /\ ~Ensure(p) /\ ~Creating(p) /\ ~PublishRepair(p) /\ ~WriteRoot(p) /\ ~Sweep(p) /\ ~BeginContinue(p)
             /\ ~WriteSource(p) /\ ~AwaitReview(p) /\ ~AskPm(p) /\ ~Close(p) /\ ~CancelCommit(p) /\ ~Reopen(p)
             /\ ~Audit(p) /\ ~Clear(p)
  <2>1. \A c : Calling(p, c) => c \in Ending
    BY <1>4
  <2>0. /\ ~Calling(p, "ensure") /\ ~Calling(p, "create") /\ ~Calling(p, "publish") /\ ~Calling(p, "root")
        /\ ~Calling(p, "sweep") /\ ~Calling(p, "begin")
    BY <2>1 DEF Ending
  <2>2. ~Ensure(p) /\ ~Creating(p) /\ ~PublishRepair(p) /\ ~WriteRoot(p) /\ ~Sweep(p) /\ ~BeginContinue(p)
    BY <2>0, Zenon DEF Ensure, Creating, Create, PublishRepair, WriteRoot, Sweep, BeginContinue
  <2>3. ~WriteSource(p) /\ ~AwaitReview(p) /\ ~AskPm(p) /\ ~Close(p) /\ ~CancelCommit(p) /\ ~Reopen(p)
    BY <2>1 DEF WriteSource, AwaitReview, AskPm, Close, CancelCommit, Reopen, Ending
  <2>4. ~Audit(p) /\ ~Clear(p)
    BY <2>1 DEF Audit, Clear, Ending
  <2> QED
    BY <2>2, <2>3, <2>4
<1>6. resolution'[0] = "none"
  <2>1. UNCHANGED resolution
    <3>1. ASSUME NEW p \in Requests, Crash(p) PROVE UNCHANGED resolution
      BY <3>1 DEF Crash
    <3>2. ASSUME NEW p \in Requests, NEW t \in Task, ReconcileBegin(p, t) PROVE UNCHANGED resolution
      BY <3>2 DEF ReconcileBegin
    <3> QED
      BY <1>2, <1>5, <3>1, <3>2, ChainChanges
  <2> QED
    BY <1>3, <2>1 DEF NoChain
<1>7. root'.owner = Nobody
  BY <1>1, <1>3, <1>5, RootChanges DEF NoChain
<1>8. \A t \in Task \ {0} : status'[t] = "absent"
  BY <1>3, <1>5, MadeMoves DEF NoChain
<1>9. ASSUME NEW q \in Requests PROVE Ahead(req'[q].todo) \subseteq Ending
  <2>1. CASE req'[q] = req[q]
    BY <1>3, <2>1 DEF NoChain
  <2>2. CASE Turns(q)
    <3>1. ~Trouble(q)
      BY <1>2, <1>3 DEF Trouble, NoChain
    <3>2. Heads(q, Ending)
      BY <1>3, <1>5, <2>2, <3>1 DEF Turns, NoChain
    <3> QED
      BY <1>3, <3>2 DEF Heads, NoChain
  <2> QED
    BY <1>1, <1>5, <2>1, <2>2, WhoMoves DEF Hands
<1> QED
  BY <1>6, <1>7, <1>8, <1>9 DEF NoChain

\* A chain is only dropped after a reset, and, while there was but one, for a root whose
\* result is accepted.
ClearInv == \A p \in Requests : "clear" \in Ahead(req[p].todo) => resets >= 1 /\ (resets = 1 => Accepted(0))

\* Who gets the dropping of a chain ahead.
LEMMA ClearAhead ==
  ASSUME ChainSound, AllSourced, RepairNext, NEW q \in Requests,
         "clear" \in Ahead(req'[q].todo), "clear" \notin Ahead(req[q].todo)
  PROVE  Accepted(0) /\ resolution[0] # "none"
<1>1. Turns(q)
  BY NewCall
<1>2. ASSUME NEW N, Heads(q, N), "clear" \notin N PROVE FALSE
  BY <1>2 DEF Heads
<1> QED
  BY <1>1, <1>2 DEF Turns, Ending, Chain

LEMMA ClearMoves ==
  ASSUME Base, FirstFailure, ClearInv, RepairNext
  PROVE  ClearInv'
<1>1. ChainSound /\ AllSourced /\ resets \in Nat
  BY RootMoves, BoundAssumption DEF Base, BoundsTyped
<1> SUFFICES ASSUME NEW q \in Requests, "clear" \in Ahead(req'[q].todo)
    PROVE resets' >= 1 /\ (resets' = 1 => Accepted(0)')
  BY DEF ClearInv
<1>2. resets >= 1 /\ (resets = 1 => Accepted(0))
  <2>1. CASE "clear" \in Ahead(req[q].todo)
    BY <2>1 DEF ClearInv
  <2>2. CASE "clear" \notin Ahead(req[q].todo)
    <3>1. Accepted(0) /\ resolution[0] # "none"
      BY <1>1, <2>2, ClearAhead
    <3>2. ~Failure(0)
      BY <3>1 DEF Accepted, Failure, Rejected
    <3>3. resets # 0
      BY <3>1, <3>2 DEF FirstFailure, NoChain
    <3> QED
      BY <1>1, <3>1, <3>3
  <2> QED
    BY <2>1, <2>2
<1>3. CASE resets' = resets
  BY <1>1, <1>2, <1>3, RootTask
<1>4. CASE resets' = resets + 1
  BY <1>1, <1>2, <1>4
<1> QED
  BY <1>3, <1>4, ResetMoves

\* A failure that nobody deals with yet is a candidate of the reconciliation; of the root
\* that is said until its second reset.
FailedKept == \A t \in Task :
  status[t] = "failed" /\ resolution[t] = "none" /\ (t # 0 \/ resets <= 1) => t \in candidates

\* Who fails becomes a candidate.
LEMMA FailedMoves ==
  ASSUME ChainSound, RepairNext, NEW t \in Task, status'[t] = "failed"
  PROVE  status[t] = "failed" \/ t \in candidates'
<1>1. status \in [Task -> Status]
  BY RootMoves DEF TasksTyped
<1>2. ASSUME NEW u, NEW v, v # "failed", status' = [status EXCEPT ![u] = v] PROVE status[t] = "failed"
  BY <1>1, <1>2
<1>3. CASE UNCHANGED status
  BY <1>3
<1>4. ASSUME NEW u \in Task, PickSuperseded(u) \/ Claim(u) \/ Reclaim(u) PROVE status[t] = "failed"
  <2>1. \E v : v # "failed" /\ status' = [status EXCEPT ![u] = v]
    BY <1>4 DEF PickSuperseded, Claim, Reclaim
  <2> QED
    BY <1>2, <2>1
<1>5. ASSUME NEW p \in Requests, NEW u \in Task, ReportDone(p, u) \/ CancelTask(p, u) PROVE status[t] = "failed"
  <2>1. \E v : v # "failed" /\ status' = [status EXCEPT ![u] = v]
    BY <1>5 DEF ReportDone, CancelTask
  <2> QED
    BY <1>2, <2>1
<1>6. ASSUME NEW p \in Requests, NEW u \in Task, ReportFailed(p, u) PROVE status[t] = "failed" \/ t \in candidates'
  BY <1>1, <1>6 DEF ReportFailed
<1>7. ASSUME NEW p \in Requests, Create(p) \/ KillChild(p) PROVE status[t] = "failed"
  <2>1. UNCHANGED status \/ \E u, v : v # "failed" /\ status' = [status EXCEPT ![u] = v]
    BY <1>7 DEF Create, KillChild
  <2> QED
    BY <1>2, <1>3, <2>1
<1>8. ASSUME NEW p \in Requests, PublishRepair(p) \/ Reconcile(p) PROVE UNCHANGED status
  BY <1>8, Zenon DEF PublishRepair, Reconcile
<1>9. ASSUME NEW p \in Requests, NEW ruling \in {"accept", "reject"}, Commit(p, ruling) PROVE UNCHANGED status
  BY <1>9, Zenon DEF Commit
<1>10. CASE ResetRoot
  BY <1>1, <1>10 DEF ResetRoot
<1> QED
  BY <1>3, <1>4, <1>5, <1>6, <1>7, <1>8, <1>9, <1>10, TaskChanges

\* A resolution is only dropped from the root.
LEMMA ResolutionMoves ==
  ASSUME ChainSound, RepairNext, NEW t \in Task, resolution'[t] = "none"
  PROVE  resolution[t] = "none" \/ (t = 0 /\ \E p \in Requests : Clear(p))
<1>1. resolution \in [Task -> Resolution]
  BY RootMoves DEF ChainTyped
<1>2. ASSUME NEW u, NEW v, v # "none", resolution' = [resolution EXCEPT ![u] = v] PROVE resolution[t] = "none"
  BY <1>1, <1>2
<1>3. CASE UNCHANGED resolution
  BY <1>3
<1>4. ASSUME NEW p \in Requests, WriteRoot(p) \/ WriteSource(p) PROVE resolution[t] = "none"
  <2>1. \E u, v : v # "none" /\ resolution' = [resolution EXCEPT ![u] = v]
    BY <1>4 DEF WriteRoot, WriteSource
  <2> QED
    BY <1>2, <2>1
<1>5. ASSUME NEW p \in Requests, AwaitReview(p) \/ Close(p) PROVE resolution[t] = "none"
  <2>1. \/ UNCHANGED resolution
        \/ resolution' = [resolution EXCEPT ![fixFor[req[p].cur]] = "required"]
        \/ resolution' = [resolution EXCEPT ![fixFor[req[p].cur]] = "resolved"]
    BY <1>5, Zenon DEF AwaitReview, Close, chainVars
  <2> QED
    BY <1>2, <1>3, <2>1
<1>6. ASSUME NEW p \in Requests, AskPm(p) \/ CancelCommit(p) \/ Reopen(p) \/ BeginContinue(p) PROVE resolution[t] = "none"
  <2>1. \/ UNCHANGED resolution
        \/ resolution' = [resolution EXCEPT ![0] = "needs_pm_decision"]
        \/ resolution' = [resolution EXCEPT ![0] = "cancelled"]
        \/ resolution' = [resolution EXCEPT ![0] = "repairing"]
    BY <1>6, Zenon DEF AskPm, CancelCommit, Reopen, BeginContinue
  <2> QED
    BY <1>2, <1>3, <2>1
<1>7. ASSUME NEW p \in Requests, Audit(p) PROVE resolution[t] = "none"
  <2>1. UNCHANGED resolution \/ resolution' = [resolution EXCEPT ![0] = "needs_pm_decision"]
    BY <1>7, Zenon DEF Audit, Rollback
  <2> QED
    BY <1>2, <1>3, <2>1
<1>8. ASSUME NEW p \in Requests, Clear(p) PROVE resolution[t] = "none" \/ t = 0
  BY <1>1, <1>8 DEF Clear
<1>9. ASSUME NEW p \in Requests, Crash(p) PROVE UNCHANGED resolution
  BY <1>9 DEF Crash
<1>10. ASSUME NEW p \in Requests, NEW u \in Task, ReconcileBegin(p, u) PROVE UNCHANGED resolution
  BY <1>10 DEF ReconcileBegin
<1>11. CASE ResetRoot
  BY <1>11 DEF ResetRoot
<1> QED
  BY <1>3, <1>4, <1>5, <1>6, <1>7, <1>8, <1>9, <1>10, <1>11, ChainChanges

\* What stops being a candidate is no failure without a resolution.
LEMMA CandidateMoves ==
  ASSUME ChainSound, RepairNext, NEW t \in Task, t \in candidates, t \notin candidates'
  PROVE  status[t] # "failed" \/ resolution[t] # "none"
<1>1. CASE UNCHANGED candidates
  BY <1>1
<1>2. ASSUME NEW p \in Requests, Wake(p) \/ MarkApplied(p) \/ Reopen(p) \/ BeginContinue(p) PROVE t \in candidates'
  <2>1. candidates' \in {candidates, candidates \cup {0}}
    BY <1>2, Zenon DEF Wake, MarkApplied, Reopen, BeginContinue
  <2> QED
    BY <2>1
<1>3. ASSUME NEW p \in Requests, Audit(p) PROVE resolution[t] # "none"
  <2>1. \/ candidates' = candidates
        \/ candidates' = candidates \ {0} /\ Progressed
        \/ candidates' = candidates \ {0} /\ resolution[0] = "repairing"
        \/ candidates' = candidates \ {0} /\ resolution[0] = "needs_pm_decision"
    BY <1>3, Zenon DEF Audit, Rollback
  <2> QED
    BY <2>1 DEF Progressed
<1>4. ASSUME NEW p \in Requests, CleanCandidate(p) PROVE status[t] # "failed" \/ resolution[t] # "none"
  <2>1. candidates' = candidates \/ (candidates' = candidates \ {req[p].task} /\ ~KeepCandidate(req[p].task))
    BY <1>4, Zenon DEF CleanCandidate
  <2> QED
    BY <2>1 DEF KeepCandidate, Failure
<1>5. ASSUME NEW p \in Requests, NEW ruling \in {"accept", "reject"}, Commit(p, ruling) PROVE t \in candidates'
  <2>1. candidates' = candidates \/ \E u : candidates' = candidates \cup {u}
    BY <1>5, Zenon DEF Commit
  <2> QED
    BY <2>1
<1>6. ASSUME NEW p \in Requests, NEW u \in Task, ReportFailed(p, u) PROVE t \in candidates'
  BY <1>6 DEF ReportFailed
<1>7. ASSUME NEW p \in Requests, NEW u \in Task, ReconcileBegin(p, u) PROVE resolution[t] # "none"
  BY <1>7 DEF ReconcileBegin
<1>8. CASE ResetRoot \/ SweepDependent
  BY <1>8 DEF ResetRoot, SweepDependent
<1> QED
  BY <1>1, <1>2, <1>3, <1>4, <1>5, <1>6, <1>7, <1>8, DoneChanges

LEMMA FailedKeptMoves ==
  ASSUME Base, ClearInv, FailedKept, RepairNext
  PROVE  FailedKept'
<1> SUFFICES ASSUME NEW t \in Task, status'[t] = "failed", resolution'[t] = "none", t # 0 \/ resets' <= 1,
                    t \notin candidates'
    PROVE FALSE
  BY DEF FailedKept
<1>1. ChainSound /\ resets \in Nat /\ resets' >= resets /\ resets' \in Nat
  <2>1. ChainSound
    BY DEF Base
  <2>2. BoundsTyped /\ BoundsTyped' /\ resets' >= resets /\ limit' = limit
    BY <2>1, BoundsMove, RootMoves
  <2> QED
    BY <2>1, <2>2, BoundAssumption DEF BoundsTyped
<1>2. status[t] = "failed"
  BY <1>1, FailedMoves
<1>3. resolution[t] = "none"
  <2> SUFFICES ASSUME t = 0, NEW p \in Requests, Clear(p) PROVE FALSE
    BY <1>1, ResolutionMoves
  <2>1. "clear" \in Ahead(req[p].todo)
    BY <1>1, CallIsAhead DEF Clear
  <2>2. resets = 1 /\ Accepted(0)
    BY <1>1, <2>1 DEF ClearInv
  <2> QED
    BY <1>2, <2>2 DEF Accepted
<1>4. t \in candidates
  BY <1>1, <1>2, <1>3 DEF FailedKept
<1> QED
  BY <1>1, <1>2, <1>3, <1>4, CandidateMoves

-----------------------------------------------------------------------------
(* What the PM is asked.                                                    *)

LEMMA PlanRows ==
  /\ DOMAIN Plan = {s \in Task : status[s] # "absent"}
  /\ \A t \in DOMAIN Plan :
       /\ Plan[t].status = status[t] /\ Plan[t].review = review[t] /\ Plan[t].resolution = resolution[t]
       /\ Plan[t].pointer = pointer[t] /\ Plan[t].lineage = IF t = 0 THEN root.history ELSE {}
       /\ Plan[t].why = IF t = 0 THEN root.why ELSE "none"
<1>1. DOMAIN Plan = {s \in Task : status[s] # "absent"}
  BY DEF Plan
<1>2. ASSUME NEW t \in DOMAIN Plan
      PROVE  Plan[t] = [status |-> status[t], review |-> review[t], fixFor |-> fixFor[t], resolution |-> resolution[t],
                        origin |-> IF t = 0 THEN NoTask ELSE 0, pointer |-> pointer[t],
                        lineage |-> IF t = 0 THEN root.history ELSE {}, resolvedBy |-> resolvedBy[t],
                        why |-> IF t = 0 THEN root.why ELSE "none", batch |-> 0]
  BY <1>1 DEF Plan
<1>3. ASSUME NEW t \in DOMAIN Plan
      PROVE  /\ Plan[t].status = status[t] /\ Plan[t].review = review[t] /\ Plan[t].resolution = resolution[t]
             /\ Plan[t].pointer = pointer[t] /\ Plan[t].lineage = IF t = 0 THEN root.history ELSE {}
             /\ Plan[t].why = IF t = 0 THEN root.why ELSE "none"
  <2> PICK l : l = IF t = 0 THEN root.history ELSE {}
    OBVIOUS
  <2> PICK w : w = IF t = 0 THEN root.why ELSE "none"
    OBVIOUS
  <2> PICK o : o = IF t = 0 THEN NoTask ELSE 0
    OBVIOUS
  <2>1. Plan[t] = [status |-> status[t], review |-> review[t], fixFor |-> fixFor[t], resolution |-> resolution[t],
                   origin |-> o, pointer |-> pointer[t], lineage |-> l, resolvedBy |-> resolvedBy[t],
                   why |-> w, batch |-> 0]
    BY <1>2
  <2>2. /\ Plan[t].status = status[t] /\ Plan[t].review = review[t] /\ Plan[t].resolution = resolution[t]
        /\ Plan[t].pointer = pointer[t] /\ Plan[t].lineage = l /\ Plan[t].why = w
    BY <2>1
  <2> QED
    BY <2>2
<1> QED
  BY <1>1, <1>3

LEMMA DecisionIsOpen ==
  ASSUME ChainSound, 0 \in IntakeDecisions(Plan)
  PROVE  /\ "cancel" \in Offered(Plan[0]) => MayCancel
         /\ "continue" \in Offered(Plan[0]) /\ continues < limit.continues => MayContinue
<1>1. 0 \in DOMAIN Plan /\ Plan[0].resolution = "needs_pm_decision" /\ ~Pursued(Plan, 0)
  BY DEF IntakeDecisions
<1>2. /\ resolution[0] = "needs_pm_decision" /\ Plan[0].why = root.why
      /\ Plan[0].lineage = root.history /\ Plan[0].pointer = pointer[0]
  BY <1>1, PlanRows
<1>3. "continue" \in Offered(Plan[0]) /\ continues < limit.continues => MayContinue
  BY <1>2 DEF Offered, MayContinue
<1>4. ASSUME NEW c \in Children PROVE ~Active(c)
  <2> SUFFICES ASSUME Active(c) PROVE FALSE
    OBVIOUS
  <2>1. c \in Task /\ c \in root.history \cup {pointer[0]}
    BY RootMoves DEF Children
  <2>2. status[c] # "absent" /\ (status[c] \in {"pending", "running"} \/ (status[c] = "done" /\ review[c] = "none"))
    BY DEF Active, Awaiting
  <2>3. c \in DOMAIN Plan /\ Plan[c].status = status[c] /\ Plan[c].review = review[c]
    BY <2>1, <2>2, PlanRows
  <2>4. Underway(Plan[c])
    BY <2>2, <2>3 DEF Underway
  <2>5. c \in Plan[0].lineage \cup {Plan[0].pointer}
    BY <1>2, <2>1
  <2> QED
    BY <1>1, <2>3, <2>4, <2>5 DEF Pursued
<1> QED
  BY <1>2, <1>3, <1>4 DEF MayCancel

LEMMA FailureIsPursued ==
  ASSUME FailedKept, resets <= 1, IntakeFailures(Plan) # {}
  PROVE  ~Quiet
<1>1. PICK t : t \in IntakeFailures(Plan)
  OBVIOUS
<1>2. t \in DOMAIN Plan /\ Plan[t].resolution = "none" /\ Plan[t].status = "failed"
  BY <1>1 DEF IntakeFailures, ActionableFailure
<1>3. t \in Task /\ status[t] = "failed" /\ resolution[t] = "none"
  BY <1>2, PlanRows
<1>4. t \in candidates
  BY <1>3 DEF FailedKept
<1> QED
  BY <1>4 DEF Quiet

-----------------------------------------------------------------------------
(* The invariant.                                                           *)

RepairInv == Base /\ InLine /\ Counted /\ Audited /\ FirstFailure /\ ClearInv /\ FailedKept

LEMMA RepairInvInit == RepairInit => RepairInv
<1> SUFFICES ASSUME RepairInit PROVE RepairInv
  OBVIOUS
<1>1. Base /\ Idle.todo = <<>> /\ Ahead(Idle.todo) = {} /\ 0 \in Task
  BY BaseInit, IdleTyped, IdleSound, TasksAre
<1>2. /\ req = [p \in Requests |-> Idle]
      /\ \A p \in Requests : req[p] = Idle
      /\ root.owner = Nobody /\ root.gen = 0 /\ root.attempts = 0
      /\ \A t \in Task \ {0} : status[t] = "absent"
      /\ status[0] = "pending" /\ resolution[0] = "none" /\ resets = 0 /\ audits = 0 /\ continues = 0
  BY <1>1 DEF RepairInit
<1>3. InLine
  <2>1. AtWork = {}
    BY <1>2 DEF AtWork
  <2>2. root.gen \notin AtWork
    BY <2>1
  <2> QED
    BY <2>1, <2>2 DEF InLine
<1>4. \A p \in Requests : ~MakesNow(req[p])
  BY <1>1, <1>2 DEF MakesNow
<1>5. Counted
  BY <1>1, <1>2, <1>4 DEF Counted
<1>6. Audited
  BY <1>2 DEF Audited
<1>7. FirstFailure
  BY <1>1, <1>2 DEF FirstFailure, NoChain
<1>8. ClearInv
  BY <1>1, <1>2 DEF ClearInv
<1>9. FailedKept
  <2> SUFFICES ASSUME NEW t \in Task, status[t] = "failed" PROVE FALSE
    BY DEF FailedKept
  <2> QED
    BY <1>2
<1> QED
  BY <1>1, <1>3, <1>5, <1>6, <1>7, <1>8, <1>9 DEF RepairInv

LEMMA RepairInvMoves == RepairInv /\ [RepairNext]_repairVars => RepairInv'
<1> SUFFICES ASSUME RepairInv, [RepairNext]_repairVars PROVE RepairInv'
  OBVIOUS
<1>1. CASE RepairNext
  <2>1. ChainSound
    BY DEF RepairInv, Base
  <2>2. Base' /\ InLine' /\ Counted'
    BY <1>1, BaseMoves, InLineMoves, CountedMoves DEF RepairInv
  <2>3. Audited'
    BY <1>1, <2>1, AuditedMoves DEF RepairInv
  <2>4. FirstFailure' /\ ClearInv' /\ FailedKept'
    BY <1>1, FirstFailureMoves, ClearMoves, FailedKeptMoves DEF RepairInv
  <2> QED
    BY <2>2, <2>3, <2>4 DEF RepairInv
<1>2. CASE UNCHANGED repairVars
  <2>1. Base'
    BY <1>2, BaseStays DEF RepairInv
  <2>2. /\ UNCHANGED <<status, review, fixFor, queued, resolution, pointer, resolvedBy, root>>
        /\ UNCHANGED <<applied, candidates, dependent, lock, req, audits, continues, resets, crashes, limit, diverted>>
    BY <1>2 DEF repairVars, taskVars, chainVars, doneVars, bounds, counters
  <2>3. InLine' /\ Counted'
    BY <2>2 DEF RepairInv, InLine, AtWork, Calling, Counted, MakesNow
  <2>4. Audited' /\ FirstFailure' /\ ClearInv' /\ FailedKept'
    BY <2>2 DEF RepairInv, Audited, FirstFailure, Failure, Rejected, NoChain, ClearInv, Accepted, FailedKept
  <2> QED
    BY <2>1, <2>3, <2>4 DEF RepairInv
<1> QED
  BY <1>1, <1>2

\* The repairs of a task go on one after the other unless its root was pointed away from
\* the one at work; without a continue there are no more than max_retries; what the PM is
\* asked the PM can answer; and a verdict and the audit of a continue are recorded once:
\* for every number of requests, generations, continues, resets and crashes.
THEOREM RepairsSafe == RepairSpec => RepairsAreSafe
<1>1. RepairInv => RepairsStayInLine /\ AskedIsOpen /\ ContinueAuditedOnce
  <2> SUFFICES ASSUME RepairInv PROVE RepairsStayInLine /\ AskedIsOpen /\ ContinueAuditedOnce
    OBVIOUS
  <2>1. ChainSound /\ InLine /\ Counted /\ Audited /\ FailedKept
    BY DEF RepairInv, Base
  <2>2. RepairsAreBounded
    BY <2>1 DEF Counted, RepairsAreBounded
  <2>3. RepairsStayInLine
    BY <2>1, <2>2, InLineIsOne DEF RepairsStayInLine
  <2>4. AskedIsOpen
    BY <2>1, DecisionIsOpen, FailureIsPursued DEF AskedIsOpen
  <2>5. ContinueAuditedOnce
    <3>1. audits \in Nat /\ continues \in Nat
      BY <2>1, RootMoves, BoundAssumption DEF BoundsTyped
    <3> QED
      BY <2>1, <3>1 DEF Audited, ContinueAuditedOnce
  <2> QED
    BY <2>3, <2>4, <2>5
<1>2. RepairInv /\ [RepairNext]_repairVars =>
        [\A t \in Task : review'[t] = review[t] \/ review[t] = "none" \/ resets' > resets]_repairVars
  <2> SUFFICES ASSUME RepairInv, RepairNext, NEW t \in Task
      PROVE review'[t] = review[t] \/ review[t] = "none" \/ resets' > resets
    OBVIOUS
  <2>1. ChainSound
    BY DEF RepairInv, Base
  <2> QED
    BY <2>1, ReviewMoves
<1> QED
  BY <1>1, <1>2, RepairInvInit, RepairInvMoves, PTL DEF RepairSpec, RepairsAreSafe, DecisionsAreFinal, ReviewsAreFinal
=============================================================================
