---------------------------- MODULE FileOwnership ----------------------------
(***************************************************************************)
(* Exclusive write ownership of files, from the claim that activates it to *)
(* the report, block, reset, reclaim or late cleanup that gives it up.     *)
(*                                                                         *)
(* A claim is not atomic: it takes the files in one transaction and the    *)
(* task in a later script, and a claim that is refused gives the files     *)
(* back in a third step.  attempts holds the claims under way; the agent's *)
(* single-flight reservation names the attempt that may commit.  report    *)
(* and reset commit first and release the files afterwards: releases holds *)
(* what they still have to release.                                        *)
(*                                                                         *)
(* Time is abstract: TimeUp ends the records of a running task, and its    *)
(* lease, granted a little later, may survive them for a moment.           *)
(***************************************************************************)
EXTENDS OwnershipRegistry, FiniteSets

CONSTANTS
  NoAgent, NoAttempt,
  Files,          \* the ownership_files of each task
  Within,         \* <<g, f>>: g is f, or a concrete path that the glob f matches
  AttemptBound,   \* bound on the claim attempts of one behaviour
  SessionBound    \* bound on the registrations of one agent

ASSUME FilesAssumption == Files \in [Tasks -> SUBSET Globs]
ASSUME AttemptAssumption == AttemptBound \in Nat /\ SessionBound \in Nat
ASSUME SentinelAssumption == NoAgent \notin Agents

VARIABLES
  registry,
  taskState, claimedBy, lease, closing,   \* the task; closing: its expiry has passed
  attempts, begun, reservation,        \* claims under way
  session,                             \* the durable registration epoch
  releases                             \* committed, files not yet released

leaseVars  == <<taskState, claimedBy, lease, closing>>
claimVars == <<attempts, begun, reservation, session>>
vars == <<registry, leaseVars, claimVars, releases>>

TaskState == {"pending", "running", "waiting", "ended"}
Phase == {"chosen", "activated", "refused"}
Attempt == [agent : Agents, task : Tasks, session : Nat, phase : Phase]
AttemptIds == 1..AttemptBound

OwnershipTypeOK ==
  /\ registry \in Registry
  /\ taskState \in [Tasks -> TaskState]
  /\ claimedBy \in [Tasks -> Agents \cup {NoAgent}]
  /\ lease \in [Tasks -> BOOLEAN]
  /\ closing \in [Tasks -> BOOLEAN]
  /\ attempts \in [AttemptIds -> Attempt \cup {NoAttempt}]
  /\ begun \in 0..AttemptBound
  /\ reservation \in [Agents -> 0..AttemptBound]
  /\ session \in [Agents -> Nat]
  /\ releases \in SUBSET (Agents \X Tasks)

Init ==
  /\ registry = [g \in Globs |-> Free]
  /\ taskState = [t \in Tasks |-> "pending"]
  /\ claimedBy = [t \in Tasks |-> NoAgent]
  /\ lease = [t \in Tasks |-> FALSE]
  /\ closing = [t \in Tasks |-> FALSE]
  /\ attempts = [i \in AttemptIds |-> NoAttempt]
  /\ begun = 0
  /\ reservation = [a \in Agents |-> 0]
  /\ session = [a \in Agents |-> 1]
  /\ releases = {}

-----------------------------------------------------------------------------
(* Claim: reserve, activate, commit, clean up *)

OwnsRunning(a) == \E t \in Tasks : taskState[t] = "running" /\ claimedBy[t] = a

\* The reservation is free, or left over from a registration since replaced.
Reservable(a) ==
  \/ reservation[a] = 0
  \/ /\ reservation[a] # 0
     /\ attempts[reservation[a]].session # session[a]

\* The claim request reserves the agent and chooses a pending candidate.
BeginClaim(a, t) ==
  /\ begun < AttemptBound
  /\ Reservable(a) /\ ~OwnsRunning(a) /\ taskState[t] = "pending"
  /\ begun' = begun + 1
  /\ attempts' = [attempts EXCEPT ![begun + 1] =
       [agent |-> a, task |-> t, session |-> session[a], phase |-> "chosen"]]
  /\ reservation' = [reservation EXCEPT ![a] = begun + 1]
  /\ UNCHANGED <<registry, leaseVars, session, releases>>

\* Renewal of the reservation failed and its TTL ran out.
ReservationLapses(a) ==
  /\ reservation[a] # 0
  /\ reservation' = [reservation EXCEPT ![a] = 0]
  /\ UNCHANGED <<registry, leaseVars, attempts, begun, session, releases>>

\* The attempt is over; its reservation, if it still has it, is given back.
Finished(i) ==
  /\ attempts' = [attempts EXCEPT ![i] = NoAttempt]
  /\ reservation' = [a \in Agents |-> IF reservation[a] = i THEN 0 ELSE reservation[a]]

\* activateOwnership, with preemption of lower priorities: before the task is
\* claimed.  A refusal ends the candidate.
Activate(i) ==
  LET at == attempts[i]
      granted == MayActivate(registry, at.agent, at.task, Files[at.task], TRUE)
  IN /\ at # NoAttempt /\ at.phase = "chosen"
     /\ IF granted
        THEN /\ registry' = Activated(registry, at.agent, at.task, Files[at.task])
             /\ attempts' = [attempts EXCEPT ![i].phase = "activated"]
             /\ UNCHANGED reservation
        ELSE UNCHANGED registry /\ Finished(i)
     /\ UNCHANGED <<leaseVars, begun, session, releases>>

\* The ownership transaction was disturbed five times in a row, or the attempt
\* notices that its reservation is gone and returns nothing: what it activated
\* stays in the registry.
Abandon(i) ==
  /\ attempts[i] # NoAttempt
  /\ \/ attempts[i].phase = "chosen"
     \/ attempts[i].phase = "activated" /\ reservation[attempts[i].agent] # i
  /\ Finished(i)
  /\ UNCHANGED <<registry, leaseVars, begun, session, releases>>

\* What the claim script and the durable epoch check before it decide.
CommitOutcome(at, i) ==
  IF at.session # session[at.agent] THEN "AGENT_REGISTRATION_CHANGED"
  ELSE IF reservation[at.agent] # i THEN "CLAIM_RESERVATION_LOST"
  ELSE IF OwnsRunning(at.agent) THEN "AGENT_BUSY"
  ELSE IF taskState[at.task] # "pending" THEN "TASK_NOT_PENDING"
  ELSE IF lease[at.task] THEN "LEASE_CHANGED"
  ELSE "CLAIMED"

CommitClaim(i) ==
  LET at == attempts[i]
      outcome == CommitOutcome(at, i)
  IN /\ at # NoAttempt /\ at.phase = "activated"
     /\ IF outcome = "CLAIMED"
        THEN /\ taskState' = [taskState EXCEPT ![at.task] = "running"]
             /\ claimedBy' = [claimedBy EXCEPT ![at.task] = at.agent]
             /\ lease' = [lease EXCEPT ![at.task] = TRUE]
             /\ closing' = [closing EXCEPT ![at.task] = FALSE]
             /\ Finished(i)
        ELSE /\ UNCHANGED leaseVars
             /\ IF outcome = "CLAIM_RESERVATION_LOST" THEN Finished(i)
                ELSE /\ attempts' = [attempts EXCEPT ![i].phase = "refused"]
                     /\ UNCHANGED reservation
     /\ UNCHANGED <<registry, begun, session, releases>>

\* A refused attempt gives back the files it activated.
Cleanup(i) ==
  /\ attempts[i] # NoAttempt /\ attempts[i].phase = "refused"
  /\ registry' = ReleasedFor(registry, attempts[i].agent, attempts[i].task)
  /\ Finished(i)
  /\ UNCHANGED <<leaseVars, begun, session, releases>>

\* The agent starts a new process under a new registration id.
Reregister(a) ==
  /\ session[a] < SessionBound
  /\ session' = [session EXCEPT ![a] = session[a] + 1]
  /\ UNCHANGED <<registry, leaseVars, attempts, begun, reservation, releases>>

-----------------------------------------------------------------------------
(* The holder of the lease *)

Holds(t) == taskState[t] = "running" /\ lease[t]

Renew(t) ==
  /\ Holds(t)
  /\ closing' = [closing EXCEPT ![t] = FALSE]
  /\ registry' = RenewedFor(registry, claimedBy[t], t)
  /\ UNCHANGED <<taskState, claimedBy, lease, claimVars, releases>>

\* ownershipDeclare: only what the task's own files cover; force allows preemption.
Declare(t, g, force) ==
  /\ Holds(t)
  /\ \E f \in Files[t] : <<g, f>> \in Within
  /\ MayActivate(registry, claimedBy[t], t, {g}, force)
  /\ registry' = Activated(registry, claimedBy[t], t, {g})
  /\ UNCHANGED <<leaseVars, claimVars, releases>>

\* ownershipRelease: only records of this agent and task are removed.  Here and in
\* every later release, the requeueing of waiters that follows is a Requeue.
ReleaseFile(t, g) ==
  /\ Holds(t)
  /\ OwnedBy(registry, g, claimedBy[t], t)
  /\ registry' = [registry EXCEPT ![g] = Free]
  /\ UNCHANGED <<leaseVars, claimVars, releases>>

Report(t) ==
  /\ Holds(t)
  /\ taskState' = [taskState EXCEPT ![t] = "ended"]
  /\ lease' = [lease EXCEPT ![t] = FALSE]
  /\ releases' = releases \cup {<<claimedBy[t], t>>}
  /\ UNCHANGED <<registry, claimedBy, closing, claimVars>>

\* The second half of report and reset.
ReleaseAfterCommit(a, t) ==
  /\ <<a, t>> \in releases
  /\ releases' = releases \ {<<a, t>>}
  /\ registry' = ReleasedFor(registry, a, t)
  /\ UNCHANGED <<leaseVars, claimVars>>

\* taskBlock with waiting_file_release: lease and files go in the same script,
\* and a task whose files are clear is not blocked but offered again.
Block(t) ==
  LET a == claimedBy[t]
      clear == ClearFor(registry, a, t, Files[t])
  IN /\ Holds(t)
     /\ registry' = ReleasedFor(registry, a, t)
     /\ lease' = [lease EXCEPT ![t] = FALSE]
     /\ taskState' = [taskState EXCEPT ![t] = IF clear THEN "pending" ELSE "waiting"]
     /\ claimedBy' = [claimedBy EXCEPT ![t] = NoAgent]
     /\ UNCHANGED <<closing, claimVars, releases>>

\* requeueBlockedEligible, from a release or from the supervisor's sweep.
Requeue(t) ==
  /\ taskState[t] = "waiting"
  /\ Unoccupied(registry, Files[t])
  /\ taskState' = [taskState EXCEPT ![t] = "pending"]
  /\ lease' = [lease EXCEPT ![t] = FALSE]
  /\ claimedBy' = [claimedBy EXCEPT ![t] = NoAgent]
  /\ UNCHANGED <<registry, closing, claimVars, releases>>

-----------------------------------------------------------------------------
(* Time, reclaim, reset *)

TimeUp(t) ==
  /\ Holds(t) /\ ~closing[t]
  /\ closing' = [closing EXCEPT ![t] = TRUE]
  /\ registry' = LapsedFor(registry, claimedBy[t], t)
  /\ UNCHANGED <<taskState, claimedBy, lease, claimVars, releases>>

LeaseExpires(t) ==
  /\ Holds(t) /\ closing[t]
  /\ lease' = [lease EXCEPT ![t] = FALSE]
  /\ UNCHANGED <<registry, taskState, claimedBy, closing, claimVars, releases>>

\* A record that no lease renews runs out.
OwnershipExpires(g) ==
  /\ Live(registry, g)
  /\ ~(Holds(registry[g].task) /\ claimedBy[registry[g].task] = registry[g].agent)
  /\ registry' = [registry EXCEPT ![g].live = FALSE]
  /\ UNCHANGED <<leaseVars, claimVars, releases>>

\* The reclaim script releases the files together with the task; the task is
\* offered again or, its retries used up, failed.
ReclaimTask(t, next) ==
  /\ taskState[t] = "running" /\ ~lease[t] /\ closing[t]
  /\ registry' = ReleasedFor(registry, claimedBy[t], t)
  /\ taskState' = [taskState EXCEPT ![t] = next]
  /\ claimedBy' = [claimedBy EXCEPT ![t] = NoAgent]
  /\ UNCHANGED <<lease, closing, claimVars, releases>>

\* The claimant whose files a reset still has to release, if there is one.
ToRelease_Anyone(t) == {<<claimedBy[t], t>>}
ToRelease(t) == IF claimedBy[t] = NoAgent THEN {} ELSE {<<claimedBy[t], t>>}

\* taskReset of an ended, a waiting or a stale running task.
Reset(t) ==
  /\ \/ taskState[t] = "ended"
     \/ taskState[t] = "running" /\ ~lease[t] /\ closing[t]
     \/ taskState[t] = "waiting"
  /\ taskState' = [taskState EXCEPT ![t] = "pending"]
  /\ claimedBy' = [claimedBy EXCEPT ![t] = NoAgent]
  /\ lease' = [lease EXCEPT ![t] = FALSE]
  /\ releases' = releases \cup ToRelease(t)
  /\ UNCHANGED <<registry, closing, claimVars>>

-----------------------------------------------------------------------------

ClaimNext ==
  \/ \E a \in Agents, t \in Tasks : BeginClaim(a, t)
  \/ \E a \in Agents : ReservationLapses(a) \/ Reregister(a)
  \/ \E i \in AttemptIds : Activate(i) \/ Abandon(i) \/ CommitClaim(i) \/ Cleanup(i)

HolderNext ==
  \/ \E t \in Tasks : Renew(t) \/ Report(t) \/ Block(t)
  \/ \E t \in Tasks, g \in Globs : Declare(t, g, TRUE) \/ Declare(t, g, FALSE) \/ ReleaseFile(t, g)
  \/ \E a \in Agents, t \in Tasks : ReleaseAfterCommit(a, t)

HubNext ==
  \/ \E t \in Tasks : \/ Requeue(t) \/ TimeUp(t) \/ LeaseExpires(t) \/ Reset(t)
                      \/ ReclaimTask(t, "pending") \/ ReclaimTask(t, "ended")
  \/ \E g \in Globs : OwnershipExpires(g)

Next == ClaimNext \/ HolderNext \/ HubNext

Spec == Init /\ [][Next]_vars

\* Attempts and committed handlers run on, workers report, expiries come, and
\* the supervisor's sweep looks at every waiter.
OwnershipFairness ==
  /\ \A i \in AttemptIds : WF_vars(Activate(i)) /\ WF_vars(CommitClaim(i)) /\ WF_vars(Cleanup(i))
  /\ \A t \in Tasks : WF_vars(Report(t)) /\ WF_vars(Requeue(t))
                      /\ WF_vars(ReclaimTask(t, "pending"))
  /\ \A g \in Globs : WF_vars(OwnershipExpires(g))
  /\ \A a \in Agents, t \in Tasks : WF_vars(ReleaseAfterCommit(a, t))

OwnershipFairSpec == Spec /\ OwnershipFairness

-----------------------------------------------------------------------------
(* Properties *)

\* A renewal that brings records of its task back to life after they ran out.
RevivesLapsed(t) ==
  /\ Holds(t)
  /\ \E g \in Globs : OwnedBy(registry, g, claimedBy[t], t) /\ ~Live(registry, g)
  /\ registry' = RenewedFor(registry, claimedBy[t], t)

\* Two claims come to share live files only if one of them renewed after its own
\* records had run out: no activation, declaration, release, refusal or reclaim,
\* in whatever order they interleave, makes live records of two claims overlap.
OverlapOnlyByLateRenewal ==
  [][Exclusive(registry) => Exclusive(registry') \/ \E t \in Tasks : RevivesLapsed(t)]_vars

\* A live record gives way to another claim only if that claim has strictly
\* higher priority: equal priorities never take files from each other.
\* TakesOver: a claim that had neither g nor h gets h, which overlaps the live g.
TakesOver(h, g) ==
  /\ Live(registry, g) /\ <<g, h>> \in Overlaps
  /\ Live(registry', h) /\ registry'[h] # registry[h]
  /\ ~OwnedBy(registry, g, registry'[h].agent, registry'[h].task)
  /\ ~OwnedBy(registry, h, registry'[h].agent, registry'[h].task)
DisplacedOnlyByPriority ==
  [][\A g, h \in Globs :
       TakesOver(h, g) => Priority[registry'[h].task] > Priority[registry[g].task]]_vars

\* Files go from one claim to another by priority, or by the renewal of a lapsed claim.
FilesChangeHands == OverlapOnlyByLateRenewal /\ DisplacedOnlyByPriority

\* A file waiter goes on although holders renew, claims are refused, preempted
\* or abandoned with their files, and nobody announces the release.
WaitersGoOn == \A t \in Tasks : taskState[t] = "waiting" ~> taskState[t] # "waiting"

\* The files of a lease holder stay in its hands in this step.
FilesKept(t) ==
  Holds(t) => \A g \in Globs : OwnedBy(registry, g, claimedBy[t], t) => registry'[g] = registry[g]

\* claim documents that an old attempt does not release what a newer attempt of
\* the same agent and task holds legitimately.
CleanupSparesNewClaim ==
  [][\A i \in AttemptIds :
       attempts[i] # NoAttempt /\ attempts[i].phase = "refused" /\ attempts'[i] = NoAttempt
         => \A t \in Tasks : FilesKept(t)]_vars
=============================================================================
