---------------------------- MODULE DeliveryMerge ----------------------------
(***************************************************************************)
(* From a delivered branch to the default branch of a project.  A delivery *)
(* is reviewed and verified against the remote repository; an accepted one *)
(* gets a merge job for one commit of the default branch; a dispatch takes *)
(* the head of the queue, compares the remote with that commit, merges in  *)
(* a clone and pushes, which the remote refuses unless the default branch  *)
(* is still there.  The rows are in SQLite and each of their reads and     *)
(* writes is atomic; every git call is an await, in which other requests   *)
(* run, the hub may die and strangers may push.                            *)
(*                                                                         *)
(* A commit of the default branch is its position in trunk, and what it    *)
(* contains the set of deliveries that were merged up to it, and of pushes *)
(* of strangers.  A job is known by its delivery and its expected commit,  *)
(* which are unique.                                                       *)
(***************************************************************************)
EXTENDS Naturals, Sequences, FiniteSets, SequencesExt

CONSTANTS
  Deliveries,
  Mergers,           \* slots for dispatches
  NoJob,
  DegradeThreshold,  \* failures in a row that end the write capability
  TrunkBound,        \* bound on the commits of the default branch
  StrangerBound      \* bound on pushes of strangers and on crashes

ASSUME MergeAssumption ==
  DegradeThreshold \in Nat \ {0} /\ TrunkBound \in Nat \ {0} /\ StrangerBound \in Nat

VARIABLES
  delivery,    \* status of the delivery
  branch,      \* its branch in the remote repository
  cleanup,     \* its BranchCleanup
  verifying,   \* what a verification under way has seen
  cleaning,    \* deliveries whose branch a cleanup is about to delete
  job,         \* status of the merge jobs
  queue,       \* the jobs in the order of their creation
  capability,  \* write_capability_status of the project
  trunk,       \* the default branch
  merger,
  strangers

deliveryVars == <<delivery, branch, cleanup, verifying, cleaning>>
jobVars == <<job, queue, capability>>
mergeVars == <<deliveryVars, jobVars, trunk, merger, strangers>>

Keys == Deliveries \X (1..TrunkBound)
Open == {"pending_recovery", "pending_review", "reviewing", "accepted"}
JobEnd == {"merged", "conflict", "integration_failed", "invalidated", "cancelled"}
Idle == [phase |-> "idle", key |-> NoJob, seen |-> 0]

Tip == Len(trunk)
Contents == SUBSET (Deliveries \cup 1..TrunkBound)

DeliveryTypes ==
  /\ delivery \in [Deliveries -> Open \cup {"none", "rejected", "invalidated", "merged"}]
  /\ branch \in [Deliveries -> {"absent", "head", "moved"}]
  /\ cleanup \in [Deliveries -> {"none", "pending", "deleted", "failed"}]
  /\ verifying \in [Deliveries -> {"no", "ok", "violation", "invalid"}]
  /\ cleaning \subseteq Deliveries

\* The queue holds each job once.
JobTypes ==
  /\ job \in [Keys -> {"none", "queued", "running"} \cup JobEnd]
  /\ queue \in Seq(Keys) /\ ToSet(queue) = {k \in Keys : job[k] # "none"} /\ IsInjective(queue)
  /\ capability \in {"ready", "lost"}

TrunkTypes ==
  /\ trunk \in Seq(Contents) /\ Tip \in 1..TrunkBound
  /\ strangers \in 0..StrangerBound

MergerState == [phase : {"idle", "look", "decide", "merge", "push", "finish"},
                key : Keys \cup {NoJob}, seen : 0..TrunkBound]

\* A dispatch under way has a job that was created, and has seen no commit of the future.
IdleOrBusy(m) ==
  IF merger[m].phase = "idle" THEN merger[m] = Idle
  ELSE merger[m].key \in Keys /\ job[merger[m].key] # "none" /\ merger[m].seen <= Tip
MergerTypes == merger \in [Mergers -> MergerState] /\ \A m \in Mergers : IdleOrBusy(m)

MergeTypeOK == DeliveryTypes /\ JobTypes /\ TrunkTypes /\ MergerTypes

MergeInit ==
  /\ delivery = [d \in Deliveries |-> "none"] /\ branch = [d \in Deliveries |-> "absent"]
  /\ cleanup = [d \in Deliveries |-> "none"] /\ verifying = [d \in Deliveries |-> "no"]
  /\ cleaning = {}
  /\ job = [k \in Keys |-> "none"] /\ queue = <<>> /\ capability = "ready"
  /\ trunk = <<{}>> /\ merger = [m \in Mergers |-> Idle] /\ strangers = 0

-----------------------------------------------------------------------------
(* Deliveries.  A definition named X_What is a faulty variant of X.        *)

\* commitAndPush has pushed the branch and records the delivery.
Deliver(d) ==
  /\ delivery[d] = "none"
  /\ branch' = [branch EXCEPT ![d] = "head"]
  /\ \E s \in {"pending_review", "pending_recovery"} : delivery' = [delivery EXCEPT ![d] = s]
  /\ UNCHANGED <<cleanup, verifying, cleaning, jobVars, trunk, merger, strangers>>

\* The artifacts of the delivery are complete.
RecoverArtifacts(d) ==
  /\ delivery[d] = "pending_recovery" /\ delivery' = [delivery EXCEPT ![d] = "pending_review"]
  /\ UNCHANGED <<branch, cleanup, verifying, cleaning, jobVars, trunk, merger, strangers>>

MayStart_Again(d) == delivery[d] \in {"pending_review", "rejected"}
MayStart(d) == delivery[d] = "pending_review"
StartReview(d) ==
  /\ MayStart(d) /\ delivery' = [delivery EXCEPT ![d] = "reviewing"]
  /\ UNCHANGED <<branch, cleanup, verifying, cleaning, jobVars, trunk, merger, strangers>>

\* cleanup with a record for d; an old record stays.
Enqueued(d) == [cleanup EXCEPT ![d] = IF @ = "none" THEN "pending" ELSE @]

Review(d, verdict) ==
  /\ delivery[d] = "reviewing" /\ delivery' = [delivery EXCEPT ![d] = verdict]
  /\ cleanup' = IF verdict = "rejected" THEN Enqueued(d) ELSE cleanup
  /\ UNCHANGED <<branch, verifying, cleaning, jobVars, trunk, merger, strangers>>

\* A verification looks at the remote; the marker and the changed files may be bad.
VerifyLook(d) ==
  /\ delivery[d] # "none" /\ verifying[d] = "no"
  /\ \E r \in {"ok", "violation", "invalid"} :
       (branch[d] # "head" => r = "invalid") /\ verifying' = [verifying EXCEPT ![d] = r]
  /\ UNCHANGED <<delivery, branch, cleanup, cleaning, jobVars, trunk, merger, strangers>>

Verified(d) == CASE verifying[d] = "ok" -> delivery[d]
                 [] verifying[d] = "violation" -> "rejected"
                 [] verifying[d] = "invalid" -> "invalidated"
VerifyWrite(d) ==
  /\ verifying[d] # "no" /\ verifying' = [verifying EXCEPT ![d] = "no"]
  /\ delivery' = [delivery EXCEPT ![d] = Verified(d)]
  /\ cleanup' = IF verifying[d] = "ok" THEN cleanup ELSE Enqueued(d)
  /\ UNCHANGED <<branch, cleaning, jobVars, trunk, merger, strangers>>

\* A due cleanup compares the head of the branch, and then deletes whatever is there.
CleanupLook(d) ==
  /\ cleanup[d] = "pending" /\ d \notin cleaning
  /\ IF branch[d] = "head"
     THEN cleaning' = cleaning \cup {d} /\ UNCHANGED cleanup
     ELSE /\ cleanup' = [cleanup EXCEPT ![d] = IF branch[d] = "absent" THEN "deleted" ELSE "failed"]
          /\ UNCHANGED cleaning
  /\ UNCHANGED <<delivery, branch, verifying, jobVars, trunk, merger, strangers>>
CleanupDelete(d) ==
  /\ d \in cleaning /\ cleaning' = cleaning \ {d}
  /\ branch' = [branch EXCEPT ![d] = "absent"] /\ cleanup' = [cleanup EXCEPT ![d] = "deleted"]
  /\ UNCHANGED <<delivery, verifying, jobVars, trunk, merger, strangers>>

-----------------------------------------------------------------------------
(* The merge queue.                                                        *)

Enqueue(k) ==
  /\ delivery[k[1]] = "accepted" /\ k[2] <= Tip /\ job[k] = "none"
  /\ job' = [job EXCEPT ![k] = "queued"] /\ queue' = Append(queue, k)
  /\ UNCHANGED <<capability, deliveryVars, trunk, merger, strangers>>

CancelJob(k) ==
  /\ job[k] \in {"queued", "running"} /\ job' = [job EXCEPT ![k] = "cancelled"]
  /\ UNCHANGED <<queue, capability, deliveryVars, trunk, merger, strangers>>

To(m, phase, seen) == merger' = [merger EXCEPT ![m].phase = phase, ![m].seen = seen]
Leave(m) == merger' = [merger EXCEPT ![m] = Idle]

\* The oldest job that is queued.
IsNext(i) == job[queue[i]] = "queued" /\ \A j \in 1..(i - 1) : job[queue[j]] # "queued"
Dispatch(m) ==
  /\ merger[m].phase = "idle" /\ capability = "ready"
  /\ \A k \in Keys : job[k] # "running"
  /\ \E i \in DOMAIN queue :
       IsNext(i) /\ merger' = [merger EXCEPT ![m] = [phase |-> "look", key |-> queue[i], seen |-> 0]]
  /\ UNCHANGED <<deliveryVars, jobVars, trunk, strangers>>

\* lsRemote of the default branch: the answer, or an error.
LookAtTarget(m) ==
  /\ merger[m].phase = "look" /\ (To(m, "decide", Tip) \/ Leave(m))
  /\ UNCHANGED <<deliveryVars, jobVars, trunk, strangers>>

\* The partial unique index allows one running job; the update throws otherwise.
IndexAllows_Always(k) == TRUE
IndexAllows(k) == \A j \in Keys \ {k} : job[j] # "running"

\* The job goes on if the default branch was where it expects it, and nothing else is
\* compared with what the dispatch has read.
Decide(m) ==
  LET k == merger[m].key IN
  /\ merger[m].phase = "decide"
  /\ IF merger[m].seen # k[2]
     THEN /\ job' = [job EXCEPT ![k] = "invalidated"]
          /\ delivery' = [delivery EXCEPT ![k[1]] = "invalidated"] /\ Leave(m)
     ELSE /\ UNCHANGED delivery
          /\ IF IndexAllows(k)
             THEN job' = [job EXCEPT ![k] = "running"] /\ To(m, "merge", merger[m].seen)
             ELSE UNCHANGED job /\ Leave(m)
  /\ UNCHANGED <<branch, cleanup, verifying, cleaning, queue, capability, trunk, strangers>>

\* Failures at the end of the queue, and whether they end the write capability.
FailuresInARow(j) ==
  CHOOSE n \in 0..Len(queue) :
    /\ \A i \in (Len(queue) - n + 1)..Len(queue) : j[queue[i]] = "integration_failed"
    /\ n < Len(queue) => j[queue[Len(queue) - n]] # "integration_failed"
Ends(m, status) ==
  /\ job' = [job EXCEPT ![merger[m].key] = status]
  /\ capability' = IF status = "integration_failed" /\ FailuresInARow(job') >= DegradeThreshold
                   THEN "lost" ELSE capability
  /\ UNCHANGED queue /\ Leave(m)

\* The merge in a clone: done, a conflict, or any other failure; a source that is
\* nowhere in the remote cannot be merged.
Reachable(d) == branch[d] # "absent" \/ \E i \in 1..Tip : d \in trunk[i]
Merge(m) ==
  /\ merger[m].phase = "merge"
  /\ \/ Reachable(merger[m].key[1]) /\ To(m, "push", merger[m].seen) /\ UNCHANGED jobVars
     \/ \E s \in {"conflict", "integration_failed"} : Ends(m, s)
  /\ UNCHANGED <<deliveryVars, trunk, strangers>>

\* What is pushed on top of commit n; a delivery that was in it makes no new commit.
Pushed(d, n) == IF d \in trunk[n] THEN trunk ELSE Append(trunk, trunk[n] \cup {d})
MayPush_Forced(n) == TRUE
MayPush(n) == Tip = n

PushRefused_Merged == "merged"
PushRefused == "integration_failed"

\* The remote takes the push only if it is a fast-forward.  Its answer may get lost.
Push(m) ==
  LET k == merger[m].key IN
  /\ merger[m].phase = "push"
  /\ \/ /\ MayPush(k[2]) /\ Len(Pushed(k[1], k[2])) <= TrunkBound
        /\ trunk' = Pushed(k[1], k[2])
        /\ To(m, "finish", merger[m].seen) /\ UNCHANGED <<jobVars, strangers>>
     \/ /\ MayPush(k[2]) /\ Len(Pushed(k[1], k[2])) <= TrunkBound
        /\ strangers < StrangerBound /\ strangers' = strangers + 1
        /\ trunk' = Pushed(k[1], k[2]) /\ Ends(m, PushRefused)
     \/ Ends(m, PushRefused) /\ UNCHANGED <<trunk, strangers>>
  /\ UNCHANGED deliveryVars

Finish(m) ==
  LET k == merger[m].key IN
  /\ merger[m].phase = "finish"
  /\ job' = [job EXCEPT ![k] = "merged"] /\ delivery' = [delivery EXCEPT ![k[1]] = "merged"]
  /\ cleanup' = Enqueued(k[1]) /\ Leave(m)
  /\ UNCHANGED <<branch, verifying, cleaning, queue, capability, trunk, strangers>>

RestoreCapability ==
  /\ capability = "lost" /\ capability' = "ready"
  /\ UNCHANGED <<job, queue, deliveryVars, trunk, merger, strangers>>

\* The step of a mode transition that gives up what is not merged.
InvalidateLineage ==
  LET open == {d \in Deliveries : delivery[d] \in Open} IN
  /\ delivery' = [d \in Deliveries |-> IF d \in open THEN "invalidated" ELSE delivery[d]]
  /\ cleanup' = [d \in Deliveries |-> IF d \in open /\ cleanup[d] = "none" THEN "pending" ELSE cleanup[d]]
  /\ job' = [k \in Keys |-> IF job[k] \in {"queued", "running"} THEN "cancelled" ELSE job[k]]
  /\ UNCHANGED <<branch, verifying, cleaning, queue, capability, trunk, merger, strangers>>

-----------------------------------------------------------------------------
(* Strangers and failures.                                                 *)

PushOfStranger ==
  /\ strangers < StrangerBound /\ strangers' = strangers + 1
  /\ \/ Tip < TrunkBound /\ trunk' = Append(trunk, Last(trunk) \cup {Tip}) /\ UNCHANGED branch
     \/ \E d \in Deliveries, s \in {"moved", "absent"} :
          branch[d] # "absent" /\ branch' = [branch EXCEPT ![d] = s] /\ UNCHANGED trunk
  /\ UNCHANGED <<delivery, cleanup, verifying, cleaning, jobVars, merger>>

CrashMerges ==
  /\ strangers < StrangerBound /\ strangers' = strangers + 1
  /\ merger' = [m \in Mergers |-> Idle] /\ verifying' = [d \in Deliveries |-> "no"] /\ cleaning' = {}
  /\ UNCHANGED <<delivery, branch, cleanup, jobVars, trunk>>

DeliveryStep(d) ==
  \/ Deliver(d) \/ RecoverArtifacts(d) \/ StartReview(d)
  \/ \E v \in {"accepted", "rejected"} : Review(d, v)
  \/ VerifyLook(d) \/ VerifyWrite(d) \/ CleanupLook(d) \/ CleanupDelete(d)
MergeStep(m) ==
  Dispatch(m) \/ LookAtTarget(m) \/ Decide(m) \/ Merge(m) \/ Push(m) \/ Finish(m)
MergeNext ==
  \/ \E d \in Deliveries : DeliveryStep(d)
  \/ \E k \in Keys : Enqueue(k) \/ CancelJob(k)
  \/ \E m \in Mergers : MergeStep(m)
  \/ RestoreCapability \/ InvalidateLineage \/ PushOfStranger \/ CrashMerges
MergeSpec == MergeInit /\ [][MergeNext]_mergeVars

-----------------------------------------------------------------------------
(* Properties.                                                             *)

\* No merge takes from the default branch what another has put there.
NothingIsLost == [][Last(trunk) \subseteq Last(trunk')]_mergeVars

\* What is called merged is in the default branch.
MergedIsInTrunk ==
  /\ \A k \in Keys : job[k] = "merged" => k[1] \in Last(trunk)
  /\ \A d \in Deliveries : delivery[d] = "merged" => d \in Last(trunk)

\* The hub deletes no branch that is still to be reviewed or merged.
OpenBranchesStay == \A d \in Deliveries : delivery[d] \in Open => cleanup[d] = "none"

\* At most one job is running, whichever of the dispatches a stale read let through.
OneJobRuns == Cardinality({k \in Keys : job[k] = "running"}) <= 1

\* The queue, the deliveries and the remote repository agree, whichever hub dispatches.
DeliveriesAreSafe == [](MergedIsInTrunk /\ OpenBranchesStay /\ OneJobRuns) /\ NothingIsLost

\* A job has one end, however often it is dispatched (the same key ends the same way,
\* docs/distributed-multi-node-development-plan.md, 12.2).
JobsEndOnce == [][\A k \in Keys : job[k] \in JobEnd => job'[k] = job[k]]_mergeVars
=============================================================================
