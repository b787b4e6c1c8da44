--------------------------- MODULE HubServices_proofs ---------------------------
(***************************************************************************)
(* Proofs about the services of the hub beside its task core.              *)
(*                                                                         *)
(* DeliveryMerge: no merge loses a commit of the default branch, at most   *)
(* one job runs, what is called merged is in the default branch, and no    *)
(* branch of an open delivery is deleted.                                  *)
(* AttemptWorkspace, NodeAttempts, NodeDaemon: their own invariants.       *)
(*                                                                         *)
(* PlanFiles: a command knows what its file said, what it has listed and   *)
(* what it has sent, as long as nobody crossed it and no task moved.       *)
(***************************************************************************)
EXTENDS MCHubServices, TLAPS, FiniteSetTheorems, SequenceTheorems

\* A merger past its push has put its delivery into the default branch.
PushedIsIn ==
  \A m \in Mergers : merger[m].phase = "finish" => merger[m].key[1] \in Last(trunk)

SoleRunner == \A j, k \in Keys : job[j] = "running" /\ job[k] = "running" => j = k

\* A branch is up for deletion only after its delivery was closed.
ClosedBeforeCleanup ==
  /\ \A d \in Deliveries : delivery[d] \in Open \cup {"none"} => cleanup[d] = "none"
  /\ \A d \in cleaning : cleanup[d] # "none"

MergeInv ==
  MergeTypeOK /\ MergedIsInTrunk /\ ClosedBeforeCleanup /\ SoleRunner /\ PushedIsIn

-----------------------------------------------------------------------------
(* The default branch only grows.                                          *)

Grows(t) ==
  /\ t \in Seq(Contents) /\ Len(t) \in 1..TrunkBound /\ Tip <= Len(t)
  /\ Last(trunk) \subseteq Last(t)

LEMMA StaysGrown == ASSUME TrunkTypes PROVE Grows(trunk)
BY MergeAssumption DEF TrunkTypes, Grows, Tip

LEMMA AppendGrows ==
  ASSUME TrunkTypes, NEW new \in Contents, Last(trunk) \subseteq new, Tip + 1 <= TrunkBound
  PROVE  Grows(Append(trunk, new)) /\ Last(Append(trunk, new)) = new
<1>1. /\ trunk \in Seq(Contents) /\ Len(trunk) \in Nat \ {0} /\ Tip = Len(trunk) /\ TrunkBound \in Nat
  BY MergeAssumption DEF TrunkTypes, Tip
<1> DEFINE t == Append(trunk, new)
<1>2. t \in Seq(Contents) /\ Len(t) = Len(trunk) + 1 /\ t[Len(t)] = new
  BY <1>1
<1> HIDE DEF t
<1>3. Len(t) \in 1..TrunkBound /\ Tip <= Len(t) /\ Last(t) = new
  BY <1>1, <1>2 DEF Last
<1>4. Grows(t) /\ Last(t) = new
  BY <1>2, <1>3 DEF Grows
<1> QED
  BY <1>4 DEF t

\* What the remote accepts is a commit on top of the last one.
LEMMA PushGrows ==
  ASSUME TrunkTypes, NEW d \in Deliveries, NEW n, MayPush(n), Len(Pushed(d, n)) <= TrunkBound
  PROVE  Grows(Pushed(d, n)) /\ d \in Last(Pushed(d, n))
<1>1. /\ trunk \in Seq(Contents) /\ Len(trunk) \in Nat \ {0} /\ n = Len(trunk)
      /\ Tip = Len(trunk) /\ trunk[n] = Last(trunk)
  BY MergeAssumption DEF TrunkTypes, MayPush, Tip, Last
<1>2. CASE d \in trunk[n]
  BY <1>1, <1>2, StaysGrown DEF Pushed
<1>3. CASE d \notin trunk[n]
  <2>1. trunk[n] \in Contents
    BY <1>1
  <2>2. trunk[n] \cup {d} \in Contents /\ Pushed(d, n) = Append(trunk, trunk[n] \cup {d})
    BY <2>1, <1>3 DEF Pushed, Contents
  <2>3. Tip + 1 <= TrunkBound
    BY <1>1, <2>2
  <2> QED
    BY <1>1, <2>2, <2>3, AppendGrows
<1> QED
  BY <1>2, <1>3

-----------------------------------------------------------------------------
(* The initial state, and the steps of the deliveries.                     *)

LEMMA InitMergeInv == MergeInit => MergeInv
<1> SUFFICES ASSUME MergeInit PROVE MergeInv
  OBVIOUS
<1>1. trunk \in Seq(Contents) /\ Len(trunk) = 1
  BY DEF MergeInit, Contents
<1>2. ToSet(queue) = {} /\ IsInjective(queue) /\ queue \in Seq(Keys)
  BY DEF MergeInit, ToSet, IsInjective
<1>3. DeliveryTypes /\ JobTypes
  BY <1>2 DEF MergeInit, DeliveryTypes, JobTypes, Open
<1>4. TrunkTypes
  BY <1>1, MergeAssumption DEF MergeInit, TrunkTypes, Tip
<1>5. Idle \in MergerState /\ Idle.phase = "idle"
  BY MergeAssumption DEF Idle, MergerState
<1>6. MergerTypes
  BY <1>5 DEF MergeInit, MergerTypes, IdleOrBusy
<1> QED
  BY <1>3, <1>4, <1>5, <1>6 DEF MergeInit, MergeInv, MergeTypeOK, MergedIsInTrunk, ClosedBeforeCleanup,
     SoleRunner, PushedIsIn, Open

\* A step that leaves the slots, and the jobs in their order, where they were.
LEMMA SlotsStay ==
  ASSUME MergerTypes, TrunkTypes, UNCHANGED <<merger, trunk>>,
         \A j \in Keys : job[j] # "none" => job'[j] # "none"
  PROVE  MergerTypes'
<1>1. merger' = merger /\ Tip' = Tip
  BY DEF Tip
<1> QED
  BY <1>1 DEF MergerTypes, IdleOrBusy, MergerState

\* What concerns the deliveries alone.
LEMMA DeliveryStepInv ==
  ASSUME MergeInv, NEW d \in Deliveries, DeliveryStep(d)
  PROVE  MergeInv'
<1>1. UNCHANGED <<jobVars, trunk, merger, strangers>>
  BY DEF DeliveryStep, Deliver, RecoverArtifacts, StartReview, Review, VerifyLook, VerifyWrite, CleanupLook, CleanupDelete
<1>2. DeliveryTypes' /\ ClosedBeforeCleanup'
        /\ \A e \in Deliveries : delivery'[e] = "merged" => delivery[e] = "merged"
  <2> USE DEF MergeInv, MergeTypeOK, DeliveryTypes, ClosedBeforeCleanup, Open
  <2>1. CASE Deliver(d)
    BY <2>1 DEF Deliver
  <2>2. CASE RecoverArtifacts(d)
    BY <2>2 DEF RecoverArtifacts
  <2>3. CASE StartReview(d)
    BY <2>3 DEF StartReview, MayStart
  <2>4. ASSUME NEW v \in {"accepted", "rejected"}, Review(d, v)
        PROVE  DeliveryTypes' /\ ClosedBeforeCleanup'
                 /\ \A e \in Deliveries : delivery'[e] = "merged" => delivery[e] = "merged"
    BY <2>4 DEF Review, Enqueued
  <2>5. CASE VerifyLook(d)
    BY <2>5 DEF VerifyLook
  <2>6. CASE VerifyWrite(d)
    BY <2>6 DEF VerifyWrite, Verified, Enqueued
  <2>7. CASE CleanupLook(d)
    <3>1. cleanup[d] = "pending" /\ cleanup' \in [Deliveries -> {"none", "pending", "deleted", "failed"}]
      BY <2>7 DEF CleanupLook
    <3>2. \A e \in Deliveries : cleanup'[e] = "none" <=> cleanup[e] = "none"
      BY <2>7, <3>1 DEF CleanupLook
    <3>3. cleaning' \subseteq cleaning \cup {d} /\ UNCHANGED <<delivery, branch, verifying>>
      BY <2>7 DEF CleanupLook
    <3> QED
      BY <3>1, <3>2, <3>3
  <2>8. CASE CleanupDelete(d)
    BY <2>8 DEF CleanupDelete
  <2> QED
    BY <2>1, <2>2, <2>3, <2>4, <2>5, <2>6, <2>7, <2>8 DEF DeliveryStep
<1>3. JobTypes' /\ TrunkTypes'
  BY <1>1 DEF MergeInv, MergeTypeOK, JobTypes, TrunkTypes, Tip, jobVars
<1>4. MergerTypes'
  BY <1>1, SlotsStay DEF MergeInv, MergeTypeOK, jobVars
<1> QED
  BY <1>1, <1>2, <1>3, <1>4 DEF MergeInv, MergeTypeOK, MergedIsInTrunk, SoleRunner, PushedIsIn, jobVars

-----------------------------------------------------------------------------
(* The steps of the queue.                                                 *)

LEMMA AppendedSet ==
  ASSUME NEW S, NEW s \in Seq(S), NEW e \in S
  PROVE  ToSet(Append(s, e)) = ToSet(s) \cup {e}
<1>1. DOMAIN s = 1..Len(s) /\ DOMAIN Append(s, e) = 1..(Len(s) + 1) /\ Len(s) \in Nat
  OBVIOUS
<1>2. Append(s, e)[Len(s) + 1] = e /\ \A i \in 1..Len(s) : Append(s, e)[i] = s[i]
  OBVIOUS
<1>3. ASSUME NEW x \in ToSet(Append(s, e)) PROVE x \in ToSet(s) \cup {e}
  <2> PICK i \in DOMAIN Append(s, e) : x = Append(s, e)[i]
    BY DEF ToSet
  <2>1. i \in 1..Len(s) \/ i = Len(s) + 1
    BY <1>1
  <2> QED
    BY <1>1, <1>2, <2>1 DEF ToSet
<1>4. ASSUME NEW x \in ToSet(s) PROVE x \in ToSet(Append(s, e))
  <2> PICK i \in 1..Len(s) : x = s[i]
    BY <1>1 DEF ToSet
  <2>1. i \in DOMAIN Append(s, e) /\ x = Append(s, e)[i]
    BY <1>1, <1>2
  <2> QED
    BY <2>1 DEF ToSet
<1>5. e \in ToSet(Append(s, e))
  BY <1>1, <1>2 DEF ToSet
<1> QED
  BY <1>3, <1>4, <1>5

\* What a step of the queue may do to the jobs: none of them is forgotten.
JobsGo == JobTypes' /\ \A j \in Keys : job[j] # "none" => job'[j] # "none"

LEMMA EnqueueInv ==
  ASSUME MergeInv, NEW k \in Keys, Enqueue(k)
  PROVE  MergeInv'
<1> USE DEF MergeInv, MergeTypeOK
<1>1. queue' \in Seq(Keys) /\ ToSet(queue') = ToSet(queue) \cup {k} /\ k \notin ToSet(queue)
  BY AppendedSet DEF Enqueue, JobTypes
<1>2. IsInjective(queue')
  BY <1>1 DEF Enqueue, ToSet, IsInjective, JobTypes
<1>3. job' \in [Keys -> {"none", "queued", "running"} \cup JobEnd]
        /\ \A j \in Keys : job'[j] # "none" <=> (job[j] # "none" \/ j = k)
  BY DEF Enqueue, JobTypes
<1>4. UNCHANGED <<capability, deliveryVars, trunk, merger, strangers>>
  BY DEF Enqueue
<1>5. JobTypes'
  BY <1>1, <1>2, <1>3, <1>4 DEF JobTypes
<1>6. DeliveryTypes' /\ TrunkTypes'
  BY <1>4 DEF DeliveryTypes, TrunkTypes, Tip, deliveryVars
<1>7. MergerTypes'
  BY <1>3, <1>4, SlotsStay
<1>8. MergedIsInTrunk' /\ SoleRunner'
  BY <1>4 DEF Enqueue, MergedIsInTrunk, SoleRunner, JobTypes, deliveryVars
<1> QED
  BY <1>4, <1>5, <1>6, <1>7, <1>8 DEF ClosedBeforeCleanup, PushedIsIn, deliveryVars

\* A job that has been created and changes its status.
LEMMA JobChange ==
  ASSUME JobTypes, NEW k \in Keys, job[k] # "none", UNCHANGED queue, capability' \in {"ready", "lost"},
         NEW status \in {"queued", "running"} \cup JobEnd, job' = [job EXCEPT ![k] = status]
  PROVE  JobsGo /\ job'[k] = status /\ \A j \in Keys \ {k} : job'[j] = job[j]
<1>1. job' \in [Keys -> {"none", "queued", "running"} \cup JobEnd] /\ status # "none"
  BY DEF JobTypes, JobEnd
<1>2. job'[k] = status /\ \A j \in Keys \ {k} : job'[j] = job[j]
  BY <1>1 DEF JobTypes
<1>3. \A j \in Keys : job'[j] # "none" <=> job[j] # "none"
  BY <1>1, <1>2
<1>4. JobTypes'
  BY <1>1, <1>3 DEF JobTypes
<1> QED
  BY <1>2, <1>3, <1>4 DEF JobsGo

LEMMA CancelJobInv ==
  ASSUME MergeInv, NEW k \in Keys, CancelJob(k)
  PROVE  MergeInv'
<1> USE DEF MergeInv, MergeTypeOK
<1>1. /\ job[k] # "none" /\ job' = [job EXCEPT ![k] = "cancelled"] /\ "cancelled" \in JobEnd
      /\ UNCHANGED <<queue, capability, deliveryVars, trunk, merger, strangers>>
  BY DEF CancelJob, JobEnd
<1>2. JobsGo /\ job'[k] = "cancelled" /\ \A j \in Keys \ {k} : job'[j] = job[j]
  BY <1>1, JobChange DEF JobTypes
<1>3. DeliveryTypes' /\ TrunkTypes'
  BY <1>1 DEF DeliveryTypes, TrunkTypes, Tip, deliveryVars
<1>4. MergerTypes'
  BY <1>1, <1>2, SlotsStay DEF JobsGo
<1>5. MergedIsInTrunk' /\ SoleRunner'
  BY <1>1, <1>2 DEF MergedIsInTrunk, SoleRunner, deliveryVars
<1> QED
  BY <1>1, <1>2, <1>3, <1>4, <1>5 DEF JobsGo, ClosedBeforeCleanup, PushedIsIn, deliveryVars

-----------------------------------------------------------------------------
(* The steps of a dispatch.                                                *)

\* Slot m is idle, or has phase, key and seen as they should be; the others are as before.
SlotMoves(m) ==
  /\ merger' \in [Mergers -> MergerState]
  /\ \A n \in Mergers \ {m} : merger'[n] = merger[n]
  /\ IdleOrBusy(m)'

\* The other slots are as they were while jobs and commits only come.
LEMMA OthersStay ==
  ASSUME MergerTypes, TrunkTypes, NEW m \in Mergers, SlotMoves(m), JobsGo, Grows(trunk'),
         strangers' \in 0..StrangerBound
  PROVE  MergerTypes' /\ TrunkTypes'
<1>1. Tip \in Nat /\ Tip' \in 1..TrunkBound /\ Tip <= Tip' /\ trunk' \in Seq(Contents)
  BY MergeAssumption DEF TrunkTypes, Grows, Tip
<1>2. ASSUME NEW n \in Mergers \ {m} PROVE IdleOrBusy(n)'
  <2>1. merger'[n] = merger[n] /\ IdleOrBusy(n) /\ merger[n] \in MergerState
    BY <1>2 DEF MergerTypes, SlotMoves
  <2>2. merger[n].seen \in Nat /\ Tip' \in Nat
    BY <1>1, <2>1, MergeAssumption DEF MergerState
  <2> QED
    BY <1>1, <2>1, <2>2 DEF IdleOrBusy, JobsGo
<1>3. MergerTypes'
  BY <1>2 DEF MergerTypes, SlotMoves
<1> QED
  BY <1>1, <1>3 DEF TrunkTypes

LEMMA HasJob ==
  ASSUME MergerTypes, TrunkTypes, NEW m \in Mergers, merger[m].phase # "idle"
  PROVE  /\ merger[m].key \in Keys /\ merger[m].key[1] \in Deliveries
         /\ job[merger[m].key] # "none" /\ merger[m].seen \in 0..Tip
<1>1. merger[m].key \in Keys /\ job[merger[m].key] # "none" /\ merger[m].seen <= Tip
  BY DEF MergerTypes, IdleOrBusy
<1>2. merger[m] \in MergerState
  BY DEF MergerTypes
<1>3. merger[m].seen \in 0..TrunkBound
  BY <1>2 DEF MergerState
<1> QED
  BY <1>1, <1>3, MergeAssumption DEF Keys, TrunkTypes

\* A slot that stops, whatever it has done with its job.
LEMMA LeaveMoves ==
  ASSUME MergerTypes, NEW m \in Mergers, Leave(m)
  PROVE  SlotMoves(m) /\ merger'[m].phase = "idle"
<1>1. Idle \in MergerState /\ Idle.phase = "idle"
  BY MergeAssumption DEF MergerState, Idle
<1>2. merger \in [Mergers -> MergerState]
  BY DEF MergerTypes
<1>3. /\ merger' \in [Mergers -> MergerState] /\ merger'[m] = Idle
      /\ \A n \in Mergers \ {m} : merger'[n] = merger[n]
  BY <1>1, <1>2 DEF Leave
<1> QED
  BY <1>1, <1>3 DEF SlotMoves, IdleOrBusy

\* A slot that goes on with its job.
LEMMA ToMoves ==
  ASSUME MergerTypes, TrunkTypes, NEW m \in Mergers, merger[m].phase # "idle", JobsGo, Grows(trunk'),
         NEW next \in {"decide", "merge", "push", "finish"}, NEW seen \in 0..Tip, To(m, next, seen)
  PROVE  SlotMoves(m) /\ merger'[m].phase = next /\ merger'[m].key = merger[m].key
<1>1. /\ merger \in [Mergers -> MergerState] /\ seen \in 0..TrunkBound
      /\ Tip \in Nat /\ Tip' \in Nat /\ Tip <= Tip'
  BY MergeAssumption DEF MergerTypes, TrunkTypes, Grows, Tip
<1>2. /\ merger' \in [Mergers -> MergerState]
      /\ merger'[m].phase = next /\ merger'[m].key = merger[m].key /\ merger'[m].seen = seen
      /\ \A n \in Mergers \ {m} : merger'[n] = merger[n]
  BY <1>1 DEF To, MergerState
<1>3. merger[m].key \in Keys /\ job'[merger[m].key] # "none"
  BY HasJob DEF JobsGo
<1> QED
  BY <1>1, <1>2, <1>3 DEF SlotMoves, IdleOrBusy

\* Nothing but the slots has moved.
LEMMA NothingElse ==
  ASSUME MergeTypeOK, UNCHANGED <<jobVars, trunk>>
  PROVE  JobsGo /\ Grows(trunk')
<1>1. JobTypes' /\ job' = job
  BY DEF MergeTypeOK, JobTypes, jobVars
<1>2. Grows(trunk')
  BY StaysGrown DEF MergeTypeOK
<1> QED
  BY <1>1, <1>2 DEF JobsGo

\* A step of slot m that leaves the deliveries and the marks of the branches alone.
LEMMA SlotStepInv ==
  ASSUME MergeInv, NEW m \in Mergers, SlotMoves(m), JobsGo, Grows(trunk'), UNCHANGED deliveryVars,
         strangers' \in 0..StrangerBound,
         \A k \in Keys : job'[k] = "merged" => job[k] = "merged",
         \A k \in Keys : job'[k] = "running" => job[k] = "running",
         merger'[m].phase = "finish" => merger'[m].key[1] \in Last(trunk')
  PROVE  MergeInv'
<1> USE DEF MergeInv, MergeTypeOK
<1>1. DeliveryTypes' /\ JobTypes' /\ MergerTypes' /\ TrunkTypes' /\ Last(trunk) \subseteq Last(trunk')
  BY OthersStay DEF DeliveryTypes, deliveryVars, JobsGo, Grows
<1>2. MergedIsInTrunk' /\ SoleRunner' /\ ClosedBeforeCleanup'
  BY <1>1 DEF MergedIsInTrunk, SoleRunner, ClosedBeforeCleanup, deliveryVars
<1>3. PushedIsIn'
  <2> SUFFICES ASSUME NEW n \in Mergers, merger'[n].phase = "finish"
               PROVE  merger'[n].key[1] \in Last(trunk')
    BY DEF PushedIsIn
  <2>1. CASE n = m
    BY <2>1
  <2>2. CASE n # m
    BY <1>1, <2>2 DEF SlotMoves, PushedIsIn
  <2> QED
    BY <2>1, <2>2
<1> QED
  BY <1>1, <1>2, <1>3

LEMMA DispatchInv ==
  ASSUME MergeInv, NEW m \in Mergers, Dispatch(m)
  PROVE  MergeInv'
<1> PICK i \in DOMAIN queue :
      IsNext(i) /\ merger' = [merger EXCEPT ![m] = [phase |-> "look", key |-> queue[i], seen |-> 0]]
  BY DEF Dispatch
<1>1. queue[i] \in Keys /\ job[queue[i]] # "none"
  BY DEF IsNext, MergeInv, MergeTypeOK, JobTypes
<1>2. /\ UNCHANGED <<deliveryVars, jobVars, trunk, strangers>> /\ UNCHANGED job
      /\ JobsGo /\ Grows(trunk') /\ strangers' \in 0..StrangerBound
  BY NothingElse DEF Dispatch, jobVars, MergeInv, MergeTypeOK, TrunkTypes
<1>3. [phase |-> "look", key |-> queue[i], seen |-> 0] \in MergerState /\ merger \in [Mergers -> MergerState]
  BY <1>1, MergeAssumption DEF MergerState, MergeInv, MergeTypeOK, MergerTypes
<1>4. /\ merger' \in [Mergers -> MergerState] /\ \A n \in Mergers \ {m} : merger'[n] = merger[n]
      /\ merger'[m].phase = "look" /\ merger'[m].key = queue[i] /\ merger'[m].seen = 0
  BY <1>3
<1>5. Tip' \in Nat
  BY <1>2 DEF Grows, Tip
<1>6. SlotMoves(m)
  BY <1>1, <1>2, <1>4, <1>5 DEF SlotMoves, IdleOrBusy
<1> QED
  BY <1>2, <1>4, <1>6, SlotStepInv

LEMMA LookAtTargetInv ==
  ASSUME MergeInv, NEW m \in Mergers, LookAtTarget(m)
  PROVE  MergeInv'
<1>1. /\ UNCHANGED <<deliveryVars, jobVars, trunk, strangers>> /\ UNCHANGED job
      /\ JobsGo /\ Grows(trunk') /\ strangers' \in 0..StrangerBound
  BY NothingElse DEF LookAtTarget, jobVars, MergeInv, MergeTypeOK, TrunkTypes
<1>2. merger[m].phase # "idle" /\ Tip \in 0..Tip
  BY DEF LookAtTarget, MergeInv, MergeTypeOK, TrunkTypes
<1>3. SlotMoves(m) /\ merger'[m].phase # "finish"
  <2>1. CASE To(m, "decide", Tip)
    BY <1>1, <1>2, <2>1, ToMoves DEF MergeInv, MergeTypeOK
  <2>2. CASE Leave(m)
    BY <2>2, LeaveMoves DEF MergeInv, MergeTypeOK
  <2> QED
    BY <2>1, <2>2 DEF LookAtTarget
<1> QED
  BY <1>1, <1>3, SlotStepInv

\* A job that starts is the only one that runs.
LEMMA DecideInv ==
  ASSUME MergeInv, NEW m \in Mergers, Decide(m)
  PROVE  MergeInv'
<1> DEFINE k == merger[m].key
<1> USE DEF MergeInv, MergeTypeOK
<1>1. /\ UNCHANGED <<branch, cleanup, verifying, cleaning, queue, capability, trunk, strangers>>
      /\ merger[m].phase = "decide"
  BY DEF Decide
<1>2. k \in Keys /\ k[1] \in Deliveries /\ job[k] # "none" /\ merger[m].seen \in 0..Tip
  BY <1>1, HasJob
<1>3. Grows(trunk') /\ strangers' \in 0..StrangerBound /\ capability' \in {"ready", "lost"}
  BY <1>1, StaysGrown DEF TrunkTypes, JobTypes
<1>4. CASE merger[m].seen # k[2]
  <2>1. /\ job' = [job EXCEPT ![k] = "invalidated"] /\ "invalidated" \in JobEnd /\ Leave(m)
        /\ delivery' = [delivery EXCEPT ![k[1]] = "invalidated"]
    BY <1>4 DEF Decide, JobEnd
  <2>2. JobsGo /\ job'[k] = "invalidated" /\ \A j \in Keys \ {k} : job'[j] = job[j]
    BY <1>1, <1>2, <1>3, <2>1, JobChange
  <2>3. SlotMoves(m) /\ merger'[m].phase = "idle"
    BY <2>1, LeaveMoves
  <2>4. MergerTypes' /\ TrunkTypes' /\ JobTypes'
    BY <1>3, <2>2, <2>3, OthersStay DEF JobsGo
  <2>5. DeliveryTypes' /\ ClosedBeforeCleanup'
          /\ \A d \in Deliveries : delivery'[d] = "merged" => delivery[d] = "merged"
    BY <1>1, <1>2, <2>1 DEF DeliveryTypes, ClosedBeforeCleanup, Open
  <2>6. MergedIsInTrunk' /\ SoleRunner'
    BY <1>1, <2>2, <2>5 DEF MergedIsInTrunk, SoleRunner
  <2>7. PushedIsIn'
    BY <1>1, <2>3 DEF PushedIsIn, SlotMoves
  <2> QED
    BY <2>4, <2>5, <2>6, <2>7
<1>5. CASE merger[m].seen = k[2] /\ IndexAllows(k)
  <2>1. job' = [job EXCEPT ![k] = "running"] /\ To(m, "merge", merger[m].seen) /\ UNCHANGED delivery
    BY <1>5 DEF Decide
  <2>2. JobsGo /\ job'[k] = "running" /\ \A j \in Keys \ {k} : job'[j] = job[j]
    BY <1>1, <1>2, <1>3, <2>1, JobChange
  <2>3. SlotMoves(m) /\ merger'[m].phase = "merge"
    BY <1>1, <1>2, <1>3, <2>1, <2>2, ToMoves
  <2>4. MergerTypes' /\ TrunkTypes' /\ JobTypes'
    BY <1>3, <2>2, <2>3, OthersStay DEF JobsGo
  <2>5. DeliveryTypes' /\ ClosedBeforeCleanup'
    BY <1>1, <2>1 DEF DeliveryTypes, ClosedBeforeCleanup
  <2>6. MergedIsInTrunk'
    BY <1>1, <2>1, <2>2 DEF MergedIsInTrunk
  <2>7. SoleRunner'
    BY <1>5, <2>2 DEF SoleRunner, IndexAllows
  <2>8. PushedIsIn'
    BY <1>1, <2>3 DEF PushedIsIn, SlotMoves
  <2> QED
    BY <2>4, <2>5, <2>6, <2>7, <2>8
<1>6. CASE merger[m].seen = k[2] /\ ~IndexAllows(k)
  <2>1. Leave(m) /\ UNCHANGED <<deliveryVars, jobVars, job>>
    BY <1>1, <1>6 DEF Decide, deliveryVars, jobVars
  <2>2. JobsGo
    BY <1>1, <2>1, NothingElse
  <2>3. SlotMoves(m) /\ merger'[m].phase # "finish"
    BY <2>1, LeaveMoves
  <2> QED
    BY <1>3, <2>1, <2>2, <2>3, SlotStepInv
<1> QED
  BY <1>4, <1>5, <1>6

\* A dispatch that ends without a merge.
LEMMA EndsGo ==
  ASSUME MergeTypeOK, NEW m \in Mergers, merger[m].phase # "idle",
         NEW s \in {"conflict", "integration_failed"}, Ends(m, s)
  PROVE  /\ JobsGo /\ SlotMoves(m) /\ merger'[m].phase # "finish"
         /\ \A k \in Keys : job'[k] = "merged" => job[k] = "merged"
         /\ \A k \in Keys : job'[k] = "running" => job[k] = "running"
<1> DEFINE k == merger[m].key
<1>1. k \in Keys /\ job[k] # "none" /\ s \in JobEnd
  BY HasJob DEF MergeTypeOK, JobEnd
<1>2. job' = [job EXCEPT ![k] = s] /\ UNCHANGED queue /\ capability' \in {"ready", "lost"} /\ Leave(m)
  BY DEF Ends, MergeTypeOK, JobTypes
<1>3. JobsGo /\ job'[k] = s /\ \A j \in Keys \ {k} : job'[j] = job[j]
  BY <1>1, <1>2, JobChange DEF MergeTypeOK
<1>4. SlotMoves(m) /\ merger'[m].phase = "idle"
  BY <1>2, LeaveMoves DEF MergeTypeOK
<1> QED
  BY <1>3, <1>4

LEMMA MergeStepInv ==
  ASSUME MergeInv, NEW m \in Mergers, Merge(m)
  PROVE  MergeInv'
<1>1. UNCHANGED <<deliveryVars, trunk, strangers>> /\ merger[m].phase = "merge"
  BY DEF Merge
<1>2. Grows(trunk') /\ strangers' \in 0..StrangerBound
  BY <1>1, StaysGrown DEF MergeInv, MergeTypeOK, TrunkTypes
<1>3. CASE To(m, "push", merger[m].seen) /\ UNCHANGED jobVars
  <2>1. JobsGo /\ UNCHANGED job
    BY <1>1, <1>3, NothingElse DEF MergeInv, jobVars
  <2>2. merger[m].seen \in 0..Tip
    BY <1>1, HasJob DEF MergeInv, MergeTypeOK
  <2>3. SlotMoves(m) /\ merger'[m].phase = "push"
    BY <1>1, <1>2, <1>3, <2>1, <2>2, ToMoves DEF MergeInv, MergeTypeOK
  <2> QED
    BY <1>1, <1>2, <2>1, <2>3, SlotStepInv
<1>4. ASSUME NEW s \in {"conflict", "integration_failed"}, Ends(m, s) PROVE MergeInv'
  BY <1>1, <1>2, <1>4, EndsGo, SlotStepInv DEF MergeInv
<1> QED
  BY <1>3, <1>4 DEF Merge

\* A push that the remote takes, whether or not its answer arrives, and one that fails.
LEMMA PushInv ==
  ASSUME MergeInv, NEW m \in Mergers, Push(m)
  PROVE  MergeInv'
<1> DEFINE k == merger[m].key
<1> USE DEF MergeInv, MergeTypeOK
<1>1. UNCHANGED deliveryVars /\ merger[m].phase = "push"
  BY DEF Push
<1>2. k \in Keys /\ k[1] \in Deliveries /\ merger[m].seen \in 0..Tip
  BY <1>1, HasJob
<1>3. /\ PushRefused \in {"conflict", "integration_failed"} /\ Grows(trunk)
      /\ strangers \in 0..StrangerBound /\ (strangers < StrangerBound => strangers + 1 \in 0..StrangerBound)
  BY StaysGrown, MergeAssumption DEF PushRefused, TrunkTypes
<1>4. CASE /\ MayPush(k[2]) /\ Len(Pushed(k[1], k[2])) <= TrunkBound
           /\ trunk' = Pushed(k[1], k[2])
           /\ To(m, "finish", merger[m].seen) /\ UNCHANGED <<jobVars, strangers>>
  <2>1. Grows(trunk') /\ k[1] \in Last(trunk')
    BY <1>2, <1>4, PushGrows
  <2>2. JobsGo /\ UNCHANGED job
    BY <1>4 DEF jobVars, JobsGo, JobTypes
  <2>3. SlotMoves(m) /\ merger'[m].phase = "finish" /\ merger'[m].key = k
    BY <1>1, <1>2, <1>4, <2>1, <2>2, ToMoves
  <2> QED
    BY <1>1, <1>3, <1>4, <2>1, <2>2, <2>3, SlotStepInv
<1>5. CASE /\ MayPush(k[2]) /\ Len(Pushed(k[1], k[2])) <= TrunkBound
           /\ strangers < StrangerBound /\ strangers' = strangers + 1
           /\ trunk' = Pushed(k[1], k[2]) /\ Ends(m, PushRefused)
  <2>1. Grows(trunk')
    BY <1>2, <1>5, PushGrows
  <2> QED
    BY <1>1, <1>3, <1>5, <2>1, EndsGo, SlotStepInv
<1>6. CASE Ends(m, PushRefused) /\ UNCHANGED <<trunk, strangers>>
  BY <1>1, <1>3, <1>6, EndsGo, SlotStepInv
<1> QED
  BY <1>4, <1>5, <1>6 DEF Push

\* The delivery that is now called merged was put into the trunk by this slot.
LEMMA FinishInv ==
  ASSUME MergeInv, NEW m \in Mergers, Finish(m)
  PROVE  MergeInv'
<1> DEFINE k == merger[m].key
<1> USE DEF MergeInv, MergeTypeOK
<1>1. /\ merger[m].phase = "finish" /\ Leave(m) /\ cleanup' = Enqueued(k[1])
      /\ job' = [job EXCEPT ![k] = "merged"] /\ delivery' = [delivery EXCEPT ![k[1]] = "merged"]
      /\ UNCHANGED <<branch, verifying, cleaning, queue, capability, trunk, strangers>>
  BY DEF Finish
<1>2. k \in Keys /\ k[1] \in Deliveries /\ job[k] # "none" /\ k[1] \in Last(trunk) /\ "merged" \in JobEnd
  BY <1>1, HasJob DEF PushedIsIn, JobEnd
<1>3. Grows(trunk') /\ strangers' \in 0..StrangerBound /\ capability' \in {"ready", "lost"}
  BY <1>1, StaysGrown DEF TrunkTypes, JobTypes
<1>4. JobsGo /\ job'[k] = "merged" /\ \A j \in Keys \ {k} : job'[j] = job[j]
  BY <1>1, <1>2, <1>3, JobChange
<1>5. SlotMoves(m) /\ merger'[m].phase = "idle"
  BY <1>1, LeaveMoves
<1>6. MergerTypes' /\ TrunkTypes' /\ JobTypes'
  BY <1>3, <1>4, <1>5, OthersStay DEF JobsGo
<1>7. DeliveryTypes' /\ ClosedBeforeCleanup'
  BY <1>1, <1>2 DEF DeliveryTypes, ClosedBeforeCleanup, Enqueued, Open
<1>8. MergedIsInTrunk'
  BY <1>1, <1>2, <1>4 DEF MergedIsInTrunk, DeliveryTypes
<1>9. SoleRunner'
  BY <1>4 DEF SoleRunner
<1>10. PushedIsIn'
  BY <1>1, <1>5 DEF PushedIsIn, SlotMoves
<1> QED
  BY <1>6, <1>7, <1>8, <1>9, <1>10

-----------------------------------------------------------------------------
(* What the project, strangers and failures do.                            *)

LEMMA InvalidateLineageInv ==
  ASSUME MergeInv, InvalidateLineage
  PROVE  MergeInv'
<1> USE DEF MergeInv, MergeTypeOK
<1>1. UNCHANGED <<branch, verifying, cleaning, queue, capability, trunk, merger, strangers>>
  BY DEF InvalidateLineage
<1>2. /\ job' \in [Keys -> {"none", "queued", "running"} \cup JobEnd]
      /\ \A j \in Keys : job'[j] \in {job[j], "cancelled"} /\ (job'[j] # "none" <=> job[j] # "none")
  BY DEF InvalidateLineage, JobTypes, JobEnd
<1>3. JobTypes'
  BY <1>1, <1>2 DEF JobTypes
<1>4. DeliveryTypes' /\ ClosedBeforeCleanup'
  BY <1>1 DEF InvalidateLineage, DeliveryTypes, ClosedBeforeCleanup, Open
<1>5. \A d \in Deliveries : delivery'[d] = "merged" => delivery[d] = "merged"
  BY DEF InvalidateLineage
<1>6. TrunkTypes' /\ MergerTypes'
  BY <1>1, <1>2, SlotsStay DEF TrunkTypes, Tip
<1> QED
  BY <1>1, <1>2, <1>3, <1>4, <1>5, <1>6 DEF MergedIsInTrunk, SoleRunner, PushedIsIn

LEMMA PushOfStrangerInv ==
  ASSUME MergeInv, PushOfStranger
  PROVE  MergeInv' /\ Last(trunk) \subseteq Last(trunk')
<1> USE DEF MergeInv, MergeTypeOK
<1>1. UNCHANGED <<delivery, cleanup, verifying, cleaning, jobVars, merger>>
  BY DEF PushOfStranger
<1>2. strangers' \in 0..StrangerBound
  BY MergeAssumption DEF PushOfStranger, TrunkTypes
<1>3. Grows(trunk') /\ branch' \in [Deliveries -> {"absent", "head", "moved"}]
  <2>1. CASE Tip < TrunkBound /\ trunk' = Append(trunk, Last(trunk) \cup {Tip}) /\ UNCHANGED branch
    <3>1. trunk \in Seq(Contents) /\ Tip = Len(trunk) /\ Tip \in 1..TrunkBound
      BY DEF TrunkTypes, Tip
    <3>2. Last(trunk) \in Contents
      BY <3>1 DEF Last
    <3>3. Last(trunk) \cup {Tip} \in Contents /\ Tip + 1 <= TrunkBound
      BY <2>1, <3>1, <3>2, MergeAssumption DEF Contents
    <3> QED
      BY <2>1, <3>3, AppendGrows DEF DeliveryTypes
  <2>2. ASSUME NEW d \in Deliveries, NEW s \in {"moved", "absent"},
               branch' = [branch EXCEPT ![d] = s], UNCHANGED trunk
        PROVE  Grows(trunk') /\ branch' \in [Deliveries -> {"absent", "head", "moved"}]
    BY <2>2, StaysGrown DEF DeliveryTypes
  <2> QED
    BY <2>1, <2>2 DEF PushOfStranger
<1>4. DeliveryTypes' /\ JobTypes' /\ ClosedBeforeCleanup' /\ SoleRunner'
  BY <1>1, <1>3 DEF DeliveryTypes, JobTypes, ClosedBeforeCleanup, SoleRunner, jobVars
<1>5. TrunkTypes' /\ Tip \in Nat /\ Tip' \in Nat /\ Tip <= Tip' /\ Last(trunk) \subseteq Last(trunk')
  BY <1>2, <1>3, MergeAssumption DEF TrunkTypes, Grows, Tip
<1>6. ASSUME NEW m \in Mergers PROVE IdleOrBusy(m)'
  <2>1. merger[m] \in MergerState /\ IdleOrBusy(m) /\ merger' = merger /\ job' = job
    BY <1>1 DEF MergerTypes, jobVars
  <2>2. merger[m].seen \in Nat
    BY <2>1, MergeAssumption DEF MergerState
  <2> QED
    BY <1>5, <2>1, <2>2 DEF IdleOrBusy
<1>7. MergerTypes'
  BY <1>1, <1>6 DEF MergerTypes
<1> QED
  BY <1>1, <1>4, <1>5, <1>7 DEF MergedIsInTrunk, PushedIsIn, jobVars

LEMMA CrashMergesInv ==
  ASSUME MergeInv, CrashMerges
  PROVE  MergeInv'
<1> USE DEF MergeInv, MergeTypeOK
<1>1. /\ merger' = [m \in Mergers |-> Idle] /\ verifying' = [d \in Deliveries |-> "no"] /\ cleaning' = {}
      /\ UNCHANGED <<delivery, branch, cleanup, jobVars, trunk>>
  BY DEF CrashMerges
<1>2. strangers' \in 0..StrangerBound
  BY MergeAssumption DEF CrashMerges, TrunkTypes
<1>3. Idle \in MergerState /\ Idle.phase = "idle"
  BY MergeAssumption DEF Idle, MergerState
<1>4. MergerTypes' /\ PushedIsIn'
  BY <1>1, <1>3 DEF MergerTypes, IdleOrBusy, PushedIsIn
<1>5. DeliveryTypes' /\ JobTypes' /\ TrunkTypes'
  BY <1>1, <1>2 DEF DeliveryTypes, JobTypes, TrunkTypes, Tip, jobVars
<1> QED
  BY <1>1, <1>4, <1>5 DEF ClosedBeforeCleanup, MergedIsInTrunk, SoleRunner, jobVars

-----------------------------------------------------------------------------
(* The theorems about the merge queue.                                     *)

LEMMA MergeInvStep == MergeInv /\ [MergeNext]_mergeVars => MergeInv'
<1> SUFFICES ASSUME MergeInv, [MergeNext]_mergeVars PROVE MergeInv'
  OBVIOUS
<1>1. ASSUME NEW d \in Deliveries, DeliveryStep(d) PROVE MergeInv'
  BY <1>1, DeliveryStepInv
<1>2. ASSUME NEW k \in Keys, Enqueue(k) \/ CancelJob(k) PROVE MergeInv'
  BY <1>2, EnqueueInv, CancelJobInv
<1>3. ASSUME NEW m \in Mergers, MergeStep(m) PROVE MergeInv'
  BY <1>3, DispatchInv, LookAtTargetInv, DecideInv, MergeStepInv, PushInv, FinishInv DEF MergeStep
<1>4. CASE RestoreCapability
  <2>1. UNCHANGED <<job, queue, deliveryVars, trunk, merger, strangers>> /\ capability' \in {"ready", "lost"}
    BY <1>4 DEF RestoreCapability
  <2>2. MergerTypes'
    BY <2>1, SlotsStay DEF MergeInv, MergeTypeOK
  <2> QED
    BY <2>1, <2>2 DEF MergeInv, MergeTypeOK, DeliveryTypes, JobTypes, TrunkTypes, Tip, ClosedBeforeCleanup,
       MergedIsInTrunk, SoleRunner, PushedIsIn, deliveryVars
<1>5. CASE InvalidateLineage
  BY <1>5, InvalidateLineageInv
<1>6. CASE PushOfStranger
  BY <1>6, PushOfStrangerInv
<1>7. CASE CrashMerges
  BY <1>7, CrashMergesInv
<1>8. CASE UNCHANGED mergeVars
  <2>1. MergerTypes'
    BY <1>8, SlotsStay DEF MergeInv, MergeTypeOK, mergeVars, jobVars
  <2> QED
    BY <1>8, <2>1 DEF MergeInv, MergeTypeOK, DeliveryTypes, JobTypes, TrunkTypes, Tip, ClosedBeforeCleanup,
       MergedIsInTrunk, SoleRunner, PushedIsIn, deliveryVars, jobVars, mergeVars
<1> QED
  BY <1>1, <1>2, <1>3, <1>4, <1>5, <1>6, <1>7, <1>8 DEF MergeNext

\* The only steps that write the default branch are the pushes.
LEMMA TrunkGrows == MergeInv /\ [MergeNext]_mergeVars => Last(trunk) \subseteq Last(trunk')
<1> SUFFICES ASSUME MergeInv, MergeNext, trunk' # trunk PROVE Last(trunk) \subseteq Last(trunk')
  BY DEF mergeVars
<1>1. ASSUME NEW m \in Mergers, Push(m) PROVE Last(trunk) \subseteq Last(trunk')
  <2> DEFINE k == merger[m].key
  <2>1. k[1] \in Deliveries /\ MayPush(k[2]) /\ Len(Pushed(k[1], k[2])) <= TrunkBound /\ trunk' = Pushed(k[1], k[2])
    BY <1>1, HasJob DEF Push, MergeInv, MergeTypeOK
  <2> QED
    BY <2>1, PushGrows DEF Grows, MergeInv, MergeTypeOK
<1>2. CASE PushOfStranger
  BY <1>2, PushOfStrangerInv
<1>3. (\E m \in Mergers : Push(m)) \/ PushOfStranger
  BY DEF MergeNext, DeliveryStep, Deliver, RecoverArtifacts, StartReview, Review, VerifyLook, VerifyWrite,
     CleanupLook, CleanupDelete, Enqueue, CancelJob, MergeStep, Dispatch, LookAtTarget, Decide, Merge, Finish,
     RestoreCapability, InvalidateLineage, CrashMerges
<1> QED
  BY <1>1, <1>2, <1>3

LEMMA OneRuns == ASSUME SoleRunner PROVE OneJobRuns
<1> DEFINE Running == {k \in Keys : job[k] = "running"}
<1>1. CASE Running = {}
  BY <1>1, FS_EmptySet DEF OneJobRuns
<1>2. ASSUME NEW k \in Running PROVE OneJobRuns
  <2>1. Running = {k}
    BY <1>2 DEF SoleRunner
  <2>2. Cardinality(Running) = 1
    BY <2>1, FS_Singleton
  <2> QED
    BY <2>2 DEF OneJobRuns
<1> QED
  BY <1>1, <1>2

\* The state of a project's deliveries and jobs is always of its type: no job is in the
\* queue twice or missing from it, and no dispatch works on a job that was never created.
THEOREM MergeTypes == MergeSpec => []MergeTypeOK
<1>1. MergeInv => MergeTypeOK
  BY DEF MergeInv
<1> QED
  BY <1>1, InitMergeInv, MergeInvStep, PTL DEF MergeSpec

\* However many dispatches, reviews, verifications and cleanups overlap, whoever pushes and
\* whenever the hub dies: what is called merged is in the default branch, no branch of an
\* open delivery is up for deletion, one job runs at most, and nothing that was in the
\* default branch is lost.
THEOREM Deliveries_Safe == MergeSpec => DeliveriesAreSafe
<1>1. MergeInv => MergedIsInTrunk /\ OpenBranchesStay /\ OneJobRuns
  BY OneRuns DEF MergeInv, ClosedBeforeCleanup, OpenBranchesStay
<1>2. MergeInv /\ [MergeNext]_mergeVars => [Last(trunk) \subseteq Last(trunk')]_mergeVars
  BY TrunkGrows
<1> QED
  BY <1>1, <1>2, InitMergeInv, MergeInvStep, PTL DEF MergeSpec, DeliveriesAreSafe, NothingIsLost

-----------------------------------------------------------------------------
(* The workspace of an attempt.  The branch in the remote repository is    *)
(* written once; everything that is said of a delivery rests on that.      *)

DirtyHasRoom == dirty => local < Base + CommitBound

\* The head that a finalize is about is a commit, and after the diff it is in the row.
WithHead == {"diff", "look", "looked", "push", "rejected", "pushed", "verify", "verified"}

CallOK(c) ==
  /\ caller[c].at \in WithHead => caller[c].head \in Commits
  /\ caller[c].at \in WithHead \ {"diff"} => headSha \in Commits
  /\ At(c, "looked") => caller[c].seen \in {0, remote}
  /\ At(c, "verified") => remote = caller[c].head /\ marker = caller[c].head

\* Whoever found a foreign commit on the branch was right, and is right for ever.
ConflictIsForeign == \A h \in Commits : made[h] = "invalidated" => remote \notin {0, h}
RowHasHead == final \in {"pushing", "delivering"} => headSha \in Commits

WorkspaceInv ==
  /\ WorkspaceTypeOK /\ \A c \in Callers : CallOK(c)
  /\ DirtyHasRoom /\ RowHasHead /\ ConflictIsForeign /\ DeliveredIsPushed /\ NamesItsDelivery

LEMMA InitWorkspaceInv == WorkspaceInit => WorkspaceInv
<1> SUFFICES ASSUME WorkspaceInit PROVE WorkspaceInv
  OBVIOUS
<1>1. NoCaller \in CallState /\ NoCaller.at = NoOp /\ NoOp \notin WithHead
  BY WorkspaceAssumption DEF NoCaller, CallState, WithHead, PrepareSteps, FinalizeSteps
<1>2. WorkspaceTypeOK
  <2>1. caller \in [Callers -> CallState]
    BY <1>1 DEF WorkspaceInit
  <2>2. mishaps \in 0..MishapBound
    BY WorkspaceAssumption DEF WorkspaceInit
  <2> QED
    BY <2>1, <2>2 DEF WorkspaceInit, WorkspaceTypeOK
<1>3. \A c \in Callers : CallOK(c)
  BY <1>1 DEF WorkspaceInit, CallOK, At, WithHead
<1> QED
  BY <1>2, <1>3 DEF WorkspaceInv, WorkspaceInit, DirtyHasRoom, RowHasHead, ConflictIsForeign, DeliveredIsPushed,
     NamesItsDelivery, Delivered

\* The call of c alone moves.
CallMoves(c) ==
  /\ caller' \in [Callers -> CallState]
  /\ \A o \in Callers \ {c} : caller'[o] = caller[o]

LEMMA GoesMoves ==
  ASSUME WorkspaceTypeOK, NEW c \in Callers, NEW at \in PrepareSteps \cup FinalizeSteps, Goes(c, at)
  PROVE  /\ CallMoves(c) /\ caller'[c].at = at
         /\ caller'[c].head = caller[c].head /\ caller'[c].seen = caller[c].seen
<1>1. caller \in [Callers -> CallState]
  BY DEF WorkspaceTypeOK
<1> QED
  BY <1>1 DEF Goes, CallMoves, CallState

LEMMA AnswersMoves ==
  ASSUME WorkspaceTypeOK, NEW c \in Callers, Answers(c)
  PROVE  CallMoves(c) /\ caller'[c].at = NoOp /\ CallOK(c)'
<1>1. caller \in [Callers -> CallState]
  BY DEF WorkspaceTypeOK
<1>2. NoCaller \in CallState /\ NoCaller.at = NoOp /\ NoOp \notin WithHead
  BY WorkspaceAssumption DEF NoCaller, CallState, WithHead, PrepareSteps, FinalizeSteps
<1>3. CallMoves(c) /\ caller'[c].at = NoOp
  BY <1>1, <1>2 DEF Answers, CallMoves
<1> QED
  BY <1>2, <1>3 DEF CallOK, At, WithHead

\* A head that is in the row stays there, and what is on the branch stays on it.
RemoteKept ==
  /\ headSha \in Commits => headSha' \in Commits
  /\ remote # 0 => remote' = remote /\ marker' = marker

\* So what the other calls know stays true.
LEMMA OthersKnow ==
  ASSUME WorkspaceInv, NEW c \in Callers, CallMoves(c), CallOK(c)', RemoteKept
  PROVE  \A o \in Callers : CallOK(o)'
<1> TAKE o \in Callers
<1>1. CASE o # c
  <2>1. caller'[o] = caller[o] /\ CallOK(o) /\ 0 \notin Commits
    BY <1>1 DEF CallMoves, WorkspaceInv, Commits, Base
  <2> QED
    BY <2>1 DEF CallOK, At, RemoteKept, WithHead
<1> QED
  BY <1>1

-----------------------------------------------------------------------------
(* What the calls to prepare do.                                           *)

\* Neither the row of a finalize, nor the deliveries, nor the remote repository change.
NothingDelivered == UNCHANGED <<final, headSha, deliveryOf, made, remote, marker>>

LEMMA PrepareStepInv ==
  ASSUME WorkspaceInv, NEW c \in Callers, PrepareStep(c)
  PROVE  WorkspaceInv'
<1> USE DEF WorkspaceInv
<1>1. NothingDelivered
  BY DEF PrepareStep, Prepare, Probe, CloneEnds, Cloned, CheckBase, MakeBranch, WriteMarker, NothingDelivered, wsRow, wsRemote
<1>2. RemoteKept
  BY <1>1 DEF RemoteKept, NothingDelivered
<1>3. /\ prep' \in {"none", "cloning", "checking_base", "creating_branch", "ready", "failed"}
      /\ clone' \in {NoOp, "half", "usable"} \cup Callers
      /\ local' \in {0} \cup Commits /\ dirty' \in BOOLEAN /\ mishaps' \in 0..MishapBound
      /\ DirtyHasRoom'
  <2>1. UNCHANGED mishaps \/ Mishap
    BY DEF PrepareStep, Prepare, Probe, CloneEnds, Cloned, CheckBase, MakeBranch, WriteMarker
  <2>2. mishaps' \in 0..MishapBound
    BY <2>1, WorkspaceAssumption DEF Mishap, WorkspaceTypeOK
  <2>3. UNCHANGED prep \/ prep' \in {"cloning", "checking_base", "creating_branch", "ready", "failed"}
    BY DEF PrepareStep, Prepare, Probe, CloneEnds, Cloned, CheckBase, MakeBranch, WriteMarker, wsRow
  <2>4. UNCHANGED clone \/ clone' \in {"half", "usable"} \cup Callers
    BY DEF PrepareStep, Prepare, Probe, CloneEnds, Cloned, CheckBase, MakeBranch, WriteMarker, wsGit
  <2>5. \/ UNCHANGED dirty /\ (UNCHANGED local \/ local' = Base)
        \/ local' = 0 /\ dirty' = FALSE
    <3>1. CASE Probe(c)
      BY <3>1 DEF Probe, wsGit
    <3>2. CASE MakeBranch(c)
      BY <3>2 DEF MakeBranch
    <3> QED
      BY <3>1, <3>2 DEF PrepareStep, Prepare, CloneEnds, Cloned, CheckBase, WriteMarker, wsGit
  <2>6. Base \in Commits /\ Base < Base + CommitBound
    BY WorkspaceAssumption DEF Base, Commits
  <2>7. local' \in {0} \cup Commits /\ dirty' \in BOOLEAN
    BY <2>5, <2>6 DEF WorkspaceTypeOK
  <2>8. DirtyHasRoom'
    <3>1. CASE UNCHANGED <<dirty, local>>
      BY <3>1 DEF DirtyHasRoom
    <3>2. CASE local' = Base
      BY <3>2, <2>6 DEF DirtyHasRoom
    <3>3. CASE dirty' = FALSE
      BY <3>3 DEF DirtyHasRoom
    <3> QED
      BY <2>5, <3>1, <3>2, <3>3
  <2> QED
    BY <2>2, <2>3, <2>4, <2>7, <2>8 DEF WorkspaceTypeOK
<1>4. CASE UNCHANGED caller
  <2>1. WorkspaceTypeOK'
    BY <1>1, <1>3, <1>4 DEF WorkspaceTypeOK, NothingDelivered
  <2>2. \A o \in Callers : CallOK(o)'
    BY <1>1, <1>4 DEF CallOK, At, NothingDelivered
  <2> QED
    BY <1>1, <1>3, <2>1, <2>2
       DEF RowHasHead, ConflictIsForeign, DeliveredIsPushed, NamesItsDelivery, Delivered, NothingDelivered
<1>5. CASE Answers(c) \/ \E at \in PrepareSteps : Goes(c, at)
  <2>1. CallMoves(c) /\ CallOK(c)'
    <3>1. ASSUME NEW at \in PrepareSteps, Goes(c, at) PROVE CallMoves(c) /\ CallOK(c)'
      <4>1. CallMoves(c) /\ caller'[c].at = at /\ at \notin WithHead
        BY <3>1, GoesMoves DEF PrepareSteps, WithHead
      <4> QED
        BY <4>1 DEF CallOK, At, WithHead
    <3> QED
      BY <1>5, <3>1, AnswersMoves
  <2>2. WorkspaceTypeOK'
    BY <1>1, <1>3, <2>1 DEF WorkspaceTypeOK, NothingDelivered, CallMoves
  <2>3. \A o \in Callers : CallOK(o)'
    BY <1>2, <2>1, OthersKnow
  <2> QED
    BY <1>1, <1>3, <2>2, <2>3
       DEF RowHasHead, ConflictIsForeign, DeliveredIsPushed, NamesItsDelivery, Delivered, NothingDelivered
<1>6. UNCHANGED caller \/ Answers(c) \/ \E at \in PrepareSteps : Goes(c, at)
  BY DEF PrepareStep, Prepare, Probe, CloneEnds, Cloned, CheckBase, MakeBranch, WriteMarker, PrepareSteps, WorkspaceTypeOK
<1> QED
  BY <1>4, <1>5, <1>6

-----------------------------------------------------------------------------
(* What the calls to finalize do.                                          *)

\* A call ends or goes on with the head it had.
LEMMA NextPhase ==
  ASSUME WorkspaceInv, NEW c \in Callers,
         NEW at \in {"push", "rejected", "pushed", "verify"}, Goes(c, at),
         caller[c].at \in WithHead \ {"diff"}, headSha' = headSha
  PROVE  CallMoves(c) /\ CallOK(c)'
<1>1. /\ CallMoves(c) /\ caller'[c].at = at /\ caller'[c].head = caller[c].head
  BY GoesMoves DEF WorkspaceInv, FinalizeSteps
<1>2. caller[c].head \in Commits /\ headSha \in Commits
  BY DEF WorkspaceInv, CallOK, WithHead
<1> QED
  BY <1>1, <1>2 DEF CallOK, At, WithHead

\* A step that records no delivery and writes nothing to the remote repository.
LEMMA NothingRecorded ==
  ASSUME WorkspaceInv, NEW c \in Callers, CallMoves(c), CallOK(c)',
         UNCHANGED <<prep, deliveryOf, made, clone, remote, marker, local, dirty>>,
         final' \in {"committing", "pushing", "delivering", "failed", final},
         headSha' \in Commits \/ headSha' = headSha,
         final' \in {"pushing", "delivering"} => headSha' \in Commits,
         mishaps' \in 0..MishapBound
  PROVE  WorkspaceInv'
<1> USE DEF WorkspaceInv
<1>1. RemoteKept
  BY DEF RemoteKept
<1>2. \A o \in Callers : CallOK(o)'
  BY <1>1, OthersKnow
<1>3. WorkspaceTypeOK'
  BY DEF WorkspaceTypeOK, CallMoves
<1>4. DirtyHasRoom' /\ RowHasHead' /\ ConflictIsForeign' /\ DeliveredIsPushed' /\ NamesItsDelivery'
  BY DEF DirtyHasRoom, RowHasHead, ConflictIsForeign, DeliveredIsPushed, NamesItsDelivery, Delivered
<1> QED
  BY <1>2, <1>3, <1>4

LEMMA FinalizeInv ==
  ASSUME WorkspaceInv, NEW c \in Callers, Finalize(c)
  PROVE  WorkspaceInv'
<1> USE DEF WorkspaceInv
<1>1. UNCHANGED <<prep, headSha, deliveryOf, made, clone, local, dirty, remote, marker, mishaps>>
        /\ mishaps \in 0..MishapBound
  BY DEF Finalize, wsGit, wsRemote, WorkspaceTypeOK
<1>2. CASE final' = "failed" /\ UNCHANGED caller
  <2>1. CallMoves(c) /\ CallOK(c)'
    BY <1>1, <1>2 DEF CallMoves, WorkspaceTypeOK, CallOK, At
  <2> QED
    BY <1>1, <1>2, <2>1, NothingRecorded
<1>3. CASE final' = "committing" /\ Goes(c, "commit")
  <2>1. CallMoves(c) /\ caller'[c].at = "commit"
    BY <1>3, GoesMoves DEF FinalizeSteps
  <2>2. CallOK(c)'
    BY <2>1 DEF CallOK, At, WithHead
  <2> QED
    BY <1>1, <1>3, <2>1, <2>2, NothingRecorded
<1>4. CASE /\ final \in {"pushing", "delivering"} /\ UNCHANGED final
           /\ caller' = [caller EXCEPT ![c].at = IF final = "pushing" THEN "look" ELSE "verify",
                                       ![c].head = headSha]
  <2>1. headSha \in Commits
    BY <1>4 DEF RowHasHead
  <2>2. /\ CallMoves(c) /\ caller'[c].at \in {"look", "verify"} /\ caller'[c].head = headSha
    BY <1>4, <2>1 DEF CallMoves, WorkspaceTypeOK, CallState, FinalizeSteps
  <2>3. CallOK(c)'
    BY <1>1, <2>1, <2>2 DEF CallOK, At
  <2> QED
    BY <1>1, <1>4, <2>1, <2>2, <2>3, NothingRecorded
<1> QED
  BY <1>2, <1>3, <1>4 DEF Finalize

\* There is room for the commit, since the worker has only written where there was.
LEMMA CommitInv ==
  ASSUME WorkspaceInv, NEW c \in Callers, Commit(c)
  PROVE  WorkspaceInv'
<1> USE DEF WorkspaceInv
<1>1. /\ UNCHANGED <<prep, final, headSha, deliveryOf, made, clone, remote, marker, mishaps>>
      /\ At(c, "commit")
  BY DEF Commit, wsRow, wsRemote
<1>2. CASE CommitOf = 0
  <2>1. Answers(c) /\ UNCHANGED <<local, dirty>>
    BY <1>2 DEF Commit
  <2> QED
    BY <1>1, <2>1, AnswersMoves, NothingRecorded DEF RowHasHead, WorkspaceTypeOK
<1>3. CASE CommitOf # 0
  <2>1. /\ local' = CommitOf /\ dirty' = FALSE
        /\ caller' = [caller EXCEPT ![c].at = "diff", ![c].head = CommitOf]
    BY <1>3 DEF Commit
  <2>2. CommitOf \in Commits
    BY <1>3, WorkspaceAssumption DEF CommitOf, DirtyHasRoom, WorkspaceTypeOK, Commits, Base
  <2>3. CallMoves(c) /\ caller'[c].at = "diff" /\ caller'[c].head \in Commits
    BY <2>1, <2>2 DEF CallMoves, WorkspaceTypeOK, CallState, FinalizeSteps
  <2>4. CallOK(c)' /\ RemoteKept
    BY <1>1, <2>3 DEF CallOK, At, WithHead, RemoteKept
  <2>5. \A o \in Callers : CallOK(o)'
    BY <2>3, <2>4, OthersKnow
  <2>6. WorkspaceTypeOK'
    BY <1>1, <2>1, <2>2, <2>3 DEF WorkspaceTypeOK, CallMoves
  <2> QED
    BY <1>1, <2>1, <2>5, <2>6
       DEF DirtyHasRoom, RowHasHead, ConflictIsForeign, DeliveredIsPushed, NamesItsDelivery, Delivered
<1> QED
  BY <1>2, <1>3

LEMMA DiffedInv ==
  ASSUME WorkspaceInv, NEW c \in Callers, Diffed(c)
  PROVE  WorkspaceInv'
<1> USE DEF WorkspaceInv
<1>1. /\ UNCHANGED <<prep, deliveryOf, made, clone, local, dirty, remote, marker, mishaps>>
      /\ mishaps \in 0..MishapBound /\ caller[c].head \in Commits
  BY DEF Diffed, wsGit, wsRemote, WorkspaceTypeOK, CallOK, At, WithHead
<1>2. CASE final' = "failed" /\ Answers(c) /\ UNCHANGED headSha
  BY <1>1, <1>2, AnswersMoves, NothingRecorded
<1>3. CASE final' = "pushing" /\ headSha' = caller[c].head /\ Goes(c, "look")
  <2>1. CallMoves(c) /\ caller'[c].at = "look" /\ caller'[c].head \in Commits
    BY <1>1, <1>3, GoesMoves DEF FinalizeSteps
  <2>2. CallOK(c)'
    BY <1>1, <1>3, <2>1 DEF CallOK, At
  <2> QED
    BY <1>1, <1>3, <2>1, <2>2, NothingRecorded
<1> QED
  BY <1>2, <1>3 DEF Diffed

LEMMA LookInv ==
  ASSUME WorkspaceInv, NEW c \in Callers, Look(c)
  PROVE  WorkspaceInv'
<1> USE DEF WorkspaceInv
<1>1. /\ UNCHANGED <<prep, final, headSha, deliveryOf, made, clone, local, dirty, remote, marker, mishaps>>
      /\ caller' = [caller EXCEPT ![c].at = "looked", ![c].seen = remote]
      /\ caller[c].head \in Commits /\ headSha \in Commits
  BY DEF Look, wsRow, wsGit, wsRemote, CallOK, At, WithHead
<1>2. /\ CallMoves(c) /\ caller'[c].at = "looked" /\ caller'[c].seen = remote
      /\ caller'[c].head = caller[c].head
  BY <1>1 DEF CallMoves, WorkspaceTypeOK, CallState, FinalizeSteps
<1>3. CallOK(c)'
  BY <1>1, <1>2 DEF CallOK, At
<1> QED
  BY <1>1, <1>2, <1>3, NothingRecorded DEF RowHasHead, WorkspaceTypeOK

\* The foreign commit that is recorded with an invalidated delivery is on the branch.
LEMMA ConflictInv ==
  ASSUME WorkspaceInv, NEW c \in Callers, Conflict(c), caller[c].head \in Commits,
         remote \notin {0, caller[c].head},
         UNCHANGED <<prep, headSha, wsGit, wsRemote, mishaps>>
  PROVE  WorkspaceInv'
<1> DEFINE h == caller[c].head
<1> USE DEF WorkspaceInv
<1>1. /\ UNCHANGED <<prep, headSha, clone, local, dirty, remote, marker, mishaps>>
      /\ final' = "failed" /\ Answers(c) /\ RemoteKept
  BY DEF Conflict, wsGit, wsRemote, RemoteKept
<1>2. CallMoves(c) /\ \A o \in Callers : CallOK(o)'
  BY <1>1, AnswersMoves, OthersKnow
<1>3. /\ made' \in [Commits -> {"none", "live", "waiting", "invalidated"}] /\ deliveryOf' \in {0} \cup Commits
      /\ \A g \in Commits : made'[g] = made[g] \/ (g = h /\ made'[g] = "invalidated")
  BY DEF Conflict, WorkspaceTypeOK
<1>4. WorkspaceTypeOK'
  BY <1>1, <1>2, <1>3 DEF WorkspaceTypeOK, CallMoves
<1>5. ConflictIsForeign' /\ DeliveredIsPushed'
  BY <1>1, <1>3 DEF ConflictIsForeign, DeliveredIsPushed, Delivered
<1> QED
  BY <1>1, <1>2, <1>4, <1>5 DEF DirtyHasRoom, RowHasHead, NamesItsDelivery

LEMMA LookedInv ==
  ASSUME WorkspaceInv, NEW c \in Callers, Looked(c)
  PROVE  WorkspaceInv'
<1> USE DEF WorkspaceInv
<1>1. /\ UNCHANGED <<prep, headSha, wsGit, wsRemote, mishaps>>
      /\ UNCHANGED <<prep, headSha, clone, local, dirty, remote, marker, mishaps>>
      /\ caller[c].head \in Commits /\ caller[c].seen \in {0, remote} /\ caller[c].at \in WithHead \ {"diff"}
  BY DEF Looked, wsGit, wsRemote, CallOK, At, WithHead
<1>2. CASE /\ Goes(c, "push") \/ Goes(c, "pushed")
           /\ UNCHANGED <<final, deliveryOf, made>>
  <2>1. CallMoves(c) /\ CallOK(c)'
    BY <1>1, <1>2, NextPhase
  <2> QED
    BY <1>1, <1>2, <2>1, NothingRecorded DEF RowHasHead, WorkspaceTypeOK
<1>3. CASE Conflict(c) /\ caller[c].seen \notin {0, caller[c].head}
  BY <1>1, <1>3, ConflictInv
<1> QED
  BY <1>2, <1>3 DEF Looked

LEMMA RejectedInv ==
  ASSUME WorkspaceInv, NEW c \in Callers, Rejected(c)
  PROVE  WorkspaceInv'
<1> USE DEF WorkspaceInv
<1>1. /\ UNCHANGED <<prep, headSha, wsGit, wsRemote, mishaps>>
      /\ UNCHANGED <<prep, headSha, clone, local, dirty, remote, marker, mishaps>>
      /\ caller[c].head \in Commits
  BY DEF Rejected, wsGit, wsRemote, CallOK, At, WithHead
<1>2. CASE remote \notin {0, caller[c].head}
  BY <1>1, <1>2, ConflictInv DEF Rejected
<1>3. CASE remote \in {0, caller[c].head}
  <2>1. Answers(c) /\ UNCHANGED <<final, deliveryOf, made>>
    BY <1>3 DEF Rejected
  <2> QED
    BY <1>1, <2>1, AnswersMoves, NothingRecorded DEF RowHasHead, WorkspaceTypeOK
<1> QED
  BY <1>2, <1>3

\* The branch and its marker are written when neither is there, so no delivery is either.
LEMMA PushBranchInv ==
  ASSUME WorkspaceInv, NEW c \in Callers, PushBranch(c)
  PROVE  WorkspaceInv'
<1> USE DEF WorkspaceInv
<1>1. /\ UNCHANGED <<prep, final, headSha, deliveryOf, made, clone, local, dirty>>
      /\ caller[c].head \in Commits /\ caller[c].at \in WithHead \ {"diff"}
      /\ mishaps \in 0..MishapBound
  BY DEF PushBranch, wsRow, wsGit, WorkspaceTypeOK, CallOK, At, WithHead
<1>2. CASE ~Accepts
  <2>1. Goes(c, "rejected") /\ UNCHANGED <<remote, marker, mishaps>>
    BY <1>2 DEF PushBranch, wsRemote
  <2>2. CallMoves(c) /\ CallOK(c)'
    BY <1>1, <2>1, NextPhase
  <2> QED
    BY <1>1, <2>1, <2>2, NothingRecorded DEF RowHasHead, WorkspaceTypeOK
<1>3. CASE Accepts
  <2>1. /\ remote = 0 /\ marker = 0 /\ remote' = local /\ marker' = caller[c].head
        /\ (Goes(c, "pushed") /\ UNCHANGED mishaps) \/ (Answers(c) /\ Mishap)
    BY <1>3 DEF PushBranch, Accepts
  <2>2. mishaps' \in 0..MishapBound
    BY <1>1, <2>1, WorkspaceAssumption DEF Mishap
  <2>3. CallMoves(c) /\ CallOK(c)' /\ RemoteKept
    BY <1>1, <2>1, NextPhase, AnswersMoves DEF RemoteKept
  <2>4. \A o \in Callers : CallOK(o)'
    BY <2>3, OthersKnow
  <2>5. WorkspaceTypeOK'
    BY <1>1, <2>1, <2>2, <2>3 DEF WorkspaceTypeOK, CallMoves
  <2>6. 0 \notin Commits
    BY DEF Commits, Base
  <2>7. ConflictIsForeign'
    BY <1>1, <2>1 DEF ConflictIsForeign
  <2>8. DeliveredIsPushed'
    BY <1>1, <2>1, <2>6 DEF DeliveredIsPushed, Delivered
  <2> QED
    BY <1>1, <2>4, <2>5, <2>7, <2>8 DEF DirtyHasRoom, RowHasHead, NamesItsDelivery, Delivered
<1> QED
  BY <1>2, <1>3

LEMMA ForbiddenInv ==
  ASSUME WorkspaceInv, NEW c \in Callers, Forbidden(c)
  PROVE  WorkspaceInv'
<1>1. /\ UNCHANGED <<prep, headSha, deliveryOf, made, clone, local, dirty, remote, marker, mishaps>>
      /\ final' = "failed" /\ Answers(c)
  BY DEF Forbidden, wsGit, wsRemote
<1> QED
  BY <1>1, AnswersMoves, NothingRecorded DEF WorkspaceInv, WorkspaceTypeOK

LEMMA AfterPushInv ==
  ASSUME WorkspaceInv, NEW c \in Callers, AfterPush(c)
  PROVE  WorkspaceInv'
<1>1. /\ UNCHANGED <<prep, headSha, deliveryOf, made, clone, local, dirty, remote, marker, mishaps>>
      /\ final' = "delivering" /\ Goes(c, "verify") /\ caller[c].at \in WithHead \ {"diff"}
  BY DEF AfterPush, wsGit, wsRemote, At, WithHead
<1>2. CallMoves(c) /\ CallOK(c)' /\ headSha \in Commits
  BY <1>1, NextPhase DEF WorkspaceInv, CallOK
<1> QED
  BY <1>1, <1>2, NothingRecorded DEF WorkspaceInv, WorkspaceTypeOK

LEMMA VerifyInv ==
  ASSUME WorkspaceInv, NEW c \in Callers, Verify(c)
  PROVE  WorkspaceInv'
<1> USE DEF WorkspaceInv
<1>1. /\ UNCHANGED <<prep, headSha, deliveryOf, made, clone, local, dirty, remote, marker, mishaps>>
      /\ caller[c].head \in Commits /\ headSha \in Commits
  BY DEF Verify, wsGit, wsRemote, CallOK, At, WithHead
<1>2. CASE Verifies(caller[c].head) /\ Goes(c, "verified") /\ UNCHANGED final
  <2>1. CallMoves(c) /\ caller'[c].at = "verified" /\ caller'[c].head = caller[c].head
    BY <1>2, GoesMoves DEF FinalizeSteps
  <2>2. CallOK(c)'
    BY <1>1, <1>2, <2>1 DEF CallOK, At, Verifies
  <2> QED
    BY <1>1, <1>2, <2>1, <2>2, NothingRecorded DEF RowHasHead, WorkspaceTypeOK
<1>3. CASE final' = "failed" /\ Answers(c)
  BY <1>1, <1>3, AnswersMoves, NothingRecorded DEF WorkspaceTypeOK
<1> QED
  BY <1>2, <1>3 DEF Verify

\* A verified head is on the branch, so nobody has invalidated it, and it is the only one.
LEMMA RecordInv ==
  ASSUME WorkspaceInv, NEW c \in Callers, Record(c)
  PROVE  WorkspaceInv'
<1> DEFINE h == caller[c].head
<1> USE DEF WorkspaceInv
<1>1. /\ UNCHANGED <<prep, headSha, clone, local, dirty, remote, marker, mishaps>>
      /\ h \in Commits /\ remote = h /\ marker = h /\ Answers(c) /\ deliveryOf' = h /\ RemoteKept
  BY DEF Record, wsGit, wsRemote, CallOK, At, WithHead, RemoteKept
<1>2. made[h] # "invalidated"
  BY <1>1 DEF ConflictIsForeign
<1> PICK s \in {"live", "waiting"} :
      /\ made' = [made EXCEPT ![h] = s]
      /\ final' = IF s = "waiting" THEN "pending_recovery" ELSE "delivered"
  BY <1>1, <1>2 DEF Record, WorkspaceTypeOK
<1>3. CallMoves(c) /\ \A o \in Callers : CallOK(o)'
  BY <1>1, AnswersMoves, OthersKnow
<1>4. /\ made' \in [Commits -> {"none", "live", "waiting", "invalidated"}]
      /\ made'[h] = s /\ \A g \in Commits \ {h} : made'[g] = made[g]
  BY <1>1 DEF WorkspaceTypeOK
<1>5. WorkspaceTypeOK'
  BY <1>1, <1>3, <1>4 DEF WorkspaceTypeOK, CallMoves
<1>6. ConflictIsForeign' /\ DeliveredIsPushed' /\ NamesItsDelivery'
  BY <1>1, <1>4 DEF ConflictIsForeign, DeliveredIsPushed, NamesItsDelivery, Delivered
<1> QED
  BY <1>1, <1>3, <1>5, <1>6 DEF DirtyHasRoom, RowHasHead

-----------------------------------------------------------------------------
(* The worker, strangers and failures, and the theorems about a workspace. *)

LEMMA CrashWorkspaceInv ==
  ASSUME WorkspaceInv, CrashWorkspace
  PROVE  WorkspaceInv'
<1> USE DEF WorkspaceInv
<1>1. /\ UNCHANGED <<prep, final, headSha, deliveryOf, made, local, dirty, remote, marker>>
      /\ caller' = [c \in Callers |-> NoCaller]
      /\ clone' \in {NoOp, "half", "usable"} \cup Callers
  BY DEF CrashWorkspace, wsRow, wsRemote, WorkspaceTypeOK
<1>2. mishaps' \in 0..MishapBound
  BY WorkspaceAssumption DEF CrashWorkspace, Mishap, WorkspaceTypeOK
<1>3. NoCaller \in CallState /\ NoCaller.at = NoOp /\ NoOp \notin WithHead
  BY WorkspaceAssumption DEF NoCaller, CallState, WithHead, PrepareSteps, FinalizeSteps
<1>4. caller' \in [Callers -> CallState] /\ \A c \in Callers : CallOK(c)'
  BY <1>1, <1>3 DEF CallOK, At, WithHead
<1>5. WorkspaceTypeOK'
  BY <1>1, <1>2, <1>4 DEF WorkspaceTypeOK
<1> QED
  BY <1>1, <1>4, <1>5
     DEF DirtyHasRoom, RowHasHead, ConflictIsForeign, DeliveredIsPushed, NamesItsDelivery, Delivered

LEMMA WorkspaceInvStep == WorkspaceInv /\ [WorkspaceNext]_wsVars => WorkspaceInv'
<1> SUFFICES ASSUME WorkspaceInv, [WorkspaceNext]_wsVars PROVE WorkspaceInv'
  OBVIOUS
<1>1. ASSUME NEW c \in Callers, FinalizeStep(c) PROVE WorkspaceInv'
  BY <1>1, FinalizeInv, CommitInv, DiffedInv, LookInv, LookedInv, PushBranchInv, RejectedInv, ForbiddenInv,
     AfterPushInv, VerifyInv, RecordInv DEF FinalizeStep
<1>2. ASSUME NEW c \in Callers, Transient(c) PROVE WorkspaceInv'
  <2>1. UNCHANGED <<prep, final, headSha, deliveryOf, made, clone, local, dirty, remote, marker>> /\ Answers(c)
    BY <1>2 DEF Transient, wsRow, wsGit, wsRemote
  <2>2. mishaps' \in 0..MishapBound
    BY <1>2, WorkspaceAssumption DEF Transient, Mishap, WorkspaceInv, WorkspaceTypeOK
  <2> QED
    BY <2>1, <2>2, AnswersMoves, NothingRecorded DEF WorkspaceInv, RowHasHead
<1>3. CASE Edit
  BY <1>3 DEF Edit, WorkspaceInv, WorkspaceTypeOK, DirtyHasRoom, RowHasHead, ConflictIsForeign, DeliveredIsPushed,
     NamesItsDelivery, Delivered, CallOK, At, wsRow, wsRemote
<1>4. CASE PushOfForeign
  <2> USE DEF WorkspaceInv
  <2>1. /\ UNCHANGED <<prep, final, headSha, deliveryOf, made, clone, local, dirty, marker, caller>>
        /\ remote = 0 /\ remote' = Foreign
    BY <1>4 DEF PushOfForeign, wsRow, wsGit
  <2>2. mishaps' \in 0..MishapBound
    BY <1>4, WorkspaceAssumption DEF PushOfForeign, Mishap, WorkspaceTypeOK
  <2>3. Foreign \notin Commits /\ 0 \notin Commits
    BY WorkspaceAssumption DEF Foreign, Commits, Base
  <2>4. WorkspaceTypeOK' /\ \A c \in Callers : CallOK(c)'
    BY <2>1, <2>2, <2>3 DEF WorkspaceTypeOK, CallOK, At, WithHead
  <2>5. ConflictIsForeign' /\ DeliveredIsPushed'
    BY <2>1, <2>3 DEF ConflictIsForeign, DeliveredIsPushed, Delivered
  <2> QED
    BY <2>1, <2>4, <2>5 DEF DirtyHasRoom, RowHasHead, NamesItsDelivery, Delivered
<1>5. CASE UNCHANGED wsVars
  BY <1>5 DEF WorkspaceInv, WorkspaceTypeOK, DirtyHasRoom, RowHasHead, ConflictIsForeign, DeliveredIsPushed,
     NamesItsDelivery, Delivered, CallOK, At, wsVars, wsRow, wsGit, wsRemote
<1> QED
  BY <1>1, <1>2, <1>3, <1>4, <1>5, PrepareStepInv, CrashWorkspaceInv DEF WorkspaceNext

\* The row, the working directory, the branch and the calls are always of their types.
THEOREM WorkspaceTypes == WorkspaceSpec => []WorkspaceTypeOK
<1>1. WorkspaceInv => WorkspaceTypeOK
  BY DEF WorkspaceInv
<1> QED
  BY <1>1, InitWorkspaceInv, WorkspaceInvStep, PTL DEF WorkspaceSpec

\* However many calls for one attempt overlap, fail, are repeated or are cut off by a crash,
\* and whoever else pushes: the attempt delivers one commit at most, that commit is what the
\* remote branch and its marker hold, and a workspace that is delivered names it.
THEOREM Workspace_Safe == WorkspaceSpec => []WorkspaceIsSafe
<1>1. WorkspaceInv => WorkspaceIsSafe
  <2> SUFFICES ASSUME WorkspaceInv PROVE OneDelivery
    BY DEF WorkspaceInv, WorkspaceIsSafe
  <2>1. CASE Delivered = {}
    BY <2>1, FS_EmptySet DEF OneDelivery
  <2>2. ASSUME NEW h \in Delivered PROVE OneDelivery
    <3>1. Delivered = {h}
      BY <2>2 DEF WorkspaceInv, DeliveredIsPushed
    <3>2. Cardinality(Delivered) = 1
      BY <3>1, FS_Singleton
    <3> QED
      BY <3>2 DEF OneDelivery
  <2> QED
    BY <2>1, <2>2
<1> QED
  BY <1>1, InitWorkspaceInv, WorkspaceInvStep, PTL DEF WorkspaceSpec

-----------------------------------------------------------------------------
(* The attempts at a task.  The one that is executing is the one that the  *)
(* task names, so that neither a claim nor a takeover can pass it by.      *)

ExecutingIsActive == \A a \in Attempts : attempt[a].status = "executing" => task.active = a
AttemptsInv == AttemptsTypeOK /\ ExecutingIsActive


LEMMA InitAttemptsInv == NodesInit => AttemptsInv
<1> SUFFICES ASSUME NodesInit PROVE AttemptsInv
  OBVIOUS
<1>1. Made = {} /\ 0 \in 0..AttemptBound /\ 0 \in 0..NodeBound /\ {} = 1..0
  BY AttemptsAssumption DEF NodesInit, Made, NoAttempt
<1>2. NodeTypes
  BY <1>1 DEF NodesInit, NodeTypes, NodeState
<1>3. WorkTypes
  BY <1>1 DEF NodesInit, WorkTypes, NoAttempt, TaskState, AttemptState, CandidateState
<1> QED
  BY <1>2, <1>3 DEF AttemptsTypeOK, AttemptsInv, ExecutingIsActive, NodesInit, NoAttempt

\* A step that makes no attempt, and lets none execute that did not.
NoneBegins ==
  /\ attempt' \in [Attempts -> AttemptState]
  /\ \A a \in Attempts :
       /\ attempt'[a].status = "none" <=> attempt[a].status = "none"
       /\ attempt'[a].status = "executing" => attempt[a].status = "executing"

\* One attempt that was made gets another status, or its lease another state.
LEMMA AttemptChanges ==
  ASSUME WorkTypes, NEW a \in Attempts, attempt[a].status # "none",
         NEW s \in {attempt[a].status, "pending_recovery"} \cup Ended, NEW e \in BOOLEAN,
         attempt' = [attempt EXCEPT ![a].status = s] \/ attempt' = [attempt EXCEPT ![a].expired = e]
  PROVE  NoneBegins
<1>1. attempt \in [Attempts -> AttemptState]
  BY DEF WorkTypes
<1>2. attempt[a].status \in {"none", "executing", "pending_recovery", "fenced"} \cup Ended
  BY <1>1 DEF AttemptState
<1>3. s \in {"none", "executing", "pending_recovery", "fenced"} \cup Ended /\ s # "none"
        /\ (s = "executing" => attempt[a].status = "executing")
  BY <1>2 DEF Ended
<1>4. CASE attempt' = [attempt EXCEPT ![a].status = s]
  BY <1>1, <1>3, <1>4 DEF NoneBegins, AttemptState
<1>5. CASE attempt' = [attempt EXCEPT ![a].expired = e]
  BY <1>1, <1>5 DEF NoneBegins, AttemptState
<1> QED
  BY <1>4, <1>5

LEMMA AllAttemptsChange ==
  ASSUME WorkTypes, NEW s \in {"pending_recovery", "fenced"},
         attempt' = [a \in Attempts |-> IF attempt[a].status = "executing"
                                        THEN [attempt[a] EXCEPT !.status = s] ELSE attempt[a]]
  PROVE  NoneBegins
<1>1. attempt \in [Attempts -> AttemptState]
  BY DEF WorkTypes
<1> QED
  BY <1>1 DEF NoneBegins, AttemptState

LEMMA NoneBeginsInv ==
  ASSUME AttemptsInv, NodeTypes', NoneBegins, candidate' \in [Attempts -> CandidateState], task' \in TaskState,
         task'.active = task.active \/ \A a \in Attempts : attempt'[a].status # "executing"
  PROVE  AttemptsInv'
<1>1. Made' = Made
  BY DEF Made, NoneBegins
<1>2. WorkTypes'
  BY <1>1 DEF AttemptsInv, AttemptsTypeOK, WorkTypes, NoneBegins
<1>3. ExecutingIsActive'
  BY DEF AttemptsInv, ExecutingIsActive, NoneBegins
<1> QED
  BY <1>2, <1>3 DEF AttemptsInv, AttemptsTypeOK

\* The next generation, while no attempt is executing.
LEMMA ClaimInv ==
  ASSUME AttemptsInv, NEW n \in Nodes, Claim(n)
  PROVE  AttemptsInv'
<1> USE DEF AttemptsInv, AttemptsTypeOK
<1> PICK a \in Attempts \ Made :
      /\ \A b \in Attempts \ Made : a <= b
      /\ attempt' = [attempt EXCEPT ![a].status = "executing"]
      /\ task' = [status |-> "running", active |-> a]
  BY DEF Claim
<1>1. /\ UNCHANGED <<candidate, nodeVars>> /\ attempt \in [Attempts -> AttemptState]
      /\ \A b \in Attempts : attempt[b].status # "executing"
  BY DEF Claim, NoneActive, WorkTypes, Made
<1>2. /\ attempt' \in [Attempts -> AttemptState] /\ attempt'[a].status = "executing"
      /\ \A b \in Attempts \ {a} : attempt'[b] = attempt[b]
  BY <1>1 DEF AttemptState
<1>3. Made' = Made \cup {a}
  BY <1>2 DEF Made
<1> PICK m \in 0..AttemptBound : Made = 1..m
  BY DEF WorkTypes
<1>4. a = m + 1
  <2>1. a \in 1..AttemptBound /\ a > m /\ m + 1 \in 1..AttemptBound /\ m + 1 \notin Made
    BY AttemptsAssumption DEF Attempts
  <2> QED
    BY <2>1, AttemptsAssumption DEF Attempts
<1>5. Made' = 1..a /\ a \in 0..AttemptBound
  BY <1>3, <1>4, AttemptsAssumption DEF Attempts
<1>6. WorkTypes'
  BY <1>1, <1>2, <1>5 DEF WorkTypes, TaskState
<1>7. NodeTypes'
  BY <1>1 DEF NodeTypes, nodeVars
<1>8. ExecutingIsActive'
  BY <1>1, <1>2 DEF ExecutingIsActive
<1> QED
  BY <1>6, <1>7, <1>8

\* What is done to nodes leaves the attempts alone.
LEMMA OfNodeInv ==
  ASSUME AttemptsInv, NEW n \in Nodes, OfNode(n)
  PROVE  AttemptsInv'
<1> USE DEF AttemptsInv, AttemptsTypeOK
<1>1. ASSUME NodeTypes', UNCHANGED workVars PROVE AttemptsInv'
  BY <1>1 DEF WorkTypes, ExecutingIsActive, Made, workVars
<1>2. nodeSteps < NodeBound => nodeSteps + 1 \in 0..NodeBound
  BY AttemptsAssumption DEF NodeTypes
<1>3. ASSUME NEW st \in {"online", "draining", "offline"}, Becomes(n, st) PROVE node' \in [Nodes -> NodeState]
  BY <1>3 DEF Becomes, NodeTypes, NodeState
<1>4. CASE Enroll(n)
  <2>1. [status |-> "online", valid |-> TRUE] \in NodeState
    BY DEF NodeState
  <2>2. NodeTypes' /\ UNCHANGED workVars
    BY <1>2, <1>4, <2>1 DEF Enroll, NodeTypes
  <2> QED
    BY <1>1, <2>2
<1>5. CASE Register(n)
  BY <1>1, <1>3, <1>5 DEF Register, NodeTypes
<1>6. CASE Drain(n) \/ GoOffline(n)
  BY <1>1, <1>2, <1>3, <1>6 DEF Drain, GoOffline, NodeStep, NodeTypes
<1>7. CASE Revoke(n)
  <2>1. [status |-> "quarantined", valid |-> FALSE] \in NodeState
    BY DEF NodeState
  <2>2. NodeTypes' /\ UNCHANGED workVars
    BY <1>2, <1>7, <2>1 DEF Revoke, NodeStep, NodeTypes
  <2> QED
    BY <1>1, <2>2
<1>8. CASE Rotate(n)
  <2>1. node' \in [Nodes -> NodeState]
    BY <1>8 DEF Rotate, NodeTypes, NodeState
  <2>2. NodeTypes' /\ UNCHANGED workVars
    BY <1>2, <1>8, <2>1 DEF Rotate, NodeStep, NodeTypes
  <2> QED
    BY <1>1, <2>2
<1>9. CASE Authorize(n)
  BY <1>1, <1>2, <1>9 DEF Authorize, NodeStep, NodeTypes
<1> QED
  BY <1>4, <1>5, <1>6, <1>7, <1>8, <1>9, ClaimInv DEF OfNode

\* A takeover may release the task only from the attempt it is about.
LEMMA OfAttemptInv ==
  ASSUME AttemptsInv, NEW a \in Attempts, OfAttempt(a)
  PROVE  AttemptsInv'
<1> USE DEF AttemptsInv, AttemptsTypeOK
<1>1. NodeTypes'
  BY DEF OfAttempt, Renew, Expire, Report, Cancel, Scan, Takeover, Discard, Isolate, NodeTypes, nodeVars
<1>2. task \in TaskState /\ candidate \in [Attempts -> CandidateState] /\ attempt \in [Attempts -> AttemptState]
  BY DEF WorkTypes
<1>3. UNCHANGED attempt => NoneBegins
  BY <1>2 DEF NoneBegins
<1>4. CASE Renew(a) \/ Expire(a)
  <2>1. attempt[a].status # "none" /\ UNCHANGED <<task, candidate>>
    BY <1>4 DEF Renew, Expire, Made
  <2>2. NoneBegins
    BY <1>4, <2>1, AttemptChanges DEF Renew, Expire
  <2> QED
    BY <1>1, <1>2, <2>1, <2>2, NoneBeginsInv
<1>5. ASSUME Report(a) \/ Cancel(a) PROVE AttemptsInv'
  <2>1. attempt[a].status # "none" /\ UNCHANGED candidate
    BY <1>5 DEF Report, Cancel, Made
  <2>2. NoneBegins
    BY <1>5, <2>1, AttemptChanges DEF Report, Cancel, Ended
  <2>3. task' \in TaskState /\ task'.active = task.active
    BY <1>2, <1>5 DEF Report, Cancel, TaskState
  <2> QED
    BY <1>1, <1>2, <2>1, <2>2, <2>3, NoneBeginsInv
<1>6. CASE Scan(a) \/ Discard(a) \/ Isolate(a)
  <2>1. UNCHANGED <<task, attempt>>
    BY <1>6 DEF Scan, Discard, Isolate
  <2>2. candidate' \in [Attempts -> CandidateState]
    <3>1. CASE Scan(a)
      BY <1>2, <3>1 DEF Scan, CandidateState
    <3>2. CASE Discard(a)
      BY <1>2, <3>2 DEF Discard, CandidateState
    <3>3. CASE Isolate(a)
      BY <1>2, <3>3 DEF Isolate, CandidateState
    <3> QED
      BY <1>6, <3>1, <3>2, <3>3
  <2> QED
    BY <1>1, <1>2, <1>3, <2>1, <2>2, NoneBeginsInv
<1>7. ASSUME NEW p \in {"decide", "fence", "release", "end"}, Takeover(a, p) PROVE AttemptsInv'
  <2> DEFINE held == attempt[a].status = "executing" /\ ~attempt[a].expired
             fences == ~held /\ p # "decide"
             releases == fences /\ p # "fence" /\ Releases(a)
  <2>1. /\ attempt' = [attempt EXCEPT ![a].status = IF fences /\ @ = "executing" THEN "pending_recovery" ELSE @]
        /\ task' = IF releases THEN [status |-> "pending", active |-> 0] ELSE task
        /\ candidate' = [candidate EXCEPT ![a].status = "decided",
                           ![a].consumed = @ \/ (~held /\ p = "end")]
    BY <1>7 DEF Takeover
  <2>2. /\ attempt' \in [Attempts -> AttemptState]
        /\ attempt'[a].status = (IF fences /\ attempt[a].status = "executing" THEN "pending_recovery"
                                 ELSE attempt[a].status)
        /\ \A b \in Attempts \ {a} : attempt'[b] = attempt[b]
    BY <1>2, <2>1 DEF AttemptState
  <2>3. NoneBegins
    BY <2>2 DEF NoneBegins
  <2>4. candidate' \in [Attempts -> CandidateState]
    BY <1>2, <2>1 DEF CandidateState
  <2>5. task' \in TaskState
    BY <1>2, <2>1 DEF TaskState
  <2>6. CASE releases
    <3>1. task.active = a /\ attempt'[a].status # "executing"
      BY <2>2, <2>6 DEF Releases
    <3>2. \A b \in Attempts : attempt'[b].status # "executing"
      BY <2>2, <3>1 DEF ExecutingIsActive
    <3> QED
      BY <1>1, <2>3, <2>4, <2>5, <3>2, NoneBeginsInv
  <2>7. CASE ~releases
    BY <1>1, <2>1, <2>3, <2>4, <2>5, <2>7, NoneBeginsInv
  <2> QED
    BY <2>6, <2>7
<1> QED
  BY <1>4, <1>5, <1>6, <1>7 DEF OfAttempt

LEMMA AttemptsInvStep == AttemptsInv /\ [NodesNext]_attemptVars => AttemptsInv'
<1> SUFFICES ASSUME AttemptsInv, [NodesNext]_attemptVars PROVE AttemptsInv'
  OBVIOUS
<1> USE DEF AttemptsInv, AttemptsTypeOK
<1>1. CASE BreakCircuit \/ FenceAttempts
  <2>1. nodeSteps' \in 0..NodeBound /\ UNCHANGED <<node, session, bound, task, candidate>>
    BY <1>1, AttemptsAssumption DEF BreakCircuit, FenceAttempts, NodeTypes
  <2>3. writable' \in BOOLEAN
    BY <1>1 DEF BreakCircuit, FenceAttempts, NodeTypes
  <2>4. NodeTypes'
    BY <2>1, <2>3 DEF NodeTypes
  <2>2. NoneBegins
    BY <1>1, AllAttemptsChange DEF BreakCircuit, FenceAttempts
  <2> QED
    BY <2>1, <2>2, <2>4, NoneBeginsInv DEF WorkTypes
<1>2. CASE RestoreWrites
  BY <1>2, AttemptsAssumption
     DEF RestoreWrites, NodeStep, NodeTypes, WorkTypes, ExecutingIsActive, Made, workVars
<1>3. CASE UNCHANGED attemptVars
  BY <1>3 DEF NodeTypes, WorkTypes, ExecutingIsActive, Made, attemptVars, nodeVars, workVars
<1> QED
  BY <1>1, <1>2, <1>3, OfNodeInv, OfAttemptInv DEF NodesNext

\* The nodes, their sessions and the attempts are always of their types, and the
\* generations of the attempts follow one another.
THEOREM AttemptsTypes == NodesSpec => []AttemptsTypeOK
<1>1. AttemptsInv => AttemptsTypeOK
  BY DEF AttemptsInv
<1> QED
  BY <1>1, InitAttemptsInv, AttemptsInvStep, PTL DEF NodesSpec

\* However often the task is cancelled, failed, taken over and claimed again, whatever
\* becomes of the nodes and wherever the hub stops within a takeover: one attempt is
\* executing at most, and a takeover leaves the task to an attempt made since.
THEOREM Attempts_Safe == NodesSpec => AttemptsAreSafe
<1>1. AttemptsInv => Cardinality(Executing) <= 1
  <2> SUFFICES ASSUME AttemptsInv PROVE Cardinality(Executing) <= 1
    OBVIOUS
  <2>1. CASE Executing = {}
    BY <2>1, FS_EmptySet
  <2>2. ASSUME NEW a \in Executing PROVE Cardinality(Executing) <= 1
    <3>1. Executing = {a}
      BY <2>2 DEF AttemptsInv, ExecutingIsActive, Executing
    <3>2. Cardinality(Executing) = 1
      BY <3>1, FS_Singleton
    <3> QED
      BY <3>2
  <2> QED
    BY <2>1, <2>2
<1>2. AttemptsInv /\ [NodesNext]_attemptVars =>
        [\A a \in Attempts :
           (\E p \in {"decide", "fence", "release", "end"} : Takeover(a, p)) /\ Executing \ {a} # {}
             => task' = task]_attemptVars
  <2> SUFFICES ASSUME AttemptsInv, NEW a \in Attempts, NEW p \in {"decide", "fence", "release", "end"},
                      Takeover(a, p), NEW b \in Executing \ {a}
               PROVE  task' = task
    OBVIOUS
  <2>1. ~Releases(a)
    BY DEF AttemptsInv, ExecutingIsActive, Executing, Releases
  <2> QED
    BY <2>1 DEF Takeover
<1> QED
  BY <1>1, <1>2, InitAttemptsInv, AttemptsInvStep, PTL DEF NodesSpec, AttemptsAreSafe, TakeoverSparesNewer

-----------------------------------------------------------------------------
(* The daemon of a node.                                                   *)

KnownWasGranted == \A w \in Works : watch[w] # "none" => w \in granted
StoppedHasNoToken == \A w \in Works : watch[w] \in {"stopped", "lease_lost"} => w \notin token

\* The answer to a claim is about an attempt that the daemon has never watched.
AnswerIsFresh == asking.state = "granted" => asking.work \in granted /\ watch[asking.work] = "none"

\* While the loop awaits a renewal, nothing else stops the attempt.
RenewedIsActive == loop.at \in Works => watch[loop.at] \in Active

DaemonInv ==
  /\ DaemonTypeOK /\ SlotsAreWatched /\ AdoptedIsKnown
  /\ KnownWasGranted /\ StoppedHasNoToken /\ AnswerIsFresh /\ RenewedIsActive

LEMMA SubsetFinite ==
  ASSUME NEW ws \in SUBSET Works
  PROVE  IsFiniteSet(ws) /\ Cardinality(ws) \in Nat
BY FS_Subset, FS_CardinalityType, DaemonAssumption

LEMMA InitDaemonInv == DaemonInit => DaemonInv
<1> SUFFICES ASSUME DaemonInit PROVE DaemonInv
  OBVIOUS
<1>1. Cardinality({}) = 0 /\ <<>> \in Seq(Works)
  BY FS_EmptySet
<1>2. SlotTypes /\ DiskTypes /\ SlotsAreWatched
  BY <1>1, DaemonAssumption DEF DaemonInit, SlotTypes, DiskTypes, SlotsAreWatched, Watched, Active
<1>3. NotAsking \in AskingState /\ AtTop \in LoopState /\ AtTop.at \notin Works /\ NotAsking.state # "granted"
  BY DaemonAssumption DEF NotAsking, AskingState, AtTop, LoopState, LoopParts
<1>4. DaemonTypeOK
  BY <1>1, <1>2, <1>3, DaemonAssumption DEF DaemonInit, DaemonTypeOK
<1> QED
  BY <1>2, <1>3, <1>4
     DEF DaemonInit, DaemonInv, AdoptedIsKnown, Runs, KnownWasGranted, StoppedHasNoToken, AnswerIsFresh, RenewedIsActive

-----------------------------------------------------------------------------
(* The steps of its loop may stop attempts that are watched.               *)

Shrinks ==
  /\ SlotTypes' /\ DiskTypes' /\ reports' \in Seq(Works) /\ SlotsAreWatched'
  /\ token' \subseteq token /\ recovery \subseteq recovery'
  /\ \A w \in Works :
       /\ watch'[w] = watch[w]
            \/ (watch[w] \in Active /\ watch'[w] \in {"stopped", "lease_lost"} /\ w \notin token')
       /\ journal'[w] = "adopted" => journal[w] = "adopted" /\ watch'[w] = watch[w]

LEMMA KeepsShrink ==
  ASSUME DaemonInv, UNCHANGED <<slotVars, workDisk>>, reports' \in Seq(Works)
  PROVE  Shrinks
BY DEF DaemonInv, DaemonTypeOK, SlotTypes, DiskTypes, SlotsAreWatched, Watched, Shrinks, slotVars, workDisk

LEMMA StopShrinks ==
  ASSUME DaemonInv, NEW ws \in SUBSET Watched, NEW status \in {"stopped", "lease_lost"}, NEW reason,
         Stop(ws, status, reason)
  PROVE  Shrinks
<1> USE DEF DaemonInv, DaemonTypeOK
<1>1. ws \subseteq Works /\ busy \subseteq Works /\ ws \in SUBSET Works
  BY DEF Watched, SlotTypes
<1>2. Cardinality(busy \ ws) <= Slots
  <2>1. IsFiniteSet(busy) /\ Cardinality(busy) \in Nat /\ Cardinality(busy \ ws) \in Nat
    BY <1>1, SubsetFinite
  <2>2. Cardinality(busy \ ws) <= Cardinality(busy)
    BY <2>1, FS_Subset
  <2> QED
    BY <2>1, <2>2, DaemonAssumption DEF SlotTypes
<1>3. /\ watch' = [w \in Works |-> IF w \in ws THEN status ELSE watch[w]]
      /\ token' = token \ ws /\ busy' = busy \ ws
      /\ journal' = [w \in Works |-> IF w \in ws THEN "terminal" ELSE journal[w]]
      /\ recovery' = recovery \/ recovery' = recovery \cup ws
  <2>1. recovery' = recovery \/ recovery' = recovery \cup ws
    BY DEF Stop
  <2> QED
    BY <2>1 DEF Stop, Kept, Freed
<1>4. SlotTypes' /\ DiskTypes'
  BY <1>1, <1>2, <1>3 DEF SlotTypes, DiskTypes
<1>5. SlotsAreWatched'
  BY <1>1, <1>3 DEF SlotsAreWatched, Watched, Active
<1>6. reports' \in Seq(Works)
  <2> PICK s \in Listed(ws) : reports' = reports \o s
    BY DEF Stop
  <2>1. s \in [1..Cardinality(ws) -> Works] /\ Cardinality(ws) \in Nat
    BY <1>1, SubsetFinite DEF Listed
  <2>2. s \in Seq(Works)
    BY <2>1, SeqDef
  <2> QED
    BY <2>2
<1>7. \A w \in ws : watch[w] \in Active
  BY DEF Watched
<1> QED
  BY <1>1, <1>3, <1>4, <1>5, <1>6, <1>7 DEF Shrinks, SlotTypes

LEMMA ShrinksInv ==
  ASSUME DaemonInv, Shrinks, UNCHANGED <<granted, asking, chain, daemonCrashes>>,
         phase' \in {phase, "draining", "drained", "fenced"}, Runs' => Runs,
         loop' \in LoopState, loop'.at \in Works => watch'[loop'.at] \in Active
  PROVE  DaemonInv'
<1> USE DEF DaemonInv, DaemonTypeOK, Shrinks
<1>1. DaemonTypeOK'
  OBVIOUS
<1>2. AdoptedIsKnown'
  BY DEF AdoptedIsKnown, Watched
<1>3. KnownWasGranted'
  BY DEF KnownWasGranted, Active
<1>4. StoppedHasNoToken'
  BY DEF StoppedHasNoToken
<1>5. AnswerIsFresh'
  BY DEF AnswerIsFresh, Active, AskingState
<1> QED
  BY <1>1, <1>2, <1>3, <1>4, <1>5 DEF RenewedIsActive

\* Where the loop goes: to another part of itself, or to the next of its attempts.
LEMMA LoopGoes ==
  ASSUME DaemonTypeOK, NEW at \in LoopParts, NEW left \in SUBSET Works
  PROVE  /\ [at |-> at, left |-> left] \in LoopState /\ [at |-> at, left |-> left].at \notin Works
         /\ [loop EXCEPT !.at = at] \in LoopState /\ [loop EXCEPT !.at = at].at \notin Works
         /\ AtTop \in LoopState /\ AtTop.at \notin Works
BY DaemonAssumption DEF DaemonTypeOK, LoopState, AtTop, LoopParts

LEMMA LoopInv ==
  ASSUME DaemonInv, Tick \/ ClaimTick \/ Visited \/ SendReports \/ Beat \/ DrainProgress
  PROVE  DaemonInv'
<1> USE DEF DaemonInv
<1>1. Watched \in SUBSET Works /\ Watched \in SUBSET Watched
  BY DEF Watched
<1>2. reports \in Seq(Works) /\ loop.left \in SUBSET Works
  BY DEF DaemonTypeOK, LoopState
<1>3. CASE Tick
  <2>1. UNCHANGED <<granted, asking, chain, daemonCrashes>> /\ Runs /\ phase' \in {phase, "draining"}
    BY <1>3 DEF Tick
  <2>2. Shrinks
    BY <1>1, <1>2, <1>3, KeepsShrink, StopShrinks DEF Tick
  <2>3. loop' \in LoopState /\ loop'.at \notin Works
    BY <1>1, <1>2, <1>3, LoopGoes DEF Tick, DaemonTypeOK, LoopParts
  <2> QED
    BY <2>1, <2>2, <2>3, ShrinksInv
<1>4. CASE ClaimTick
  <2>1. UNCHANGED <<phase, granted, slotVars, chain, reports, workDisk, daemonCrashes>>
    BY <1>4 DEF ClaimTick
  <2>2. loop' \in LoopState /\ loop'.at \notin Works
    BY <1>1, <1>2, <1>4, LoopGoes DEF ClaimTick, ToWatch, Step, DaemonTypeOK, LoopParts
  <2>3. asking' \in AskingState /\ (asking' = asking \/ asking'.state = "sent")
    <3>1. asking' = asking \/ asking' = [state |-> "sent", work |-> NoWork, awaited |-> TRUE]
      BY <1>4 DEF ClaimTick
    <3>2. CASE asking' = [state |-> "sent", work |-> NoWork, awaited |-> TRUE]
      BY <3>2 DEF AskingState
    <3>3. CASE asking' = asking
      BY <3>3 DEF DaemonTypeOK
    <3> QED
      BY <3>1, <3>2, <3>3
  <2>4. DaemonTypeOK'
    BY <2>1, <2>2, <2>3 DEF DaemonTypeOK, SlotTypes, DiskTypes, slotVars, workDisk
  <2> QED
    BY <2>1, <2>2, <2>3, <2>4
       DEF SlotsAreWatched, Watched, AdoptedIsKnown, Runs, KnownWasGranted, StoppedHasNoToken, AnswerIsFresh,
           RenewedIsActive, slotVars, workDisk
<1>5. CASE Visited
  <2>1. UNCHANGED <<phase, granted, asking, slotVars, chain, reports, workDisk, daemonCrashes>>
    BY <1>5 DEF Visited
  <2>2. loop' \in LoopState /\ loop'.at \notin Works
    BY <1>2, <1>5, LoopGoes DEF Visited, Step, DaemonTypeOK, LoopParts
  <2> QED
    BY <1>2, <2>1, <2>2, KeepsShrink, ShrinksInv DEF Runs
<1>6. CASE SendReports
  <2>1. UNCHANGED <<phase, granted, asking, slotVars, chain, workDisk, daemonCrashes>>
    BY <1>6 DEF SendReports
  <2>2. loop' \in LoopState /\ loop'.at \notin Works
    BY <1>2, <1>6, LoopGoes, DaemonAssumption DEF SendReports, Step, DaemonTypeOK, LoopParts
  <2>3. reports' \in Seq(Works)
    BY <1>2, <1>6 DEF SendReports
  <2> QED
    BY <2>1, <2>2, <2>3, KeepsShrink, ShrinksInv DEF Runs
<1>7. CASE Beat
  <2>1. UNCHANGED <<granted, asking, chain, daemonCrashes>> /\ phase' \in {phase, "fenced"}
    BY <1>7 DEF Beat
  <2>2. Shrinks
    BY <1>1, <1>2, <1>7, KeepsShrink, StopShrinks DEF Beat
  <2>3. loop' \in LoopState /\ loop'.at \notin Works
    BY <1>2, <1>7, LoopGoes DEF Beat, DaemonTypeOK, LoopParts
  <2> QED
    BY <2>1, <2>2, <2>3, ShrinksInv DEF Runs
<1>8. CASE DrainProgress
  <2>1. UNCHANGED <<granted, asking, chain, daemonCrashes>> /\ phase' \in {phase, "drained"} /\ loop' = AtTop
    BY <1>8 DEF DrainProgress
  <2>2. Shrinks
    BY <1>1, <1>2, <1>8, KeepsShrink, StopShrinks DEF DrainProgress
  <2>3. loop' \in LoopState /\ loop'.at \notin Works
    BY <1>2, <2>1, LoopGoes DEF DaemonTypeOK, LoopParts
  <2> QED
    BY <2>1, <2>2, <2>3, ShrinksInv DEF Runs
<1> QED
  BY <1>3, <1>4, <1>5, <1>6, <1>7, <1>8

LEMMA VisitInv ==
  ASSUME DaemonInv, NEW w \in Works, Visit(w)
  PROVE  DaemonInv'
<1> USE DEF DaemonInv
<1>1. UNCHANGED <<phase, granted, asking, chain, daemonCrashes>> /\ loop.at = "watch" /\ reports \in Seq(Works)
  BY DEF Visit, DaemonTypeOK
<1>2. /\ [loop EXCEPT !.left = @ \ {w}] \in LoopState
      /\ [loop EXCEPT !.left = @ \ {w}].at \notin Works
      /\ [loop EXCEPT !.at = w] \in LoopState /\ [loop EXCEPT !.at = w].at = w
  BY <1>1, DaemonAssumption DEF DaemonTypeOK, LoopState, LoopParts
<1>3. CASE loop' = [loop EXCEPT !.left = @ \ {w}] /\ UNCHANGED <<slotVars, reports, workDisk>>
  BY <1>1, <1>2, <1>3, KeepsShrink, ShrinksInv DEF Runs
<1>4. CASE /\ watch[w] \in Active /\ loop' = [loop EXCEPT !.left = @ \ {w}]
           /\ Stop({w}, "stopped", "expiry_stop_window")
  <2>1. {w} \in SUBSET Watched
    BY <1>4 DEF Watched
  <2>2. Shrinks
    BY <1>4, <2>1, StopShrinks
  <2> QED
    BY <1>1, <1>2, <1>4, <2>2, ShrinksInv DEF Runs
<1>5. CASE watch[w] \in Active /\ Step(w) /\ UNCHANGED <<slotVars, reports, workDisk>>
  <2>1. loop' = [loop EXCEPT !.at = w] /\ watch'[w] \in Active
    BY <1>5 DEF Step, slotVars
  <2>2. Shrinks
    BY <1>1, <1>5, KeepsShrink
  <2> QED
    BY <1>1, <1>2, <2>1, <2>2, ShrinksInv DEF Runs
<1> QED
  BY <1>3, <1>4, <1>5 DEF Visit

LEMMA RenewAnsweredInv ==
  ASSUME DaemonInv, NEW w \in Works, RenewAnswered(w)
  PROVE  DaemonInv'
<1> USE DEF DaemonInv
<1>1. /\ UNCHANGED <<phase, granted, asking, chain, daemonCrashes>> /\ reports \in Seq(Works)
      /\ loop' = [at |-> "watch", left |-> loop.left \ {w}] /\ watch[w] \in Active
  BY DEF RenewAnswered, DaemonTypeOK, RenewedIsActive
<1>2. loop' \in LoopState /\ loop'.at \notin Works
  BY <1>1, DaemonAssumption DEF DaemonTypeOK, LoopState, LoopParts
<1>3. ASSUME NEW s \in Active, watch' = [watch EXCEPT ![w] = s], UNCHANGED <<busy, token, reports, workDisk>>
      PROVE  DaemonInv'
  <2>1. watch' \in [Works -> Active \cup {"none", "stopped", "lease_lost"}]
          /\ \A v \in Works : (watch'[v] \in Active <=> watch[v] \in Active)
                               /\ (watch'[v] \notin Active => watch'[v] = watch[v])
    BY <1>1, <1>3 DEF DaemonTypeOK, SlotTypes
  <2>2. DaemonTypeOK'
    BY <1>1, <1>2, <1>3, <2>1 DEF DaemonTypeOK, SlotTypes, DiskTypes, workDisk
  <2>3. SlotsAreWatched' /\ Watched' = Watched
    BY <1>3, <2>1 DEF SlotsAreWatched, Watched
  <2>4. AdoptedIsKnown'
    BY <1>1, <1>3, <2>3 DEF AdoptedIsKnown, Runs, workDisk
  <2>5. KnownWasGranted' /\ StoppedHasNoToken'
    BY <1>1, <1>3, <2>1 DEF KnownWasGranted, StoppedHasNoToken, Active
  <2>6. AnswerIsFresh'
    BY <1>1, <1>3 DEF AnswerIsFresh, Active, DaemonTypeOK, SlotTypes
  <2> QED
    BY <1>2, <2>2, <2>3, <2>4, <2>5, <2>6 DEF RenewedIsActive
<1>4. CASE Stop({w}, "lease_lost", "lease_lost")
  <2>1. {w} \in SUBSET Watched
    BY <1>1 DEF Watched
  <2>2. Shrinks
    BY <1>4, <2>1, StopShrinks
  <2> QED
    BY <1>1, <1>2, <2>2, ShrinksInv DEF Runs
<1> QED
  BY <1>3, <1>4 DEF RenewAnswered

-----------------------------------------------------------------------------
(* Beside the loop, and where the daemon adopts.                           *)

\* Attempts that were never watched get slots, and there are slots for them.
LEMMA AdoptInv ==
  ASSUME DaemonInv, NEW ws \in SUBSET Works, Adopt(ws), Cardinality(ws) <= FreeSlots,
         \A w \in ws : watch[w] = "none",
         UNCHANGED <<phase, reports, recovery, daemonCrashes>>,
         granted' \in SUBSET Works, granted \subseteq granted', ws \subseteq granted',
         token' \in SUBSET Works, token' \subseteq token \cup ws,
         asking' \in AskingState, asking'.state = "granted" => asking' = asking /\ asking.work \notin ws,
         loop' \in LoopState, loop'.at \in Works => loop' = loop
  PROVE  DaemonInv'
<1> USE DEF DaemonInv, DaemonTypeOK
<1>1. /\ busy' = busy \cup ws
      /\ watch' = [w \in Works |-> IF w \in ws THEN "running" ELSE watch[w]]
      /\ journal' = [w \in Works |-> IF w \in ws THEN "adopted" ELSE journal[w]]
  BY DEF Adopt
<1>2. Cardinality(busy \cup ws) <= Slots
  <2>1. /\ IsFiniteSet(busy) /\ IsFiniteSet(ws) /\ IsFiniteSet(busy \cap ws)
        /\ Cardinality(busy) \in Nat /\ Cardinality(ws) \in Nat /\ Cardinality(busy \cap ws) \in Nat
    BY SubsetFinite DEF SlotTypes
  <2>2. Cardinality(busy \cup ws) = Cardinality(busy) + Cardinality(ws) - Cardinality(busy \cap ws)
    BY <2>1, FS_Union
  <2> QED
    BY <2>1, <2>2, DaemonAssumption DEF FreeSlots
<1>3. chain' \in [Works -> {"none", "prepare", "execute", "finalize", "report", "over"}]
  BY DEF Adopt
<1>4. SlotTypes' /\ DiskTypes'
  BY <1>1, <1>2 DEF SlotTypes, DiskTypes, Active
<1>5. DaemonTypeOK'
  BY <1>3, <1>4
<1>6. SlotsAreWatched' /\ Watched' = Watched \cup ws
  BY <1>1 DEF SlotsAreWatched, Watched, Active
<1>7. AdoptedIsKnown'
  BY <1>1, <1>6 DEF AdoptedIsKnown, Runs
<1>8. KnownWasGranted' /\ StoppedHasNoToken'
  BY <1>1 DEF KnownWasGranted, StoppedHasNoToken
<1>9. AnswerIsFresh'
  BY <1>1 DEF AnswerIsFresh, AskingState
<1>10. RenewedIsActive'
  BY <1>1 DEF RenewedIsActive, Active
<1> QED
  BY <1>5, <1>6, <1>7, <1>8, <1>9, <1>10

LEMMA InboxInv ==
  ASSUME DaemonInv, Inbox
  PROVE  DaemonInv'
<1> PICK ws \in SUBSET (Works \ granted) :
      /\ Cardinality(ws) <= FreeSlots /\ Adopt(ws) /\ granted' = granted \cup ws
      /\ loop' = [at |-> "watch", left |-> Watched \cup ws]
  BY DEF Inbox
<1> USE DEF DaemonInv, DaemonTypeOK
<1>1. UNCHANGED <<phase, reports, recovery, daemonCrashes, token, asking>>
  BY DEF Inbox
<1>2. loop' \in LoopState /\ loop'.at \notin Works
  BY DaemonAssumption DEF LoopState, LoopParts, Watched
<1>3. \A w \in ws : watch[w] = "none"
  BY DEF KnownWasGranted
<1>4. asking.state = "granted" => asking.work \notin ws
  BY DEF AnswerIsFresh
<1>5. token' \in SUBSET Works /\ token' \subseteq token \cup ws /\ granted' \in SUBSET Works
  BY <1>1 DEF SlotTypes
<1> QED
  BY <1>1, <1>2, <1>3, <1>4, <1>5, AdoptInv

LEMMA ClaimAnsweredInv ==
  ASSUME DaemonInv, ClaimAnswered
  PROVE  DaemonInv'
<1> DEFINE w == asking.work
<1> USE DEF DaemonInv, DaemonTypeOK
<1>1. UNCHANGED <<phase, granted, reports, recovery, daemonCrashes>> /\ asking' = NotAsking
  BY DEF ClaimAnswered
<1>2. asking' \in AskingState /\ asking'.state # "granted"
  BY <1>1 DEF NotAsking, AskingState
<1>3. loop' \in LoopState /\ (loop'.at \in Works => loop' = loop)
  <2>1. CASE loop' = loop
    BY <2>1
  <2>2. CASE loop' = [loop EXCEPT !.at = "inbox"]
    BY <2>2, DaemonAssumption DEF LoopState, LoopParts
  <2> QED
    BY <2>1, <2>2 DEF ClaimAnswered
<1>4. CASE UNCHANGED <<watch, busy, chain, journal>> /\ token' \in SUBSET Works
           /\ \A v \in token' \ token : watch[v] = "none"
  <2>1. DaemonTypeOK'
    BY <1>1, <1>2, <1>3, <1>4 DEF SlotTypes, DiskTypes
  <2>2. SlotsAreWatched' /\ AdoptedIsKnown' /\ KnownWasGranted'
    BY <1>1, <1>4 DEF SlotsAreWatched, Watched, AdoptedIsKnown, Runs, KnownWasGranted
  <2>3. StoppedHasNoToken'
    BY <1>4 DEF StoppedHasNoToken
  <2>4. AnswerIsFresh' /\ RenewedIsActive'
    BY <1>2, <1>3, <1>4 DEF AnswerIsFresh, RenewedIsActive
  <2> QED
    BY <2>1, <2>2, <2>3, <2>4
<1>5. CASE asking.state = "granted" /\ token' = token \cup {w} /\ HasSlot /\ Adopt({w})
  <2>1. w \in granted /\ watch[w] = "none" /\ w \in Works
    BY <1>5 DEF AnswerIsFresh
  <2>2. Cardinality({w}) <= FreeSlots
    <3>1. Cardinality({w}) = 1
      BY FS_Singleton
    <3>2. Cardinality(busy) \in Nat
      BY SubsetFinite DEF SlotTypes
    <3> QED
      BY <1>5, <3>1, <3>2, DaemonAssumption DEF HasSlot, FreeSlots
  <2>3. {w} \in SUBSET Works /\ token' \in SUBSET Works /\ token' \subseteq token \cup {w}
    BY <1>5, <2>1 DEF SlotTypes
  <2> QED
    BY <1>1, <1>2, <1>3, <1>5, <2>1, <2>2, <2>3, AdoptInv
<1>6. CASE asking.state = "granted" /\ token' = token \cup {w} /\ UNCHANGED <<busy, watch, chain, journal>>
  BY <1>4, <1>6 DEF AnswerIsFresh, SlotTypes
<1>7. CASE UNCHANGED <<slotVars, chain, journal>>
  BY <1>4, <1>7 DEF slotVars, SlotTypes
<1> QED
  BY <1>5, <1>6, <1>7 DEF ClaimAnswered

LEMMA BesideInv ==
  ASSUME DaemonInv, Boot \/ Dies \/ WakeClaim \/ HubGrants
  PROVE  DaemonInv'
<1> USE DEF DaemonInv, DaemonTypeOK
<1>1. CASE Boot
  <2>1. /\ UNCHANGED <<granted, asking, busy, watch, token, chain, loop, reports, journal, daemonCrashes>>
        /\ phase' \in {"running", "fenced"} /\ recovery' \in SUBSET Works
        /\ phase' = "running" => recovery' = recovery \cup Orphans
    BY <1>1 DEF Boot, slotVars, Orphans, DiskTypes
  <2>2. DaemonTypeOK'
    BY <2>1 DEF SlotTypes, DiskTypes
  <2>3. AdoptedIsKnown'
    BY <2>1 DEF AdoptedIsKnown, Runs, Orphans, Watched
  <2> QED
    BY <2>1, <2>2, <2>3
       DEF SlotsAreWatched, Watched, KnownWasGranted, StoppedHasNoToken, AnswerIsFresh, RenewedIsActive
<1>2. CASE Dies
  <2>1. /\ phase' = "off" /\ asking' = NotAsking /\ busy' = {} /\ watch' = [w \in Works |-> "none"]
        /\ token' = {} /\ chain' = [w \in Works |-> IF chain[w] = "none" THEN "none" ELSE "over"]
        /\ loop' = AtTop /\ reports' = <<>> /\ UNCHANGED <<granted, journal, recovery>>
    BY <1>2 DEF Dies, workDisk
  <2>2. NotAsking \in AskingState /\ NotAsking.state # "granted" /\ AtTop \in LoopState /\ AtTop.at \notin Works
    BY DaemonAssumption DEF NotAsking, AskingState, AtTop, LoopState, LoopParts
  <2>3. daemonCrashes' \in 0..DaemonBound /\ Cardinality({}) = 0 /\ reports' \in Seq(Works)
    BY <1>2, <2>1, FS_EmptySet, DaemonAssumption DEF Dies
  <2>4. SlotTypes' /\ DiskTypes'
    BY <2>1, <2>3, DaemonAssumption DEF SlotTypes, DiskTypes
  <2>5. DaemonTypeOK'
    BY <2>1, <2>2, <2>3, <2>4
  <2> QED
    BY <2>1, <2>2, <2>5 DEF SlotsAreWatched, Watched, Active, AdoptedIsKnown, Runs, KnownWasGranted,
       StoppedHasNoToken, AnswerIsFresh, RenewedIsActive
<1>3. CASE WakeClaim
  <2>1. /\ UNCHANGED <<phase, granted, busy, watch, token, chain, loop, reports, journal, recovery, daemonCrashes>>
        /\ asking' = [state |-> "sent", work |-> NoWork, awaited |-> FALSE]
    BY <1>3 DEF WakeClaim, slotVars, workDisk
  <2>2. asking' \in AskingState /\ asking'.state # "granted"
    BY <2>1 DEF AskingState
  <2>3. DaemonTypeOK'
    BY <2>1, <2>2 DEF SlotTypes, DiskTypes
  <2> QED
    BY <2>1, <2>2, <2>3 DEF SlotsAreWatched, Watched, AdoptedIsKnown, Runs, KnownWasGranted,
       StoppedHasNoToken, AnswerIsFresh, RenewedIsActive
<1>4. CASE HubGrants
  <2> PICK w \in Works \ granted :
        granted' = granted \cup {w} /\ asking' = [asking EXCEPT !.state = "granted", !.work = w]
    BY <1>4 DEF HubGrants
  <2>1. UNCHANGED <<phase, busy, watch, token, chain, loop, reports, journal, recovery, daemonCrashes>>
    BY <1>4 DEF HubGrants, slotVars, workDisk
  <2>2. asking' \in AskingState /\ asking'.work = w
    BY DEF AskingState
  <2>3. DaemonTypeOK'
    BY <2>1, <2>2 DEF SlotTypes, DiskTypes
  <2>4. AnswerIsFresh' /\ KnownWasGranted'
    BY <2>1, <2>2 DEF AnswerIsFresh, KnownWasGranted
  <2> QED
    BY <2>1, <2>3, <2>4 DEF SlotsAreWatched, Watched, AdoptedIsKnown, Runs, StoppedHasNoToken, RenewedIsActive
<1> QED
  BY <1>1, <1>2, <1>3, <1>4

LEMMA DaemonInvStep == DaemonInv /\ [DaemonNext]_daemonVars => DaemonInv'
<1> SUFFICES ASSUME DaemonInv, [DaemonNext]_daemonVars PROVE DaemonInv'
  OBVIOUS
<1>1. ASSUME NEW w \in Works, ChainStep(w) PROVE DaemonInv'
  <2>1. /\ UNCHANGED <<phase, granted, asking, busy, watch, token, loop, reports, journal, recovery, daemonCrashes>>
        /\ chain' \in [Works -> {"none", "prepare", "execute", "finalize", "report", "over"}]
    BY <1>1 DEF ChainStep, NextLink, slotVars, workDisk, DaemonInv, DaemonTypeOK
  <2>2. DaemonTypeOK'
    BY <2>1 DEF DaemonInv, DaemonTypeOK, SlotTypes, DiskTypes
  <2> QED
    BY <2>1, <2>2 DEF DaemonInv, SlotsAreWatched, Watched, AdoptedIsKnown, Runs, KnownWasGranted,
       StoppedHasNoToken, AnswerIsFresh, RenewedIsActive
<1>2. CASE UNCHANGED daemonVars
  BY <1>2 DEF DaemonInv, DaemonTypeOK, SlotTypes, DiskTypes, SlotsAreWatched, Watched, AdoptedIsKnown, Runs,
     KnownWasGranted, StoppedHasNoToken, AnswerIsFresh, RenewedIsActive, daemonVars, slotVars, workDisk
<1> QED
  BY <1>1, <1>2, LoopInv, VisitInv, RenewAnsweredInv, InboxInv, ClaimAnsweredInv, BesideInv DEF DaemonNext

\* Only its own next step takes the executor to the hub, and that needs the token.
LEMMA StoppedBegins ==
  ASSUME DaemonInv, [DaemonNext]_daemonVars, NEW w \in Works,
         watch[w] \in {"stopped", "lease_lost"}, chain'[w] \in {"finalize", "report"}
  PROVE  chain'[w] = chain[w]
<1> SUFFICES ASSUME chain' # chain PROVE chain'[w] = chain[w]
  OBVIOUS
<1>1. ASSUME NEW ws \in SUBSET Works, Adopt(ws) PROVE chain'[w] = chain[w]
  BY <1>1 DEF Adopt
<1>2. ASSUME NEW v \in Works, ChainStep(v) PROVE chain'[w] = chain[w]
  BY <1>2 DEF ChainStep, DaemonInv, DaemonTypeOK, StoppedHasNoToken
<1>3. CASE Dies
  BY <1>3 DEF Dies
<1>4. CASE ClaimAnswered
  <2>1. CASE asking.state = "granted" /\ Adopt({asking.work})
    BY <1>1, <2>1 DEF DaemonInv, DaemonTypeOK, AnswerIsFresh
  <2> QED
    BY <1>4, <2>1 DEF ClaimAnswered
<1>5. CASE Inbox
  BY <1>1, <1>5 DEF Inbox
<1> QED
  BY <1>2, <1>3, <1>4, <1>5 DEF DaemonNext, Boot, Tick, ClaimTick, Visited, SendReports, Beat, DrainProgress,
     WakeClaim, HubGrants, Visit, RenewAnswered, daemonVars

\* The state of a daemon is always of its type; its slots are never over-committed.
THEOREM DaemonTypes == DaemonSpec => []DaemonTypeOK
<1>1. DaemonInv => DaemonTypeOK
  BY DEF DaemonInv
<1> QED
  BY <1>1, InitDaemonInv, DaemonInvStep, PTL DEF DaemonSpec

\* In whatever order claims, renewals and wake-ups are answered, and however often the
\* daemon dies: a slot is occupied exactly while its attempt is watched, no adopted attempt
\* is out of sight, and the executor of a stopped one begins nothing at the hub.
THEOREM Daemon_Safe == DaemonSpec => DaemonIsSafe
<1>1. DaemonInv => SlotsAreWatched /\ AdoptedIsKnown
  BY DEF DaemonInv
<1>2. DaemonInv /\ [DaemonNext]_daemonVars =>
        [\A w \in Works :
           watch[w] \in {"stopped", "lease_lost"} /\ chain'[w] \in {"finalize", "report"}
             => chain'[w] = chain[w]]_daemonVars
  BY StoppedBegins
<1> QED
  BY <1>1, <1>2, InitDaemonInv, DaemonInvStep, PTL DEF DaemonSpec, DaemonIsSafe, StoppedBeginsNothing

-----------------------------------------------------------------------------
(* The planning commands: what each command knows of its file, its list and  *)
(* its submission while nobody has crossed it.                               *)

Editing == {"read", "open", "edited", "ready", "posted"}

\* An edit remembers what its file said, and knows whether it has to put it back.
Remembers(c, f) ==
  c # NoCommand /\ c.does = "edit" =>
    /\ c.at = "known" => ~c.modified /\ c.original = NoText
    /\ c.at \in Editing \cup {"ok"} => c.original # NoText
    /\ c.at = "read" => ~c.modified
    /\ c.at = "open" => c.modified
    /\ c.at \in Editing /\ ~c.crossed /\ ~c.modified => f[c.name] = c.original
    /\ c.original # NoText => f[c.name] # NoText

\* A comparison has read what is there.
Lists(o, c, f, t, q) ==
  c # NoCommand /\ c.does = "revise" =>
    /\ c.at = "asked" => \A n \in TaskNames : c.seen[n] = Missing
    /\ c.at \in {"fetch", "ready", "posted"} /\ ~c.crossed => c.reading = f
    /\ c.at \in {"plan", "fetch", "ready", "posted"} /\ ~c.moved
         /\ (c.at = "posted" => q[o].answer = "none") =>
         \A n \in TaskNames : n \in c.left \/ c.seen[n] = t[n]
    /\ c.at \in {"ready", "posted"} => c.left = {}

\* A command that waits has sent the files as they are.
Sent(o, c, f, q) ==
  c # NoCommand /\ c.at = "posted" =>
    /\ q[o] # NoPost
    /\ c.does = "revise" /\ ~c.crossed => q[o].files = f
    /\ c.does = "edit" /\ ~c.crossed => q[o].files[c.name] = f[c.name]

\* No submission on its way has another text of a task whose edit was sent.
Reaches(o, c, f, t, q) ==
  c # NoCommand /\ c.does = "edit" /\ ~c.moved /\ c.seen[c.name].status = "pending" =>
    /\ c.at \notin Over => t[c.name].status = "pending"
    /\ c.at \in {"posted", "ok"} /\ ~c.crossed =>
         \A p \in Operators \ {o} :
           q[p] # NoPost /\ q[p].answer = "none" => q[p].files[c.name] = f[c.name]
    /\ c.at = "ok" => q[o] # NoPost /\ q[o].answer = "ok"
    /\ (c.at = "ok" \/ (c.at = "posted" /\ q[o].answer = "ok")) /\ ~c.crossed =>
         t[c.name].text = f[c.name]

Named(c) == c # NoCommand /\ c.does \in {"edit", "add"} => c.name \in TaskNames
Noted(o, c, k) ==
  c # NoCommand /\ c.does = "intake" =>
    c.at \in {"note", "ok", "failed"} /\ (c.at = "ok" => k[c.slot] = o)
MissingIsBlank(t) == \A n \in TaskNames : t[n].status = "missing" => t[n] = Missing

Sound(o, c, f, k, t, q) ==
  /\ Named(c) /\ Noted(o, c, k)
  /\ Remembers(c, f) /\ Lists(o, c, f, t, q)
  /\ Sent(o, c, f, q) /\ Reaches(o, c, f, t, q)

FilesInv ==
  /\ PlanFilesTypeOK
  /\ MissingIsBlank(hubTask)
  /\ \A o \in Operators : Sound(o, command[o], file, note, hubTask, post)

LEMMA InitIsFiled == PlanFilesInit => FilesInv
<1> SUFFICES ASSUME PlanFilesInit PROVE FilesInv
  OBVIOUS
<1> USE PlanFilesAssumption
<1>1. file \in Directory
  BY DEF PlanFilesInit
<1>2. \A n \in TaskNames : hubTask[n] = Missing \/ (file[n] \in Texts /\ hubTask[n] = [status |-> "pending", text |-> file[n], repair |-> FALSE])
  BY <1>1 DEF PlanFilesInit, Directory
<1>3. hubTask \in [TaskNames -> HubTask]
  BY <1>1, <1>2 DEF PlanFilesInit, HubTask, HubStatus, Missing, Directory
<1>4. PlanFilesTypeOK
  BY <1>1, <1>3 DEF PlanFilesInit, PlanFilesTypeOK
<1>5. MissingIsBlank(hubTask)
  <2> SUFFICES ASSUME NEW n \in TaskNames, hubTask[n].status = "missing" PROVE hubTask[n] = Missing
    BY DEF MissingIsBlank
  <2>1. hubTask[n] # [status |-> "pending", text |-> file[n], repair |-> FALSE]
    OBVIOUS
  <2> QED
    BY <1>2, <2>1
<1>6. \A o \in Operators : Sound(o, command[o], file, note, hubTask, post)
  BY DEF PlanFilesInit, Sound, Named, Noted, Remembers, Lists, Sent, Reaches
<1> QED
  BY <1>4, <1>5, <1>6 DEF FilesInv

\* A step of one command that writes no file and asks nothing of the hub.
Quiet(o, c) ==
  /\ command' = [command EXCEPT ![o] = c]
  /\ UNCHANGED <<file, hubTask, post>>

LEMMA QuietKeeps ==
  ASSUME FilesInv, NEW o \in Operators, NEW c \in Command \cup {NoCommand}, Quiet(o, c),
         note' = note, Sound(o, c, file, note, hubTask, post), started' \in Nat, changes' \in Nat
  PROVE  FilesInv'
<1>1. command' \in [Operators -> Command \cup {NoCommand}] /\ command'[o] = c
  BY DEF FilesInv, PlanFilesTypeOK, Quiet
<1>2. PlanFilesTypeOK'
  BY <1>1 DEF FilesInv, PlanFilesTypeOK, Quiet
<1>3. \A p \in Operators : command'[p] = IF p = o THEN c ELSE command[p]
  BY DEF FilesInv, PlanFilesTypeOK, Quiet
<1>4. file' = file /\ hubTask' = hubTask /\ post' = post
  BY DEF Quiet
<1>5. \A p \in Operators : Sound(p, command'[p], file', note', hubTask', post')
  BY <1>3, <1>4 DEF FilesInv
<1> QED
  BY <1>2, <1>4, <1>5 DEF FilesInv, MissingIsBlank

\* A command after another wrote `text' to the file of task n.
Crossed(c, n, text, f) ==
  IF Affected(c, n) /\ text # f[n] THEN [c EXCEPT !.crossed = TRUE] ELSE c

LEMMA WrittenByAnother ==
  ASSUME NEW p \in Operators, NEW c \in Command \cup {NoCommand}, NEW n \in TaskNames,
         NEW text \in Texts, NEW f \in Directory, NEW k, NEW t, NEW q,
         Sound(p, c, f, k, t, q)
  PROVE  /\ Crossed(c, n, text, f) \in Command \cup {NoCommand}
         /\ Sound(p, Crossed(c, n, text, f), [f EXCEPT ![n] = text], k, t, q)
<1> DEFINE g == [f EXCEPT ![n] = text]
<1>d. PICK d : d = Crossed(c, n, text, f)
  OBVIOUS
<1> SUFFICES d \in Command \cup {NoCommand} /\ Sound(p, d, g, k, t, q)
  BY <1>d
<1> HIDE DEF g
<1>g. g = [f EXCEPT ![n] = text]
  BY DEF g
<1> USE PlanFilesAssumption
<1>1. CASE text = f[n]
  <2>1. g = f
    BY <1>1, <1>g DEF Directory
  <2> QED
    BY <1>1, <2>1, <1>d DEF Crossed
<1>2. CASE ~Affected(c, n) /\ text # f[n]
  <2>1. d = c
    BY <1>2, <1>d DEF Crossed
  <2>2. CASE c = NoCommand
    BY <2>1, <2>2 DEF Sound, Named, Noted, Remembers, Lists, Sent, Reaches
  <2>3. CASE c # NoCommand
    <3>1. c.name # n /\ c.does # "revise" /\ c \in Command
      BY <1>2, <2>3 DEF Affected
    <3>2. g[c.name] = f[c.name]
      BY <3>1, <1>g DEF Directory
    <3> QED
      BY <2>1, <2>3, <3>1, <3>2 DEF Sound, Named, Noted, Remembers, Lists, Sent, Reaches
  <2> QED
    BY <2>2, <2>3
<1>3. CASE Affected(c, n) /\ text # f[n]
  <2>1. c \in Command /\ c # NoCommand
    BY <1>3 DEF Affected
  <2>2. d = [c EXCEPT !.crossed = TRUE]
    BY <1>3, <1>d DEF Crossed
  <2>3. d \in Command
    BY <2>1, <2>2 DEF Command
  <2>4. /\ d.does = c.does /\ d.at = c.at /\ d.name = c.name /\ d.original = c.original
        /\ d.modified = c.modified /\ d.reading = c.reading /\ d.seen = c.seen /\ d.left = c.left
        /\ d.slot = c.slot /\ d.crossed = TRUE /\ d.moved = c.moved
    BY <2>1, <2>2 DEF Command
  <2>5. d # NoCommand
    BY <2>3
  <2>6. Named(d) /\ Noted(p, d, k) /\ Sent(p, d, g, q)
    BY <2>1, <2>4, <2>5 DEF Sound, Named, Noted, Sent
  <2>7. Remembers(d, g)
    <3>1. ASSUME d.does = "edit" PROVE d.original # NoText => g[d.name] # NoText
      <4>1. d.name \in TaskNames
        BY <2>1, <2>4, <3>1 DEF Sound, Named
      <4> QED
        BY <2>1, <2>4, <3>1, <4>1, <1>g DEF Sound, Remembers, Directory
    <3> QED
      BY <2>1, <2>4, <2>5, <3>1 DEF Sound, Remembers
  <2>8. Lists(p, d, g, t, q)
    BY <2>1, <2>4, <2>5 DEF Sound, Lists
  <2>9. Reaches(p, d, g, t, q)
    BY <2>1, <2>4, <2>5 DEF Sound, Reaches
  <2> QED
    BY <2>3, <2>6, <2>7, <2>8, <2>9 DEF Sound
<1> QED
  BY <1>1, <1>2, <1>3

LEMMA PutKeeps ==
  ASSUME FilesInv, NEW o \in Operators, NEW n \in TaskNames, NEW text \in Texts,
         NEW c \in Command, Puts(o, n, text, c), UNCHANGED <<note, hubTask, post>>,
         Sound(o, c, [file EXCEPT ![n] = text], note, hubTask, post),
         started' \in Nat, changes' \in Nat
  PROVE  FilesInv'
<1> USE PlanFilesAssumption
<1>1. file' = [file EXCEPT ![n] = text] /\ file' \in Directory /\ file \in Directory
  BY DEF FilesInv, PlanFilesTypeOK, Puts, Directory
<1>2. \A p \in Operators : command[p] \in Command \cup {NoCommand}
  BY DEF FilesInv, PlanFilesTypeOK
<1>3. \A p \in Operators :
        command'[p] \in Command \cup {NoCommand} /\ Sound(p, command'[p], file', note, hubTask, post)
  <2> SUFFICES ASSUME NEW p \in Operators
               PROVE  command'[p] \in Command \cup {NoCommand} /\ Sound(p, command'[p], file', note, hubTask, post)
    OBVIOUS
  <2>1. CASE p = o
    BY <1>1, <2>1 DEF Puts
  <2>2. CASE p # o
    <3>1. command'[p] = Crossed(command[p], n, text, file)
      BY <2>2 DEF Puts, Crossed
    <3>2. Sound(p, command[p], file, note, hubTask, post)
      BY DEF FilesInv
    <3>3. command[p] \in Command \cup {NoCommand}
      BY <1>2
    <3>4. /\ Crossed(command[p], n, text, file) \in Command \cup {NoCommand}
          /\ Sound(p, Crossed(command[p], n, text, file), [file EXCEPT ![n] = text], note, hubTask, post)
      BY <1>1, <3>2, <3>3, WrittenByAnother
    <3> QED
      BY <1>1, <3>1, <3>4
  <2> QED
    BY <2>1, <2>2
<1>4. command' \in [Operators -> Command \cup {NoCommand}]
  BY <1>3 DEF Puts
<1>5. PlanFilesTypeOK'
  BY <1>1, <1>4 DEF FilesInv, PlanFilesTypeOK
<1> QED
  BY <1>3, <1>5 DEF FilesInv, MissingIsBlank

LEMMA ReadFileKeeps ==
  ASSUME FilesInv, NEW o \in Operators, ReadFile(o)
  PROVE  FilesInv'
<1> USE PlanFilesAssumption
<1>1. command[o] \in Command /\ command[o] # NoCommand /\ command[o].does = "edit" /\ command[o].at = "known"
      /\ command[o].name \in TaskNames
  BY DEF ReadFile, Stands, Does, FilesInv, PlanFilesTypeOK, Sound, Named
<1>2. PICK text : text = file[command[o].name]
  OBVIOUS
<1>3. text \in Texts \cup {NoText}
  BY <1>1, <1>2 DEF FilesInv, PlanFilesTypeOK, Directory
<1>4. PICK step : step = IF text = NoText THEN "failed" ELSE "read"
  OBVIOUS
<1>5. PICK c : c = [command[o] EXCEPT !.at = step, !.original = text, !.crossed = FALSE]
  OBVIOUS
<1>6. c \in Command
  BY <1>1, <1>3, <1>4, <1>5 DEF Command, Steps
<1>7. /\ c.does = "edit" /\ c.at = step /\ c.name = command[o].name
      /\ c.original = text /\ c.modified = command[o].modified /\ c.seen = command[o].seen
      /\ c.crossed = FALSE /\ c.moved = command[o].moved
  BY <1>1, <1>5 DEF Command
<1>8. Sound(o, command[o], file, note, hubTask, post)
  BY DEF FilesInv
<1>9. Remembers(c, file)
  <2>1. command[o].modified = FALSE
    BY <1>1, <1>8 DEF Sound, Remembers, Command
  <2> QED
    BY <1>1, <1>2, <1>4, <1>7, <2>1 DEF Remembers, Editing
<1>10. Reaches(o, c, file, hubTask, post)
  BY <1>1, <1>4, <1>7, <1>8 DEF Sound, Reaches, Over
<1>11. Sound(o, c, file, note, hubTask, post)
  BY <1>1, <1>4, <1>7, <1>9, <1>10 DEF Sound, Named, Noted, Lists, Sent
<1>12. Quiet(o, c)
  BY <1>2, <1>4, <1>5 DEF ReadFile, Quiet
<1>13. note' = note /\ started' \in Nat /\ changes' \in Nat
  BY DEF ReadFile, FilesInv, PlanFilesTypeOK
<1> QED
  BY <1>6, <1>11, <1>12, <1>13, QuietKeeps

LEMMA OpenEditorKeeps ==
  ASSUME FilesInv, NEW o \in Operators, OpenEditor(o)
  PROVE  FilesInv'
<1> USE PlanFilesAssumption
<1>1. command[o] \in Command /\ command[o] # NoCommand /\ command[o].does = "edit" /\ command[o].at = "read"
  BY DEF OpenEditor, Stands, Does, FilesInv, PlanFilesTypeOK
<1>2. PICK c : c = [command[o] EXCEPT !.at = "open", !.modified = TRUE]
  OBVIOUS
<1>3. c \in Command
  BY <1>1, <1>2 DEF Command, FilesInv, PlanFilesTypeOK, Steps
<1>4. /\ c.does = command[o].does /\ c.at = "open" /\ c.name = command[o].name
        /\ c.original = command[o].original /\ c.modified = TRUE /\ c.reading = command[o].reading
        /\ c.seen = command[o].seen /\ c.left = command[o].left /\ c.slot = command[o].slot
        /\ c.crossed = command[o].crossed /\ c.moved = command[o].moved
  BY <1>1, <1>2 DEF Command
<1>5. Sound(o, command[o], file, note, hubTask, post)
  BY DEF FilesInv
<1>6. Sound(o, c, file, note, hubTask, post)
  BY <1>1, <1>3, <1>4, <1>5 DEF Sound, Named, Noted, Remembers, Lists, Sent, Reaches, Over, Editing
<1>7. Quiet(o, c)
  BY <1>2 DEF OpenEditor, Quiet, Armed
<1>8. note' = note /\ started' \in Nat /\ changes' \in Nat
  BY DEF OpenEditor, FilesInv, PlanFilesTypeOK
<1> QED
  BY <1>3, <1>6, <1>7, <1>8, QuietKeeps

LEMMA CloseEditorKeeps ==
  ASSUME FilesInv, NEW o \in Operators, CloseEditor(o)
  PROVE  FilesInv'
<1> USE PlanFilesAssumption
<1>1. command[o] \in Command /\ command[o] # NoCommand /\ command[o].does = "edit" /\ command[o].at = "open"
  BY DEF CloseEditor, Stands, Does, FilesInv, PlanFilesTypeOK
<1>2. PICK c : c = [command[o] EXCEPT !.at = "edited",
                                  !.modified = file[command[o].name] # command[o].original]
  OBVIOUS
<1>3. c \in Command
  BY <1>1, <1>2 DEF Command, FilesInv, PlanFilesTypeOK, Steps
<1>4. /\ c.does = command[o].does /\ c.at = "edited" /\ c.name = command[o].name
        /\ c.original = command[o].original /\ c.modified = (file[command[o].name] # command[o].original) /\ c.reading = command[o].reading
        /\ c.seen = command[o].seen /\ c.left = command[o].left /\ c.slot = command[o].slot
        /\ c.crossed = command[o].crossed /\ c.moved = command[o].moved
  BY <1>1, <1>2 DEF Command
<1>5. Sound(o, command[o], file, note, hubTask, post)
  BY DEF FilesInv
<1>6. Sound(o, c, file, note, hubTask, post)
  BY <1>1, <1>3, <1>4, <1>5 DEF Sound, Named, Noted, Remembers, Lists, Sent, Reaches, Over, Editing
<1>7. Quiet(o, c)
  BY <1>2 DEF CloseEditor, Quiet, Turns
<1>8. note' = note /\ started' \in Nat /\ changes' \in Nat
  BY DEF CloseEditor, FilesInv, PlanFilesTypeOK
<1> QED
  BY <1>3, <1>6, <1>7, <1>8, QuietKeeps

LEMMA ReadPlanKeeps ==
  ASSUME FilesInv, NEW o \in Operators, ReadPlan(o)
  PROVE  FilesInv'
<1> USE PlanFilesAssumption
<1>1. command[o] \in Command /\ command[o] # NoCommand /\ command[o].does = "add" /\ command[o].at = "plan"
  BY DEF ReadPlan, Stands, Does, FilesInv, PlanFilesTypeOK
<1>2. PICK c : c = [command[o] EXCEPT !.at = IF ~Valid(file) \/ file[command[o].name] # NoText
                                           THEN "failed" ELSE "free", !.reading = file]
  OBVIOUS
<1>3. c \in Command
  BY <1>1, <1>2 DEF Command, FilesInv, PlanFilesTypeOK, Steps
<1>4. /\ c.does = command[o].does /\ c.at = (IF ~Valid(file) \/ file[command[o].name] # NoText THEN "failed" ELSE "free") /\ c.name = command[o].name
        /\ c.original = command[o].original /\ c.modified = command[o].modified /\ c.reading = file
        /\ c.seen = command[o].seen /\ c.left = command[o].left /\ c.slot = command[o].slot
        /\ c.crossed = command[o].crossed /\ c.moved = command[o].moved
  BY <1>1, <1>2 DEF Command
<1>5. Sound(o, command[o], file, note, hubTask, post)
  BY DEF FilesInv
<1>6. Sound(o, c, file, note, hubTask, post)
  BY <1>1, <1>3, <1>4, <1>5 DEF Sound, Named, Noted, Remembers, Lists, Sent, Reaches, Over, Editing
<1>7. Quiet(o, c)
  BY <1>2 DEF ReadPlan, Quiet, Turns
<1>8. note' = note /\ started' \in Nat /\ changes' \in Nat
  BY DEF ReadPlan, FilesInv, PlanFilesTypeOK
<1> QED
  BY <1>3, <1>6, <1>7, <1>8, QuietKeeps

LEMMA AskUnknownKeeps ==
  ASSUME FilesInv, NEW o \in Operators, AskUnknown(o)
  PROVE  FilesInv'
<1> USE PlanFilesAssumption
<1>1. command[o] \in Command /\ command[o] # NoCommand /\ command[o].does = "add" /\ command[o].at = "free"
  BY DEF AskUnknown, Stands, Does, FilesInv, PlanFilesTypeOK
<1>2. PICK c : c = [command[o] EXCEPT !.at = IF hubTask[command[o].name].status = "missing"
                                           THEN "edited" ELSE "failed"]
  OBVIOUS
<1>3. c \in Command
  BY <1>1, <1>2 DEF Command, FilesInv, PlanFilesTypeOK, Steps
<1>4. /\ c.does = command[o].does /\ c.at = (IF hubTask[command[o].name].status = "missing" THEN "edited" ELSE "failed") /\ c.name = command[o].name
        /\ c.original = command[o].original /\ c.modified = command[o].modified /\ c.reading = command[o].reading
        /\ c.seen = command[o].seen /\ c.left = command[o].left /\ c.slot = command[o].slot
        /\ c.crossed = command[o].crossed /\ c.moved = command[o].moved
  BY <1>1, <1>2 DEF Command
<1>5. Sound(o, command[o], file, note, hubTask, post)
  BY DEF FilesInv
<1>6. Sound(o, c, file, note, hubTask, post)
  BY <1>1, <1>3, <1>4, <1>5 DEF Sound, Named, Noted, Remembers, Lists, Sent, Reaches, Over, Editing
<1>7. Quiet(o, c)
  BY <1>2 DEF AskUnknown, Quiet, Turns
<1>8. note' = note /\ started' \in Nat /\ changes' \in Nat
  BY DEF AskUnknown, FilesInv, PlanFilesTypeOK
<1> QED
  BY <1>3, <1>6, <1>7, <1>8, QuietKeeps

LEMMA ListTasksKeeps ==
  ASSUME FilesInv, NEW o \in Operators, ListTasks(o)
  PROVE  FilesInv'
<1> USE PlanFilesAssumption
<1>1. command[o] \in Command /\ command[o] # NoCommand /\ command[o].does = "revise" /\ command[o].at = "asked"
      /\ MissingIsBlank(hubTask)
  BY DEF ListTasks, Stands, Does, FilesInv, PlanFilesTypeOK
<1>2. PICK c : c = [command[o] EXCEPT !.at = "plan", !.crossed = FALSE, !.moved = FALSE,
                                  !.left = {n \in TaskNames : hubTask[n].status # "missing"}]
  OBVIOUS
<1>3. c \in Command
  BY <1>1, <1>2 DEF Command, FilesInv, PlanFilesTypeOK, Steps
<1>4. /\ c.does = command[o].does /\ c.at = "plan" /\ c.name = command[o].name
        /\ c.original = command[o].original /\ c.modified = command[o].modified /\ c.reading = command[o].reading
        /\ c.seen = command[o].seen /\ c.left = {n \in TaskNames : hubTask[n].status # "missing"} /\ c.slot = command[o].slot
        /\ c.crossed = FALSE /\ c.moved = FALSE
  BY <1>1, <1>2 DEF Command
<1>5. Sound(o, command[o], file, note, hubTask, post)
  BY DEF FilesInv
<1>6. Sound(o, c, file, note, hubTask, post)
  BY <1>1, <1>3, <1>4, <1>5 DEF Sound, Named, Noted, Remembers, Lists, Sent, Reaches, Over, Editing, MissingIsBlank
<1>7. Quiet(o, c)
  BY <1>2 DEF ListTasks, Quiet, Turns
<1>8. note' = note /\ started' \in Nat /\ changes' \in Nat
  BY DEF ListTasks, FilesInv, PlanFilesTypeOK
<1> QED
  BY <1>3, <1>6, <1>7, <1>8, QuietKeeps

LEMMA ReadFilesKeeps ==
  ASSUME FilesInv, NEW o \in Operators, ReadFiles(o)
  PROVE  FilesInv'
<1> USE PlanFilesAssumption
<1>1. command[o] \in Command /\ command[o] # NoCommand /\ command[o].does = "revise" /\ command[o].at = "plan"
  BY DEF ReadFiles, Stands, Does, FilesInv, PlanFilesTypeOK
<1>2. PICK c : c = [command[o] EXCEPT !.at = IF Valid(file) THEN "fetch" ELSE "failed", !.reading = file]
  OBVIOUS
<1>3. c \in Command
  BY <1>1, <1>2 DEF Command, FilesInv, PlanFilesTypeOK, Steps
<1>4. /\ c.does = command[o].does /\ c.at = (IF Valid(file) THEN "fetch" ELSE "failed") /\ c.name = command[o].name
        /\ c.original = command[o].original /\ c.modified = command[o].modified /\ c.reading = file
        /\ c.seen = command[o].seen /\ c.left = command[o].left /\ c.slot = command[o].slot
        /\ c.crossed = command[o].crossed /\ c.moved = command[o].moved
  BY <1>1, <1>2 DEF Command
<1>5. Sound(o, command[o], file, note, hubTask, post)
  BY DEF FilesInv
<1>6. Sound(o, c, file, note, hubTask, post)
  BY <1>1, <1>3, <1>4, <1>5 DEF Sound, Named, Noted, Remembers, Lists, Sent, Reaches, Over, Editing
<1>7. Quiet(o, c)
  BY <1>2 DEF ReadFiles, Quiet, Turns
<1>8. note' = note /\ started' \in Nat /\ changes' \in Nat
  BY DEF ReadFiles, FilesInv, PlanFilesTypeOK
<1> QED
  BY <1>3, <1>6, <1>7, <1>8, QuietKeeps

LEMMA FetchTaskKeeps ==
  ASSUME FilesInv, NEW o \in Operators, NEW n \in TaskNames, FetchTask(o, n)
  PROVE  FilesInv'
<1> USE PlanFilesAssumption
<1>1. command[o] \in Command /\ command[o] # NoCommand /\ command[o].does = "revise" /\ command[o].at = "fetch"
      /\ n \in command[o].left /\ command[o].seen \in [TaskNames -> HubTask]
  BY DEF FetchTask, Stands, Does, FilesInv, PlanFilesTypeOK, Command
<1>2. PICK c : c = [command[o] EXCEPT !.seen[n] = hubTask[n], !.left = @ \ {n}]
  OBVIOUS
<1>3. c \in Command
  BY <1>1, <1>2 DEF Command, FilesInv, PlanFilesTypeOK, Steps
<1>4. /\ c.does = command[o].does /\ c.at = command[o].at /\ c.name = command[o].name
        /\ c.original = command[o].original /\ c.modified = command[o].modified /\ c.reading = command[o].reading
        /\ c.seen = [command[o].seen EXCEPT ![n] = hubTask[n]] /\ c.left = command[o].left \ {n} /\ c.slot = command[o].slot
        /\ c.crossed = command[o].crossed /\ c.moved = command[o].moved
  BY <1>1, <1>2 DEF Command
<1>5. Sound(o, command[o], file, note, hubTask, post)
  BY DEF FilesInv
<1>6. Sound(o, c, file, note, hubTask, post)
  BY <1>1, <1>3, <1>4, <1>5 DEF Sound, Named, Noted, Remembers, Lists, Sent, Reaches, Over, Editing
<1>7. Quiet(o, c)
  BY <1>2 DEF FetchTask, Quiet, Turns
<1>8. note' = note /\ started' \in Nat /\ changes' \in Nat
  BY DEF FetchTask, FilesInv, PlanFilesTypeOK
<1> QED
  BY <1>3, <1>6, <1>7, <1>8, QuietKeeps

LEMMA ShowListKeeps ==
  ASSUME FilesInv, NEW o \in Operators, NEW submits \in BOOLEAN, ShowList(o, submits)
  PROVE  FilesInv'
<1> USE PlanFilesAssumption
<1>1. command[o] \in Command /\ command[o] # NoCommand /\ command[o].does = "revise" /\ command[o].at = "fetch" /\ command[o].left = {}
  BY DEF ShowList, Stands, Does, FilesInv, PlanFilesTypeOK
<1>2. PICK c : c = [command[o] EXCEPT !.at = IF submits THEN "ready" ELSE "ok"]
  OBVIOUS
<1>3. c \in Command
  BY <1>1, <1>2 DEF Command, FilesInv, PlanFilesTypeOK, Steps
<1>4. /\ c.does = command[o].does /\ c.at = (IF submits THEN "ready" ELSE "ok") /\ c.name = command[o].name
        /\ c.original = command[o].original /\ c.modified = command[o].modified /\ c.reading = command[o].reading
        /\ c.seen = command[o].seen /\ c.left = command[o].left /\ c.slot = command[o].slot
        /\ c.crossed = command[o].crossed /\ c.moved = command[o].moved
  BY <1>1, <1>2 DEF Command
<1>5. Sound(o, command[o], file, note, hubTask, post)
  BY DEF FilesInv
<1>6. Sound(o, c, file, note, hubTask, post)
  BY <1>1, <1>3, <1>4, <1>5 DEF Sound, Named, Noted, Remembers, Lists, Sent, Reaches, Over, Editing
<1>7. Quiet(o, c)
  BY <1>2 DEF ShowList, Quiet, Turns
<1>8. note' = note /\ started' \in Nat /\ changes' \in Nat
  BY DEF ShowList, FilesInv, PlanFilesTypeOK
<1> QED
  BY <1>3, <1>6, <1>7, <1>8, QuietKeeps

LEMMA StartKeeps ==
  ASSUME FilesInv, NEW o \in Operators, NEW c \in Command, Starts(o, c),
         UNCHANGED <<file, note, hubTask, post, changes>>, Named(c),
         c.original = NoText /\ c.modified = FALSE /\ c.moved = FALSE,
         \/ c.does = "edit" /\ c.at \in {"known", "failed"} /\ c.seen[c.name] = hubTask[c.name]
         \/ c.does = "add" /\ c.at = "plan"
         \/ c.does = "intake" /\ c.at = "note"
         \/ c.does = "revise" /\ c.at = "asked" /\ c.seen = [m \in TaskNames |-> Missing]
         \/ c.does = "submit" /\ c.at \in {"ready", "failed"}
  PROVE  FilesInv'
<1>1. Remembers(c, file) /\ Noted(o, c, note)
  BY DEF Remembers, Noted, Editing
<1>2. Lists(o, c, file, hubTask, post)
  BY DEF Lists
<1>3. Sent(o, c, file, post)
  BY DEF Sent
<1>4. Reaches(o, c, file, hubTask, post)
  BY DEF Reaches, Over
<1>5. Quiet(o, c)
  BY DEF Starts, Quiet
<1>6. note' = note /\ started' \in Nat /\ changes' \in Nat
  BY DEF Starts, FilesInv, PlanFilesTypeOK
<1> QED
  BY <1>1, <1>2, <1>3, <1>4, <1>5, <1>6, QuietKeeps DEF Sound

LEMMA FreshIsACommand ==
  \A doing \in {"edit", "add", "intake", "revise", "submit"}, n \in TaskNames \cup {NoName}, step \in Steps :
    \A c : c = Fresh(doing, n, step) =>
      /\ c \in Command /\ c.does = doing /\ c.at = step /\ c.name = n /\ c.original = NoText
      /\ c.modified = FALSE /\ c.moved = FALSE /\ c.seen = [m \in TaskNames |-> Missing]
<1> SUFFICES ASSUME NEW doing \in {"edit", "add", "intake", "revise", "submit"},
                    NEW n \in TaskNames \cup {NoName}, NEW step \in Steps,
                    NEW c, c = Fresh(doing, n, step)
             PROVE  /\ c \in Command /\ c.does = doing /\ c.at = step /\ c.name = n /\ c.original = NoText
                    /\ c.modified = FALSE /\ c.moved = FALSE /\ c.seen = [m \in TaskNames |-> Missing]
  OBVIOUS
<1>1. [m \in TaskNames |-> NoText] \in Directory
  BY DEF Directory
<1>2. [m \in TaskNames |-> Missing] \in [TaskNames -> HubTask]
  BY DEF Missing, HubTask, HubStatus
<1>3. 1 \in 1 .. NoteBound
  BY PlanFilesAssumption
<1>4. c \in Command
  BY <1>1, <1>2, <1>3 DEF Fresh, Command
<1> QED
  BY <1>4 DEF Fresh

LEMMA AskTaskKeeps ==
  ASSUME FilesInv, NEW o \in Operators, NEW n \in TaskNames, NEW force \in BOOLEAN,
         AskTask(o, n, force)
  PROVE  FilesInv'
<1>1. PICK step : step = IF hubTask[n].status = "missing" \/ (hubTask[n].status \in Protected /\ ~force)
                         THEN "failed" ELSE "known"
  OBVIOUS
<1>2. step \in Steps
  BY <1>1 DEF Steps
<1>3. PICK b : b = Fresh("edit", n, step)
  OBVIOUS
<1>4. /\ b \in Command /\ b.does = "edit" /\ b.at = step /\ b.name = n /\ b.original = NoText
      /\ b.modified = FALSE /\ b.moved = FALSE
  BY <1>2, <1>3, FreshIsACommand
<1>5. PICK c : c = [b EXCEPT !.seen[n] = hubTask[n]]
  OBVIOUS
<1>6. hubTask[n] \in HubTask
  BY DEF FilesInv, PlanFilesTypeOK
<1>7. c \in Command
  BY <1>4, <1>5, <1>6 DEF Command
<1>8. /\ c.does = "edit" /\ c.at = step /\ c.name = n /\ c.original = NoText
      /\ c.modified = FALSE /\ c.moved = FALSE /\ c.seen[c.name] = hubTask[c.name]
  BY <1>4, <1>5 DEF Command
<1>9. Starts(o, c) /\ UNCHANGED <<file, note, hubTask, post, changes>>
  BY <1>1, <1>3, <1>5 DEF AskTask
<1> QED
  BY <1>1, <1>7, <1>8, <1>9, StartKeeps DEF Named

LEMMA OthersStart ==
  ASSUME FilesInv, NEW o \in Operators,
         (\E n \in TaskNames : AskPlan(o, n)) \/ Intake(o) \/ Revise(o) \/ Submit(o)
  PROVE  FilesInv'
<1>1. ASSUME NEW n \in TaskNames, AskPlan(o, n) PROVE FilesInv'
  <2>1. PICK c : c = Fresh("add", n, "plan")
    OBVIOUS
  <2>2. /\ c \in Command /\ c.does = "add" /\ c.at = "plan" /\ c.name = n /\ c.original = NoText
        /\ c.modified = FALSE /\ c.moved = FALSE
    BY <2>1, FreshIsACommand DEF Steps
  <2>3. Starts(o, c) /\ UNCHANGED <<file, note, hubTask, post, changes>>
    BY <1>1, <2>1 DEF AskPlan
  <2> QED
    BY <2>2, <2>3, StartKeeps DEF Named
<1>2. CASE Intake(o)
  <2>1. PICK c : c = Fresh("intake", NoName, "note")
    OBVIOUS
  <2>2. /\ c \in Command /\ c.does = "intake" /\ c.at = "note" /\ c.original = NoText
        /\ c.modified = FALSE /\ c.moved = FALSE
    BY <2>1, FreshIsACommand DEF Steps
  <2>3. Starts(o, c) /\ UNCHANGED <<file, note, hubTask, post, changes>>
    BY <1>2, <2>1 DEF Intake
  <2> QED
    BY <2>2, <2>3, StartKeeps DEF Named
<1>3. CASE Revise(o)
  <2>1. PICK c : c = Fresh("revise", NoName, "asked")
    OBVIOUS
  <2>2. /\ c \in Command /\ c.does = "revise" /\ c.at = "asked" /\ c.original = NoText
        /\ c.modified = FALSE /\ c.moved = FALSE /\ c.seen = [m \in TaskNames |-> Missing]
    BY <2>1, FreshIsACommand DEF Steps
  <2>3. Starts(o, c) /\ UNCHANGED <<file, note, hubTask, post, changes>>
    BY <1>3, <2>1 DEF Revise
  <2> QED
    BY <2>2, <2>3, StartKeeps DEF Named
<1>4. CASE Submit(o)
  <2>1. PICK step : step = IF Valid(file) THEN "ready" ELSE "failed"
    OBVIOUS
  <2>2. PICK c : c = Fresh("submit", NoName, step)
    OBVIOUS
  <2>3. /\ c \in Command /\ c.does = "submit" /\ c.at = step /\ c.original = NoText
        /\ c.modified = FALSE /\ c.moved = FALSE
    BY <2>1, <2>2, FreshIsACommand DEF Steps
  <2>4. Starts(o, c) /\ UNCHANGED <<file, note, hubTask, post, changes>>
    BY <1>4, <2>1, <2>2 DEF Submit
  <2> QED
    BY <2>1, <2>3, <2>4, StartKeeps DEF Named
<1> QED
  BY <1>1, <1>2, <1>3, <1>4

LEMMA KillKeeps ==
  ASSUME FilesInv, NEW o \in Operators, Kill(o)
  PROVE  FilesInv'
<1>1. Sound(o, NoCommand, file, note, hubTask, post)
  BY DEF Sound, Named, Noted, Remembers, Lists, Sent, Reaches
<1>2. Quiet(o, NoCommand) /\ note' = note /\ started' \in Nat /\ changes' \in Nat
  BY DEF Kill, Quiet, FilesInv, PlanFilesTypeOK
<1> QED
  BY <1>1, <1>2, QuietKeeps

\* A step by which a command only moves on, to an end or to its submission.
LEMMA TurnKeeps ==
  ASSUME FilesInv, NEW o \in Operators, NEW step \in {"failed", "ready", "ok"}, Turns(o, step),
         UNCHANGED <<file, note, hubTask, post>>, started' \in Nat, changes' \in Nat,
         command[o] # NoCommand, command[o].at \notin Over,
         step = "ready" => command[o].does = "edit" /\ command[o].at = "edited",
         step = "ok" => command[o].at = "posted" /\ post[o].answer = "ok"
  PROVE  FilesInv'
<1> USE PlanFilesAssumption
<1>1. command[o] \in Command /\ command[o] # NoCommand
  BY DEF FilesInv, PlanFilesTypeOK
<1>2. PICK c : c = [command[o] EXCEPT !.at = step]
  OBVIOUS
<1>3. c \in Command
  BY <1>1, <1>2 DEF Command, Steps
<1>4. /\ c.does = command[o].does /\ c.at = step /\ c.name = command[o].name
      /\ c.original = command[o].original /\ c.modified = command[o].modified
      /\ c.seen = command[o].seen /\ c.slot = command[o].slot /\ c.reading = command[o].reading
      /\ c.left = command[o].left
      /\ c.crossed = command[o].crossed /\ c.moved = command[o].moved
  BY <1>1, <1>2 DEF Command
<1>5. Sound(o, command[o], file, note, hubTask, post)
  BY DEF FilesInv
<1>6. Named(c) /\ Remembers(c, file)
  BY <1>1, <1>4, <1>5 DEF Sound, Named, Remembers, Editing
<1>7. Lists(o, c, file, hubTask, post) /\ Sent(o, c, file, post)
  BY <1>4 DEF Lists, Sent
<1>8. Noted(o, c, note)
  BY <1>1, <1>4, <1>5 DEF Sound, Noted
<1>9. Reaches(o, c, file, hubTask, post)
  BY <1>1, <1>4, <1>5 DEF Sound, Reaches, Sent, Over
<1>10. Quiet(o, c)
  BY <1>2 DEF Turns, Quiet
<1> QED
  BY <1>3, <1>6, <1>7, <1>8, <1>9, <1>10, QuietKeeps DEF Sound

LEMMA TryNoteKeeps ==
  ASSUME FilesInv, NEW o \in Operators, TryNote(o)
  PROVE  FilesInv'
<1> USE PlanFilesAssumption
<1>1. command[o] \in Command /\ command[o] # NoCommand /\ command[o].does = "intake" /\ command[o].at = "note"
      /\ command[o].slot \in 1 .. NoteBound
  BY DEF TryNote, Stands, Does, FilesInv, PlanFilesTypeOK, Command
<1>2. started' \in Nat /\ changes' \in Nat /\ file' = file /\ hubTask' = hubTask /\ post' = post
  BY DEF TryNote, FilesInv, PlanFilesTypeOK
<1>3. ASSUME NEW c \in Command, c.does = "intake" PROVE Remembers(c, file) /\ Lists(o, c, file, hubTask, post)
                                                        /\ Reaches(o, c, file, hubTask, post) /\ Named(c)
  BY <1>3 DEF Remembers, Lists, Reaches, Named
<1>4. CASE note[command[o].slot] = NoName
  <2>1. PICK c : c = [command[o] EXCEPT !.at = "ok"]
    OBVIOUS
  <2>2. c \in Command /\ c.does = "intake" /\ c.at = "ok" /\ c.slot = command[o].slot
    BY <1>1, <2>1 DEF Command, Steps
  <2>3. command' = [command EXCEPT ![o] = c] /\ note' = [note EXCEPT ![command[o].slot] = o]
    BY <1>4, <2>1 DEF TryNote, Turns
  <2>4. command \in [Operators -> Command \cup {NoCommand}] /\ note \in [1 .. NoteBound -> Operators \cup {NoName}]
    BY DEF FilesInv, PlanFilesTypeOK
  <2>5. PlanFilesTypeOK'
    BY <1>1, <1>2, <2>2, <2>3, <2>4 DEF FilesInv, PlanFilesTypeOK
  <2>6. Sound(o, c, file, note', hubTask, post)
    <3>1. note'[c.slot] = o
      BY <1>1, <2>2, <2>3, <2>4
    <3>2. Noted(o, c, note') /\ Sent(o, c, file, post)
      BY <2>2, <3>1 DEF Noted, Sent
    <3> QED
      BY <1>3, <2>2, <3>2 DEF Sound
  <2>7. ASSUME NEW p \in Operators, p # o PROVE Sound(p, command[p], file, note', hubTask, post)
    <3>1. Sound(p, command[p], file, note, hubTask, post)
      BY DEF FilesInv
    <3>2. CASE command[p] # NoCommand /\ command[p].does = "intake" /\ command[p].at = "ok"
      <4>1. command[p].slot \in 1 .. NoteBound /\ note[command[p].slot] = p
        BY <2>4, <3>1, <3>2 DEF Sound, Noted, Command
      <4>2. command[p].slot # command[o].slot
        BY <1>4, <4>1
      <4> QED
        BY <2>3, <2>4, <3>1, <4>1, <4>2 DEF Sound, Noted
    <3>3. CASE ~(command[p] # NoCommand /\ command[p].does = "intake" /\ command[p].at = "ok")
      BY <3>1, <3>3 DEF Sound, Noted
    <3> QED
      BY <3>2, <3>3
  <2>8. \A p \in Operators : Sound(p, command'[p], file', note', hubTask', post')
    <3> SUFFICES ASSUME NEW p \in Operators PROVE Sound(p, command'[p], file', note', hubTask', post')
      OBVIOUS
    <3>1. command'[p] = IF p = o THEN c ELSE command[p]
      BY <2>3, <2>4
    <3> QED
      BY <1>2, <2>6, <2>7, <3>1
  <2> QED
    BY <1>2, <2>5, <2>8 DEF FilesInv
<1>5. CASE note[command[o].slot] # NoName
  <2>1. PICK c : c = IF command[o].slot < NoteBound THEN [command[o] EXCEPT !.slot = command[o].slot + 1]
                     ELSE [command[o] EXCEPT !.at = "failed"]
    OBVIOUS
  <2>2. c \in Command /\ c.does = "intake" /\ c.at \in {"note", "failed"}
    <3>1. CASE command[o].slot < NoteBound
      <4>1. command[o].slot + 1 \in 1 .. NoteBound
        BY <1>1, <3>1
      <4> QED
        BY <1>1, <2>1, <3>1, <4>1 DEF Command
    <3>2. CASE ~(command[o].slot < NoteBound)
      BY <1>1, <2>1, <3>2 DEF Command, Steps
    <3> QED
      BY <3>1, <3>2
  <2>3. Noted(o, c, note) /\ Sent(o, c, file, post)
    BY <2>2 DEF Noted, Sent
  <2>4. Sound(o, c, file, note, hubTask, post)
    BY <1>3, <2>2, <2>3 DEF Sound
  <2>5. Quiet(o, c) /\ note' = note
    BY <1>5, <2>1 DEF TryNote, Quiet
  <2> QED
    BY <1>2, <2>2, <2>4, <2>5, QuietKeeps
<1> QED
  BY <1>4, <1>5

LEMMA ReplaceKeeps ==
  ASSUME FilesInv, NEW o \in Operators, NEW text \in Texts, Replace(o, text)
  PROVE  FilesInv'
<1> USE PlanFilesAssumption
<1>1. command[o] \in Command /\ command[o] # NoCommand /\ command[o].does = "edit" /\ command[o].at = "read"
      /\ command[o].name \in TaskNames
  BY DEF Replace, Stands, Does, FilesInv, PlanFilesTypeOK, Sound, Named
<1>2. PICK g : g = [file EXCEPT ![command[o].name] = text]
  OBVIOUS
<1>3. g[command[o].name] = text
  BY <1>1, <1>2 DEF FilesInv, PlanFilesTypeOK, Directory
<1>4. PICK c : c = [command[o] EXCEPT !.at = "edited", !.modified = text # command[o].original]
  OBVIOUS
<1>5. c \in Command
  BY <1>1, <1>4 DEF Command, Steps
<1>6. /\ c.does = "edit" /\ c.at = "edited" /\ c.name = command[o].name
      /\ c.original = command[o].original /\ c.modified = (text # command[o].original)
      /\ c.seen = command[o].seen /\ c.crossed = command[o].crossed /\ c.moved = command[o].moved
  BY <1>1, <1>4 DEF Command
<1>7. Sound(o, command[o], file, note, hubTask, post)
  BY DEF FilesInv
<1>8. Remembers(c, g)
  BY <1>1, <1>3, <1>6, <1>7 DEF Sound, Remembers, Editing
<1>9. Reaches(o, c, g, hubTask, post)
  BY <1>1, <1>6, <1>7 DEF Sound, Reaches, Over
<1>10. Sound(o, c, g, note, hubTask, post)
  BY <1>1, <1>6, <1>8, <1>9 DEF Sound, Named, Noted, Lists, Sent
<1>11. Puts(o, command[o].name, text, c) /\ UNCHANGED <<note, hubTask, post>>
       /\ started' \in Nat /\ changes' \in Nat
  BY <1>4 DEF Replace, FilesInv, PlanFilesTypeOK
<1> QED
  BY <1>1, <1>2, <1>5, <1>10, <1>11, PutKeeps

LEMMA SaveKeeps ==
  ASSUME FilesInv, NEW o \in Operators, NEW text \in Texts, Save(o, text)
  PROVE  FilesInv'
<1> USE PlanFilesAssumption
<1>1. command[o] \in Command /\ command[o] # NoCommand /\ command[o].does = "edit" /\ command[o].at = "open"
      /\ command[o].name \in TaskNames
  BY DEF Save, Stands, Does, FilesInv, PlanFilesTypeOK, Sound, Named
<1>2. PICK g : g = [file EXCEPT ![command[o].name] = text]
  OBVIOUS
<1>3. g[command[o].name] = text
  BY <1>1, <1>2 DEF FilesInv, PlanFilesTypeOK, Directory
<1>4. PICK c : c = command[o]
  OBVIOUS
<1>5. Sound(o, command[o], file, note, hubTask, post)
  BY DEF FilesInv
<1>6. Remembers(c, g)
  BY <1>1, <1>3, <1>4, <1>5 DEF Sound, Remembers, Editing
<1>7. Reaches(o, c, g, hubTask, post)
  BY <1>1, <1>4, <1>5 DEF Sound, Reaches, Over
<1>8. Sound(o, c, g, note, hubTask, post)
  BY <1>1, <1>4, <1>6, <1>7 DEF Sound, Named, Noted, Lists, Sent
<1>9. Puts(o, command[o].name, text, c) /\ UNCHANGED <<note, hubTask, post>>
       /\ started' \in Nat /\ changes' \in Nat
  BY <1>4 DEF Save, FilesInv, PlanFilesTypeOK
<1> QED
  BY <1>1, <1>2, <1>4, <1>8, <1>9, PutKeeps

LEMMA AddFileKeeps ==
  ASSUME FilesInv, NEW o \in Operators, NEW text \in Texts, AddFile(o, text)
  PROVE  FilesInv'
<1> USE PlanFilesAssumption
<1>1. command[o] \in Command /\ command[o] # NoCommand /\ command[o].does = "add" /\ command[o].at = "edited"
      /\ command[o].name \in TaskNames
  BY DEF AddFile, Stands, Does, FilesInv, PlanFilesTypeOK, Sound, Named
<1>2. UNCHANGED <<note, hubTask, post>> /\ started' \in Nat /\ changes' \in Nat
  BY DEF AddFile, FilesInv, PlanFilesTypeOK
<1>3. CASE Valid([command[o].reading EXCEPT ![command[o].name] = text]) /\ MayCreate(o, command[o].name)
  <2>1. PICK c : c = [command[o] EXCEPT !.at = "ready"]
    OBVIOUS
  <2>2. c \in Command /\ c.does = "add" /\ c.at = "ready" /\ c.name = command[o].name
    BY <1>1, <2>1 DEF Command, Steps
  <2>3. Sound(o, c, [file EXCEPT ![command[o].name] = text], note, hubTask, post)
    BY <1>1, <2>2 DEF Sound, Named, Noted, Remembers, Lists, Sent, Reaches
  <2>4. Puts(o, command[o].name, text, c)
    BY <1>3, <2>1 DEF AddFile
  <2> QED
    BY <1>1, <1>2, <2>2, <2>3, <2>4, PutKeeps
<1>4. CASE ~(Valid([command[o].reading EXCEPT ![command[o].name] = text]) /\ MayCreate(o, command[o].name))
  <2>1. Turns(o, "failed") /\ file' = file
    BY <1>4 DEF AddFile
  <2> QED
    BY <1>1, <1>2, <2>1, TurnKeeps DEF Over
<1> QED
  BY <1>3, <1>4

\* The undo of an edit, whatever failed.
LEMMA UndoKeeps ==
  ASSUME FilesInv, NEW o \in Operators, Undoes(o), UNCHANGED <<note, hubTask, post>>,
         started' \in Nat, changes' \in Nat,
         command[o] # NoCommand, command[o].does = "edit", command[o].at \in Editing
  PROVE  /\ FilesInv'
         /\ ~command[o].crossed => file'[command[o].name] = command[o].original
         /\ \A n \in TaskNames : file'[n] # file[n] => n = command[o].name
         /\ file'[command[o].name] \in Texts
<1> USE PlanFilesAssumption
<1>1. command[o] \in Command /\ command[o].name \in TaskNames
  BY DEF FilesInv, PlanFilesTypeOK, Sound, Named
<1>2. Sound(o, command[o], file, note, hubTask, post) /\ file \in Directory
  BY DEF FilesInv, PlanFilesTypeOK
<1>3. command[o].original \in Texts
  BY <1>1, <1>2 DEF Sound, Remembers, Command
<1>4. CASE command[o].modified
  <2>1. PICK c : c = [command[o] EXCEPT !.modified = FALSE, !.at = "failed"]
    OBVIOUS
  <2>2. c \in Command
    BY <1>1, <2>1 DEF Command, Steps
  <2>3. /\ c.does = "edit" /\ c.at = "failed" /\ c.name = command[o].name
        /\ c.original = command[o].original /\ c.modified = FALSE
        /\ c.seen = command[o].seen /\ c.crossed = command[o].crossed /\ c.moved = command[o].moved
    BY <1>1, <2>1 DEF Command
  <2>4. PICK g : g = [file EXCEPT ![command[o].name] = command[o].original]
    OBVIOUS
  <2>5. g[command[o].name] = command[o].original
    BY <1>1, <1>2, <2>4 DEF Directory
  <2>6. Remembers(c, g) /\ Reaches(o, c, g, hubTask, post)
    BY <1>3, <2>3, <2>5 DEF Remembers, Reaches, Editing, Over
  <2>7. Sound(o, c, g, note, hubTask, post)
    BY <1>1, <2>3, <2>6 DEF Sound, Named, Noted, Lists, Sent
  <2>8. Puts(o, command[o].name, command[o].original, c)
    BY <1>4, <2>1 DEF Undoes
  <2>9. FilesInv'
    BY <1>1, <1>3, <2>2, <2>4, <2>7, <2>8, PutKeeps
  <2>10. file' = g
    BY <2>4, <2>8 DEF Puts
  <2> QED
    BY <1>1, <1>2, <1>3, <2>4, <2>5, <2>9, <2>10 DEF Directory
<1>5. CASE ~command[o].modified
  <2>1. Turns(o, "failed") /\ file' = file
    BY <1>5 DEF Undoes
  <2>2. FilesInv'
    BY <2>1, TurnKeeps DEF Editing, Over
  <2>3. ~command[o].crossed => file[command[o].name] = command[o].original
    BY <1>2, <1>5 DEF Sound, Remembers
  <2>4. file[command[o].name] \in Texts
    BY <1>1, <1>2, <1>3 DEF Sound, Remembers, Directory
  <2> QED
    BY <2>1, <2>2, <2>3, <2>4
<1> QED
  BY <1>1, <1>4, <1>5 DEF Command

LEMMA EditEnds ==
  ASSUME FilesInv, NEW o \in Operators, RefuseEdit(o) \/ EditorFails(o) \/ CheckEdit(o)
  PROVE  FilesInv'
<1>1. started' \in Nat /\ changes' \in Nat /\ UNCHANGED <<note, hubTask, post>>
  BY DEF RefuseEdit, EditorFails, CheckEdit, FilesInv, PlanFilesTypeOK
<1>2. CASE RefuseEdit(o)
  BY <1>1, <1>2, TurnKeeps DEF RefuseEdit, Stands, Does, Over
<1>3. CASE EditorFails(o)
  BY <1>1, <1>3, UndoKeeps DEF EditorFails, Stands, Does, Editing
<1>4. CASE CheckEdit(o)
  <2>1. CASE Valid(file)
    BY <1>1, <1>4, <2>1, TurnKeeps DEF CheckEdit, Stands, Does, Over
  <2>2. CASE ~Valid(file)
    BY <1>1, <1>4, <2>2, UndoKeeps DEF CheckEdit, Stands, Does, Editing
  <2> QED
    BY <2>1, <2>2
<1> QED
  BY <1>2, <1>3, <1>4

LEMMA GivingUp ==
  ASSUME FilesInv, NEW o \in Operators, Gives(o), UNCHANGED <<note, hubTask, post>>,
         started' \in Nat, changes' \in Nat, command[o] # NoCommand, command[o].at = "posted"
  PROVE  FilesInv'
<1>1. CASE command[o].does = "edit"
  BY <1>1, UndoKeeps DEF Gives, Editing
<1>2. CASE command[o].does # "edit"
  BY <1>2, TurnKeeps DEF Gives, Over
<1> QED
  BY <1>1, <1>2

LEMMA AnswerKeeps ==
  ASSUME FilesInv, NEW o \in Operators, Answered(o) \/ LoseSubmit(o)
  PROVE  FilesInv'
<1>1. started' \in Nat /\ changes' \in Nat /\ UNCHANGED <<note, hubTask, post>>
      /\ command[o] # NoCommand /\ command[o].at = "posted"
  BY DEF Answered, LoseSubmit, FilesInv, PlanFilesTypeOK
<1>2. CASE LoseSubmit(o)
  BY <1>1, <1>2, GivingUp DEF LoseSubmit
<1>3. CASE Answered(o)
  <2>1. CASE post[o].answer = "ok"
    BY <1>1, <1>3, <2>1, TurnKeeps DEF Answered, Over
  <2>2. CASE post[o].answer # "ok"
    BY <1>1, <1>3, <2>2, GivingUp DEF Answered
  <2> QED
    BY <2>1, <2>2
<1> QED
  BY <1>2, <1>3

LEMMA PostPlanKeeps ==
  ASSUME FilesInv, NEW o \in Operators, PostPlan(o)
  PROVE  FilesInv'
<1> USE PlanFilesAssumption
<1>1. command[o] \in Command /\ command[o] # NoCommand /\ command[o].at = "ready"
  BY DEF PostPlan, FilesInv, PlanFilesTypeOK
<1>2. /\ file' = file /\ hubTask' = hubTask /\ note' = note /\ started' \in Nat /\ changes' \in Nat
      /\ file \in Directory /\ post \in [Operators -> Submitted \cup {NoPost}]
      /\ command \in [Operators -> Command \cup {NoCommand}]
  BY DEF PostPlan, FilesInv, PlanFilesTypeOK
<1>3. PICK r : r = [files |-> file, answer |-> "none"]
  OBVIOUS
<1>4. r \in Submitted /\ r # NoPost /\ r.files = file /\ r.answer = "none"
  BY <1>2, <1>3 DEF Submitted
<1>5. post' = [post EXCEPT ![o] = r]
  BY <1>3 DEF PostPlan
<1>6. \A p \in Operators : post'[p] = IF p = o THEN r ELSE post[p]
  BY <1>2, <1>5
<1>7. PICK late : late = (command[o].moved \/ Older(o, command[o].name))
  OBVIOUS
<1>8. late \in BOOLEAN
  BY <1>1, <1>7 DEF Command
<1>9. PICK c : c = [command[o] EXCEPT !.at = "posted", !.moved = late]
  OBVIOUS
<1>10. c \in Command
  BY <1>1, <1>8, <1>9 DEF Command, Steps
<1>11. /\ c.does = command[o].does /\ c.at = "posted" /\ c.name = command[o].name
       /\ c.original = command[o].original /\ c.modified = command[o].modified
       /\ c.reading = command[o].reading /\ c.seen = command[o].seen /\ c.left = command[o].left
       /\ c.slot = command[o].slot /\ c.crossed = command[o].crossed /\ c.moved = late
  BY <1>1, <1>9 DEF Command
<1>12. command' = [command EXCEPT ![o] = c]
  BY <1>7, <1>9 DEF PostPlan
<1>13. \A p \in Operators : command'[p] = IF p = o THEN c ELSE command[p]
  BY <1>2, <1>12
<1>14. Sound(o, command[o], file, note, hubTask, post)
  BY DEF FilesInv
<1>15. Sound(o, c, file, note, hubTask, post')
  <2>1. Named(c) /\ Noted(o, c, note) /\ Remembers(c, file)
    BY <1>1, <1>11, <1>14 DEF Sound, Named, Noted, Remembers, Editing
  <2>2. c # NoCommand
    BY <1>10
  <2>3. late = FALSE => command[o].moved = FALSE
    BY <1>1, <1>7 DEF Command
  <2>4. Lists(o, c, file, hubTask, post')
    BY <1>1, <1>11, <1>14, <2>3 DEF Sound, Lists
  <2>5. Sent(o, c, file, post')
    BY <1>4, <1>6 DEF Sent
  <2>6. Reaches(o, c, file, hubTask, post')
    <3> SUFFICES ASSUME c.does = "edit", ~c.moved, c.seen[c.name].status = "pending"
                 PROVE  /\ hubTask[c.name].status = "pending"
                        /\ \A p \in Operators \ {o} :
                             post'[p] # NoPost /\ post'[p].answer = "none" => post'[p].files[c.name] = file[c.name]
      BY <1>4, <1>6, <1>11 DEF Reaches, Over
    <3>1. c.name \in TaskNames
      BY <2>1, <2>2 DEF Named
    <3>2. ~Older(o, c.name)
      BY <1>7, <1>11
    <3>3. hubTask[c.name].status = "pending"
      BY <1>1, <1>11, <1>14, <2>3 DEF Sound, Reaches, Over
    <3> QED
      BY <1>6, <3>1, <3>2, <3>3 DEF Older
  <2> QED
    BY <2>1, <2>4, <2>5, <2>6 DEF Sound
<1>16. ASSUME NEW p \in Operators, p # o PROVE Sound(p, command[p], file, note, hubTask, post')
  <2>1. Sound(p, command[p], file, note, hubTask, post) /\ post'[p] = post[p]
    BY <1>6, <1>16 DEF FilesInv
  <2>2. Lists(p, command[p], file, hubTask, post') /\ Sent(p, command[p], file, post')
    BY <2>1 DEF Sound, Lists, Sent
  <2>3. Reaches(p, command[p], file, hubTask, post')
    BY <1>4, <1>6, <2>1 DEF Sound, Reaches
  <2> QED
    BY <2>1, <2>2, <2>3 DEF Sound
<1>17. PlanFilesTypeOK'
  BY <1>2, <1>4, <1>5, <1>10, <1>12 DEF FilesInv, PlanFilesTypeOK
<1> QED
  BY <1>2, <1>13, <1>15, <1>16, <1>17 DEF FilesInv

LEMMA RefusePlanKeeps ==
  ASSUME FilesInv, NEW o \in Operators, RefusePlan(o)
  PROVE  FilesInv'
<1> USE PlanFilesAssumption
<1>1. /\ file' = file /\ hubTask' = hubTask /\ note' = note /\ command' = command
      /\ started' = started /\ changes' = changes
      /\ post \in [Operators -> Submitted \cup {NoPost}] /\ post[o] # NoPost /\ post[o].answer = "none"
  BY DEF RefusePlan, FilesInv, PlanFilesTypeOK
<1>2. PICK r : r = [post[o] EXCEPT !.answer = "refused"]
  OBVIOUS
<1>3. r \in Submitted /\ r # NoPost /\ r.files = post[o].files /\ r.answer = "refused"
  BY <1>1, <1>2 DEF Submitted
<1>4. \A p \in Operators : post'[p] = IF p = o THEN r ELSE post[p]
  BY <1>1, <1>2 DEF RefusePlan
<1>5. PlanFilesTypeOK'
  BY <1>1, <1>2, <1>3 DEF RefusePlan, FilesInv, PlanFilesTypeOK
<1>6. ASSUME NEW p \in Operators PROVE Sound(p, command[p], file, note, hubTask, post')
  <2>1. Sound(p, command[p], file, note, hubTask, post)
    BY DEF FilesInv
  <2>2. Lists(p, command[p], file, hubTask, post') /\ Sent(p, command[p], file, post')
    BY <1>1, <1>3, <1>4, <2>1 DEF Sound, Lists, Sent
  <2>3. Reaches(p, command[p], file, hubTask, post')
    BY <1>1, <1>3, <1>4, <2>1 DEF Sound, Reaches
  <2> QED
    BY <2>1, <2>2, <2>3 DEF Sound
<1> QED
  BY <1>1, <1>5, <1>6 DEF FilesInv

\* What a command knows after a task moved: by the answer that operator o awaits, or otherwise.
Told(p, c, o, names) ==
  IF c # NoCommand /\ c.at \notin Over /\ (p # o \/ c.at # "posted")
       /\ (c.name \in names \/ c.does = "revise")
  THEN [c EXCEPT !.moved = TRUE] ELSE c

\* The hub's tasks and submissions, from t and q to u and r.
Moved(o, names, f, t, q, u, r) ==
  /\ \A x \in Operators : /\ r[x] # NoPost <=> q[x] # NoPost
                          /\ q[x] # NoPost => r[x].files = q[x].files
                          /\ x # o => r[x] = q[x]
  /\ o \in Operators => q[o] # NoPost /\ q[o].answer = "none" /\ r[o].answer = "ok"
  /\ \A n \in TaskNames : n \notin names => u[n] = t[n]
  /\ o \in Operators => \A n \in TaskNames : t[n].status = "pending" =>
                          /\ u[n].status = "pending"
                          /\ q[o].files[n] # NoText => u[n].text = q[o].files[n]
  /\ \A n \in TaskNames : f[n] # NoText =>
       u[n].text = t[n].text \/ (o \in Operators /\ u[n].text = q[o].files[n])

LEMMA MovedKeeps ==
  ASSUME NEW p \in Operators, NEW c \in Command \cup {NoCommand}, NEW o \in Operators \cup {NoName},
         NEW names \in SUBSET TaskNames, NEW f \in Directory, NEW k, NEW t, NEW q, NEW u, NEW r,
         Sound(p, c, f, k, t, q), Moved(o, names, f, t, q, u, r)
  PROVE  /\ Told(p, c, o, names) \in Command \cup {NoCommand}
         /\ Sound(p, Told(p, c, o, names), f, k, u, r)
<1>d. PICK d : d = Told(p, c, o, names)
  OBVIOUS
<1>m. /\ \A x \in Operators : /\ r[x] # NoPost <=> q[x] # NoPost
                              /\ q[x] # NoPost => r[x].files = q[x].files
                              /\ x # o => r[x] = q[x]
      /\ o \in Operators => q[o] # NoPost /\ q[o].answer = "none" /\ r[o].answer = "ok"
      /\ \A n \in TaskNames : n \notin names => u[n] = t[n]
      /\ o \in Operators => \A n \in TaskNames : t[n].status = "pending" =>
                              /\ u[n].status = "pending"
                              /\ q[o].files[n] # NoText => u[n].text = q[o].files[n]
      /\ \A n \in TaskNames : f[n] # NoText =>
           u[n].text = t[n].text \/ (o \in Operators /\ u[n].text = q[o].files[n])
  BY DEF Moved
<1> SUFFICES d \in Command \cup {NoCommand} /\ Sound(p, d, f, k, u, r)
  BY <1>d
<1> USE PlanFilesAssumption
<1>1. CASE c = NoCommand
  <2>1. d = NoCommand
    BY <1>1, <1>d DEF Told
  <2> QED
    BY <2>1 DEF Sound, Named, Noted, Remembers, Lists, Sent, Reaches
<1>2. CASE c # NoCommand /\ c.at \notin Over /\ (p # o \/ c.at # "posted")
             /\ (c.name \in names \/ c.does = "revise")
  <2>1. d = [c EXCEPT !.moved = TRUE] /\ c \in Command
    BY <1>2, <1>d DEF Told
  <2>2. d \in Command
    BY <2>1 DEF Command
  <2>3. /\ d.does = c.does /\ d.at = c.at /\ d.name = c.name /\ d.original = c.original
        /\ d.modified = c.modified /\ d.reading = c.reading /\ d.seen = c.seen /\ d.left = c.left
        /\ d.slot = c.slot /\ d.crossed = c.crossed /\ d.moved = TRUE
    BY <2>1 DEF Command
  <2>4. Named(d) /\ Noted(p, d, k) /\ Remembers(d, f)
    BY <1>2, <2>2, <2>3 DEF Sound, Named, Noted, Remembers
  <2>5. Lists(p, d, f, u, r)
    BY <1>m, <1>2, <2>3 DEF Sound, Lists
  <2>6. Sent(p, d, f, r)
    BY <1>m, <1>2, <2>3 DEF Sound, Sent
  <2>7. Reaches(p, d, f, u, r)
    BY <2>3 DEF Reaches
  <2> QED
    BY <2>2, <2>4, <2>5, <2>6, <2>7 DEF Sound
<1>3. CASE c # NoCommand /\ ~(c.at \notin Over /\ (p # o \/ c.at # "posted")
             /\ (c.name \in names \/ c.does = "revise"))
  <2>1. d = c /\ c \in Command
    BY <1>3, <1>d DEF Told
  <2>2. Named(c) /\ Noted(p, c, k) /\ Remembers(c, f)
    BY DEF Sound
  <2>3. Sent(p, c, f, r)
    BY <1>m DEF Sound, Sent
  <2>4. Lists(p, c, f, u, r)
    <3> SUFFICES ASSUME c.does = "revise" PROVE Lists(p, c, f, u, r)
      BY DEF Lists
    <3>1. c.at \in Over \/ (p = o /\ c.at = "posted")
      BY <1>3
    <3>2. CASE c.at \in Over
      BY <3>2 DEF Lists, Over
    <3>3. CASE p = o /\ c.at = "posted"
      <4>1. r[p].answer = "ok"
        BY <1>m, <3>3
      <4> QED
        BY <3>3, <4>1 DEF Sound, Lists
    <3> QED
      BY <3>1, <3>2, <3>3
  <2>5. Reaches(p, c, f, u, r)
    <3> SUFFICES ASSUME c.does = "edit", ~c.moved, c.seen[c.name].status = "pending"
                 PROVE  Reaches(p, c, f, u, r)
      BY DEF Reaches
    <3> DEFINE n == c.name
    <3>1. n \in TaskNames
      BY <1>3 DEF Sound, Named
    <3>2. c.at \in Over \/ (p = o /\ c.at = "posted") \/ n \notin names
      BY <1>3
    <3>3. c.at \notin Over => t[n].status = "pending"
      BY <1>3 DEF Sound, Reaches
    <3>4. c.at \in {"posted", "ok"} /\ ~c.crossed =>
            \A x \in Operators \ {p} : q[x] # NoPost /\ q[x].answer = "none" => q[x].files[n] = f[n]
      BY <1>3 DEF Sound, Reaches
    <3>5. c.at = "ok" => q[p] # NoPost /\ q[p].answer = "ok"
      BY <1>3 DEF Sound, Reaches
    <3>6. (c.at = "ok" \/ (c.at = "posted" /\ q[p].answer = "ok")) /\ ~c.crossed => t[n].text = f[n]
      BY <1>3 DEF Sound, Reaches
    <3>7. c.at = "posted" /\ ~c.crossed => q[p] # NoPost /\ q[p].files[n] = f[n]
      BY <1>3 DEF Sound, Sent
    <3>8. c.at \in {"posted", "ok"} => f[n] # NoText
      BY <1>3 DEF Sound, Remembers, Editing
    <3>9. c.at \notin Over => u[n].status = "pending"
      BY <1>m, <3>1, <3>2, <3>3
    <3>10. c.at \in {"posted", "ok"} /\ ~c.crossed =>
            \A x \in Operators \ {p} : r[x] # NoPost /\ r[x].answer = "none" => r[x].files[n] = f[n]
      BY <1>m, <3>4
    <3>11. c.at = "ok" => r[p] # NoPost /\ r[p].answer = "ok"
      BY <1>m, <3>5
    <3>12. (c.at = "ok" \/ (c.at = "posted" /\ r[p].answer = "ok")) /\ ~c.crossed => u[n].text = f[n]
      <4>1. CASE c.at = "ok" /\ ~c.crossed
        <5>1. p # o
          BY <1>m, <3>5, <4>1
        <5>2. o \in Operators => q[o].files[n] = f[n]
          BY <1>m, <3>4, <4>1, <5>1
        <5> QED
          BY <1>m, <3>1, <3>6, <3>8, <4>1, <5>2
      <4>2. CASE c.at = "posted" /\ ~c.crossed /\ p = o /\ r[p].answer = "ok"
        BY <1>m, <3>1, <3>3, <3>7, <3>8, <4>2 DEF Over
      <4>3. CASE c.at = "posted" /\ ~c.crossed /\ p # o /\ r[p].answer = "ok"
        <5>1. n \notin names /\ q[p].answer = "ok"
          BY <1>m, <3>2, <4>3 DEF Over
        <5> QED
          BY <1>m, <3>1, <3>6, <4>3, <5>1
      <4> QED
        BY <4>1, <4>2, <4>3
    <3> HIDE DEF n
    <3> QED
      BY <3>9, <3>10, <3>11, <3>12 DEF Reaches, n
  <2> QED
    BY <2>1, <2>2, <2>3, <2>4, <2>5 DEF Sound
<1> QED
  BY <1>1, <1>2, <1>3

LEMMA HubMoves ==
  ASSUME FilesInv, NEW o \in Operators \cup {NoName}, NEW names \in SUBSET TaskNames, Moves(o, names),
         file' = file, note' = note, started' \in Nat, changes' \in Nat,
         hubTask' \in [TaskNames -> HubTask], MissingIsBlank(hubTask'),
         post' \in [Operators -> Submitted \cup {NoPost}],
         \A x \in Operators : /\ post'[x] # NoPost <=> post[x] # NoPost
                              /\ post[x] # NoPost => post'[x].files = post[x].files
                              /\ x # o => post'[x] = post[x],
         o \in Operators => post[o] # NoPost /\ post[o].answer = "none" /\ post'[o].answer = "ok",
         \A n \in TaskNames : n \notin names => hubTask'[n] = hubTask[n],
         o \in Operators => \A n \in TaskNames : hubTask[n].status = "pending" =>
                              /\ hubTask'[n].status = "pending"
                              /\ post[o].files[n] # NoText => hubTask'[n].text = post[o].files[n],
         \A n \in TaskNames : file[n] # NoText =>
           hubTask'[n].text = hubTask[n].text \/ (o \in Operators /\ hubTask'[n].text = post[o].files[n])
  PROVE  FilesInv'
<1>1. PICK u : u = hubTask'
  OBVIOUS
<1>2. PICK r : r = post'
  OBVIOUS
<1>3. file \in Directory
  BY DEF FilesInv, PlanFilesTypeOK
<1>m. Moved(o, names, file, hubTask, post, u, r)
  BY <1>1, <1>2 DEF Moved
<1>4. \A p \in Operators : command'[p] = Told(p, command[p], o, names)
  BY DEF Moves, Told
<1>5. ASSUME NEW p \in Operators
      PROVE  command'[p] \in Command \cup {NoCommand} /\ Sound(p, command'[p], file, note, u, r)
  <2>1. command[p] \in Command \cup {NoCommand} /\ Sound(p, command[p], file, note, hubTask, post)
    BY DEF FilesInv, PlanFilesTypeOK
  <2>2. Told(p, command[p], o, names) \in Command \cup {NoCommand}
    BY <1>m, <1>3, <2>1, MovedKeeps
  <2>3. Sound(p, Told(p, command[p], o, names), file, note, u, r)
    BY <1>m, <1>3, <2>1, MovedKeeps
  <2> QED
    BY <1>4, <2>2, <2>3
<1>6. command' \in [Operators -> Command \cup {NoCommand}]
  BY <1>5 DEF Moves
<1>7. PlanFilesTypeOK'
  BY <1>6 DEF FilesInv, PlanFilesTypeOK
<1> QED
  BY <1>1, <1>2, <1>5, <1>7 DEF FilesInv

LEMMA PublishKeeps ==
  ASSUME FilesInv, NEW o \in Operators, Publish(o)
  PROVE  FilesInv'
<1> USE PlanFilesAssumption
<1>1. /\ post \in [Operators -> Submitted \cup {NoPost}] /\ hubTask \in [TaskNames -> HubTask]
      /\ post[o] # NoPost /\ post[o].answer = "none" /\ post[o] \in Submitted
      /\ file' = file /\ note' = note /\ started' \in Nat /\ changes' \in Nat /\ MissingIsBlank(hubTask)
  BY DEF Publish, FilesInv, PlanFilesTypeOK
<1>2. PICK r : r = [post[o] EXCEPT !.answer = "ok"]
  OBVIOUS
<1>3. r \in Submitted /\ r # NoPost /\ r.files = post[o].files /\ r.answer = "ok"
  BY <1>1, <1>2 DEF Submitted
<1>4. post' = [post EXCEPT ![o] = r]
  BY <1>2 DEF Publish
<1>5. \A x \in Operators : post'[x] = IF x = o THEN r ELSE post[x]
  BY <1>1, <1>4
<1>6. post' \in [Operators -> Submitted \cup {NoPost}]
  BY <1>1, <1>3, <1>4
<1>7. post[o].files \in Directory
  BY <1>1 DEF Submitted
<1>8. \A n \in TaskNames :
        /\ Taken(post[o].files, n) =>
             hubTask'[n] = [status |-> "pending", text |-> post[o].files[n], repair |-> hubTask[n].repair]
        /\ ~Taken(post[o].files, n) => hubTask'[n] = hubTask[n]
  BY DEF Publish
<1>9. ASSUME NEW n \in TaskNames
      PROVE  /\ hubTask'[n] \in HubTask
             /\ Taken(post[o].files, n) => hubTask'[n].status = "pending" /\ hubTask'[n].text = post[o].files[n]
  <2>1. hubTask[n] \in HubTask /\ post[o].files[n] \in Texts \cup {NoText} /\ hubTask[n].repair \in BOOLEAN
    BY <1>1, <1>7 DEF Directory, HubTask
  <2>2. [status |-> "pending", text |-> post[o].files[n], repair |-> hubTask[n].repair] \in HubTask
    BY <2>1 DEF HubTask, HubStatus
  <2> QED
    BY <1>8, <2>1, <2>2
<1>10. hubTask' \in [TaskNames -> HubTask]
  BY <1>9 DEF Publish
<1>11. MissingIsBlank(hubTask')
  BY <1>1, <1>8, <1>9 DEF MissingIsBlank
<1>12. PICK names : names = {n \in TaskNames : hubTask'[n] # hubTask[n]}
  OBVIOUS
<1>13. Moves(o, names) /\ names \in SUBSET TaskNames
  BY <1>12 DEF Publish
<1>14. \A n \in TaskNames : n \notin names => hubTask'[n] = hubTask[n]
  BY <1>12
<1>15. \A n \in TaskNames : hubTask[n].status = "pending" =>
         /\ hubTask'[n].status = "pending"
         /\ post[o].files[n] # NoText => hubTask'[n].text = post[o].files[n]
  BY <1>8, <1>9 DEF Taken
<1>16. \A n \in TaskNames : hubTask'[n].text = hubTask[n].text \/ hubTask'[n].text = post[o].files[n]
  BY <1>8, <1>9
<1>17. \A x \in Operators : /\ post'[x] # NoPost <=> post[x] # NoPost
                            /\ post[x] # NoPost => post'[x].files = post[x].files
                            /\ x # o => post'[x] = post[x]
  BY <1>1, <1>3, <1>5
<1>18. post'[o].answer = "ok"
  BY <1>3, <1>5
<1> QED
  BY <1>1, <1>6, <1>10, <1>11, <1>13, <1>14, <1>15, <1>16, <1>17, <1>18, HubMoves

LEMMA TasksGoOn ==
  ASSUME FilesInv, NEW n \in TaskNames,
         (\E to \in HubStatus : TaskMoves(n, to)) \/ (\E text \in Texts : OrderRepair(n, text))
  PROVE  FilesInv'
<1> USE PlanFilesAssumption
<1>1. PICK v : v = hubTask'[n]
  OBVIOUS
<1>2. /\ hubTask \in [TaskNames -> HubTask] /\ MissingIsBlank(hubTask) /\ hubTask[n] \in HubTask
      /\ post \in [Operators -> Submitted \cup {NoPost}]
      /\ started \in Nat /\ changes \in Nat
  BY DEF FilesInv, PlanFilesTypeOK
<1>3. /\ file' = file /\ note' = note /\ post' = post /\ started' = started /\ changes' \in Nat
      /\ Moves(NoName, {n}) /\ NoName \notin Operators
  <2>1. CASE \E to \in HubStatus : TaskMoves(n, to)
    <3>1. PICK to \in HubStatus : TaskMoves(n, to)
      BY <2>1
    <3>2. file' = file /\ note' = note /\ post' = post /\ started' = started /\ Moves(NoName, {n})
      BY <3>1 DEF TaskMoves
    <3>3. changes' \in Nat
      BY <1>2, <3>1 DEF TaskMoves
    <3> QED
      BY <3>2, <3>3
  <2>2. CASE \E text \in Texts : OrderRepair(n, text)
    BY <1>2, <2>2 DEF OrderRepair
  <2> QED
    BY <2>1, <2>2
<1>4. /\ hubTask' = [hubTask EXCEPT ![n] = v] /\ v \in HubTask /\ v.status # "missing"
      /\ v.text = hubTask[n].text \/ file[n] = NoText
  <2>1. CASE \E to \in HubStatus : TaskMoves(n, to)
    <3>1. PICK to \in HubStatus : TaskMoves(n, to)
      BY <2>1
    <3>2. PICK w : w = [hubTask[n] EXCEPT !.status = to]
      OBVIOUS
    <3>3. w \in HubTask /\ w.text = hubTask[n].text /\ w.status = to
      BY <1>2, <3>2 DEF HubTask
    <3>4. hubTask' = [hubTask EXCEPT ![n] = w]
      BY <3>1, <3>2 DEF TaskMoves
    <3>5. v = w
      BY <1>1, <1>2, <3>4
    <3>6. to # "missing"
      BY <3>1 DEF TaskMoves, Course
    <3> QED
      BY <3>3, <3>4, <3>5, <3>6
  <2>2. CASE \E text \in Texts : OrderRepair(n, text)
    <3>1. PICK text \in Texts : OrderRepair(n, text)
      BY <2>2
    <3>2. PICK w : w = [status |-> "pending", text |-> text, repair |-> TRUE]
      OBVIOUS
    <3>3. w \in HubTask /\ w.status = "pending"
      BY <3>2 DEF HubTask, HubStatus
    <3>4. hubTask' = [hubTask EXCEPT ![n] = w]
      BY <3>1, <3>2 DEF OrderRepair
    <3>5. v = w
      BY <1>1, <1>2, <3>4
    <3>6. file[n] = NoText
      BY <3>1 DEF OrderRepair
    <3> QED
      BY <3>3, <3>4, <3>5, <3>6
  <2> QED
    BY <2>1, <2>2
<1>5. hubTask' \in [TaskNames -> HubTask] /\ \A m \in TaskNames : hubTask'[m] = IF m = n THEN v ELSE hubTask[m]
  BY <1>2, <1>4
<1>6. MissingIsBlank(hubTask')
  BY <1>2, <1>4, <1>5 DEF MissingIsBlank
<1>7. /\ \A m \in TaskNames : m \notin {n} => hubTask'[m] = hubTask[m]
      /\ \A m \in TaskNames : file[m] # NoText => hubTask'[m].text = hubTask[m].text
  BY <1>4, <1>5
<1>8. post' \in [Operators -> Submitted \cup {NoPost}] /\ started' \in Nat
  BY <1>2, <1>3
<1> QED
  BY <1>3, <1>5, <1>6, <1>7, <1>8, HubMoves

LEMMA FilesKeep ==
  ASSUME FilesInv, [PlanFilesNext]_planFilesVars
  PROVE  FilesInv'
<1>1. CASE UNCHANGED planFilesVars
  BY <1>1 DEF planFilesVars, FilesInv, PlanFilesTypeOK
<1>2. ASSUME NEW o \in Operators,
             \/ ReadFile(o) \/ OpenEditor(o) \/ RefuseEdit(o) \/ CloseEditor(o) \/ EditorFails(o) \/ CheckEdit(o)
             \/ ReadPlan(o) \/ AskUnknown(o) \/ Intake(o) \/ TryNote(o)
             \/ Revise(o) \/ ListTasks(o) \/ ReadFiles(o) \/ Submit(o)
             \/ PostPlan(o) \/ Publish(o) \/ RefusePlan(o) \/ Answered(o) \/ LoseSubmit(o) \/ Kill(o)
      PROVE  FilesInv'
  BY <1>2, ReadFileKeeps, OpenEditorKeeps, EditEnds, CloseEditorKeeps, ReadPlanKeeps, AskUnknownKeeps,
     OthersStart, TryNoteKeeps, ListTasksKeeps, ReadFilesKeeps, PostPlanKeeps, PublishKeeps, RefusePlanKeeps,
     AnswerKeeps, KillKeeps
<1>3. ASSUME NEW o \in Operators, NEW n \in TaskNames, AskPlan(o, n) \/ FetchTask(o, n)
      PROVE  FilesInv'
  BY <1>3, OthersStart, FetchTaskKeeps
<1>4. ASSUME NEW o \in Operators, NEW n \in TaskNames, NEW force \in BOOLEAN, AskTask(o, n, force)
      PROVE  FilesInv'
  BY <1>4, AskTaskKeeps
<1>5. ASSUME NEW o \in Operators, NEW text \in Texts, Replace(o, text) \/ Save(o, text) \/ AddFile(o, text)
      PROVE  FilesInv'
  BY <1>5, ReplaceKeeps, SaveKeeps, AddFileKeeps
<1>6. ASSUME NEW o \in Operators, NEW submits \in BOOLEAN, ShowList(o, submits)
      PROVE  FilesInv'
  BY <1>6, ShowListKeeps
<1>7. ASSUME NEW n \in TaskNames, NEW to \in HubStatus, TaskMoves(n, to)
      PROVE  FilesInv'
  BY <1>7, TasksGoOn
<1>8. ASSUME NEW n \in TaskNames, NEW text \in Texts, OrderRepair(n, text)
      PROVE  FilesInv'
  BY <1>8, TasksGoOn
<1> QED
  BY <1>1, <1>2, <1>3, <1>4, <1>5, <1>6, <1>7, <1>8, Zenon DEF PlanFilesNext

\* The invariant of the planning commands, and their types.
THEOREM PlanFilesTyped == PlanFilesSpec => []PlanFilesTypeOK
<1>1. FilesInv => PlanFilesTypeOK
  BY DEF FilesInv
<1> QED
  BY InitIsFiled, FilesKeep, <1>1, PTL DEF PlanFilesSpec
-----------------------------------------------------------------------------

\* A step of one command leaves the others where they are.
LEMMA OthersStayThere ==
  ASSUME FilesInv, PlanFilesNext, NEW o \in Operators, command'[o] # NoCommand
  PROVE  \/ command[o] # NoCommand /\ command'[o].at = command[o].at /\ command'[o].does = command[o].does
         \/ ReadFile(o) \/ OpenEditor(o) \/ RefuseEdit(o) \/ CloseEditor(o) \/ EditorFails(o) \/ CheckEdit(o)
         \/ PostPlan(o) \/ Answered(o) \/ LoseSubmit(o)
         \/ \E text \in Texts : Replace(o, text)
         \/ command[o] # NoCommand /\ command[o].does # "edit"
         \/ ~Busy(o)
<1> USE PlanFilesAssumption
<1>0. /\ command \in [Operators -> Command \cup {NoCommand}]
      /\ \A d \in Command : /\ [d EXCEPT !.crossed = TRUE].at = d.at
                            /\ [d EXCEPT !.crossed = TRUE].does = d.does
                            /\ [d EXCEPT !.moved = TRUE].at = d.at
                            /\ [d EXCEPT !.moved = TRUE].does = d.does
  BY DEF FilesInv, PlanFilesTypeOK, Command
<1> DEFINE Same == command[o] # NoCommand /\ command'[o].at = command[o].at /\ command'[o].does = command[o].does
<1>a. ASSUME NEW p \in Operators, p # o, NEW n, NEW text, NEW c, Puts(p, n, text, c) PROVE Same
  BY <1>0, <1>a DEF Puts, Affected
<1>b. ASSUME NEW p \in Operators, p # o, Undoes(p) PROVE Same
  <2>1. CASE command[p].modified
    BY <1>a, <1>b, <2>1 DEF Undoes
  <2>2. CASE ~command[p].modified
    BY <1>0, <1>b, <2>2 DEF Undoes, Turns
  <2> QED
    BY <2>1, <2>2
<1>c. ASSUME NEW p \in Operators, p # o, NEW c, Starts(p, c) PROVE Same
  BY <1>0, <1>c DEF Starts
<1>d. ASSUME NEW p \in Operators \cup {NoName}, NEW names, Moves(p, names) PROVE Same
  BY <1>0, <1>d DEF Moves
<1>1. ASSUME NEW p \in Operators, p # o,
             ReadFile(p) \/ OpenEditor(p) \/ RefuseEdit(p) \/ CloseEditor(p) \/ EditorFails(p) \/ CheckEdit(p)
      PROVE  Same
  <2>1. CASE ReadFile(p)
    BY <1>0, <1>1, <2>1 DEF ReadFile
  <2>2. CASE OpenEditor(p) \/ RefuseEdit(p) \/ CloseEditor(p)
    BY <1>0, <1>1, <2>2 DEF OpenEditor, RefuseEdit, CloseEditor, Turns
  <2>3. CASE EditorFails(p) \/ CheckEdit(p)
    BY <1>0, <1>1, <1>b, <2>3 DEF EditorFails, CheckEdit, Turns
  <2> QED
    BY <1>1, <2>1, <2>2, <2>3
<1>2. ASSUME NEW p \in Operators, p # o,
             ReadPlan(p) \/ AskUnknown(p) \/ TryNote(p) \/ ListTasks(p) \/ ReadFiles(p) \/ PostPlan(p) \/ Kill(p)
      PROVE  Same
  <2>1. CASE ReadPlan(p) \/ AskUnknown(p) \/ ListTasks(p)
    BY <1>0, <1>2, <2>1 DEF ReadPlan, AskUnknown, ListTasks, Turns
  <2>2. CASE TryNote(p)
    BY <1>0, <1>2, <2>2 DEF TryNote, Turns
  <2>3. CASE ReadFiles(p) \/ PostPlan(p) \/ Kill(p)
    BY <1>0, <1>2, <2>3 DEF ReadFiles, PostPlan, Kill
  <2> QED
    BY <1>2, <2>1, <2>2, <2>3
<1>3. ASSUME NEW p \in Operators, p # o, Intake(p) \/ Revise(p) \/ Submit(p)
      PROVE  Same
  BY <1>3, <1>c DEF Intake, Revise, Submit
<1>4. ASSUME NEW p \in Operators, Publish(p)
      PROVE  Same
  BY <1>4, <1>d DEF Publish
<1>5. ASSUME NEW p \in Operators, RefusePlan(p)
      PROVE  Same
  BY <1>0, <1>5 DEF RefusePlan
<1>6. ASSUME NEW p \in Operators, p # o, Answered(p) \/ LoseSubmit(p)
      PROVE  Same
  BY <1>0, <1>6, <1>b DEF Answered, LoseSubmit, Gives, Turns
<1>7. ASSUME NEW p \in Operators, p # o, NEW n \in TaskNames, AskPlan(p, n) \/ FetchTask(p, n)
      PROVE  Same
  BY <1>0, <1>7, <1>c DEF AskPlan, FetchTask
<1>8. ASSUME NEW p \in Operators, p # o, NEW n \in TaskNames, NEW force \in BOOLEAN, AskTask(p, n, force)
      PROVE  Same
  BY <1>8, <1>c DEF AskTask
<1>9. ASSUME NEW p \in Operators, p # o, NEW text \in Texts, Replace(p, text) \/ Save(p, text) \/ AddFile(p, text)
      PROVE  Same
  <2>1. command[p] # NoCommand /\ command[p].does \in {"edit", "add"} => command[p].name \in TaskNames
    BY DEF FilesInv, Sound, Named
  <2>2. CASE Replace(p, text) \/ Save(p, text)
    BY <1>9, <1>a, <2>1, <2>2 DEF Replace, Save, Stands, Does
  <2>3. CASE AddFile(p, text)
    BY <1>0, <1>9, <1>a, <2>1, <2>3 DEF AddFile, Stands, Does, Turns
  <2> QED
    BY <1>9, <2>2, <2>3
<1>10. ASSUME NEW p \in Operators, p # o, NEW submits \in BOOLEAN, ShowList(p, submits)
      PROVE  Same
  BY <1>0, <1>10 DEF ShowList, Turns
<1>11. ASSUME NEW n \in TaskNames, NEW to \in HubStatus, TaskMoves(n, to)
      PROVE  Same
  BY <1>11, <1>d DEF TaskMoves
<1>12. ASSUME NEW n \in TaskNames, NEW text \in Texts, OrderRepair(n, text)
      PROVE  Same
  BY <1>12, <1>d DEF OrderRepair
<1>13. ASSUME NEW text \in Texts, Save(o, text)
      PROVE  Same
  BY <1>0, <1>13 DEF Save, Puts, Stands, Does
<1>14. ASSUME ReadPlan(o) \/ AskUnknown(o) \/ TryNote(o) \/ ListTasks(o) \/ ReadFiles(o)
      PROVE  command[o] # NoCommand /\ command[o].does # "edit"
  BY <1>14 DEF ReadPlan, AskUnknown, TryNote, ListTasks, ReadFiles, Stands, Does
<1>15. ASSUME Intake(o) \/ Revise(o) \/ Submit(o)
       PROVE  ~Busy(o)
  BY <1>15 DEF Intake, Revise, Submit, Starts
<1>16. ASSUME NEW n \in TaskNames, AskPlan(o, n) \/ FetchTask(o, n)
       PROVE  ~Busy(o) \/ (command[o] # NoCommand /\ command[o].does # "edit")
  BY <1>16 DEF AskPlan, FetchTask, Starts, Stands, Does
<1>17. ASSUME NEW n \in TaskNames, NEW force \in BOOLEAN, AskTask(o, n, force)
       PROVE  ~Busy(o)
  BY <1>17 DEF AskTask, Starts
<1>18. ASSUME NEW text \in Texts, AddFile(o, text)
       PROVE  command[o] # NoCommand /\ command[o].does # "edit"
  BY <1>18 DEF AddFile, Stands, Does
<1>19. ASSUME NEW submits \in BOOLEAN, ShowList(o, submits)
       PROVE  command[o] # NoCommand /\ command[o].does # "edit"
  BY <1>19 DEF ShowList, Stands, Does
<1>20. ASSUME Kill(o)
       PROVE  FALSE
  BY <1>0, <1>20 DEF Kill
<1> HIDE DEF Same
<1> QED
  <2> SUFFICES ASSUME ~Same PROVE
         \/ ReadFile(o) \/ OpenEditor(o) \/ RefuseEdit(o) \/ CloseEditor(o) \/ EditorFails(o) \/ CheckEdit(o)
         \/ PostPlan(o) \/ Answered(o) \/ LoseSubmit(o)
         \/ \E text \in Texts : Replace(o, text)
         \/ command[o] # NoCommand /\ command[o].does # "edit"
         \/ ~Busy(o)
    BY DEF Same
  <2>1. CASE \E n \in TaskNames, to \in HubStatus : TaskMoves(n, to)
    BY <1>11, <2>1
  <2>2. CASE \E n \in TaskNames, text \in Texts : OrderRepair(n, text)
    BY <1>12, <2>2
  <2>3. ASSUME NEW p \in Operators,
               \/ ReadFile(p) \/ OpenEditor(p) \/ RefuseEdit(p) \/ CloseEditor(p) \/ EditorFails(p) \/ CheckEdit(p)
               \/ ReadPlan(p) \/ AskUnknown(p) \/ Intake(p) \/ TryNote(p)
               \/ Revise(p) \/ ListTasks(p) \/ ReadFiles(p) \/ Submit(p)
               \/ PostPlan(p) \/ Publish(p) \/ RefusePlan(p) \/ Answered(p) \/ LoseSubmit(p) \/ Kill(p)
               \/ \E n \in TaskNames : AskPlan(p, n) \/ FetchTask(p, n)
               \/ \E n \in TaskNames, force \in BOOLEAN : AskTask(p, n, force)
               \/ \E text \in Texts : Replace(p, text) \/ Save(p, text) \/ AddFile(p, text)
               \/ \E submits \in BOOLEAN : ShowList(p, submits)
        PROVE  \/ ReadFile(o) \/ OpenEditor(o) \/ RefuseEdit(o) \/ CloseEditor(o) \/ EditorFails(o) \/ CheckEdit(o)
               \/ PostPlan(o) \/ Answered(o) \/ LoseSubmit(o)
               \/ \E text \in Texts : Replace(o, text)
               \/ command[o] # NoCommand /\ command[o].does # "edit"
               \/ ~Busy(o)
    <3>1. CASE p = o
      BY <1>4, <1>5, <1>13, <1>14, <1>15, <1>16, <1>17, <1>18, <1>19, <1>20, <2>3, <3>1, Zenon
    <3>2. CASE p # o
      BY <1>1, <1>2, <1>3, <1>4, <1>5, <1>6, <1>7, <1>8, <1>9, <1>10, <2>3, <3>2, Zenon
    <3> QED
      BY <3>1, <3>2
  <2> QED
    BY <2>1, <2>2, <2>3, Zenon DEF PlanFilesNext

LEMMA UndoneWhenFailed ==
  ASSUME FilesInv, PlanFilesNext
  PROVE  FailedEditsAreUndone
<1> SUFFICES ASSUME NEW o \in Operators, Does(o, "edit"), command[o].at \notin Over,
                    command[o].original # NoText, command'[o] # NoCommand, command'[o].at = "failed",
                    ~command[o].crossed
             PROVE  file'[command[o].name] = command[o].original
  BY DEF FailedEditsAreUndone
<1>1. /\ command \in [Operators -> Command \cup {NoCommand}] /\ Sound(o, command[o], file, note, hubTask, post)
      /\ command[o] # NoCommand /\ command[o].does = "edit" /\ command[o] \in Command
  BY DEF FilesInv, PlanFilesTypeOK, Does
<1>2. RefuseEdit(o) \/ EditorFails(o) \/ CheckEdit(o) \/ Answered(o) \/ LoseSubmit(o)
  <2>1. command'[o].at # command[o].at /\ Busy(o)
    BY <1>1 DEF Over, Busy
  <2>2. ~ReadFile(o)
    BY <1>1 DEF ReadFile, Stands, Sound, Remembers
  <2>3. ~OpenEditor(o) /\ ~CloseEditor(o) /\ ~PostPlan(o)
    <3>1. ASSUME OpenEditor(o) PROVE command'[o].at = "open"
      BY <1>1, <3>1 DEF OpenEditor, Command
    <3>2. ASSUME CloseEditor(o) PROVE command'[o].at = "edited"
      BY <1>1, <3>2 DEF CloseEditor, Command
    <3>3. ASSUME PostPlan(o) PROVE command'[o].at = "posted"
      BY <1>1, <3>3 DEF PostPlan, Command
    <3> QED
      BY <3>1, <3>2, <3>3
  <2>4. ~\E text \in Texts : Replace(o, text)
    <3> SUFFICES ASSUME NEW text \in Texts, Replace(o, text) PROVE FALSE
      OBVIOUS
    <3>1. command'[o].at = "edited"
      BY <1>1 DEF Replace, Puts, Command
    <3> QED
      BY <3>1
  <2> QED
    BY <1>1, <2>1, <2>2, <2>3, <2>4, OthersStayThere
<1>3. CASE RefuseEdit(o)
  <2>1. file' = file /\ command[o].at = "read"
    BY <1>3 DEF RefuseEdit, Stands, Does
  <2> QED
    BY <1>1, <2>1 DEF Sound, Remembers, Editing
<1>4. CASE EditorFails(o) \/ CheckEdit(o)
  <2>1. /\ command[o].at \in Editing /\ UNCHANGED <<note, hubTask, post>> /\ started' \in Nat /\ changes' \in Nat
    BY <1>4 DEF EditorFails, CheckEdit, Stands, Does, Editing, FilesInv, PlanFilesTypeOK
  <2>2. Undoes(o)
    <3>1. CASE EditorFails(o)
      BY <3>1 DEF EditorFails
    <3>2. CASE CheckEdit(o) /\ ~Valid(file)
      BY <3>2 DEF CheckEdit
    <3>3. CASE CheckEdit(o) /\ Valid(file)
      <4>1. command'[o].at = "ready"
        BY <1>1, <3>3 DEF CheckEdit, Turns, Command
      <4> QED
        BY <4>1
    <3> QED
      BY <1>4, <3>1, <3>2, <3>3
  <2> QED
    BY <1>1, <2>1, <2>2, UndoKeeps
<1>5. CASE Answered(o) \/ LoseSubmit(o)
  <2>1. /\ command[o].at \in Editing /\ UNCHANGED <<note, hubTask, post>> /\ started' \in Nat /\ changes' \in Nat
    BY <1>5 DEF Answered, LoseSubmit, Editing, FilesInv, PlanFilesTypeOK
  <2>2. Undoes(o)
    <3>1. CASE LoseSubmit(o)
      BY <1>1, <3>1 DEF LoseSubmit, Gives
    <3>2. CASE Answered(o) /\ post[o].answer # "ok"
      BY <1>1, <3>2 DEF Answered, Gives
    <3>3. CASE Answered(o) /\ post[o].answer = "ok"
      <4>1. command'[o].at = "ok"
        BY <1>1, <3>3 DEF Answered, Turns, Command
      <4> QED
        BY <4>1
    <3> QED
      BY <1>5, <3>1, <3>2, <3>3
  <2> QED
    BY <1>1, <2>1, <2>2, UndoKeeps
<1> QED
  BY <1>2, <1>3, <1>4, <1>5

\* Who writes files.
LEMMA WritersAre ==
  ASSUME FilesInv, PlanFilesNext, file' # file
  PROVE  \E o \in Operators :
           \/ EditorFails(o) \/ CheckEdit(o) \/ Answered(o) \/ LoseSubmit(o)
           \/ \E text \in Texts : Replace(o, text) \/ Save(o, text) \/ AddFile(o, text)
<1>1. ASSUME NEW p \in Operators,
             \/ ReadFile(p) \/ OpenEditor(p) \/ RefuseEdit(p) \/ CloseEditor(p)
             \/ ReadPlan(p) \/ AskUnknown(p) \/ Intake(p) \/ TryNote(p)
             \/ Revise(p) \/ ListTasks(p) \/ ReadFiles(p) \/ Submit(p)
             \/ PostPlan(p) \/ Publish(p) \/ RefusePlan(p) \/ Kill(p)
      PROVE  FALSE
  BY <1>1 DEF ReadFile, OpenEditor, RefuseEdit, CloseEditor, ReadPlan, AskUnknown, Intake, TryNote, Revise,
     ListTasks, ReadFiles, Submit, PostPlan, Publish, RefusePlan, Kill
<1>2. ASSUME NEW p \in Operators, NEW n \in TaskNames, AskPlan(p, n) \/ FetchTask(p, n)
      PROVE  FALSE
  BY <1>2 DEF AskPlan, FetchTask
<1>3. ASSUME NEW p \in Operators, NEW n \in TaskNames, NEW force \in BOOLEAN, AskTask(p, n, force)
      PROVE  FALSE
  BY <1>3 DEF AskTask
<1>4. ASSUME NEW p \in Operators, NEW submits \in BOOLEAN, ShowList(p, submits)
      PROVE  FALSE
  BY <1>4 DEF ShowList
<1>5. ASSUME NEW n \in TaskNames, NEW to \in HubStatus, TaskMoves(n, to)
      PROVE  FALSE
  BY <1>5 DEF TaskMoves
<1>6. ASSUME NEW n \in TaskNames, NEW text \in Texts, OrderRepair(n, text)
      PROVE  FALSE
  BY <1>6 DEF OrderRepair
<1> QED
  BY <1>1, <1>2, <1>3, <1>4, <1>5, <1>6, Zenon DEF PlanFilesNext

LEMMA OnlyEditsWrite ==
  ASSUME FilesInv, PlanFilesNext
  PROVE  FilesAreKept
<1> USE PlanFilesAssumption
<1> SUFFICES ASSUME NEW n \in TaskNames, file[n] # NoText, file'[n] # file[n]
             PROVE  file'[n] # NoText /\ \E o \in Operators : Does(o, "edit") /\ command[o].name = n
  BY DEF FilesAreKept
<1>1. PICK o \in Operators :
           \/ EditorFails(o) \/ CheckEdit(o) \/ Answered(o) \/ LoseSubmit(o)
           \/ \E text \in Texts : Replace(o, text) \/ Save(o, text) \/ AddFile(o, text)
  BY WritersAre
<1>2. file \in Directory /\ Sound(o, command[o], file, note, hubTask, post)
  BY DEF FilesInv, PlanFilesTypeOK
<1>3. CASE EditorFails(o) \/ CheckEdit(o)
  <2>1. /\ command[o].at \in Editing /\ UNCHANGED <<note, hubTask, post>> /\ started' \in Nat /\ changes' \in Nat
        /\ Does(o, "edit")
    BY <1>3 DEF EditorFails, CheckEdit, Stands, Does, Editing, FilesInv, PlanFilesTypeOK
  <2>2. Undoes(o)
    BY <1>3 DEF EditorFails, CheckEdit
  <2>3. file'[n] # file[n] => n = command[o].name
    BY <2>1, <2>2, UndoKeeps DEF Does
  <2>4. file'[command[o].name] \in Texts
    BY <2>1, <2>2, UndoKeeps DEF Does
  <2> QED
    BY <2>1, <2>3, <2>4
<1>4. CASE Answered(o) \/ LoseSubmit(o)
  <2>1. /\ command[o].at \in Editing /\ UNCHANGED <<note, hubTask, post>> /\ started' \in Nat /\ changes' \in Nat
        /\ Gives(o) /\ command[o] # NoCommand
    BY <1>4 DEF Answered, LoseSubmit, Editing, FilesInv, PlanFilesTypeOK
  <2>2. Undoes(o) /\ command[o].does = "edit"
    BY <2>1 DEF Gives
  <2>3. file'[n] # file[n] => n = command[o].name
    BY <2>1, <2>2, UndoKeeps
  <2>4. file'[command[o].name] \in Texts
    BY <2>1, <2>2, UndoKeeps
  <2> QED
    BY <2>1, <2>2, <2>3, <2>4 DEF Does
<1>5. ASSUME NEW text \in Texts, Replace(o, text) \/ Save(o, text)
      PROVE  file'[n] # NoText /\ \E p \in Operators : Does(p, "edit") /\ command[p].name = n
  <2>1. Does(o, "edit") /\ file' = [file EXCEPT ![command[o].name] = text]
    BY <1>5 DEF Replace, Save, Stands, Puts
  <2>2. n = command[o].name /\ file'[n] = text
    BY <1>2, <2>1 DEF Directory
  <2> QED
    BY <2>1, <2>2
<1>6. ASSUME NEW text \in Texts, AddFile(o, text)
      PROVE  FALSE
  <2>1. file' = [file EXCEPT ![command[o].name] = text] /\ file[command[o].name] = NoText
    BY <1>6 DEF AddFile, MayCreate, Puts
  <2> QED
    BY <1>2, <2>1 DEF Directory
<1> QED
  BY <1>1, <1>3, <1>4, <1>5, <1>6

LEMMA NotesStay ==
  ASSUME FilesInv, PlanFilesNext
  PROVE  NotesAreKept
<1> SUFFICES ASSUME NEW k \in 1 .. NoteBound, note[k] # NoName PROVE note'[k] = note[k]
  BY DEF NotesAreKept
<1>1. ASSUME NEW o \in Operators, TryNote(o) PROVE note'[k] = note[k]
  BY <1>1 DEF TryNote, FilesInv, PlanFilesTypeOK
<1>2. ASSUME NEW o \in Operators,
             \/ ReadFile(o) \/ OpenEditor(o) \/ RefuseEdit(o) \/ CloseEditor(o) \/ EditorFails(o) \/ CheckEdit(o)
             \/ ReadPlan(o) \/ AskUnknown(o) \/ Intake(o)
             \/ Revise(o) \/ ListTasks(o) \/ ReadFiles(o) \/ Submit(o)
             \/ PostPlan(o) \/ Publish(o) \/ RefusePlan(o) \/ Answered(o) \/ LoseSubmit(o) \/ Kill(o)
      PROVE  note' = note
  BY <1>2 DEF ReadFile, OpenEditor, RefuseEdit, CloseEditor, EditorFails, CheckEdit, ReadPlan, AskUnknown, Intake,
     Revise, ListTasks, ReadFiles, Submit, PostPlan, Publish, RefusePlan, Answered, LoseSubmit, Kill
<1>3. ASSUME NEW o \in Operators, NEW n \in TaskNames, AskPlan(o, n) \/ FetchTask(o, n)
      PROVE  note' = note
  BY <1>3 DEF AskPlan, FetchTask
<1>4. ASSUME NEW o \in Operators, NEW n \in TaskNames, NEW force \in BOOLEAN, AskTask(o, n, force)
      PROVE  note' = note
  BY <1>4 DEF AskTask
<1>5. ASSUME NEW o \in Operators, NEW text \in Texts, Replace(o, text) \/ Save(o, text) \/ AddFile(o, text)
      PROVE  note' = note
  BY <1>5 DEF Replace, Save, AddFile
<1>6. ASSUME NEW o \in Operators, NEW submits \in BOOLEAN, ShowList(o, submits)
      PROVE  note' = note
  BY <1>6 DEF ShowList
<1>7. ASSUME NEW n \in TaskNames, NEW to \in HubStatus, TaskMoves(n, to)
      PROVE  note' = note
  BY <1>7 DEF TaskMoves
<1>8. ASSUME NEW n \in TaskNames, NEW text \in Texts, OrderRepair(n, text)
      PROVE  note' = note
  BY <1>8 DEF OrderRepair
<1> QED
  BY <1>1, <1>2, <1>3, <1>4, <1>5, <1>6, <1>7, <1>8, Zenon DEF PlanFilesNext

\* Only the hub answers a submission.
LEMMA AnswersCome ==
  ASSUME FilesInv, PlanFilesNext, NEW o \in Operators, Stands(o, "revise", "posted"),
         post[o].answer = "none", post'[o] # NoPost, post'[o].answer = "ok"
  PROVE  Publish(o)
<1>0. post \in [Operators -> Submitted \cup {NoPost}] /\ post'[o] # post[o] /\ command[o].at = "posted"
  BY DEF FilesInv, PlanFilesTypeOK, Stands
<1>1. ASSUME NEW p \in Operators,
             \/ ReadFile(p) \/ OpenEditor(p) \/ RefuseEdit(p) \/ CloseEditor(p) \/ EditorFails(p) \/ CheckEdit(p)
             \/ ReadPlan(p) \/ AskUnknown(p) \/ Intake(p) \/ TryNote(p)
             \/ Revise(p) \/ ListTasks(p) \/ ReadFiles(p) \/ Submit(p)
             \/ Answered(p) \/ LoseSubmit(p) \/ Kill(p)
      PROVE  FALSE
  BY <1>0, <1>1 DEF ReadFile, OpenEditor, RefuseEdit, CloseEditor, EditorFails, CheckEdit, ReadPlan, AskUnknown,
     Intake, TryNote, Revise, ListTasks, ReadFiles, Submit, Answered, LoseSubmit, Kill
<1>2. ASSUME NEW p \in Operators, PostPlan(p)
      PROVE  FALSE
  BY <1>0, <1>2 DEF PostPlan
<1>3. ASSUME NEW p \in Operators, RefusePlan(p)
      PROVE  FALSE
  <2>1. CASE p = o
    <3>1. PICK r : r = [post[o] EXCEPT !.answer = "refused"]
      OBVIOUS
    <3>2. post[o] \in Submitted
      BY <1>0, <1>3, <2>1 DEF RefusePlan
    <3>3. r.answer = "refused"
      BY <3>1, <3>2 DEF Submitted
    <3>4. post'[o] = r
      BY <1>0, <1>3, <2>1, <3>1 DEF RefusePlan
    <3> QED
      BY <3>3, <3>4
  <2>2. CASE p # o
    BY <1>0, <1>3, <2>2 DEF RefusePlan
  <2> QED
    BY <2>1, <2>2
<1>4. ASSUME NEW p \in Operators, Publish(p)
      PROVE  p = o
  BY <1>0, <1>4 DEF Publish
<1>5. ASSUME NEW p \in Operators, NEW n \in TaskNames, AskPlan(p, n) \/ FetchTask(p, n)
      PROVE  FALSE
  BY <1>0, <1>5 DEF AskPlan, FetchTask
<1>6. ASSUME NEW p \in Operators, NEW n \in TaskNames, NEW force \in BOOLEAN, AskTask(p, n, force)
      PROVE  FALSE
  BY <1>0, <1>6 DEF AskTask
<1>7. ASSUME NEW p \in Operators, NEW text \in Texts, Replace(p, text) \/ Save(p, text) \/ AddFile(p, text)
      PROVE  FALSE
  BY <1>0, <1>7 DEF Replace, Save, AddFile
<1>8. ASSUME NEW p \in Operators, NEW submits \in BOOLEAN, ShowList(p, submits)
      PROVE  FALSE
  BY <1>0, <1>8 DEF ShowList
<1>9. ASSUME NEW n \in TaskNames, NEW to \in HubStatus, TaskMoves(n, to)
      PROVE  FALSE
  BY <1>0, <1>9 DEF TaskMoves
<1>10. ASSUME NEW n \in TaskNames, NEW text \in Texts, OrderRepair(n, text)
      PROVE  FALSE
  BY <1>0, <1>10 DEF OrderRepair
<1> QED
  BY <1>1, <1>2, <1>3, <1>4, <1>5, <1>6, <1>7, <1>8, <1>9, <1>10, Zenon DEF PlanFilesNext

LEMMA ListedIsDone ==
  ASSUME FilesInv, PlanFilesNext
  PROVE  ListIsCarriedOut
<1> USE PlanFilesAssumption
<1> SUFFICES ASSUME NEW o \in Operators, Stands(o, "revise", "posted"), ~command[o].crossed, ~command[o].moved,
                    post[o].answer = "none", post'[o] # NoPost, post'[o].answer = "ok",
                    NEW n \in TaskNames
             PROVE  hubTask'[n] # hubTask[n] <=> Action(command[o], n) \in {"create", "update"}
  BY DEF ListIsCarriedOut
<1>1. Publish(o)
  BY AnswersCome
<1>2. /\ command[o] # NoCommand /\ command[o].does = "revise" /\ command[o].at = "posted"
      /\ Sound(o, command[o], file, note, hubTask, post) /\ file \in Directory /\ hubTask \in [TaskNames -> HubTask]
  BY DEF Stands, Does, FilesInv, PlanFilesTypeOK
<1>3. command[o].reading = file /\ command[o].left = {} /\ post[o].files = file
  BY <1>2 DEF Sound, Lists, Sent
<1>4. command[o].seen[n] = hubTask[n]
  BY <1>2, <1>3 DEF Sound, Lists
<1>5. PICK t : t = hubTask[n]
  OBVIOUS
<1>6. t \in HubTask /\ file[n] \in Texts \cup {NoText}
  BY <1>2, <1>5 DEF Directory
<1>7. PICK w : w = [status |-> "pending", text |-> file[n], repair |-> t.repair]
  OBVIOUS
<1>8. hubTask'[n] = IF file[n] # NoText /\ t.status \in {"missing", "pending"} THEN w ELSE t
  BY <1>1, <1>3, <1>5, <1>7 DEF Publish, Taken
<1>9. w.status = "pending" /\ w.text = file[n]
  BY <1>7
<1>10. t.status = "pending" /\ t.text = file[n] => t = w
  BY <1>6, <1>7 DEF HubTask
<1>11. hubTask'[n] # t <=> file[n] # NoText /\ (t.status = "missing" \/ (t.status = "pending" /\ t.text # file[n]))
  BY <1>8, <1>9, <1>10
<1>12. PICK c : c = command[o]
  OBVIOUS
<1>13. c.reading = file /\ c.seen[n] = t
  BY <1>3, <1>4, <1>5, <1>12
<1>14. Action(c, n) \in {"create", "update"}
         <=> file[n] # NoText /\ (t.status = "missing" \/ (t.status = "pending" /\ t.text # file[n]))
  <2>1. CASE file[n] = NoText
    BY <1>13, <2>1 DEF Action
  <2>2. CASE file[n] # NoText /\ t.status = "missing"
    BY <1>13, <2>2 DEF Action
  <2>3. CASE file[n] # NoText /\ t.status = "pending"
    BY <1>13, <2>3 DEF Action
  <2>4. CASE file[n] # NoText /\ t.status # "missing" /\ t.status # "pending"
    BY <1>13, <2>4 DEF Action
  <2> QED
    BY <2>1, <2>2, <2>3, <2>4
<1> QED
  BY <1>5, <1>11, <1>12, <1>14

\* The planning commands: an edit that fails is undone; files and requirements are
\* kept, whoever works in the directory beside them; the list of a comparison is
\* what its submission does; and an acknowledged edit has reached the hub
\* (src/cli/planning.ts).
THEOREM PlanFilesSafe == PlanFilesSpec => PlanFilesAreSafe
<1>1. FilesInv /\ [PlanFilesNext]_planFilesVars =>
        [FailedEditsAreUndone /\ FilesAreKept /\ NotesAreKept /\ ListIsCarriedOut]_planFilesVars
  <2> SUFFICES ASSUME FilesInv, PlanFilesNext
               PROVE  FailedEditsAreUndone /\ FilesAreKept /\ NotesAreKept /\ ListIsCarriedOut
    OBVIOUS
  <2> QED
    BY UndoneWhenFailed, OnlyEditsWrite, NotesStay, ListedIsDone
<1>2. FilesInv => PlanFilesTypeOK /\ NotesAreOwn /\ EditsReachTheHub
  <2> SUFFICES ASSUME FilesInv PROVE PlanFilesTypeOK /\ NotesAreOwn /\ EditsReachTheHub
    OBVIOUS
  <2>1. \A o \in Operators : Sound(o, command[o], file, note, hubTask, post)
    BY DEF FilesInv
  <2>2. NotesAreOwn
    BY <2>1 DEF Sound, Noted, NotesAreOwn, Stands, Does
  <2>3. EditsReachTheHub
    BY <2>1 DEF Sound, Reaches, EditsReachTheHub, Stands, Does
  <2> QED
    BY <2>2, <2>3 DEF FilesInv
<1> QED
  BY InitIsFiled, FilesKeep, <1>1, <1>2, PTL DEF PlanFilesSpec, PlanFilesAreSafe

-----------------------------------------------------------------------------
(* All of them.                                                            *)

\* Whichever of them moves, the state of all of them is of its type.
THEOREM ServicesTypes == Spec => []ServicesTypesOK
<1> DEFINE Inv == /\ MergeInv /\ WorkspaceInv /\ AttemptsInv /\ DaemonInv /\ FilesInv
                  /\ part \in {"merge", "workspace", "attempts", "daemon", "commands"}
<1>1. Init => Inv
  BY InitMergeInv, InitWorkspaceInv, InitAttemptsInv, InitDaemonInv, InitIsFiled DEF Init
<1>2. Inv /\ [Next]_allVars => Inv'
  <2> SUFFICES ASSUME Inv, [Next]_allVars PROVE Inv'
    OBVIOUS
  <2>1. /\ [MergeNext]_mergeVars /\ [WorkspaceNext]_wsVars /\ [NodesNext]_attemptVars /\ [DaemonNext]_daemonVars
        /\ [PlanFilesNext]_planFilesVars /\ part' = part
    BY DEF Next, allVars
  <2> QED
    BY <2>1, MergeInvStep, WorkspaceInvStep, AttemptsInvStep, DaemonInvStep, FilesKeep
<1>3. Inv => ServicesTypesOK
  BY DEF ServicesTypesOK, MergeInv, WorkspaceInv, AttemptsInv, DaemonInv, FilesInv
<1> QED
  BY <1>1, <1>2, <1>3, PTL DEF Spec

\* Attempts and daemons side by side: one attempt at most executes a task and a takeover
\* spares a newer one, and a daemon watches what it runs, knows what it adopted and begins
\* nothing once stopped (NodeAttempts, NodeDaemon).
THEOREM NodesSafe == Spec => NodesAreSafe
<1>1. Init => NodesInit /\ DaemonInit
  BY DEF Init
<1>2. [Next]_allVars => [NodesNext]_attemptVars /\ [DaemonNext]_daemonVars
  BY DEF Next, allVars
<1>3. Spec => NodesSpec /\ DaemonSpec
  BY <1>1, <1>2, PTL DEF Spec, NodesSpec, DaemonSpec
<1> QED
  BY <1>3, Attempts_Safe, Daemon_Safe, PTL DEF NodesAreSafe

=============================================================================
