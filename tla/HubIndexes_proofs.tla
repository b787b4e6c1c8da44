--------------------------- MODULE HubIndexes_proofs ---------------------------
(***************************************************************************)
(* Proofs about the indexes the hub keeps beside its tasks, and about the  *)
(* supervisor that lives off them.  One inductive invariant a component:   *)
(*                                                                         *)
(* AgentEpoch: for any number of sessions, calls and crashes, SQLite and   *)
(* Redis agree on who speaks for an agent, a session that was replaced or  *)
(* went offline does not come back, and without a crash only the newest    *)
(* one moves the agent.                                                    *)
(*                                                                         *)
(* PmIntake: no event the PM has to see is skipped by the cursor, what     *)
(* waits for it is in the indexes its intake is read from, and one round   *)
(* of a task rings for its review once.                                    *)
(*                                                                         *)
(* PlanProjection: the aggregate of a plan that is not dirty is the count  *)
(* of its tasks but those a backfill took off the lists, and a request     *)
(* answers with nothing older than it was, unless too many writes crossed  *)
(* its rebuilds.                                                           *)
(*                                                                         *)
(* RestoreGate: one restore at a time publishes what SQLite holds, into an *)
(* empty namespace nobody writes to.                                       *)
(*                                                                         *)
(* SupervisorWorkers: no two slots share a task, slots reported offline    *)
(* have nothing left, and open work is never left to nobody.               *)
(***************************************************************************)
EXTENDS MCHubIndexes, TLAPS, FiniteSetTheorems, SequenceTheorems

\* The published session is one of those Redis knows.
CurrentIsKnown == IF known = {} THEN epoch.id = NoSession ELSE epoch.id \in known

RowsDiffer == \A m, n \in DOMAIN ledger : ledger[m] = ledger[n] => m = n

\* What Redis knows has a row, and the newest row is current once it is known.
RowsLead ==
  /\ ~durable => ledger = <<>>
  /\ ledger # <<>> => known \subseteq {ledger[n] : n \in DOMAIN ledger}
  /\ ledger # <<>> /\ Newest \in known => epoch.id = Newest

PublishedHasRow ==
  durable /\ epoch.generation > 0 => epoch.generation \in DOMAIN ledger /\ ledger[epoch.generation] = epoch.id

\* A session that was published before sessions were numbered: so were those before it.
UnnumberedIsOld ==
  durable /\ epoch.generation = 0 =>
    \A n \in DOMAIN ledger : ledger[n] = epoch.id => \A m \in 1..n : ledger[m] \in known

\* A registration on its way to Redis has its row.
SentHasRow ==
  \A h \in Handlers : durable /\ call[h] # NoCall /\ call[h].kind = "register" /\ call[h].step # "entered" =>
    call[h].generation \in DOMAIN ledger /\ ledger[call[h].generation] = call[h].id

\* The mutex; without a crash, what was checked is still so when the script runs.
OneInside ==
  /\ \A h, k \in Handlers : call[h] # NoCall /\ call[k] # NoCall /\ call[h].step # "stray"
                            /\ call[k].step # "stray" => h = k
  /\ hubCrashes = 0 =>
       \A h \in Handlers : call[h] # NoCall =>
         /\ call[h].step # "stray"
         /\ durable /\ ledger # <<>> /\ call[h].kind # "register" /\ call[h].step = "sent" => call[h].id = Newest

EpochInv ==
  /\ EpochTypeOK /\ CurrentIsKnown /\ RowsDiffer /\ RowsLead /\ PublishedHasRow /\ UnnumberedIsOld
  /\ SentHasRow /\ OneInside

LEMMA InitEpochInv == EpochInit => EpochInv
<1> SUFFICES ASSUME EpochInit PROVE EpochInv
  OBVIOUS
<1>1. /\ ledger = <<>> /\ Len(ledger) = 0 /\ DOMAIN ledger = {} /\ epoch.generation = 0
      /\ call = [h \in Handlers |-> NoCall] /\ hubCrashes = 0 /\ restores = 0 /\ known \in SUBSET Sessions
  BY DEF EpochInit
<1>2. /\ epoch \in [id : Sessions \cup {NoSession}, generation : Nat, standing : Standing]
      /\ CurrentIsKnown
  BY DEF EpochInit, CurrentIsKnown, Standing
<1>3. ledger \in Seq(Sessions) /\ Len(ledger) <= Cardinality(Sessions)
  BY <1>1, FS_CardinalityType, SessionAssumption
<1>4. EpochTypeOK
  BY <1>1, <1>2, <1>3, EpochBoundAssumption DEF EpochTypeOK, EpochInit
<1> QED
  BY <1>1, <1>2, <1>4 DEF EpochInv, RowsDiffer, RowsLead, PublishedHasRow, UnnumberedIsOld, SentHasRow, OneInside

-----------------------------------------------------------------------------
(* The rows of SQLite.                                                     *)

\* Distinct rows are no more than there are sessions.
LEMMA RowsAreFew ==
  ASSUME NEW issued \in Seq(Sessions), \A m, n \in DOMAIN issued : issued[m] = issued[n] => m = n
  PROVE  Len(issued) <= Cardinality(Sessions)
<1>1. issued \in Injection(1..Len(issued), Sessions)
  BY DEF Injection, IsInjective
<1>2. Cardinality(1..Len(issued)) <= Cardinality(Sessions)
  BY <1>1, FS_Injection, SessionAssumption
<1>3. Len(issued) \in Nat /\ 1 \in Int /\ Len(issued) \in Int
  OBVIOUS
<1>4. Cardinality(1..Len(issued)) = IF 1 > Len(issued) THEN 0 ELSE Len(issued) - 1 + 1
  BY <1>3, FS_Interval
<1> QED
  BY <1>2, <1>3, <1>4

\* An order of the known sessions names each of them once.
LEMMA SeedsAreRows ==
  ASSUME NEW issued \in Seeds, known \in SUBSET Sessions
  PROVE  /\ issued \in Seq(Sessions) /\ {issued[n] : n \in DOMAIN issued} = known
         /\ \A m, n \in DOMAIN issued : issued[m] = issued[n] => m = n
         /\ known # {} => Len(issued) \in DOMAIN issued /\ issued[Len(issued)] = epoch.id
<1> DEFINE size == Cardinality(known)
<1>1. IsFiniteSet(known) /\ size \in Nat
  BY FS_Subset, FS_CardinalityType, SessionAssumption
<1> HIDE DEF size
<1>2. issued \in [1..size -> known] /\ {issued[n] : n \in DOMAIN issued} = known
  BY DEF Seeds, Seeds_Unordered, size
<1>3. issued \in Surjection(1..size, known)
  BY <1>2 DEF Surjection
<1>4. IsFiniteSet(1..size) /\ Cardinality(1..size) = Cardinality(known)
  BY <1>1, FS_Interval DEF size
<1>5. issued \in Injection(1..size, known)
  BY <1>3, <1>4, FS_SurjSameCardinalityImpliesInj
<1>6. issued \in Seq(Sessions) /\ Len(issued) = size
  BY <1>1, <1>2, SeqDef
<1>7. known # {} => size # 0 /\ issued[size] = epoch.id
  BY <1>1, FS_EmptySet DEF Seeds, size
<1> QED
  BY <1>1, <1>2, <1>5, <1>6, <1>7 DEF Injection, IsInjective

\* What an addition to the rows changes.
LEMMA RowsAdded ==
  ASSUME NEW issued \in Seq(Sessions), NEW i \in Sessions,
         \A m, n \in DOMAIN issued : issued[m] = issued[n] => m = n, Numbers(i, issued) = {}
  PROVE  /\ Append(issued, i) \in Seq(Sessions) /\ Len(Append(issued, i)) = Len(issued) + 1
         /\ Append(issued, i)[Len(issued) + 1] = i
         /\ DOMAIN issued \subseteq DOMAIN Append(issued, i)
         /\ DOMAIN Append(issued, i) = DOMAIN issued \cup {Len(issued) + 1}
         /\ \A n \in DOMAIN issued : Append(issued, i)[n] = issued[n] /\ issued[n] # i /\ n # Len(issued) + 1
         /\ \A m, n \in DOMAIN Append(issued, i) : Append(issued, i)[m] = Append(issued, i)[n] => m = n
<1>1. \A n \in DOMAIN issued : issued[n] # i
  BY DEF Numbers
<1> QED
  BY <1>1

-----------------------------------------------------------------------------
(* The steps of a call.                                                    *)

CallRest == UNCHANGED <<durable, epoch, known, hubCrashes, restores>>

\* One handler's call changes, and neither store does.
LEMMA CallStepInv ==
  ASSUME EpochInv, UNCHANGED <<ledger, durable, epoch, known, hubCrashes, restores>>,
         call' \in [Handlers -> EpochCall \cup {NoCall}],
         SentHasRow', OneInside'
  PROVE  EpochInv'
<1>1. Newest' = Newest
  BY DEF Newest
<1> QED
  BY <1>1 DEF EpochInv, EpochTypeOK, CurrentIsKnown, RowsDiffer, RowsLead, PublishedHasRow, UnnumberedIsOld

LEMMA FreeKeeps ==
  ASSUME EpochInv, NEW h \in Handlers, Free(h), UNCHANGED <<ledger, durable, hubCrashes>>
  PROVE  call' \in [Handlers -> EpochCall \cup {NoCall}] /\ SentHasRow' /\ OneInside'
<1>1. Newest' = Newest
  BY DEF Newest
<1>2. \A k \in Handlers : call'[k] = NoCall \/ call'[k] = call[k]
  BY DEF Free, EpochInv, EpochTypeOK
<1> QED
  BY <1>1, <1>2 DEF Free, EpochInv, EpochTypeOK, SentHasRow, OneInside

\* What is sent keeps the kind and the session of the call.
LEMMA SendKeeps ==
  ASSUME EpochInv, NEW h \in Handlers, call[h] # NoCall, NEW g \in Nat, Send(h, g)
  PROVE  /\ call' \in [Handlers -> EpochCall \cup {NoCall}]
         /\ call'[h] # NoCall /\ call'[h].kind = call[h].kind /\ call'[h].id = call[h].id
         /\ call'[h].generation = g /\ call'[h].step = "sent"
         /\ \A k \in Handlers : k # h => call'[k] = call[k]
<1>1. call[h] \in EpochCall
  BY DEF EpochInv, EpochTypeOK
<1>2. [call[h] EXCEPT !.step = "sent", !.generation = g] \in EpochCall
  BY <1>1 DEF EpochCall
<1>3. call' = [call EXCEPT ![h] = [call[h] EXCEPT !.step = "sent", !.generation = g]]
  BY DEF Send, EpochInv, EpochTypeOK
<1>4. call'[h] = [call[h] EXCEPT !.step = "sent", !.generation = g]
  BY <1>3 DEF EpochInv, EpochTypeOK
<1> QED
  BY <1>1, <1>2, <1>3, <1>4, SessionAssumption DEF EpochInv, EpochTypeOK, EpochCall

LEMMA EnterInv ==
  ASSUME EpochInv, NEW h \in Handlers, NEW k \in EpochKind, NEW i \in Sessions, Enter(h, k, i)
  PROVE  EpochInv'
<1> DEFINE c == [kind |-> k, id |-> i, generation |-> 0, step |-> "entered"]
<1>1. c \in EpochCall /\ c.step = "entered"
  BY DEF EpochCall
<1>2. call' = [call EXCEPT ![h] = c] /\ UNCHANGED <<ledger, durable, epoch, known, hubCrashes, restores>>
  BY DEF Enter, Storage, Published
<1> HIDE DEF c
<1>3. call' \in [Handlers -> EpochCall \cup {NoCall}] /\ call'[h] = c /\ \A j \in Handlers : j # h => call'[j] = call[j]
  BY <1>1, <1>2 DEF EpochInv, EpochTypeOK
<1>4. \A j \in Handlers : call[j] # NoCall => call[j].step = "stray"
  BY DEF Enter, MutexFree
<1>5. Newest' = Newest
  BY <1>2 DEF Newest
<1>6. SentHasRow'
  BY <1>1, <1>2, <1>3 DEF SentHasRow, EpochInv
<1>7. OneInside'
  BY <1>1, <1>2, <1>3, <1>4, <1>5 DEF OneInside, EpochInv
<1> QED
  BY <1>2, <1>3, <1>6, <1>7, CallStepInv

\* heartbeat, offline and claim look into SQLite.
LEMMA CheckInv ==
  ASSUME EpochInv, NEW h \in Handlers, Check(h)
  PROVE  EpochInv'
<1>1. /\ call[h] # NoCall /\ call[h].kind # "register" /\ call[h].step = "entered"
      /\ UNCHANGED <<ledger, durable, epoch, known, hubCrashes, restores>>
  BY DEF Check, Storage, Published
<1>2. CASE DurablyCurrent(call[h].id) /\ Send(h, 0)
  <2>1. /\ call' \in [Handlers -> EpochCall \cup {NoCall}]
        /\ call'[h] # NoCall /\ call'[h].kind = call[h].kind /\ call'[h].id = call[h].id
        /\ call'[h].step = "sent" /\ \A k \in Handlers : k # h => call'[k] = call[k]
    BY <1>1, <1>2, SendKeeps
  <2>2. Newest' = Newest
    BY <1>1 DEF Newest
  <2>3. SentHasRow'
    BY <1>1, <2>1 DEF SentHasRow, EpochInv
  <2>4. OneInside'
    BY <1>1, <1>2, <2>1, <2>2 DEF OneInside, EpochInv, DurablyCurrent
  <2> QED
    BY <1>1, <2>1, <2>3, <2>4, CallStepInv
<1>3. CASE Free(h)
  BY <1>1, <1>3, FreeKeeps, CallStepInv
<1> QED
  BY <1>2, <1>3 DEF Check

\* The rows are read from Redis while there are none, and get the new session.
LEMMA NumberedInv ==
  ASSUME EpochInv, NEW h \in Handlers, call[h] # NoCall, call[h].kind = "register", call[h].step = "entered",
         durable, CallRest, NEW issued \in IF ledger = <<>> THEN Seeds ELSE {ledger},
         \/ ledger' = issued /\ Free(h)
         \/ Numbers(call[h].id, issued) = {Len(issued)} /\ ledger' = issued /\ Send(h, Len(issued))
         \/ Numbers(call[h].id, issued) = {} /\ ledger' = Append(issued, call[h].id) /\ Send(h, Len(issued) + 1)
  PROVE  EpochInv'
<1> DEFINE i == call[h].id
<1> USE DEF CallRest
<1>1. call[h] \in EpochCall /\ i \in Sessions /\ known \in SUBSET Sessions /\ ledger \in Seq(Sessions)
  BY DEF EpochInv, EpochTypeOK, EpochCall
<1>2. /\ issued \in Seq(Sessions) /\ known \subseteq {issued[n] : n \in DOMAIN issued}
      /\ \A m, n \in DOMAIN issued : issued[m] = issued[n] => m = n
      /\ issued # <<>> /\ issued[Len(issued)] \in known => epoch.id = issued[Len(issued)]
      /\ ledger # <<>> => issued = ledger
      /\ ledger = <<>> => known = {issued[n] : n \in DOMAIN issued}
  BY <1>1, SeedsAreRows DEF EpochInv, RowsDiffer, RowsLead, Newest
<1>3. epoch.generation > 0 => epoch.generation \in DOMAIN issued /\ issued[epoch.generation] = epoch.id
  BY <1>2 DEF EpochInv, PublishedHasRow
<1>4. epoch.generation = 0 => \A n \in DOMAIN issued : issued[n] = epoch.id => \A m \in 1..n : issued[m] \in known
  <2>1. CASE ledger = <<>>
    BY <1>2, <2>1
  <2>2. CASE ledger # <<>>
    BY <1>2, <2>2 DEF EpochInv, UnnumberedIsOld
  <2> QED
    BY <2>1, <2>2
<1>5. \A k \in Handlers : call[k] # NoCall /\ call[k].kind = "register" /\ call[k].step # "entered" =>
        ledger # <<>> /\ call[k].generation \in DOMAIN issued /\ issued[call[k].generation] = call[k].id
  BY <1>2 DEF EpochInv, SentHasRow
<1>6. \A k \in Handlers : k # h /\ call[k] # NoCall => call[k].step = "stray"
  BY DEF EpochInv, OneInside
<1>7. epoch.id \in known \/ epoch.id = NoSession
  BY DEF EpochInv, CurrentIsKnown
<1> HIDE DEF i
<1>8. ASSUME ledger' = issued, call' \in [Handlers -> EpochCall \cup {NoCall}],
             \A k \in Handlers : k # h => call'[k] = call[k],
             call'[h] = NoCall \/ (call'[h].kind = "register" /\ call'[h].step = "sent"
                                    /\ call'[h].id = i /\ call'[h].generation \in DOMAIN issued
                                    /\ issued[call'[h].generation] = i)
      PROVE  EpochInv'
  <2>1. Newest' = issued[Len(issued)]
    BY <1>8 DEF Newest
  <2>2. EpochTypeOK'
    BY <1>2, <1>8, RowsAreFew DEF EpochInv, EpochTypeOK
  <2>3. CurrentIsKnown' /\ RowsDiffer' /\ RowsLead'
    BY <1>2, <1>8, <2>1 DEF EpochInv, CurrentIsKnown, RowsDiffer, RowsLead
  <2>4. PublishedHasRow' /\ UnnumberedIsOld'
    BY <1>3, <1>4, <1>8 DEF PublishedHasRow, UnnumberedIsOld
  <2>5. SentHasRow'
    BY <1>5, <1>8 DEF SentHasRow
  <2>6. OneInside'
    BY <1>6, <1>8, <2>1 DEF OneInside, EpochInv
  <2> QED
    BY <2>2, <2>3, <2>4, <2>5, <2>6 DEF EpochInv
<1>9. CASE ledger' = issued /\ Free(h)
  <2>1. call' \in [Handlers -> EpochCall \cup {NoCall}] /\ call'[h] = NoCall
          /\ \A k \in Handlers : k # h => call'[k] = call[k]
    BY <1>9 DEF Free, EpochInv, EpochTypeOK
  <2> QED
    BY <1>8, <1>9, <2>1
<1>10. CASE Numbers(i, issued) = {Len(issued)} /\ ledger' = issued /\ Send(h, Len(issued))
  <2>1. Len(issued) \in DOMAIN issued /\ issued[Len(issued)] = i /\ Len(issued) \in Nat
    BY <1>2, <1>10 DEF Numbers
  <2>2. /\ call' \in [Handlers -> EpochCall \cup {NoCall}]
        /\ call'[h].kind = "register" /\ call'[h].id = i /\ call'[h].generation = Len(issued)
        /\ call'[h].step = "sent" /\ \A k \in Handlers : k # h => call'[k] = call[k]
    BY <1>10, <2>1, SendKeeps DEF i
  <2> QED
    BY <1>8, <1>10, <2>1, <2>2
<1>11. CASE Numbers(i, issued) = {} /\ ledger' = Append(issued, i) /\ Send(h, Len(issued) + 1)
  <2> DEFINE new == Append(issued, i)
  <2>1. /\ new \in Seq(Sessions) /\ Len(new) = Len(issued) + 1 /\ new[Len(issued) + 1] = i
        /\ DOMAIN issued \subseteq DOMAIN new /\ DOMAIN new = DOMAIN issued \cup {Len(issued) + 1}
        /\ \A n \in DOMAIN issued : new[n] = issued[n] /\ issued[n] # i /\ n # Len(issued) + 1
        /\ \A m, n \in DOMAIN new : new[m] = new[n] => m = n
    BY <1>1, <1>2, <1>11, RowsAdded DEF i
  <2>2. ledger' = new /\ Len(issued) + 1 \in Nat /\ DOMAIN issued = 1..Len(issued) /\ Len(issued) \in Nat
    BY <1>2, <1>11
  <2>3. /\ call' \in [Handlers -> EpochCall \cup {NoCall}]
        /\ call'[h] # NoCall /\ call'[h].kind = "register" /\ call'[h].id = i /\ call'[h].generation = Len(issued) + 1
        /\ call'[h].step = "sent" /\ \A k \in Handlers : k # h => call'[k] = call[k]
    BY <1>11, <2>2, SendKeeps DEF i
  <2> HIDE DEF new
  <2>4. i \notin known /\ Newest' = i
    BY <1>2, <2>1, <2>2 DEF Newest
  <2>5. EpochTypeOK' /\ RowsDiffer'
    BY <2>1, <2>2, <2>3, RowsAreFew DEF EpochInv, EpochTypeOK, RowsDiffer
  <2>6. CurrentIsKnown' /\ RowsLead'
    BY <1>2, <2>1, <2>2, <2>4 DEF EpochInv, CurrentIsKnown, RowsLead
  <2>7. PublishedHasRow'
    BY <1>3, <2>1, <2>2 DEF PublishedHasRow
  <2>8. UnnumberedIsOld'
    <3> SUFFICES ASSUME epoch.generation = 0, NEW n \in DOMAIN new, new[n] = epoch.id, NEW m \in 1..n
                 PROVE  new[m] \in known
      BY <2>2 DEF UnnumberedIsOld
    <3>1. n \in DOMAIN issued /\ issued[n] = epoch.id
      BY <1>1, <1>7, <2>1, <2>4, SessionAssumption
    <3>2. m \in DOMAIN issued /\ issued[m] \in known
      BY <1>4, <2>2, <3>1
    <3> QED
      BY <2>1, <3>2
  <2>9. SentHasRow'
    BY <1>5, <2>1, <2>2, <2>3 DEF SentHasRow
  <2>10. OneInside'
    BY <1>6, <2>3 DEF OneInside, EpochInv
  <2> QED
    BY <2>5, <2>6, <2>7, <2>8, <2>9, <2>10 DEF EpochInv
<1> QED
  BY <1>9, <1>10, <1>11 DEF i

LEMMA NumberInv ==
  ASSUME EpochInv, NEW h \in Handlers, Number(h)
  PROVE  EpochInv'
<1>1. /\ call[h] # NoCall /\ call[h].kind = "register" /\ call[h].step = "entered"
      /\ UNCHANGED <<durable, epoch, known, hubCrashes, restores>>
  BY DEF Number, Published
<1>2. CASE ~durable
  <2>1. Send(h, 0) /\ UNCHANGED ledger
    BY <1>2 DEF Number
  <2>2. /\ call' \in [Handlers -> EpochCall \cup {NoCall}]
        /\ call'[h].kind = "register" /\ call'[h].step = "sent" /\ \A k \in Handlers : k # h => call'[k] = call[k]
    BY <1>1, <2>1, SendKeeps
  <2>3. SentHasRow' /\ OneInside'
    BY <1>1, <1>2, <2>1, <2>2 DEF EpochInv, SentHasRow, OneInside
  <2> QED
    BY <1>1, <2>1, <2>2, <2>3, CallStepInv
<1>3. CASE durable
  <2>1. \E issued \in IF ledger = <<>> THEN Seeds ELSE {ledger} :
          \/ ledger' = issued /\ Free(h)
          \/ Numbers(call[h].id, issued) = {Len(issued)} /\ ledger' = issued /\ Send(h, Len(issued))
          \/ Numbers(call[h].id, issued) = {} /\ ledger' = Append(issued, call[h].id) /\ Send(h, Len(issued) + 1)
    BY <1>3 DEF Number
  <2> QED
    BY <1>1, <1>3, <2>1, NumberedInv DEF CallRest
<1> QED
  BY <1>2, <1>3

-----------------------------------------------------------------------------
(* The scripts.                                                            *)

\* A registration that is published is new to Redis, and not older than the
\* published one: it is not published over the newest.
LEMMA PublishInv ==
  ASSUME EpochInv, NEW h \in Handlers, Publish(h)
  PROVE  EpochInv'
<1> DEFINE i == call[h].id
           g == call[h].generation
<1>1. /\ call[h] \in EpochCall /\ i \in Sessions /\ g \in Nat /\ i # NoSession
      /\ UNCHANGED <<ledger, durable, hubCrashes, restores>> /\ Free(h)
      /\ ledger \in Seq(Sessions) /\ epoch.generation \in Nat
  BY SessionAssumption DEF Publish, EpochInv, EpochTypeOK, EpochCall, Storage
<1>2. call' \in [Handlers -> EpochCall \cup {NoCall}] /\ SentHasRow' /\ OneInside'
  BY <1>1, FreeKeeps
<1>3. durable => g \in DOMAIN ledger /\ ledger[g] = i /\ g > 0 /\ Asked(g) = g
  <2>1. durable => g \in DOMAIN ledger /\ ledger[g] = i
    BY DEF EpochInv, SentHasRow, Publish
  <2> QED
    BY <1>1, <2>1 DEF Asked
<1>4. Asked(g) \in Nat
  BY <1>1 DEF Asked
<1>5. Newest' = Newest
  BY <1>1 DEF Newest
<1> HIDE DEF i, g
<1>6. CASE UNCHANGED <<epoch, known>>
  BY <1>1, <1>2, <1>6, CallStepInv
<1>7. CASE /\ Verdict(i, g) = "idempotent" /\ epoch' = [epoch EXCEPT !.generation = Asked(g)]
           /\ known' = known \cup {i}
  <2>1. epoch.id = i /\ known' = known /\ epoch'.id = i /\ epoch'.generation = Asked(g)
    BY <1>1, <1>7 DEF Verdict, EpochInv, CurrentIsKnown, EpochTypeOK
  <2>2. EpochTypeOK'
    BY <1>1, <1>2, <1>4, <1>7, <2>1 DEF EpochInv, EpochTypeOK
  <2>3. CurrentIsKnown' /\ RowsDiffer' /\ RowsLead'
    BY <1>1, <1>5, <2>1 DEF EpochInv, CurrentIsKnown, RowsDiffer, RowsLead
  <2>4. PublishedHasRow' /\ UnnumberedIsOld'
    BY <1>1, <1>3, <2>1 DEF PublishedHasRow, UnnumberedIsOld
  <2> QED
    BY <1>2, <2>2, <2>3, <2>4 DEF EpochInv
<1>8. CASE /\ Verdict(i, g) = "created" /\ epoch' = [id |-> i, generation |-> Asked(g), standing |-> "idle"]
           /\ known' = known \cup {i}
  <2>1. /\ epoch.generation <= Asked(g) /\ epoch.id # i /\ i \notin known
        /\ epoch'.id = i /\ epoch'.generation = Asked(g)
    BY <1>1, <1>4, <1>8 DEF Verdict
  <2>2. EpochTypeOK'
    BY <1>1, <1>2, <1>4, <1>8 DEF EpochInv, EpochTypeOK, Standing
  <2>3. CurrentIsKnown' /\ RowsDiffer'
    BY <1>1, <1>8, <2>1 DEF EpochInv, CurrentIsKnown, RowsDiffer
  <2>4. PublishedHasRow' /\ UnnumberedIsOld'
    BY <1>1, <1>3, <2>1 DEF PublishedHasRow, UnnumberedIsOld
  <2>5. ASSUME ledger # <<>>, Newest \in known' PROVE i = Newest
    <3> SUFFICES ASSUME i # Newest PROVE FALSE
      OBVIOUS
    <3>1. durable /\ Newest \in known /\ epoch.id = Newest
      BY <1>8, <2>5 DEF EpochInv, RowsLead
    <3>2. g \in 1..Len(ledger) /\ Len(ledger) \in DOMAIN ledger /\ g < Len(ledger) /\ ledger[g] = i
      BY <1>1, <1>3, <3>1 DEF Newest
    <3>3. CASE epoch.generation = 0
      BY <1>1, <2>1, <3>1, <3>2, <3>3 DEF EpochInv, UnnumberedIsOld, Newest
    <3>4. CASE epoch.generation > 0
      <4>1. epoch.generation = Len(ledger)
        BY <3>1, <3>2, <3>4 DEF EpochInv, PublishedHasRow, RowsDiffer, Newest
      <4> QED
        BY <1>1, <1>3, <2>1, <3>1, <3>2, <4>1
    <3> QED
      BY <1>1, <3>3, <3>4
  <2>6. RowsLead'
    <3>1. ledger # <<>> => known' \subseteq {ledger[n] : n \in DOMAIN ledger}
      BY <1>3, <1>8 DEF EpochInv, RowsLead
    <3> QED
      BY <1>1, <1>5, <2>1, <2>5, <3>1 DEF EpochInv, RowsLead
  <2> QED
    BY <1>2, <2>2, <2>3, <2>4, <2>6 DEF EpochInv
<1> QED
  BY <1>6, <1>7, <1>8 DEF Publish, i, g

LEMMA WriteInv ==
  ASSUME EpochInv, NEW h \in Handlers, Write(h)
  PROVE  EpochInv'
<1>1. UNCHANGED <<ledger, durable, known, hubCrashes, restores>> /\ Free(h)
  BY DEF Write, Storage
<1>2. call' \in [Handlers -> EpochCall \cup {NoCall}] /\ SentHasRow' /\ OneInside'
  BY <1>1, FreeKeeps
<1>3. /\ epoch' \in [id : Sessions \cup {NoSession}, generation : Nat, standing : Standing]
      /\ epoch'.id = epoch.id /\ epoch'.generation = epoch.generation
  <2>1. CASE UNCHANGED epoch
    BY <2>1 DEF EpochInv, EpochTypeOK
  <2>2. ASSUME NEW s \in Standing, epoch' = [epoch EXCEPT !.standing = s]
        PROVE  /\ epoch' \in [id : Sessions \cup {NoSession}, generation : Nat, standing : Standing]
               /\ epoch'.id = epoch.id /\ epoch'.generation = epoch.generation
    BY <2>2 DEF EpochInv, EpochTypeOK
  <2> QED
    BY <2>1, <2>2 DEF Write, Standing
<1>4. Newest' = Newest
  BY <1>1 DEF Newest
<1> QED
  BY <1>1, <1>2, <1>3, <1>4 DEF EpochInv, EpochTypeOK, CurrentIsKnown, RowsDiffer, RowsLead, PublishedHasRow,
     UnnumberedIsOld

LEMMA EpochMishapInv ==
  ASSUME EpochInv, HubCrash \/ RestoreAgent \/ \E h \in Handlers : EpochFail(h)
  PROVE  EpochInv'
<1>1. ASSUME NEW h \in Handlers, EpochFail(h) PROVE EpochInv'
  <2>1. UNCHANGED <<ledger, durable, epoch, known, hubCrashes, restores>> /\ Free(h)
    BY <1>1 DEF EpochFail, Storage, Published
  <2> QED
    BY <2>1, FreeKeeps, CallStepInv
<1>2. CASE HubCrash
  <2>1. /\ UNCHANGED <<ledger, durable, epoch, known, restores>> /\ hubCrashes < HubCrashBound
        /\ hubCrashes' = hubCrashes + 1
    BY <1>2 DEF HubCrash, Storage, Published
  <2> PICK lost \in SUBSET Handlers :
        /\ \A h \in Handlers : call[h] # NoCall /\ call[h].step = "entered" => h \in lost
        /\ call' = [h \in Handlers |-> IF h \in lost \/ call[h] = NoCall THEN NoCall
                                       ELSE [call[h] EXCEPT !.step = "stray"]]
    BY <1>2 DEF HubCrash
  <2>2. ASSUME NEW h \in Handlers, call[h] # NoCall
        PROVE  LET c == [call[h] EXCEPT !.step = "stray"] IN
               c \in EpochCall /\ c.kind = call[h].kind /\ c.id = call[h].id
                 /\ c.generation = call[h].generation /\ c.step = "stray"
    BY <2>2 DEF EpochInv, EpochTypeOK, EpochCall
  <2>3. call' \in [Handlers -> EpochCall \cup {NoCall}]
    BY <2>2
  <2>4. \A h \in Handlers : call'[h] # NoCall =>
          /\ call'[h].step = "stray" /\ call[h] # NoCall /\ call[h].step # "entered"
          /\ call'[h].kind = call[h].kind /\ call'[h].id = call[h].id /\ call'[h].generation = call[h].generation
    BY <2>2
  <2>5. hubCrashes' \in 0..HubCrashBound /\ hubCrashes' # 0
    BY <2>1, EpochBoundAssumption DEF EpochInv, EpochTypeOK
  <2>6. EpochTypeOK' /\ SentHasRow' /\ OneInside'
    BY <2>1, <2>3, <2>4, <2>5 DEF EpochInv, EpochTypeOK, SentHasRow, OneInside
  <2>7. Newest' = Newest
    BY <2>1 DEF Newest
  <2> QED
    BY <2>1, <2>6, <2>7 DEF EpochInv, CurrentIsKnown, RowsDiffer, RowsLead, PublishedHasRow, UnnumberedIsOld
<1>3. CASE RestoreAgent
  <2>1. /\ UNCHANGED <<ledger, durable, call, hubCrashes>> /\ ledger # <<>> /\ durable
        /\ epoch' = [id |-> Newest, generation |-> Len(ledger), standing |-> "offline"]
        /\ known' = {ledger[n] : n \in DOMAIN ledger} /\ restores < RestoreBound /\ restores' = restores + 1
    BY <1>3 DEF RestoreAgent, Storage
  <2>2. /\ Len(ledger) \in DOMAIN ledger /\ Len(ledger) \in Nat /\ Len(ledger) > 0
        /\ ledger[Len(ledger)] \in Sessions /\ ledger \in Seq(Sessions) /\ Newest' = Newest
    BY <2>1 DEF EpochInv, EpochTypeOK, Newest
  <2>3. EpochTypeOK'
    BY <2>1, <2>2, EpochBoundAssumption DEF EpochInv, EpochTypeOK, Standing, Newest
  <2>4. epoch'.id = Newest /\ epoch'.generation = Len(ledger) /\ Newest \in known'
    BY <2>1, <2>2 DEF Newest
  <2>5. CurrentIsKnown' /\ RowsDiffer' /\ RowsLead' /\ PublishedHasRow' /\ UnnumberedIsOld'
    BY <2>1, <2>2, <2>4 DEF EpochInv, CurrentIsKnown, RowsDiffer, RowsLead, PublishedHasRow, UnnumberedIsOld, Newest
  <2>6. SentHasRow' /\ OneInside'
    BY <2>1, <2>2 DEF EpochInv, SentHasRow, OneInside
  <2> QED
    BY <2>3, <2>5, <2>6 DEF EpochInv
<1> QED
  BY <1>1, <1>2, <1>3

LEMMA EpochInvStep == EpochInv /\ [EpochNext]_epochVars => EpochInv'
<1> SUFFICES ASSUME EpochInv, [EpochNext]_epochVars PROVE EpochInv'
  OBVIOUS
<1>1. CASE UNCHANGED epochVars
  <2>1. UNCHANGED <<ledger, durable, epoch, known, call, hubCrashes, restores>>
    BY <1>1 DEF epochVars
  <2>2. Newest' = Newest
    BY <2>1 DEF Newest
  <2> QED
    BY <2>1, <2>2 DEF EpochInv, EpochTypeOK, CurrentIsKnown, RowsDiffer, RowsLead, PublishedHasRow,
       UnnumberedIsOld, SentHasRow, OneInside
<1> QED
  BY <1>1, EnterInv, NumberInv, PublishInv, CheckInv, WriteInv, EpochMishapInv DEF EpochNext

-----------------------------------------------------------------------------
(* What the stores and the sessions promise.                               *)

\* The newest row is never older than what is published, and new to Redis unless it
\* is the published one.
LEMMA NewestPublishes == EpochInv => NewestIsPublishable
<1> SUFFICES ASSUME EpochInv, durable, ledger # <<>> PROVE Verdict(Newest, Len(ledger)) # "retired"
  BY DEF NewestIsPublishable
<1>1. Len(ledger) \in DOMAIN ledger /\ Len(ledger) \in Nat /\ Len(ledger) > 0 /\ DOMAIN ledger = 1..Len(ledger)
  BY DEF EpochInv, EpochTypeOK
<1>2. Asked(Len(ledger)) = Len(ledger) /\ epoch.generation \in Nat
  BY <1>1 DEF Asked, EpochInv, EpochTypeOK
<1>3. epoch.generation <= Len(ledger)
  BY <1>1, <1>2 DEF EpochInv, PublishedHasRow
<1>4. epoch.generation = Len(ledger) => epoch.id = Newest
  BY <1>1 DEF EpochInv, PublishedHasRow, Newest
<1>5. Newest \in known => epoch.id = Newest
  BY DEF EpochInv, RowsLead
<1> QED
  BY <1>1, <1>2, <1>3, <1>4, <1>5 DEF Verdict

\* Only a registration that Redis did not know, or a restore, changes the session.
LEMMA RetiredStays ==
  ASSUME EpochInv, [EpochNext]_epochVars, NEW i \in known \ {epoch.id}
  PROVE  epoch'.id # i
<1>1. CASE epoch'.id = epoch.id
  BY <1>1
<1>2. ASSUME NEW h \in Handlers, Publish(h) PROVE epoch'.id # i
  <2>1. epoch \in [id : Sessions \cup {NoSession}, generation : Nat, standing : Standing]
    BY DEF EpochInv, EpochTypeOK
  <2> QED
    BY <1>2, <2>1 DEF Publish, Verdict
<1>3. CASE RestoreAgent
  <2>1. epoch'.id = Newest /\ (Newest \in known => epoch.id = Newest)
    BY <1>3 DEF RestoreAgent, EpochInv, RowsLead
  <2> QED
    BY <2>1
<1>4. ASSUME NEW h \in Handlers, Write(h) PROVE epoch'.id = epoch.id
  <2>1. epoch \in [id : Sessions \cup {NoSession}, generation : Nat, standing : Standing]
    BY DEF EpochInv, EpochTypeOK
  <2> QED
    BY <1>4, <2>1 DEF Write
<1>5. CASE UNCHANGED epoch
  BY <1>5
<1> QED
  BY <1>1, <1>2, <1>3, <1>4, <1>5 DEF EpochNext, epochVars, Enter, Number, Check, EpochFail, HubCrash, Published

LEMMA OfflineStays ==
  ASSUME EpochInv, [EpochNext]_epochVars, epoch.standing = "offline", epoch'.id = epoch.id
  PROVE  epoch'.standing = "offline"
<1>0. epoch \in [id : Sessions \cup {NoSession}, generation : Nat, standing : Standing]
  BY DEF EpochInv, EpochTypeOK
<1>1. ASSUME NEW h \in Handlers, Publish(h) PROVE epoch'.standing = "offline"
  BY <1>0, <1>1 DEF Publish, Verdict
<1>2. ASSUME NEW h \in Handlers, Write(h) PROVE epoch'.standing = "offline"
  BY <1>0, <1>2 DEF Write
<1>3. CASE RestoreAgent
  BY <1>3 DEF RestoreAgent
<1>4. CASE UNCHANGED epoch
  BY <1>4
<1> QED
  BY <1>1, <1>2, <1>3, <1>4 DEF EpochNext, epochVars, Enter, Number, Check, EpochFail, HubCrash, Published

LEMMA NewestSpeaks ==
  ASSUME EpochInv, [EpochNext]_epochVars, hubCrashes = 0, durable, ledger # <<>>,
         epoch'.id = epoch.id, epoch'.standing # epoch.standing, restores' = restores
  PROVE  epoch.id = Newest
<1>0. epoch \in [id : Sessions \cup {NoSession}, generation : Nat, standing : Standing] /\ restores \in Nat
  BY EpochBoundAssumption DEF EpochInv, EpochTypeOK
<1>1. ASSUME NEW h \in Handlers, Publish(h) PROVE FALSE
  BY <1>0, <1>1 DEF Publish, Verdict
<1>2. ASSUME NEW h \in Handlers, Write(h) PROVE epoch.id = Newest
  <2>1. /\ call[h] # NoCall /\ call[h].kind # "register" /\ call[h].step # "entered" /\ epoch.id = call[h].id
        /\ call[h].step \in {"entered", "sent", "stray"}
    BY <1>2 DEF Write, EpochInv, EpochTypeOK, EpochCall
  <2> QED
    BY <2>1 DEF EpochInv, OneInside
<1>3. CASE RestoreAgent
  BY <1>0, <1>3 DEF RestoreAgent
<1>4. CASE UNCHANGED epoch
  BY <1>4
<1> QED
  BY <1>1, <1>2, <1>3, <1>4 DEF EpochNext, epochVars, Enter, Number, Check, EpochFail, HubCrash, Published

\* Registrations, SQLite and Redis keep their types; there are no more generations
\* than sessions.
THEOREM EpochTypes == EpochSpec => []EpochTypeOK
<1>1. EpochInv => EpochTypeOK
  BY DEF EpochInv
<1> QED
  BY <1>1, InitEpochInv, EpochInvStep, PTL DEF EpochSpec

\* However registrations of an agent are repeated, refused by Redis, or overtaken by a
\* restart of the hub: both stores name the same session, an older session is refused for
\* ever, an offline one stays offline, and without a crash only the newest moves the agent.
THEOREM Sessions_Ordered == EpochSpec => SessionsAreOrdered
<1>1. EpochInv => StoresAgree
  BY NewestPublishes DEF EpochInv, StoresAgree, GenerationsAgree, PublishedHasRow, RowsDiffer
<1>2. EpochInv /\ [EpochNext]_epochVars => [\A i \in known \ {epoch.id} : epoch'.id # i]_epochVars
  BY RetiredStays
<1>3. EpochInv /\ [EpochNext]_epochVars =>
        [epoch.standing = "offline" /\ epoch'.id = epoch.id => epoch'.standing = "offline"]_epochVars
  BY OfflineStays
<1>4. EpochInv /\ [EpochNext]_epochVars =>
        [/\ hubCrashes = 0 /\ durable /\ ledger # <<>>
         /\ epoch'.id = epoch.id /\ epoch'.standing # epoch.standing /\ restores' = restores
         => epoch.id = Newest]_epochVars
  BY NewestSpeaks
<1> QED
  BY <1>1, <1>2, <1>3, <1>4, InitEpochInv, EpochInvStep, PTL
     DEF EpochSpec, SessionsAreOrdered, SessionsEnd, RetiredStaysRetired, OfflineIsFinal, OnlyNewestSpeaks

-----------------------------------------------------------------------------
(***************************************************************************)
(* PmIntake: however many polls of the project manager's inbox overlap     *)
(* with each other and with the tasks, and wherever they die, the inbox    *)
(* loses nothing, and a round of a task rings for its review once.         *)
(***************************************************************************)

\* What the event is about is still so, and somebody should see it.
Live(n) == Bell(n) /\ Current(stream[n])
Indexed(k) == \A n \in 1..k : Live(n) => n \in pending \cup acked

EventsAreOld == \A n \in DOMAIN stream : stream[n].round <= round[stream[n].item]

\* What a poll has read is still good for what it will write.
PollKnows(p) ==
  poll[p] # NoPoll =>
    /\ poll[p].phase = "ready" => poll[p].seen \cap Nat \subseteq DOMAIN stream
    /\ poll[p].phase = "ring" => deliveriesReady
    /\ poll[p].phase \in {"tail", "store", "advance"} => poll[p].at <= Len(stream) /\ Indexed(poll[p].at)
    /\ poll[p].phase = "store" =>
         \E m \in DOMAIN stream : poll[p].at < m /\ poll[p].seen = (poll[p].at + 1)..m
    /\ poll[p].phase \in {"judge", "clean"} => poll[p].seen \subseteq DOMAIN stream
    /\ poll[p].phase = "clean" => \A n \in poll[p].seen : n \in acked \/ ~Current(stream[n])
    /\ poll[p].phase \in {"cleanDeliveries", "publish", "cleanFailures"} => poll[p].seen \subseteq Items

\* Until the indexes are built, a poll that is about to build them has read what is missing.
RungOrRead ==
  \A n \in DOMAIN stream : stream[n].kind = "review" /\ Current(stream[n]) =>
    stream[n].item \in fired \/ (~deliveriesReady /\ \A p \in Polls : At(p, "ready") => n \in poll[p].seen)
DeliveredOrRead ==
  \A i \in Items : Delivered(i) =>
    i \in deliveries \/ (~deliveriesReady /\ \A p \in Polls : At(p, "ready") => i \in poll[p].seen)
FailedOrRead ==
  \A i \in Items : want[i] = "decision" =>
    i \in failures \/ (~failuresReady /\ \A p \in Polls : At(p, "publish") => i \in poll[p].seen)

IntakeInv ==
  /\ IntakeTypeOK /\ EventsAreOld /\ Indexed(cursor) /\ RingsOnce
  /\ RungOrRead /\ DeliveredOrRead /\ FailedOrRead
  /\ \A p \in Polls : PollKnows(p)

LEMMA InitIntakeInv == IntakeInit => IntakeInv
<1> SUFFICES ASSUME IntakeInit PROVE IntakeInv
  OBVIOUS
<1>1. /\ want \in [Items -> Want] /\ round = [i \in Items |-> 1] /\ cursor = 0 /\ pending = {} /\ acked = {}
      /\ poll = [p \in Polls |-> NoPoll] /\ deliveriesReady = FALSE /\ failuresReady = FALSE
      /\ deliveries = {} /\ fired = {} /\ failures = {} /\ builder = NoPoll
  BY DEF IntakeInit, Want
<1>2. /\ stream \in Seq(Event) /\ 0 \in 0..Len(stream)
      /\ \A n \in DOMAIN stream : n = 1 /\ stream[n].round = 1 /\ stream[n].item \in Items
  <2>1. CASE stream = <<>>
    BY <2>1
  <2>2. ASSUME NEW i \in Items, stream = <<[kind |-> "review", item |-> i, round |-> 1]>>
        PROVE  /\ stream \in Seq(Event) /\ 0 \in 0..Len(stream)
               /\ \A n \in DOMAIN stream : n = 1 /\ stream[n].round = 1 /\ stream[n].item \in Items
    BY <2>2 DEF Event
  <2> QED
    BY <2>1, <2>2 DEF IntakeInit
<1>3. IntakeTypeOK
  BY <1>1, <1>2 DEF IntakeTypeOK
<1>4. EventsAreOld /\ Indexed(cursor) /\ RingsOnce
  BY <1>1, <1>2 DEF EventsAreOld, Indexed, RingsOnce
<1> QED
  BY <1>1, <1>3, <1>4 DEF IntakeInv, RungOrRead, DeliveredOrRead, FailedOrRead, PollKnows, At

-----------------------------------------------------------------------------
(* What steps leave alone.                                                 *)

\* The stream grows, no old event becomes current, and what is current stays indexed.
Grown ==
  /\ Len(stream) <= Len(stream') /\ stream' \in Seq(Event)
  /\ \A n \in DOMAIN stream : stream'[n] = stream[n] /\ (Current(stream[n])' => Current(stream[n]))
KeepsIndex == \A n \in DOMAIN stream : n \in pending \cup acked /\ Live(n)' => n \in pending' \cup acked'

LEMMA Grows_Domain ==
  ASSUME IntakeTypeOK, Grown
  PROVE  DOMAIN stream \subseteq DOMAIN stream' /\ \A n \in DOMAIN stream : Live(n)' => Live(n)
BY DEF IntakeTypeOK, Grown, Live, Bell

LEMMA IndexKept ==
  ASSUME IntakeTypeOK, Grown, KeepsIndex, NEW k \in 0..Len(stream), Indexed(k)
  PROVE  Indexed(k)'
<1> SUFFICES ASSUME NEW n \in 1..k, Live(n)' PROVE n \in pending' \cup acked'
  BY DEF Indexed
<1>1. n \in DOMAIN stream
  BY DEF IntakeTypeOK
<1> QED
  BY <1>1, Grows_Domain DEF Indexed, KeepsIndex

LEMMA OthersKnow_Intake ==
  ASSUME IntakeInv, Grown, KeepsIndex, acked \subseteq acked', deliveriesReady => deliveriesReady',
         NEW p \in Polls, poll'[p] = poll[p]
  PROVE  PollKnows(p)'
<1> SUFFICES ASSUME poll[p] # NoPoll PROVE PollKnows(p)'
  BY DEF PollKnows
<1>1. poll[p] \in Poll /\ IntakeTypeOK /\ poll[p].at \in Nat /\ PollKnows(p)
  BY DEF IntakeInv, IntakeTypeOK, Poll
<1>2. DOMAIN stream \subseteq DOMAIN stream'
  BY <1>1, Grows_Domain
<1>3. poll[p].phase \in {"tail", "store", "advance"} => poll[p].at <= Len(stream') /\ Indexed(poll[p].at)'
  <2> SUFFICES ASSUME poll[p].phase \in {"tail", "store", "advance"}
               PROVE  poll[p].at <= Len(stream') /\ Indexed(poll[p].at)'
    OBVIOUS
  <2>1. poll[p].at \in 0..Len(stream) /\ Indexed(poll[p].at)
    BY <1>1 DEF PollKnows, IntakeTypeOK
  <2>2. Len(stream) \in Nat /\ Len(stream') \in Nat /\ poll[p].at <= Len(stream')
    BY <1>1, <2>1 DEF Grown, IntakeTypeOK
  <2>3. \A n \in 1..poll[p].at : Live(n)' => n \in pending' \cup acked'
    BY <1>1, <2>1, IndexKept DEF Indexed
  <2> QED
    BY <2>2, <2>3 DEF Indexed
<1>4. poll[p].phase = "clean" => \A n \in poll[p].seen : n \in acked' \/ ~Current(stream[n])'
  BY <1>1 DEF PollKnows, Grown
<1> QED
  BY <1>1, <1>2, <1>3, <1>4 DEF PollKnows

\* The record a poll goes on with.
LEMMA KeepIs ==
  ASSUME IntakeTypeOK, NEW p \in Polls, NEW ph \in Phase, NEW at \in Nat, NEW seen0 \in SUBSET (Nat \cup Items),
         Keep(p, ph, at, seen0)
  PROVE  /\ poll' \in [Polls -> Poll \cup {NoPoll}] /\ poll'[p] # NoPoll
         /\ poll'[p].phase = ph /\ poll'[p].at = at /\ poll'[p].seen = seen0
         /\ \A q \in Polls : q # p => poll'[q] = poll[q]
<1> DEFINE c == [phase |-> ph, at |-> at, seen |-> seen0]
<1>1. c \in Poll /\ c.phase = ph /\ c.at = at /\ c.seen = seen0
  BY DEF Poll
<1>2. poll' = [poll EXCEPT ![p] = c]
  BY DEF Keep
<1>3. c # NoPoll
  BY <1>1, IntakeAssumption
<1> HIDE DEF c
<1> QED
  BY <1>1, <1>2, <1>3 DEF IntakeTypeOK

LEMMA GoToIs ==
  ASSUME IntakeTypeOK, NEW p \in Polls, NEW ph \in Phase, poll[p] # NoPoll, GoTo(p, ph)
  PROVE  /\ poll' \in [Polls -> Poll \cup {NoPoll}] /\ poll'[p] # NoPoll
         /\ poll'[p].phase = ph /\ poll'[p].at = poll[p].at /\ poll'[p].seen = {}
         /\ \A q \in Polls : q # p => poll'[q] = poll[q]
<1> DEFINE c == [poll[p] EXCEPT !.phase = ph, !.seen = {}]
<1>1. poll[p] \in Poll
  BY DEF IntakeTypeOK
<1>2. c \in Poll /\ c # NoPoll /\ c.phase = ph /\ c.at = poll[p].at /\ c.seen = {}
  BY <1>1, IntakeAssumption DEF Poll
<1>3. poll' = [poll EXCEPT ![p] = c]
  BY DEF GoTo, IntakeTypeOK
<1> HIDE DEF c
<1> QED
  BY <1>2, <1>3 DEF IntakeTypeOK

-----------------------------------------------------------------------------
(* The tasks.                                                              *)

LEMMA TurnInv ==
  ASSUME IntakeInv, NEW i \in Items, NEW from, NEW w \in Want, NEW rings \in BOOLEAN, Turn(i, from, w, rings),
         fired' \in {fired, fired \cup {i}, fired \ {i}}, w = "review" => fired' = fired \cup {i}
  PROVE  IntakeInv'
<1> DEFINE e == [kind |-> IF w \in {"busy", "settled"} THEN "noise" ELSE w, item |-> i, round |-> round[i] + 1]
<1>1. /\ want' = [want EXCEPT ![i] = w] /\ round' = [round EXCEPT ![i] = @ + 1]
      /\ stream' = (IF rings THEN Append(stream, e) ELSE stream)
      /\ deliveries' = Deliveries(i, w) /\ failures' = Failures(i, w)
      /\ UNCHANGED <<cursor, pending, acked, deliveriesReady, failuresReady, builder, poll>>
  BY DEF Turn, cursorVars
<1>2. IntakeTypeOK /\ stream \in Seq(Event) /\ round \in [Items -> Nat] /\ want \in [Items -> Want]
        /\ cursor \in 0..Len(stream)
  BY DEF IntakeInv, IntakeTypeOK
<1>3. e \in Event /\ e.round = round[i] + 1 /\ e.item = i /\ (e.kind = "review" => w = "review")
  BY <1>2 DEF Event, Want
<1> HIDE DEF e
<1>4. /\ stream' \in Seq(Event) /\ Len(stream) <= Len(stream')
      /\ \A n \in DOMAIN stream : stream'[n] = stream[n]
      /\ \A n \in DOMAIN stream' : n \in DOMAIN stream \/ (n = Len(stream) + 1 /\ stream'[n] = e)
  <2>1. CASE rings
    BY <1>1, <1>2, <1>3, <2>1
  <2>2. CASE ~rings
    BY <1>1, <1>2, <2>2
  <2> QED
    BY <2>1, <2>2
<1>5. \A n \in DOMAIN stream : stream[n] \in Event /\ stream[n].item \in Items /\ stream[n].round \in Nat
        /\ stream[n].round <= round[stream[n].item]
  <2>1. \A n \in DOMAIN stream : stream[n] \in Event
    BY <1>2
  <2> QED
    BY <2>1 DEF IntakeInv, EventsAreOld, Event
<1>6. \A n \in DOMAIN stream : Current(stream[n])' => Current(stream[n]) /\ stream[n].item # i
  BY <1>1, <1>2, <1>4, <1>5 DEF Current
<1>7. Grown /\ KeepsIndex
  BY <1>1, <1>4, <1>6 DEF Grown, KeepsIndex
<1>8. IntakeTypeOK'
  <2>1. want' \in [Items -> Want] /\ round' \in [Items -> Nat]
    BY <1>1, <1>2
  <2>2. deliveries' \subseteq Items /\ failures' \subseteq Items /\ fired' \subseteq Items
    BY <1>1, <1>2 DEF IntakeTypeOK, Deliveries, Failures
  <2>3. DOMAIN stream \subseteq DOMAIN stream' /\ cursor' \in 0..Len(stream')
    BY <1>1, <1>2, <1>4
  <2> QED
    BY <1>1, <1>2, <1>4, <2>1, <2>2, <2>3 DEF IntakeTypeOK
<1>9. EventsAreOld'
  BY <1>1, <1>2, <1>3, <1>4, <1>5 DEF EventsAreOld
<1>10. Indexed(cursor)'
  BY <1>1, <1>2, <1>7, IndexKept DEF IntakeInv, Indexed
<1>11. RingsOnce'
  BY <1>2, <1>3, <1>4, <1>5 DEF IntakeInv, RingsOnce
<1>12. RungOrRead'
  <2> SUFFICES ASSUME NEW n \in DOMAIN stream', stream'[n].kind = "review", Current(stream[n])'
               PROVE  stream'[n].item \in fired'
                        \/ (~deliveriesReady /\ \A p \in Polls : At(p, "ready")' => n \in poll[p].seen)
    BY <1>1 DEF RungOrRead
  <2>1. CASE n \in DOMAIN stream
    BY <1>1, <1>4, <1>6, <2>1 DEF IntakeInv, RungOrRead, At
  <2>2. CASE stream'[n] = e
    BY <1>3, <2>2
  <2> QED
    BY <1>4, <2>1, <2>2
<1>13. DeliveredOrRead' /\ FailedOrRead'
  BY <1>1, <1>2 DEF IntakeInv, DeliveredOrRead, FailedOrRead, Delivered, Deliveries, Failures, At
<1>14. \A p \in Polls : PollKnows(p)'
  BY <1>1, <1>7, OthersKnow_Intake
<1> QED
  BY <1>8, <1>9, <1>10, <1>11, <1>12, <1>13, <1>14 DEF IntakeInv

LEMMA ItemInv ==
  ASSUME IntakeInv, NEW i \in Items,
         \/ ReportDelivery(i) \/ AskPm(i) \/ AnswerPm(i) \/ ReviewItem(i) \/ ResetItem(i)
         \/ FailItem(i) \/ RepairItem(i) \/ \E rings \in BOOLEAN : NeedDecision(i, rings)
  PROVE  IntakeInv'
<1> \A w \in {"busy", "review", "answer", "decision", "settled"} : w \in Want
  BY DEF Want
<1>1. CASE ReportDelivery(i)
  BY <1>1, TurnInv DEF ReportDelivery
<1>2. CASE AskPm(i)
  BY <1>2, TurnInv DEF AskPm
<1>3. CASE AnswerPm(i)
  BY <1>3, TurnInv DEF AnswerPm
<1>4. CASE ReviewItem(i)
  BY <1>4, TurnInv DEF ReviewItem
<1>5. CASE ResetItem(i)
  BY <1>5, TurnInv DEF ResetItem
<1>6. CASE FailItem(i)
  BY <1>6, TurnInv DEF FailItem
<1>7. CASE RepairItem(i)
  BY <1>7, TurnInv DEF RepairItem
<1>8. ASSUME NEW rings \in BOOLEAN, NeedDecision(i, rings) PROVE IntakeInv'
  BY <1>8, TurnInv DEF NeedDecision
<1> QED
  BY <1>1, <1>2, <1>3, <1>4, <1>5, <1>6, <1>7, <1>8

-----------------------------------------------------------------------------
(* The polls.                                                              *)

\* A step that reads, indexes or removes what is stale, and goes on.
LEMMA PollStepInv ==
  ASSUME IntakeInv, NEW p \in Polls,
         UNCHANGED <<want, round, stream, acked, fired, deliveriesReady, failuresReady>>,
         builder' \in Polls \cup {NoPoll},
         deliveries' \subseteq deliveries, \A i \in deliveries : Delivered(i) => i \in deliveries',
         failures' \subseteq Items, \A i \in failures : want[i] = "decision" => i \in failures',
         pending' \subseteq DOMAIN stream, \A n \in DOMAIN stream : Live(n) /\ n \in pending \cup acked => n \in pending' \cup acked,
         cursor' \in 0..Len(stream), \A n \in 1..cursor' : Live(n) => n \in pending' \cup acked,
         poll' \in [Polls -> Poll \cup {NoPoll}], \A q \in Polls : q # p => poll'[q] = poll[q],
         poll'[p] # NoPoll => poll'[p].phase \notin {"ready", "publish"},
         PollKnows(p)'
  PROVE  IntakeInv'
<1>1. Grown /\ KeepsIndex
  BY DEF Grown, KeepsIndex, Live, Bell, Current, IntakeInv, IntakeTypeOK
<1>2. \A q \in Polls : PollKnows(q)'
  BY <1>1, OthersKnow_Intake
<1>3. IntakeTypeOK'
  BY DEF IntakeInv, IntakeTypeOK
<1>4. EventsAreOld' /\ RingsOnce' /\ Indexed(cursor)'
  BY DEF IntakeInv, EventsAreOld, RingsOnce, Indexed, Live, Bell, Current
<1>5. RungOrRead' /\ DeliveredOrRead' /\ FailedOrRead'
  <2>1. \A q \in Polls : (At(q, "ready")' => q # p /\ At(q, "ready") /\ poll'[q] = poll[q])
                         /\ (At(q, "publish")' => q # p /\ At(q, "publish") /\ poll'[q] = poll[q])
    BY DEF At
  <2> QED
    BY <2>1 DEF IntakeInv, RungOrRead, DeliveredOrRead, FailedOrRead, Delivered, Current
<1> QED
  BY <1>2, <1>3, <1>4, <1>5 DEF IntakeInv

\* The step touches neither the index nor the lists.
Reads_Only == UNCHANGED <<want, round, stream, cursor, pending, acked, deliveries, fired, deliveriesReady, failures,
                          failuresReady>>

LEMMA ReadInv ==
  ASSUME IntakeInv, NEW p \in Polls, Reads_Only, builder' \in Polls \cup {NoPoll},
         poll' \in [Polls -> Poll \cup {NoPoll}], \A q \in Polls : q # p => poll'[q] = poll[q],
         poll'[p] # NoPoll => poll'[p].phase \notin {"ready", "publish"},
         PollKnows(p)'
  PROVE  IntakeInv'
<1>1. /\ deliveries \subseteq Items /\ failures \subseteq Items /\ pending \subseteq DOMAIN stream
      /\ cursor \in 0..Len(stream) /\ \A n \in 1..cursor : Live(n) => n \in pending \cup acked
  BY DEF IntakeInv, IntakeTypeOK, Indexed
<1> QED
  BY <1>1, PollStepInv DEF Reads_Only

LEMMA StartsOrEndsInv ==
  ASSUME IntakeInv, NEW p \in Polls, StartPoll(p) \/ DiePoll(p)
  PROVE  IntakeInv'
<1>1. Reads_Only /\ UNCHANGED builder /\ builder \in Polls \cup {NoPoll} /\ IntakeTypeOK
  BY DEF StartPoll, DiePoll, itemVars, cursorVars, listVars, deliveryVars, failureVars, Reads_Only, IntakeInv, IntakeTypeOK
<1>2. CASE DiePoll(p)
  <2>1. poll' \in [Polls -> Poll \cup {NoPoll}] /\ poll'[p] = NoPoll /\ \A q \in Polls : q # p => poll'[q] = poll[q]
    BY <1>1, <1>2 DEF DiePoll, IntakeTypeOK
  <2> QED
    BY <1>1, <2>1, ReadInv DEF PollKnows
<1>3. CASE StartPoll(p)
  <2> DEFINE ph == IF deliveriesReady THEN "ring" ELSE "absorb"
  <2>1. Keep(p, ph, 0, {}) /\ ph \in Phase
    BY <1>3 DEF StartPoll, Keep, Phase
  <2>2. /\ poll' \in [Polls -> Poll \cup {NoPoll}] /\ poll'[p] # NoPoll /\ poll'[p].phase = ph
        /\ poll'[p].seen = {} /\ \A q \in Polls : q # p => poll'[q] = poll[q]
    BY <1>1, <2>1, KeepIs
  <2>3. PollKnows(p)'
    BY <1>1, <2>2 DEF PollKnows, Reads_Only
  <2> QED
    BY <1>1, <2>2, <2>3, ReadInv
<1> QED
  BY <1>2, <1>3

\* The first poll reads what rang and what is delivered ...
LEMMA AbsorbReadInv ==
  ASSUME IntakeInv, NEW p \in Polls, AbsorbRead(p)
  PROVE  IntakeInv'
<1> DEFINE s == {n \in DOMAIN stream : stream[n].kind = "review" /\ Current(stream[n])}
                \cup {i \in Items : Delivered(i)}
<1>1. Reads_Only /\ UNCHANGED builder /\ Keep(p, "ready", 0, s) /\ IntakeTypeOK
  BY DEF AbsorbRead, itemVars, cursorVars, listVars, deliveryVars, failureVars, Reads_Only, IntakeInv
<1>2. s \subseteq Nat \cup Items /\ s \cap Nat \subseteq DOMAIN stream
  <2>1. DOMAIN stream \subseteq Nat
    BY <1>1 DEF IntakeTypeOK
  <2> QED
    BY <2>1, IntakeAssumption
<1>3. /\ \A n \in DOMAIN stream : stream[n].kind = "review" /\ Current(stream[n]) => n \in s
      /\ \A i \in Items : Delivered(i) => i \in s
  OBVIOUS
<1> HIDE DEF s
<1>4. /\ poll' \in [Polls -> Poll \cup {NoPoll}] /\ poll'[p] # NoPoll /\ poll'[p].phase = "ready"
      /\ poll'[p].seen = s /\ \A q \in Polls : q # p => poll'[q] = poll[q]
  BY <1>1, <1>2, KeepIs DEF Phase
<1>5. PollKnows(p)'
  BY <1>1, <1>2, <1>4 DEF PollKnows, Reads_Only
<1>6. Grown /\ KeepsIndex
  BY <1>1 DEF Grown, KeepsIndex, Live, Bell, Current, IntakeTypeOK, Reads_Only
<1>7. \A q \in Polls : PollKnows(q)'
  BY <1>1, <1>4, <1>5, <1>6, OthersKnow_Intake DEF Reads_Only
<1>8. IntakeTypeOK' /\ EventsAreOld' /\ RingsOnce' /\ Indexed(cursor)'
  BY <1>1, <1>4 DEF Reads_Only, IntakeInv, IntakeTypeOK, EventsAreOld, RingsOnce, Indexed, Live, Bell, Current
<1>9. RungOrRead' /\ DeliveredOrRead' /\ FailedOrRead'
  <2>1. \A q \in Polls : (At(q, "ready")' => q = p \/ (At(q, "ready") /\ poll'[q] = poll[q]))
                         /\ (At(q, "publish")' => q # p /\ At(q, "publish") /\ poll'[q] = poll[q])
    BY <1>4 DEF At
  <2>2. RungOrRead' /\ DeliveredOrRead'
    BY <1>1, <1>3, <1>4, <2>1 DEF Reads_Only, IntakeInv, RungOrRead, DeliveredOrRead, Delivered, Current
  <2>3. FailedOrRead'
    BY <1>1, <2>1 DEF Reads_Only, IntakeInv, FailedOrRead
  <2> QED
    BY <2>2, <2>3
<1> QED
  BY <1>7, <1>8, <1>9 DEF IntakeInv

\* ... and what it has not read was listed by whoever delivered since.
LEMMA AbsorbWriteInv ==
  ASSUME IntakeInv, NEW p \in Polls, AbsorbWrite(p)
  PROVE  IntakeInv'
<1>1. /\ UNCHANGED <<want, round, stream, cursor, pending, acked, failures, failuresReady, builder>>
      /\ fired' = fired \cup {stream[n].item : n \in poll[p].seen \cap Nat}
      /\ deliveries' = deliveries \cup (poll[p].seen \cap Items) /\ deliveriesReady' = TRUE
      /\ GoTo(p, "ring") /\ poll[p] # NoPoll /\ poll[p].phase = "ready" /\ At(p, "ready") /\ IntakeTypeOK
  BY DEF AbsorbWrite, itemVars, cursorVars, failureVars, At, IntakeInv
<1>2. /\ poll' \in [Polls -> Poll \cup {NoPoll}] /\ poll'[p] # NoPoll /\ poll'[p].phase = "ring"
      /\ \A q \in Polls : q # p => poll'[q] = poll[q]
  BY <1>1, GoToIs DEF Phase
<1>3. poll[p].seen \cap Nat \subseteq DOMAIN stream
  BY <1>1 DEF IntakeInv, PollKnows
<1>4. IntakeTypeOK'
  <2>0. \A n \in DOMAIN stream : stream[n] \in Event
    BY <1>1 DEF IntakeTypeOK
  <2>1. \A n \in DOMAIN stream : stream[n] \in Event /\ stream[n].item \in Items
    BY <2>0 DEF Event
  <2>2. fired' \subseteq Items /\ deliveries' \subseteq Items
    BY <1>1, <1>3, <2>1 DEF IntakeTypeOK
  <2> QED
    BY <1>1, <1>2, <2>2 DEF IntakeTypeOK
<1>5. Grown /\ KeepsIndex
  BY <1>1 DEF Grown, KeepsIndex, Live, Bell, Current, IntakeTypeOK
<1>6. PollKnows(p)'
  BY <1>1, <1>2 DEF PollKnows
<1>7. \A q \in Polls : PollKnows(q)'
  BY <1>1, <1>2, <1>5, <1>6, OthersKnow_Intake
<1>8. EventsAreOld' /\ RingsOnce' /\ Indexed(cursor)'
  BY <1>1 DEF IntakeInv, EventsAreOld, RingsOnce, Indexed, Live, Bell, Current
<1>9. \A n \in DOMAIN stream : stream[n].kind = "review" /\ Current(stream[n]) => stream[n].item \in fired'
  <2>1. DOMAIN stream \subseteq Nat
    BY <1>1 DEF IntakeTypeOK
  <2> QED
    BY <1>1, <2>1 DEF IntakeInv, RungOrRead
<1>10. \A i \in Items : Delivered(i) => i \in deliveries'
  BY <1>1 DEF IntakeInv, DeliveredOrRead
<1>11. RungOrRead' /\ DeliveredOrRead'
  BY <1>1, <1>9, <1>10 DEF RungOrRead, DeliveredOrRead, Delivered, Current
<1>12. FailedOrRead'
  BY <1>1, <1>2 DEF IntakeInv, FailedOrRead, At
<1> QED
  BY <1>4, <1>7, <1>8, <1>11, <1>12 DEF IntakeInv

\* A delivery that never rang in this round rings.
LEMMA RingInv ==
  ASSUME IntakeInv, NEW p \in Polls, NEW i \in Items, Ring(p, i)
  PROVE  IntakeInv'
<1> DEFINE e == [kind |-> "review", item |-> i, round |-> round[i]]
<1>1. /\ UNCHANGED <<want, round, cursor, pending, acked, deliveries, deliveriesReady, failures, failuresReady, builder, poll>>
      /\ fired' = fired \cup {i} /\ stream' = Append(stream, e)
      /\ Delivered(i) /\ i \notin fired /\ At(p, "ring")
  BY DEF Ring, MayRing, cursorVars, failureVars
<1>2. /\ IntakeTypeOK /\ stream \in Seq(Event) /\ round \in [Items -> Nat] /\ cursor \in 0..Len(stream)
      /\ deliveriesReady
  <2>1. PollKnows(p) /\ IntakeTypeOK
    BY DEF IntakeInv
  <2> QED
    BY <1>1, <2>1 DEF IntakeTypeOK, PollKnows, At
<1>3. e \in Event /\ e.item = i /\ e.round = round[i] /\ e.kind = "review"
  BY <1>2 DEF Event
<1>4. \A n \in DOMAIN stream : stream[n] # e
  BY <1>1, <1>2 DEF IntakeInv, RungOrRead, Current, Delivered
<1> HIDE DEF e
<1>5. /\ stream' \in Seq(Event) /\ Len(stream') = Len(stream) + 1 /\ stream'[Len(stream) + 1] = e
      /\ \A n \in DOMAIN stream : stream'[n] = stream[n] /\ n \in DOMAIN stream'
      /\ \A n \in DOMAIN stream' : n \in DOMAIN stream \/ (n = Len(stream) + 1 /\ stream'[n] = e)
  BY <1>1, <1>2, <1>3
<1>6. Grown /\ KeepsIndex
  BY <1>1, <1>2, <1>5 DEF Grown, KeepsIndex, Live, Bell, Current
<1>7. IntakeTypeOK'
  <2>1. DOMAIN stream \subseteq DOMAIN stream' /\ cursor' \in 0..Len(stream')
    BY <1>1, <1>2, <1>5
  <2>2. fired' \subseteq Items
    BY <1>1, <1>2 DEF IntakeTypeOK
  <2> QED
    BY <1>1, <1>2, <1>5, <2>1, <2>2 DEF IntakeTypeOK
<1>8. EventsAreOld'
  BY <1>1, <1>2, <1>3, <1>5 DEF IntakeInv, EventsAreOld
<1>9. RingsOnce'
  BY <1>4, <1>5 DEF IntakeInv, RingsOnce
<1>10. Indexed(cursor)'
  BY <1>1, <1>2, <1>6, IndexKept DEF IntakeInv, Indexed
<1>11. RungOrRead'
  <2> SUFFICES ASSUME NEW n \in DOMAIN stream', stream'[n].kind = "review", Current(stream'[n])
               PROVE  stream'[n].item \in fired'
    BY <1>1 DEF RungOrRead, Current
  <2> QED
    BY <1>1, <1>2, <1>3, <1>5 DEF IntakeInv, RungOrRead
<1>12. DeliveredOrRead' /\ FailedOrRead'
  BY <1>1 DEF IntakeInv, DeliveredOrRead, FailedOrRead, Delivered, At
<1>13. \A q \in Polls : PollKnows(q)'
  BY <1>1, <1>6, OthersKnow_Intake
<1> QED
  BY <1>7, <1>8, <1>9, <1>10, <1>11, <1>12, <1>13 DEF IntakeInv

LEMMA RingEndsInv ==
  ASSUME IntakeInv, NEW p \in Polls, RingEnds(p)
  PROVE  IntakeInv'
<1>1. /\ UNCHANGED <<want, round, stream, cursor, pending, acked, fired, deliveriesReady, failures, failuresReady, builder>>
      /\ deliveries' = Unlist({i \in deliveries : ~Delivered(i)}) /\ Keep(p, "tail", cursor, {}) /\ IntakeTypeOK
  BY DEF RingEnds, itemVars, cursorVars, failureVars, IntakeInv
<1>2. cursor \in 0..Len(stream) /\ cursor \in Nat /\ Indexed(cursor) /\ Len(stream) \in Nat
  BY <1>1 DEF IntakeInv, IntakeTypeOK
<1>3. /\ poll' \in [Polls -> Poll \cup {NoPoll}] /\ poll'[p] # NoPoll /\ poll'[p].phase = "tail" /\ poll'[p].at = cursor
      /\ \A q \in Polls : q # p => poll'[q] = poll[q]
  BY <1>1, <1>2, KeepIs DEF Phase
<1>4. PollKnows(p)'
  <2>1. \A n \in 1..poll'[p].at : Live(n)' => n \in pending' \cup acked'
    BY <1>1, <1>2, <1>3 DEF Indexed, Live, Bell, Current
  <2> QED
    BY <1>1, <1>2, <1>3, <2>1 DEF PollKnows, Indexed
<1>5. deliveries' \subseteq deliveries /\ \A i \in deliveries : Delivered(i) => i \in deliveries'
  BY <1>1 DEF Unlist, StillStale
<1> QED
  BY <1>1, <1>2, <1>3, <1>4, <1>5, PollStepInv DEF Indexed, IntakeTypeOK

\* A page is the stretch of the stream behind the position, and its last event is its end.
LEMMA PageIs ==
  ASSUME IntakeTypeOK, NEW p \in Polls, poll[p] # NoPoll, Page(p) # {}
  PROVE  /\ Page(p) \subseteq DOMAIN stream
         /\ \E m \in DOMAIN stream : poll[p].at < m /\ Page(p) = (poll[p].at + 1)..m
<1>1. poll[p] \in Poll /\ poll[p].at \in Nat /\ Len(stream) \in Nat /\ DOMAIN stream = 1..Len(stream) /\ PageSize \in Nat
  BY IntakeAssumption DEF IntakeTypeOK, Poll
<1> DEFINE m == IF poll[p].at + PageSize <= Len(stream) THEN poll[p].at + PageSize ELSE Len(stream)
<1>2. m \in Nat /\ m <= Len(stream) /\ m <= poll[p].at + PageSize
  BY <1>1
<1>3. PICK n \in Page(p) : TRUE
  OBVIOUS
<1>4. n \in DOMAIN stream /\ n > poll[p].at /\ n <= poll[p].at + PageSize
  BY <1>3 DEF Page
<1>5. poll[p].at < m /\ m \in DOMAIN stream
  BY <1>1, <1>2, <1>4
<1>6. ASSUME NEW k \in Page(p) PROVE k \in (poll[p].at + 1)..m
  BY <1>1, <1>6 DEF Page
<1>7. ASSUME NEW k \in (poll[p].at + 1)..m PROVE k \in Page(p)
  BY <1>1, <1>2, <1>7 DEF Page
<1> QED
  BY <1>5, <1>6, <1>7 DEF Page

LEMMA LastIs ==
  ASSUME NEW a \in Nat, NEW m \in Nat, a < m
  PROVE  Last((a + 1)..m) = m
<1>1. m \in (a + 1)..m /\ \A k \in (a + 1)..m : k <= m
  OBVIOUS
<1>2. Last((a + 1)..m) \in (a + 1)..m /\ \A k \in (a + 1)..m : k <= Last((a + 1)..m)
  BY <1>1 DEF Last
<1> QED
  BY <1>1, <1>2

LEMMA ReadTailInv ==
  ASSUME IntakeInv, NEW p \in Polls, ReadTail(p)
  PROVE  IntakeInv'
<1>1. Reads_Only /\ UNCHANGED builder /\ builder \in Polls \cup {NoPoll} /\ IntakeTypeOK
      /\ poll[p] # NoPoll /\ poll[p].phase = "tail" /\ PollKnows(p)
  BY DEF ReadTail, At, itemVars, cursorVars, listVars, deliveryVars, failureVars, Reads_Only, IntakeInv, IntakeTypeOK
<1>2. CASE Page(p) = {}
  <2>1. GoTo(p, "list")
    BY <1>2 DEF ReadTail
  <2>2. /\ poll' \in [Polls -> Poll \cup {NoPoll}] /\ poll'[p] # NoPoll /\ poll'[p].phase = "list"
        /\ \A q \in Polls : q # p => poll'[q] = poll[q]
    BY <1>1, <2>1, GoToIs DEF Phase
  <2>3. PollKnows(p)'
    BY <2>2 DEF PollKnows
  <2> QED
    BY <1>1, <2>2, <2>3, ReadInv
<1>3. CASE Page(p) # {}
  <2>1. Keep(p, "store", poll[p].at, Page(p))
    BY <1>3 DEF ReadTail
  <2>2. poll[p] \in Poll /\ poll[p].at \in Nat /\ DOMAIN stream \subseteq Nat
    BY <1>1 DEF IntakeTypeOK, Poll
  <2>3. /\ Page(p) \subseteq Nat \cup Items
        /\ \E m \in DOMAIN stream : poll[p].at < m /\ Page(p) = (poll[p].at + 1)..m
    BY <1>1, <1>3, <2>2, PageIs
  <2>4. /\ poll' \in [Polls -> Poll \cup {NoPoll}] /\ poll'[p] # NoPoll /\ poll'[p].phase = "store"
        /\ poll'[p].at = poll[p].at /\ poll'[p].seen = Page(p)
        /\ \A q \in Polls : q # p => poll'[q] = poll[q]
    BY <1>1, <2>1, <2>2, <2>3, KeepIs DEF Phase
  <2>5. poll[p].at <= Len(stream) /\ Indexed(poll[p].at)
    BY <1>1 DEF PollKnows
  <2>6. \A n \in 1..poll[p].at : Live(n)' => n \in pending' \cup acked'
    BY <1>1, <2>5 DEF Indexed, Live, Bell, Current, Reads_Only
  <2>7. PollKnows(p)'
    BY <1>1, <2>3, <2>4, <2>5, <2>6 DEF PollKnows, Reads_Only, Indexed
  <2> QED
    BY <1>1, <2>4, <2>7, ReadInv
<1> QED
  BY <1>2, <1>3

\* The page is in the index before the position moves over it.
LEMMA StoreInv ==
  ASSUME IntakeInv, NEW p \in Polls, Store(p)
  PROVE  IntakeInv'
<1>1. /\ UNCHANGED <<want, round, stream, cursor, acked, fired, deliveries, deliveriesReady, failures, failuresReady, builder>>
      /\ pending' = pending \cup {n \in poll[p].seen : Bell(n)}
      /\ Keep(p, "advance", Last(poll[p].seen), poll[p].seen)
      /\ poll[p] # NoPoll /\ poll[p].phase = "store" /\ PollKnows(p) /\ IntakeTypeOK
  BY DEF Store, At, itemVars, listVars, deliveryVars, failureVars, IntakeInv
<1>2. /\ poll[p] \in Poll /\ poll[p].at \in Nat /\ DOMAIN stream = 1..Len(stream) /\ Len(stream) \in Nat
      /\ Indexed(poll[p].at)
  BY <1>1 DEF IntakeTypeOK, Poll, PollKnows
<1>3. PICK m \in DOMAIN stream : poll[p].at < m /\ poll[p].seen = (poll[p].at + 1)..m
  BY <1>1 DEF PollKnows
<1>4. m \in Nat /\ Last(poll[p].seen) = m /\ poll[p].seen \subseteq DOMAIN stream /\ DOMAIN stream \subseteq Nat
  BY <1>2, <1>3, LastIs
<1>5. /\ poll' \in [Polls -> Poll \cup {NoPoll}] /\ poll'[p] # NoPoll /\ poll'[p].phase = "advance" /\ poll'[p].at = m
      /\ \A q \in Polls : q # p => poll'[q] = poll[q]
  <2>1. poll[p].seen \in SUBSET (Nat \cup Items)
    BY <1>4
  <2> QED
    BY <1>1, <1>4, <2>1, KeepIs DEF Phase
<1>6. \A n \in 1..m : Live(n) => n \in pending' \cup acked
  <2> SUFFICES ASSUME NEW n \in 1..m, Live(n) PROVE n \in pending' \cup acked
    OBVIOUS
  <2>1. CASE n <= poll[p].at
    BY <1>1, <1>2, <1>4, <2>1 DEF Indexed
  <2>2. CASE ~(n <= poll[p].at)
    BY <1>1, <1>2, <1>3, <1>4, <2>2 DEF Live
  <2> QED
    BY <2>1, <2>2
<1>7. PollKnows(p)'
  <2>1. \A n \in 1..m : Live(n)' => n \in pending' \cup acked'
    BY <1>1, <1>6 DEF Live, Bell, Current
  <2>2. m <= Len(stream)
    BY <1>2
  <2> QED
    BY <1>1, <1>5, <2>1, <2>2 DEF PollKnows, Indexed
<1>8. /\ deliveries' \subseteq deliveries /\ deliveries' = deliveries /\ failures' = failures /\ failures' \subseteq Items
      /\ builder' \in Polls \cup {NoPoll} /\ pending' \subseteq DOMAIN stream /\ cursor' \in 0..Len(stream)
  BY <1>1, <1>4 DEF IntakeTypeOK
<1>9. \A n \in 1..cursor' : Live(n) => n \in pending' \cup acked
  BY <1>1 DEF IntakeInv, Indexed
<1>10. \A n \in DOMAIN stream : Live(n) /\ n \in pending \cup acked => n \in pending' \cup acked
  BY <1>1
<1> QED
  BY <1>1, <1>5, <1>7, <1>8, <1>9, <1>10, PollStepInv

\* The cursor follows a position all before which is indexed, and never goes back.
LEMMA AdvanceInv ==
  ASSUME IntakeInv, NEW p \in Polls, Advance(p)
  PROVE  IntakeInv'
<1>1. /\ UNCHANGED <<want, round, stream, pending, acked, fired, deliveries, deliveriesReady, failures, failuresReady, builder>>
      /\ MoveCursor(poll[p].at) /\ Keep(p, "tail", poll[p].at, {})
      /\ poll[p] # NoPoll /\ poll[p].phase = "advance" /\ PollKnows(p) /\ IntakeTypeOK
  BY DEF Advance, At, itemVars, listVars, deliveryVars, failureVars, IntakeInv
<1>2. /\ poll[p] \in Poll /\ poll[p].at \in Nat /\ Len(stream) \in Nat /\ poll[p].at <= Len(stream)
      /\ Indexed(poll[p].at) /\ Indexed(cursor) /\ cursor \in 0..Len(stream)
  BY <1>1 DEF IntakeInv, IntakeTypeOK, Poll, PollKnows
<1>3. /\ poll' \in [Polls -> Poll \cup {NoPoll}] /\ poll'[p] # NoPoll /\ poll'[p].phase = "tail"
      /\ poll'[p].at = poll[p].at /\ \A q \in Polls : q # p => poll'[q] = poll[q]
  BY <1>1, <1>2, KeepIs DEF Phase
<1>4. cursor' \in {cursor, poll[p].at} /\ cursor' \in 0..Len(stream)
  BY <1>1, <1>2 DEF MoveCursor
<1>5. \A n \in 1..cursor' : Live(n) => n \in pending' \cup acked
  BY <1>1, <1>2, <1>4 DEF Indexed
<1>6. PollKnows(p)'
  <2>1. \A n \in 1..poll[p].at : Live(n)' => n \in pending' \cup acked'
    BY <1>1, <1>2 DEF Indexed, Live, Bell, Current
  <2> QED
    BY <1>1, <1>2, <1>3, <2>1 DEF PollKnows, Indexed
<1>7. /\ deliveries' = deliveries /\ failures' = failures /\ failures' \subseteq Items
      /\ builder' \in Polls \cup {NoPoll} /\ pending' \subseteq DOMAIN stream
  BY <1>1 DEF IntakeTypeOK
<1> QED
  BY <1>1, <1>3, <1>4, <1>5, <1>6, <1>7, PollStepInv

\* What the PM is shown, and what of it is stale for ever.
LEMMA ListInv ==
  ASSUME IntakeInv, NEW p \in Polls, List(p) \/ Judge(p) \/ ReadDeliveries(p) \/ ReadFailures(p)
  PROVE  IntakeInv'
<1>1. Reads_Only /\ UNCHANGED builder /\ builder \in Polls \cup {NoPoll} /\ IntakeTypeOK
      /\ poll[p] # NoPoll /\ PollKnows(p)
  BY DEF List, Judge, ReadDeliveries, ReadFailures, At, itemVars, cursorVars, listVars, deliveryVars, failureVars,
         Reads_Only, IntakeInv, IntakeTypeOK
<1>2. /\ DOMAIN stream \subseteq Nat /\ pending \subseteq DOMAIN stream /\ deliveries \subseteq Items
      /\ failures \subseteq Items
  BY <1>1 DEF IntakeTypeOK
<1>3. ASSUME NEW ph \in {"judge", "clean", "cleanDeliveries", "cleanFailures"}, NEW s \in SUBSET (Nat \cup Items),
             Keep(p, ph, 0, s),
             ph \in {"judge", "clean"} => s \subseteq DOMAIN stream,
             ph = "clean" => \A n \in s : n \in acked \/ ~Current(stream[n]),
             ph \in {"cleanDeliveries", "cleanFailures"} => s \subseteq Items
      PROVE  IntakeInv'
  <2>1. /\ poll' \in [Polls -> Poll \cup {NoPoll}] /\ poll'[p] # NoPoll /\ poll'[p].phase = ph
        /\ poll'[p].seen = s /\ \A q \in Polls : q # p => poll'[q] = poll[q]
    BY <1>1, <1>3, KeepIs DEF Phase
  <2>2. PollKnows(p)'
    BY <1>1, <1>3, <2>1 DEF PollKnows, Reads_Only, Current
  <2> QED
    BY <1>1, <2>1, <2>2, ReadInv
<1>4. CASE List(p)
  BY <1>2, <1>3, <1>4 DEF List
<1>5. CASE Judge(p)
  <2> DEFINE s == {n \in poll[p].seen : Obsolete(n)}
  <2>1. poll[p].seen \subseteq DOMAIN stream /\ Keep(p, "clean", 0, s)
    BY <1>1, <1>5 DEF PollKnows, Judge, At
  <2>2. s \subseteq DOMAIN stream /\ \A n \in s : n \in acked \/ ~Current(stream[n])
    BY <2>1 DEF Obsolete, Holds, Current
  <2> HIDE DEF s
  <2> QED
    BY <1>2, <1>3, <2>1, <2>2
<1>6. CASE ReadDeliveries(p)
  BY <1>2, <1>3, <1>6 DEF ReadDeliveries
<1>7. CASE ReadFailures(p)
  BY <1>2, <1>3, <1>7 DEF ReadFailures
<1> QED
  BY <1>4, <1>5, <1>6, <1>7

LEMMA CleanInv ==
  ASSUME IntakeInv, NEW p \in Polls, Clean(p)
  PROVE  IntakeInv'
<1>1. /\ UNCHANGED <<want, round, stream, cursor, acked, fired, deliveries, deliveriesReady, failures, failuresReady, builder>>
      /\ pending' = pending \ poll[p].seen /\ GoTo(p, "deliveries")
      /\ poll[p] # NoPoll /\ poll[p].phase = "clean" /\ PollKnows(p) /\ IntakeTypeOK
  BY DEF Clean, At, itemVars, listVars, deliveryVars, failureVars, IntakeInv
<1>2. /\ poll' \in [Polls -> Poll \cup {NoPoll}] /\ poll'[p] # NoPoll /\ poll'[p].phase = "deliveries"
      /\ \A q \in Polls : q # p => poll'[q] = poll[q]
  BY <1>1, GoToIs DEF Phase
<1>3. PollKnows(p)'
  BY <1>2 DEF PollKnows
<1>4. \A n \in DOMAIN stream : Live(n) /\ n \in pending \cup acked => n \in pending' \cup acked
  BY <1>1 DEF PollKnows, Live
<1>5. \A n \in 1..cursor' : Live(n) => n \in pending' \cup acked
  <2>1. 1..cursor \subseteq DOMAIN stream
    BY <1>1 DEF IntakeTypeOK
  <2> QED
    BY <1>1, <1>4, <2>1 DEF IntakeInv, Indexed
<1>6. /\ deliveries' = deliveries /\ failures' = failures /\ failures' \subseteq Items
      /\ builder' \in Polls \cup {NoPoll} /\ pending' \subseteq DOMAIN stream /\ cursor' \in 0..Len(stream)
  BY <1>1 DEF IntakeTypeOK
<1> QED
  BY <1>1, <1>2, <1>3, <1>4, <1>5, <1>6, PollStepInv

LEMMA CleanDeliveriesInv ==
  ASSUME IntakeInv, NEW p \in Polls, CleanDeliveries(p)
  PROVE  IntakeInv'
<1> DEFINE ph == IF failuresReady THEN "failures" ELSE "build"
<1>1. /\ UNCHANGED <<want, round, stream, cursor, pending, acked, fired, deliveriesReady, failures, failuresReady, builder>>
      /\ deliveries' = Unlist(poll[p].seen) /\ GoTo(p, ph) /\ poll[p] # NoPoll /\ IntakeTypeOK
  BY DEF CleanDeliveries, At, itemVars, cursorVars, failureVars, IntakeInv
<1>2. ph \in Phase /\ ph \in {"failures", "build"}
  BY DEF Phase
<1> HIDE DEF ph
<1>3. /\ poll' \in [Polls -> Poll \cup {NoPoll}] /\ poll'[p] # NoPoll /\ poll'[p].phase = ph
      /\ \A q \in Polls : q # p => poll'[q] = poll[q]
  BY <1>1, <1>2, GoToIs
<1>4. PollKnows(p)'
  BY <1>2, <1>3 DEF PollKnows
<1>5. deliveries' \subseteq deliveries /\ \A i \in deliveries : Delivered(i) => i \in deliveries'
  BY <1>1 DEF Unlist, StillStale
<1>6. /\ failures' = failures /\ failures' \subseteq Items
      /\ builder' \in Polls \cup {NoPoll} /\ pending' \subseteq DOMAIN stream /\ cursor' \in 0..Len(stream)
  BY <1>1 DEF IntakeTypeOK
<1>7. \A n \in 1..cursor' : Live(n) => n \in pending' \cup acked
  BY <1>1 DEF IntakeInv, Indexed
<1> QED
  BY <1>1, <1>2, <1>3, <1>4, <1>5, <1>6, <1>7, PollStepInv

\* The builder reads every task that may be a candidate ...
LEMMA BuildFailuresInv ==
  ASSUME IntakeInv, NEW p \in Polls, BuildFailures(p)
  PROVE  IntakeInv'
<1>1. Reads_Only /\ IntakeTypeOK /\ poll[p] # NoPoll
  BY DEF BuildFailures, At, itemVars, cursorVars, deliveryVars, Reads_Only, IntakeInv
<1>2. CASE failuresReady
  <2>1. GoTo(p, "failures") /\ UNCHANGED builder /\ builder' \in Polls \cup {NoPoll}
    BY <1>1, <1>2 DEF BuildFailures, IntakeTypeOK
  <2>2. /\ poll' \in [Polls -> Poll \cup {NoPoll}] /\ poll'[p] # NoPoll /\ poll'[p].phase = "failures"
        /\ \A q \in Polls : q # p => poll'[q] = poll[q]
    BY <1>1, <2>1, GoToIs DEF Phase
  <2>3. PollKnows(p)'
    BY <2>2 DEF PollKnows
  <2> QED
    BY <1>1, <2>1, <2>2, <2>3, ReadInv
<1>3. CASE ~failuresReady
  <2> DEFINE s == failures \cup {i \in Items : want[i] \notin {"busy", "answer"}}
  <2>1. builder' = p /\ Keep(p, "publish", 0, s)
    BY <1>3 DEF BuildFailures
  <2>2. s \subseteq Items /\ s \in SUBSET (Nat \cup Items) /\ \A i \in Items : want[i] = "decision" => i \in s
    BY <1>1 DEF IntakeTypeOK
  <2> HIDE DEF s
  <2>3. /\ poll' \in [Polls -> Poll \cup {NoPoll}] /\ poll'[p] # NoPoll /\ poll'[p].phase = "publish"
        /\ poll'[p].seen = s /\ \A q \in Polls : q # p => poll'[q] = poll[q]
    BY <1>1, <2>1, <2>2, KeepIs DEF Phase
  <2>4. PollKnows(p)'
    BY <2>2, <2>3 DEF PollKnows
  <2>5. Grown /\ KeepsIndex
    BY <1>1 DEF Grown, KeepsIndex, Live, Bell, Current, IntakeTypeOK, Reads_Only
  <2>6. \A q \in Polls : PollKnows(q)'
    BY <1>1, <2>3, <2>4, <2>5, OthersKnow_Intake DEF Reads_Only
  <2>7. IntakeTypeOK' /\ EventsAreOld' /\ RingsOnce' /\ Indexed(cursor)'
    BY <1>1, <2>1, <2>3 DEF Reads_Only, IntakeInv, IntakeTypeOK, EventsAreOld, RingsOnce, Indexed, Live, Bell, Current
  <2>8. \A q \in Polls : (At(q, "ready")' => q # p /\ At(q, "ready") /\ poll'[q] = poll[q])
                         /\ (At(q, "publish")' => q = p \/ (At(q, "publish") /\ poll'[q] = poll[q]))
    BY <2>3 DEF At
  <2>9. RungOrRead' /\ DeliveredOrRead'
    BY <1>1, <2>8 DEF Reads_Only, IntakeInv, RungOrRead, DeliveredOrRead, Delivered, Current
  <2>10. FailedOrRead'
    BY <1>1, <1>3, <2>2, <2>3, <2>8 DEF Reads_Only, IntakeInv, FailedOrRead
  <2> QED
    BY <2>6, <2>7, <2>9, <2>10 DEF IntakeInv
<1> QED
  BY <1>2, <1>3

\* ... and publishes, as does the clean-up, what of it is actionable by then.
LEMMA PublishFailuresInv ==
  ASSUME IntakeInv, NEW p \in Polls, PublishFailures(p)
  PROVE  IntakeInv'
<1>1. /\ UNCHANGED <<want, round, stream, cursor, pending, acked, fired, deliveries, deliveriesReady>>
      /\ IntakeTypeOK /\ poll[p] # NoPoll /\ poll[p].phase = "publish" /\ PollKnows(p)
  BY DEF PublishFailures, At, itemVars, cursorVars, deliveryVars, IntakeInv
<1>2. CASE builder # p
  <2>1. GoTo(p, "build") /\ Reads_Only /\ builder' \in Polls \cup {NoPoll}
    BY <1>1, <1>2 DEF PublishFailures, failureVars, Reads_Only, IntakeTypeOK
  <2>2. /\ poll' \in [Polls -> Poll \cup {NoPoll}] /\ poll'[p] # NoPoll /\ poll'[p].phase = "build"
        /\ \A q \in Polls : q # p => poll'[q] = poll[q]
    BY <1>1, <2>1, GoToIs DEF Phase
  <2>3. PollKnows(p)'
    BY <2>2 DEF PollKnows
  <2> QED
    BY <2>1, <2>2, <2>3, ReadInv
<1>3. CASE builder = p
  <2>1. /\ failures' = Actionable(poll[p].seen) /\ failuresReady' = TRUE /\ builder' = NoPoll
        /\ GoTo(p, "failures")
    BY <1>3 DEF PublishFailures
  <2>2. /\ poll' \in [Polls -> Poll \cup {NoPoll}] /\ poll'[p] # NoPoll /\ poll'[p].phase = "failures"
        /\ \A q \in Polls : q # p => poll'[q] = poll[q]
    BY <1>1, <2>1, GoToIs DEF Phase
  <2>3. PollKnows(p)'
    BY <2>2 DEF PollKnows
  <2>4. Grown /\ KeepsIndex
    BY <1>1 DEF Grown, KeepsIndex, Live, Bell, Current, IntakeTypeOK
  <2>5. \A q \in Polls : PollKnows(q)'
    BY <1>1, <2>2, <2>3, <2>4, OthersKnow_Intake
  <2>6. failures' \subseteq Items /\ \A i \in Items : want[i] = "decision" => i \in failures'
    <3>1. poll[p].seen \subseteq Items
      BY <1>1 DEF PollKnows
    <3>2. \A i \in Items : want[i] = "decision" => i \in failures \/ i \in poll[p].seen
      BY <1>1 DEF IntakeInv, FailedOrRead, At
    <3> QED
      BY <1>1, <2>1, <3>1, <3>2 DEF Actionable, IntakeTypeOK
  <2>7. IntakeTypeOK'
    BY <1>1, <2>1, <2>2, <2>6 DEF IntakeTypeOK
  <2>8. EventsAreOld' /\ RingsOnce' /\ Indexed(cursor)'
    BY <1>1 DEF IntakeInv, EventsAreOld, RingsOnce, Indexed, Live, Bell, Current
  <2>9. \A q \in Polls : At(q, "ready")' => At(q, "ready") /\ poll'[q] = poll[q]
    BY <2>2 DEF At
  <2>10. RungOrRead' /\ DeliveredOrRead'
    BY <1>1, <2>9 DEF IntakeInv, RungOrRead, DeliveredOrRead, Delivered, Current
  <2>11. FailedOrRead'
    BY <1>1, <2>6 DEF FailedOrRead
  <2> QED
    BY <2>5, <2>7, <2>8, <2>10, <2>11 DEF IntakeInv
<1> QED
  BY <1>2, <1>3

LEMMA CleanFailuresInv ==
  ASSUME IntakeInv, NEW p \in Polls, CleanFailures(p)
  PROVE  IntakeInv'
<1>1. /\ UNCHANGED <<want, round, stream, cursor, pending, acked, fired, deliveries, deliveriesReady, failuresReady, builder>>
      /\ failures' = Actionable(poll[p].seen) /\ poll' = [poll EXCEPT ![p] = NoPoll]
      /\ poll[p] # NoPoll /\ poll[p].phase = "cleanFailures" /\ PollKnows(p) /\ IntakeTypeOK
  BY DEF CleanFailures, At, itemVars, cursorVars, deliveryVars, IntakeInv
<1>2. poll' \in [Polls -> Poll \cup {NoPoll}] /\ poll'[p] = NoPoll /\ \A q \in Polls : q # p => poll'[q] = poll[q]
  BY <1>1 DEF IntakeTypeOK
<1>3. PollKnows(p)'
  BY <1>2 DEF PollKnows
<1>4. failures' \subseteq Items /\ \A i \in failures : want[i] = "decision" => i \in failures'
  BY <1>1 DEF PollKnows, Actionable, IntakeTypeOK
<1>5. /\ deliveries' = deliveries /\ builder' \in Polls \cup {NoPoll} /\ pending' \subseteq DOMAIN stream
      /\ cursor' \in 0..Len(stream)
  BY <1>1 DEF IntakeTypeOK
<1>6. \A n \in 1..cursor' : Live(n) => n \in pending' \cup acked
  BY <1>1 DEF IntakeInv, Indexed
<1> QED
  BY <1>1, <1>2, <1>3, <1>4, <1>5, <1>6, PollStepInv

\* An acknowledged event is not pending, and need not be.
LEMMA AckInv ==
  ASSUME IntakeInv, NEW n \in DOMAIN stream, Ack(n)
  PROVE  IntakeInv'
<1>1. /\ UNCHANGED <<want, round, stream, cursor, fired, deliveries, deliveriesReady, failures, failuresReady, builder, poll>>
      /\ acked' = acked \cup {n} /\ pending' = pending \ {n} /\ IntakeTypeOK
  BY DEF Ack, itemVars, listVars, deliveryVars, failureVars, IntakeInv
<1>2. Grown /\ KeepsIndex
  BY <1>1 DEF Grown, KeepsIndex, Live, Bell, Current, IntakeTypeOK
<1>3. \A q \in Polls : PollKnows(q)'
  BY <1>1, <1>2, OthersKnow_Intake
<1>4. cursor \in 0..Len(stream) /\ IntakeTypeOK'
  BY <1>1 DEF IntakeTypeOK
<1>5. \A k \in 1..cursor : Live(k)' => k \in pending' \cup acked'
  BY <1>1 DEF IntakeInv, Indexed, Live, Bell, Current
<1>6. EventsAreOld' /\ RingsOnce' /\ Indexed(cursor)'
  BY <1>1, <1>5 DEF IntakeInv, EventsAreOld, RingsOnce, Indexed
<1>7. RungOrRead' /\ DeliveredOrRead' /\ FailedOrRead'
  BY <1>1 DEF IntakeInv, RungOrRead, DeliveredOrRead, FailedOrRead, Delivered, Current, At
<1> QED
  BY <1>3, <1>4, <1>6, <1>7 DEF IntakeInv

LEMMA IntakeIdle ==
  ASSUME IntakeInv, Reads_Only, UNCHANGED poll, builder' \in Polls \cup {NoPoll}
  PROVE  IntakeInv'
<1>1. IntakeTypeOK /\ IntakeTypeOK'
  BY DEF IntakeInv, IntakeTypeOK, Reads_Only
<1>2. Grown /\ KeepsIndex
  BY <1>1 DEF Grown, KeepsIndex, Live, Bell, Current, IntakeTypeOK, Reads_Only
<1>3. \A q \in Polls : PollKnows(q)'
  BY <1>2, OthersKnow_Intake DEF Reads_Only
<1>4. EventsAreOld' /\ RingsOnce' /\ Indexed(cursor)'
  BY DEF Reads_Only, IntakeInv, EventsAreOld, RingsOnce, Indexed, Live, Bell, Current
<1>5. RungOrRead' /\ DeliveredOrRead' /\ FailedOrRead'
  BY DEF Reads_Only, IntakeInv, RungOrRead, DeliveredOrRead, FailedOrRead, Delivered, Current, At
<1> QED
  BY <1>1, <1>3, <1>4, <1>5 DEF IntakeInv

LEMMA IntakeInvStep == IntakeInv /\ [IntakeNext]_intakeVars => IntakeInv'
<1> SUFFICES ASSUME IntakeInv, [IntakeNext]_intakeVars PROVE IntakeInv'
  OBVIOUS
<1>1. CASE UNCHANGED intakeVars \/ LoseBuild
  <2>1. Reads_Only /\ UNCHANGED poll /\ builder' \in Polls \cup {NoPoll}
    BY <1>1 DEF LoseBuild, intakeVars, itemVars, cursorVars, listVars, deliveryVars, failureVars, Reads_Only,
                IntakeInv, IntakeTypeOK
  <2> QED
    BY <2>1, IntakeIdle
<1>2. ASSUME NEW i \in Items,
             \/ ReportDelivery(i) \/ AskPm(i) \/ AnswerPm(i) \/ ReviewItem(i) \/ ResetItem(i)
             \/ FailItem(i) \/ RepairItem(i) \/ \E rings \in BOOLEAN : NeedDecision(i, rings)
      PROVE  IntakeInv'
  BY <1>2, ItemInv
<1>3. ASSUME NEW p \in Polls,
             \/ StartPoll(p) \/ AbsorbRead(p) \/ AbsorbWrite(p) \/ RingEnds(p) \/ \E i \in Items : Ring(p, i)
             \/ ReadTail(p) \/ Store(p) \/ Advance(p) \/ List(p) \/ Judge(p) \/ Clean(p)
             \/ ReadDeliveries(p) \/ CleanDeliveries(p) \/ BuildFailures(p) \/ PublishFailures(p)
             \/ ReadFailures(p) \/ CleanFailures(p) \/ DiePoll(p)
      PROVE  IntakeInv'
  BY <1>3, StartsOrEndsInv, AbsorbReadInv, AbsorbWriteInv, RingEndsInv, RingInv, ReadTailInv, StoreInv, AdvanceInv,
     ListInv, CleanInv, CleanDeliveriesInv, BuildFailuresInv, PublishFailuresInv, CleanFailuresInv
<1>4. ASSUME NEW n \in DOMAIN stream, Ack(n) PROVE IntakeInv'
  BY <1>4, AckInv
<1> QED
  BY <1>1, <1>2, <1>3, <1>4 DEF IntakeNext

\* The stream, the cursor, both lists and the polls keep their types; no poll reads or
\* moves the cursor beyond the stream.
THEOREM IntakeTypes == IntakeSpec => []IntakeTypeOK
<1>1. IntakeInv => IntakeTypeOK
  BY DEF IntakeInv
<1> QED
  BY <1>1, InitIntakeInv, IntakeInvStep, PTL DEF IntakeSpec

\* However polls of the inbox overlap with each other and with the tasks, and wherever
\* they die: what a task still wants of the PM is listed, its event is pending or was
\* acknowledged once the cursor is past it, and one round rings for its review once.
THEOREM Inbox_Kept == IntakeSpec => []InboxIsKept
<1>1. IntakeInv => InboxIsKept
  BY DEF IntakeInv, InboxIsKept, NothingSkipped, Indexed, Live, ReasonsAreListed, DeliveriesAreListed,
         FailuresAreListed, DeliveredOrRead, FailedOrRead
<1> QED
  BY <1>1, InitIntakeInv, IntakeInvStep, PTL DEF IntakeSpec

-----------------------------------------------------------------------------
(***************************************************************************)
(* PlanProjection: the counters of a plan that is not dirty are its tasks  *)
(* but those a backfill has dropped, and a status request is not answered  *)
(* with what was before it came, unless writes outran every one of its     *)
(* rebuilds.                                                               *)
(***************************************************************************)

\* Once the marker is there the lists miss the dropped tasks, and no others.
ListsKnown ==
  /\ registered \subseteq Existing
  /\ ready => (IF listed THEN registered ELSE {}) = Existing \ dropped

\* What a request knows is no younger than the hashes, and it knows of every task that is
\* off the lists; the writes since it came are at least the rebuilds it has lost.
ReaderKnows(p) ==
  reader[p] # NoReader =>
    /\ \A t \in PlanTasks : reader[p].floor[t] <= content[t]
    /\ reader[p].since <= revision
    /\ reader[p].phase \in {"check", "locked", "scan", "publish", "wait", "dirty"} => reader[p].try = 0
    /\ reader[p].phase = "revision" => reader[p].try < Tries /\ revision >= reader[p].since + reader[p].try
    /\ reader[p].phase \in {"members", "commit"} =>
         reader[p].rev <= revision /\ reader[p].rev + 1 >= reader[p].since + reader[p].try
    /\ dropped \subseteq reader[p].lost
    /\ reader[p].phase = "publish" => reader[p].ids \subseteq Existing
    /\ reader[p].phase \in {"check", "locked", "scan", "publish", "wait", "dirty"} => reader[p].heals = FALSE

\* A count that is not older than the request.
Recent(p, count) == \A t \in PlanTasks \ reader[p].lost : count[t] >= reader[p].floor[t]
Outrun(p) == revision >= reader[p].since + Tries

\* The marker is there for whoever goes on, and away from whoever still builds; what a
\* rebuild has read is the count if no write was counted since.
ReaderSees(p) ==
  reader[p] # NoReader =>
    /\ reader[p].phase \in {"dirty", "revision", "members", "commit", "answer", "answered"} => ready
    /\ reader[p].phase \in {"locked", "scan", "publish"} /\ backfill = p => ~ready
    /\ reader[p].phase = "publish" /\ ~ready /\ ~dirty => reader[p].ids = Existing /\ reader[p].seen = content
    /\ reader[p].phase \in {"members", "commit"} /\ reader[p].rev = revision => reader[p].ids = registered
    /\ reader[p].phase = "commit" /\ reader[p].rev = revision => reader[p].seen = Count(registered)
    /\ reader[p].phase = "answer" =>
         IF aggregate = NoAggregate THEN reader[p].heals => Outrun(p) ELSE Recent(p, aggregate) \/ Outrun(p)
    /\ reader[p].phase = "answered" => Recent(p, reader[p].seen) \/ Outrun(p)

AggregateKnown ==
  /\ ~ready => aggregate = NoAggregate
  /\ ready /\ ~dirty => aggregate = Count(registered) \/ (aggregate = NoAggregate /\ ~listed)

ProjectionInv ==
  /\ ProjectionTypeOK /\ ListsKnown
  /\ \A p \in Readers : ReaderKnows(p)
  /\ ~withdrawn => AggregateKnown /\ \A p \in Readers : ReaderSees(p)

LEMMA InitProjectionInv == ProjectionInit => ProjectionInv
<1> SUFFICES ASSUME ProjectionInit PROVE ProjectionInv
  OBVIOUS
<1>1. /\ content \in Counts /\ registered = {} /\ revision = 0 /\ aggregate = NoAggregate /\ ready = FALSE
      /\ reader = [p \in Readers |-> NoReader] /\ failed = 0 /\ backfill = NoReader
      /\ listed = FALSE /\ dirty = FALSE /\ withdrawn = FALSE /\ dropped = {}
  BY DEF ProjectionInit, Counts
<1>2. ProjectionTypeOK
  <2>1. 0 \in 0..ChangeBound /\ 0 \in 0..FailureBound
    BY ProjectionAssumption
  <2>2. reader \in [Readers -> Reader \cup {NoReader}]
    BY <1>1
  <2> QED
    BY <1>1, <2>1, <2>2 DEF ProjectionTypeOK
<1> QED
  BY <1>1, <1>2 DEF ProjectionInv, ReaderKnows, ReaderSees, AggregateKnown, ListsKnown

-----------------------------------------------------------------------------
(* What steps leave alone.                                                 *)

\* Tasks are only written, and as long as no marker is taken back: it stays, nothing is
\* written uncounted, and a new aggregate is the present count.
Forward ==
  /\ \A t \in PlanTasks : content[t] <= content'[t]
  /\ revision <= revision'
  /\ ~withdrawn' =>
       /\ ~withdrawn /\ (ready => ready')
       /\ revision' = revision => content' = content /\ (ready => registered' = registered)
       /\ ~ready' /\ ~dirty' => ~dirty /\ content' = content
       /\ ready => aggregate' = aggregate \/ aggregate' = Count(registered)'

\* Another reader is left as it is; only more tasks may have been dropped under it.
LeftAlone(q) ==
  IF reader[q] = NoReader THEN reader'[q] = NoReader
  ELSE /\ reader'[q] # NoReader /\ reader[q].lost \subseteq reader'[q].lost /\ dropped' \subseteq reader'[q].lost
       /\ reader'[q].phase = reader[q].phase /\ reader'[q].try = reader[q].try /\ reader'[q].rev = reader[q].rev
       /\ reader'[q].ids = reader[q].ids /\ reader'[q].seen = reader[q].seen /\ reader'[q].floor = reader[q].floor
       /\ reader'[q].since = reader[q].since /\ reader'[q].heals = reader[q].heals

LEMMA Untouched ==
  ASSUME ProjectionInv, NEW q \in Readers, reader'[q] = reader[q], dropped' \subseteq dropped
  PROVE  LeftAlone(q)
<1>1. CASE reader[q] = NoReader
  BY <1>1 DEF LeftAlone
<1>2. CASE reader[q] # NoReader
  <2>1. dropped \subseteq reader[q].lost
    BY <1>2 DEF ProjectionInv, ReaderKnows
  <2> QED
    BY <1>2, <2>1 DEF LeftAlone
<1> QED
  BY <1>1, <1>2

LEMMA CountIs ==
  ASSUME content \in Counts, NEW ids \in SUBSET PlanTasks
  PROVE  /\ Count(ids) \in Counts /\ \A t \in PlanTasks : Count(ids)[t] \in {0, content[t]}
         /\ Count(Existing) = content
<1>1. Count(ids) \in Counts /\ \A t \in PlanTasks : Count(ids)[t] \in {0, content[t]}
  BY DEF Count, Counts
<1>2. \A t \in PlanTasks : content[t] \in Nat /\ (t \in Existing <=> content[t] # 0)
  BY DEF Existing, Counts
<1>3. Count(Existing) = [t \in PlanTasks |-> content[t]]
  BY <1>2 DEF Count
<1>4. content = [t \in PlanTasks |-> content[t]]
  BY DEF Counts
<1> QED
  BY <1>1, <1>3, <1>4

LEMMA ReaderFields ==
  ASSUME ProjectionTypeOK, NEW q \in Readers, reader[q] # NoReader
  PROVE  /\ reader[q] \in Reader /\ reader[q].phase \in ReaderPhase /\ reader[q].try \in 0..Tries /\ reader[q].rev \in Nat
         /\ reader[q].ids \in SUBSET PlanTasks /\ reader[q].seen \in Counts /\ reader[q].floor \in Counts
         /\ reader[q].since \in Nat /\ reader[q].heals \in BOOLEAN /\ reader[q].lost \in SUBSET PlanTasks /\ Tries \in Nat /\ revision \in Nat /\ content \in Counts
BY ProjectionAssumption DEF ProjectionTypeOK, Reader

\* The present count of the listed tasks is recent for everybody; that of an unlisted plan
\* is zero.
LEMMA CountIsRecent ==
  ASSUME ProjectionTypeOK, ListsKnown, ready, NEW p \in Readers, ReaderKnows(p), reader[p] # NoReader
  PROVE  Recent(p, Count(registered)) /\ (~listed => Recent(p, Count({})))
<1>1. /\ content \in Counts /\ \A t \in PlanTasks : reader[p].floor[t] \in Nat /\ content[t] \in Nat
      /\ \A t \in PlanTasks : reader[p].floor[t] <= content[t]
  BY ReaderFields DEF Counts, ReaderKnows
<1>2. \A t \in PlanTasks : (t \in Existing => content[t] # 0) /\ (t \notin Existing => content[t] = 0)
  BY <1>1 DEF Existing
<1>3. \A t \in PlanTasks \ reader[p].lost : t \notin Existing \/ (listed /\ t \in registered)
  BY DEF ListsKnown, ReaderKnows
<1>4. \A ids \in SUBSET PlanTasks, t \in PlanTasks : Count(ids)[t] = IF t \in ids THEN content[t] ELSE 0
  BY DEF Count
<1>5. registered \in SUBSET PlanTasks /\ registered \subseteq Existing
  BY DEF ProjectionTypeOK, ListsKnown
<1> QED
  BY <1>1, <1>2, <1>3, <1>4, <1>5 DEF Recent

LEMMA CountWillBeRecent ==
  ASSUME ProjectionTypeOK', ListsKnown', ready', NEW p \in Readers, ReaderKnows(p)', reader'[p] # NoReader
  PROVE  Recent(p, Count(registered))'
<1>1. /\ content' \in Counts /\ \A t \in PlanTasks : reader'[p].floor[t] \in Nat /\ content'[t] \in Nat
      /\ \A t \in PlanTasks : reader'[p].floor[t] <= content'[t]
  <2>1. reader'[p] \in Reader /\ content' \in Counts
    BY DEF ProjectionTypeOK
  <2> QED
    BY <2>1 DEF Counts, ReaderKnows, Reader
<1>2. \A t \in PlanTasks : t \notin Existing' => content'[t] = 0
  BY <1>1 DEF Existing
<1>3. \A t \in PlanTasks \ reader'[p].lost : t \notin Existing' \/ t \in registered'
  BY DEF ListsKnown, ReaderKnows
<1>4. \A t \in PlanTasks : Count(registered)'[t] = IF t \in registered' THEN content'[t] ELSE 0
  BY DEF Count
<1> QED
  BY <1>1, <1>2, <1>3, <1>4 DEF Recent, ListsKnown

LEMMA OthersKnow_Projection ==
  ASSUME ProjectionInv, ProjectionTypeOK', Forward, NEW q \in Readers, LeftAlone(q)
  PROVE  ReaderKnows(q)'
<1> SUFFICES ASSUME reader[q] # NoReader PROVE ReaderKnows(q)'
  BY DEF ReaderKnows, LeftAlone
<1>1. ProjectionTypeOK /\ ReaderKnows(q) /\ revision' \in Nat /\ content' \in Counts
  BY DEF ProjectionInv, ProjectionTypeOK
<1>2. /\ reader[q].try \in Nat /\ reader[q].rev \in Nat /\ reader[q].since \in Nat /\ revision \in Nat
      /\ content \in Counts /\ reader[q].floor \in Counts /\ Tries \in Nat
  BY <1>1, ReaderFields
<1>3. \A t \in PlanTasks : reader[q].floor[t] \in Nat /\ content[t] \in Nat /\ content'[t] \in Nat
  BY <1>1, <1>2 DEF Counts
<1>4. \A t \in PlanTasks : reader[q].floor[t] <= content'[t]
  BY <1>1, <1>3 DEF Forward, ReaderKnows
<1>5. /\ reader[q].since <= revision'
      /\ reader[q].phase = "revision" => revision' >= reader[q].since + reader[q].try
      /\ reader[q].phase \in {"members", "commit"} => reader[q].rev <= revision'
  BY <1>1, <1>2 DEF Forward, ReaderKnows
<1>6. Existing \subseteq Existing'
  BY <1>3 DEF Existing, Forward
<1>7. reader[q].phase = "publish" => reader[q].ids \subseteq Existing'
  BY <1>1, <1>6 DEF ReaderKnows
<1>8. /\ reader'[q].phase = reader[q].phase /\ reader'[q].try = reader[q].try /\ reader'[q].rev = reader[q].rev
      /\ reader'[q].ids = reader[q].ids /\ reader'[q].floor = reader[q].floor
      /\ reader'[q].since = reader[q].since /\ reader'[q].heals = reader[q].heals /\ dropped' \subseteq reader'[q].lost
  BY DEF LeftAlone
<1> QED
  BY <1>1, <1>4, <1>5, <1>7, <1>8 DEF ReaderKnows

LEMMA OthersSee ==
  ASSUME ProjectionInv, ProjectionTypeOK', Forward, ~withdrawn', ListsKnown', NEW q \in Readers, LeftAlone(q),
         backfill' = q => backfill = q /\ ready' = ready
  PROVE  ReaderSees(q)'
<1> SUFFICES ASSUME reader[q] # NoReader PROVE ReaderSees(q)'
  BY DEF ReaderSees, LeftAlone
<1>0. /\ reader'[q].phase = reader[q].phase /\ reader'[q].rev = reader[q].rev /\ reader'[q] # NoReader
      /\ reader'[q].ids = reader[q].ids /\ reader'[q].seen = reader[q].seen /\ reader'[q].floor = reader[q].floor
      /\ reader'[q].since = reader[q].since /\ reader'[q].heals = reader[q].heals
      /\ reader[q].lost \subseteq reader'[q].lost
  BY DEF LeftAlone
<1>1. ProjectionTypeOK /\ ReaderKnows(q) /\ ReaderSees(q) /\ revision' \in Nat /\ content' \in Counts
  BY DEF ProjectionInv, ProjectionTypeOK, Forward
<1>2. /\ reader[q].rev \in Nat /\ reader[q].since \in Nat /\ revision \in Nat /\ Tries \in Nat
      /\ content \in Counts /\ reader[q].floor \in Counts /\ reader[q].ids \in SUBSET PlanTasks
  BY <1>1, ReaderFields
<1>3. \A t \in PlanTasks : reader[q].floor[t] \in Nat /\ content[t] \in Nat /\ content'[t] \in Nat
  BY <1>1, <1>2 DEF Counts
<1>4. Outrun(q) => Outrun(q)'
  BY <1>0, <1>1, <1>2 DEF Outrun, Forward
<1>5. reader[q].phase \in {"members", "commit"} /\ reader[q].rev = revision' =>
        /\ ready /\ revision' = revision /\ content' = content /\ registered' = registered
  BY <1>1, <1>2 DEF Forward, ReaderKnows, ReaderSees
<1>6. reader[q].phase = "answer" =>
        IF aggregate' = NoAggregate THEN reader[q].heals => Outrun(q)' ELSE Recent(q, aggregate)' \/ Outrun(q)'
  <2> SUFFICES ASSUME reader[q].phase = "answer"
               PROVE  IF aggregate' = NoAggregate THEN reader[q].heals => Outrun(q)' ELSE Recent(q, aggregate)' \/ Outrun(q)'
    OBVIOUS
  <2>1. ready /\ ready'
    BY <1>1 DEF ReaderSees, Forward
  <2>2. CASE aggregate' = aggregate
    BY <1>0, <1>1, <1>4, <2>2 DEF ReaderSees, Recent
  <2>3. CASE aggregate' = Count(registered)'
    <3>1. Count(registered)' \in Counts
      BY <1>1 DEF Count, Counts
    <3>2. ReaderKnows(q)'
      BY OthersKnow_Projection
    <3>3. Recent(q, Count(registered))'
      BY <1>0, <2>1, <3>2, CountWillBeRecent
    <3>4. Recent(q, aggregate)'
      BY <2>3, <3>3 DEF Recent
    <3> QED
      BY <2>3, <3>1, <3>4, ProjectionAssumption
  <2> QED
    BY <2>1, <2>2, <2>3 DEF Forward
<1>7. reader[q].phase = "answered" => Recent(q, reader[q].seen)' \/ Outrun(q)'
  BY <1>0, <1>1, <1>4 DEF ReaderSees, Recent
<1>8. reader[q].phase = "publish" /\ ~ready' /\ ~dirty' => reader[q].ids = Existing' /\ reader[q].seen = content'
  BY <1>1 DEF ReaderSees, Forward, Existing
<1>9. reader[q].phase \in {"members", "commit"} /\ reader[q].rev = revision' => reader[q].ids = registered'
  BY <1>1, <1>5 DEF ReaderSees
<1>10. reader[q].phase = "commit" /\ reader[q].rev = revision' => reader[q].seen = Count(registered)'
  <2> SUFFICES ASSUME reader[q].phase = "commit", reader[q].rev = revision' PROVE reader[q].seen = Count(registered)'
    OBVIOUS
  <2>1. content' = content /\ registered' = registered /\ revision' = revision
    BY <1>5
  <2> QED
    BY <1>1, <2>1 DEF ReaderSees, Count
<1>11. /\ reader[q].phase \in {"dirty", "revision", "members", "commit", "answer", "answered"} => ready'
       /\ reader[q].phase \in {"locked", "scan", "publish"} /\ backfill' = q => ~ready'
  BY <1>1 DEF ReaderSees, Forward
<1> QED
  BY <1>0, <1>6, <1>7, <1>8, <1>9, <1>10, <1>11 DEF ReaderSees

LEMMA WriteTaskInv ==
  ASSUME ProjectionInv, NEW t0 \in PlanTasks, WriteTask(t0)
  PROVE  ProjectionInv'
<1>1. /\ content' = [content EXCEPT ![t0] = @ + 1] /\ revision' = revision + 1 /\ revision < ChangeBound
      /\ listed' = TRUE /\ registered' = registered \cup {t0} /\ dirty' = TRUE
      /\ dropped' = dropped \ (registered \cup {t0}) /\ UNCHANGED <<aggregate, ready, backfill, reader, failed, withdrawn>>
      /\ ProjectionTypeOK /\ revision \in 0..ChangeBound /\ content \in Counts /\ ChangeBound \in Nat
  BY ProjectionAssumption DEF WriteTask, ProjectionInv, ProjectionTypeOK
<1>2. content' \in Counts /\ \A t \in PlanTasks : content[t] <= content'[t]
  BY <1>1 DEF Counts
<1>3. ProjectionTypeOK'
  BY <1>1, <1>2 DEF ProjectionTypeOK
<1>4. Forward
  BY <1>1, <1>2 DEF Forward
<1>5. AggregateKnown => AggregateKnown'
  BY <1>1 DEF AggregateKnown
<1>6. Existing' = Existing \cup {t0}
  BY <1>1 DEF Existing, Counts
<1>7. ListsKnown'
  BY <1>1, <1>6 DEF ListsKnown, ProjectionInv, ProjectionTypeOK
<1>8. ASSUME NEW q \in Readers PROVE LeftAlone(q)
  <2>1. reader'[q] = reader[q] /\ dropped' \subseteq dropped
    BY <1>1
  <2> QED
    BY <2>1, Untouched
<1> QED
  BY <1>1, <1>3, <1>4, <1>5, <1>7, <1>8, OthersKnow_Projection, OthersSee DEF ProjectionInv

\* A step of one reader.
LEMMA ReaderStepInv ==
  ASSUME ProjectionInv, NEW p \in Readers, UNCHANGED <<content, revision>>,
         Forward, listed' \in BOOLEAN, registered' \subseteq PlanTasks, dirty' \in BOOLEAN,
         aggregate' \in Counts \cup {NoAggregate}, ready' \in BOOLEAN, failed' \in 0..FailureBound, withdrawn' \in BOOLEAN,
         backfill' \in {backfill, p, NoReader}, backfill # p => ready' = ready, dropped' \subseteq PlanTasks, ListsKnown',
         reader' \in [Readers -> Reader \cup {NoReader}], \A q \in Readers : q # p => LeftAlone(q),
         ReaderKnows(p)', ~withdrawn' => AggregateKnown' /\ ReaderSees(p)'
  PROVE  ProjectionInv'
<1>1. ProjectionTypeOK'
  BY DEF ProjectionInv, ProjectionTypeOK
<1>2. \A q \in Readers : ReaderKnows(q)'
  BY <1>1, OthersKnow_Projection
<1>3. ASSUME ~withdrawn', NEW q \in Readers, q # p PROVE ReaderSees(q)'
  <2>1. backfill' = q => backfill = q /\ ready' = ready
    BY <1>3, ProjectionAssumption
  <2> QED
    BY <1>1, <1>3, <2>1, OthersSee
<1> QED
  BY <1>1, <1>2, <1>3 DEF ProjectionInv

\* A step of one reader that changes neither the lists nor an aggregate.
Looks == UNCHANGED <<writeVars, dirty, aggregate, ready, failed, withdrawn, dropped>>

LEMMA LooksInv ==
  ASSUME ProjectionInv, NEW p \in Readers, Looks, backfill' \in {backfill, p, NoReader},
         reader' \in [Readers -> Reader \cup {NoReader}], \A q \in Readers : q # p => reader'[q] = reader[q],
         ReaderKnows(p)', ~withdrawn' => ReaderSees(p)'
  PROVE  ProjectionInv'
<1>1. /\ UNCHANGED <<content, listed, registered, revision, dirty, aggregate, ready, failed, withdrawn, dropped>>
      /\ ProjectionTypeOK
  BY DEF Looks, writeVars, ProjectionInv
<1>2. /\ registered' \subseteq PlanTasks /\ aggregate' \in Counts \cup {NoAggregate} /\ failed' \in 0..FailureBound
      /\ listed' \in BOOLEAN /\ dirty' \in BOOLEAN /\ ready' \in BOOLEAN /\ withdrawn' \in BOOLEAN
      /\ content \in Counts /\ revision \in 0..ChangeBound /\ dropped' \subseteq PlanTasks
  BY <1>1 DEF ProjectionTypeOK
<1>3. Forward
  BY <1>1, <1>2 DEF Forward, Counts
<1>4. ~withdrawn' => AggregateKnown'
  BY <1>1 DEF ProjectionInv, AggregateKnown, Count
<1>5. ListsKnown'
  BY <1>1 DEF ProjectionInv, ListsKnown, Existing
<1>6. ASSUME NEW q \in Readers, q # p PROVE LeftAlone(q)
  <2>1. reader'[q] = reader[q] /\ dropped' \subseteq dropped
    BY <1>1, <1>6
  <2> QED
    BY <2>1, Untouched
<1> QED
  BY <1>1, <1>2, <1>3, <1>4, <1>5, <1>6, ReaderStepInv

\* A reader goes on to another phase with what it has.
LEMMA ForgettingIs ==
  ASSUME ProjectionTypeOK, NEW r \in Reader, NEW ph \in ReaderPhase
  PROVE  /\ Forgetting(r, ph) \in Reader /\ Forgetting(r, ph).phase = ph /\ Forgetting(r, ph).lost = r.lost
         /\ Forgetting(r, ph).try = IF ph = "revision" THEN r.try ELSE 0
         /\ Forgetting(r, ph).floor = r.floor /\ Forgetting(r, ph).since = r.since /\ Forgetting(r, ph).heals = r.heals
<1> DEFINE none == Count({})
<1>1. none \in Counts
  BY CountIs DEF ProjectionTypeOK
<1>2. 0 \in 0..Tries /\ 0 \in Nat /\ {} \in SUBSET PlanTasks
  BY ProjectionAssumption
<1> HIDE DEF none
<1>3. Forgetting(r, ph) = [r EXCEPT !.phase = ph, !.try = IF ph = "revision" THEN r.try ELSE 0, !.rev = 0, !.ids = {}, !.seen = none]
  BY DEF Forgetting, none, Reader
<1> QED
  BY <1>1, <1>2, <1>3 DEF Reader

LEMMA ToPhaseIs ==
  ASSUME ProjectionTypeOK, NEW p \in Readers, NEW ph \in ReaderPhase, reader[p] # NoReader, ToPhase(p, ph)
  PROVE  /\ reader' \in [Readers -> Reader \cup {NoReader}] /\ reader'[p] # NoReader
         /\ reader'[p].phase = ph /\ reader'[p].try = (IF ph = "revision" THEN reader[p].try ELSE 0)
         /\ reader'[p].floor = reader[p].floor /\ reader'[p].since = reader[p].since
         /\ reader'[p].heals = reader[p].heals /\ reader'[p].lost = reader[p].lost
         /\ \A q \in Readers : q # p => reader'[q] = reader[q]
<1> DEFINE c == Forgetting(reader[p], ph)
<1>1. reader[p] \in Reader
  BY DEF ProjectionTypeOK
<1>2. /\ c \in Reader /\ c.phase = ph /\ c.try = (IF ph = "revision" THEN reader[p].try ELSE 0)
      /\ c.floor = reader[p].floor /\ c.since = reader[p].since /\ c.heals = reader[p].heals /\ c.lost = reader[p].lost
  BY <1>1, ForgettingIs
<1>3. reader' = [reader EXCEPT ![p] = c]
  BY DEF ToPhase, ProjectionTypeOK
<1>4. c # NoReader
  BY <1>2, ProjectionAssumption
<1> HIDE DEF c
<1> QED
  BY <1>2, <1>3, <1>4 DEF ProjectionTypeOK

\* Requests come, and end with their answer.
LEMMA StartReadingInv ==
  ASSUME ProjectionInv, NEW p \in Readers, StartReading(p)
  PROVE  ProjectionInv'
<1> DEFINE c == [phase |-> "check", try |-> 0, rev |-> 0, ids |-> {}, seen |-> Count({}), floor |-> content,
                 since |-> revision, lost |-> dropped, heals |-> FALSE]
<1>1. /\ Looks /\ UNCHANGED <<backfill, content, revision>> /\ reader' = [reader EXCEPT ![p] = c] /\ ProjectionTypeOK
      /\ content \in Counts /\ revision \in Nat
  BY ProjectionAssumption DEF StartReading, Looks, writeVars, ProjectionInv, ProjectionTypeOK
<1>2. /\ c \in Reader /\ c.phase = "check" /\ c.try = 0 /\ c.floor = content /\ c.since = revision
      /\ c.lost = dropped /\ c.heals = FALSE
  <2>1. Count({}) \in Counts /\ dropped \in SUBSET PlanTasks
    BY <1>1, CountIs DEF ProjectionTypeOK
  <2> QED
    BY <1>1, <2>1, ProjectionAssumption DEF Reader, ReaderPhase
<1>3. c # NoReader
  BY <1>2, ProjectionAssumption
<1> HIDE DEF c
<1>4. /\ reader' \in [Readers -> Reader \cup {NoReader}] /\ reader'[p] = c
      /\ \A q \in Readers : q # p => reader'[q] = reader[q]
  BY <1>1, <1>2 DEF ProjectionTypeOK
<1>5. ReaderKnows(p)'
  <2>1. \A t \in PlanTasks : content[t] \in Nat
    BY <1>1 DEF Counts
  <2> QED
    BY <1>1, <1>2, <1>4, <2>1 DEF ReaderKnows, Looks
<1>6. ReaderSees(p)'
  BY <1>2, <1>4 DEF ReaderSees
<1> QED
  BY <1>1, <1>4, <1>5, <1>6, LooksInv

LEMMA EndReadingInv ==
  ASSUME ProjectionInv, NEW p \in Readers, EndReading(p)
  PROVE  ProjectionInv'
<1>1. Looks /\ UNCHANGED backfill /\ ProjectionTypeOK
  BY DEF EndReading, Looks, ProjectionInv
<1>2. /\ reader' \in [Readers -> Reader \cup {NoReader}] /\ reader'[p] = NoReader
      /\ \A q \in Readers : q # p => reader'[q] = reader[q]
  BY <1>1 DEF ProjectionTypeOK, EndReading
<1> QED
  BY <1>1, <1>2, LooksInv DEF ReaderKnows, ReaderSees

\* The marker is looked at, again under the lock, and waited for.
LEMMA CheckReadyInv ==
  ASSUME ProjectionInv, NEW p \in Readers, CheckReady(p)
  PROVE  ProjectionInv'
<1> DEFINE ph == IF ready THEN "dirty" ELSE IF In(p, "locked") THEN "scan"
                 ELSE IF backfill = NoReader THEN "locked" ELSE "wait"
<1>1. /\ Looks /\ ProjectionTypeOK /\ ReaderKnows(p) /\ reader[p] # NoReader
      /\ ToPhase(p, ph) /\ reader[p].phase \in {"check", "locked"}
      /\ backfill' = IF ~ready /\ backfill = NoReader /\ In(p, "check") THEN p ELSE backfill
      /\ UNCHANGED <<content, revision, ready, dropped>>
  BY DEF CheckReady, Looks, ProjectionInv, In, writeVars
<1>2. ph \in ReaderPhase /\ ph \in {"dirty", "scan", "locked", "wait"} /\ (ph = "dirty" <=> ready)
  BY DEF ReaderPhase
<1> HIDE DEF ph
<1>3. /\ reader' \in [Readers -> Reader \cup {NoReader}] /\ reader'[p] # NoReader
      /\ reader'[p].phase = ph /\ reader'[p].try = (IF ph = "revision" THEN reader[p].try ELSE 0)
      /\ reader'[p].floor = reader[p].floor /\ reader'[p].since = reader[p].since
      /\ reader'[p].heals = reader[p].heals /\ reader'[p].lost = reader[p].lost /\ \A q \in Readers : q # p => reader'[q] = reader[q]
  BY <1>1, <1>2, ToPhaseIs
<1>4. ReaderKnows(p)'
  BY <1>1, <1>2, <1>3 DEF ReaderKnows
<1>5. ReaderSees(p)'
  BY <1>1, <1>2, <1>3 DEF ReaderSees
<1> QED
  BY <1>1, <1>3, <1>4, <1>5, LooksInv

LEMMA AwaitInv ==
  ASSUME ProjectionInv, NEW p \in Readers, Await(p)
  PROVE  ProjectionInv'
<1> DEFINE ph == IF ready THEN "dirty" ELSE "check"
<1>1. /\ Looks /\ ProjectionTypeOK /\ ReaderKnows(p) /\ reader[p] # NoReader
      /\ ToPhase(p, ph) /\ reader[p].phase = "wait" /\ UNCHANGED <<content, revision, ready, backfill, dropped>>
  BY DEF Await, Looks, ProjectionInv, In, writeVars
<1>2. ph \in ReaderPhase /\ ph \in {"dirty", "check"} /\ (ph = "dirty" => ready)
  BY DEF ReaderPhase
<1> HIDE DEF ph
<1>3. /\ reader' \in [Readers -> Reader \cup {NoReader}] /\ reader'[p] # NoReader
      /\ reader'[p].phase = ph /\ reader'[p].try = (IF ph = "revision" THEN reader[p].try ELSE 0)
      /\ reader'[p].floor = reader[p].floor /\ reader'[p].since = reader[p].since
      /\ reader'[p].heals = reader[p].heals /\ reader'[p].lost = reader[p].lost /\ \A q \in Readers : q # p => reader'[q] = reader[q]
  BY <1>1, <1>2, ToPhaseIs
<1>4. ReaderKnows(p)' /\ ReaderSees(p)'
  BY <1>1, <1>2, <1>3 DEF ReaderKnows, ReaderSees
<1> QED
  BY <1>1, <1>3, <1>4, LooksInv

LEMMA ScanInv ==
  ASSUME ProjectionInv, NEW p \in Readers, Scan(p)
  PROVE  ProjectionInv'
<1> DEFINE c == [reader[p] EXCEPT !.phase = "publish", !.ids = Existing, !.seen = content]
<1>1. /\ Looks /\ ProjectionTypeOK /\ ReaderKnows(p) /\ reader[p] # NoReader /\ reader[p].phase = "scan"
      /\ UNCHANGED <<content, revision, ready, backfill, withdrawn, dropped>>
  BY DEF Scan, Looks, ProjectionInv, In, writeVars
<1>2. reader[p] \in Reader /\ content \in Counts
  BY <1>1, ReaderFields
<1>3. /\ c \in Reader /\ c.phase = "publish" /\ c.try = reader[p].try /\ c.floor = reader[p].floor
      /\ c.since = reader[p].since /\ c.ids = Existing /\ c.seen = content /\ c.heals = reader[p].heals /\ c.lost = reader[p].lost
  BY <1>2 DEF Reader, ReaderPhase, Existing
<1>4. reader' = [reader EXCEPT ![p] = c] /\ c # NoReader
  BY <1>1, <1>3, ProjectionAssumption DEF Scan, ProjectionTypeOK
<1> HIDE DEF c
<1>5. reader' \in [Readers -> Reader \cup {NoReader}] /\ reader'[p] = c /\ \A q \in Readers : q # p => reader'[q] = reader[q]
  BY <1>1, <1>3, <1>4 DEF ProjectionTypeOK
<1>6. ReaderKnows(p)'
  BY <1>1, <1>3, <1>5 DEF ReaderKnows, Existing
<1>7. ~withdrawn' => ReaderSees(p)'
  BY <1>1, <1>3, <1>5 DEF ReaderSees, Existing, ProjectionInv
<1> QED
  BY <1>1, <1>5, <1>6, <1>7, LooksInv

\* What a publishing script drops is told to every reader.
LEMMA DropsIs ==
  ASSUME ProjectionTypeOK, NEW p \in Readers, reader[p] # NoReader, NEW tasks \in SUBSET PlanTasks, Drops(p, tasks)
  PROVE  /\ reader' \in [Readers -> Reader \cup {NoReader}] /\ reader'[p] # NoReader
         /\ reader'[p].phase = "dirty" /\ reader'[p].try = 0 /\ reader'[p].floor = reader[p].floor
         /\ reader'[p].since = reader[p].since /\ reader'[p].heals = reader[p].heals /\ dropped' \subseteq reader'[p].lost
         /\ \A q \in Readers : q # p => LeftAlone(q)
<1>1. dropped' = tasks
  BY DEF Drops
<1>2. ASSUME NEW q \in Readers, NEW r, reader[q] # NoReader,
             r = IF q = p THEN Forgetting(reader[q], "dirty") ELSE reader[q]
      PROVE  /\ r \in Reader
             /\ [r EXCEPT !.lost = @ \cup tasks] \in Reader /\ [r EXCEPT !.lost = @ \cup tasks] # NoReader
             /\ reader'[q] = [r EXCEPT !.lost = @ \cup tasks] /\ tasks \subseteq reader'[q].lost
             /\ r.lost \subseteq reader'[q].lost
             /\ reader'[q].phase = r.phase /\ reader'[q].try = r.try /\ reader'[q].rev = r.rev
             /\ reader'[q].ids = r.ids /\ reader'[q].seen = r.seen /\ reader'[q].floor = r.floor
             /\ reader'[q].since = r.since /\ reader'[q].heals = r.heals
  <2>1. r \in Reader
    <3>1. reader[q] \in Reader /\ "dirty" \in ReaderPhase
      BY <1>2 DEF ProjectionTypeOK, ReaderPhase
    <3> QED
      BY <1>2, <3>1, ForgettingIs
  <2>2. reader'[q] = [r EXCEPT !.lost = @ \cup tasks]
    BY <1>2 DEF Drops
  <2>3. [r EXCEPT !.lost = @ \cup tasks] \in Reader
    BY <2>1 DEF Reader
  <2> QED
    BY <2>1, <2>2, <2>3, ProjectionAssumption DEF Reader
<1>3. \A q \in Readers : reader[q] = NoReader => reader'[q] = NoReader
  BY DEF Drops
<1>4. \A q \in Readers : reader'[q] \in Reader \cup {NoReader}
  BY <1>2, <1>3
<1>5. reader' \in [Readers -> Reader \cup {NoReader}]
  <2>1. reader' = [q \in Readers |-> reader'[q]]
    BY DEF Drops
  <2> QED
    BY <1>4, <2>1
<1>6. /\ reader'[p] # NoReader
      /\ reader'[p].phase = "dirty" /\ reader'[p].try = 0 /\ reader'[p].floor = reader[p].floor
      /\ reader'[p].since = reader[p].since /\ reader'[p].heals = reader[p].heals /\ dropped' \subseteq reader'[p].lost
  <2> DEFINE r == Forgetting(reader[p], "dirty")
  <2>1. reader[p] \in Reader /\ "dirty" \in ReaderPhase
    BY DEF ProjectionTypeOK, ReaderPhase
  <2>2. r.phase = "dirty" /\ r.try = 0 /\ r.floor = reader[p].floor /\ r.since = reader[p].since /\ r.heals = reader[p].heals
    BY <2>1, ForgettingIs
  <2>3. r = IF p = p THEN Forgetting(reader[p], "dirty") ELSE reader[p]
    OBVIOUS
  <2> HIDE DEF r
  <2>4. /\ reader'[p] = [r EXCEPT !.lost = @ \cup tasks] /\ reader'[p] # NoReader /\ tasks \subseteq reader'[p].lost
        /\ reader'[p].phase = r.phase /\ reader'[p].try = r.try /\ reader'[p].floor = r.floor
        /\ reader'[p].since = r.since /\ reader'[p].heals = r.heals
    BY <1>2, <2>3
  <2> QED
    BY <1>1, <2>2, <2>4
<1>7. ASSUME NEW q \in Readers, q # p PROVE LeftAlone(q)
  <2>1. CASE reader[q] = NoReader
    BY <1>3, <2>1 DEF LeftAlone
  <2>2. CASE reader[q] # NoReader
    <3> DEFINE r == IF q = p THEN Forgetting(reader[q], "dirty") ELSE reader[q]
    <3>1. r = reader[q] /\ r = IF q = p THEN Forgetting(reader[q], "dirty") ELSE reader[q]
      BY <1>7
    <3> HIDE DEF r
    <3>3. /\ reader'[q] = [r EXCEPT !.lost = @ \cup tasks] /\ reader'[q] # NoReader
          /\ tasks \subseteq reader'[q].lost /\ r.lost \subseteq reader'[q].lost
          /\ reader'[q].phase = r.phase /\ reader'[q].try = r.try /\ reader'[q].rev = r.rev
          /\ reader'[q].ids = r.ids /\ reader'[q].seen = r.seen /\ reader'[q].floor = r.floor
          /\ reader'[q].since = r.since /\ reader'[q].heals = r.heals
      BY <1>2, <2>2, <3>1
    <3>2. /\ reader'[q] # NoReader /\ tasks \subseteq reader'[q].lost /\ reader[q].lost \subseteq reader'[q].lost
          /\ reader'[q].phase = reader[q].phase /\ reader'[q].try = reader[q].try /\ reader'[q].rev = reader[q].rev
          /\ reader'[q].ids = reader[q].ids /\ reader'[q].seen = reader[q].seen /\ reader'[q].floor = reader[q].floor
          /\ reader'[q].since = reader[q].since /\ reader'[q].heals = reader[q].heals
      BY <3>1, <3>3
    <3> QED
      BY <1>1, <2>2, <3>2 DEF LeftAlone
  <2> QED
    BY <2>1, <2>2
<1> QED
  BY <1>5, <1>6, <1>7

\* Only the owner of the lock publishes, and while it does nobody goes on.
LEMMA PublishScanInv ==
  ASSUME ProjectionInv, NEW p \in Readers, PublishScan(p)
  PROVE  ProjectionInv'
<1>1. /\ UNCHANGED <<content, revision, dirty, backfill, failed, withdrawn>> /\ ProjectionTypeOK /\ ReaderKnows(p)
      /\ reader[p] # NoReader /\ reader[p].phase = "publish"
  BY DEF PublishScan, ProjectionInv, In
<1>2. /\ reader[p] \in Reader /\ reader[p].ids \in SUBSET PlanTasks /\ reader[p].seen \in Counts /\ content \in Counts
      /\ revision \in Nat /\ \A t \in PlanTasks : content[t] \in Nat
  BY <1>1, ReaderFields DEF Counts
<1>3. CASE ~Fenced(p)
  <2>1. ToPhase(p, "wait") /\ Looks
    BY <1>1, <1>3 DEF PublishScan, Looks, writeVars
  <2>2. /\ reader' \in [Readers -> Reader \cup {NoReader}] /\ reader'[p] # NoReader
        /\ reader'[p].phase = "wait" /\ reader'[p].try = 0 /\ reader'[p].floor = reader[p].floor
        /\ reader'[p].since = reader[p].since /\ reader'[p].heals = reader[p].heals /\ reader'[p].lost = reader[p].lost
        /\ \A q \in Readers : q # p => reader'[q] = reader[q]
    BY <1>1, <2>1, ToPhaseIs DEF ReaderPhase
  <2>3. ReaderKnows(p)' /\ ReaderSees(p)'
    BY <1>1, <2>1, <2>2 DEF ReaderKnows, ReaderSees, Looks
  <2> QED
    BY <1>1, <2>1, <2>2, <2>3, LooksInv
<1>4. CASE Fenced(p)
  <2>1. /\ listed' = (reader[p].ids # {}) /\ ready' = TRUE /\ Drops(p, Existing \ reader[p].ids) /\ backfill = p
        /\ reader[p].ids # {} => registered' = reader[p].ids /\ aggregate' = reader[p].seen
        /\ reader[p].ids = {} => registered' = registered /\ aggregate' = aggregate
    BY <1>4 DEF PublishScan, Fenced
  <2>2. ~withdrawn => ~ready /\ aggregate = NoAggregate
    BY <1>1, <2>1 DEF ProjectionInv, ReaderSees, AggregateKnown
  <2>3. Forward
    BY <1>1, <1>2, <2>1, <2>2 DEF Forward
  <2>4. /\ reader' \in [Readers -> Reader \cup {NoReader}] /\ reader'[p] # NoReader
        /\ reader'[p].phase = "dirty" /\ reader'[p].try = 0 /\ reader'[p].floor = reader[p].floor
        /\ reader'[p].since = reader[p].since /\ reader'[p].heals = reader[p].heals /\ dropped' \subseteq reader'[p].lost
        /\ \A q \in Readers : q # p => LeftAlone(q)
    BY <1>1, <1>2, <2>1, DropsIs DEF Existing
  <2>5. ReaderKnows(p)' /\ ReaderSees(p)'
    BY <1>1, <2>1, <2>4 DEF ReaderKnows, ReaderSees
  <2>8. ListsKnown' /\ dropped' \subseteq PlanTasks
    <3>1. reader[p].ids \subseteq Existing /\ dropped' = Existing \ reader[p].ids /\ Existing' = Existing
      BY <1>1, <2>1 DEF ReaderKnows, Drops, Existing
    <3> QED
      BY <1>1, <2>1, <3>1 DEF ListsKnown, ProjectionInv, Existing
  <2>6. ~withdrawn' => AggregateKnown'
    <3> SUFFICES ASSUME ~withdrawn, ~dirty
                 PROVE  aggregate' = Count(registered)' \/ (aggregate' = NoAggregate /\ ~listed')
      BY <1>1, <2>1 DEF AggregateKnown
    <3>1. reader[p].ids = Existing /\ reader[p].seen = content
      BY <1>1, <2>2 DEF ProjectionInv, ReaderSees
    <3>2. CASE reader[p].ids = {}
      BY <2>1, <2>2, <3>2
    <3>3. CASE reader[p].ids # {}
      <4>1. registered' = Existing /\ aggregate' = content /\ Count(Existing) = content
        BY <1>2, <2>1, <3>1, <3>3, CountIs DEF Existing
      <4> QED
        BY <1>1, <4>1 DEF Count
    <3> QED
      BY <3>2, <3>3
  <2>7. /\ registered' \subseteq PlanTasks /\ aggregate' \in Counts \cup {NoAggregate} /\ listed' \in BOOLEAN
        /\ ready' \in BOOLEAN /\ dirty' \in BOOLEAN /\ failed' \in 0..FailureBound /\ withdrawn' \in BOOLEAN
    BY <1>1, <1>2, <2>1 DEF ProjectionTypeOK
  <2> QED
    BY <1>1, <2>1, <2>3, <2>4, <2>5, <2>6, <2>7, <2>8, ReaderStepInv
<1> QED
  BY <1>3, <1>4

\* A dirty plan is rebuilt, the aggregate of a clean one is the answer.
LEMMA LookDirtyInv ==
  ASSUME ProjectionInv, NEW p \in Readers, LookDirty(p)
  PROVE  ProjectionInv'
<1> DEFINE ph == IF dirty THEN "revision" ELSE "answer"
<1>1. /\ Looks /\ ProjectionTypeOK /\ ReaderKnows(p) /\ reader[p] # NoReader /\ reader[p].phase = "dirty"
      /\ ToPhase(p, ph) /\ backfill' \in {backfill, NoReader}
      /\ UNCHANGED <<content, registered, revision, ready, aggregate, withdrawn, dropped>>
  BY DEF LookDirty, Release, Looks, ProjectionInv, In, writeVars
<1>2. ph \in ReaderPhase /\ ph \in {"revision", "answer"} /\ (ph = "answer" <=> ~dirty)
  BY DEF ReaderPhase
<1> HIDE DEF ph
<1>3. /\ reader' \in [Readers -> Reader \cup {NoReader}] /\ reader'[p] # NoReader
      /\ reader'[p].phase = ph /\ reader'[p].try = (IF ph = "revision" THEN reader[p].try ELSE 0)
      /\ reader'[p].floor = reader[p].floor /\ reader'[p].since = reader[p].since
      /\ reader'[p].heals = reader[p].heals /\ reader'[p].lost = reader[p].lost /\ \A q \in Readers : q # p => reader'[q] = reader[q]
  BY <1>1, <1>2, ToPhaseIs
<1>4. reader[p].since \in Nat /\ revision \in Nat /\ Tries \in Nat \ {0} /\ content \in Counts
  BY <1>1, ReaderFields, ProjectionAssumption
<1>5. ReaderKnows(p)'
  BY <1>1, <1>2, <1>3, <1>4 DEF ReaderKnows
<1>6. ~withdrawn' => ReaderSees(p)'
  <2> SUFFICES ASSUME ~withdrawn PROVE ReaderSees(p)'
    BY <1>1
  <2>1. ready /\ AggregateKnown
    BY <1>1 DEF ProjectionInv, ReaderSees
  <2>2. ~dirty => aggregate = NoAggregate \/ Recent(p, aggregate)
    <3>1. Recent(p, Count(registered))
      BY <1>1, <2>1, CountIsRecent DEF ProjectionInv
    <3> QED
      BY <2>1, <3>1 DEF AggregateKnown
  <2>3. ~dirty => aggregate' = NoAggregate \/ Recent(p, aggregate)'
    BY <1>1, <1>3, <2>2 DEF Recent
  <2>4. reader[p].heals = FALSE
    BY <1>1 DEF ReaderKnows
  <2> QED
    BY <1>1, <1>2, <1>3, <2>1, <2>3, <2>4 DEF ReaderSees
<1> QED
  BY <1>1, <1>3, <1>5, <1>6, LooksInv

LEMMA ReadRevisionInv ==
  ASSUME ProjectionInv, NEW p \in Readers, ReadRevision(p)
  PROVE  ProjectionInv'
<1> DEFINE c == [reader[p] EXCEPT !.phase = "members", !.rev = revision, !.try = @ + 1, !.ids = registered]
<1>1. /\ Looks /\ ProjectionTypeOK /\ ReaderKnows(p) /\ reader[p] # NoReader /\ reader[p].phase = "revision"
      /\ UNCHANGED <<content, registered, revision, ready, backfill, withdrawn, dropped>>
  BY DEF ReadRevision, Looks, ProjectionInv, In, writeVars
<1>2. /\ reader[p] \in Reader /\ revision \in Nat /\ reader[p].try \in Nat /\ reader[p].since \in Nat /\ Tries \in Nat
      /\ registered \subseteq PlanTasks
  BY <1>1, ReaderFields DEF ProjectionTypeOK
<1>3. reader[p].try < Tries /\ revision >= reader[p].since + reader[p].try
  BY <1>1 DEF ReaderKnows
<1>4. /\ c \in Reader /\ c.phase = "members" /\ c.try = reader[p].try + 1 /\ c.floor = reader[p].floor
      /\ c.since = reader[p].since /\ c.ids = registered /\ c.rev = revision /\ c.lost = reader[p].lost
  <2>1. reader[p].try + 1 \in 0..Tries
    BY <1>2, <1>3
  <2> QED
    BY <1>2, <2>1 DEF Reader, ReaderPhase
<1>5. reader' = [reader EXCEPT ![p] = c] /\ c # NoReader
  BY <1>1, <1>4, ProjectionAssumption DEF ReadRevision, ProjectionTypeOK
<1> HIDE DEF c
<1>6. reader' \in [Readers -> Reader \cup {NoReader}] /\ reader'[p] = c /\ \A q \in Readers : q # p => reader'[q] = reader[q]
  BY <1>1, <1>4, <1>5 DEF ProjectionTypeOK
<1>7. ReaderKnows(p)'
  BY <1>1, <1>2, <1>3, <1>4, <1>6 DEF ReaderKnows
<1>8. ~withdrawn' => ReaderSees(p)'
  BY <1>1, <1>4, <1>6 DEF ReaderSees, ProjectionInv
<1> QED
  BY <1>1, <1>6, <1>7, <1>8, LooksInv

LEMMA ReadMembersInv ==
  ASSUME ProjectionInv, NEW p \in Readers, ReadMembers(p)
  PROVE  ProjectionInv'
<1> DEFINE c == [reader[p] EXCEPT !.phase = "commit", !.seen = Count(reader[p].ids)]
<1>1. /\ Looks /\ ProjectionTypeOK /\ ReaderKnows(p) /\ reader[p] # NoReader /\ reader[p].phase = "members"
      /\ UNCHANGED <<content, registered, revision, ready, backfill, withdrawn, dropped>>
  BY DEF ReadMembers, Looks, ProjectionInv, In, writeVars
<1>2. reader[p] \in Reader /\ Count(reader[p].ids) \in Counts
  BY <1>1, ReaderFields, CountIs
<1>3. /\ c \in Reader /\ c.phase = "commit" /\ c.try = reader[p].try /\ c.floor = reader[p].floor
      /\ c.since = reader[p].since /\ c.ids = reader[p].ids /\ c.rev = reader[p].rev /\ c.seen = Count(reader[p].ids)
      /\ c.lost = reader[p].lost
  BY <1>2 DEF Reader, ReaderPhase
<1>4. reader' = [reader EXCEPT ![p] = c] /\ c # NoReader
  BY <1>1, <1>3, ProjectionAssumption DEF ReadMembers, ProjectionTypeOK
<1> HIDE DEF c
<1>5. reader' \in [Readers -> Reader \cup {NoReader}] /\ reader'[p] = c /\ \A q \in Readers : q # p => reader'[q] = reader[q]
  BY <1>1, <1>3, <1>4 DEF ProjectionTypeOK
<1>6. ReaderKnows(p)'
  BY <1>1, <1>3, <1>5 DEF ReaderKnows
<1>7. ~withdrawn' => ReaderSees(p)'
  BY <1>1, <1>3, <1>5 DEF ReaderSees, ProjectionInv, Count
<1> QED
  BY <1>1, <1>5, <1>6, <1>7, LooksInv

\* The revision is the compare-and-swap of a rebuild.
LEMMA CommitAggregateInv ==
  ASSUME ProjectionInv, NEW p \in Readers, CommitAggregate(p)
  PROVE  ProjectionInv'
<1>1. /\ UNCHANGED <<content, listed, registered, revision, ready, failed, withdrawn, dropped>>
      /\ ProjectionTypeOK /\ ReaderKnows(p)
      /\ reader[p] # NoReader /\ reader[p].phase = "commit"
  BY DEF CommitAggregate, ProjectionInv, In, writeVars
<1>2. /\ reader[p] \in Reader /\ reader[p].try \in 0..Tries /\ reader[p].rev \in Nat /\ reader[p].since \in Nat
      /\ revision \in Nat /\ Tries \in Nat /\ content \in Counts /\ reader[p].seen \in Counts
      /\ \A t \in PlanTasks : content[t] \in Nat
  BY <1>1, ReaderFields DEF Counts
<1>3. CASE ~SameRevision(p)
  <2> DEFINE ph == IF reader[p].try < Tries THEN "revision" ELSE "answer"
  <2>1. Looks /\ ToPhase(p, ph) /\ backfill' \in {backfill, NoReader}
    BY <1>1, <1>3 DEF CommitAggregate, Release, Looks, writeVars
  <2>2. ph \in ReaderPhase /\ ph \in {"revision", "answer"} /\ (ph = "revision" <=> reader[p].try < Tries)
    BY DEF ReaderPhase
  <2> HIDE DEF ph
  <2>3. /\ reader' \in [Readers -> Reader \cup {NoReader}] /\ reader'[p] # NoReader
        /\ reader'[p].phase = ph /\ reader'[p].try = (IF ph = "revision" THEN reader[p].try ELSE 0)
        /\ reader'[p].floor = reader[p].floor /\ reader'[p].since = reader[p].since
        /\ reader'[p].heals = reader[p].heals /\ reader'[p].lost = reader[p].lost /\ \A q \in Readers : q # p => reader'[q] = reader[q]
    BY <1>1, <2>1, <2>2, ToPhaseIs
  <2>4. revision >= reader[p].since + reader[p].try
    <3>1. reader[p].rev # revision /\ reader[p].rev <= revision /\ reader[p].rev + 1 >= reader[p].since + reader[p].try
      BY <1>1, <1>3 DEF ReaderKnows, SameRevision
    <3> QED
      BY <1>2, <3>1
  <2>5. ph = "answer" => revision >= reader[p].since + Tries
    BY <1>2, <2>2, <2>4
  <2>6. ReaderKnows(p)'
    BY <1>1, <1>2, <2>2, <2>3, <2>4 DEF ReaderKnows
  <2>7. ~withdrawn' => ReaderSees(p)'
    BY <1>1, <2>2, <2>3, <2>5 DEF ReaderSees, ProjectionInv, Outrun
  <2> QED
    BY <2>1, <2>3, <2>6, <2>7, LooksInv
<1>4. CASE SameRevision(p)
  <2>1. /\ aggregate' = reader[p].seen /\ dirty' = FALSE /\ ToPhase(p, "answer") /\ backfill' \in {backfill, NoReader}
        /\ reader[p].rev = revision
    BY <1>4 DEF CommitAggregate, Release, SameRevision
  <2>2. ~withdrawn => ready /\ reader[p].seen = Count(registered)
    BY <1>1, <2>1 DEF ProjectionInv, ReaderSees
  <2>3. /\ registered \subseteq PlanTasks /\ Count(registered) \in Counts
        /\ \A t \in PlanTasks : Count(registered)[t] \in {0, content[t]}
    BY <1>1, <1>2, CountIs DEF ProjectionTypeOK
  <2>4. Forward
    BY <1>1, <1>2, <2>1, <2>2, <2>3 DEF Forward, Count
  <2>5. /\ reader' \in [Readers -> Reader \cup {NoReader}] /\ reader'[p] # NoReader
        /\ reader'[p].phase = "answer" /\ reader'[p].try = 0 /\ reader'[p].floor = reader[p].floor
        /\ reader'[p].since = reader[p].since /\ reader'[p].heals = reader[p].heals /\ reader'[p].lost = reader[p].lost
        /\ \A q \in Readers : q # p => reader'[q] = reader[q]
    BY <1>1, <2>1, ToPhaseIs DEF ReaderPhase
  <2>6. ReaderKnows(p)'
    BY <1>1, <2>5 DEF ReaderKnows
  <2>7. ~withdrawn' => ReaderSees(p)'
    <3> SUFFICES ASSUME ~withdrawn PROVE ReaderSees(p)'
      BY <1>1
    <3>1. Recent(p, reader[p].seen) /\ aggregate' # NoAggregate
      BY <1>1, <1>2, <2>1, <2>2, CountIsRecent, ProjectionAssumption DEF ProjectionInv
    <3>2. Recent(p, aggregate)'
      BY <2>1, <2>5, <3>1 DEF Recent
    <3> QED
      BY <1>1, <2>2, <2>5, <3>1, <3>2 DEF ReaderSees
  <2>8. ~withdrawn' => AggregateKnown'
    BY <1>1, <2>1, <2>2 DEF AggregateKnown, Count
  <2>9. /\ registered' \subseteq PlanTasks /\ aggregate' \in Counts \cup {NoAggregate} /\ listed' \in BOOLEAN
        /\ ready' \in BOOLEAN /\ dirty' \in BOOLEAN /\ failed' \in 0..FailureBound /\ withdrawn' \in BOOLEAN
    BY <1>1, <1>2, <2>1 DEF ProjectionTypeOK
  <2>10. ListsKnown' /\ dropped' \subseteq PlanTasks
    BY <1>1 DEF ProjectionInv, ListsKnown, Existing, ProjectionTypeOK
  <2>11. ASSUME NEW q \in Readers, q # p PROVE LeftAlone(q)
    <3>1. reader'[q] = reader[q] /\ dropped' \subseteq dropped
      BY <1>1, <2>5, <2>11
    <3> QED
      BY <3>1, Untouched
  <2> QED
    BY <1>1, <2>1, <2>4, <2>5, <2>6, <2>7, <2>8, <2>9, <2>10, <2>11, ReaderStepInv
<1> QED
  BY <1>3, <1>4

LEMMA AnswerInv ==
  ASSUME ProjectionInv, NEW p \in Readers, Answer(p)
  PROVE  ProjectionInv'
<1>1. /\ Looks /\ ProjectionTypeOK /\ ReaderKnows(p) /\ reader[p] # NoReader /\ reader[p].phase = "answer"
      /\ UNCHANGED <<content, registered, revision, ready, aggregate, backfill, withdrawn, dropped>>
  BY DEF Answer, Looks, ProjectionInv, In, writeVars
<1>2. /\ reader[p] \in Reader /\ reader[p].since \in Nat /\ revision \in Nat /\ Tries \in Nat \ {0} /\ content \in Counts
  BY <1>1, ReaderFields, ProjectionAssumption
<1>3. CASE listed /\ aggregate = NoAggregate /\ ~reader[p].heals
  <2> DEFINE c == [reader[p] EXCEPT !.phase = "revision", !.heals = TRUE, !.try = 0]
  <2>1. /\ c \in Reader /\ c.phase = "revision" /\ c.try = 0 /\ c.floor = reader[p].floor /\ c.since = reader[p].since
        /\ c.lost = reader[p].lost
    <3>1. 0 \in 0..Tries
      BY <1>2
    <3> QED
      BY <1>2, <3>1 DEF Reader, ReaderPhase
  <2>2. reader' = [reader EXCEPT ![p] = c] /\ c # NoReader
    BY <1>1, <1>3, <2>1, ProjectionAssumption DEF Answer, ProjectionTypeOK
  <2> HIDE DEF c
  <2>3. reader' \in [Readers -> Reader \cup {NoReader}] /\ reader'[p] = c /\ \A q \in Readers : q # p => reader'[q] = reader[q]
    BY <1>1, <2>1, <2>2 DEF ProjectionTypeOK
  <2>4. ReaderKnows(p)'
    BY <1>1, <1>2, <2>1, <2>3 DEF ReaderKnows
  <2>5. ~withdrawn' => ReaderSees(p)'
    BY <1>1, <2>1, <2>3 DEF ReaderSees, ProjectionInv
  <2> QED
    BY <1>1, <2>3, <2>4, <2>5, LooksInv
<1>4. CASE ~(listed /\ aggregate = NoAggregate /\ ~reader[p].heals)
  <2> DEFINE s == IF listed /\ aggregate # NoAggregate THEN aggregate ELSE Count({})
             c == [reader[p] EXCEPT !.phase = "answered", !.seen = s]
  <2>1. s \in Counts /\ ((s = aggregate /\ aggregate # NoAggregate)
                        \/ (s = Count({}) /\ (listed => aggregate = NoAggregate /\ reader[p].heals)))
    BY <1>1, <1>2, <1>4, CountIs DEF ProjectionTypeOK
  <2>2. reader' = [reader EXCEPT ![p] = c]
    BY <1>1, <1>4 DEF Answer, ProjectionTypeOK
  <2> HIDE DEF s
  <2>3. /\ c \in Reader /\ c.phase = "answered" /\ c.floor = reader[p].floor /\ c.since = reader[p].since /\ c.seen = s
        /\ c.lost = reader[p].lost
    BY <1>2, <2>1 DEF Reader, ReaderPhase
  <2>4. c # NoReader
    BY <2>3, ProjectionAssumption
  <2> HIDE DEF c
  <2>5. reader' \in [Readers -> Reader \cup {NoReader}] /\ reader'[p] = c /\ \A q \in Readers : q # p => reader'[q] = reader[q]
    BY <1>1, <2>2, <2>3 DEF ProjectionTypeOK
  <2>6. ReaderKnows(p)'
    BY <1>1, <2>3, <2>5 DEF ReaderKnows
  <2>7. ~withdrawn' => ReaderSees(p)'
    <3> SUFFICES ASSUME ~withdrawn PROVE ReaderSees(p)'
      BY <1>1
    <3>1. ready /\ (IF aggregate = NoAggregate THEN reader[p].heals => Outrun(p) ELSE Recent(p, aggregate) \/ Outrun(p))
      BY <1>1 DEF ProjectionInv, ReaderSees
    <3>2. ~listed => Recent(p, Count({}))
      BY <1>1, <3>1, CountIsRecent DEF ProjectionInv
    <3>3. Recent(p, s) \/ Outrun(p)
      BY <2>1, <3>1, <3>2
    <3>4. Recent(p, reader[p].seen)' \/ Outrun(p)'
      BY <1>1, <2>3, <2>5, <3>3 DEF Recent, Outrun
    <3> QED
      BY <1>1, <2>3, <2>5, <3>1, <3>4 DEF ReaderSees
  <2> QED
    BY <1>1, <2>5, <2>6, <2>7, LooksInv
<1> QED
  BY <1>3, <1>4

\* A reader that throws, or dies; a marker that was there is only taken back with a mark of it.
LEMMA FailReadingInv ==
  ASSUME ProjectionInv, NEW p \in Readers, FailReading(p) \/ DieReading(p)
  PROVE  ProjectionInv'
<1>1. /\ UNCHANGED <<content, listed, registered, revision, dirty, aggregate, dropped>> /\ ProjectionTypeOK
      /\ reader' = [reader EXCEPT ![p] = NoReader] /\ failed' = failed + 1 /\ failed < FailureBound
      /\ backfill' \in {backfill, NoReader}
      /\ content \in Counts /\ revision \in Nat /\ ready \in BOOLEAN /\ withdrawn \in BOOLEAN
  BY ProjectionAssumption DEF FailReading, DieReading, Release, writeVars, ProjectionInv, ProjectionTypeOK
<1>0. /\ ready' \in BOOLEAN /\ withdrawn' \in BOOLEAN
      /\ backfill # p => ready' = ready
      /\ ~withdrawn' => ~withdrawn /\ ready' = ready
      /\ ready' => ready
  <2>1. CASE FailReading(p)
    BY <1>1, <2>1 DEF FailReading
  <2>2. CASE DieReading(p)
    BY <1>1, <2>2 DEF DieReading
  <2> QED
    BY <2>1, <2>2
<1>2. /\ reader' \in [Readers -> Reader \cup {NoReader}] /\ reader'[p] = NoReader
      /\ \A q \in Readers : q # p => reader'[q] = reader[q]
  BY <1>1 DEF ProjectionTypeOK
<1>3. Forward
  BY <1>1, <1>0 DEF Forward, Counts
<1>4. ReaderKnows(p)' /\ ReaderSees(p)'
  BY <1>2 DEF ReaderKnows, ReaderSees
<1>5. ~withdrawn' => AggregateKnown'
  <2> SUFFICES ASSUME ~withdrawn' PROVE AggregateKnown'
    OBVIOUS
  <2>1. ready' = ready /\ ~withdrawn
    BY <1>0
  <2> QED
    BY <1>1, <2>1 DEF ProjectionInv, AggregateKnown, Count
<1>6. /\ registered' \subseteq PlanTasks /\ aggregate' \in Counts \cup {NoAggregate} /\ listed' \in BOOLEAN
      /\ ready' \in BOOLEAN /\ dirty' \in BOOLEAN /\ failed' \in 0..FailureBound /\ withdrawn' \in BOOLEAN
  <2>1. failed' \in 0..FailureBound
    BY <1>1, ProjectionAssumption DEF ProjectionTypeOK
  <2> QED
    BY <1>1, <1>0, <2>1 DEF ProjectionTypeOK
<1>7. ListsKnown' /\ dropped' \subseteq PlanTasks
  BY <1>0, <1>1 DEF ProjectionInv, ListsKnown, Existing, ProjectionTypeOK
<1>8. ASSUME NEW q \in Readers, q # p PROVE LeftAlone(q)
  <2>1. reader'[q] = reader[q] /\ dropped' \subseteq dropped
    BY <1>1, <1>2, <1>8
  <2> QED
    BY <2>1, Untouched
<1> QED
  BY <1>1, <1>0, <1>2, <1>3, <1>4, <1>5, <1>6, <1>7, <1>8, ReaderStepInv

LEMMA LoseBackfillInv ==
  ASSUME ProjectionInv, UNCHANGED <<content, listed, registered, revision, dirty, aggregate, ready, reader, failed, withdrawn, dropped>>,
         backfill' \in {backfill, NoReader}
  PROVE  ProjectionInv'
<1>1. ProjectionTypeOK /\ ProjectionTypeOK' /\ content \in Counts /\ revision \in Nat
  BY ProjectionAssumption DEF ProjectionInv, ProjectionTypeOK
<1>2. Forward
  BY <1>1 DEF Forward, Counts
<1>3. ListsKnown'
  BY DEF ProjectionInv, ListsKnown, Existing
<1>7. ASSUME NEW q \in Readers PROVE LeftAlone(q)
  <2>1. reader'[q] = reader[q] /\ dropped' \subseteq dropped
    OBVIOUS
  <2> QED
    BY <2>1, Untouched
<1>4. \A q \in Readers : ReaderKnows(q)'
  BY <1>1, <1>2, <1>7, OthersKnow_Projection
<1>5. ~withdrawn' => \A q \in Readers : ReaderSees(q)'
  BY <1>1, <1>2, <1>3, <1>7, OthersSee, ProjectionAssumption
<1>6. ~withdrawn' => AggregateKnown'
  BY DEF ProjectionInv, AggregateKnown, Count
<1> QED
  BY <1>1, <1>3, <1>4, <1>5, <1>6 DEF ProjectionInv

LEMMA ProjectionInvStep == ProjectionInv /\ [ProjectionNext]_projectionVars => ProjectionInv'
<1> SUFFICES ASSUME ProjectionInv, [ProjectionNext]_projectionVars PROVE ProjectionInv'
  OBVIOUS
<1>1. CASE UNCHANGED projectionVars \/ LoseBackfill
  BY <1>1, LoseBackfillInv DEF projectionVars, writeVars, LoseBackfill
<1>2. ASSUME NEW t \in PlanTasks, WriteTask(t) PROVE ProjectionInv'
  BY <1>2, WriteTaskInv
<1>3. ASSUME NEW p \in Readers,
             \/ StartReading(p) \/ CheckReady(p) \/ Scan(p) \/ PublishScan(p) \/ Await(p)
             \/ LookDirty(p) \/ ReadRevision(p) \/ ReadMembers(p) \/ CommitAggregate(p)
             \/ Answer(p) \/ EndReading(p) \/ FailReading(p) \/ DieReading(p)
      PROVE  ProjectionInv'
  BY <1>3, StartReadingInv, CheckReadyInv, ScanInv, PublishScanInv, AwaitInv, LookDirtyInv, ReadRevisionInv,
     ReadMembersInv, CommitAggregateInv, AnswerInv, EndReadingInv, FailReadingInv
<1> QED
  BY <1>1, <1>2, <1>3 DEF ProjectionNext

\* The task hashes, the counters and the requests keep their types.
THEOREM ProjectionTypes == ProjectionSpec => []ProjectionTypeOK
<1>1. ProjectionInv => ProjectionTypeOK
  BY DEF ProjectionInv
<1> QED
  BY <1>1, InitProjectionInv, ProjectionInvStep, PTL DEF ProjectionSpec

\* However writes cross the backfill and the rebuilds, and wherever readers die, as long
\* as no marker that was published is taken back: the counters of a clean plan are its
\* tasks but those a backfill has dropped and no write has listed since, and no request
\* answers with what was before it came - nor without a task, if no backfill dropped it -
\* unless as many writes crossed its rebuilds as it tried.
THEOREM Status_Current == ProjectionSpec => []StatusIsCurrent
<1>1. ProjectionInv => StatusIsCurrent
  <2> SUFFICES ASSUME ProjectionInv PROVE StatusIsCurrent
    OBVIOUS
  <2>1. AggregateIsTrue
    <3> SUFFICES ASSUME ~withdrawn, ready, ~dirty
                 PROVE  (IF listed THEN aggregate ELSE Count({})) = Count(Existing \ dropped)
      BY DEF AggregateIsTrue
    <3>1. listed => aggregate = Count(registered)
      BY DEF ProjectionInv, AggregateKnown
    <3>2. (IF listed THEN registered ELSE {}) = Existing \ dropped
      BY DEF ProjectionInv, ListsKnown
    <3> QED
      BY <3>1, <3>2
  <2>2. AnswersAreFresh
    BY DEF ProjectionInv, ReaderSees, AnswersAreFresh, Recent, Outrun, In
  <2> QED
    BY <2>1, <2>2 DEF StatusIsCurrent
<1> QED
  BY <1>1, InitProjectionInv, ProjectionInvStep, PTL DEF ProjectionSpec

-----------------------------------------------------------------------------
(***************************************************************************)
(* RestoreGate: a restore publishes what SQLite holds into an empty Redis  *)
(* nobody writes to, and half of a projection is behind its barrier.       *)
(***************************************************************************)

\* Who may be writing a task, and where a restore is still preparing.
Writing == {w \in Writers : writer[w].phase \in {"permitted", "stored"}}
Rereading == {"recheck", "assert", "bar", "renew", "watch", "exec"}

\* One restore at a time: another one begins when this one has ended or its hub has died.
OneRestore == \A r, s \in Restorers : r = s

\* While a restore holds its lock nobody writes, what it has read is what SQLite holds, and
\* what it found empty is empty; before it publishes its barrier stands.
RestoreKnows(r) ==
  /\ restorer[r].phase = "retry" /\ barrier # NoBarrier => Writing = {} /\ live = {}
  /\ gateLock = r =>
       /\ restorer[r].phase \in {"check", "prepare"} \cup Rereading => Writing = {}
       /\ restorer[r].phase \in Rereading => restorer[r].rows = rows
       /\ restorer[r].phase \in Rereading \ {"recheck"} => live = {}
       /\ restorer[r].phase \in {"renew", "watch", "exec"} => barrier.owner = r
  /\ restorer[r].phase = "open" => ~half

RestoreInv ==
  /\ RestoreTypeOK
  /\ barrier.phase = "none" => barrier.owner = Unowned
  /\ HalfIsShut /\ (half => live # {})
  /\ \A r \in Restorers : RestoreKnows(r)

RestorerRecord == [phase : RestorePhase, rows : SUBSET WriteNumber, barred : BOOLEAN]

LEMMA RestorerIs ==
  ASSUME RestoreTypeOK, NEW r \in Restorers
  PROVE  /\ restorer[r] \in RestorerRecord
         /\ restorer[r].phase \in RestorePhase /\ restorer[r].rows \subseteq WriteNumber
BY DEF RestoreTypeOK, RestorerRecord

LEMMA RestoreToIs ==
  ASSUME RestoreTypeOK, NEW r \in Restorers, NEW ph \in RestorePhase, RestoreTo(r, ph)
  PROVE  /\ restorer' \in [Restorers -> RestorerRecord]
         /\ restorer'[r].phase = ph /\ restorer'[r].rows = restorer[r].rows
         /\ \A q \in Restorers : q # r => restorer'[q] = restorer[q]
BY RestorerIs DEF RestoreTo, RestoreTypeOK, RestorerRecord

\* The steps of writers, and what they leave of the rest.
Writes(w) ==
  /\ writer' \in [Writers -> [phase : WriterPhase, number : WriteNumber]]
  /\ \A v \in Writers : v # w => writer'[v] = writer[v]

LEMMA WriterTypes ==
  ASSUME RestoreTypeOK, NEW w \in Writers,
         EnterWriter(w) \/ AcquirePermit(w) \/ StoreLive(w) \/ StoreRow(w)
  PROVE  RestoreTypeOK' /\ Writes(w)
<1>1. /\ writer \in [Writers -> [phase : WriterPhase, number : WriteNumber]] /\ written \in WriteNumber
      /\ permits \subseteq Writers \cup {Past} /\ live \subseteq WriteNumber /\ rows \subseteq WriteNumber
  BY DEF RestoreTypeOK
<1>2. CASE EnterWriter(w)
  <2>1. written + 1 \in WriteNumber
    BY <1>1, <1>2, GateAssumption DEF EnterWriter, WriteNumber
  <2>2. Writes(w) /\ written' \in WriteNumber
    BY <1>1, <1>2, <2>1 DEF EnterWriter, Writes, WriterPhase
  <2> QED
    BY <1>2, <2>2 DEF EnterWriter, Writes, RestoreTypeOK, gateVars, dataVars
<1>3. CASE AcquirePermit(w)
  <2>1. Writes(w) /\ permits' \subseteq Writers \cup {Past}
    BY <1>1, <1>3 DEF AcquirePermit, Writes, WriterPhase
  <2> QED
    BY <1>3, <2>1 DEF AcquirePermit, Writes, RestoreTypeOK, dataVars
<1>4. CASE StoreLive(w)
  <2>1. Writes(w) /\ live' \subseteq WriteNumber
    BY <1>1, <1>4 DEF StoreLive, Writes, WriterPhase
  <2> QED
    BY <1>4, <2>1 DEF StoreLive, Writes, RestoreTypeOK, gateVars
<1>5. CASE StoreRow(w)
  <2>1. Writes(w) /\ rows' \subseteq WriteNumber /\ permits' \subseteq Writers \cup {Past}
    BY <1>1, <1>5 DEF StoreRow, Writes, WriterPhase
  <2> QED
    BY <1>5, <2>1 DEF StoreRow, Writes, RestoreTypeOK
<1> QED
  BY <1>2, <1>3, <1>4, <1>5

\* The steps of restores.
Restores(r) ==
  /\ restorer' \in [Restorers -> RestorerRecord]
  /\ \A q \in Restorers : q # r => restorer'[q] = restorer[q]

BarrierType == [phase : {"none", "restoring", "failed"}, owner : Restorers \cup {Unowned, Past}]

LEMMA RestorerTypes ==
  ASSUME RestoreTypeOK, NEW r \in Restorers,
         \/ AcquireLock(r) \/ RetryLock(r) \/ CheckTarget(r) \/ Bar(r) \/ Exec(r) \/ ExecRefused(r)
         \/ Open(r) \/ Clean1(r) \/ Clean2(r) \/ Mark(r) \/ Unlock(r)
  PROVE  RestoreTypeOK' /\ Restores(r) /\ UNCHANGED <<permits, rows, writer, viewer, written>>
<1> \A ph \in {"idle", "retry", "check", "prepare", "recheck", "assert", "bar", "renew", "watch",
               "exec", "open", "clean", "cleaned", "mark", "unlock"} : ph \in RestorePhase
  BY DEF RestorePhase
<1>0. /\ restorer[r] \in RestorerRecord
      /\ restorer[r].rows \subseteq WriteNumber /\ rows \subseteq WriteNumber /\ live \subseteq WriteNumber
      /\ gateLock \in Restorers \cup {Unowned, Past} /\ 0 \in WriteNumber /\ half \in BOOLEAN
      /\ mishaps \in 0..MishapBound
  BY RestorerIs, GateAssumption DEF RestoreTypeOK, WriteNumber
<1>1. barrier \in BarrierType /\ barrier.owner \in Restorers \cup {Unowned, Past} /\ NoBarrier \in BarrierType
  BY DEF RestoreTypeOK, BarrierType, NoBarrier
<1>2. /\ [phase |-> "restoring", owner |-> r] \in BarrierType
      /\ [barrier EXCEPT !.phase = "failed"] \in BarrierType /\ [barrier EXCEPT !.owner = Past] \in BarrierType
      /\ Opened(r) \in BarrierType /\ MarkFailed(r) \in BarrierType
  BY <1>1 DEF BarrierType, Opened, MarkFailed
<1>3. ASSUME NEW ph \in RestorePhase, RestoreTo(r, ph) PROVE Restores(r)
  BY <1>3, RestoreToIs DEF Restores
<1>4. ASSUME Restores(r), gateLock' \in Restorers \cup {Unowned, Past}, barrier' \in BarrierType,
             live' \subseteq WriteNumber, half' \in BOOLEAN, mishaps' \in 0..MishapBound,
             UNCHANGED <<permits, rows, writer, viewer, written>>
      PROVE  RestoreTypeOK'
  BY <1>4 DEF RestoreTypeOK, Restores, BarrierType, RestorerRecord
<1>5. CASE AcquireLock(r)
  <2>1. Restores(r)
    BY <1>3, <1>5 DEF AcquireLock
  <2> QED
    BY <1>0, <1>1, <1>4, <1>5, <2>1 DEF AcquireLock, dataVars
<1>6. CASE RetryLock(r)
  <2>1. Restores(r)
    BY <1>3, <1>6 DEF RetryLock
  <2> QED
    BY <1>0, <1>1, <1>4, <1>6, <2>1 DEF RetryLock, dataVars
<1>7. CASE CheckTarget(r)
  <2>1. ASSUME NEW ok \in BOOLEAN, NEW ph \in RestorePhase, Goes(r, ok, ph) PROVE Restores(r)
    BY <1>3, <2>1 DEF Goes
  <2>2. ASSUME restorer' = [restorer EXCEPT ![r].phase = "recheck", ![r].rows = rows] PROVE Restores(r)
    <3> DEFINE c == [restorer[r] EXCEPT !.phase = "recheck", !.rows = rows]
    <3>1. c \in RestorerRecord
      BY <1>0 DEF RestorerRecord
    <3>2. restorer \in [Restorers -> RestorerRecord]
      BY DEF RestoreTypeOK, RestorerRecord
    <3>3. restorer' = [restorer EXCEPT ![r] = c]
      BY <2>2, <3>2
    <3> HIDE DEF c
    <3>4. restorer' \in [Restorers -> RestorerRecord] /\ \A q \in Restorers : q # r => restorer'[q] = restorer[q]
      BY <3>1, <3>2, <3>3
    <3> QED
      BY <3>4 DEF Restores
  <2>3. Restores(r)
    BY <1>7, <2>1, <2>2 DEF CheckTarget
  <2> QED
    BY <1>0, <1>1, <1>4, <1>7, <2>3 DEF CheckTarget, gateVars, dataVars
<1>8. CASE Bar(r)
  <2>1. CASE barrier = NoBarrier
    <3>1. Restores(r)
      BY <1>0, <1>8, <2>1 DEF Bar, Restores, RestoreTypeOK, RestorerRecord
    <3> QED
      BY <1>0, <1>2, <1>4, <1>8, <2>1, <3>1 DEF Bar, dataVars
  <2>2. CASE barrier # NoBarrier
    <3>1. Restores(r)
      BY <1>3, <1>8, <2>2 DEF Bar
    <3> QED
      BY <1>0, <1>1, <1>4, <1>8, <2>2, <3>1 DEF Bar, dataVars
  <2> QED
    BY <2>1, <2>2
<1>9. CASE Exec(r)
  <2>1. Restores(r)
    BY <1>3, <1>9 DEF Exec
  <2>2. mishaps' \in 0..MishapBound /\ half' \in BOOLEAN /\ live' \subseteq WriteNumber
    <3>1. MishapBound \in Nat /\ (mishaps' = mishaps \/ (mishaps < MishapBound /\ mishaps' = mishaps + 1))
      BY <1>9, GateAssumption DEF Exec
    <3>2. mishaps' \in 0..MishapBound
      BY <1>0, <3>1
    <3>3. half' \in BOOLEAN /\ live' \subseteq WriteNumber
      BY <1>0, <1>9 DEF Exec
    <3> QED
      BY <3>2, <3>3
  <2> QED
    BY <1>0, <1>1, <1>4, <1>9, <2>1, <2>2 DEF Exec, gateVars
<1>10. CASE ExecRefused(r)
  <2>1. Restores(r)
    BY <1>3, <1>10 DEF ExecRefused
  <2> QED
    BY <1>0, <1>1, <1>4, <1>10, <2>1 DEF ExecRefused, gateVars, dataVars
<1>11. CASE Open(r)
  <2>1. Restores(r)
    BY <1>3, <1>11 DEF Open
  <2> QED
    BY <1>0, <1>2, <1>4, <1>11, <2>1 DEF Open, dataVars
<1>12. CASE Clean1(r)
  <2>1. Restores(r)
    BY <1>3, <1>12 DEF Clean1
  <2> QED
    BY <1>0, <1>1, <1>4, <1>12, <2>1 DEF Clean1, gateVars
<1>13. CASE Clean2(r)
  <2>1. Restores(r)
    BY <1>3, <1>13 DEF Clean2
  <2> QED
    BY <1>0, <1>1, <1>2, <1>4, <1>13, <2>1 DEF Clean2, dataVars
<1>14. CASE Mark(r)
  <2>1. Restores(r)
    BY <1>3, <1>14 DEF Mark
  <2> QED
    BY <1>0, <1>2, <1>4, <1>14, <2>1 DEF Mark, dataVars
<1>15. CASE Unlock(r)
  <2>1. Restores(r)
    BY <1>15 DEF Unlock, Restores, RestoreTypeOK, RestorerRecord
  <2>2. gateLock' \in Restorers \cup {Unowned, Past} /\ barrier' \in BarrierType
    BY <1>0, <1>1, <1>2, <1>15 DEF Unlock, Unlocked
  <2> QED
    BY <1>0, <1>4, <1>15, <2>1, <2>2 DEF Unlock, dataVars
<1> QED
  BY <1>5, <1>6, <1>7, <1>8, <1>9, <1>10, <1>11, <1>12, <1>13, <1>14, <1>15

LEMMA MishapTypes ==
  ASSUME RestoreTypeOK, View \/ ExpireLock \/ CrashHub \/ LoseRedis \/ UNCHANGED restoreVars
  PROVE  RestoreTypeOK'
<1>1. mishaps \in 0..MishapBound /\ viewer \in [phase : {"idle", "opened", "read", "answered"}, half : BOOLEAN]
      /\ half \in BOOLEAN /\ 0 \in WriteNumber /\ NoBarrier \in BarrierType /\ barrier \in BarrierType
  BY GateAssumption DEF RestoreTypeOK, WriteNumber, NoBarrier, BarrierType
<1>2. Mishap => mishaps' \in 0..MishapBound
  BY <1>1, GateAssumption DEF Mishap
<1>3. CASE View
  <2>1. viewer' \in [phase : {"idle", "opened", "read", "answered"}, half : BOOLEAN]
    <3>1. CASE viewer.phase = "idle" /\ viewer' = [viewer EXCEPT !.phase = "opened"]
      BY <1>1, <3>1
    <3>2. CASE viewer' = [phase |-> "read", half |-> half]
      BY <1>1, <3>2
    <3>4. CASE viewer' = [phase |-> "idle", half |-> FALSE]
      BY <3>4
    <3>3. CASE viewer' = [viewer EXCEPT !.phase = "answered"]
      BY <1>1, <3>3
    <3> QED
      BY <1>3, <3>1, <3>2, <3>3, <3>4 DEF View
  <2> QED
    BY <1>3, <2>1 DEF View, RestoreTypeOK, gateVars, dataVars
<1>4. CASE ExpireLock
  BY <1>2, <1>4 DEF ExpireLock, RestoreTypeOK, dataVars
<1>5. CASE CrashHub
  <2>1. /\ writer' \in [Writers -> [phase : WriterPhase, number : WriteNumber]]
        /\ restorer' \in [Restorers -> RestorerRecord]
        /\ viewer' \in [phase : {"idle", "opened", "read", "answered"}, half : BOOLEAN]
    BY <1>1, <1>5 DEF CrashHub, WriterPhase, RestorePhase, RestorerRecord
  <2>2. barrier' \in BarrierType /\ gateLock' \in {Unowned, Past} /\ permits' \subseteq {Past}
    BY <1>1, <1>5 DEF CrashHub, BarrierType
  <2> QED
    BY <1>2, <1>5, <2>1, <2>2 DEF CrashHub, RestoreTypeOK, BarrierType, dataVars, RestorerRecord
<1>6. CASE LoseRedis
  BY <1>1, <1>2, <1>6 DEF LoseRedis, RestoreTypeOK, BarrierType
<1>7. CASE UNCHANGED restoreVars
  BY <1>7 DEF restoreVars, gateVars, dataVars, RestoreTypeOK
<1> QED
  BY <1>3, <1>4, <1>5, <1>6, <1>7

LEMMA InitRestoreTypes == RestoreInit => RestoreTypeOK
<1> SUFFICES ASSUME RestoreInit PROVE RestoreTypeOK
  OBVIOUS
<1>1. 0 \in WriteNumber /\ 0 \in 0..MishapBound
  BY GateAssumption DEF WriteNumber
<1>2. /\ writer \in [Writers -> [phase : WriterPhase, number : WriteNumber]]
      /\ restorer \in [Restorers -> RestorerRecord]
  BY <1>1 DEF RestoreInit, WriterPhase, RestorePhase, RestorerRecord
<1> QED
  BY <1>1, <1>2 DEF RestoreInit, RestoreTypeOK, NoBarrier, RestorerRecord

LEMMA RestoreTypesStep == RestoreTypeOK /\ [RestoreNext]_restoreVars => RestoreTypeOK'
BY WriterTypes, RestorerTypes, MishapTypes DEF RestoreNext

\* Lock, barrier, permits and data keep their types, however many restores there are.
THEOREM RestoreTypes == RestoreSpec => []RestoreTypeOK
BY InitRestoreTypes, RestoreTypesStep, PTL DEF RestoreSpec

LEMMA InitRestoreInv == RestoreInit => RestoreInv
<1> SUFFICES ASSUME RestoreInit PROVE RestoreInv
  OBVIOUS
<1>1. RestoreTypeOK
  BY InitRestoreTypes
<1>2. /\ barrier = NoBarrier /\ half = FALSE /\ gateLock = Unowned
      /\ \A r \in Restorers : restorer[r].phase = "idle"
  BY DEF RestoreInit
<1> QED
  BY <1>1, <1>2, GateAssumption DEF RestoreInv, RestoreKnows, HalfIsShut, NoBarrier

\* A writer is let in only while no restore holds anything, and changes data only while
\* no restore relies on them.
LEMMA WriterKeeps ==
  ASSUME RestoreInv, NEW w \in Writers,
         EnterWriter(w) \/ AcquirePermit(w) \/ StoreLive(w) \/ StoreRow(w)
  PROVE  RestoreInv'
<1>1. RestoreTypeOK /\ RestoreTypeOK' /\ Writes(w) /\ writer \in [Writers -> [phase : WriterPhase, number : WriteNumber]]
  BY WriterTypes DEF RestoreInv, RestoreTypeOK
<1>2. \A v \in Writers : v # w => writer'[v] = writer[v]
  BY <1>1 DEF Writes
<1>3. CASE EnterWriter(w)
  <2>1. UNCHANGED <<gateLock, barrier, live, rows, half, restorer>>
    BY <1>3 DEF EnterWriter, gateVars, dataVars
  <2>2. Writing' \subseteq Writing
    BY <1>1, <1>2, <1>3 DEF EnterWriter, Writing
  <2> QED
    BY <1>1, <2>1, <2>2 DEF RestoreInv, RestoreKnows, HalfIsShut
<1>4. CASE AcquirePermit(w)
  <2>1. UNCHANGED <<gateLock, barrier, live, rows, half, restorer>>
    BY <1>4 DEF AcquirePermit, dataVars
  <2>2. CASE GateOpen
    <3>1. barrier = NoBarrier /\ \A r \in Restorers : gateLock # r
      BY <2>2, GateAssumption DEF GateOpen
    <3> QED
      BY <1>1, <2>1, <3>1 DEF RestoreInv, RestoreKnows, HalfIsShut
  <2>3. CASE ~GateOpen
    <3>1. Writing' \subseteq Writing
      BY <1>1, <1>2, <1>4, <2>3 DEF AcquirePermit, Writing
    <3> QED
      BY <1>1, <2>1, <3>1 DEF RestoreInv, RestoreKnows, HalfIsShut
  <2> QED
    BY <2>2, <2>3
<1>5. CASE StoreLive(w) \/ StoreRow(w)
  <2>1. /\ UNCHANGED <<gateLock, barrier, half, restorer>> /\ live \subseteq live'
        /\ writer[w].phase \in {"permitted", "stored"} /\ w \in Writing
    BY <1>5 DEF StoreLive, StoreRow, gateVars, Writing
  <2>2. \A r \in Restorers :
          /\ ~(restorer[r].phase = "retry" /\ barrier # NoBarrier)
          /\ ~(gateLock = r /\ restorer[r].phase \in {"check", "prepare"} \cup Rereading)
    BY <2>1 DEF RestoreInv, RestoreKnows
  <2> QED
    BY <1>1, <2>1, <2>2 DEF RestoreInv, RestoreKnows, HalfIsShut
<1> QED
  BY <1>3, <1>4, <1>5

\* A restore goes on only with its lock, and opens its barrier only over what is whole.
LEMMA RestorerKeeps ==
  ASSUME RestoreInv, OneRestore, NEW r \in Restorers,
         \/ AcquireLock(r) \/ RetryLock(r) \/ CheckTarget(r) \/ Bar(r) \/ Exec(r) \/ ExecRefused(r)
         \/ Open(r) \/ Clean1(r) \/ Clean2(r) \/ Mark(r) \/ Unlock(r)
  PROVE  RestoreInv'
<1> \A ph \in {"idle", "retry", "check", "prepare", "recheck", "assert", "bar", "renew", "watch",
               "exec", "open", "clean", "cleaned", "mark", "unlock"} : ph \in RestorePhase
  BY DEF RestorePhase
<1>1. RestoreTypeOK /\ RestoreTypeOK' /\ UNCHANGED <<permits, rows, writer>> /\ Writing' = Writing
  BY RestorerTypes DEF RestoreInv, Writing
<1>2. /\ RestoreKnows(r) /\ HalfIsShut /\ (half => live # {}) /\ (barrier.phase = "none" => barrier.owner = Unowned)
      /\ r # Unowned /\ r # Past /\ Past # Unowned
  BY GateAssumption DEF RestoreInv
<1>3. barrier \in [phase : {"none", "restoring", "failed"}, owner : Restorers \cup {Unowned, Past}]
      /\ restorer[r].phase \in RestorePhase /\ restorer \in [Restorers -> RestorerRecord]
  BY <1>1, RestorerIs DEF RestoreTypeOK, RestorerRecord
<1>4. NoBarrier.owner = Unowned /\ NoBarrier.phase = "none" /\ (barrier.owner = r => barrier.phase # "none")
      /\ (barrier = NoBarrier <=> barrier.phase = "none")
  BY <1>2, <1>3 DEF NoBarrier
<1>5. ASSUME RestoreKnows(r)', HalfIsShut', half' => live' # {}, barrier'.phase = "none" => barrier'.owner = Unowned
      PROVE  RestoreInv'
  BY <1>1, <1>5 DEF RestoreInv, OneRestore
<1>6. ASSUME NEW ph \in RestorePhase, RestoreTo(r, ph)
      PROVE  restorer'[r].phase = ph /\ restorer'[r].rows = restorer[r].rows
  BY <1>1, <1>6, RestoreToIs
<1>7. CASE AcquireLock(r)
  <2>1. /\ UNCHANGED <<barrier, live, half>> /\ Writing = {}
        /\ \/ barrier = NoBarrier /\ gateLock' = r /\ restorer'[r].phase = "check"
           \/ live = {} /\ restorer'[r].phase = "retry" /\ gateLock' = gateLock
    BY <1>6, <1>7 DEF AcquireLock, GateOpen, LocalWriters, Writing, dataVars
  <2> QED
    BY <1>1, <1>2, <1>5, <2>1 DEF RestoreKnows, HalfIsShut, Rereading
<1>8. CASE RetryLock(r)
  <2>1. UNCHANGED <<live, half>> /\ restorer[r].phase = "retry"
    BY <1>8 DEF RetryLock, AtPhase, dataVars
  <2>2. CASE MayRetry
    <3>1. gateLock' = r /\ barrier' = NoBarrier /\ restorer'[r].phase = "check" /\ barrier # NoBarrier
      BY <1>4, <1>6, <1>8, <2>2 DEF RetryLock, MayRetry
    <3>2. Writing = {} /\ ~half
      BY <1>2, <2>1, <3>1 DEF RestoreKnows
    <3> QED
      BY <1>1, <1>4, <1>5, <2>1, <3>1, <3>2 DEF RestoreKnows, HalfIsShut, Rereading
  <2>3. CASE ~MayRetry
    <3>1. UNCHANGED <<gateLock, barrier>> /\ restorer'[r].phase = "idle"
      BY <1>6, <1>8, <2>3 DEF RetryLock
    <3> QED
      BY <1>2, <1>5, <2>1, <3>1 DEF RestoreKnows, HalfIsShut, Rereading
  <2> QED
    BY <2>2, <2>3
<1>9. CASE CheckTarget(r)
  <2>1. UNCHANGED <<gateLock, barrier, live, half>>
    BY <1>9 DEF CheckTarget, gateVars, dataVars
  <2>2. ASSUME NEW ok \in BOOLEAN, NEW ph \in RestorePhase, Goes(r, ok, ph)
        PROVE  /\ restorer'[r].rows = restorer[r].rows
               /\ (restorer'[r].phase = ph /\ ok) \/ restorer'[r].phase \in {"clean", "unlock"}
    BY <1>6, <2>2 DEF Goes
  <2>3. CASE AtPhase(r, "check") /\ Goes(r, live = {}, "prepare")
    <3>1. restorer'[r].phase \in {"prepare", "clean", "unlock"} /\ restorer[r].phase = "check"
      BY <2>2, <2>3 DEF AtPhase
    <3> QED
      BY <1>1, <1>2, <1>5, <2>1, <3>1 DEF RestoreKnows, HalfIsShut, Rereading
  <2>4. CASE AtPhase(r, "prepare") /\ restorer' = [restorer EXCEPT ![r].phase = "recheck", ![r].rows = rows]
    <3>1. restorer'[r].phase = "recheck" /\ restorer'[r].rows = rows /\ restorer[r].phase = "prepare"
      BY <1>3, <2>4 DEF AtPhase, RestorerRecord
    <3> QED
      BY <1>1, <1>2, <1>5, <2>1, <3>1 DEF RestoreKnows, HalfIsShut, Rereading
  <2>5. CASE AtPhase(r, "recheck") /\ Goes(r, live = {}, "assert")
    <3>1. /\ (restorer'[r].phase = "assert" /\ live = {}) \/ restorer'[r].phase \in {"clean", "unlock"}
          /\ restorer[r].phase = "recheck" /\ restorer'[r].rows = restorer[r].rows
      BY <2>2, <2>5 DEF AtPhase
    <3> QED
      BY <1>1, <1>2, <1>5, <2>1, <3>1 DEF RestoreKnows, HalfIsShut, Rereading
  <2>6. CASE AtPhase(r, "assert") /\ Goes(r, gateLock = r, "bar")
    <3>1. /\ restorer'[r].phase \in {"bar", "clean", "unlock"}
          /\ restorer[r].phase = "assert" /\ restorer'[r].rows = restorer[r].rows
      BY <2>2, <2>6 DEF AtPhase
    <3> QED
      BY <1>1, <1>2, <1>5, <2>1, <3>1 DEF RestoreKnows, HalfIsShut, Rereading
  <2>7. CASE \/ AtPhase(r, "renew") /\ Goes(r, gateLock = r, "watch")
             \/ AtPhase(r, "watch") /\ Goes(r, gateLock = r, "exec")
    <3>1. /\ restorer'[r].phase \in {"watch", "exec", "clean", "unlock"}
          /\ restorer[r].phase \in {"renew", "watch"} /\ restorer'[r].rows = restorer[r].rows
      BY <2>2, <2>7 DEF AtPhase
    <3> QED
      BY <1>1, <1>2, <1>5, <2>1, <3>1 DEF RestoreKnows, HalfIsShut, Rereading
  <2> QED
    BY <1>9, <2>3, <2>4, <2>5, <2>6, <2>7 DEF CheckTarget
<1>10. CASE Bar(r)
  <2>1. UNCHANGED <<gateLock, live, half>> /\ restorer[r].phase = "bar"
    BY <1>10 DEF Bar, AtPhase, dataVars
  <2>2. CASE barrier = NoBarrier
    <3>1. /\ barrier' = [phase |-> "restoring", owner |-> r] /\ barrier'.owner = r /\ barrier'.phase = "restoring"
          /\ restorer'[r].phase = "renew" /\ restorer'[r].rows = restorer[r].rows /\ barrier' # NoBarrier
      BY <1>2, <1>3, <1>10, <2>2 DEF Bar, NoBarrier, RestorerRecord
    <3> QED
      BY <1>1, <1>2, <1>5, <2>1, <3>1 DEF RestoreKnows, HalfIsShut, Rereading
  <2>3. CASE barrier # NoBarrier
    <3>1. UNCHANGED barrier /\ restorer'[r].phase = "unlock"
      BY <1>6, <1>10, <2>3 DEF Bar
    <3> QED
      BY <1>2, <1>5, <2>1, <3>1 DEF RestoreKnows, HalfIsShut, Rereading
  <2> QED
    BY <2>2, <2>3
<1>11. CASE Exec(r)
  <2>1. UNCHANGED <<gateLock, barrier>> /\ restorer[r].phase = "exec" /\ gateLock = r
    BY <1>11 DEF Exec, AtPhase, gateVars
  <2>2. live = {} /\ ~half /\ barrier.owner = r /\ barrier # NoBarrier
    BY <1>2, <1>4, <2>1 DEF RestoreKnows, Rereading
  <2>3. \/ restorer'[r].phase = "open" /\ half' = half
        \/ restorer'[r].phase = "clean" /\ live' # {}
    BY <1>6, <1>11 DEF Exec
  <2> QED
    BY <1>2, <1>5, <2>1, <2>2, <2>3 DEF RestoreKnows, HalfIsShut, Rereading
<1>12. CASE ExecRefused(r)
  <2>1. UNCHANGED <<gateLock, barrier, live, half>> /\ restorer'[r].phase = "clean"
    BY <1>6, <1>12 DEF ExecRefused, gateVars, dataVars
  <2> QED
    BY <1>2, <1>5, <2>1 DEF RestoreKnows, HalfIsShut, Rereading
<1>13. CASE Open(r)
  <2>1. /\ UNCHANGED <<gateLock, live, half>> /\ restorer'[r].phase = "unlock" /\ restorer[r].phase = "open"
        /\ barrier' \in {barrier, NoBarrier}
    BY <1>6, <1>13 DEF Open, AtPhase, Opened, dataVars
  <2>2. ~half
    BY <1>2, <2>1 DEF RestoreKnows
  <2> QED
    BY <1>2, <1>4, <1>5, <2>1, <2>2 DEF RestoreKnows, HalfIsShut, Rereading
<1>14. CASE Clean1(r)
  <2>1. UNCHANGED <<gateLock, barrier>>
    BY <1>14 DEF Clean1, gateVars
  <2>2. \/ restorer'[r].phase = "cleaned" /\ half' = FALSE
        \/ restorer'[r].phase = "mark" /\ live' = live /\ half' = half
    BY <1>6, <1>14 DEF Clean1
  <2> QED
    BY <1>2, <1>5, <2>1, <2>2 DEF RestoreKnows, HalfIsShut, Rereading
<1>15. CASE Clean2(r)
  <2>1. /\ UNCHANGED <<gateLock, live, half>>
        /\ \/ live = {} /\ barrier' \in {barrier, NoBarrier} /\ restorer'[r].phase = "unlock"
           \/ barrier' = barrier /\ restorer'[r].phase = "mark"
    BY <1>6, <1>15 DEF Clean2, Opened, dataVars
  <2> QED
    BY <1>2, <1>4, <1>5, <2>1 DEF RestoreKnows, HalfIsShut, Rereading
<1>16. CASE Mark(r)
  <2>1. UNCHANGED <<gateLock, live, half>> /\ restorer'[r].phase = "unlock" /\ barrier' = MarkFailed(r)
    BY <1>6, <1>16 DEF Mark, dataVars
  <2>2. /\ barrier'.owner = barrier.owner /\ (barrier'.phase = "none" <=> barrier.phase = "none")
        /\ (barrier # NoBarrier => barrier' # NoBarrier)
    BY <1>3, <1>4, <2>1 DEF MarkFailed, NoBarrier
  <2> QED
    BY <1>2, <1>5, <2>1, <2>2 DEF RestoreKnows, HalfIsShut, Rereading
<1>17. CASE Unlock(r)
  <2>1. /\ UNCHANGED <<live, half>> /\ restorer'[r].phase = "idle" /\ gateLock' # r
        /\ barrier' = IF barrier.owner = r THEN [barrier EXCEPT !.owner = Past] ELSE barrier
    BY <1>2, <1>3, <1>17 DEF Unlock, Unlocked, dataVars
  <2>2. /\ barrier'.phase = barrier.phase /\ (barrier # NoBarrier => barrier' # NoBarrier)
        /\ (barrier'.phase = "none" => barrier'.owner = Unowned)
    BY <1>2, <1>3, <1>4, <2>1 DEF NoBarrier
  <2> QED
    BY <1>2, <1>5, <2>1, <2>2 DEF RestoreKnows, HalfIsShut, Rereading
<1> QED
  BY <1>7, <1>8, <1>9, <1>10, <1>11, <1>12, <1>13, <1>14, <1>15, <1>16, <1>17

LEMMA MishapKeeps ==
  ASSUME RestoreInv, View \/ ExpireLock \/ CrashHub \/ LoseRedis \/ UNCHANGED restoreVars
  PROVE  RestoreInv'
<1>1. RestoreTypeOK'
  BY MishapTypes DEF RestoreInv
<1>2. CASE View \/ UNCHANGED restoreVars
  BY <1>1, <1>2 DEF View, restoreVars, gateVars, dataVars, RestoreInv, RestoreKnows, HalfIsShut, Writing
<1>3. CASE ExpireLock
  <2>1. UNCHANGED <<barrier, live, rows, half, writer, restorer>> /\ \A r \in Restorers : gateLock' # r
    BY <1>3, GateAssumption DEF ExpireLock, dataVars
  <2> QED
    BY <1>1, <2>1 DEF RestoreInv, RestoreKnows, HalfIsShut, Writing
<1>4. CASE CrashHub
  <2>1. /\ UNCHANGED <<live, rows, half>> /\ \A r \in Restorers : restorer'[r].phase = "idle"
        /\ barrier' = IF barrier = NoBarrier THEN NoBarrier ELSE [barrier EXCEPT !.owner = Past]
    BY <1>4 DEF CrashHub, dataVars
  <2>2. barrier \in BarrierType /\ (barrier.phase = "none" => barrier.owner = Unowned)
    BY DEF RestoreInv, RestoreTypeOK, BarrierType
  <2>3. (barrier # NoBarrier => barrier' # NoBarrier) /\ (barrier'.phase = "none" => barrier'.owner = Unowned)
    BY <2>1, <2>2 DEF BarrierType, NoBarrier
  <2> QED
    BY <1>1, <2>1, <2>3 DEF RestoreInv, RestoreKnows, HalfIsShut, Rereading
<1>5. CASE LoseRedis
  <2>1. /\ barrier' = NoBarrier /\ half' = FALSE /\ restorer' = restorer /\ \A r \in Restorers : gateLock' # r
    BY <1>5, GateAssumption DEF LoseRedis
  <2> QED
    BY <1>1, <2>1 DEF RestoreInv, RestoreKnows, HalfIsShut, NoBarrier
<1> QED
  BY <1>2, <1>3, <1>4, <1>5

LEMMA RestoreInvStep == RestoreInv /\ OneRestore /\ [RestoreNext]_restoreVars => RestoreInv'
BY WriterKeeps, RestorerKeeps, MishapKeeps DEF RestoreNext

\* The step that publishes, or tries to, finds Redis empty and nobody writing, and
\* publishes what SQLite holds.
LEMMA PublishesRows ==
  ASSUME RestoreInv, OneRestore, [RestoreNext]_restoreVars, NEW r \in Restorers,
         AtPhase(r, "exec"), live' # live, restorer'[r].phase \in {"open", "clean"}
  PROVE  live = {} /\ Writing = {} /\ (half' \/ live' = rows)
<1>1. CASE Exec(r)
  <2>1. RestoreKnows(r) /\ gateLock = r
    BY <1>1 DEF Exec, RestoreInv
  <2> QED
    BY <1>1, <2>1 DEF Exec, RestoreKnows, Rereading, AtPhase
<1>2. ASSUME NEW s \in Restorers, \/ AcquireLock(s) \/ RetryLock(s) \/ CheckTarget(s) \/ Bar(s) \/ ExecRefused(s)
                                  \/ Open(s) \/ Clean1(s) \/ Clean2(s) \/ Mark(s) \/ Unlock(s)
      PROVE  FALSE
  <2>1. s = r
    BY DEF OneRestore
  <2> QED
    BY <1>2, <2>1 DEF AcquireLock, RetryLock, CheckTarget, Bar, ExecRefused, Open, Clean1, Clean2, Mark, Unlock,
                      AtPhase, dataVars
<1>3. CASE CrashHub \/ View \/ ExpireLock \/ UNCHANGED restoreVars
  BY <1>3 DEF CrashHub, View, ExpireLock, restoreVars, dataVars
<1>4. CASE LoseRedis
  BY <1>4 DEF LoseRedis, AtPhase
<1>5. ASSUME NEW w \in Writers, EnterWriter(w) \/ AcquirePermit(w) \/ StoreLive(w) \/ StoreRow(w) PROVE FALSE
  BY <1>5 DEF EnterWriter, AcquirePermit, StoreLive, StoreRow, dataVars, AtPhase
<1> QED
  BY <1>1, <1>2, <1>3, <1>4, <1>5 DEF RestoreNext, OneRestore

\* Whatever becomes of lock, permits and barrier, and however often the hub dies or Redis
\* is lost while one restore is under way: it publishes what SQLite holds, into an empty
\* namespace nobody writes to, and half a projection is behind a barrier.
THEOREM Restore_Safe == OneRestore => (RestoreSpec => RestoreIsSafe)
<1> SUFFICES ASSUME OneRestore PROVE RestoreSpec => RestoreIsSafe
  OBVIOUS
<1>1. RestoreInv => HalfIsShut
  BY DEF RestoreInv
<1>2. RestoreInv /\ [RestoreNext]_restoreVars =>
        [\A r \in Restorers :
           (AtPhase(r, "exec") /\ live' # live /\ restorer'[r].phase \in {"open", "clean"}) =>
             live = {} /\ {w \in Writers : writer[w].phase \in {"permitted", "stored"}} = {}
             /\ (half' \/ live' = rows)]_restoreVars
  BY PublishesRows DEF Writing
<1>3. RestoreInv /\ [RestoreNext]_restoreVars => RestoreInv'
  BY RestoreInvStep
<1> QED
  BY <1>1, <1>2, <1>3, InitRestoreInv, PTL DEF RestoreSpec, RestoreIsSafe, RestoreIsExclusive

-----------------------------------------------------------------------------
(* SupervisorWorkers: slots that were reported offline have nothing left and no   *)
(* two work on one task; calm rounds leave no open work to a coordinator nobody   *)
(* will ring, because what was pending at the last round still is or has been     *)
(* claimed by a slot that will ring.                                              *)

\* No call has failed, nothing was withdrawn, and the process is not told to end.
Calm == troubles = 0 /\ aborted = FALSE

\* What a schedule relies on between its claim and the answer, and the task it was granted.
RunKnows ==
  run # NoRun =>
    /\ run.busy = TRUE => run.at \in Slots /\ claimed[run.at] = NoJob /\ Cardinality(Working) < Cap
    /\ run.busy = FALSE => run.reply = NoJob
    /\ run.reply # NoJob => /\ job[run.reply] = "held" /\ run.reply \notin strayed
                            /\ \A s \in Working : claimed[s] # run.reply
    /\ life = "on" /\ run.at > 0 => started = TRUE

SessionsKnown ==
  /\ started = TRUE => \A s \in Slots : session[s] = "online"
  /\ life = "off" => started = FALSE
  /\ life # "on" => asked = FALSE

StrayedAreHeld == (\A j \in strayed : job[j] = "held") /\ (Calm => strayed = {})

\* What a round has read is no more than there is, unless a claim has outdated it.
GotKnows ==
  stage = "reading" =>
    /\ got \in RoundAnswer /\ got.events <= posted
    /\ "plans" \notin got.read => got.pending = 0
    /\ got.pending > 0 => got.live = TRUE
    /\ Calm /\ miscounted = FALSE => got.pending <= Pending

\* What was pending at the last round still is, or has been claimed by a slot.
CountedIsKnown ==
  transport = "endpoints" /\ Calm /\ miscounted = FALSE =>
    posted > seen \/ counted <= Pending + Cardinality(Working) + (IF Granted THEN 1 ELSE 0)

SupervisorInv ==
  /\ SupervisorTypeOK /\ OfflineIsQuiet /\ WorkIsShared
  /\ RunKnows /\ SessionsKnown /\ StrayedAreHeld
  /\ seen <= posted /\ GotKnows /\ CountedIsKnown
  /\ transport = "endpoints" => ClaimableIsAnnounced


LEMMA SlotCounts ==
  /\ IsFiniteSet(Slots) /\ IsFiniteSet(Working) /\ Cardinality(Working) \in Nat
  /\ Cardinality(Working) = 0 <=> Working = {}
  /\ Pending \in Nat /\ \A st : IsFiniteSet(JobsIn(st))
<1>1. IsFiniteSet(Slots)
  <2>1. SlotCount \in Int /\ 1 \in Int
    BY SupervisorAssumption
  <2> QED
    BY <2>1, FS_Interval DEF Slots
<1>2. IsFiniteSet(Working)
  <2>1. Working \in SUBSET Slots
    BY DEF Working
  <2> QED
    BY <1>1, <2>1, FS_Subset
<1>3. \A st : IsFiniteSet(JobsIn(st))
  <2>1. ASSUME NEW st PROVE IsFiniteSet(JobsIn(st))
    <3>1. JobsIn(st) \in SUBSET Jobs
      BY DEF JobsIn
    <3>2. IsFiniteSet(Jobs)
      BY SupervisorAssumption
    <3> QED
      BY <3>1, <3>2, FS_Subset
  <2> QED
    BY <2>1
<1>4. Pending \in Nat
  <2>1. IsFiniteSet(JobsIn({"waiting", "open"}))
    BY <1>3
  <2> QED
    BY <2>1, FS_CardinalityType DEF Pending
<1> QED
  BY <1>1, <1>2, <1>3, <1>4, FS_CardinalityType, FS_EmptySet

LEMMA WorkStays ==
  ASSUME UNCHANGED <<job, claimed>>
  PROVE  Pending' = Pending /\ Working' = Working /\ \A st : JobsIn(st)' = JobsIn(st)
BY DEF Pending, Working, JobsIn

LEMMA InitSupervisorInv == SupervisorInit => SupervisorInv
<1> SUFFICES ASSUME SupervisorInit PROVE SupervisorInv
  OBVIOUS
<1>1. Working = {} /\ \A st : "absent" \notin st => JobsIn(st) = {}
  BY DEF SupervisorInit, Working, JobsIn
<1>2. SupervisorTypeOK
  BY SupervisorAssumption DEF SupervisorInit, SupervisorTypeOK
<1>3. Cardinality(Working) = 0 /\ Pending = 0
  <2>1. JobsIn({"waiting", "open"}) = {}
    BY <1>1
  <2> QED
    BY <1>1, <2>1, FS_EmptySet DEF Pending
<1>4. OfflineIsQuiet /\ SessionsKnown /\ StrayedAreHeld /\ seen <= posted /\ RunKnows
  BY DEF SupervisorInit, OfflineIsQuiet, SessionsKnown, StrayedAreHeld, RunKnows
<1>5. WorkIsShared
  BY <1>1, <1>3, SupervisorAssumption DEF WorkIsShared
<1>6. GotKnows
  BY DEF SupervisorInit, GotKnows
<1>7. CountedIsKnown
  BY <1>3 DEF SupervisorInit, CountedIsKnown, Granted
<1>8. ClaimableIsAnnounced
  <2>1. JobsIn({"open"}) = {}
    BY <1>1
  <2> QED
    BY <2>1 DEF ClaimableIsAnnounced
<1> QED
  BY <1>2, <1>4, <1>5, <1>6, <1>7, <1>8 DEF SupervisorInv

LEMMA SubmitInv ==
  ASSUME SupervisorInv, NEW j \in Jobs, Submit(j)
  PROVE  SupervisorInv'
<1>1. /\ job[j] = "absent" /\ job \in [Jobs -> {"absent", "waiting", "open", "held", "closed"}]
      /\ \E st \in {"waiting", "open"} : job' = [job EXCEPT ![j] = st]
      /\ UNCHANGED <<strayed, posted, stage, got, seen, counted, transport, asked, again, run, claimed, started,
                     session, life, why, aborted, miscounted, troubles>>
  BY DEF SupervisorInv, SupervisorTypeOK, Submit, roundVars, workerVars
<1>2. /\ \A k \in Jobs \ {j} : job'[k] = job[k]
      /\ job'[j] \in {"waiting", "open"} /\ j \notin JobsIn({"waiting", "open"})
  BY <1>1 DEF JobsIn
<1>3. Working' = Working /\ Pending' = Pending + 1
  <2>1. JobsIn({"waiting", "open"})' = JobsIn({"waiting", "open"}) \cup {j}
    BY <1>1, <1>2 DEF JobsIn
  <2>2. IsFiniteSet(JobsIn({"waiting", "open"}))
    BY SlotCounts
  <2> QED
    BY <1>1, <1>2, <2>1, <2>2, FS_AddElement DEF Pending, Working
<1>4. SupervisorTypeOK'
  BY <1>1 DEF SupervisorInv, SupervisorTypeOK
<1>5. OfflineIsQuiet' /\ SessionsKnown'
  BY <1>1, <1>3 DEF SupervisorInv, OfflineIsQuiet, SessionsKnown
<1>6. WorkIsShared' /\ StrayedAreHeld' /\ RunKnows'
  BY <1>1, <1>2, <1>3 DEF SupervisorInv, WorkIsShared, StrayedAreHeld, RunKnows, Calm, SupervisorTypeOK, Working, ScheduleRun
<1>7. seen' <= posted' /\ GotKnows'
  BY <1>1, <1>3, SlotCounts DEF SupervisorInv, GotKnows, Calm, RoundAnswer
<1>8. CountedIsKnown'
  BY <1>1, <1>3, SlotCounts DEF SupervisorInv, CountedIsKnown, Calm, Granted, SupervisorTypeOK
<1>9. (transport = "endpoints" => ClaimableIsAnnounced)'
  BY <1>1, <1>2, <1>3, SlotCounts DEF SupervisorInv, ClaimableIsAnnounced, CountedIsKnown, Calm, WillBeNoticed, Granted,
     SlotToPass, SupervisorTypeOK, JobsIn
<1> QED
  BY <1>1, <1>4, <1>5, <1>6, <1>7, <1>8, <1>9 DEF SupervisorInv

LEMMA SatisfyInv ==
  ASSUME SupervisorInv, NEW j \in Jobs, Satisfy(j)
  PROVE  SupervisorInv'
<1>1. /\ job[j] = "waiting" /\ job \in [Jobs -> {"absent", "waiting", "open", "held", "closed"}]
      /\ job' = [job EXCEPT ![j] = "open"] /\ posted \in Nat /\ posted' = posted + 1 /\ seen \in Nat
      /\ UNCHANGED <<strayed, stage, got, seen, counted, transport, asked, again, run, claimed, started,
                     session, life, why, aborted, miscounted, troubles>>
  BY DEF SupervisorInv, SupervisorTypeOK, Satisfy, roundVars, workerVars
<1>2. /\ \A k \in Jobs \ {j} : job'[k] = job[k]
      /\ job'[j] = "open"
  BY <1>1
<1>3. Working' = Working /\ Pending' = Pending
  <2>1. JobsIn({"waiting", "open"})' = JobsIn({"waiting", "open"})
    BY <1>1, <1>2 DEF JobsIn
  <2> QED
    BY <1>1, <2>1 DEF Pending, Working
<1>4. SupervisorTypeOK'
  BY <1>1 DEF SupervisorInv, SupervisorTypeOK
<1>5. OfflineIsQuiet' /\ SessionsKnown'
  BY <1>1, <1>3 DEF SupervisorInv, OfflineIsQuiet, SessionsKnown
<1>6. WorkIsShared' /\ StrayedAreHeld' /\ RunKnows'
  BY <1>1, <1>2, <1>3 DEF SupervisorInv, WorkIsShared, StrayedAreHeld, RunKnows, Calm, SupervisorTypeOK, Working, ScheduleRun
<1>7. seen' <= posted' /\ GotKnows'
  BY <1>1, <1>3, SlotCounts DEF SupervisorInv, GotKnows, Calm, RoundAnswer
<1>8. (CountedIsKnown' /\ ClaimableIsAnnounced') \/ transport' # "endpoints"
  <2>1. posted' > seen'
    BY <1>1 DEF SupervisorInv
  <2> QED
    BY <1>1, <2>1 DEF CountedIsKnown, ClaimableIsAnnounced, WillBeNoticed
<1>9. CountedIsKnown'
  BY <1>8 DEF CountedIsKnown
<1> QED
  BY <1>1, <1>4, <1>5, <1>6, <1>7, <1>8, <1>9 DEF SupervisorInv

\* After trouble, or on the way down, nothing is promised about counts.
LEMMA NoPromise ==
  ASSUME troubles' # 0 \/ aborted' = TRUE
  PROVE  CountedIsKnown' /\ ClaimableIsAnnounced' /\ ~Calm'
BY DEF CountedIsKnown, ClaimableIsAnnounced, Calm

LEMMA WithdrawInv ==
  ASSUME SupervisorInv, NEW j \in Jobs, Withdraw(j)
  PROVE  SupervisorInv'
<1>1. /\ job[j] \in {"waiting", "open"} /\ job \in [Jobs -> {"absent", "waiting", "open", "held", "closed"}]
      /\ job' = [job EXCEPT ![j] = "closed"] /\ troubles \in Nat /\ troubles' = troubles + 1
      /\ UNCHANGED <<strayed, posted, stage, got, seen, counted, transport, asked, again, run, claimed, started,
                     session, life, why, aborted, miscounted>>
  BY DEF SupervisorInv, SupervisorTypeOK, Withdraw, Stays, roundVars, workerVars
<1>2. (\A k \in Jobs \ {j} : job'[k] = job[k]) /\ Working' = Working /\ troubles' # 0
  BY <1>1 DEF Working
<1>3. CountedIsKnown' /\ ClaimableIsAnnounced' /\ ~Calm'
  BY <1>2, NoPromise
<1>4. SupervisorTypeOK'
  BY <1>1 DEF SupervisorInv, SupervisorTypeOK
<1>5. OfflineIsQuiet' /\ SessionsKnown'
  BY <1>1, <1>2 DEF SupervisorInv, OfflineIsQuiet, SessionsKnown
<1>6. WorkIsShared' /\ StrayedAreHeld' /\ RunKnows'
  BY <1>1, <1>2, <1>3 DEF SupervisorInv, WorkIsShared, StrayedAreHeld, RunKnows, SupervisorTypeOK, Working, ScheduleRun
<1>7. seen' <= posted' /\ GotKnows'
  BY <1>1, <1>3 DEF SupervisorInv, GotKnows
<1> QED
  BY <1>1, <1>3, <1>4, <1>5, <1>6, <1>7 DEF SupervisorInv

\* Steps of a round that leave the hub, the schedule and the slots' tasks alone.
LEMMA RoundKeeps ==
  ASSUME SupervisorInv, UNCHANGED <<job, strayed, posted, run, claimed, transport, miscounted>>,
         \/ UNCHANGED <<troubles, aborted>>
         \/ troubles' # 0 \/ aborted' = TRUE,
         life' = "on" => life = "on" \/ run = NoRun,
         started = TRUE => started' = TRUE \/ run = NoRun
  PROVE  WorkIsShared' /\ StrayedAreHeld' /\ RunKnows'
<1>1. Working' = Working /\ (Calm' => Calm)
  BY DEF Working, Calm
<1>2. WorkIsShared' /\ StrayedAreHeld'
  BY <1>1 DEF SupervisorInv, WorkIsShared, StrayedAreHeld
<1>3. RunKnows'
  BY <1>1 DEF SupervisorInv, RunKnows
<1> QED
  BY <1>2, <1>3

\* Nor do they move what the round compares, or bring a doorbell down.
LEMMA NoticeKeeps ==
  ASSUME SupervisorInv,
         UNCHANGED <<job, strayed, posted, run, claimed, transport, miscounted, seen, counted, troubles>>,
         aborted = TRUE => aborted' = TRUE,
         life' # "on" \/ life' = life, asked = TRUE => asked' = TRUE \/ life' # "on"
  PROVE  CountedIsKnown' /\ (transport = "endpoints" => ClaimableIsAnnounced)'
<1>1. Pending' = Pending /\ Working' = Working /\ JobsIn({"open"})' = JobsIn({"open"}) /\ asked \in BOOLEAN
  BY WorkStays DEF SupervisorInv, SupervisorTypeOK
<1>2. (Calm' => Calm) /\ Granted' = Granted /\ SlotToPass' = SlotToPass
  BY DEF Calm, Granted, SlotToPass, SupervisorInv, SupervisorTypeOK
<1>3. CountedIsKnown'
  BY <1>1, <1>2 DEF SupervisorInv, CountedIsKnown
<1>4. (transport = "endpoints" => ClaimableIsAnnounced)'
  BY <1>1, <1>2 DEF SupervisorInv, SupervisorTypeOK, ClaimableIsAnnounced, WillBeNoticed
<1> QED
  BY <1>3, <1>4

LEMMA RoundRests ==
  ASSUME SupervisorInv, SupervisorTypeOK' /\ OfflineIsQuiet' /\ SessionsKnown', seen' <= posted' /\ GotKnows',
         UNCHANGED <<job, strayed, posted, run, claimed, transport, miscounted, seen, counted, troubles, aborted>>,
         life' = "on" => life = "on" \/ run = NoRun, started = TRUE => started' = TRUE \/ run = NoRun,
         life' # "on" \/ life' = life, asked = TRUE => asked' = TRUE \/ life' # "on"
  PROVE  SupervisorInv'
BY RoundKeeps, NoticeKeeps DEF SupervisorInv

LEMMA BeginInv ==
  ASSUME SupervisorInv, Begin
  PROVE  SupervisorInv'
<1>1. /\ UNCHANGED <<job, strayed, posted, seen, counted, transport, asked, again, run, claimed, started,
                     session, life, why, aborted, miscounted, troubles>>
      /\ stage' = "reading" /\ seen \in Nat /\ seen <= posted
      /\ got' = [pending |-> 0, live |-> FALSE, events |-> seen, reclaimed |-> FALSE, read |-> {}]
  BY DEF SupervisorInv, SupervisorTypeOK, Begin, workerVars
<1>2. SupervisorTypeOK' /\ OfflineIsQuiet' /\ SessionsKnown' /\ got' \in RoundAnswer
  <2>1. got' \in RoundAnswer
    BY <1>1 DEF RoundAnswer
  <2> QED
    BY <1>1, <2>1, WorkStays DEF SupervisorInv, SupervisorTypeOK, OfflineIsQuiet, SessionsKnown
<1>3. seen' <= posted' /\ GotKnows'
  BY <1>1, <1>2, SlotCounts, WorkStays DEF GotKnows
<1> QED
  BY <1>1, <1>2, <1>3, RoundRests

LEMMA ReadPlansInv ==
  ASSUME SupervisorInv, ReadPlans
  PROVE  SupervisorInv'
<1>1. /\ UNCHANGED <<job, strayed, posted, stage, seen, counted, transport, asked, again, run, claimed, started,
                     session, life, why, aborted, miscounted, troubles>>
      /\ stage = "reading" /\ got \in RoundAnswer /\ seen <= posted
      /\ got' = [got EXCEPT !.read = @ \cup {"plans"}, !.pending = Pending, !.live = PlanIsLive]
  BY DEF SupervisorInv, GotKnows, ReadPlans, Reads, workerVars
<1>2. Pending \in Nat /\ PlanIsLive \in BOOLEAN
  BY SlotCounts DEF PlanIsLive
<1>3. got' \in RoundAnswer /\ got'.pending = Pending /\ got'.live = PlanIsLive /\ got'.events = got.events /\ "plans" \in got'.read
  BY <1>1, <1>2 DEF RoundAnswer
<1>4. SupervisorTypeOK' /\ OfflineIsQuiet' /\ SessionsKnown'
  BY <1>1, <1>3, WorkStays DEF SupervisorInv, SupervisorTypeOK, OfflineIsQuiet, SessionsKnown
<1>5. WorkIsShared' /\ StrayedAreHeld' /\ RunKnows'
  BY <1>1, RoundKeeps
<1>6. CountedIsKnown' /\ (transport = "endpoints" => ClaimableIsAnnounced)'
  BY <1>1, NoticeKeeps
<1>7. Pending > 0 => PlanIsLive
  <2>1. Pending # 0 => JobsIn({"waiting", "open"}) # {}
    BY FS_EmptySet DEF Pending
  <2> QED
    BY <1>2, <2>1 DEF PlanIsLive, JobsIn
<1>8. GotKnows'
  BY <1>1, <1>2, <1>3, <1>7, WorkStays DEF SupervisorInv, GotKnows
<1> QED
  BY <1>1, <1>4, <1>5, <1>6, <1>8 DEF SupervisorInv

LEMMA ReadEventsInv ==
  ASSUME SupervisorInv, ReadEvents
  PROVE  SupervisorInv'
<1>1. /\ UNCHANGED <<job, strayed, posted, stage, seen, counted, transport, asked, again, run, claimed, started,
                     session, life, why, aborted, miscounted, troubles>>
      /\ stage = "reading" /\ got \in RoundAnswer /\ seen <= posted /\ seen \in Nat /\ posted \in Nat
      /\ got' = [got EXCEPT !.read = @ \cup {"events"}, !.events = IF transport = "tick" THEN seen ELSE posted]
  BY DEF SupervisorInv, SupervisorTypeOK, GotKnows, ReadEvents, Reads, TickEvents, workerVars
<1>2. /\ got' \in RoundAnswer /\ got'.pending = got.pending /\ got'.live = got.live /\ got'.events <= posted
      /\ "plans" \in got.read => "plans" \in got'.read
      /\ "plans" \notin got.read => "plans" \notin got'.read
  <2> DEFINE e == IF transport = "tick" THEN seen ELSE posted
  <2>1. e \in Nat /\ e <= posted /\ got' = [got EXCEPT !.read = @ \cup {"events"}, !.events = e]
    BY <1>1
  <2> HIDE DEF e
  <2> QED
    BY <1>1, <2>1 DEF RoundAnswer
<1>4. SupervisorTypeOK' /\ OfflineIsQuiet' /\ SessionsKnown'
  BY <1>1, <1>2, WorkStays DEF SupervisorInv, SupervisorTypeOK, OfflineIsQuiet, SessionsKnown
<1>5. WorkIsShared' /\ StrayedAreHeld' /\ RunKnows'
  BY <1>1, RoundKeeps
<1>6. CountedIsKnown' /\ (transport = "endpoints" => ClaimableIsAnnounced)'
  BY <1>1, NoticeKeeps
<1>8. GotKnows'
  BY <1>1, <1>2, WorkStays DEF SupervisorInv, GotKnows, Calm
<1> QED
  BY <1>1, <1>4, <1>5, <1>6, <1>8 DEF SupervisorInv

LEMMA ReadReconcileInv ==
  ASSUME SupervisorInv, ReadReconcile
  PROVE  SupervisorInv'
<1>1. PICK lapsed \in SUBSET strayed :
        /\ strayed' = strayed \ lapsed
        /\ job' = [k \in Jobs |-> IF k \in lapsed THEN "open" ELSE job[k]]
        /\ got' = [got EXCEPT !.read = @ \cup {"reconcile"}, !.reclaimed = lapsed # {}]
  BY DEF ReadReconcile
<1>2. /\ UNCHANGED <<posted, stage, seen, counted, transport, asked, again, run, claimed, started,
                     session, life, why, aborted, miscounted, troubles>>
      /\ stage = "reading" /\ got \in RoundAnswer /\ seen <= posted /\ strayed \subseteq Jobs
      /\ job \in [Jobs -> {"absent", "waiting", "open", "held", "closed"}]
  BY DEF SupervisorInv, SupervisorTypeOK, GotKnows, ReadReconcile, Reads, workerVars
<1>3. /\ got' \in RoundAnswer /\ got'.pending = got.pending /\ got'.live = got.live /\ got'.events = got.events
      /\ "plans" \in got.read => "plans" \in got'.read
      /\ "plans" \notin got.read => "plans" \notin got'.read
  <2>1. (lapsed # {}) \in BOOLEAN
    OBVIOUS
  <2> QED
    BY <1>1, <1>2, <2>1 DEF RoundAnswer
<1>4. SupervisorTypeOK' /\ OfflineIsQuiet' /\ SessionsKnown'
  <2>1. Working' = Working
    BY <1>2 DEF Working
  <2>2. SupervisorTypeOK'
    BY <1>1, <1>2, <1>3 DEF SupervisorInv, SupervisorTypeOK
  <2> QED
    BY <1>2, <2>1, <2>2 DEF SupervisorInv, OfflineIsQuiet, SessionsKnown
<1>5. WorkIsShared' /\ StrayedAreHeld' /\ RunKnows'
  <2>1. \A k \in Jobs : k \notin lapsed => job'[k] = job[k]
    BY <1>1
  <2>2. \A k \in Jobs : k \notin strayed => job'[k] = job[k] /\ k \notin strayed'
    BY <1>1, <2>1
  <2>3. Working' = Working /\ Calm' = Calm
    BY <1>2 DEF Working, Calm
  <2>4. \A r \in Working : claimed[r] \in Jobs
    BY DEF SupervisorInv, SupervisorTypeOK, Working
  <2>5. WorkIsShared'
    BY <1>2, <2>2, <2>3, <2>4 DEF SupervisorInv, WorkIsShared
  <2>6. StrayedAreHeld'
    BY <1>1, <1>2, <2>1, <2>3 DEF SupervisorInv, StrayedAreHeld
  <2>7. run # NoRun /\ run.reply # NoJob => run.reply \in Jobs
    BY DEF SupervisorInv, SupervisorTypeOK, ScheduleRun
  <2>8. RunKnows'
    BY <1>2, <2>2, <2>3, <2>7 DEF SupervisorInv, RunKnows
  <2> QED
    BY <2>5, <2>6, <2>8
<1>6. CASE Calm
  <2>1. job' = job /\ strayed' = strayed
    BY <1>1, <1>2, <1>6 DEF SupervisorInv, StrayedAreHeld
  <2>2. CountedIsKnown' /\ (transport = "endpoints" => ClaimableIsAnnounced)'
    BY <1>2, <2>1, NoticeKeeps
  <2>3. GotKnows'
    BY <1>2, <1>3, <2>1, WorkStays DEF SupervisorInv, GotKnows, Calm
  <2> QED
    BY <1>2, <1>4, <1>5, <2>2, <2>3 DEF SupervisorInv
<1>7. CASE ~Calm
  <2>1. ~Calm' /\ (troubles' # 0 \/ aborted' = TRUE)
    BY <1>2, <1>7 DEF Calm, SupervisorInv, SupervisorTypeOK
  <2>2. CountedIsKnown' /\ ClaimableIsAnnounced'
    BY <2>1, NoPromise
  <2>3. GotKnows'
    BY <1>2, <1>3, <2>1 DEF SupervisorInv, GotKnows
  <2> QED
    BY <1>2, <1>4, <1>5, <2>2, <2>3 DEF SupervisorInv
<1> QED
  BY <1>6, <1>7

LEMMA ReadFailsInv ==
  ASSUME SupervisorInv, ReadFails
  PROVE  SupervisorInv'
<1>1. /\ UNCHANGED <<job, strayed, posted, seen, counted, transport, asked, again, run, claimed, started,
                     session, life, why, aborted, miscounted>>
      /\ stage' = "wait" /\ got' = NoAnswer /\ troubles \in Nat /\ troubles' = troubles + 1
  BY DEF SupervisorInv, SupervisorTypeOK, ReadFails, Stays, workerVars
<1>2. SupervisorTypeOK' /\ OfflineIsQuiet' /\ SessionsKnown'
  BY <1>1, WorkStays DEF SupervisorInv, SupervisorTypeOK, OfflineIsQuiet, SessionsKnown
<1>3. troubles' # 0
  BY <1>1
<1>4. WorkIsShared' /\ StrayedAreHeld' /\ RunKnows'
  BY <1>1, <1>3, RoundKeeps
<1>5. CountedIsKnown' /\ ClaimableIsAnnounced'
  BY <1>3, NoPromise
<1>6. seen' <= posted' /\ GotKnows'
  BY <1>1 DEF SupervisorInv, GotKnows
<1> QED
  BY <1>2, <1>4, <1>5, <1>6 DEF SupervisorInv

LEMMA ProcessInv ==
  ASSUME SupervisorInv, Process
  PROVE  SupervisorInv'
<1>1. /\ UNCHANGED <<job, strayed, posted, got, transport, again, run, claimed, started,
                     session, life, why, aborted, miscounted, troubles>>
      /\ stage = "reading" /\ stage' = "read" /\ got \in RoundAnswer /\ asked \in BOOLEAN /\ life \in {"on", "stopping", "off"}
      /\ seen' = got.events /\ counted' = got.pending
      /\ asked' = IF NeedsRing THEN Rings ELSE asked
  BY DEF SupervisorInv, SupervisorTypeOK, GotKnows, Process
<1>2. got.events \in Nat /\ got.pending \in Nat /\ got.live \in BOOLEAN /\ got.events <= posted
  BY <1>1 DEF SupervisorInv, GotKnows, RoundAnswer
<1>3. asked' \in BOOLEAN /\ (life # "on" => asked' = FALSE)
  BY <1>1 DEF SupervisorInv, SessionsKnown, Rings
<1>4. SupervisorTypeOK' /\ OfflineIsQuiet' /\ SessionsKnown'
  BY <1>1, <1>2, <1>3, WorkStays DEF SupervisorInv, SupervisorTypeOK, OfflineIsQuiet, SessionsKnown
<1>5. WorkIsShared' /\ StrayedAreHeld' /\ RunKnows'
  BY <1>1, RoundKeeps
<1>6. seen' <= posted' /\ GotKnows'
  BY <1>1, <1>2 DEF GotKnows
<1>7. /\ Pending' = Pending /\ Working' = Working /\ JobsIn({"open"})' = JobsIn({"open"}) /\ Calm' = Calm
      /\ Granted' = Granted /\ SlotToPass' = SlotToPass
  BY <1>1, WorkStays DEF Calm, Granted, SlotToPass
<1>8. Calm /\ miscounted = FALSE => counted' <= Pending
  BY <1>1 DEF SupervisorInv, GotKnows
<1>9. CountedIsKnown'
  <2>1. Pending \in Nat /\ Cardinality(Working) \in Nat /\ counted' \in Nat
    BY <1>1, <1>2, SlotCounts
  <2>2. Calm /\ miscounted = FALSE => counted' <= Pending + Cardinality(Working) + (IF Granted THEN 1 ELSE 0)
    BY <1>8, <2>1
  <2> QED
    BY <1>1, <1>7, <2>2 DEF CountedIsKnown
<1>10. (transport = "endpoints" => ClaimableIsAnnounced)'
  <2> SUFFICES ASSUME transport = "endpoints", JobsIn({"open"}) # {}, ~miscounted, troubles = 0, ~aborted
               PROVE  WillBeNoticed'
    BY <1>1, <1>7 DEF ClaimableIsAnnounced
  <2>1. WillBeNoticed
    BY DEF SupervisorInv, ClaimableIsAnnounced
  <2>2. CASE NeedsRing
    BY <1>1, <2>2 DEF WillBeNoticed, Rings
  <2>3. CASE ~NeedsRing
    <3>1. got.events <= seen /\ got.pending <= counted /\ asked' = asked
      <4>1. got.pending > 0 => got.live = TRUE
        BY <1>1 DEF SupervisorInv, GotKnows
      <4>2. seen \in Nat /\ counted \in Nat
        BY DEF SupervisorInv, SupervisorTypeOK
      <4> QED
        BY <1>1, <1>2, <2>3, <4>1, <4>2 DEF NeedsRing, AddedWork
    <3>2. Pending \in Nat /\ posted \in Nat /\ seen \in Nat /\ counted \in Nat
      BY SlotCounts DEF SupervisorInv, SupervisorTypeOK
    <3> QED
      BY <1>1, <1>2, <1>7, <2>1, <3>1, <3>2 DEF WillBeNoticed
  <2> QED
    BY <2>2, <2>3
<1> QED
  BY <1>4, <1>5, <1>6, <1>9, <1>10 DEF SupervisorInv

LEMMA PlanActiveInv ==
  ASSUME SupervisorInv, PlanActive
  PROVE  SupervisorInv'
<1>1. /\ UNCHANGED <<job, strayed, posted, seen, counted, transport, again, run, claimed, started,
                     aborted, miscounted, troubles>>
      /\ stage' = "presence" /\ got' = NoAnswer
  BY DEF PlanActive
<1>2. CASE Revives
  <2>1. life = "off" /\ life' = "on" /\ why' = "none" /\ session' = [s \in Slots |-> "new"] /\ asked' = TRUE
    BY <1>2 DEF PlanActive, Revives
  <2>2. run = NoRun /\ started = FALSE
    BY <2>1 DEF SupervisorInv, OfflineIsQuiet, SessionsKnown
  <2>3. SupervisorTypeOK'
    BY <1>1, <2>1 DEF SupervisorInv, SupervisorTypeOK
  <2>4. OfflineIsQuiet' /\ SessionsKnown'
    BY <1>1, <2>1, <2>2 DEF OfflineIsQuiet, SessionsKnown
  <2>5. WorkIsShared' /\ StrayedAreHeld' /\ RunKnows'
    BY <1>1, <2>2, RoundKeeps
  <2>6. seen' <= posted' /\ GotKnows'
    BY <1>1 DEF SupervisorInv, GotKnows
  <2>7. CountedIsKnown'
    BY <1>1, WorkStays DEF SupervisorInv, CountedIsKnown, Calm, Granted
  <2>8. ClaimableIsAnnounced'
    BY <2>1 DEF ClaimableIsAnnounced, WillBeNoticed
  <2> QED
    BY <2>3, <2>4, <2>5, <2>6, <2>7, <2>8 DEF SupervisorInv
<1>3. CASE ~Revives
  <2>1. UNCHANGED <<life, why, session, asked>>
    BY <1>3 DEF PlanActive
  <2>2. SupervisorTypeOK' /\ OfflineIsQuiet' /\ SessionsKnown'
    BY <1>1, <2>1, WorkStays DEF SupervisorInv, SupervisorTypeOK, OfflineIsQuiet, SessionsKnown
  <2>4. WorkIsShared' /\ StrayedAreHeld' /\ RunKnows'
    BY <1>1, <2>1, RoundKeeps
  <2>5. CountedIsKnown' /\ (transport = "endpoints" => ClaimableIsAnnounced)'
    BY <1>1, <2>1, NoticeKeeps
  <2>6. seen' <= posted' /\ GotKnows'
    BY <1>1 DEF SupervisorInv, GotKnows
  <2> QED
    BY <2>2, <2>4, <2>5, <2>6 DEF SupervisorInv
<1> QED
  BY <1>2, <1>3

\* The registrations of a round or of a schedule.
LEMMA RegistersIs ==
  ASSUME SupervisorInv, NEW upto \in 0..SlotCount, Registers(upto)
  PROVE  /\ session' \in [Slots -> {"new", "online", "ended"}] /\ started' \in BOOLEAN
         /\ started' = TRUE => \A s \in Slots : session'[s] = "online"
         /\ started = TRUE => started' = TRUE
         /\ upto = SlotCount => started' = TRUE
<1>1. CASE started
  BY <1>1 DEF Registers, SupervisorInv, SupervisorTypeOK, SessionsKnown
<1>2. CASE ~started
  <2>1. /\ session' = [s \in Slots |-> IF s <= upto THEN "online" ELSE session[s]]
        /\ started' = (upto = SlotCount) /\ session \in [Slots -> {"new", "online", "ended"}]
    BY <1>2 DEF Registers, SupervisorInv, SupervisorTypeOK
  <2>2. upto = SlotCount => \A s \in Slots : s <= upto
    BY SupervisorAssumption DEF Slots
  <2>3. session' \in [Slots -> {"new", "online", "ended"}]
    BY <2>1
  <2>4. started' = TRUE => \A s \in Slots : session'[s] = "online"
    BY <2>1, <2>2
  <2> QED
    BY <1>2, <2>1, <2>3, <2>4
<1> QED
  BY <1>1, <1>2

LEMMA PresenceInv ==
  ASSUME SupervisorInv, NEW upto \in 0..SlotCount, Presence(upto)
  PROVE  SupervisorInv'
<1>1. /\ UNCHANGED <<job, strayed, posted, got, seen, counted, transport, asked, again, run,
                     claimed, life, why, aborted, miscounted>>
      /\ stage' = "call" /\ troubles \in Nat
  BY DEF Presence, SupervisorInv, SupervisorTypeOK
<1>2. /\ session' \in [Slots -> {"new", "online", "ended"}] /\ started' \in BOOLEAN
      /\ started' = TRUE => \A s \in Slots : session'[s] = "online"
      /\ started = TRUE => started' = TRUE
      /\ life = "off" => UNCHANGED <<session, started>>
  BY RegistersIs DEF Presence, Alive, SupervisorInv, SupervisorTypeOK, SessionsKnown
<1>3. troubles' = troubles \/ troubles' = troubles + 1
  BY DEF Presence, Stays
<1>4. SupervisorTypeOK' /\ OfflineIsQuiet' /\ SessionsKnown'
  <2>1. troubles' \in Nat
    BY <1>1, <1>3
  <2> QED
    BY <1>1, <1>2, <2>1, WorkStays DEF SupervisorInv, SupervisorTypeOK, OfflineIsQuiet, SessionsKnown
<1>5. WorkIsShared' /\ StrayedAreHeld' /\ RunKnows'
  <2>1. UNCHANGED <<troubles, aborted>> \/ troubles' # 0
    BY <1>1, <1>3
  <2> QED
    BY <1>1, <1>2, <2>1, RoundKeeps
<1>6. seen' <= posted' /\ GotKnows'
  BY <1>1 DEF SupervisorInv, GotKnows
<1>7. CASE troubles' = troubles
  <2>1. CountedIsKnown' /\ (transport = "endpoints" => ClaimableIsAnnounced)'
    BY <1>1, <1>7, NoticeKeeps
  <2> QED
    BY <1>4, <1>5, <1>6, <2>1 DEF SupervisorInv
<1>8. CASE troubles' = troubles + 1
  <2>1. troubles' # 0
    BY <1>1, <1>8
  <2>2. CountedIsKnown' /\ ClaimableIsAnnounced'
    BY <2>1, NoPromise
  <2> QED
    BY <1>4, <1>5, <1>6, <2>2 DEF SupervisorInv
<1> QED
  BY <1>3, <1>7, <1>8

\* A schedule begins, with its doorbell taken down.
LEMMA NewRunIs ==
  ASSUME SupervisorInv, NEW owner \in {"round", "microtask"}, MayRun,
         UNCHANGED <<job, strayed, posted, got, seen, counted, transport, claimed, started, session, life, why,
                     aborted, miscounted, troubles>>,
         asked' = FALSE, run' = NewRun(owner), again' \in BOOLEAN,
         stage' \in {"wait", "reading", "read", "presence", "call", "await", "closing", "rest"},
         stage' # "reading" \/ stage' = stage
  PROVE  SupervisorInv'
<1>1. /\ run' \in ScheduleRun /\ run' # NoRun /\ run'.at = 0 /\ run'.busy = FALSE /\ run'.reply = NoJob
  <2>1. run' = [at |-> 0, owner |-> owner, reply |-> NoJob, busy |-> FALSE]
    BY DEF NewRun
  <2>2. run' \in ScheduleRun
    BY <2>1 DEF ScheduleRun
  <2>3. run' # NoRun
    BY <2>2, SupervisorAssumption
  <2>4. run'.at = 0 /\ run'.busy = FALSE /\ run'.reply = NoJob
    BY <2>1
  <2> QED
    BY <2>2, <2>3, <2>4
<1>2. life = "on" /\ run = NoRun /\ aborted = FALSE
  BY DEF MayRun, Alive, SupervisorInv, SupervisorTypeOK
<1>3. Pending' = Pending /\ Working' = Working /\ JobsIn({"open"})' = JobsIn({"open"}) /\ Calm' = Calm
  BY WorkStays DEF Calm
<1>4. SupervisorTypeOK' /\ OfflineIsQuiet' /\ SessionsKnown'
  BY <1>1, <1>2 DEF SupervisorInv, SupervisorTypeOK, OfflineIsQuiet, SessionsKnown
<1>5. WorkIsShared' /\ StrayedAreHeld' /\ RunKnows'
  BY <1>1, <1>3 DEF SupervisorInv, WorkIsShared, StrayedAreHeld, RunKnows
<1>6. seen' <= posted' /\ GotKnows'
  BY <1>3 DEF SupervisorInv, GotKnows
<1>7. ~Granted /\ ~Granted' /\ SlotToPass'
  BY <1>1, <1>2, SupervisorAssumption DEF Granted, SlotToPass
<1>8. CountedIsKnown'
  BY <1>3, <1>7 DEF SupervisorInv, CountedIsKnown
<1>9. ClaimableIsAnnounced'
  BY <1>7 DEF ClaimableIsAnnounced, WillBeNoticed
<1> QED
  BY <1>4, <1>5, <1>6, <1>8, <1>9 DEF SupervisorInv

LEMMA CallScheduleInv ==
  ASSUME SupervisorInv, CallSchedule
  PROVE  SupervisorInv'
<1>1. /\ UNCHANGED <<job, strayed, posted, got, seen, counted, transport, again, claimed, started,
                     session, life, why, aborted, miscounted, troubles>>
      /\ again \in BOOLEAN /\ stage' \in {"await", "wait"}
  BY DEF CallSchedule, SupervisorInv, SupervisorTypeOK
<1>2. CASE MayRun
  BY <1>1, <1>2, NewRunIs DEF CallSchedule
<1>3. CASE ~MayRun
  <2>1. UNCHANGED <<asked, run>>
    BY <1>3 DEF CallSchedule
  <2>2. SupervisorTypeOK' /\ OfflineIsQuiet' /\ SessionsKnown'
    BY <1>1, <2>1, WorkStays DEF SupervisorInv, SupervisorTypeOK, OfflineIsQuiet, SessionsKnown
  <2>3. WorkIsShared' /\ StrayedAreHeld' /\ RunKnows'
    BY <1>1, <2>1, RoundKeeps
  <2>4. CountedIsKnown' /\ (transport = "endpoints" => ClaimableIsAnnounced)'
    BY <1>1, <2>1, NoticeKeeps
  <2>5. seen' <= posted' /\ GotKnows'
    BY <1>1 DEF SupervisorInv, GotKnows
  <2> QED
    BY <2>2, <2>3, <2>4, <2>5 DEF SupervisorInv
<1> QED
  BY <1>2, <1>3

LEMMA MicrotaskInv ==
  ASSUME SupervisorInv, Microtask
  PROVE  SupervisorInv'
<1>1. /\ UNCHANGED <<job, strayed, posted, stage, got, seen, counted, transport, claimed, started,
                     session, life, why, aborted, miscounted, troubles>>
      /\ again' = FALSE
      /\ stage \in {"wait", "reading", "read", "presence", "call", "await", "closing", "rest"}
  BY DEF Microtask, SupervisorInv, SupervisorTypeOK, roundVars
<1>2. CASE MayRun
  BY <1>1, <1>2, NewRunIs DEF Microtask
<1>3. CASE ~MayRun
  <2>1. UNCHANGED <<asked, run>>
    BY <1>3 DEF Microtask
  <2>2. SupervisorTypeOK' /\ OfflineIsQuiet' /\ SessionsKnown'
    BY <1>1, <2>1, WorkStays DEF SupervisorInv, SupervisorTypeOK, OfflineIsQuiet, SessionsKnown
  <2>3. WorkIsShared' /\ StrayedAreHeld' /\ RunKnows'
    BY <1>1, <2>1, RoundKeeps
  <2>4. CountedIsKnown' /\ (transport = "endpoints" => ClaimableIsAnnounced)'
    BY <1>1, <2>1, NoticeKeeps
  <2>5. seen' <= posted' /\ GotKnows'
    BY <1>1, WorkStays DEF SupervisorInv, GotKnows, Calm
  <2> QED
    BY <2>2, <2>3, <2>4, <2>5 DEF SupervisorInv
<1> QED
  BY <1>2, <1>3

LEMMA StopInv ==
  ASSUME SupervisorInv, PlanClosed \/ Stop
  PROVE  SupervisorInv'
<1>1. /\ UNCHANGED <<job, strayed, posted, seen, counted, transport, again, run, claimed, started,
                     session, aborted, miscounted, troubles>>
      /\ stage' = "closing" /\ got' \in {got, NoAnswer} /\ asked' = FALSE
      /\ life' \in {"stopping", "off"} /\ why' \in {"none", "terminal", "signal"}
      /\ (life' = "off" <=> life = "off")
  BY DEF SupervisorInv, SupervisorTypeOK, PlanClosed, Stop
<1>2. SupervisorTypeOK' /\ OfflineIsQuiet' /\ SessionsKnown'
  BY <1>1, WorkStays DEF SupervisorInv, SupervisorTypeOK, OfflineIsQuiet, SessionsKnown
<1>3. seen' <= posted' /\ GotKnows'
  BY <1>1 DEF SupervisorInv, GotKnows
<1> QED
  BY <1>1, <1>2, <1>3, RoundRests

LEMMA GoOfflineInv ==
  ASSUME SupervisorInv, GoOffline
  PROVE  SupervisorInv'
<1>1. /\ UNCHANGED <<job, strayed, posted, stage, got, seen, counted, transport, asked, again, run, claimed, why,
                     aborted, miscounted, troubles>>
      /\ life = "stopping" /\ life' = "off" /\ started' = FALSE /\ run = NoRun /\ Working = {}
      /\ session' = [s \in Slots |-> IF session[s] = "online" THEN "ended" ELSE session[s]]
      /\ asked = FALSE /\ session \in [Slots -> {"new", "online", "ended"}]
  BY DEF SupervisorInv, SupervisorTypeOK, SessionsKnown, GoOffline, Drained, roundVars
<1>2. SupervisorTypeOK' /\ OfflineIsQuiet' /\ SessionsKnown'
  BY <1>1, WorkStays DEF SupervisorInv, SupervisorTypeOK, OfflineIsQuiet, SessionsKnown
<1>3. seen' <= posted' /\ GotKnows'
  BY <1>1, WorkStays DEF SupervisorInv, GotKnows, Calm
<1> QED
  BY <1>1, <1>2, <1>3, RoundRests

LEMMA EndLoopInv ==
  ASSUME SupervisorInv, EndLoop
  PROVE  SupervisorInv'
<1>1. /\ UNCHANGED <<job, strayed, posted, got, seen, counted, transport, asked, again, run, claimed, started,
                     session, life, why, aborted, miscounted, troubles>>
      /\ stage' \in {"rest", "wait"}
  BY DEF EndLoop, workerVars
<1>2. SupervisorTypeOK' /\ OfflineIsQuiet' /\ SessionsKnown'
  BY <1>1, WorkStays DEF SupervisorInv, SupervisorTypeOK, OfflineIsQuiet, SessionsKnown
<1>3. seen' <= posted' /\ GotKnows'
  BY <1>1 DEF SupervisorInv, GotKnows
<1> QED
  BY <1>1, <1>2, <1>3, RoundRests

LEMMA SignalInv ==
  ASSUME SupervisorInv, Signal
  PROVE  SupervisorInv'
<1>1. /\ UNCHANGED <<job, strayed, posted, stage, got, seen, counted, transport, asked, again, run, claimed, started,
                     session, life, why, miscounted, troubles>>
      /\ aborted' = TRUE
  BY DEF Signal, workerVars, roundVars
<1>2. SupervisorTypeOK' /\ OfflineIsQuiet' /\ SessionsKnown'
  BY <1>1, WorkStays DEF SupervisorInv, SupervisorTypeOK, OfflineIsQuiet, SessionsKnown
<1>4. WorkIsShared' /\ StrayedAreHeld' /\ RunKnows'
  BY <1>1, RoundKeeps
<1>5. CountedIsKnown' /\ ClaimableIsAnnounced' /\ ~Calm'
  BY <1>1, NoPromise
<1>6. seen' <= posted' /\ GotKnows'
  BY <1>1, <1>5 DEF SupervisorInv, GotKnows
<1> QED
  BY <1>2, <1>4, <1>5, <1>6 DEF SupervisorInv

\* What the end of a schedule comes to.
LEMMA ReturnsIs ==
  ASSUME SupervisorInv, run # NoRun, Returns
  PROVE  /\ run' = NoRun /\ again' \in BOOLEAN
         /\ stage' = stage \/ stage' = "wait"
BY DEF Returns, Alive, SupervisorInv, SupervisorTypeOK

LEMMA RunRegistersInv ==
  ASSUME SupervisorInv, NEW upto \in 0..SlotCount, RunRegisters(upto)
  PROVE  SupervisorInv'
<1>1. /\ UNCHANGED <<job, posted, got, seen, counted, transport, asked, life, why, aborted, miscounted>>
      /\ run # NoRun /\ run.at = 0 /\ run \in ScheduleRun /\ troubles \in Nat
      /\ life \in {"on", "stopping", "off"} /\ life # "off"
  BY DEF RunRegisters, SupervisorInv, SupervisorTypeOK, OfflineIsQuiet
<1>2. /\ session' \in [Slots -> {"new", "online", "ended"}] /\ started' \in BOOLEAN
      /\ started' = TRUE => \A s \in Slots : session'[s] = "online"
      /\ life = "on" /\ upto = SlotCount => started' = TRUE
      /\ started = TRUE => started' = TRUE
  BY <1>1, RegistersIs DEF RunRegisters, SupervisorInv, SupervisorTypeOK, SessionsKnown
<1>3. run.busy = FALSE /\ run.reply = NoJob
  <2>1. run.busy \in BOOLEAN /\ 0 \notin Slots
    BY <1>1 DEF ScheduleRun, Slots
  <2> QED
    BY <1>1, <2>1 DEF SupervisorInv, RunKnows
<1>4. CASE upto = SlotCount
  <2>1. /\ run' = [run EXCEPT !.at = 1] /\ UNCHANGED <<stage, again, claimed, strayed>> /\ troubles' = troubles
    BY <1>4 DEF RunRegisters, Stays
  <2>2. /\ run' \in ScheduleRun /\ run' # NoRun /\ run'.at = 1 /\ run'.busy = FALSE /\ run'.reply = NoJob
    BY <1>1, <1>3, <2>1, SupervisorAssumption DEF ScheduleRun
  <2>3. Pending' = Pending /\ Working' = Working /\ JobsIn({"open"})' = JobsIn({"open"}) /\ Calm' = Calm
    BY <1>1, <2>1, WorkStays DEF Calm
  <2>4. SupervisorTypeOK' /\ OfflineIsQuiet' /\ SessionsKnown'
    BY <1>1, <1>2, <2>1, <2>2 DEF SupervisorInv, SupervisorTypeOK, OfflineIsQuiet, SessionsKnown
  <2>5. WorkIsShared' /\ StrayedAreHeld' /\ RunKnows'
    BY <1>1, <1>2, <1>4, <2>1, <2>2, <2>3 DEF SupervisorInv, WorkIsShared, StrayedAreHeld, RunKnows
  <2>6. seen' <= posted' /\ GotKnows'
    BY <1>1, <2>1, <2>3 DEF SupervisorInv, GotKnows
  <2>7. ~Granted /\ ~Granted' /\ SlotToPass'
    BY <1>3, <2>2, SupervisorAssumption DEF Granted, SlotToPass
  <2>8. CountedIsKnown'
    BY <1>1, <2>1, <2>3, <2>7 DEF SupervisorInv, CountedIsKnown
  <2>9. ClaimableIsAnnounced'
    BY <2>7 DEF ClaimableIsAnnounced, WillBeNoticed
  <2> QED
    BY <2>4, <2>5, <2>6, <2>8, <2>9 DEF SupervisorInv
<1>5. CASE upto # SlotCount
  <2>1. troubles' = troubles + 1 /\ troubles' # 0
    BY <1>1, <1>5 DEF RunRegisters, Stays
  <2>2. /\ run' = NoRun /\ again' \in BOOLEAN
        /\ stage' \in {stage, "wait", "rest"}
        /\ \/ UNCHANGED <<claimed, strayed>>
           \/ claimed' = [s \in Slots |-> NoJob] /\ strayed' = strayed \cup {claimed[s] : s \in Working}
    BY <1>1, <1>5, ReturnsIs DEF RunRegisters
  <2>3. (Working' = Working /\ UNCHANGED <<claimed, strayed>>) \/ Working' = {}
    BY <2>2 DEF Working
  <2>4. SupervisorTypeOK'
    <3>1. \A s \in Working : claimed[s] \in Jobs
      BY DEF SupervisorInv, SupervisorTypeOK, Working
    <3>2. claimed' \in [Slots -> Jobs \cup {NoJob}] /\ strayed' \subseteq Jobs
      BY <2>2, <3>1 DEF SupervisorInv, SupervisorTypeOK
    <3> QED
      BY <1>1, <1>2, <2>1, <2>2, <3>2 DEF SupervisorInv, SupervisorTypeOK
  <2>5. OfflineIsQuiet' /\ SessionsKnown'
    BY <1>1, <1>2 DEF SupervisorInv, OfflineIsQuiet, SessionsKnown
  <2>6. CountedIsKnown' /\ ClaimableIsAnnounced' /\ ~Calm'
    BY <2>1, NoPromise
  <2>7. WorkIsShared' /\ StrayedAreHeld'
    <3>1. CASE UNCHANGED <<claimed, strayed>>
      BY <1>1, <2>6, <3>1, WorkStays DEF SupervisorInv, WorkIsShared, StrayedAreHeld
    <3>2. CASE Working' = {} /\ strayed' = strayed \cup {claimed[s] : s \in Working}
      <4>1. Cardinality(Working') = 0
        BY <3>2, FS_EmptySet
      <4> QED
        BY <1>1, <2>6, <3>2, <4>1, SupervisorAssumption DEF SupervisorInv, WorkIsShared, StrayedAreHeld
    <3> QED
      BY <2>2, <3>1, <3>2 DEF Working
  <2>8. seen' <= posted' /\ GotKnows' /\ RunKnows'
    BY <1>1, <2>2, <2>6 DEF SupervisorInv, GotKnows, RunKnows
  <2> QED
    BY <2>4, <2>5, <2>6, <2>7, <2>8 DEF SupervisorInv
<1> QED
  BY <1>4, <1>5

LEMMA ScheduleEndsInv ==
  ASSUME SupervisorInv, ScheduleEnds
  PROVE  SupervisorInv'
<1>1. /\ UNCHANGED <<job, strayed, posted, got, seen, counted, transport, asked, claimed, started,
                     session, life, why, aborted, miscounted, troubles>>
      /\ run # NoRun /\ run.busy = FALSE /\ Ends /\ run.reply = NoJob /\ run.at \in Nat
  BY DEF ScheduleEnds, SupervisorInv, SupervisorTypeOK, RunKnows, ScheduleRun
<1>2. /\ run' = NoRun /\ again' \in BOOLEAN /\ (stage' = stage \/ stage' = "wait")
  BY <1>1, ReturnsIs DEF ScheduleEnds
<1>3. Pending' = Pending /\ Working' = Working /\ JobsIn({"open"})' = JobsIn({"open"}) /\ Calm' = Calm
  BY <1>1, WorkStays DEF Calm
<1>4. SupervisorTypeOK' /\ OfflineIsQuiet' /\ SessionsKnown'
  BY <1>1, <1>2, <1>3 DEF SupervisorInv, SupervisorTypeOK, OfflineIsQuiet, SessionsKnown
<1>5. WorkIsShared' /\ StrayedAreHeld' /\ RunKnows'
  BY <1>1, <1>2, <1>3 DEF SupervisorInv, WorkIsShared, StrayedAreHeld, RunKnows
<1>6. seen' <= posted' /\ GotKnows'
  BY <1>1, <1>2, <1>3 DEF SupervisorInv, GotKnows
<1>7. ~Granted /\ ~Granted'
  BY <1>1, <1>2 DEF Granted
<1>8. CountedIsKnown'
  BY <1>1, <1>3, <1>7 DEF SupervisorInv, CountedIsKnown
<1>9. (transport = "endpoints" => ClaimableIsAnnounced)'
  <2> SUFFICES ASSUME transport = "endpoints", JobsIn({"open"}) # {}, ~miscounted, troubles = 0, ~aborted
               PROVE  WillBeNoticed'
    BY <1>1, <1>3 DEF ClaimableIsAnnounced
  <2>1. WillBeNoticed
    BY DEF SupervisorInv, ClaimableIsAnnounced
  <2>2. CASE run.at > SlotCount
    <3>1. ~SlotToPass
      BY <1>1, <2>2, SupervisorAssumption DEF SlotToPass
    <3> QED
      BY <1>1, <1>3, <1>7, <2>1, <3>1 DEF WillBeNoticed
  <2>3. CASE life # "on"
    BY <1>1, <2>3 DEF WillBeNoticed
  <2>4. CASE Cardinality(Working) >= Cap
    <3>1. Working # {}
      BY <2>4, FS_EmptySet, SupervisorAssumption
    <3> QED
      BY <1>3, <3>1 DEF WillBeNoticed
  <2> QED
    BY <1>1, <2>2, <2>3, <2>4 DEF Ends, Alive
<1> QED
  BY <1>4, <1>5, <1>6, <1>8, <1>9 DEF SupervisorInv

\* A schedule that is not through has a slot of the coordinator before it.
LEMMA SlotAhead ==
  ASSUME SupervisorInv, run # NoRun, run.at > 0, ~run.busy, ~Ends
  PROVE  /\ run \in ScheduleRun /\ run.at \in Slots /\ run.busy = FALSE /\ run.reply = NoJob
         /\ life = "on" /\ aborted = FALSE /\ Cardinality(Working) < Cap
         /\ started = TRUE /\ session[run.at] = "online"
<1>1. run \in ScheduleRun /\ run.at \in Nat /\ run.busy = FALSE /\ aborted \in BOOLEAN
  BY DEF SupervisorInv, SupervisorTypeOK, ScheduleRun
<1>2. run.at \in Slots
  BY <1>1, SupervisorAssumption DEF Ends, Slots
<1>3. life = "on" /\ aborted = FALSE /\ Cardinality(Working) < Cap
  BY <1>1, SlotCounts, SupervisorAssumption DEF Ends, Alive
<1> QED
  BY <1>1, <1>2, <1>3 DEF SupervisorInv, RunKnows, SessionsKnown

LEMMA SkipBusyInv ==
  ASSUME SupervisorInv, SkipBusy
  PROVE  SupervisorInv'
<1>1. /\ UNCHANGED <<job, strayed, posted, stage, got, seen, counted, transport, asked, again, claimed, started,
                     session, life, why, aborted, miscounted, troubles>>
      /\ run # NoRun /\ run' = [run EXCEPT !.at = @ + 1] /\ claimed[run.at] # NoJob
  BY DEF SkipBusy, roundVars
<1>2. /\ run \in ScheduleRun /\ run.at \in Slots /\ run.busy = FALSE /\ run.reply = NoJob /\ started = TRUE
      /\ life = "on"
  BY SlotAhead DEF SkipBusy
<1>3. /\ run' \in ScheduleRun /\ run' # NoRun /\ run'.busy = FALSE /\ run'.reply = NoJob
  BY <1>1, <1>2, SupervisorAssumption DEF ScheduleRun
<1>4. Pending' = Pending /\ Working' = Working /\ JobsIn({"open"})' = JobsIn({"open"}) /\ Calm' = Calm /\ Working # {}
  BY <1>1, <1>2, WorkStays DEF Calm, Working
<1>5. SupervisorTypeOK' /\ OfflineIsQuiet' /\ SessionsKnown'
  BY <1>1, <1>2, <1>3 DEF SupervisorInv, SupervisorTypeOK, OfflineIsQuiet, SessionsKnown
<1>6. WorkIsShared' /\ StrayedAreHeld' /\ RunKnows'
  BY <1>1, <1>2, <1>3, <1>4 DEF SupervisorInv, WorkIsShared, StrayedAreHeld, RunKnows
<1>7. seen' <= posted' /\ GotKnows'
  BY <1>1, <1>4 DEF SupervisorInv, GotKnows
<1>8. CountedIsKnown'
  BY <1>1, <1>2, <1>3, <1>4 DEF SupervisorInv, CountedIsKnown, Granted
<1>9. ClaimableIsAnnounced'
  BY <1>4 DEF ClaimableIsAnnounced, WillBeNoticed
<1> QED
  BY <1>5, <1>6, <1>7, <1>8, <1>9 DEF SupervisorInv

LEMMA SendClaimInv ==
  ASSUME SupervisorInv, SendClaim
  PROVE  SupervisorInv'
<1>1. /\ UNCHANGED <<strayed, posted, stage, got, seen, counted, transport, asked, again, claimed, started, session,
                     life, why, aborted, troubles>>
      /\ run # NoRun /\ claimed[run.at] = NoJob /\ job \in [Jobs -> {"absent", "waiting", "open", "held", "closed"}]
  BY DEF SendClaim, roundVars, SupervisorInv, SupervisorTypeOK
<1>2. /\ run \in ScheduleRun /\ run.at \in Slots /\ run.busy = FALSE /\ run.reply = NoJob /\ started = TRUE
      /\ life = "on" /\ session[run.at] = "online" /\ Cardinality(Working) < Cap
  BY SlotAhead DEF SendClaim
<1>3. Working' = Working /\ Calm' = Calm /\ ~Granted
  BY <1>1, <1>2 DEF Working, Calm, Granted
<1>4. CASE run' = [run EXCEPT !.busy = TRUE] /\ JobsIn({"open"}) = {} /\ UNCHANGED <<job, miscounted>>
  <2>1. run' \in ScheduleRun /\ run' # NoRun /\ run'.busy = TRUE /\ run'.reply = NoJob /\ run'.at = run.at
    BY <1>2, <1>4, SupervisorAssumption DEF ScheduleRun
  <2>2. Pending' = Pending /\ JobsIn({"open"})' = {}
    BY <1>1, <1>4, WorkStays
  <2>3. SupervisorTypeOK' /\ OfflineIsQuiet' /\ SessionsKnown'
    BY <1>1, <1>2, <1>4, <2>1 DEF SupervisorInv, SupervisorTypeOK, OfflineIsQuiet, SessionsKnown
  <2>4. WorkIsShared' /\ StrayedAreHeld' /\ RunKnows'
    BY <1>1, <1>2, <1>3, <1>4, <2>1 DEF SupervisorInv, WorkIsShared, StrayedAreHeld, RunKnows
  <2>5. seen' <= posted' /\ GotKnows'
    BY <1>1, <1>3, <1>4, <2>2 DEF SupervisorInv, GotKnows
  <2>6. CountedIsKnown' /\ ClaimableIsAnnounced'
    BY <1>1, <1>3, <1>4, <2>1, <2>2 DEF SupervisorInv, CountedIsKnown, Granted, ClaimableIsAnnounced
  <2> QED
    BY <2>3, <2>4, <2>5, <2>6 DEF SupervisorInv
<1>5. ASSUME NEW j \in JobsIn({"open"}),
             job' = [job EXCEPT ![j] = "held"], run' = [run EXCEPT !.busy = TRUE, !.reply = j],
             miscounted' = (miscounted \/ (stage = "reading" /\ "plans" \in got.read))
      PROVE  SupervisorInv'
  <2>1. j \in Jobs /\ job[j] = "open"
    BY DEF JobsIn
  <2>2. run' \in ScheduleRun /\ run' # NoRun /\ run'.busy = TRUE /\ run'.reply = j /\ run'.at = run.at /\ j # NoJob
    BY <1>2, <1>5, <2>1, SupervisorAssumption DEF ScheduleRun
  <2>3. job'[j] = "held" /\ \A k \in Jobs \ {j} : job'[k] = job[k]
    BY <1>1, <1>5, <2>1
  <2>4. Pending \in Nat /\ Pending' \in Nat /\ Pending' = Pending - 1
    <3>1. JobsIn({"waiting", "open"})' = JobsIn({"waiting", "open"}) \ {j} /\ j \in JobsIn({"waiting", "open"})
      BY <2>1, <2>3 DEF JobsIn
    <3>2. IsFiniteSet(JobsIn({"waiting", "open"}))
      BY SlotCounts
    <3>3. Cardinality(JobsIn({"waiting", "open"}) \ {j}) = Cardinality(JobsIn({"waiting", "open"})) - 1
      BY <3>1, <3>2, FS_RemoveElement
    <3>4. Cardinality(JobsIn({"waiting", "open"}) \ {j}) \in Nat
      BY <3>2, FS_RemoveElement, FS_CardinalityType
    <3> QED
      BY <3>1, <3>3, <3>4, SlotCounts DEF Pending
  <2>5. miscounted' \in BOOLEAN /\ (miscounted' = FALSE => miscounted = FALSE /\ ~(stage = "reading" /\ "plans" \in got.read))
    BY <1>5 DEF SupervisorInv, SupervisorTypeOK
  <2>6. SupervisorTypeOK' /\ OfflineIsQuiet' /\ SessionsKnown'
    <3>1. job' \in [Jobs -> {"absent", "waiting", "open", "held", "closed"}]
      BY <1>1, <1>5
    <3> QED
      BY <1>1, <1>2, <2>2, <2>5, <3>1 DEF SupervisorInv, SupervisorTypeOK, OfflineIsQuiet, SessionsKnown
  <2>7. \A s \in Working : claimed[s] # j /\ claimed[s] \in Jobs
    BY <2>1 DEF SupervisorInv, SupervisorTypeOK, WorkIsShared, Working
  <2>8. j \notin strayed /\ strayed \subseteq Jobs
    BY <2>1 DEF SupervisorInv, SupervisorTypeOK, StrayedAreHeld
  <2>9. WorkIsShared' /\ StrayedAreHeld'
    BY <1>1, <1>3, <2>3, <2>7, <2>8 DEF SupervisorInv, WorkIsShared, StrayedAreHeld
  <2>10. RunKnows'
    BY <1>1, <1>2, <1>3, <2>2, <2>3, <2>7, <2>8 DEF RunKnows
  <2>11. seen' <= posted' /\ GotKnows'
    BY <1>1, <1>3, <2>4, <2>5 DEF SupervisorInv, GotKnows
  <2>12. Granted'
    BY <2>2 DEF Granted
  <2>13. CountedIsKnown'
    <3>1. Pending \in Nat /\ Cardinality(Working) \in Nat /\ Pending' = Pending - 1
      BY <2>4, SlotCounts
    <3> QED
      BY <1>1, <1>3, <2>5, <2>12, <3>1 DEF SupervisorInv, CountedIsKnown
  <2>14. ClaimableIsAnnounced'
    BY <2>12 DEF ClaimableIsAnnounced, WillBeNoticed
  <2> QED
    BY <2>6, <2>9, <2>10, <2>11, <2>13, <2>14 DEF SupervisorInv
<1> QED
  BY <1>2, <1>4, <1>5 DEF SendClaim

\* What an answer on its way holds.
LEMMA AnswerIs ==
  ASSUME SupervisorInv, run # NoRun, run.busy
  PROVE  /\ run \in ScheduleRun /\ run.at \in Slots /\ run.at \in Nat /\ run.reply \in Jobs \cup {NoJob}
         /\ claimed[run.at] = NoJob /\ Cardinality(Working) < Cap
         /\ run.reply # NoJob => job[run.reply] = "held" /\ run.reply \notin strayed
                                 /\ \A s \in Working : claimed[s] # run.reply
BY DEF SupervisorInv, SupervisorTypeOK, RunKnows, ScheduleRun

LEMMA TakeAnswerInv ==
  ASSUME SupervisorInv, TakeAnswer
  PROVE  SupervisorInv'
<1>1. /\ UNCHANGED <<job, strayed, posted, stage, got, seen, counted, transport, asked, again, started, session, life,
                     why, aborted, miscounted, troubles>>
      /\ run # NoRun /\ run.busy
      /\ run' = [run EXCEPT !.busy = FALSE, !.reply = NoJob, !.at = @ + 1]
      /\ claimed' = [claimed EXCEPT ![run.at] = run.reply]
  BY DEF TakeAnswer, roundVars
<1>2. /\ run \in ScheduleRun /\ run.at \in Slots /\ run.at \in Nat /\ run.reply \in Jobs \cup {NoJob}
      /\ claimed[run.at] = NoJob /\ Cardinality(Working) < Cap
      /\ run.reply # NoJob => job[run.reply] = "held" /\ run.reply \notin strayed
                              /\ \A s \in Working : claimed[s] # run.reply
      /\ claimed \in [Slots -> Jobs \cup {NoJob}] /\ life # "off"
  BY <1>1, AnswerIs DEF SupervisorInv, SupervisorTypeOK, OfflineIsQuiet
<1>3. run' \in ScheduleRun /\ run' # NoRun /\ run'.busy = FALSE /\ run'.reply = NoJob /\ run'.at = run.at + 1
  <2> DEFINE n == run.at + 1
  <2>1. n \in Nat /\ run' = [run EXCEPT !.busy = FALSE, !.reply = NoJob, !.at = n]
    BY <1>1, <1>2
  <2>2. n = run.at + 1
    OBVIOUS
  <2> HIDE DEF n
  <2>3. run' \in ScheduleRun /\ run'.busy = FALSE /\ run'.reply = NoJob /\ run'.at = n
    BY <1>2, <2>1 DEF ScheduleRun
  <2> QED
    BY <2>2, <2>3, SupervisorAssumption
<1>4. Pending' = Pending /\ Calm' = Calm /\ JobsIn({"open"})' = JobsIn({"open"}) /\ ~Granted'
  BY <1>1, <1>3 DEF Pending, JobsIn, Calm, Granted
<1>5. claimed'[run.at] = run.reply /\ \A s \in Slots \ {run.at} : claimed'[s] = claimed[s]
  BY <1>1, <1>2
<1>6. Working' = IF run.reply = NoJob THEN Working ELSE Working \cup {run.at}
  BY <1>2, <1>5 DEF Working
<1>7. Cardinality(Working') = IF run.reply = NoJob THEN Cardinality(Working) ELSE Cardinality(Working) + 1
  <2>1. run.at \notin Working /\ IsFiniteSet(Working)
    BY <1>2, SlotCounts DEF Working
  <2>2. Cardinality(Working \cup {run.at}) = Cardinality(Working) + 1
    BY <2>1, FS_AddElement
  <2> QED
    BY <1>6, <2>2
<1>8. SupervisorTypeOK' /\ OfflineIsQuiet' /\ SessionsKnown'
  BY <1>1, <1>2, <1>3 DEF SupervisorInv, SupervisorTypeOK, OfflineIsQuiet, SessionsKnown
<1>9. WorkIsShared'
  <2>1. Cardinality(Working') <= Cap
    BY <1>2, <1>7, SlotCounts, SupervisorAssumption
  <2>2. \A s \in Working' : job'[claimed'[s]] = "held" /\ claimed'[s] \notin strayed'
    BY <1>1, <1>2, <1>5, <1>6 DEF SupervisorInv, WorkIsShared, Working
  <2>3. \A r, s \in Working' : claimed'[r] = claimed'[s] => r = s
    BY <1>1, <1>2, <1>5, <1>6 DEF SupervisorInv, WorkIsShared, Working
  <2> QED
    BY <2>1, <2>2, <2>3 DEF WorkIsShared
<1>10. StrayedAreHeld' /\ RunKnows'
  BY <1>1, <1>2, <1>3, <1>4 DEF SupervisorInv, StrayedAreHeld, RunKnows, Slots
<1>11. seen' <= posted' /\ GotKnows'
  BY <1>1, <1>4 DEF SupervisorInv, GotKnows
<1>12. CountedIsKnown'
  <2>1. Granted <=> run.reply # NoJob
    BY <1>1 DEF Granted
  <2> QED
    BY <1>1, <1>4, <1>7, <2>1, SlotCounts DEF SupervisorInv, SupervisorTypeOK, CountedIsKnown
<1>13. (transport = "endpoints" => ClaimableIsAnnounced)'
  <2>1. CASE run.reply # NoJob
    <3>1. Working' # {}
      BY <1>6, <2>1
    <3> QED
      BY <3>1 DEF ClaimableIsAnnounced, WillBeNoticed
  <2>2. CASE run.reply = NoJob
    <3>1. ~Granted /\ Working' = Working
      BY <1>6, <2>2 DEF Granted
    <3>2. SlotToPass => SlotToPass'
      BY <1>1, <1>2, <1>3, SupervisorAssumption DEF SlotToPass
    <3> QED
      BY <1>1, <1>4, <3>1, <3>2 DEF SupervisorInv, ClaimableIsAnnounced, WillBeNoticed
  <2> QED
    BY <2>1, <2>2
<1> QED
  BY <1>8, <1>9, <1>10, <1>11, <1>12, <1>13 DEF SupervisorInv

LEMMA LoseAnswerInv ==
  ASSUME SupervisorInv, LoseAnswer
  PROVE  SupervisorInv'
<1>1. /\ UNCHANGED <<job, posted, stage, got, seen, counted, transport, asked, again, claimed, started, session, life,
                     why, aborted, miscounted>>
      /\ run # NoRun /\ run.busy /\ troubles' = troubles + 1 /\ troubles \in Nat
      /\ run' = [run EXCEPT !.busy = FALSE, !.reply = NoJob, !.at = @ + 1]
      /\ strayed' = strayed \cup ({run.reply} \ {NoJob})
  BY DEF LoseAnswer, roundVars, Stays, SupervisorInv, SupervisorTypeOK
<1>2. /\ run \in ScheduleRun /\ run.at \in Slots /\ run.at \in Nat /\ run.reply \in Jobs \cup {NoJob}
      /\ claimed[run.at] = NoJob /\ Cardinality(Working) < Cap
      /\ run.reply # NoJob => job[run.reply] = "held" /\ run.reply \notin strayed
                              /\ \A s \in Working : claimed[s] # run.reply
      /\ life # "off"
  BY <1>1, AnswerIs DEF SupervisorInv, OfflineIsQuiet
<1>3. run' \in ScheduleRun /\ run' # NoRun /\ run'.busy = FALSE /\ run'.reply = NoJob /\ run'.at = run.at + 1
  <2> DEFINE n == run.at + 1
  <2>1. n \in Nat /\ run' = [run EXCEPT !.busy = FALSE, !.reply = NoJob, !.at = n]
    BY <1>1, <1>2
  <2>2. n = run.at + 1
    OBVIOUS
  <2> HIDE DEF n
  <2>3. run' \in ScheduleRun /\ run'.busy = FALSE /\ run'.reply = NoJob /\ run'.at = n
    BY <1>2, <2>1 DEF ScheduleRun
  <2> QED
    BY <2>2, <2>3, SupervisorAssumption
<1>4. Working' = Working /\ troubles' # 0 /\ (\A s \in Working : claimed[s] # NoJob)
  BY <1>1 DEF Working
<1>5. CountedIsKnown' /\ ClaimableIsAnnounced' /\ ~Calm'
  BY <1>4, NoPromise
<1>6. SupervisorTypeOK' /\ OfflineIsQuiet' /\ SessionsKnown'
  BY <1>1, <1>2, <1>3 DEF SupervisorInv, SupervisorTypeOK, OfflineIsQuiet, SessionsKnown
<1>7. WorkIsShared' /\ StrayedAreHeld'
  BY <1>1, <1>2, <1>4, <1>5 DEF SupervisorInv, WorkIsShared, StrayedAreHeld
<1>8. RunKnows'
  BY <1>1, <1>2, <1>3 DEF SupervisorInv, RunKnows, Slots
<1>9. seen' <= posted' /\ GotKnows'
  BY <1>1, <1>5 DEF SupervisorInv, GotKnows
<1> QED
  BY <1>5, <1>6, <1>7, <1>8, <1>9 DEF SupervisorInv

LEMMA SettleInv ==
  ASSUME SupervisorInv, NEW s \in Slots, NEW reported \in BOOLEAN, Settle(s, reported)
  PROVE  SupervisorInv'
<1>1. /\ UNCHANGED <<stage, got, seen, counted, transport, again, run, started, session, life, why, aborted, miscounted>>
      /\ claimed[s] # NoJob /\ claimed' = [claimed EXCEPT ![s] = NoJob] /\ asked' = Rings
      /\ troubles' = (IF reported \/ aborted THEN troubles ELSE troubles + 1)
      /\ claimed \in [Slots -> Jobs \cup {NoJob}] /\ troubles \in Nat /\ aborted \in BOOLEAN
      /\ job \in [Jobs -> {"absent", "waiting", "open", "held", "closed"}] /\ posted \in Nat /\ seen \in Nat
      /\ strayed \subseteq Jobs /\ life \in {"on", "stopping", "off"} /\ asked \in BOOLEAN
  BY DEF Settle, roundVars, SupervisorInv, SupervisorTypeOK
<1>2. /\ claimed[s] \in Jobs /\ s \in Working /\ job[claimed[s]] = "held" /\ claimed[s] \notin strayed
      /\ \A r \in Working : claimed[r] = claimed[s] => r = s
  BY <1>1 DEF SupervisorInv, WorkIsShared, Working
<1>3. life # "off" /\ (\A r \in Slots \ {s} : claimed'[r] = claimed[r]) /\ claimed'[s] = NoJob
  BY <1>1, <1>2 DEF SupervisorInv, OfflineIsQuiet
<1>4. Working' = Working \ {s} /\ Cardinality(Working') = Cardinality(Working) - 1
  <2>1. Working' = Working \ {s}
    BY <1>3 DEF Working
  <2>2. IsFiniteSet(Working)
    BY SlotCounts
  <2> QED
    BY <1>2, <2>1, <2>2, FS_RemoveElement
<1>5. asked' \in BOOLEAN /\ (life # "on" => asked' = FALSE)
  BY <1>1 DEF Rings, SupervisorInv, SessionsKnown
<1>6. troubles' \in Nat
  BY <1>1
<1>7. run # NoRun /\ run.reply # NoJob =>
        /\ run.reply \in Jobs /\ run.reply # claimed[s] /\ job[run.reply] = "held" /\ run.reply \notin strayed
        /\ \A r \in Working : claimed[r] # run.reply
  BY <1>2 DEF SupervisorInv, SupervisorTypeOK, RunKnows, ScheduleRun
<1>8. CASE reported
  <2>1. job' = [job EXCEPT ![claimed[s]] = "closed"] /\ posted' = posted + 1 /\ strayed' = strayed /\ troubles' = troubles
    BY <1>1, <1>8 DEF Settle
  <2>2. \A k \in Jobs : k # claimed[s] => job'[k] = job[k]
    BY <1>1, <2>1
  <2>3. Pending' = Pending /\ Calm' = Calm
    <3>1. JobsIn({"waiting", "open"})' = JobsIn({"waiting", "open"})
      BY <1>1, <1>2, <2>1 DEF JobsIn
    <3> QED
      BY <1>1, <2>1, <3>1 DEF Pending, Calm
  <2>4. SupervisorTypeOK'
    BY <1>1, <1>5, <1>6, <2>1 DEF SupervisorInv, SupervisorTypeOK
  <2>5. OfflineIsQuiet' /\ SessionsKnown'
    BY <1>1, <1>3, <1>5 DEF SupervisorInv, OfflineIsQuiet, SessionsKnown
  <2>6. WorkIsShared'
    <3>1. Cardinality(Working') <= Cap
      BY <1>4, SlotCounts, SupervisorAssumption DEF SupervisorInv, WorkIsShared
    <3>2. \A r \in Working' : claimed'[r] = claimed[r] /\ claimed[r] \in Jobs /\ claimed[r] # claimed[s] /\ r \in Working
      BY <1>1, <1>2, <1>3, <1>4 DEF Working
    <3> QED
      BY <2>1, <2>2, <3>1, <3>2 DEF SupervisorInv, WorkIsShared
  <2>7. StrayedAreHeld'
    BY <1>1, <1>2, <2>1, <2>2, <2>3 DEF SupervisorInv, StrayedAreHeld
  <2>8. RunKnows'
    <3>1. run # NoRun /\ run.busy = TRUE => Cardinality(Working') < Cap /\ claimed'[run.at] = NoJob /\ run.at \in Slots
      BY <1>1, <1>3, <1>4, SlotCounts, SupervisorAssumption DEF SupervisorInv, RunKnows
    <3>2. run # NoRun /\ run.reply # NoJob => \A r \in Working' : claimed'[r] # run.reply
      BY <1>3, <1>4, <1>7 DEF Working
    <3> QED
      BY <1>1, <1>7, <2>1, <2>2, <3>1, <3>2 DEF SupervisorInv, RunKnows
  <2>9. seen' <= posted' /\ GotKnows' /\ posted' > seen'
    BY <1>1, <2>1, <2>3 DEF SupervisorInv, GotKnows, RoundAnswer
  <2>10. CountedIsKnown' /\ (transport = "endpoints" => ClaimableIsAnnounced)'
    BY <2>9 DEF CountedIsKnown, ClaimableIsAnnounced, WillBeNoticed
  <2> QED
    BY <2>4, <2>5, <2>6, <2>7, <2>8, <2>9, <2>10 DEF SupervisorInv
<1>9. CASE ~reported
  <2>1. strayed' = strayed \cup {claimed[s]} /\ UNCHANGED <<job, posted>>
    BY <1>9 DEF Settle
  <2>2. troubles' # 0 \/ aborted' = TRUE
    BY <1>1, <1>9
  <2>3. CountedIsKnown' /\ ClaimableIsAnnounced' /\ ~Calm'
    BY <2>2, NoPromise
  <2>4. SupervisorTypeOK'
    BY <1>1, <1>2, <1>5, <1>6, <2>1 DEF SupervisorInv, SupervisorTypeOK
  <2>5. OfflineIsQuiet' /\ SessionsKnown'
    BY <1>1, <1>3, <1>5 DEF SupervisorInv, OfflineIsQuiet, SessionsKnown
  <2>6. WorkIsShared'
    <3>1. Cardinality(Working') <= Cap
      BY <1>4, SlotCounts, SupervisorAssumption DEF SupervisorInv, WorkIsShared
    <3>2. \A r \in Working' : claimed'[r] = claimed[r] /\ claimed[r] # claimed[s] /\ r \in Working
      BY <1>1, <1>2, <1>3, <1>4 DEF Working
    <3> QED
      BY <2>1, <3>1, <3>2 DEF SupervisorInv, WorkIsShared
  <2>7. StrayedAreHeld'
    BY <1>2, <2>1, <2>3 DEF SupervisorInv, StrayedAreHeld
  <2>8. RunKnows'
    <3>1. run # NoRun /\ run.busy = TRUE => Cardinality(Working') < Cap /\ claimed'[run.at] = NoJob /\ run.at \in Slots
      BY <1>1, <1>3, <1>4, SlotCounts, SupervisorAssumption DEF SupervisorInv, RunKnows
    <3>2. run # NoRun /\ run.reply # NoJob => \A r \in Working' : claimed'[r] # run.reply
      BY <1>3, <1>4, <1>7 DEF Working
    <3> QED
      BY <1>1, <1>7, <2>1, <3>1, <3>2 DEF SupervisorInv, RunKnows
  <2>9. seen' <= posted' /\ GotKnows'
    BY <1>1, <2>1, <2>3 DEF SupervisorInv, GotKnows
  <2> QED
    BY <2>3, <2>4, <2>5, <2>6, <2>7, <2>8, <2>9 DEF SupervisorInv
<1> QED
  BY <1>8, <1>9

LEMMA SupervisorInvStep == SupervisorInv /\ [SupervisorNext]_supervisorVars => SupervisorInv'
<1>1. SupervisorInv /\ SupervisorNext => SupervisorInv'
  BY SubmitInv, SatisfyInv, WithdrawInv, BeginInv, ReadPlansInv, ReadEventsInv, ReadReconcileInv, ReadFailsInv,
     ProcessInv, PlanActiveInv, PresenceInv, CallScheduleInv, StopInv, GoOfflineInv, EndLoopInv,
     SignalInv, RunRegistersInv, MicrotaskInv, ScheduleEndsInv, SkipBusyInv, SendClaimInv, TakeAnswerInv,
     LoseAnswerInv, SettleInv DEF SupervisorNext
<1>2. SupervisorInv /\ UNCHANGED supervisorVars => SupervisorInv'
  <2> SUFFICES ASSUME SupervisorInv, UNCHANGED supervisorVars PROVE SupervisorInv'
    OBVIOUS
  <2>1. UNCHANGED <<job, strayed, posted, stage, got, seen, counted, transport, asked, again, run, claimed, started,
                    session, life, why, aborted, miscounted, troubles>>
    BY DEF supervisorVars, roundVars, workerVars
  <2>2. Pending' = Pending /\ Working' = Working /\ JobsIn({"open"})' = JobsIn({"open"}) /\ Calm' = Calm
    BY <2>1, WorkStays DEF Calm
  <2>3. SupervisorTypeOK' /\ OfflineIsQuiet' /\ SessionsKnown'
    BY <2>1, <2>2 DEF SupervisorInv, SupervisorTypeOK, OfflineIsQuiet, SessionsKnown
  <2>4. WorkIsShared' /\ StrayedAreHeld' /\ RunKnows'
    BY <2>1, RoundKeeps
  <2>5. CountedIsKnown' /\ (transport = "endpoints" => ClaimableIsAnnounced)'
    BY <2>1, NoticeKeeps
  <2>6. seen' <= posted' /\ GotKnows'
    BY <2>1, <2>2 DEF SupervisorInv, GotKnows
  <2> QED
    BY <2>3, <2>4, <2>5, <2>6 DEF SupervisorInv
<1> QED
  BY <1>1, <1>2

\* The variables of the supervisor have their types, whatever the numbers of tasks and slots.
THEOREM SupervisorTypes == SupervisorSpec => []SupervisorTypeOK
<1>1. SupervisorInv => SupervisorTypeOK
  BY DEF SupervisorInv
<1> QED
  BY <1>1, InitSupervisorInv, SupervisorInvStep, PTL DEF SupervisorSpec

\* However calls fail and whenever the process is told to end: slots that were reported
\* offline have nothing left, and no two slots work on one task.
THEOREM Offline_Quiet == SupervisorSpec => [](OfflineIsQuiet /\ WorkIsShared)
<1>1. SupervisorInv => OfflineIsQuiet /\ WorkIsShared
  BY DEF SupervisorInv
<1> QED
  BY <1>1, InitSupervisorInv, SupervisorInvStep, PTL DEF SupervisorSpec

\* And rounds that read the endpoints leave no open work to a supervisor nobody will ring.
THEOREM Supervisor_Safe == Transports = {"endpoints"} => (SupervisorSpec => []SupervisorIsSafe)
<1> SUFFICES ASSUME Transports = {"endpoints"} PROVE SupervisorSpec => []SupervisorIsSafe
  OBVIOUS
<1>1. SupervisorInv => SupervisorIsSafe
  BY DEF SupervisorInv, SupervisorIsSafe, SupervisorTypeOK
<1> QED
  BY <1>1, InitSupervisorInv, SupervisorInvStep, PTL DEF SupervisorSpec

-----------------------------------------------------------------------------
(* The five of them.                                                       *)

\* Whichever of the five moves, the state of all of them is of its type.
THEOREM HubTypes == Spec => []HubTypesOK
<1> DEFINE Inv == /\ EpochInv /\ IntakeInv /\ ProjectionInv /\ RestoreTypeOK /\ SupervisorInv
                  /\ part \in {"epoch", "intake", "projection", "restore", "supervisor"}
<1>1. Init => Inv
  BY InitEpochInv, InitIntakeInv, InitProjectionInv, InitRestoreTypes, InitSupervisorInv DEF Init
<1>2. Inv /\ [Next]_allVars => Inv'
  <2> SUFFICES ASSUME Inv, [Next]_allVars PROVE Inv'
    OBVIOUS
  <2>1. /\ [EpochNext]_epochVars /\ [IntakeNext]_intakeVars /\ [ProjectionNext]_projectionVars
        /\ [RestoreNext]_restoreVars /\ [SupervisorNext]_supervisorVars
        /\ part' = part
    BY DEF Next, allVars
  <2> QED
    BY <2>1, EpochInvStep, IntakeInvStep, ProjectionInvStep, RestoreTypesStep, SupervisorInvStep
<1>3. Inv => HubTypesOK
  BY DEF HubTypesOK, EpochInv, IntakeInv, ProjectionInv, SupervisorInv
<1> QED
  BY <1>1, <1>2, <1>3, PTL DEF Spec

=============================================================================
