----------------------------- MODULE AgentEpoch -----------------------------
(***************************************************************************)
(* Which worker process speaks for an agent id.  Every process registers   *)
(* under an id of its own; the hub numbers the ids in SQLite and publishes *)
(* the newest one in Redis.  Register, heartbeat, offline and the commit   *)
(* of a claim run under a mutex per agent inside the hub process, but the  *)
(* two stores are written one after the other: the hub may die, or Redis   *)
(* refuse, in between, and a script that was sent before the hub died may  *)
(* run after its successor has started.                                    *)
(***************************************************************************)
EXTENDS Naturals, Sequences, FiniteSets

CONSTANTS
  Sessions,       \* registration ids
  NoSession,      \* the empty registration_id
  Handlers,       \* slots for calls that the hub is handling
  NoCall,         \* a free slot
  GenerationBound, \* bound on the generations that are published
  HubCrashBound,  \* bound on hub crashes
  RestoreBound    \* bound on restores of Redis from SQLite

EpochKind == {"register", "heartbeat", "offline", "claim"}
\* stray: the hub that sent the script has died.
EpochCall == [kind : EpochKind, id : Sessions, generation : Nat, step : {"entered", "sent", "stray"}]

ASSUME SessionAssumption ==
  NoSession \notin Sessions /\ IsFiniteSet(Sessions) /\ NoCall \notin EpochCall
ASSUME EpochBoundAssumption == GenerationBound \in Nat /\ HubCrashBound \in Nat /\ RestoreBound \in Nat

VARIABLES
  ledger,      \* SQLite agent_registrations: the id of every generation
  durable,     \* whether the hub runs with SQLite
  epoch,       \* the agent hash in Redis
  known,       \* the set agent_registration_ids in Redis
  call,        \* the handlers
  hubCrashes, restores

epochVars == <<ledger, durable, epoch, known, call, hubCrashes, restores>>

Standing == {"idle", "busy", "offline"}

EpochTypeOK ==
  /\ ledger \in Seq(Sessions) /\ Len(ledger) <= Cardinality(Sessions) /\ durable \in BOOLEAN
  /\ epoch \in [id : Sessions \cup {NoSession}, generation : Nat, standing : Standing]
  /\ known \in SUBSET Sessions
  /\ call \in [Handlers -> EpochCall \cup {NoCall}]
  /\ hubCrashes \in 0..HubCrashBound /\ restores \in 0..RestoreBound

\* A new hub, or one whose predecessor kept the registrations in Redis only.
EpochInit ==
  /\ ledger = <<>> /\ durable \in BOOLEAN
  /\ known \in SUBSET Sessions
  /\ \E i \in IF known = {} THEN {NoSession} ELSE known :
       epoch = [id |-> i, generation |-> 0, standing |-> "idle"]
  /\ call = [h \in Handlers |-> NoCall]
  /\ hubCrashes = 0 /\ restores = 0

-----------------------------------------------------------------------------
(* Helpers.  A definition named X_What is a faulty variant of X.            *)

Newest == ledger[Len(ledger)]
Numbers_Newest(i, rows) == {Len(rows)} \cap {n \in DOMAIN rows : rows[n] = i}
Numbers(i, rows) == {n \in DOMAIN rows : rows[n] = i}

\* withAgentEpochCommit: one call of this agent at a time in a hub process.
MutexFree_Ignored == TRUE
MutexFree == {h \in Handlers : call[h] # NoCall /\ call[h].step # "stray"} = {}

\* durableAgentEpochIsCurrent
DurablyCurrent(i) == ~durable \/ ledger = <<>> \/ Newest = i

\* The ids of a Redis-only history in some order, the current one last.
Seeds_Unordered == {s \in [1..Cardinality(known) -> known] : {s[n] : n \in DOMAIN s} = known}
Seeds ==
  {s \in Seeds_Unordered : known # {} => s[Cardinality(known)] = epoch.id}

\* REGISTER_AGENT_EPOCH: the generation asked for, and what becomes of it.
Asked(g) == IF g = 0 THEN epoch.generation + 1 ELSE g
Verdict_Revived(i, g) ==
  IF epoch.generation > Asked(g) \/ i \in known \ {epoch.id} THEN "retired" ELSE "created"
Verdict_Unnumbered(i, g) ==
  IF epoch.id = i THEN "idempotent" ELSE "created"
Verdict(i, g) ==
  IF epoch.generation > Asked(g) THEN "retired"
  ELSE IF epoch.id = i THEN "idempotent"
  ELSE IF epoch.generation = Asked(g) /\ epoch.id # NoSession THEN "retired"
  ELSE IF i \in known THEN "retired" ELSE "created"

Free(h) == call' = [call EXCEPT ![h] = NoCall]
Storage == <<ledger, durable>>
Published == <<epoch, known>>

-----------------------------------------------------------------------------
(* Calls.  A worker may send any of them at any time and repeat it.         *)

\* The call has the mutex.  What register now reads of the history in Redis
\* matters only while SQLite is empty, when no script can be under way.
Enter(h, k, i) ==
  /\ call[h] = NoCall /\ MutexFree
  /\ call' = [call EXCEPT ![h] = [kind |-> k, id |-> i, generation |-> 0, step |-> "entered"]]
  /\ UNCHANGED <<Storage, Published, hubCrashes, restores>>

Send(h, g) == call' = [call EXCEPT ![h].step = "sent", ![h].generation = g]

\* seedAgentRegistrationHistory and registerAgentEpoch, two transactions of
\* SQLite with nothing in between.
Number(h) ==
  /\ call[h] # NoCall /\ call[h].kind = "register" /\ call[h].step = "entered"
  /\ LET i == call[h].id IN
     IF ~durable THEN Send(h, 0) /\ UNCHANGED ledger
     ELSE \E rows \in IF ledger = <<>> THEN Seeds ELSE {ledger} :
       \/ /\ Numbers(i, rows) \ {Len(rows)} # {} /\ ledger' = rows /\ Free(h)
       \/ /\ Numbers(i, rows) = {Len(rows)} /\ ledger' = rows /\ Send(h, Len(rows))
       \/ /\ Numbers(i, rows) = {} /\ ledger' = Append(rows, i) /\ Send(h, Len(rows) + 1)
  /\ UNCHANGED <<durable, Published, hubCrashes, restores>>

Publish(h) ==
  /\ call[h] # NoCall /\ call[h].kind = "register" /\ call[h].step # "entered"
  /\ Asked(call[h].generation) <= GenerationBound
  /\ LET i == call[h].id  g == call[h].generation IN
     \/ /\ Verdict(i, g) = "retired" /\ UNCHANGED <<epoch, known>>
     \/ /\ Verdict(i, g) = "idempotent"
        /\ epoch' = [epoch EXCEPT !.generation = Asked(g)] /\ known' = known \cup {i}
     \/ /\ Verdict(i, g) = "created"
        /\ epoch' = [id |-> i, generation |-> Asked(g), standing |-> "idle"]
        /\ known' = known \cup {i}
  /\ Free(h)
  /\ UNCHANGED <<Storage, hubCrashes, restores>>

\* heartbeat, offline and the commit of a claim look into SQLite first.
Check(h) ==
  /\ call[h] # NoCall /\ call[h].kind # "register" /\ call[h].step = "entered"
  /\ IF DurablyCurrent(call[h].id) THEN Send(h, 0) ELSE Free(h)
  /\ UNCHANGED <<Storage, Published, hubCrashes, restores>>

\* Their scripts compare the registration_id and refuse an offline agent.
Write(h) ==
  /\ call[h] # NoCall /\ call[h].kind # "register" /\ call[h].step # "entered"
  /\ \/ /\ (epoch.id # call[h].id \/ epoch.standing = "offline")
        /\ UNCHANGED epoch
     \/ /\ epoch.id = call[h].id /\ epoch.standing # "offline"
        /\ \E s \in CASE call[h].kind = "heartbeat" -> {"idle", "busy"}
                      [] call[h].kind = "claim" -> {"busy"}
                      [] OTHER -> {"offline"} :
             epoch' = [epoch EXCEPT !.standing = s]
  /\ Free(h)
  /\ UNCHANGED <<Storage, known, hubCrashes, restores>>

\* Redis refuses the script; the handler throws and leaves the mutex.
EpochFail(h) ==
  /\ call[h] # NoCall /\ call[h].step \in {"entered", "sent"}
  /\ Free(h)
  /\ UNCHANGED <<Storage, Published, hubCrashes, restores>>

-----------------------------------------------------------------------------
\* The hub dies.  Scripts it has sent may still run.
HubCrash ==
  /\ hubCrashes < HubCrashBound /\ hubCrashes' = hubCrashes + 1
  /\ \E lost \in SUBSET Handlers :
       /\ \A h \in Handlers : call[h] # NoCall /\ call[h].step = "entered" => h \in lost
       /\ call' = [h \in Handlers |-> IF h \in lost \/ call[h] = NoCall THEN NoCall
                                      ELSE [call[h] EXCEPT !.step = "stray"]]
  /\ UNCHANGED <<Storage, Published, restores>>

\* prepareRestoreProjection: every id is known again and the newest is current, offline.
RestoreAgent ==
  /\ durable /\ ledger # <<>> /\ restores < RestoreBound /\ \A h \in Handlers : call[h] = NoCall
  /\ restores' = restores + 1
  /\ epoch' = [id |-> Newest, generation |-> Len(ledger), standing |-> "offline"]
  /\ known' = {ledger[n] : n \in DOMAIN ledger}
  /\ UNCHANGED <<Storage, call, hubCrashes>>

EpochNext ==
  \/ \E h \in Handlers : \/ \E k \in EpochKind, i \in Sessions : Enter(h, k, i)
                         \/ Number(h) \/ Publish(h) \/ Check(h) \/ Write(h) \/ EpochFail(h)
  \/ HubCrash
  \/ RestoreAgent

EpochSpec == EpochInit /\ [][EpochNext]_epochVars

-----------------------------------------------------------------------------
\* A session that was replaced never speaks for the agent again, however late
\* its registration is repeated (README, AGENT_REGISTRATION_RETIRED).
RetiredStaysRetired ==
  [][\A i \in known \ {epoch.id} : epoch'.id # i]_epochVars

\* The published generation never falls and is that of the published session.
GenerationsAgree ==
  /\ durable /\ epoch.generation > 0 => /\ epoch.generation \in DOMAIN ledger
                                        /\ ledger[epoch.generation] = epoch.id
  /\ \A m, n \in DOMAIN ledger : ledger[m] = ledger[n] => m = n

\* While the hub has not crashed, only the newest registration moves the
\* agent, also when Redis refused its publication.
OnlyNewestSpeaks ==
  [][/\ hubCrashes = 0 /\ durable /\ ledger # <<>>
     /\ epoch'.id = epoch.id /\ epoch'.standing # epoch.standing /\ restores' = restores
     => epoch.id = Newest]_epochVars

\* A session that went offline stays so: a repeated registration does not revive it.
OfflineIsFinal ==
  [][epoch.standing = "offline" /\ epoch'.id = epoch.id => epoch'.standing = "offline"]_epochVars

\* The newest durable registration is never refused by Redis: its repetition publishes it.
NewestIsPublishable ==
  durable /\ ledger # <<>> => Verdict(Newest, Len(ledger)) # "retired"

\* SQLite and Redis agree on who speaks for the agent.
StoresAgree == GenerationsAgree /\ NewestIsPublishable
\* An ended session has ended.
SessionsEnd == RetiredStaysRetired /\ OfflineIsFinal

\* The stores agree, an agent id is moved by its newest session, and its older ones
\* have ended.
SessionsAreOrdered == []StoresAgree /\ SessionsEnd /\ OnlyNewestSpeaks
=============================================================================
