----------------------------- MODULE PmDoorbell -----------------------------
(***************************************************************************)
(* The doorbell of the PM on one machine: supervisor processes that read   *)
(* the intake in rounds, and the pm-agent process each of them starts for  *)
(* a PM slot, which in turn runs the PM's own command, the agent.          *)
(*                                                                         *)
(* A supervisor holds a lock file, whose steps are single system calls.  A *)
(* pm-agent holds the kernel lock of its consumer through a helper in its  *)
(* process group.  The items are those a PM can act on; a fingerprint is   *)
(* the set of items that were rung for.                                    *)
(***************************************************************************)
EXTENDS Naturals, FiniteSets

CONSTANTS
  Supervisors,         \* processes; each lives once
  PmSlots, Plans, Items,
  PlanOf, SlotOf,      \* of an item: its plan, and the slot of its consumer, plan and kind
  Nobody,              \* no file, no holder, no slot
  Dead,                \* the owner of a lock file from before
  NoChild,
  OpenBound, DeathBound

VARIABLES
  open, opened,        \* the intake, and how many items were added
  lockFile,            \* the lock file of the supervisors: its owner, and whether it was written
  raced,               \* history: an unlink hit a file that was not the one compared
  supervisor,          \* each process
  cooling,             \* the fingerprint each slot and plan is not to be woken for again
  child,               \* the pm-agent of each slot of each supervisor
  kernelLock,          \* the supervisor whose pm-agent holds the lock of a consumer
  deaths

doorbellVars == <<open, opened, lockFile, raced, supervisor, cooling, child, kernelLock, deaths>>
hubVars == <<open, opened>>
fileVars == <<lockFile, raced>>
agentVars == <<child, kernelLock>>

File == [owner : Supervisors \cup {Dead}, written : BOOLEAN]
\* create to unlink are the steps of tryAcquireLocalLock.
Stage == {"create", "write", "look", "compare", "unlink", "refused",
          "rest", "round", "closing", "gone"}
Process == [stage : Stage, tries : 0..1, saw : Supervisors \cup {Dead}, once : BOOLEAN,
            todo : SUBSET Plans, got : SUBSET Items, signalled : BOOLEAN]
\* An orphan is an agent whose pm-agent was killed; told: it has been sent a signal.
Child == [plan : Plans, phase : {"start", "read", "agent", "ending", "check", "orphan"},
          told : BOOLEAN]

ASSUME DoorbellAssumption ==
  /\ PlanOf \in [Items -> Plans] /\ SlotOf \in [Items -> PmSlots \cup {Nobody}]
  /\ Dead \notin Supervisors /\ Nobody \notin Supervisors \cup PmSlots
  /\ Nobody \notin File /\ NoChild \notin Child
  /\ OpenBound \in Nat /\ DeathBound \in Nat

DoorbellTypeOK ==
  /\ open \in SUBSET Items /\ opened \in 0..OpenBound
  /\ lockFile \in File \cup {Nobody} /\ raced \in BOOLEAN
  /\ supervisor \in [Supervisors -> Process]
  /\ cooling \in [Supervisors -> [PmSlots \X Plans -> SUBSET Items]]
  /\ child \in [Supervisors -> [PmSlots -> Child \cup {NoChild}]]
  /\ kernelLock \in [PmSlots -> Supervisors \cup {Nobody}]
  /\ deaths \in 0..DeathBound

DoorbellInit ==
  /\ open \in SUBSET Items /\ opened = 0
  /\ lockFile \in {Nobody, [owner |-> Dead, written |-> TRUE]} /\ raced = FALSE
  /\ supervisor \in [Supervisors ->
       {[stage |-> "create", tries |-> 0, saw |-> Dead, once |-> o, todo |-> {}, got |-> {}, signalled |-> FALSE] :
          o \in BOOLEAN}]
  /\ cooling = [s \in Supervisors |-> [kp \in PmSlots \X Plans |-> {}]]
  /\ child = [s \in Supervisors |-> [k \in PmSlots |-> NoChild]]
  /\ kernelLock = [k \in PmSlots |-> Nobody]
  /\ deaths = 0

-----------------------------------------------------------------------------
(* The lock file of the supervisors.  A definition named X_What is a faulty *)
(* variant of X.                                                            *)

At(s, st) == supervisor[s].stage = st
Goes(s, st) == supervisor' = [supervisor EXCEPT ![s].stage = st]
Up(s) == supervisor[s].stage \in {"rest", "round", "closing"}
Alive(o) == o # Dead /\ supervisor[o].stage \notin {"refused", "gone"}

Create(s) ==
  /\ At(s, "create")
  /\ IF lockFile = Nobody
     THEN lockFile' = [owner |-> s, written |-> FALSE] /\ Goes(s, "write")
     ELSE UNCHANGED lockFile /\ Goes(s, "look")
  /\ UNCHANGED <<hubVars, raced, cooling, agentVars, deaths>>

\* What is written to a file that was unlinked meanwhile is lost.
Write(s) ==
  /\ At(s, "write") /\ Goes(s, "rest")
  /\ lockFile' = IF lockFile = [owner |-> s, written |-> FALSE]
                 THEN [owner |-> s, written |-> TRUE] ELSE lockFile
  /\ UNCHANGED <<hubVars, raced, cooling, agentVars, deaths>>

\* After a second failure the process gives up.
TriesAgain(s) ==
  supervisor' = [supervisor EXCEPT ![s].tries = 1,
                                   ![s].stage = IF supervisor[s].tries = 0 THEN "create" ELSE "refused"]

Refusing(f) == ~f.written \/ Alive(f.owner)

Look(s) ==
  /\ At(s, "look")
  /\ IF lockFile = Nobody THEN TriesAgain(s)
     ELSE IF Refusing(lockFile) THEN Goes(s, "refused")
     ELSE supervisor' = [supervisor EXCEPT ![s].stage = "compare", ![s].saw = lockFile.owner]
  /\ UNCHANGED <<hubVars, fileVars, cooling, agentVars, deaths>>

Saw(s) == lockFile # Nobody /\ lockFile.owner = supervisor[s].saw

Compare(s) ==
  /\ At(s, "compare")
  /\ IF Saw(s) THEN Goes(s, "unlink") ELSE TriesAgain(s)
  /\ UNCHANGED <<hubVars, fileVars, cooling, agentVars, deaths>>

Unlink(s) ==
  /\ At(s, "unlink") /\ TriesAgain(s)
  /\ lockFile' = Nobody /\ raced' = (raced \/ (lockFile # Nobody /\ ~Saw(s)))
  /\ UNCHANGED <<hubVars, cooling, agentVars, deaths>>

-----------------------------------------------------------------------------
(* Rounds *)

\* A round reads the intake once and then rings for each plan.
Read(s) ==
  /\ At(s, "rest") /\ ~supervisor[s].signalled
  /\ supervisor' = [supervisor EXCEPT ![s].stage = "round", ![s].got = open, ![s].todo = Plans]
  /\ UNCHANGED <<hubVars, fileVars, cooling, agentVars, deaths>>

Active(s, k) == child[s][k] # NoChild /\ child[s][k].phase # "orphan"

\* wakePmAgent: whether a pm-agent is started for these items of the plan.
Stopping(s) == supervisor[s].signalled
Wakes_Unstopped(s, k, p, items) ==
  /\ items # {} /\ ~Active(s, k) /\ cooling[s][<<k, p>>] # items
Wakes(s, k, p, items) ==
  /\ items # {} /\ ~Stopping(s) /\ ~Active(s, k) /\ cooling[s][<<k, p>>] # items

\* What is noted as reminded never matters: a resident supervisor withdraws it in any
\* case, so that the next round rings again, and a single round rings once for a plan.
Ring(s, p) ==
  LET For(k) == {i \in supervisor[s].got : PlanOf[i] = p /\ SlotOf[i] = k} IN
  /\ At(s, "round") /\ p \in supervisor[s].todo
  /\ supervisor' = [supervisor EXCEPT ![s].todo = @ \ {p}]
  /\ child' = [child EXCEPT ![s] = [k \in PmSlots |->
       IF Wakes(s, k, p, For(k)) THEN [plan |-> p, phase |-> "start", told |-> FALSE] ELSE @[k]]]
  /\ cooling' = [cooling EXCEPT ![s] = [kp \in PmSlots \X Plans |->
       IF kp[2] = p /\ Wakes(s, kp[1], p, For(kp[1])) THEN For(kp[1]) ELSE @[kp]]]
  /\ UNCHANGED <<hubVars, fileVars, kernelLock, deaths>>

\* A single round waits for the agents it started; a resident process rests.
EndRound(s) ==
  /\ At(s, "round") /\ supervisor[s].todo = {}
  /\ supervisor[s].once => \A k \in PmSlots : ~Active(s, k)
  /\ supervisor' = [supervisor EXCEPT ![s].got = {},
       ![s].stage = IF supervisor[s].once \/ Stopping(s) THEN "closing" ELSE "rest"]
  /\ UNCHANGED <<hubVars, fileVars, cooling, agentVars, deaths>>

\* The cooldown of a slot and plan is over.
Elapse(s, kp) ==
  /\ Up(s) /\ cooling[s][kp] # {}
  /\ cooling' = [cooling EXCEPT ![s][kp] = {}]
  /\ UNCHANGED <<hubVars, fileVars, supervisor, agentVars, deaths>>

-----------------------------------------------------------------------------
(* The end of a supervisor *)

AgentLives == {"agent", "ending", "orphan"}

\* SIGTERM reaches the process group of a pm-agent and its descendants.  The helper that
\* holds the kernel lock ends at once; the pm-agent only if no agent runs, for then it
\* has no handler.  The supervisor wakes nobody any more, so its cooldowns do not matter.
Told(c) ==
  IF c = NoChild THEN NoChild
  ELSE IF c.phase \in AgentLives
  THEN [c EXCEPT !.told = TRUE, !.phase = IF c.phase = "agent" THEN "ending" ELSE c.phase]
  ELSE NoChild
Forgets(s) == cooling' = [cooling EXCEPT ![s] = [kp \in PmSlots \X Plans |-> {}]]
Tells(s) ==
  /\ child' = [child EXCEPT ![s] = [k \in PmSlots |-> Told(child[s][k])]]
  /\ kernelLock' = [k \in PmSlots |-> IF kernelLock[k] = s THEN Nobody ELSE kernelLock[k]]
  /\ Forgets(s)

\* The first signal.
Stop(s) ==
  /\ Up(s) /\ ~Stopping(s) /\ Tells(s)
  /\ supervisor' = [supervisor EXCEPT ![s].signalled = TRUE,
       ![s].stage = IF supervisor[s].stage = "rest" THEN "closing" ELSE supervisor[s].stage]
  /\ UNCHANGED <<hubVars, fileVars, deaths>>

\* All plans are terminal, and the process is not to stay.
Retire(s) ==
  /\ At(s, "rest") /\ Goes(s, "closing") /\ Tells(s)
  /\ UNCHANGED <<hubVars, fileVars, deaths>>

\* SIGKILL, with the second signal or when the grace is over: the pm-agent ends, and what
\* is left of its agent is found among its descendants or not.
Kills(s, left) ==
  /\ left \subseteq {k \in PmSlots : child[s][k] # NoChild /\ child[s][k].phase \in AgentLives}
  /\ child' = [child EXCEPT ![s] = [k \in PmSlots |->
       IF k \in left THEN [child[s][k] EXCEPT !.phase = "orphan", !.told = TRUE] ELSE NoChild]]
  /\ kernelLock' = [k \in PmSlots |-> IF kernelLock[k] = s THEN Nobody ELSE kernelLock[k]]

ForceStop(s, left) ==
  /\ At(s, "closing") \/ (Up(s) /\ Stopping(s))
  /\ \E k \in PmSlots : Active(s, k)
  /\ Kills(s, left)
  /\ UNCHANGED <<hubVars, fileVars, supervisor, cooling, deaths>>

Leave(s) ==
  /\ At(s, "closing") /\ \A k \in PmSlots : ~Active(s, k)
  /\ Goes(s, "gone")
  /\ lockFile' = IF lockFile = [owner |-> s, written |-> TRUE] THEN Nobody ELSE lockFile
  /\ UNCHANGED <<hubVars, raced, cooling, agentVars, deaths>>

\* The process dies; its lock file and its children stay.
Dies(s) ==
  /\ deaths < DeathBound /\ deaths' = deaths + 1
  /\ Alive(s)
  /\ supervisor' = [supervisor EXCEPT ![s].stage = "gone", ![s].todo = {}, ![s].got = {}]
  /\ Forgets(s)
  /\ UNCHANGED <<hubVars, fileVars, agentVars>>

-----------------------------------------------------------------------------
(* A pm-agent *)

Phase(s, k, ph) == child[s][k] # NoChild /\ child[s][k].phase = ph
Turns(s, k, ph) ==
  /\ child' = [child EXCEPT ![s][k].phase = ph]
  /\ UNCHANGED <<hubVars, fileVars, supervisor, cooling, deaths>>

\* The process ends, and with it its hold on the lock.  Its supervisor, when it is not
\* stopping, forgets the cooldown after code 0 and keeps it otherwise.
Exits(s, k, code) ==
  /\ child' = [child EXCEPT ![s][k] = NoChild]
  /\ kernelLock' = IF kernelLock[k] = s THEN [kernelLock EXCEPT ![k] = Nobody] ELSE kernelLock
  /\ cooling' = IF code = 0 /\ Up(s) /\ ~Stopping(s)
                THEN [cooling EXCEPT ![s][<<k, child[s][k].plan>>] = {}] ELSE cooling
  /\ UNCHANGED <<hubVars, fileVars, supervisor, deaths>>

Remaining(s, k) == {i \in open : SlotOf[i] = k /\ PlanOf[i] = child[s][k].plan}

Contended(s, k) == kernelLock[k] # Nobody

TakeLock(s, k) ==
  /\ Phase(s, k, "start")
  /\ IF Contended(s, k) THEN Exits(s, k, 0)
     ELSE Turns(s, k, "read") /\ kernelLock' = [kernelLock EXCEPT ![k] = s]

\* The intake is read twice before the agent is started; the second reading decides.
ReadIntake(s, k) ==
  /\ Phase(s, k, "read")
  /\ IF Remaining(s, k) = {} THEN Exits(s, k, 0)
     ELSE Turns(s, k, "agent") /\ UNCHANGED kernelLock

AgentEnds(s, k) ==
  /\ Phase(s, k, "agent")
  /\ \/ Turns(s, k, "check") /\ UNCHANGED kernelLock
     \/ Exits(s, k, 1)

\* The agent has not ended in time.
RunsOut(s, k) == Phase(s, k, "agent") /\ Turns(s, k, "ending") /\ UNCHANGED kernelLock

\* The rest of its process group is killed.
Reap(s, k) == Phase(s, k, "ending") /\ Exits(s, k, 1)

Check(s, k) == Phase(s, k, "check") /\ Exits(s, k, IF Remaining(s, k) = {} THEN 0 ELSE 4)

OrphanEnds(s, k) ==
  /\ Phase(s, k, "orphan")
  /\ child' = [child EXCEPT ![s][k] = NoChild]
  /\ UNCHANGED <<hubVars, fileVars, supervisor, cooling, kernelLock, deaths>>

-----------------------------------------------------------------------------
(* The hub *)

Opens(i) ==
  /\ i \notin open /\ open' = open \cup {i}
  /\ opened < OpenBound /\ opened' = opened + 1
  /\ UNCHANGED <<fileVars, supervisor, cooling, agentVars, deaths>>

\* An agent, or somebody else, deals with an item.
Handled(i) ==
  /\ i \in open /\ open' = open \ {i}
  /\ UNCHANGED <<opened, fileVars, supervisor, cooling, agentVars, deaths>>

DoorbellNext ==
  \/ \E s \in Supervisors :
       \/ Create(s) \/ Write(s) \/ Look(s) \/ Compare(s) \/ Unlink(s)
       \/ Read(s) \/ EndRound(s) \/ Stop(s) \/ Retire(s) \/ Leave(s) \/ Dies(s)
       \/ \E p \in Plans : Ring(s, p)
       \/ \E kp \in PmSlots \X Plans : Elapse(s, kp)
       \/ \E left \in SUBSET PmSlots : ForceStop(s, left)
       \/ \E k \in PmSlots :
            \/ TakeLock(s, k) \/ ReadIntake(s, k) \/ AgentEnds(s, k) \/ RunsOut(s, k)
            \/ Reap(s, k) \/ Check(s, k) \/ OrphanEnds(s, k)
  \/ \E i \in Items : Opens(i) \/ Handled(i)

DoorbellSpec == DoorbellInit /\ [][DoorbellNext]_doorbellVars

-----------------------------------------------------------------------------
(* Properties.                                                              *)

\* One consumer has one agent at a time that was not told to stop, whoever started it,
\* even if two supervisors hold the lock file.
OneAgentPerConsumer ==
  \A k \in PmSlots : \A s, z \in Supervisors :
    /\ child[s][k] # NoChild /\ child[s][k].phase \in AgentLives /\ ~child[s][k].told
    /\ child[z][k] # NoChild /\ child[z][k].phase \in AgentLives /\ ~child[z][k].told
    => s = z

\* A signal reaches every agent of its supervisor: none is started in what is left of
\* the round.
StopReachesAll ==
  \A s \in Supervisors : \A k \in PmSlots :
    Stopping(s) /\ Up(s) /\ child[s][k] # NoChild => child[s][k].told

\* Two supervisors run only after one has unlinked a file that it had not compared.
OneSupervisor == ~raced => \A s, z \in Supervisors : Up(s) /\ Up(z) => s = z

DoorbellIsSafe == OneAgentPerConsumer /\ StopReachesAll /\ OneSupervisor

\* The two properties without their conditions; neither holds: the helper with the kernel
\* lock ends before the agent does, and comparing and unlinking are two steps.
AgentsNeverOverlap ==
  \A k \in PmSlots : \A s, z \in Supervisors :
    /\ child[s][k] # NoChild /\ child[s][k].phase \in AgentLives
    /\ child[z][k] # NoChild /\ child[z][k].phase \in AgentLives
    => s = z
SupervisorsNeverOverlap == \A s, z \in Supervisors : Up(s) /\ Up(z) => s = z
=============================================================================
