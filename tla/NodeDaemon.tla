------------------------------ MODULE NodeDaemon ------------------------------
(***************************************************************************)
(* The daemon of an execution node.  Its main loop claims work from the    *)
(* hub into free slots, visits the lease of each attempt (renews it, or    *)
(* stops the attempt when it is lost or nearly over), reports what it has  *)
(* stopped, sends a heartbeat and drains.  Beside the loop an event of the *)
(* hub may start a claim, and the executor takes each attempt through      *)
(* prepare, command, finalize and report.  A step is what runs between two *)
(* awaits; the daemon may die between any two, and the next one finds the  *)
(* ledger and the recovery files of its predecessors.                      *)
(***************************************************************************)
EXTENDS Naturals, Sequences, FiniteSets

CONSTANTS
  Works,        \* the attempts
  NoWork,
  Slots,        \* capacity of the slot table
  DaemonBound   \* bound on the crashes

LoopParts == {"top", "claim", "claiming", "inbox", "watch", "reports", "beat", "drain"}

ASSUME DaemonAssumption ==
  /\ IsFiniteSet(Works) /\ NoWork \notin Works /\ Works \cap LoopParts = {}
  /\ Slots \in Nat \ {0} /\ DaemonBound \in Nat

VARIABLES
  phase,
  granted,   \* attempts the hub, or the inbox, has given out
  asking,    \* the claim under way: its state, and whether the loop awaits it
  busy,      \* occupied slots
  watch,     \* the status of each attempt in the watchdog
  token,     \* attempts whose token is in the cache
  chain,     \* where the executor is with each attempt
  loop,      \* the next part of the tick, and the attempts still to be visited
  reports,   \* reportQueue
  journal,   \* the last that the ledger says of an attempt
  recovery,  \* attempts with a recovery file
  daemonCrashes

slotVars == <<busy, watch, token>>
workDisk == <<journal, recovery>>
daemonVars == <<phase, granted, asking, slotVars, chain, loop, reports, workDisk, daemonCrashes>>

NotAsking == [state |-> "idle", work |-> NoWork, awaited |-> FALSE]
AtTop == [at |-> "top", left |-> {}]
Active == {"running", "lease_at_risk"}
Watched == {w \in Works : watch[w] \in Active}

AskingState == [state : {"idle", "sent", "granted"}, work : Works \cup {NoWork}, awaited : BOOLEAN]
LoopState == [at : LoopParts \cup Works, left : SUBSET Works]

SlotTypes ==
  /\ busy \subseteq Works /\ Cardinality(busy) <= Slots
  /\ watch \in [Works -> Active \cup {"none", "stopped", "lease_lost"}]
  /\ token \subseteq Works
DiskTypes ==
  journal \in [Works -> {"none", "adopted", "terminal"}] /\ recovery \subseteq Works

DaemonTypeOK ==
  /\ phase \in {"off", "running", "draining", "drained", "fenced"}
  /\ granted \subseteq Works /\ asking \in AskingState
  /\ SlotTypes /\ DiskTypes
  /\ chain \in [Works -> {"none", "prepare", "execute", "finalize", "report", "over"}]
  /\ loop \in LoopState /\ reports \in Seq(Works)
  /\ daemonCrashes \in 0..DaemonBound

DaemonInit ==
  /\ phase = "off" /\ granted = {} /\ asking = NotAsking
  /\ busy = {} /\ watch = [w \in Works |-> "none"] /\ token = {}
  /\ chain = [w \in Works |-> "none"] /\ loop = AtTop /\ reports = <<>>
  /\ journal = [w \in Works |-> "none"] /\ recovery = {} /\ daemonCrashes = 0

Runs == phase \in {"running", "draining"}
FreeSlots == Slots - Cardinality(busy)
Step(at) == loop' = [loop EXCEPT !.at = at]

-----------------------------------------------------------------------------
(* Adopting and stopping.  A definition named X_What is a faulty variant.  *)

\* The attempts of ws get slots, and the executor begins with those that have a token:
\* the hub refuses its first call without.
Adopt(ws) ==
  /\ busy' = busy \cup ws
  /\ watch' = [w \in Works |-> IF w \in ws THEN "running" ELSE watch[w]]
  /\ chain' = [w \in Works |-> IF w \notin ws THEN chain[w]
                               ELSE IF w \in token' THEN "prepare" ELSE "over"]
  /\ journal' = [w \in Works |-> IF w \in ws THEN "adopted" ELSE journal[w]]

\* The sequences that list a set once: the order of a Map is that of its insertions.
Listed(ws) == {s \in [1..Cardinality(ws) -> ws] : \A i, j \in DOMAIN s : s[i] = s[j] => i = j}

\* What a stop forgets and frees.
Kept_Token(ws) == token
Kept(ws) == token \ ws
Freed_Never(ws) == busy
Freed(ws) == busy \ ws

\* The token is forgotten and the slot is free; the command of the executor runs on.
Stop(ws, status, reason) ==
  /\ watch' = [w \in Works |-> IF w \in ws THEN status ELSE watch[w]]
  /\ token' = Kept(ws) /\ busy' = Freed(ws)
  /\ \E s \in Listed(ws) : reports' = reports \o s
  /\ journal' = [w \in Works |-> IF w \in ws THEN "terminal" ELSE journal[w]]
  /\ recovery' = IF reason = "drain_cancel" THEN recovery ELSE recovery \cup ws

-----------------------------------------------------------------------------
(* Start.                                                                  *)

\* What another boot has adopted and not stopped.
Orphans_None == {}
Orphans == {w \in Works : journal[w] = "adopted"}

Boot ==
  /\ phase = "off"
  /\ \/ phase' = "running" /\ recovery' = recovery \cup Orphans
     \/ phase' = "fenced" /\ UNCHANGED recovery     \* the hub refuses the session
  /\ UNCHANGED <<granted, asking, slotVars, chain, loop, reports, journal, daemonCrashes>>

\* The process ends: by a crash, or because the heartbeat may not authenticate.
Dies ==
  /\ phase # "off" /\ daemonCrashes < DaemonBound /\ daemonCrashes' = daemonCrashes + 1
  /\ phase' = "off" /\ asking' = NotAsking
  /\ busy' = {} /\ watch' = [w \in Works |-> "none"] /\ token' = {}
  /\ chain' = [w \in Works |-> IF chain[w] = "none" THEN "none" ELSE "over"]
  /\ loop' = AtTop /\ reports' = <<>>
  /\ UNCHANGED <<granted, workDisk>>

-----------------------------------------------------------------------------
(* The main loop.                                                          *)

\* An operator or a signal asks for a drain; a second signal cancels what runs.
Tick ==
  /\ Runs /\ loop.at = "top"
  /\ \E p \in {phase, "draining"} :
       /\ phase' = p
       /\ loop' = IF p = "running" THEN [loop EXCEPT !.at = "claim"]
                  ELSE [at |-> "watch", left |-> Watched]
       /\ \/ UNCHANGED <<slotVars, reports, workDisk>>
          \/ p = "draining" /\ Stop(Watched, "stopped", "drain_cancel")
  /\ UNCHANGED <<granted, asking, chain, daemonCrashes>>

ToWatch == loop' = [at |-> "watch", left |-> Watched]

\* Without a free slot neither the hub nor the inbox is asked; the claim of an event
\* that is under way is not repeated.
ClaimTick ==
  /\ loop.at = "claim"
  /\ IF FreeSlots = 0 THEN ToWatch /\ UNCHANGED asking
     ELSE \/ Step("inbox") /\ UNCHANGED asking
          \/ /\ asking = NotAsking /\ Step("claiming")
             /\ asking' = [state |-> "sent", work |-> NoWork, awaited |-> TRUE]
  /\ UNCHANGED <<phase, granted, slotVars, chain, reports, workDisk, daemonCrashes>>

\* What is renamed out of the inbox is ours, and there are slots for it.
Inbox ==
  /\ loop.at = "inbox"
  /\ UNCHANGED token
  /\ \E ws \in SUBSET (Works \ granted) :
       /\ Cardinality(ws) <= FreeSlots /\ Adopt(ws) /\ granted' = granted \cup ws
       /\ loop' = [at |-> "watch", left |-> Watched \cup ws]
  /\ UNCHANGED <<phase, asking, reports, recovery, daemonCrashes>>

\* One attempt of the list: nothing to do, too near to its end, or due for a renewal.
Visit(w) ==
  /\ loop.at = "watch" /\ w \in loop.left
  /\ \/ loop' = [loop EXCEPT !.left = @ \ {w}] /\ UNCHANGED <<slotVars, reports, workDisk>>
     \/ /\ watch[w] \in Active /\ loop' = [loop EXCEPT !.left = @ \ {w}]
        /\ Stop({w}, "stopped", "expiry_stop_window")
     \/ watch[w] \in Active /\ Step(w) /\ UNCHANGED <<slotVars, reports, workDisk>>
  /\ UNCHANGED <<phase, granted, asking, chain, daemonCrashes>>

\* The hub renews, says that the attempt is lost, or gives no such answer.
RenewAnswered(w) ==
  /\ loop.at = w /\ loop' = [at |-> "watch", left |-> loop.left \ {w}]
  /\ \/ /\ \E s \in Active : watch' = [watch EXCEPT ![w] = s]
        /\ UNCHANGED <<busy, token, reports, workDisk>>
     \/ Stop({w}, "lease_lost", "lease_lost")
  /\ UNCHANGED <<phase, granted, asking, chain, daemonCrashes>>

Visited ==
  /\ loop.at = "watch" /\ loop.left = {} /\ Step("reports")
  /\ UNCHANGED <<phase, granted, asking, slotVars, chain, reports, workDisk, daemonCrashes>>

\* A report that fails is written to the ledger and not sent again.
SendReports ==
  /\ loop.at = "reports"
  /\ IF reports = <<>> THEN Step("beat") /\ UNCHANGED reports
     ELSE reports' = Tail(reports) /\ UNCHANGED loop
  /\ UNCHANGED <<phase, granted, asking, slotVars, chain, workDisk, daemonCrashes>>

\* The hub may answer that the session is fenced: everything is stopped.
Beat ==
  /\ loop.at = "beat"
  /\ \/ /\ loop' = IF phase = "draining" THEN [loop EXCEPT !.at = "drain"] ELSE AtTop
        /\ UNCHANGED <<phase, slotVars, reports, workDisk>>
     \/ phase' = "fenced" /\ loop' = AtTop /\ Stop(Watched, "stopped", "fenced")
  /\ UNCHANGED <<granted, asking, chain, daemonCrashes>>

\* Nothing is active: done.  Otherwise the loop goes on, or what runs is cancelled.
DrainProgress ==
  /\ loop.at = "drain" /\ loop' = AtTop
  /\ IF Watched = {} THEN phase' = "drained" /\ UNCHANGED <<slotVars, reports, workDisk>>
     ELSE /\ UNCHANGED phase
          /\ \/ UNCHANGED <<slotVars, reports, workDisk>>
             \/ Stop(Watched, "stopped", "drain_cancel")
  /\ UNCHANGED <<granted, asking, chain, daemonCrashes>>

-----------------------------------------------------------------------------
(* Beside the loop.                                                        *)

\* task_ready: a claim at once, unless one is under way.
WakeClaim ==
  /\ phase = "running" /\ FreeSlots > 0 /\ asking = NotAsking
  /\ asking' = [state |-> "sent", work |-> NoWork, awaited |-> FALSE]
  /\ UNCHANGED <<phase, granted, slotVars, chain, loop, reports, workDisk, daemonCrashes>>

HubGrants ==
  /\ asking.state = "sent"
  /\ \E w \in Works \ granted :
       granted' = granted \cup {w} /\ asking' = [asking EXCEPT !.state = "granted", !.work = w]
  /\ UNCHANGED <<phase, slotVars, chain, loop, reports, workDisk, daemonCrashes>>

\* The slots are looked at again after the await.
HasSlot_Before == TRUE
HasSlot == FreeSlots > 0

\* The answer of a claim arrives, whatever the phase is by now; without a free slot it is
\* dropped.  It may also be a refusal or an error.
ClaimAnswered ==
  LET w == asking.work IN
  /\ asking # NotAsking /\ asking' = NotAsking
  /\ loop' = IF asking.awaited THEN [loop EXCEPT !.at = "inbox"] ELSE loop
  /\ \/ UNCHANGED <<slotVars, chain, journal>>
     \/ /\ asking.state = "granted" /\ token' = token \cup {w}
        /\ IF HasSlot THEN Adopt({w}) ELSE UNCHANGED <<busy, watch, chain, journal>>
  /\ UNCHANGED <<phase, granted, reports, recovery, daemonCrashes>>

\* The calls of the executor carry the token while it is in the cache, and the hub
\* refuses them without; every failure ends the chain.
NextLink(w) == CASE chain[w] = "prepare" -> "execute"
                 [] chain[w] = "execute" -> "finalize"
                 [] chain[w] = "finalize" -> "report"
                 [] OTHER -> "over"
ChainStep(w) ==
  /\ chain[w] \notin {"none", "over"}
  /\ \E link \in {NextLink(w), "over"} :
       /\ link \in {"finalize", "report"} => w \in token
       /\ chain' = [chain EXCEPT ![w] = link]
  /\ UNCHANGED <<phase, granted, asking, slotVars, loop, reports, workDisk, daemonCrashes>>

DaemonNext ==
  \/ Boot \/ Dies \/ Tick \/ ClaimTick \/ Inbox \/ Visited \/ SendReports \/ Beat
  \/ DrainProgress \/ WakeClaim \/ HubGrants \/ ClaimAnswered
  \/ \E w \in Works : Visit(w) \/ RenewAnswered(w) \/ ChainStep(w)
DaemonSpec == DaemonInit /\ [][DaemonNext]_daemonVars

-----------------------------------------------------------------------------
(* Properties.                                                             *)

\* Every occupied slot has an attempt that the watchdog visits, and the other way round:
\* no slot leaks and no attempt is left unwatched, in whatever order claims are answered.
SlotsAreWatched == busy = Watched

\* An attempt that was adopted is watched, or its end is in the ledger, or a successor
\* has found it: a crash loses none.
AdoptedIsKnown ==
  \A w \in Works : Runs /\ journal[w] = "adopted" => w \in Watched \cup recovery


\* After an attempt was stopped, its executor begins nothing at the hub any more.
StoppedBeginsNothing ==
  [][\A w \in Works :
       watch[w] \in {"stopped", "lease_lost"} /\ chain'[w] \in {"finalize", "report"}
         => chain'[w] = chain[w]]_daemonVars

\* No attempt is out of the daemon's sight, and none goes on behind its back.
DaemonIsSafe == [](SlotsAreWatched /\ AdoptedIsKnown) /\ StoppedBeginsNothing

\* A drained daemon holds no attempt (docs/distributed-multi-node-development-plan.md,
\* 10.5: no claims after the drain began, and the running attempts are brought to an end).
DrainedHoldsNothing == phase = "drained" => busy = {}

\* A slot runs one task at a time (same document, 11.2).
SlotsHoldTheWork == Cardinality({w \in Works : chain[w] = "execute"}) <= Slots
=============================================================================
