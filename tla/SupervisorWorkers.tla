-------------------------- MODULE SupervisorWorkers --------------------------
(***************************************************************************)
(* The supervisor of one machine: one loop of rounds that reads the hub,   *)
(* and one coordinator that claims work for all local agent slots only     *)
(* when a doorbell was rung.  Nothing polls the queue: work nobody rang    *)
(* for stays where it is.                                                  *)
(*                                                                         *)
(* JavaScript runs one piece at a time, so an action is what happens from  *)
(* one await to the next.  The hub is seen as far as the supervisor sees   *)
(* it: the tasks of one plan, and the number of events that ring workers.  *)
(***************************************************************************)
EXTENDS Naturals, FiniteSets

CONSTANTS
  Jobs,              \* the tasks of the plan
  SlotCount, Cap,    \* slots of the coordinator, the most that run at once
  Transports,        \* how rounds read the hub: "tick" or "endpoints"
  NoJob, NoRun, NoAnswer,
  TroubleBound       \* bound on failed calls and lost answers

RoundAnswer == [pending : Nat, live : BOOLEAN, events : Nat, reclaimed : BOOLEAN, read : SUBSET {"plans", "events", "reconcile"}]
ScheduleRun == [at : Nat, owner : {"round", "microtask"}, reply : Jobs \cup {NoJob}, busy : BOOLEAN]

ASSUME SupervisorAssumption ==
  /\ SlotCount \in Nat \ {0} /\ Cap \in Nat \ {0} /\ TroubleBound \in Nat
  /\ IsFiniteSet(Jobs) /\ NoJob \notin Jobs /\ NoRun \notin ScheduleRun

Slots == 1 .. SlotCount

VARIABLES
  job,         \* the hub: each task's state
  strayed,     \* tasks that are claimed although no slot works on them
  posted,      \* the hub: events of the types that ring workers
  transport,   \* of this process
  stage,       \* what the supervisor loop is at
  got,         \* the answers this round has read
  seen,        \* events processed
  counted,     \* pending tasks at the last round
  asked,       \* scheduleRequested
  again,       \* a microtask is queued that schedules once more
  run,         \* the schedule under way
  claimed,     \* the task each slot runs
  started,     \* every slot is registered
  session,     \* each slot's registration
  life, why,   \* the coordinator: on, stopping or off, and the reason
  aborted,     \* the process received its signal
  miscounted,  \* history: a task counted as pending was claimed before the round used its count
  troubles

roundVars == <<stage, got, seen, counted, transport>>
workerVars == <<asked, again, run, claimed, started, session, life, why>>
supervisorVars == <<job, strayed, posted, roundVars, workerVars, aborted, miscounted, troubles>>

SupervisorTypeOK ==
  /\ job \in [Jobs -> {"absent", "waiting", "open", "held", "closed"}]
  /\ strayed \in SUBSET Jobs
  /\ posted \in Nat /\ seen \in Nat /\ counted \in Nat /\ troubles \in Nat
  /\ transport \in Transports
  /\ stage \in {"wait", "reading", "read", "presence", "call", "await", "closing", "rest"}
  /\ got \in RoundAnswer \cup {NoAnswer}
  /\ run \in ScheduleRun \cup {NoRun}
  /\ claimed \in [Slots -> Jobs \cup {NoJob}]
  /\ session \in [Slots -> {"new", "online", "ended"}]
  /\ life \in {"on", "stopping", "off"} /\ why \in {"none", "terminal", "signal"}
  /\ {asked, again, started, aborted, miscounted} \subseteq BOOLEAN

SupervisorInit ==
  /\ job = [j \in Jobs |-> "absent"] /\ strayed = {}
  /\ posted = 0 /\ seen = 0 /\ counted = 0 /\ troubles = 0
  /\ transport \in Transports
  /\ stage = "wait" /\ got = NoAnswer
  /\ asked = TRUE /\ again = FALSE /\ run = NoRun
  /\ claimed = [s \in Slots |-> NoJob]
  /\ started = FALSE /\ session = [s \in Slots |-> "new"]
  /\ life = "on" /\ why = "none"
  /\ aborted = FALSE /\ miscounted = FALSE

JobsIn(st) == {j \in Jobs : job[j] \in st}
Pending == Cardinality(JobsIn({"waiting", "open"}))
PlanIsLive == JobsIn({"waiting", "open", "held"}) # {}
Working == {s \in Slots : claimed[s] # NoJob}
Stays(on) == IF on THEN UNCHANGED troubles ELSE troubles < TroubleBound /\ troubles' = troubles + 1

-----------------------------------------------------------------------------
(* The hub *)

\* Submitting a task posts none of the events that ring workers.
Submit(j) ==
  /\ job[j] = "absent"
  /\ \E st \in {"waiting", "open"} : job' = [job EXCEPT ![j] = st]
  /\ UNCHANGED <<strayed, posted, roundVars, workerVars, aborted, miscounted, troubles>>

\* A dependency is accepted, or ownership released: the task may be claimed.
Satisfy(j) ==
  /\ job[j] = "waiting"
  /\ job' = [job EXCEPT ![j] = "open"]
  /\ posted' = posted + 1
  /\ UNCHANGED <<strayed, roundVars, workerVars, aborted, miscounted, troubles>>

Withdraw(j) ==
  /\ job[j] \in {"waiting", "open"}
  /\ Stays(FALSE)
  /\ job' = [job EXCEPT ![j] = "closed"]
  /\ UNCHANGED <<strayed, posted, roundVars, workerVars, aborted, miscounted>>

-----------------------------------------------------------------------------
(* The rounds *)

\* wake() is mute while the coordinator stops or is off.
Rings == asked \/ life = "on"

\* The timer ends the wait, or a doorbell, or an event of the stream: the round
\* may begin at any time.
WaitEnds == stage = "wait" /\ ~aborted

Begin ==
  /\ WaitEnds
  /\ stage' = "reading"
  /\ got' = [pending |-> 0, live |-> FALSE, events |-> seen, reclaimed |-> FALSE, read |-> {}]
  /\ UNCHANGED <<job, strayed, posted, seen, counted, transport, workerVars, aborted, miscounted, troubles>>

Reads(what) ==
  /\ stage = "reading" /\ what \notin got.read
  /\ UNCHANGED <<stage, seen, counted, transport, workerVars, aborted, miscounted, troubles>>

ReadPlans ==
  /\ Reads("plans")
  /\ got' = [got EXCEPT !.read = @ \cup {"plans"}, !.pending = Pending, !.live = PlanIsLive]
  /\ UNCHANGED <<job, strayed, posted>>

\* The aggregated tick asks for events only behind a cursor, and the cursor
\* only moves with events.
TickEvents == seen
ReadEvents ==
  /\ Reads("events")
  /\ got' = [got EXCEPT !.read = @ \cup {"events"},
                        !.events = IF transport = "tick" THEN TickEvents ELSE posted]
  /\ UNCHANGED <<job, strayed, posted>>

\* The reconciliation takes claimed tasks back whose lease has run out.
ReadReconcile ==
  /\ Reads("reconcile")
  /\ \E lapsed \in SUBSET strayed :
       /\ strayed' = strayed \ lapsed
       /\ job' = [j \in Jobs |-> IF j \in lapsed THEN "open" ELSE job[j]]
       /\ got' = [got EXCEPT !.read = @ \cup {"reconcile"}, !.reclaimed = lapsed # {}]
  /\ UNCHANGED posted

\* One call fails: nothing of the round is used, it is repeated later.
ReadFails ==
  /\ stage = "reading" /\ Stays(FALSE)
  /\ stage' = "wait" /\ got' = NoAnswer
  /\ UNCHANGED <<job, strayed, posted, seen, counted, transport, workerVars, aborted, miscounted>>

\* A plan whose pending count has grown since the last round has new work.
AddedWork == got.live /\ got.pending > counted
NeedsRing == got.events > seen \/ got.reclaimed \/ AddedWork

Process ==
  /\ stage = "reading" /\ got.read = {"plans", "events", "reconcile"}
  /\ stage' = "read"
  /\ seen' = got.events /\ counted' = got.pending
  /\ asked' = IF NeedsRing THEN Rings ELSE asked
  /\ UNCHANGED <<job, strayed, posted, got, transport, again, run, claimed, started,
                 session, life, why, aborted, miscounted, troubles>>

\* The plan is closed: the round takes the slots offline before it ends.
PlanClosed ==
  /\ stage = "read" /\ ~got.live
  /\ stage' = "closing" /\ got' = NoAnswer
  /\ asked' = FALSE
  /\ IF life = "off" THEN UNCHANGED <<life, why>> ELSE life' = "stopping" /\ why' = "terminal"
  /\ UNCHANGED <<job, strayed, posted, seen, counted, transport, again, run, claimed, started,
                 session, aborted, miscounted, troubles>>

\* Work has come back after the slots went offline: new sessions, one doorbell.
Revives == life = "off" /\ why = "terminal" /\ ~aborted /\ Working = {}
PlanActive_Silently ==
  /\ stage = "read" /\ got.live
  /\ stage' = "presence" /\ got' = NoAnswer
  /\ IF Revives
     THEN life' = "on" /\ why' = "none" /\ session' = [s \in Slots |-> "new"] /\ UNCHANGED asked
     ELSE UNCHANGED <<life, why, session, asked>>
  /\ UNCHANGED <<job, strayed, posted, seen, counted, transport, again, run, claimed, started,
                 aborted, miscounted, troubles>>
PlanActive ==
  /\ stage = "read" /\ got.live
  /\ stage' = "presence" /\ got' = NoAnswer
  /\ IF Revives
     THEN life' = "on" /\ why' = "none" /\ session' = [s \in Slots |-> "new"] /\ asked' = TRUE
     ELSE UNCHANGED <<life, why, session, asked>>
  /\ UNCHANGED <<job, strayed, posted, seen, counted, transport, again, run, claimed, started,
                 aborted, miscounted, troubles>>

\* Slots are registered in order; a refusal, or the start of a shutdown, leaves
\* the rest for the next time.
Registers(upto) ==
  IF started THEN upto = SlotCount /\ UNCHANGED <<started, session>>
  ELSE /\ session' = [s \in Slots |-> IF s <= upto THEN "online" ELSE session[s]]
       /\ started' = (upto = SlotCount)

Alive == life = "on" /\ ~aborted

Presence(upto) ==
  /\ stage = "presence"
  /\ stage' = "call"
  /\ IF Alive THEN Registers(upto) /\ Stays(upto = SlotCount)
     ELSE upto = SlotCount /\ UNCHANGED <<started, session, troubles>>
  /\ UNCHANGED <<job, strayed, posted, got, seen, counted, transport, asked, again, run,
                 claimed, life, why, aborted, miscounted>>

\* The doorbell is taken down before the schedule begins, so that one rung while
\* it runs is kept.
\* The round awaits the schedule, unless there is none to start.
MayRun == asked /\ run = NoRun /\ Alive
NewRun(owner) == [at |-> 0, owner |-> owner, reply |-> NoJob, busy |-> FALSE]
CallSchedule ==
  /\ stage = "call"
  /\ IF MayRun THEN stage' = "await" /\ asked' = FALSE /\ run' = NewRun("round")
     ELSE stage' = "wait" /\ UNCHANGED <<asked, run>>
  /\ UNCHANGED <<job, strayed, posted, got, seen, counted, transport, again, claimed, started,
                 session, life, why, aborted, miscounted, troubles>>

\* The process is signalled, or every plan is closed: the loop ends and the
\* slots go offline; a resident process starts the loop again later.
Stop ==
  /\ stage = "wait" /\ aborted
  /\ stage' = "closing"
  /\ asked' = FALSE
  /\ IF life = "off" THEN UNCHANGED <<life, why>> ELSE life' = "stopping" /\ why' = "signal"
  /\ UNCHANGED <<job, strayed, posted, got, seen, counted, transport, again, run, claimed,
                 started, session, aborted, miscounted, troubles>>

\* offlineAll waits for the schedule and for every slot before it says so.
Drained_Slots == Working = {}
Drained == run = NoRun /\ Working = {}
GoOffline ==
  /\ life = "stopping" /\ Drained
  /\ life' = "off"
  /\ session' = [s \in Slots |-> IF session[s] = "online" THEN "ended" ELSE session[s]]
  /\ started' = FALSE
  /\ UNCHANGED <<job, strayed, posted, roundVars, asked, again, run, claimed, why, aborted, miscounted,
                 troubles>>

EndLoop ==
  /\ stage = "closing" /\ life = "off"
  /\ stage' = IF aborted THEN "rest" ELSE "wait"
  /\ UNCHANGED <<job, strayed, posted, got, seen, counted, transport, workerVars, aborted, miscounted,
                 troubles>>

Signal ==
  /\ ~aborted /\ aborted' = TRUE
  /\ UNCHANGED <<job, strayed, posted, roundVars, workerVars, miscounted, troubles>>

-----------------------------------------------------------------------------
(* The schedule *)

Microtask ==
  /\ again /\ again' = FALSE
  /\ IF MayRun THEN asked' = FALSE /\ run' = NewRun("microtask") ELSE UNCHANGED <<asked, run>>
  /\ UNCHANGED <<job, strayed, posted, roundVars, claimed, started, session, life, why,
                 aborted, miscounted, troubles>>

\* Whoever rang while it ran gets one more schedule.
Returns ==
  /\ run' = NoRun
  /\ stage' = IF run.owner = "round" THEN "wait" ELSE stage
  /\ again' = (again \/ (asked /\ Alive))

\* A refusal ends the schedule; nobody catches it in a microtask, and the process
\* dies with its workers.
RunRegisters(upto) ==
  /\ run # NoRun /\ run.at = 0
  /\ IF life = "on" THEN Registers(upto) /\ Stays(upto = SlotCount)
     ELSE upto = SlotCount /\ UNCHANGED <<started, session, troubles>>
  /\ IF upto = SlotCount
     THEN run' = [run EXCEPT !.at = 1] /\ UNCHANGED <<stage, again, claimed, strayed>>
     ELSE IF run.owner = "round" THEN Returns /\ UNCHANGED <<claimed, strayed>>
     ELSE /\ run' = NoRun /\ again' = FALSE /\ stage' = "rest"
          /\ strayed' = strayed \cup {claimed[s] : s \in Working}
          /\ claimed' = [s \in Slots |-> NoJob]
  /\ UNCHANGED <<job, posted, got, seen, counted, transport, asked, life, why, aborted, miscounted>>

\* No slot is left, the shutdown has begun, or as many run as may.
Ends == run.at > SlotCount \/ ~Alive \/ Cardinality(Working) >= Cap
ScheduleEnds ==
  /\ run # NoRun /\ run.at > 0 /\ ~run.busy
  /\ Ends
  /\ Returns
  /\ UNCHANGED <<job, strayed, posted, got, seen, counted, transport, asked, claimed, started,
                 session, life, why, aborted, miscounted, troubles>>

SkipBusy ==
  /\ run # NoRun /\ run.at > 0 /\ ~run.busy /\ ~Ends
  /\ claimed[run.at] # NoJob
  /\ run' = [run EXCEPT !.at = @ + 1]
  /\ UNCHANGED <<job, strayed, posted, roundVars, asked, again, claimed, started, session,
                 life, why, aborted, miscounted, troubles>>

\* The claim reaches the hub, which grants a task if there is one; then the
\* answer comes back, or is lost on its way.
SendClaim ==
  /\ run # NoRun /\ run.at > 0 /\ ~run.busy /\ ~Ends
  /\ claimed[run.at] = NoJob
  /\ \/ \E j \in JobsIn({"open"}) :
          /\ job' = [job EXCEPT ![j] = "held"]
          /\ run' = [run EXCEPT !.busy = TRUE, !.reply = j]
          /\ miscounted' = (miscounted \/ (stage = "reading" /\ "plans" \in got.read))
     \/ /\ JobsIn({"open"}) = {} \/ session[run.at] # "online"
        /\ run' = [run EXCEPT !.busy = TRUE]
        /\ UNCHANGED <<job, miscounted>>
  /\ UNCHANGED <<strayed, posted, roundVars, asked, again, claimed, started, session, life,
                 why, aborted, troubles>>

TakeAnswer ==
  /\ run # NoRun /\ run.busy
  /\ run' = [run EXCEPT !.busy = FALSE, !.reply = NoJob, !.at = @ + 1]
  /\ claimed' = [claimed EXCEPT ![run.at] = run.reply]
  /\ UNCHANGED <<job, strayed, posted, roundVars, asked, again, started, session, life, why,
                 aborted, miscounted, troubles>>

LoseAnswer ==
  /\ run # NoRun /\ run.busy /\ Stays(FALSE)
  /\ run' = [run EXCEPT !.busy = FALSE, !.reply = NoJob, !.at = @ + 1]
  /\ strayed' = strayed \cup ({run.reply} \ {NoJob})
  /\ UNCHANGED <<job, posted, roundVars, asked, again, claimed, started, session, life, why,
                 aborted, miscounted>>

\* The slot's worker ends: with its report, or stopped or failed without one.
\* Then it rings, unless the coordinator shuts down.
Settle(s, reported) ==
  /\ claimed[s] # NoJob
  /\ reported \/ aborted \/ troubles < TroubleBound
  /\ troubles' = IF reported \/ aborted THEN troubles ELSE troubles + 1
  /\ claimed' = [claimed EXCEPT ![s] = NoJob]
  /\ IF reported
     THEN /\ job' = [job EXCEPT ![claimed[s]] = "closed"] /\ posted' = posted + 1
          /\ UNCHANGED strayed
     ELSE strayed' = strayed \cup {claimed[s]} /\ UNCHANGED <<job, posted>>
  /\ asked' = Rings
  /\ UNCHANGED <<roundVars, again, run, started, session, life, why, aborted, miscounted>>

-----------------------------------------------------------------------------

SupervisorNext ==
  \/ \E j \in Jobs : Submit(j) \/ Satisfy(j) \/ Withdraw(j)
  \/ Begin \/ ReadPlans \/ ReadEvents \/ ReadReconcile \/ ReadFails \/ Process
  \/ PlanClosed \/ PlanActive \/ CallSchedule \/ Stop \/ GoOffline \/ EndLoop \/ Signal
  \/ \E upto \in 0 .. SlotCount : Presence(upto) \/ RunRegisters(upto)
  \/ Microtask \/ ScheduleEnds \/ SkipBusy \/ SendClaim \/ TakeAnswer \/ LoseAnswer
  \/ \E s \in Slots, reported \in BOOLEAN : Settle(s, reported)

SupervisorSpec == SupervisorInit /\ [][SupervisorNext]_supervisorVars

-----------------------------------------------------------------------------
(* Properties *)

\* Once the slots are reported offline nothing of theirs is left: no worker, no
\* schedule, no claim on its way, no session the hub believes to be online.
OfflineIsQuiet ==
  life = "off" => /\ run = NoRun /\ Working = {} /\ ~asked
                  /\ \A s \in Slots : session[s] # "online"

\* One slot's task is never another's, and no more run than may.
WorkIsShared ==
  /\ Cardinality(Working) <= Cap
  /\ \A r, s \in Working : claimed[r] = claimed[s] => r = s
  /\ \A s \in Working : job[claimed[s]] = "held" /\ claimed[s] \notin strayed

\* Something will make an idle slot ask for open work: an event or a count that
\* is still to be read, a doorbell, a slot that rings when its task is done, or a
\* schedule that has a slot to pass yet.  An event no round ever asks for rings nobody.
SlotToPass == run # NoRun /\ run.at <= SlotCount /\ ~(run.busy /\ run.at = SlotCount)
Granted == run # NoRun /\ run.reply # NoJob
WillBeNoticed ==
  \/ transport = "endpoints" /\ posted > seen
  \/ Pending > counted \/ asked \/ SlotToPass \/ Granted \/ Working # {}
  \/ life # "on"

\* No call fails, nothing is withdrawn and no round uses a count that a claim has
\* outdated: open work never waits for an idle supervisor that nobody will ring.
ClaimableIsAnnounced ==
  JobsIn({"open"}) # {} /\ ~miscounted /\ troubles = 0 /\ ~aborted => WillBeNoticed

SupervisorIsSafe == OfflineIsQuiet /\ WorkIsShared /\ ClaimableIsAnnounced

\* Open work is announced whatever the schedules claim while a round reads (a task that
\* becomes claimable wakes the workers at once, supervisor.ts, processEventsAndReconciliation).
OpenWorkIsAnnounced ==
  JobsIn({"open"}) # {} /\ troubles = 0 /\ ~aborted => WillBeNoticed
=============================================================================
