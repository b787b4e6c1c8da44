--------------------------- MODULE WorkerExecution ---------------------------
(***************************************************************************)
(* What a worker does between the claim of a task and the end of its       *)
(* attempt: it checks the files it was given, runs the agent in the shared *)
(* work tree, finds out which changes were its own, and reports a verdict. *)
(* Requests may be lost on the way to the hub, answers on the way back.    *)
(*                                                                         *)
(* Of the hub there is only what the worker can see: the status, claimer   *)
(* and token of a task, and who owns a file.  The workers are the slots of *)
(* one process: they share the work tree and the bound work directories,    *)
(* and give way at once when a file of theirs is another's.                 *)
(***************************************************************************)
EXTENDS Naturals, FiniteSets

CONSTANTS
  Slots, Jobs, Files,
  Owns(_),           \* the files a task may change
  Rank(_),           \* the priority of a task
  TokenBound, TroubleBound,   \* troubles: leases that lapse, messages lost, slots stopped
  NoSlot, NoJob

ASSUME ExecutionAssumption ==
  /\ \A j \in Jobs : Owns(j) \subseteq Files /\ Rank(j) \in Nat
  /\ NoSlot \notin Slots /\ NoJob \notin Jobs
  /\ TokenBound \in Nat /\ TroubleBound \in Nat

VARIABLES
  job,        \* the hub's record of each task
  owner,      \* the task and the slot each file belongs to at the hub
  tokens,     \* the number of claim tokens issued
  slot,       \* the attempt of each slot
  claimFile,  \* .claim.json in the work directory of each task: its token, or 0
  progress,   \* .progress.json there
  bound,      \* the work directories the process holds a trusted context for
  troubles

executionVars == <<job, owner, tokens, slot, claimFile, progress, bound, troubles>>

Status == {"pending", "running", "blocked", "done", "failed"}
Phases == {"idle", "granted", "checking", "preempting", "yielding", "yielded", "lease", "listing", "working",
           "attributing", "asking", "asked", "reporting", "sent", "failing", "failSent", "leaving", "gone"}
Delivery == {"none", "pending", "reported", "confirmed", "rejected", "unknown"}
Stages == {"none", "claimed", "running", "verifying", "reporting", "blocked", "finished", "failed"}

Free == [job |-> NoJob, slot |-> NoSlot]
Attempt == [at : Phases, job : Jobs \cup {NoJob}, token : 0 .. TokenBound, left : SUBSET Files,
            changed : SUBSET Files,        \* what differs from the snapshot before the run
            mine : SUBSET Files,           \* history: what this agent wrote
            told : SUBSET Files,           \* what the agent says it wrote
            lanes : SUBSET Files,          \* owned by others when the run began
            others : SUBSET Files,         \* history: owned by another during the run
            outcome : {"none", "clean", "question", "error"},
            verdict : {"none", "done", "failed"},
            said : SUBSET {"done", "failed"},   \* history: the verdicts sent for this claim
            took : BOOLEAN, stopped : BOOLEAN]

NoAttempt == [at |-> "idle", job |-> NoJob, token |-> 0, left |-> {}, changed |-> {}, mine |-> {}, told |-> {},
              lanes |-> {}, others |-> {}, outcome |-> "none", verdict |-> "none", said |-> {},
              took |-> FALSE, stopped |-> FALSE]

ExecutionTypeOK ==
  /\ job \in [Jobs -> [status : Status, by : Slots \cup {NoSlot}, token : 0 .. TokenBound]]
  /\ owner \in [Files -> [job : Jobs \cup {NoJob}, slot : Slots \cup {NoSlot}]]
  /\ tokens \in 0 .. TokenBound
  /\ slot \in [Slots -> Attempt]
  /\ claimFile \in [Jobs -> 0 .. TokenBound]
  /\ progress \in [Jobs -> [token : 0 .. TokenBound, stage : Stages, verdict : {"none", "done", "failed"},
                            delivery : Delivery]]
  /\ bound \subseteq Jobs
  /\ troubles \in 0 .. TroubleBound

ExecutionInit ==
  /\ job = [j \in Jobs |-> [status |-> "pending", by |-> NoSlot, token |-> 0]]
  /\ owner = [f \in Files |-> Free] /\ tokens = 0
  /\ slot = [s \in Slots |-> NoAttempt]
  /\ claimFile = [j \in Jobs |-> 0]
  /\ progress = [j \in Jobs |-> [token |-> 0, stage |-> "none", verdict |-> "none", delivery |-> "none"]]
  /\ bound = {} /\ troubles = 0

-----------------------------------------------------------------------------
(* The hub. *)

Trouble == troubles < TroubleBound /\ troubles' = troubles + 1

Mine(s) == slot[s].job
Holds(s) == job[Mine(s)].status = "running" /\ job[Mine(s)].token = slot[s].token
OfOther(s, f) == owner[f].slot \notin {NoSlot, s}
Released(j) == [f \in Files |-> IF owner[f].job = j THEN Free ELSE owner[f]]
Settled(s, status) ==
  /\ job' = [job EXCEPT ![Mine(s)].status = status]
  /\ owner' = Released(Mine(s))

\* Every slot whose run is under way sees who owned a file meanwhile.
InRun(s) == slot[s].at \in {"listing", "working", "attributing"}
Witnessed(held, sl) ==
  [s \in Slots |-> IF InRun(s) THEN [sl[s] EXCEPT !.others = @ \cup {f \in Files : held[f].slot \notin {NoSlot, s}}]
                   ELSE sl[s]]

\* A claim takes the files that are free or held by work of a lower rank.
May(j, f) == owner[f].job = NoJob \/ Rank(owner[f].job) < Rank(j)
Grant(s, j) ==
  LET held == [f \in Files |-> IF f \in Owns(j) THEN [job |-> j, slot |-> s] ELSE owner[f]] IN
  /\ job[j].status = "pending" /\ tokens < TokenBound
  /\ \A f \in Owns(j) : May(j, f)
  /\ tokens' = tokens + 1
  /\ job' = [job EXCEPT ![j] = [status |-> "running", by |-> s, token |-> tokens + 1]]
  /\ owner' = held
  /\ slot' = Witnessed(held, [slot EXCEPT ![s] =
       [NoAttempt EXCEPT !.at = "granted", !.job = j, !.token = tokens + 1, !.left = Owns(j),
                         !.stopped = slot[s].stopped]])

\* The lease of a task ends and the task is offered again.
Lapse(j) ==
  /\ job[j].status = "running" /\ Trouble
  /\ job' = [job EXCEPT ![j] = [status |-> "pending", by |-> NoSlot, token |-> 0]]
  /\ owner' = Released(j)
  /\ UNCHANGED <<tokens, slot, claimFile, progress, bound>>

\* The wait of a blocked task is over: a file was released, the question was answered.
Reopen(j) ==
  /\ job[j].status = "blocked"
  /\ job' = [job EXCEPT ![j] = [status |-> "pending", by |-> NoSlot, token |-> 0]]
  /\ UNCHANGED <<owner, tokens, slot, claimFile, progress, bound, troubles>>

-----------------------------------------------------------------------------
(* The worker. *)

Goes(s, at) == slot' = [slot EXCEPT ![s].at = at]
disk == <<claimFile, progress, bound>>
hub == <<job, owner, tokens>>

Writes(s, stage, verdict, delivery) ==
  progress' = [progress EXCEPT ![Mine(s)] =
    [token |-> slot[s].token, stage |-> stage, verdict |-> verdict, delivery |-> delivery]]

\* The claim file is removed through the bound context; without one that is denied,
\* which ends the loop of the slot.
Clear_AsFailure(s) ==
  IF Mine(s) \in bound
  THEN claimFile' = [claimFile EXCEPT ![Mine(s)] = 0] /\ Goes(s, "leaving")
  ELSE UNCHANGED claimFile /\ Goes(s, "failing")
Clear(s) ==
  IF Mine(s) \in bound
  THEN claimFile' = [claimFile EXCEPT ![Mine(s)] = 0] /\ Goes(s, "leaving")
  ELSE UNCHANGED claimFile /\ Goes(s, "gone")

Claim(s, j) ==
  /\ slot[s].at = "idle" /\ ~slot[s].stopped
  /\ Grant(s, j)
  /\ UNCHANGED <<disk, troubles>>

\* The slot is stopped while its claim is under way: nobody takes the answer.
AbandonClaim(s) ==
  /\ slot[s].at = "granted" /\ slot[s].stopped
  /\ slot' = [slot EXCEPT ![s] = [NoAttempt EXCEPT !.at = "gone", !.stopped = TRUE]]
  /\ UNCHANGED <<hub, disk, troubles>>

Begin(s) ==
  /\ slot[s].at = "granted"
  /\ Writes(s, "claimed", "none", "none")
  /\ claimFile' = [claimFile EXCEPT ![Mine(s)] = slot[s].token]
  /\ bound' = bound \cup {Mine(s)}
  /\ Goes(s, "checking")
  /\ UNCHANGED <<hub, troubles>>

\* One of the task's files is asked for at the hub.
CheckFile(s) ==
  /\ slot[s].at = "checking"
  /\ \E f \in slot[s].left :
       IF ~OfOther(s, f) THEN slot' = [slot EXCEPT ![s].left = @ \ {f}]
       ELSE IF Rank(Mine(s)) > Rank(owner[f].job) THEN Goes(s, "preempting")
       ELSE Goes(s, "yielding")
  /\ UNCHANGED <<hub, disk, troubles>>

AllChecked(s) ==
  /\ slot[s].at = "checking" /\ slot[s].left = {}
  /\ Goes(s, "lease")
  /\ UNCHANGED <<hub, disk, troubles>>

\* The owner may have changed since the check.
Preempt(s) ==
  /\ slot[s].at = "preempting"
  /\ \E f \in slot[s].left :
       LET held == [owner EXCEPT ![f] = [job |-> Mine(s), slot |-> s]] IN
       IF Holds(s) /\ (~OfOther(s, f) \/ May(Mine(s), f))
       THEN /\ owner' = held
            /\ slot' = Witnessed(held, [slot EXCEPT ![s].at = "checking", ![s].left = @ \ {f}])
       ELSE UNCHANGED owner /\ Goes(s, "yielding")
  /\ UNCHANGED <<job, tokens, disk, troubles>>

Yield(s) ==
  /\ slot[s].at = "yielding"
  /\ IF Holds(s) THEN Settled(s, "blocked") /\ Goes(s, "yielded")
     ELSE UNCHANGED <<job, owner>> /\ Goes(s, "failing")
  /\ UNCHANGED <<tokens, disk, troubles>>

Yielded(s) ==
  /\ slot[s].at = "yielded"
  /\ Clear(s) /\ Writes(s, "blocked", "none", "none")
  /\ UNCHANGED <<hub, bound, troubles>>

\* The task has to be running and this slot's; the token cannot be asked for.
CheckLease(s) ==
  /\ slot[s].at = "lease"
  /\ IF job[Mine(s)].status = "running" /\ job[Mine(s)].by = s
     THEN Goes(s, "listing") /\ Writes(s, "running", "none", "none")
     ELSE Goes(s, "leaving") /\ Writes(s, "failed", "none", "none")
  /\ UNCHANGED <<hub, claimFile, bound, troubles>>

\* Between the snapshot of the files and the start of the agent the owners are listed.
ListOwners(s) ==
  /\ slot[s].at = "listing"
  /\ slot' = [slot EXCEPT ![s].at = "working", ![s].lanes = {f \in Files : OfOther(s, f)},
                          ![s].others = @ \cup {f \in Files : OfOther(s, f)}]
  /\ UNCHANGED <<hub, disk, troubles>>

\* The agent writes a file.  Every run under way will see the change.
Edit(s, f) ==
  /\ slot[s].at = "working" /\ f \notin slot[s].mine
  /\ slot' = [x \in Slots |->
       IF x = s THEN [slot[x] EXCEPT !.mine = @ \cup {f}, !.changed = @ \cup {f}]
       ELSE IF slot[x].at \in {"listing", "working"} THEN [slot[x] EXCEPT !.changed = @ \cup {f}]
       ELSE slot[x]]
  /\ UNCHANGED <<hub, disk, troubles>>

\* The agent ends and names some of the files it wrote; a second snapshot is taken.
Finish(s) ==
  /\ slot[s].at = "working"
  /\ \E told \in SUBSET slot[s].mine, outcome \in {"clean", "question", "error"} :
       slot' = [slot EXCEPT ![s].at = "attributing", ![s].told = told, ![s].outcome = outcome]
  /\ UNCHANGED <<hub, disk, troubles>>

\* The executor throws.
Throw(s) ==
  /\ slot[s].at = "working"
  /\ Goes(s, "failing")
  /\ UNCHANGED <<hub, disk, troubles>>

\* A change is another's if the agent does not name it and another owned the file
\* when the run began, or owns it now.
Attributed_ByOwner(s) == {f \in slot[s].changed : f \notin slot[s].lanes /\ ~OfOther(s, f)}
Attributed(s) ==
  {f \in slot[s].changed : f \in slot[s].told \/ (f \notin slot[s].lanes /\ ~OfOther(s, f))}
Violations(s) == Attributed(s) \ Owns(Mine(s))

Stopped(s) == slot[s].stopped

\* A stopped run leaves everything to its lease; a question goes to the PM;
\* otherwise the verification commands run and the result is written.
Attribute(s) ==
  /\ slot[s].at = "attributing" /\ ~Stopped(s)
  /\ IF slot[s].outcome = "question"
     THEN Goes(s, "asking") /\ UNCHANGED <<progress, bound>>
     ELSE \E passed \in BOOLEAN :
          LET verdict == IF slot[s].outcome = "clean" /\ Violations(s) = {} /\ passed THEN "done" ELSE "failed" IN
          /\ slot' = [slot EXCEPT ![s].at = "reporting", ![s].verdict = verdict, ![s].changed = {}, ![s].lanes = {}]
          /\ bound' = bound \cup {Mine(s)}
          /\ Writes(s, "reporting", verdict, "pending")
  /\ UNCHANGED <<hub, claimFile, troubles>>

LeaveRunning(s) ==
  /\ slot[s].at \in {"attributing", "failing"} /\ Stopped(s)
  /\ Goes(s, "gone")
  /\ bound' = bound \ {Mine(s)}
  /\ UNCHANGED <<hub, claimFile, progress, troubles>>

Ask(s) ==
  /\ slot[s].at = "asking"
  /\ IF Holds(s) THEN Settled(s, "blocked") /\ Goes(s, "asked")
     ELSE UNCHANGED <<job, owner>> /\ Goes(s, "failing")
  /\ UNCHANGED <<tokens, disk, troubles>>

Asked(s) ==
  /\ slot[s].at = "asked"
  /\ Clear(s) /\ Writes(s, "blocked", "none", "none")
  /\ UNCHANGED <<hub, bound, troubles>>

\* The hub takes a report under the token of the running claim.
Report(s) ==
  /\ slot[s].at = "reporting"
  /\ IF Holds(s) THEN Settled(s, slot[s].verdict) ELSE UNCHANGED <<job, owner>>
  /\ slot' = [slot EXCEPT ![s].at = "sent", ![s].took = Holds(s), ![s].said = @ \cup {slot[s].verdict}]
  /\ UNCHANGED <<tokens, disk, troubles>>

\* A report whose fate is unknown is looked up, never replaced by another.
Confirmed_AnyAgent(s) == job[Mine(s)].status = slot[s].verdict
Confirmed(s) == job[Mine(s)].status = slot[s].verdict /\ job[Mine(s)].by = s
Ends(verdict) == IF verdict = "done" THEN "finished" ELSE "failed"

Reported(s) ==
  /\ slot[s].at = "sent"
  /\ IF slot[s].took \/ Confirmed(s)
     THEN /\ Clear(s)
          /\ Writes(s, Ends(slot[s].verdict), slot[s].verdict, IF slot[s].took THEN "reported" ELSE "confirmed")
     ELSE /\ Goes(s, "leaving") /\ UNCHANGED claimFile
          /\ Writes(s, "failed", slot[s].verdict, "rejected")
  /\ UNCHANGED <<hub, bound, troubles>>

\* The request, or its answer, is lost for good.
LoseReport(s) ==
  /\ slot[s].at = "reporting" /\ Trouble
  /\ slot' = [slot EXCEPT ![s].at = "sent", ![s].said = @ \cup {slot[s].verdict}]
  /\ UNCHANGED <<hub, disk>>
AnswerLost(s) ==
  /\ slot[s].at = "sent" /\ Trouble
  /\ IF Confirmed(s)
     THEN Clear(s) /\ Writes(s, Ends(slot[s].verdict), slot[s].verdict, "confirmed")
     ELSE /\ Goes(s, "leaving") /\ UNCHANGED claimFile
          /\ Writes(s, "reporting", slot[s].verdict, "unknown")
  /\ UNCHANGED <<hub, bound>>

\* An error on the way is reported as a failure of the task.
ReportFailure(s) ==
  /\ slot[s].at = "failing" /\ ~Stopped(s)
  /\ IF Holds(s) THEN Settled(s, "failed") ELSE UNCHANGED <<job, owner>>
  /\ slot' = [slot EXCEPT ![s].at = "failSent", ![s].took = Holds(s), ![s].said = @ \cup {"failed"}]
  /\ Writes(s, "reporting", "failed", "pending")
  /\ UNCHANGED <<tokens, claimFile, bound, troubles>>

FailureReported(s) ==
  /\ slot[s].at = "failSent"
  /\ IF slot[s].took THEN Clear(s) /\ Writes(s, "failed", "failed", "reported")
     ELSE /\ Goes(s, "leaving") /\ UNCHANGED claimFile
          /\ Writes(s, "failed", "failed", "rejected")
  /\ UNCHANGED <<hub, bound, troubles>>

\* At the end of the attempt the context of the directory is given back, whoever uses it.
Leave(s) ==
  /\ slot[s].at = "leaving"
  /\ bound' = bound \ {Mine(s)}
  /\ slot' = [slot EXCEPT ![s] = [NoAttempt EXCEPT !.at = IF Stopped(s) THEN "gone" ELSE "idle",
                                                   !.stopped = Stopped(s)]]
  /\ UNCHANGED <<hub, claimFile, progress, troubles>>

Stop(s) ==
  /\ slot[s].at # "gone" /\ ~Stopped(s) /\ Trouble
  /\ slot' = [slot EXCEPT ![s].stopped = TRUE]
  /\ UNCHANGED <<hub, disk>>

ExecutionNext ==
  \/ \E s \in Slots :
       \/ \E j \in Jobs : Claim(s, j)
       \/ \E f \in Files : Edit(s, f)
       \/ AbandonClaim(s) \/ Begin(s) \/ CheckFile(s) \/ AllChecked(s) \/ Preempt(s) \/ Yield(s) \/ Yielded(s)
       \/ CheckLease(s) \/ ListOwners(s) \/ Finish(s) \/ Throw(s) \/ Attribute(s) \/ LeaveRunning(s)
       \/ Ask(s) \/ Asked(s) \/ Report(s) \/ Reported(s) \/ LoseReport(s) \/ AnswerLost(s)
       \/ ReportFailure(s) \/ FailureReported(s) \/ Leave(s) \/ Stop(s)
  \/ \E j \in Jobs : Lapse(j) \/ Reopen(j)

ExecutionSpec == ExecutionInit /\ [][ExecutionNext]_executionVars

-----------------------------------------------------------------------------

\* The claim file names the work in hand; a slot removes it only when the hub has
\* settled the claim, however answers are lost on the way (clearClaimFile).
ClearedWhenSettled ==
  [][\A s \in Slots :
       slot[s].job # NoJob /\ claimFile'[Mine(s)] = 0 /\ claimFile[Mine(s)] # 0 /\ slot'[s].at # slot[s].at
       => ~Holds(s)]_executionVars

\* The verdict `done' says of the files: those the agent names are the task's, and any
\* other file it wrote belonged to another agent during the run (excludeChangesOwnedByOtherWorkers).
\* A claim has one verdict, whatever became of its report; the progress file says
\* `reported' or `confirmed' only of a claim the hub has closed with that verdict.
ExecutionIsSafe ==
  /\ [](\A s \in Slots : slot[s].verdict = "done" =>
          /\ slot[s].told \subseteq Owns(Mine(s))
          /\ slot[s].mine \ Owns(Mine(s)) \subseteq slot[s].others)
  /\ [](\A s \in Slots : Cardinality(slot[s].said) <= 1)
  /\ [](\A j \in Jobs : progress[j].delivery \in {"reported", "confirmed"} =>
          job[j].status = progress[j].verdict /\ job[j].token = progress[j].token)
  /\ ClearedWhenSettled

\* What does not hold.  The claim file of the attempt that runs is there: a slot
\* that gave way, or asked, removes it late and by name (clearClaimFile).
RunningHasClaimFile ==
  \A s \in Slots : InRun(s) /\ Holds(s) => claimFile[Mine(s)] = slot[s].token

\* Nor is a slot spared the changes of another that claimed and ended within its run.
OthersAreNotBlamed ==
  \A s \in Slots : slot[s].at = "attributing" => Violations(s) \subseteq slot[s].mine
=============================================================================
