# Biao in TLA+

Biao is a hub that hands work to coding agents. A plan is published as tasks;
worker processes claim a task, hold it under a lease and report it; a PM reviews
the result; what he rejects, or what fails, is repaired by further tasks; a
supervisor takes back work whose worker is gone. Around this core lie a mode in
which execution nodes work on git branches that the hub merges, the planning
tools of the command line, webhooks, credentials and a restore. The hub keeps
nothing in memory that matters: its state is in Redis (hashes, zsets, keys with a
TTL, Lua scripts, WATCH/MULTI transactions) and in SQLite. Correctness is
therefore a matter of what several handlers, processes and timers do to the same
keys between each other's steps.

This directory holds models of these parts, TLC configurations that check them on
small instances, and proofs that TLAPS checks for every value of the constants.
Paths are relative to `src/src/`. `S` is `server/service.ts`, `A` is
`server/v2/attempt-service.ts`, `O` is `redis/ownership.ts`, `W` is
`worker/base.ts`, `VR` is `server/v2/routes/v2-routes.ts`.

- [Inventory](#inventory)
- [How the models are made](#how-the-models-are-made)
- [Modules](#modules)
- [Runs](#runs)
- [Faulty variants](#faulty-variants)
- [Fairness](#fairness)
- [Proofs](#proofs)
- [Where code and documentation disagree](#where-code-and-documentation-disagree)
- [Observations](#observations)
- [What is not modelled](#what-is-not-modelled)

## Inventory

Handlers never call each other's memory, they meet in stored data. Three kinds of
steps exist, and the models keep them apart:

1. a Lua script, an executed WATCH/MULTI transaction, a synchronous handler over
   SQLite: atomic;
2. a handler that reads, decides in JavaScript, and then writes: two steps, and
   anything may happen between (`cancelTask`, `taskReset`,
   `exposeRecoverableRunningTasks`, every git operation);
3. a handler that commits and then has effects (release of files, wake-up of
   dependents, SQLite after Redis): the effects may be late, or lost in a crash.

| Part | State | Operations | What is hard | What makes it correct |
|---|---|---|---|---|
| Task claim, lease, report (`A`) | task hash, status zsets, `lease:<task>` | claim, renew, report, block, cancel | late calls of old claims; TTL and score run out at different moments | one claimant per task, old tokens fenced, results not lost, indexes agree |
| Claim reservation (`A`) | reservation key with TTL | reserve, renew, complete, replay | repeated requests that overtake each other | one running task per agent, one claim per request |
| Registration, heartbeat, offline (`S`, `W`) | agent hash, durable generations in SQLite | register, heartbeat, offline | two stores, two processes of one agent | only the newest session speaks for an agent |
| Stale work recovery (`S`, `O`) | lease, running score, `expire_at`, `retry_count` | expose, reclaim | judged by a hash read earlier; a surviving process renews | dead work comes back, live work is left alone |
| File ownership (`O`, `A`) | hash glob -> {agent, task, expiry} | activate with preemption, declare, release, renew | taken before the task, released after it, expires by itself | no two live claims overlap, only priority displaces, waiters go on |
| Questions, blocked tasks, dependencies (`A`, `S`) | question hash, open pointer, `block_reason` | ask, answer, block, wake, sweep, accept | repeated calls, wake-ups that meet a block under way | no question lost or doubled, no ready task forgotten |
| Repair resolution (`S`) | repair links, resolution state, replay markers | ensureRepairTask, review, decision, reconcile | six unlocked requests on one chain, each dozens of calls | one repair at a time, bounded, an accept takes effect |
| Acceptance reverification (`S`) | attempts and repairs of the sources | reverify, gate, continue, sweep | requests that die between writes | repair first, one live attempt, the PM asked at the limit |
| Supersede (`A`) | decision locks, previews, records | task, batch, plan, replay | dependents and reviews change after the preview | one verdict per delivery, answers durable |
| Plan submission (`S`, `plan/`) | files, task hashes, SQLite | check, preview, watch, exec, copy | the files and the tasks change meanwhile | what runs keeps its text, what was delivered stays |
| Wake-ups (`A`, `S`) | reservation, receipt, mark | reserve, wake, claim, fail, expire | receipt and claim race, files taken apart from the task | kept for one agent, redeemed once |
| Plan graph, glob overlap (`plan/`, `cli/`, `O`) | none: algorithms | cycles, waves, paths, classes, overlap | wildcards, cycles | agree with their definitions |
| Plan status (`S`) | task hashes | derive, project, intake, watchdog | several functions over one state | they agree, and the status is true |
| Event stream, PM intake (`S`) | stream, cursor, indexes | tail, ack, doorbell | two readers, ack during advance | no event skipped, rung once |
| Status projection (`S`) | counters, dirty set, revision | mark, rebuild, backfill | dirty while rebuilt | a clean aggregate is true |
| Restore and its gate (`S`, `server/maintenance.ts`) | permits, lock, barrier | acquire, drain, restore | failure half-way | nobody writes into a half restore |
| Supervisor (`worker/supervisor.ts`) | slots, counts, doorbells | round, schedule, claim, stop | the claim of a round outlives the round | work announced, no task in two slots |
| Doorbell of the PM (`scripts/*.mjs`, `worker/supervisor.ts`) | lock file, kernel lock, child processes | create, compare, unlink, ring, signal | single system calls, orphans | one agent per consumer |
| Worker loop (`W`) | slots, claim and progress files | check, run, attribute, report | a shared work tree, lost answers | done is only said of own changes, one verdict a claim |
| Distributed nodes (`server/v2/node-service.ts`, `VR`) | sessions, attempts, candidates | claim, renew, report, takeover | tokens of old attempts | one attempt executes, a takeover spares a newer one |
| Node daemon (`node/`) | slots, watchdog, ledger, recovery files | tick, claim, renew, report, boot | wake-ups beside the loop, crashes | what runs is watched, what is adopted is known |
| Git workspace (`server/v2/git/`) | workspace row, clone, remote branch | prepare, finalize | overlapping and repeated calls | one delivery, of a pushed commit |
| Merge queue, deliveries (`server/v2/merge*`) | deliveries, jobs, trunk | review, verify, enqueue, dispatch | the trunk moves, crash after push | merged is in the trunk |
| Change of mode (`server/v2/project-service.ts`) | transition rows, project | six steps, retry, expiry | crash between effect and row | steps in order, drained when read-only |
| Webhooks (`server/v2/webhook-service.ts`) | cursor, watermarks, rows | dispatch, post, retry | restarts between rows and cursor | no promised delivery passed over |
| Credentials (`server/v2/credentials.ts`, `human-identity.ts`) | key ring, sessions, codes, memberships | issue, rotate, sweep, restart | revocation meets rotation and restart | an ended token stays ended |
| Planning commands (`cli/planning.ts`) | the files of a plan | edit, add, intake, revise, submit | no lock, killed commands | failed edits undone, others' work kept |
| Project mapping (`migration/project-mapping.ts`) | bindings, audit | apply, rebind, rollback | several operators | audit without a gap, one Project per repository |

`PROJECT.json` lists all parts with their files and how much of each is modelled,
and under `hazards` the 40 places in the code where the hard behaviours bite,
each with the properties that watch it.

## How the models are made

Each component is a module of its own with its state, one action per atomic step,
its type invariant and its properties. Components that share no state are checked
in one run: an `MC` module EXTENDS several of them, has a variable `part` that the
first state chooses, and lets only the chosen component move. TLC then explores
the union of the components' state spaces, never their product, so that such a
run shows for each component exactly what a run of its own would.

Payloads, texts and names are model values; clocks are reduced to what a script
can tell apart (a lease that is live, exposed or past; a TTL that may lapse at any
moment). Counters the code does not cap have a constant that ends in `Bound`.
A variable marked `history` is read by properties only; no action's guard depends
on it except through a bound.

A definition named `X_What` beside a definition `X` is a faulty variant of `X`, the
kind of slip an edit of that code could make. No specification uses it; the table
under [Faulty variants](#faulty-variants) says which property notices which.
Some properties are stated with a comment that they do not hold: claims of the
documentation or of comments which TLC refutes. They are kept beside the
properties that hold, and [Observations](#observations) says what goes wrong.

## Modules

### Tasks and claims

**TaskLifecycle** - tasks from claim to result, with worker processes whose
heartbeats, renewals and reports come late, the supervisor's recovery, reset and
cancel.

| Model | Code |
|---|---|
| `status, claimedBy, doneAt, retries` | fields of `task:<id>` |
| `indexed[t]` | the status zsets in which `t` is a member |
| `lease[t]` | `lease:<id>`, the claim token; 0 when the key is missing |
| `deadline[t]` | score of the running zset and `expire_at` against now: `future`; `exposed`, score pulled to now and `expire_at` not; `past` |
| `registration, presence, current` | epoch, `status`, `current_task` of `agent:<id>` |
| `cancelling, resetting, exposing` | what `cancelTask`, `taskResetLocked`, `exposeRecoverableRunningTasks` have read and not yet acted on |
| `session, reply, hold, beat` | the newest worker process of an agent: registration id, claim response under way, grant it works on, heartbeat under way |
| `delivered` | every grant a worker process has received; old processes stay alive and may renew and report with theirs for ever |
| `Claim` | `claimUnlocked` (A:587-825) around `CLAIM_WITH_AGENT_EPOCH` (A:115-214) |
| `Renew`, `Report` | `renewLease`, `reportUnlocked` |
| `ExposeRead`, `ExposeCommit`, `Reclaim` | S:5603-5639, `RECLAIM_EXPIRED_TASK_CAS` (O:76-168) |
| `CancelRead/Commit`, `ResetRead/Commit` | A:2128-2206, S:6284-6524 |

Here a claim is one step: its reservation is in `ClaimReservation`, its files in
`FileOwnership`, the numbering of registrations in `AgentEpoch`. `doneAt` is the
token of the report: within a round it identifies the instant as the code's
timestamp does. One heartbeat per agent is under way at a time.

**WorkAssignment** - the abstract specification: work on a task is granted under a
fresh ticket to a holder without other work, only the valid ticket finishes it,
and a revoked one never becomes valid again. `TaskLifecycle` implements it under
the mapping of `stage`, `holder`, `ticket`, `result` to status, claimant, lease and
`doneAt` (`ImplementsAssignment`, run `lifecycle_races`, theorem `Implements`).

**ClaimReservation** - one agent's claim calls, script by script. `attempts[i]` is
the i-th HTTP call with the request id it carries and the script it executes next;
two calls of one request are a retry. `ReservationLapses` is the TTL of the key at
any moment, since its renewal is a timer of the process that owns it. `Wake` and
`Abort` belong to blocking claims. The worker is `runWorkerLoop`: a new request id
per claim, the same id for repetitions.

**OwnershipRegistry, FileOwnership** - `registry` is the ownership hash with `live`
for "`expires_at` is ahead"; `OwnershipRegistry` has the registry-to-registry
functions (who is in the way, what activation, release, renewal write),
`FileOwnership` the claims, holders and hub steps that use them. `attempts` are the
claims between `activateOwnership` and the end of their clean-up, `releases` the
reports and resets that committed and have not yet released their files (A:1375,
S:6560). A task that waits here waits for files. The release of files is followed
by a requeueing of waiters in the code; here `Requeue` is a separate, always
enabled step, so that the safety properties hold with it early, late or missing.

**PlanGraph** - pure algorithms against their plain definitions: cycle detection
(`plan/parser.ts`), waves, longest path, blockers and task classes
(`cli/planning.ts`, `dag-analysis.ts`), and `globsOverlap` (O:599-640) against
"some path matches both". A state is one input, and nothing moves. It discharges,
for the bounded patterns, the assumption of `OwnershipRegistry` that overlap is a
reflexive and symmetric relation.

**TaskWaiting** - `questions`, `pointer`, `blockedOn` are the question hashes, the
open-question-by-task key and `blocked_question_id`. `owed` and `visits` are calls of
`wakeDependents` that have not listed the blocked tasks yet, and listed tasks they
have not yet looked at. A commit and the wake-up it owes are two steps; `Crash`
drops the wake-up, `VisitGivenUp` is a transaction disturbed five times. `checked`
holds claims between their dependency check (A:675) and their script.

### Results that are not accepted

**RepairChain** - one root task, its repairs by generation, one dependent. A
request is the sequence `todo` of the Redis calls it is still to make and what it
carries between them; `Requests` slots run at once. Reports (`ReportDone`,
`ReportFailed`), reviews and decisions (with the decision lock and its TTL),
`ensureRepairTask` call by call (plan, read, publish, queue, point the root),
`resolveRepairLineage` and `cancelSiblingRepairs`, the continue with its audit and
the recovery of an interrupted one, `reconcileResolutionBacklog`, reset of the root,
and a crash of any request between any two calls. `markResolutionNeedsPmDecision` is
two of them, as in the code: `Needs` reads where the root points (S:3132-3139), `AskPm`
writes that back with the question (S:3140-3146), whatever the root points to by then;
after a cancel, `Check` has read the root before (A:2211-2217). The history `diverted`
says that a write took the root's pointer away from a repair at work. `Limits` are the initial
`max_retries` and the bounds on continues, resets and crashes.

**PlanStatus** - `derivePlanStatus`, `buildPlanStatusProjection`, the intake's and the
watchdog's view of failures and decisions, and the hint for workers, as operators
over task hashes. `MCRepairChain` applies them to the hashes `RepairChain` can
produce, so that they are compared on reachable states and not on invented ones.

**AcceptanceReverify** - an acceptance with its reverify attempts, the repairs of
its sources, and requests (reports, reviews, decisions, the sweep) that write the
root of the chain call by call and may die. The same two calls are `AskReads` and
`AskPm` here; the history `count.diverted` says that the second pointed the root away
from an attempt that is under way or accepted. `PromptReports` says that a delivery's
late write precedes the PM's review of it; without it that write comes too late
(see Observations).

**Supersede** - previews, decision locks with TTL, the guarded scripts of
`supersedeTask` and of a batch (A:1829), and the durable copies, against
reviews, resets and late publications of dependents. `verdicts` and `promised` are
histories: what was said of a delivery, and what a caller was told.

### Plans, agents and the PM

**PlanSubmission** - files, a preview of the hub's tasks, WATCH, EXEC, then the copy
to SQLite task by task, while tasks are reserved, claimed and finished. A Redis
read and the synchronous SQLite write after it are one step. A claim is two: `Reads`
is the reading its payload is made from (A:627), `Claims` the script that commits it
many awaits later and compares neither text nor revision. `readings` are the texts
claim requests have read of a task; EXEC moves those it overwrites to `outdated`, and
`overtaken` are the tasks whose worker was given one of these. That the two are kept
apart is history: a claim commits a text of either kind.

**WakeReservation** - a task kept for a bound agent while it is woken: reserve, take
the files, wake, receipt, claim with the reservation, failure, expiry; files are
taken and given back by calls of their own. `Permitted` is the claim script's rule.

**AgentEpoch** - registration ids, numbered in SQLite (`ledger`) and published in
the agent hash (`epoch`, `known`). Calls run under a mutex inside the hub process,
but a script that was sent before the hub died may run after its successor
started (`stray`), and Redis may be rebuilt from SQLite.

**PmIntake** - the event stream, one consumer's cursor, pending and acknowledged
events, the sets of pending deliveries and failures with their one-time builds.
A poll is a sequence of Redis calls; polls overlap and die anywhere.

**PlanProjection** - one plan's counters: `content[t]` is the number of writes of a
task, `aggregate` the counters as of some content. Readers check the marker, scan
under a lock, publish, rebuild with the revision as compare-and-swap, answer. The
publishing script deletes the lists of plans and tasks and writes what the scan found
(S:9231, 9239); the history `dropped` has the tasks that are on no list for that reason,
until a write lists them, and a reader's `lost` those dropped while it was reading.

**RestoreGate** - writers with permits, the restore's lock with TTL and barrier
without, the publishing transaction that may stop half-way, loss of Redis, death
of the hub. `live` and `rows` are the writes in Redis and in SQLite.

**SupervisorWorkers** - one supervisor process: rounds, the scheduler that claims
for all slots when a doorbell rang, the microtask that schedules once more, stop
and signal. An action is what JavaScript runs between two awaits.

**PmDoorbell** - supervisor processes with their lock file (create, write, look,
compare, unlink as single system calls), pm-agent processes with their kernel lock
through a helper, the agent they start, signals and orphans.

**WorkerExecution** - the slots of one worker process from claim to the end of the
attempt: file check, preemption, run, attribution of changes, verification,
question, report with lost requests and answers, claim and progress files.

### Nodes, git and the rest

**NodeAttempts** - nodes, sessions, attempts by generation, recovery candidates;
synchronous handlers are one step, a takeover one step per row.
**NodeDaemon** - the daemon's loop with the claim beside it, the watchdog, the
executor's chain, ledger and recovery files; it may die between any two steps.
**AttemptWorkspace** - prepare and finalize as steps between awaits; a commit is a
number, `remote` the branch, `made` the deliveries by head.
**DeliveryMerge** - deliveries, jobs known by delivery and expected commit, two
dispatchers, the trunk as a sequence of what each commit contains, strangers.
**ModeTransitions** - the six steps in either direction, each a sequence of SQLite
writes that a crash may cut; expiry, failure, retry, a second transition.
**Webhooks** - one dispatcher over the stream and two lists, rows per webhook and
event, posts with late answers, manual requests, restarts.
**Credentials** - keys of the environment and of the store, sessions, codes,
memberships, account creation between look-up and write, node generations, tokens.
**PlanFiles** - people who edit, add, file, compare and submit in one directory; a
text stands for all a task file says.
**ProjectMapping** - bindings and audit of several operators; a remote stands for
its normalised URL and for the hash of it.

**MC modules**: `MCTaskLifecycle`, `MCFileOwnership` (FileOwnership and PlanGraph),
`MCClaimReservation` (ClaimReservation, ProjectMapping), `MCTaskWaiting` (TaskWaiting,
Webhooks, ModeTransitions, PmDoorbell), `MCRepairChain` (RepairChain with PlanStatus),
`MCHubIndexes` (AgentEpoch, PmIntake, PlanProjection, RestoreGate,
SupervisorWorkers), `MCHubServices` (DeliveryMerge, AttemptWorkspace, NodeAttempts,
NodeDaemon, PlanFiles), `MCPlansAndWakeups` (PlanSubmission, Supersede,
WakeReservation), `MCHubEdges` (AcceptanceReverify, WorkerExecution, Credentials).
They hold symmetry sets, small data, bounds as state constraints and the joint
properties. `X_proofs` holds the theorems about `X` or about the components of `MCX`;
`OwnershipAndRepairs_proofs` those about FileOwnership and RepairChain.

## Runs

Twelve runs. In the eleven that pass TLC finds no error; `lifecycle_reset` finds the
violation described under
[Where code and documentation disagree](#where-code-and-documentation-disagree).

| Run | Instance | Distinct states | What it shows |
|---|---|---|---|
| `lifecycle_races` | 1 task, 2 agents with 2 processes each, 2 claims, `MaxRetries` 1, counter up to 2; symmetry | 827,414 | late calls and operators' steps never confuse two claims; every step is one of `WorkAssignment` |
| `lifecycle_recovery` | 2 tasks, 1 agent, 2 processes, no resets; fair | 327,339 | work of an offline agent comes back |
| `ownership` | a directory and a file in it, the file's task of higher priority, 2 agents, 2 attempts, 2 sessions; fair. Beside it all plans of 3 tasks and all pairs of patterns of 2 tokens | 186,280 | how live files change hands; waiters go on; cycles, waves, paths, classes and overlaps are what they mean |
| `repair_races` | 2 requests, 2 generations, `Races`: one automatic repair with a continue, a reset or a lost lock, or two repairs; constraint `FewReconcile` | 1,001,878 | one repair at work, bounded repairs, open decisions, one audit per continue, no changed review |
| `repair_recovery` | 1 request at a time, 2 generations, `Interrupted`: with crashes, a continue, a reset; fair | 25,426 | the status of the plan stays true; accept, dependent and repair move on |
| `hub_indexes` | 3 sessions with 2 handlers, 5 generations, a crash, a restore; 2 polls, pages of 1, a stream of 3; 2 readers with 2 tries, 2 tasks, 2 writes; 2 writers, 1 restore, 2 mishaps; 2 tasks, 2 slots, 1 trouble | 1,422,080 | sessions, inbox, counters, restore, supervisor |
| `hub_services` | 1 delivery, 2 dispatchers, a trunk of 3, 1 stranger; 2 callers, 2 commits, 2 mishaps; 1 node, 2 attempts; 2 works, 1 slot, 1 daemon crash; 2 operators, 2 task names, 3 texts, 2 commands | 840,070 | merges, workspace, attempts and daemon, plan files |
| `reservation_safety` | 2 tasks, 2 requests, 3 calls; 2 paths, Projects, remotes, branches and operators, audits of 3, 1 change | 2,054,421 | the calls of an agent are one claim; mapping |
| `waiting_safety` | a chain of 3 tasks with an acceptance in the middle, 4 claims, 2 questions, 1 reset, 1 loss; 1 webhook, an event of each source, 2 attempts, 1 crash; 1 work, 1 node, 2 transitions, 1 upset; 2 supervisors, 1 consumer, 2 plans, 1 death | 1,279,178 | questions, wake-ups, webhooks, change of mode, doorbell |
| `plans_and_wakeups` | 2 plans, 1 task id, 2 submissions of 2 texts, 1 run, constraint `InTime`; 2 tasks of 2 plans, 1 decider of plans and 1 of tasks, 1 lapse; 2 tasks with overlapping files, 2 agents, 2 reservations | 1,907,827 | what runs keeps its text, one verdict, reservations |
| `hub_edges` | 3 attempts after the first, 1 repair of a source, 2 agents, 2 requests, a sweep, a decision, a crash, constraint `OnCourse`; 2 slots, 3 tasks, 1 file, 2 tokens; 1 person, 2 sessions, 1 code, 3 keys, 2 generations, 2 changes | 953,635 | reverification, worker slots, credentials |
| `lifecycle_reset` | 1 task, 2 agents, 1 process each | violation | a reset deletes a live lease |

Bounds. They are as large as 5 minutes of TLC allow and at least as large as the
hazards need. Two claims of a task are the least at which an old claim and a new
one meet; two agents with two processes each give every combination of same and
other agent, same and other process; `RetryBound` 2 with `MaxRetries` 1 lets a reset
raise the counter past the limit. Three calls of two requests are a call, its retry
and the next request while either is under way. Two repairs and two requests are a
report, review, decision or sweep against another one, at every pair of calls.

Three runs have a state constraint, which ends behaviours where the instance would grow
past the time; the proofs, where there is one, have no such bound. `FewReconcile`
(`repair_races`): where the hub makes two repairs by itself a reconciliation runs
beside nothing but a call of `ensureRepairTask` that has not read the root yet, and where
a continue makes the second not both requests are reconciliations; with a reset or a lost lock they meet. `OnCourse` (`hub_edges`):
behaviours end when the root of an acceptance was diverted, since nothing `RepairComesFirst`
and `OneLiveAttempt` say is said after that, and `LimitNeedsDecision` is proved. `InTime` (`plans_and_wakeups`): a claim that
commits an overwritten text ends the behaviour, and a task has one such text at a time,
none beside its run.

Three sessions are an old process, its successor, and one that overtakes. A page of
one event makes every event a page boundary. Two writes against two tries of a
refresh let each try be crossed. Two handlers of everything else give every pair
of overlapping calls. Three attempts after the first with a limit of two let the
limit be reached and passed by a decision. What the bounds leave open is closed, for
the safety properties, by the proofs below, for all values of these constants.

Symmetry is used in safety runs only, over agents, tasks, requests and slots where
the instance treats them alike. `CHECK_DEADLOCK FALSE` is in every configuration
because behaviours stop when a bound is used up and all work is done.

The properties, one line each:

- `OldClaimsAreFenced` - once a task was claimed again, no older token is its lease.
  `ViewsAgree` - lease, hash and zsets tell the same of a task (zsets of cancelled
  tasks aside). `ResultsAreSafe` - a result comes from the newest claim and stands
  until a reset. `OneTaskPerAgent` is a theorem.
- `CallsAreOneClaim` - never two running tasks, and no call is refused while the claim
  of its own request stands.
- `FilesChangeHands` - only a renewal of expired records makes live files of two claims
  overlap, and only a claim of strictly higher priority displaces a live record.
  `WaitersGoOn` - a task that waits for files goes on.
- `QuestionsAreSafe` - a task that waits for the PM has one open question, which the
  pointer names, and only its answer or a reset ends the wait. `NoWakeupIsLost` -
  without a crash, a waiting task whose dependencies are met is still to be visited.
- `RepairsAreSafe` - one repair at work at a time unless the root was pointed away
  from it (by a late write, also that of a request for a decision, or by a reset), none
  beyond the limit except by a continue or a reset, what the PM is asked he can answer, one audit per continue, reviews final. `StatusIsHonest` -
  completed exactly when every root is accepted, failed only with something for the
  PM, active only with work or a sweep to come, and intake, watchdog and worker hint
  agree with it. `RepairsMoveOn` - an accept takes effect, the dependent is woken, a
  new repair comes into the queue.
- `ReverifyIsSafe` - a repair the PM asked for comes before the next attempt and one
  attempt is live, both as long as no late request for a decision has pointed the root
  away from an attempt that stands; and past the limit the PM has decided, always.
- `SessionsAreOrdered`, `InboxIsKept`, `StatusIsCurrent`, `RestoreIsSafe`,
  `SupervisorIsSafe` - SQLite and Redis agree on the newest session and an ended one
  does not come back; no event is skipped, what waits is listed, a round rings once;
  a clean aggregate is the count of its tasks and no answer is older than its
  question, the tasks a backfill has dropped from the lists aside, and only those; Redis is refilled only empty and locked, from what SQLite holds, and opened
  only full; slots share no task and claimable work is announced.
- `DeliveriesAreSafe`, `WorkspaceIsSafe`, `NodesAreSafe`, `PlanFilesAreSafe` - merged is in
  the trunk, an open delivery keeps its branch, one job runs; one delivery, of a
  pushed commit, and the row names it; one attempt executes, a takeover spares a newer
  one, slots are watched, adopted attempts were granted; a failed edit is undone unless
  another crossed it, nobody's file or note is lost, what `revise` announced is carried
  out.
- `PlansAreSafe`, `WakeIsSafe` - whoever runs a task has the text the hub has, unless a
  submission overwrote it between the reading of his claim request and its commit; no
  submission changes what runs or is reserved, and a delivery stays, a delivery gets one verdict and an answer survives a restore; a reserved task
  is claimed by its agent alone, once, and receipts are true.
- `ProjectIsServed`, `DoorbellIsSafe` - a webhook gets what it was promised and no more than
  its posts; a change of mode carries out its steps in order and has drained when it
  commits; one agent per consumer that is not told to stop, a signal reaches every
  agent, supervisors overlap only after an unlink of a file that was not compared.
- `ExecutionIsSafe`, `CredentialsAreSafe` - done is only said of own changes, one verdict a
  claim, progress and claim files follow what the hub settled; an ended token is refused
  for ever, a sweep leaves a key to sign with, a code is worth one session, a write
  needs a rank in the project.
- `MappingIsSafe` - the audit has no gap, a rollback restores what its rebind replaced,
  paths of one repository have one Project.
- `PlansAreUnderstood` - the algorithms of `PlanGraph` are what their words say.

## Faulty variants

Every property of every passing run is violated, under that run's own
configuration, when one definition is replaced by a faulty variant of it.

| Run | Property | Faulty variant | The slip |
|---|---|---|---|
| `lifecycle_races` | `TypeOK` | `ClearCurrent_Misnamed` | a pointer cleared to a value nobody else knows |
| `lifecycle_races` | `OldClaimsAreFenced` | `Renew_Regrant` | a renewal that writes its token instead of comparing it |
| `lifecycle_races` | `ViewsAgree` | `Reclaimable_ByScore` | a reclaim that looks at the score, not at the lease |
| `lifecycle_races` | `ResultsAreSafe` | `SameRound_Unchecked` | a reset that does not compare the round |
| `lifecycle_races` | `ImplementsAssignment` | `Authorised_ByAgent` | a report authorised by agent id, not by token |
| `lifecycle_recovery` | `OfflineWorkIsRecovered` | `Orphaned_ByPointer` | recovery that ignores an offline agent that still points at the task |
| `ownership` | `OwnershipTypeOK` | `ToRelease_Anyone` | a release for an empty claimant |
| `ownership` | `FilesChangeHands` | `Contested_ByName` | glob strings compared instead of overlap |
| `ownership` | `WaitersGoOn` | `Unoccupied_ByRecord` | expired records counted as occupied |
| `ownership` | `PlansAreUnderstood` | `globConsumes_Deep` | `*` that crosses directories |
| `repair_races` | `TypeOK` | `WithPublished_Always` | a task put into the queue whatever its status |
| `repair_races` | `RepairsAreSafe` | `SameReview_Stale` | a review committed over a changed task |
| `repair_recovery` | `StatusIsHonest` | `Stuck_Failed` | a failed root counted as stuck while its repair is under way |
| `repair_recovery` | `RepairsMoveOn` | `SameRepair_Started` | a repair that still waits not recognised as the one that is wanted |
| `hub_indexes` | `SupervisorIsSafe` | `Drained_Slots` | offline as soon as the slots are empty, a claim still under way |
| `hub_indexes` | `HubTypesOK` | `Numbers_Newest` | a session that is recognised only while it is the newest |
| `hub_indexes` | `SessionsAreOrdered` | `Verdict_Unnumbered` | a registration accepted whatever its generation |
| `hub_indexes` | `InboxIsKept` | `ReadTail_Eager` | a cursor that moves before the page is stored |
| `hub_indexes` | `StatusIsCurrent` | `SameRevision_Ignored` | an aggregate committed whatever the revision |
| `hub_indexes` | `RestoreIsSafe` | `LocalWriters_Permitted` | a drain that counts permits and not the writers of the process |
| `hub_services` | `ServicesTypesOK` | `HasSlot_Before` | a slot looked for before the call and taken after it |
| `hub_services` | `DeliveriesAreSafe` | `IndexAllows_Always` | no unique index on the running job |
| `hub_services` | `WorkspaceIsSafe` | `Accepts_Forced` | a push that overwrites what is on the remote branch |
| `hub_services` | `NodesAreSafe` | `Kept_Token` | a token kept when its attempt is stopped |
| `hub_services` | `PlanFilesAreSafe` | `Armed_Later` | the undo of an edit not armed when the editor starts |
| `reservation_safety` | `ClaimsAndMappingTypesOK` | `CompleteEmpty_Unowned` | completing a reservation that is gone |
| `reservation_safety` | `MappingIsSafe` | `Current_Unchecked` | a rebind that does not compare the row it read |
| `reservation_safety` | `CallsAreOneClaim` | `CommitOutcome_Unreserved` | a claim script that does not check the reservation |
| `waiting_safety` | `DoorbellIsSafe` | `Wakes_Unstopped` | a doorbell that starts an agent although the supervisor is stopping |
| `waiting_safety` | `TypeOK` | `Offered_Unset` | a wrong empty value in `blocked_question_id` |
| `waiting_safety` | `QuestionsAreSafe` | `MayAsk_Again` | no look at the open question of the task |
| `waiting_safety` | `NoWakeupIsLost` | `BlocksAtOnce_Always` | blocking without a second look at the dependencies |
| `waiting_safety` | `ProjectIsServed` | `RowAfter_Early` | the row of a step written before its effects |
| `plans_and_wakeups` | `PlansTypesOK` | `Releasable_Always` | a reservation given back although it has been claimed |
| `plans_and_wakeups` | `PlansAreSafe` | `Unbroken_Always` | EXEC without the WATCH |
| `plans_and_wakeups` | `WakeIsSafe` | `Permitted_Filtered` | a claim without a reservation that is not refused for a task kept for another |
| `hub_edges` | `EdgesTypesOK` | `Raised_EachStep` | a generation raised once per step |
| `hub_edges` | `ReverifyIsSafe` | `Repaired_Always` | the gate open without an accepted repair |
| `hub_edges` | `ExecutionIsSafe` | `Clear_AsFailure` | a denied clearing of the claim file taken for a failed attempt |
| `hub_edges` | `CredentialsAreSafe` | `NewVersion_OfStore` | a new key numbered after the keys of the store only |

## Fairness

Three specifications state fairness; everything else is safety.

- `lifecycle_recovery`: weak fairness of `ExposeRead`, `ExposeCommit` and `Reclaim`.
  `supervisorTick` runs both over all running tasks every tick, and a handler that
  has read goes on to its script. Nothing is assumed of workers, clocks or leases:
  the point is that an offline agent's task comes back even when an old process
  renews the lease for ever.
- `ownership` (`WaitersGoOn`): attempts under way go on (`Activate`, `CommitClaim`,
  `Cleanup`), committed reports and resets release (`ReleaseAfterCommit`), records that
  no lease renews run out (`OwnershipExpires`), the reclaim is run by the ticks, the
  sweep `reconcileBlockedWaiters` (S:6604-6618) looks at every waiter (`Requeue`), and a
  worker that keeps its lease reports in the end (`Report`). The last is an assumption
  about workers: one that renews for ever keeps its files for ever, by design. No
  requeueing after a release is assumed.
- `repair_recovery` (`RepairsMoveOn`): a request that is at work makes its next call
  (weak fairness of `Step`; that it may die instead is `Crash`, which is bounded), a
  decision lock whose holder is gone expires, and the supervisor's sweep begins again
  and again for every candidate (strong fairness of `ReconcileBegin`: with one slot for
  requests it is not enabled all the time, but a hub has no such slot). Workers, the PM
  and resets are not assumed to do anything.

## Proofs

`tlapm` checks eight modules. Assumptions are those named in the models: bounds are
natural numbers, sentinels are no members of the sets they extend, `Overlaps` is
reflexive and symmetric, dependency graphs and priorities are functions of the right
kind. Sets of tasks, agents, requests, files and so on are arbitrary; where a
cardinality is needed they are assumed finite by name. The bounds on crashes and on
other mishaps are constants too: a theorem holds for any number of them.

In a joint module the theorem is about the joint `Spec`; its proof shows that each
component's steps keep that component's invariant, and that the other components'
invariants speak of variables that do not change.

**TaskLifecycle_proofs.** The inductive invariant `Inv` is types, tokens issued in
order, `OneTaskPerAgent`, `OldClaimsAreFenced`, `LeaseNamesClaimant`, `IndexFollowsStatus`
and `UnclaimedHasNoLease` together. They need each other: `OneTaskPerAgent` rests on
the scan of the running zset and so on `IndexFollowsStatus`; `OldClaimsAreFenced` needs
that tokens are issued in order; a reclaim or reset keeps `LeaseNamesClaimant` because
the lease is gone, which is `UnclaimedHasNoLease`. `OneTaskPerAgent` does not mention
`current_task`: the pointer, which heartbeats overwrite, plays no part in it. The action
properties follow step by step. `Implements` shows that every step is a step of
`WorkAssignment` or leaves its variables alone: a claim is a grant because of
`OneTaskPerAgent`, a report finishes because its token is the lease.

**OwnershipAndRepairs_proofs.** `OwnershipTypeOK` is inductive together with `RunningHasClaimant`: what
report and reclaim release has an owner because a running task has a claimant.
`OverlapOnlyByLateRenewal` and `DisplacedOnlyByPriority` are facts about single steps:
lemmas show that `Activated` keeps `Exclusive` when what is contested is removed, that
release, lapse and removal only shrink the live part, and that a renewal that finds
all its records live changes nothing. They hold for any overlap relation.

For the repair chain, `RepairInv` is `Base` (each generation's source is an earlier one,
generations have no gap, the history of the root is what was created), `InLine` (who is
about to create a repair holds what makes it the only one), `Counted` (the automatic ones
within the limit), `Audited`, `FirstFailure`, `ClearInv` and `FailedKept` (what is shown as
failed is still pursued). It is the largest proof: every one of some forty kinds of calls
must keep what every other request in progress remembers. A late `AskPm` may write any
pointer a request has read; when it takes the pointer from a repair at work the chain is
`diverted`, and otherwise what it writes is what `InLine` already says of the pointer.

**ClaimReservation_proofs.** `OneRunning` is not inductive: a commit after a scan of
long ago must be impossible. The missing fact is `OwnerSawNone`: the attempt that owns
the reservation and has scanned saw no running task, and there is none still. It is
kept because only the owner can commit. For the mapping, `MapInv` is `TrailInv` (the
audit of a path is its bindings in order, and what a command has read is one of
them) and `RowsAgree` (paths of one repository agree unless it was registered late).

**TaskWaiting_proofs.** `QuestionsInv` adds `TokensAreSpent` (a token that asked is no
lease any more) to the question properties; with it a repeated call can only meet its
own open question or be refused. `NoWakeupIsLost` is inductive together with the
types, for any dependency graph: a step that satisfies a dependency owes a wake-up,
and a step that blocks looks at the dependencies. `WebhooksInv`: what was promised is
behind the cursor or still listed (`PromiseInv`), and posts are counted by attempts
(`PostsInv`). `ModesInv`: one transition runs, the row of a transition never runs ahead
of its steps (`CarriedInOrder`), a failed one failed where its step can
(`HowTheyFail`), and what the first steps have drained stays so until the commit
(`DrainedToCommit`, `KeepsPaused`). `DoorbellInv`: an agent that is not told to stop
holds its kernel lock (`HoldsItsLock`), nobody starts one that is already signalled, a
signal reaches all of a supervisor's (`StopReachesAll`), and a lock file belongs to who
wrote it unless an unlink raced (`OwnsItsFile`).

**HubServices_proofs.** `MergeInv`: `MergedIsInTrunk` needs that only the running job
pushes (`SoleRunner`), that what it pushed contains its delivery (`PushedIsIn`) and that a
branch is cleaned only after its delivery closed. `WorkspaceInv`: a delivery's head was
pushed (`DeliveredIsPushed`) and the row names it, because the push succeeds once
(`RowHasHead`, `ConflictIsForeign`, `DirtyHasRoom`). `AttemptsInv`: whoever executes is the
task's active attempt. `DaemonInv`: what is in a slot is watched or on its way
(`SlotsAreWatched`), what is adopted was granted, an answer that arrives is the one that
was asked for (`AnswerIsFresh`), and a stopped attempt has no token. `FilesInv` says for
each operator what a command at each step knows of the file, the note and the list it
works on.

**HubIndexes_proofs.** `EpochInv`: the published session has a row, rows of a session
differ and are in order, a script that is still under way carries a row that exists,
and one call is inside the mutex. `IntakeInv`: every event up to the cursor was indexed
or acknowledged, what wants the PM has been rung for or is still to be read, and what a
poll carries was true when it read. `ProjectionInv`: an aggregate is the content at
some revision, a clean plan's at the present one, and what a reader is about to
answer is no older than its question. Only dropped tasks are missing from the lists
(`ListsKnown`), and a count that a reader holds or will take leaves out nothing else
(`CountIsRecent`, `CountWillBeRecent`). `RestoreInv` (one restore at a time): while Redis
is half filled there is a barrier, and what each restore has checked still holds.
`SupervisorInv` (on the endpoint transport): work in two slots is excluded by the hub's
claim and by what each run knows, and whatever can be claimed was announced by a rise
of the count, an event or a doorbell that is still to be answered.

**PlansAndWakeups_proofs.** `SubmissionInv`: who is about to EXEC with an unbroken watch
has seen the tasks as they are (`ExecKnows`), and what claim requests have read of a
pending task is its text unless it is counted as outdated (`ReadingsAreCurrent`), hence
`RunsKeepTheirText` and `DoneStaysDone`. `SupersedeInv`: every verdict is seen in the record it was given on, and a
decider between its reads and its script knows what the script compares
(`DeciderKnows`). `WakeInv`: the mark of a task, its reservation and the claim that
redeems it fit together (`KeptForOne`, `ReferencesAreMade`), and files are held by who
is accounted for (`FilesAreKnown`).

**HubEdges_proofs.** `CredInv`: every issued token rests on a key, a session, a code or a
generation that is known, and an ended one fails by one of them for good (`DeadOK`).
`ExecInv`: what a slot has seen, knows and said agree with the hub's record and token
(`SlotsSee`, `SlotsKnow`), and the progress file with what was settled. `RevInv`: counts,
locks, the root's history, each attempt, repair and look, and every request's
remaining steps are of a shape that allows `LimitAsksThePm`.

Only model-checked:

- liveness: `OfflineWorkIsRecovered`, `WaitersGoOn`, `RepairsMoveOn`. The prover has no
  rule for fairness and no ENABLED;
- `PlansAreUnderstood`: what recursive functions compute for every input needs an
  induction the installed provers cannot instantiate;
- `StatusIsHonest`: with two requests at work parts of it do not hold (see below), so
  that a proof for any number of requests does not exist;
- `RepairComesFirst` and `OneLiveAttempt` of `ReverifyIsSafe`: they hold for one sweep at a
  time and while the root is not diverted; `LimitNeedsDecision` is proved for any number
  and whether it is diverted or not;
- `ResetSparesLiveLease`, which is violated.

## Where code and documentation disagree

`lifecycle_reset`: README.en.md:632 and the comment at S:6375-6377 promise that a reset,
even with `--force`, never interrupts a live lease. `taskResetLocked` checks lease and
`expire_at` first and commits in a later script that compares status, review and
resolution state and `done_at` (S:6302). All of these are the same again after a reclaim
and a new claim, and the script deletes the live lease of the new claimant.

## Observations

Met while modelling, without a run of their own. Names in parentheses are
definitions in the module that state the documented claim; TLC refutes each.

**Claims, files, waiting**

- `cancelTask` documents that it withdraws pending tasks only; its MULTI is
  unconditional, and a claim after its read leaves a cancelled task with a live lease
  (`OnlyPendingIsCancelled`). `ViewsAgree` leaves cancelled tasks out and does not see it.
- The recovery documents that an agent whose lease it deletes has been fenced by a newer
  registration; a heartbeat sent before the claim and handled after it makes a working
  agent look that way (`OnlyFencedWorkIsExposed`). `exposeRecoverableRunningTasks` reads the
  claimant and judges that agent in a later script, when the task may be another's.
- The clean-up of a refused claim documents that it spares what a newer attempt holds;
  after a change of registration the same agent may hold the same task by then
  (`CleanupSparesNewClaim`). Report and reset release files by agent and task after their
  commit (A:1375, S:6560), with the same effect.
- A renewal after the expiry of its records makes them live again whatever was granted
  since (A:2228-2305); `docs/pm-parallel-planning.md:7` has one writer per file.
- README.md promises the same task for a repeated request; an idle heartbeat in between
  makes the hub refuse it (`LostResponseIsReplayed`). A call delayed past the report of its
  own request claims a second task under the same id. The result of
  `COMPLETE_EMPTY_AGENT_CLAIM` is not looked at.
- A reset leaves the Question of a waiting task open, which the restore from SQLite
  refuses as inconsistent (`OpenQuestionsAreAwaited`).
- The claim checks dependencies before its script, not in it (A:675): a task may start on
  a dependency that was reset in between.
- The client's `globsOverlap` (`cli/dag-analysis.ts:78-90`) is the common-directory rule
  the hub's comment calls wrong (O:602-605). Projected waves include tasks behind
  cancelled ones, and recommended slots are no bound on what may run at once.

**Repairs and reverification**

- A late `markRepairAwaitingReview` (S:4870, called unlocked after the commit of a report)
  writes the root's pointer back to a delivery that was rejected meanwhile and replaced;
  the next sweep sees that the pointer has ended and creates one more repair beside the
  one at work. It needs two requests and three generations. `RepairsStayInLine` is
  therefore qualified by the history `diverted`.
- So does a late `markResolutionNeedsPmDecision` (S:3132-3146; A:1431, 2214-2217): it reads
  the pointer, and writes it back in a later call without comparing anything. A report
  or cancel of an earlier repair that stalls between the two puts the root back to that
  repair although a newer one is at work, and a continue then makes another beside it:
  the comment at S:3263 has it that repeated reports and rejects make no parallel
  repairers. On an acceptance the same two calls give a second live attempt; without the
  condition on `Diverted`, TLC refutes `OneLiveAttempt` within the bounds of `hub_edges`.
- A continue that was interrupted after its repair was created calls `ensureRepairTask`
  again when it is recovered; if that repair has ended by then, one continue makes two.
  The comment at S:7448 says that the deterministic id makes the replay safe
  (`OneAttemptPerDecision` for reverification). `RepairsAreBounded` therefore speaks of
  runs without a continue.
- The marker of an accept's effects, set by a late replay, may hide the wake-up of a newer
  accept (`MarkedIsDone`); the sweep repairs it. A cancelled chain can get another repair
  from a request that read before (`CancelledGetsNoRepair`), the clean-up can cancel a
  repair a worker has started (`StartedIsKept`), the sweep does not always take a dead
  request's continue over (`ContinueIsTakenOver`), and contention is sometimes taken for a
  foreign task with the repair's id (`NoFalseCollision`).
- A repair delivered after another one won stays in the intake as review requested,
  although both answers to it are refused (`REPAIR_SUPERSEDED_BY_ACCEPTED_WINNER`;
  `isUnreviewedDoneTask`, S:10070).
- Intake and status disagree after a reset that crosses the tail of a failure report. A
  root that is reset twice while its chain is dropped can show a failure nobody deals
  with. With two requests at work a plan can for a moment be active without work, or
  completed with a root that is not accepted. The watchdog names a root whose child is at
  work and keeps silent about a rejected one that awaits a decision.
- Two sweeps can make two live attempts of one acceptance, or one after an accepted one
  (S:4386-4440); a repair ordered after the request read the attempt is not seen;
  `markAcceptanceFailureResolution` writes from a stale read; the sweep's R7 writes
  `required` on the child itself.

**Plans, supersede, wake-ups**

- A submission can overwrite a task another plan published between its checks and its
  EXEC (`TaskKeepsItsPlan`); two submissions of one plan may leave SQLite with the older
  text. A claim hands out the text it read (A:627) and its script does not compare it: a
  submission in between leaves the hub with the new text and the worker with the old,
  although the comment at S:2050 has the next claim get the new content. Supersede of a single task reads dependents before its script without a revision
  (A:2046-2047), and a batch can leave an active dependent that was published late
  (`BatchLeavesNoDependents`).
- A task claimed by a woken agent may run without its files when those of the reservation
  lapse or are given back late (`RunningKeepsFiles`).
- The planning commands have no lock: a lost answer rolls back a file the hub took,
  another's submission publishes an edit that is undone later (`HubHasTheFiles`), a
  rollback overwrites another's edit, a kill leaves the draft; `add` asks the hub before it
  writes; `platform_update_expected` is computed from the status read at the start.

**PM, projection, restore, supervisor**

- The legacy absorb of the intake can overwrite an event's task with one of an earlier
  round.
- After three rebuilds that writes crossed, a request is answered with the old aggregate,
  although a fresh snapshot was at hand (comment S:9167-9175); a backfill's marker that its
  owner takes back lets another reader clear the dirty set under a running scan.
- The script that publishes a backfill deletes the lists of plans and of a plan's tasks
  (S:9231, 9239) and writes back what the scan found. A plan or task that was published
  after the scan had passed it is on no list any more; the dirty mark stays, but the
  rebuild counts the listed tasks only, and a plan that is not listed is not shown, until
  a task is written again (`ChangesConverge`, which the comment at S:9392-9393 states).
- A read can be answered from half a projection when the barrier goes up after its check
  (`NoHalfAnswer`); with two restorers a retry can take the lock while a writer is
  permitted, which is why `Restore_Safe` assumes one; a failed restore whose Redis was
  cleaned up cannot always be repeated (`CleanedCanBeRetried`).
- The supervisor's count read before a concurrent schedule claims stays too high, and a
  task that becomes claimable in between is not announced (`OpenWorkIsAnnounced`;
  `miscounted`). The tick transport never reads events, so that a task which becomes
  claimable without a rise of the pending count waits for the next ring (comment
  supervisor.ts:1888). The doorbell is cleared before registration and claim succeed.
- SIGTERM to the pm-agent's process group ends the lock helper at once: the kernel lock is
  free while the old agent still ends (`AgentsNeverOverlap`); SIGKILL leaves an orphan.
  `tryAcquireLocalLock` compares and unlinks in two steps (`SupervisorsNeverOverlap`,
  comment supervisor.ts:93-94); an empty lock file is never taken over; lock contention
  exits 0 and deletes the cooldown.

**Workers, nodes, git**

- A slot that gave way or asked a question removes `.claim.json` late and by name; a slot
  is blamed for changes of another agent that claimed after the run began and released
  before attribution; two slots of a process share the context of a work directory, so
  that the end of an old attempt denies the newer one its clean-up and ends its loop. A
  tool that ignores SIGTERM is not killed (W:737-747).
- A token of an old attempt is accepted until it expires (`OldAttemptIsFenced`; VR:896,
  `docs/distributed-multi-node-development-plan.md:1132`). With this hub the daemon's
  renewals and reports always get 401; a stop deletes the token while the command runs
  on; a claim in flight is adopted after the drain (`DrainedHoldsNothing`), and a slot may
  run beside a command that was stopped (`SlotsHoldTheWork`).
- A crash after the push leaves the merge job running for ever, and a job can end twice
  (`JobsEndOnce`); verifying a merged delivery whose branch was cleaned invalidates it;
  the dispatch does not look at the delivery again before it merges.
- Overlapping finalizes can leave the workspace at `failed` while its delivery is live; the
  push pushes the branch, not the recorded head; an interrupted commit repeats
  `COMMIT_FAILED` (`InterruptedCommitEnds`); an attempt without a change never ends.
- A project can be claimed from while it is paused, read-only or being validated
  (`PausedIsNotClaimed`, `ReadOnlyIsNotClaimed`), the commit to full writes a lost
  capability ready (`LossIsValidated`), something may be open when it becomes read-only
  (`NothingIsOpen`), and a retried transition does not pause again (`RetriedIsPaused`) nor
  get a new deadline.

**Webhooks, credentials, mapping**

- A failed webhook is still posted its pending rows, and a success makes it active again
  (`FailedIsLeftAlone`, comment webhook-service.ts:9); a row posted by two callers may fall
  back from delivered (`DeliveredStays`). Rows of deleted webhooks stay due for ever, and a
  hundred of them fill every batch. Entries dated before their transaction may be passed
  over by a watermark.
- A membership that is granted again revives the sessions it once carried
  (`MembershipEndsSessions`). The login reads keys of the environment only; workspace and
  delivery services load them once at the start (VR:227-244). A rotation without a key to
  sign with fails after the old credential is fenced.
- The hub writes a Project's fingerprint as `v1:<anchor>:<hash of url, branch, anchor>`
  (`server/v2/git/workspace.ts:106-114`, `server/v2/project-service.ts:932`) while the mapping tool
  computes a hash of the normalised URL (`migration/project-mapping.ts:178-180`): every path of a
  repository this hub registered is a conflict, and `apply` binds nothing of it. The model
  takes fingerprints as the tool computes them. Two concurrent rebinds of the branch alone
  pass each other's compare-and-swap; one rebind can be rolled back twice.

## What is not modelled

Listed with reasons in `PROJECT.json`. In short: pure I/O and process control (worker
adapters, artifacts, backup, configuration), stateless request handling (HTTP routing,
CLI dispatch, MCP, web console, prompt texts), and functions without callers (most of
the outbox, the alert scheduler, `reportV2`, `ownership-v2`).

Within the modelled components:

- claims: assignee, project and capability filters, assignee-bound lanes; questions:
  `requested_ownership`, cancelling by supersede; notifications and SQLite copies where
  no property depends on them;
- repairs: several dependents and several roots at once; acceptances with one source;
  ownership intents; clean-up of records of earlier versions (S:4246-4306);
- submissions: the parser's other checks and statuses; wake-ups: preemption and the CRUD
  of bindings;
- intake: event types that are no delivery, long polling, the trim of the stream;
  restore: what the projection validates; partial failures of a MULTI elsewhere;
- doorbell: reminders, the start of workers by `worker-agent.mjs`;
- nodes: lifetimes of tokens, `checkStaleNodes`, the copy of a task in the Redis of the V1
  hub, isolation of routes; merge: intents of other systems, automatic dispatch (off),
  clean-up of superseded deliveries; webhooks: signatures, payloads, subscriptions;
  credentials: expiry, cookies, rate limits;
- mode transitions: incidents and the mirror of steps; planning files: a restore of a
  file that cannot be written, invalid options.
