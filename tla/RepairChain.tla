----------------------------- MODULE RepairChain -----------------------------
(***************************************************************************)
(* The repair chain of one task: what the hub does after a task fails or   *)
(* the PM rejects it.                                                      *)
(*                                                                         *)
(* Task 0 is the root; task g is its repair of generation g, whose id the  *)
(* hub derives from the root's id and g.  Four kinds of requests work on   *)
(* the chain at the same time: the tail of a worker's report, a PM review, *)
(* a PM decision (cancel or continue) and the supervisor's reconciliation. *)
(* Each is a sequence of Redis calls with other requests in between; only  *)
(* a review and a decision hold a lock, one per task, with a TTL.  A       *)
(* request may die between any two calls.                                  *)
(*                                                                         *)
(* A request is the sequence todo of its calls to come and what it carries *)
(* from one to the next: task, the one it is about; by, the repair whose   *)
(* ancestors it writes; cur, the task it is at; source, the task a repair  *)
(* is made for; base, what it has read of the root; why, a decision reason.*)
(***************************************************************************)
EXTENDS Integers, FiniteSets, Sequences

CONSTANTS
  Requests,      \* slots for requests in progress
  Nobody, Gone,  \* no lock holder; a holder that will never come back
  MaxGen,        \* bound on the generations
  Limits         \* max_retries of the root, and bounds on PM continues, resets of the
                 \* root, and requests that die or lose their lock

ASSUME RequestAssumption == Nobody \notin Requests /\ Gone \notin Requests /\ Nobody # Gone
ASSUME BoundAssumption == MaxGen \in Nat /\ Limits \subseteq
  [retries : Nat \ {0}, continues : Nat, resets : Nat, crashes : Nat]

VARIABLES
  status, review, fixFor, queued,     \* the task hashes and the pending zset
  resolution, pointer, resolvedBy,    \* resolution_* of every task
  root,                               \* the counters and the decision of task 0
  applied,                            \* tasks with pm_accept_effects_applied
  candidates,                         \* the candidates of the reconciliation
  dependent,                          \* a task blocked on the root's acceptance
  lock, req,
  audits, continues, resets, crashes, limit,
  diverted                            \* history: the root was pointed away from a repair at work

taskVars  == <<status, review, fixFor, queued>>
chainVars == <<resolution, pointer, resolvedBy, root>>
doneVars  == <<applied, candidates, dependent>>
counters  == <<audits, continues, resets, crashes, limit>>
bounds    == <<counters, diverted>>
repairVars == <<taskVars, chainVars, doneVars, lock, req, bounds>>

Task == 0..MaxGen
NoTask == -1
Status == {"absent", "pending", "running", "done", "failed", "cancelled"}
Resolution == {"none", "required", "repairing", "needs_pm_decision", "resolved", "cancelled"}
Why == {"none", "retry_limit", "collision", "repair_cancelled"}
Call == {"await", "ensure", "create", "publish", "root", "source", "check", "needs", "decide",
         "accept", "reject", "replay", "sweep", "kill", "close", "wake", "mark",
         "clear", "reopen", "cancel", "begin", "audit", "reconcile", "redo", "clean"}

Owner == Requests \cup {Nobody, Gone}
Snapshot == [gen : Task, attempts : Nat, history : SUBSET Task, resolution : Resolution, why : Why,
             round : Nat]
Request == [todo : Seq(Call), task : Task, by : Task, cur : Task, source : Task,
            awaiting : BOOLEAN, why : Why, base : Snapshot, kill : SUBSET Task]

NoSnapshot == [gen |-> 0, attempts |-> 0, history |-> {}, resolution |-> "none", why |-> "none", round |-> 0]
Idle == [todo |-> <<>>, task |-> 0, by |-> 0, cur |-> 0, source |-> 0,
         awaiting |-> FALSE, why |-> "none", base |-> NoSnapshot, kill |-> {}]

TypeOK ==
  /\ status \in [Task -> Status] /\ review \in [Task -> {"none", "accepted", "rejected"}]
  /\ fixFor \in [Task -> Task \cup {NoTask}]
  /\ queued \subseteq {t \in Task : status[t] = "pending"}
  /\ resolution \in [Task -> Resolution]
  /\ pointer \in [Task -> Task \cup {NoTask}] /\ resolvedBy \in [Task -> Task \cup {NoTask}]
  /\ root \in [gen : Task, attempts : Nat, history : SUBSET Task, why : Why,
               owner : Owner, snapshot : Snapshot]
  /\ applied \subseteq Task /\ candidates \subseteq Task
  /\ dependent \in {"blocked", "pending"}
  /\ lock \in [Task -> Owner]
  /\ req \in [Requests -> Request]
  /\ limit \in Limits /\ audits \in Nat /\ diverted \in BOOLEAN
  /\ continues \in 0..limit.continues /\ resets \in 0..limit.resets /\ crashes \in 0..limit.crashes

RepairInit ==
  /\ status = [t \in Task |-> IF t = 0 THEN "pending" ELSE "absent"]
  /\ review = [t \in Task |-> "none"]
  /\ fixFor = [t \in Task |-> NoTask]
  /\ queued = {0}
  /\ resolution = [t \in Task |-> "none"]
  /\ pointer = [t \in Task |-> NoTask] /\ resolvedBy = [t \in Task |-> NoTask]
  /\ root = [gen |-> 0, attempts |-> 0, history |-> {}, why |-> "none",
             owner |-> Nobody, snapshot |-> NoSnapshot]
  /\ applied = {} /\ candidates = {} /\ dependent = "blocked"
  /\ lock = [t \in Task |-> Nobody]
  /\ req = [p \in Requests |-> Idle]
  /\ audits = 0 /\ continues = 0 /\ resets = 0 /\ crashes = 0 /\ limit \in Limits
  /\ diverted = FALSE

-----------------------------------------------------------------------------
(* Helpers.  A definition named X_What is a faulty variant of X.            *)

Rejected(t) == status[t] = "done" /\ review[t] = "rejected"
Accepted(t) == status[t] = "done" /\ review[t] = "accepted"
Awaiting(t) == status[t] = "done" /\ review[t] = "none"
Failure(t)  == status[t] = "failed" \/ Rejected(t)
Active_Claimed(t) == status[t] = "running" \/ Awaiting(t)
Active(t)   == status[t] \in {"pending", "running"} \/ Awaiting(t)
\* isDependencySatisfied of the root.
RootSatisfied == IF resolution[0] # "none" THEN resolution[0] = "resolved" ELSE Accepted(0)
\* A repair that an accepted repair of the same root has made superfluous.
Superseded(t) == /\ fixFor[t] # NoTask /\ t \in root.history
                 /\ resolution[0] = "resolved" /\ resolvedBy[0] \notin {t, NoTask}
                 /\ Accepted(resolvedBy[0])
Children == (root.history \cup {pointer[0]}) \ {NoTask}

\* The repairs workers may take or have; pointing the root at c leaves one behind.
AtWork == {t \in Task \ {0} : status[t] \in {"pending", "running"}}
Divert(c) == diverted' = (diverted \/ AtWork \ {c} # {})

Snap == [gen |-> root.gen, attempts |-> root.attempts, history |-> root.history,
         resolution |-> resolution[0], why |-> root.why, round |-> resets]

Calling(p, call) == req[p].todo # <<>> /\ Head(req[p].todo) = call
Rest(p) == Tail(req[p].todo)
\* Go on with these calls; without any, the request answers and frees its lock.
GoOn(p, r, calls) ==
  /\ req' = [req EXCEPT ![p] = IF calls = <<>> THEN Idle ELSE [r EXCEPT !.todo = calls]]
  /\ lock' = IF calls = <<>> THEN [t \in Task |-> IF lock[t] = p THEN Nobody ELSE lock[t]] ELSE lock
Return(p) == GoOn(p, req[p], Rest(p))
Start(p, r) == req[p] = Idle /\ req' = [req EXCEPT ![p] = r]
\* A continue that ends without its audit leaves its token behind for good.
Forget(p) == IF root.owner = p THEN [root EXCEPT !.owner = Gone] ELSE root

-----------------------------------------------------------------------------
(* Workers.                                                                *)

\* claimNext cancels a superseded repair when it meets it in the pending zset ...
PickSuperseded(t) ==
  /\ t \in queued /\ Superseded(t)
  /\ status' = [status EXCEPT ![t] = "cancelled"] /\ queued' = queued \ {t}
  /\ UNCHANGED <<review, fixFor, chainVars, doneVars, lock, req, bounds>>

\* ... and claims any other.  The claim script looks at the status again, not at
\* the chain: what was superseded since is claimed as well.
Claim(t) ==
  /\ t \in queued
  /\ status' = [status EXCEPT ![t] = "running"] /\ queued' = queued \ {t}
  /\ UNCHANGED <<review, fixFor, chainVars, doneVars, lock, req, bounds>>

\* report(done): the chain above a repair becomes required.
ReportDone(p, t) ==
  /\ status[t] = "running"
  /\ status' = [status EXCEPT ![t] = "done"]
  /\ IF t = 0 THEN UNCHANGED req ELSE Start(p, [Idle EXCEPT !.todo = <<"await">>, !.by = t, !.cur = t])
  /\ UNCHANGED <<review, fixFor, queued, chainVars, doneVars, lock, bounds>>

\* report(failed), or the reclaim of a lease that has run out of retries.
ReportFailed(p, t) ==
  /\ status[t] = "running"
  /\ status' = [status EXCEPT ![t] = "failed"]
  /\ candidates' = candidates \cup {t}
  /\ Start(p, [Idle EXCEPT !.todo = <<"ensure">>, !.source = t])
  /\ UNCHANGED <<review, fixFor, queued, chainVars, applied, dependent, lock, bounds>>

\* lazyReclaim of an expired lease, with the look at the chain that follows it.
Reclaim(t) ==
  /\ status[t] = "running"
  /\ status' = [status EXCEPT ![t] = IF Superseded(t) THEN "cancelled" ELSE "pending"]
  /\ queued' = IF Superseded(t) THEN queued ELSE queued \cup {t}
  /\ UNCHANGED <<review, fixFor, chainVars, doneVars, lock, req, bounds>>

-----------------------------------------------------------------------------
(* The operator cancels a pending repair or resets the root.               *)

CancelTask(p, t) ==
  /\ t # 0 /\ status[t] = "pending" /\ lock[t] = Nobody
  /\ status' = [status EXCEPT ![t] = "cancelled"] /\ queued' = queued \ {t}
  /\ Start(p, [Idle EXCEPT !.todo = <<"check">>, !.cur = t, !.why = "repair_cancelled"])
  /\ UNCHANGED <<review, fixFor, chainVars, doneVars, lock, bounds>>

\* taskReset of the root: refused once a chain hangs on it or it was rejected.
ResetRoot ==
  /\ resets < limit.resets
  /\ status[0] \in {"done", "failed"} /\ review[0] # "rejected"
  /\ resolution[0] = "none" /\ lock[0] = Nobody
  /\ status' = [status EXCEPT ![0] = "pending"] /\ review' = [review EXCEPT ![0] = "none"]
  /\ queued' = queued \cup {0}
  /\ applied' = applied \ {0}
  /\ pointer' = [pointer EXCEPT ![0] = NoTask] /\ resolvedBy' = [resolvedBy EXCEPT ![0] = NoTask]
  /\ root' = [root EXCEPT !.gen = 0, !.attempts = 0, !.history = {}]
  /\ resets' = resets + 1
  /\ UNCHANGED <<fixFor, resolution, candidates, dependent, lock, req, audits, continues, crashes, limit, diverted>>

-----------------------------------------------------------------------------
(* ensureRepairTask, called for req.source; with the override of a continue *)
(* when the audit of one comes after it.                                   *)

Override(p) == \E i \in DOMAIN req[p].todo : req[p].todo[i] = "audit"

\* The retry limit; generation MaxGen + 1 is never made.
LimitReached_Off(p) == root.attempts > limit.retries /\ ~Override(p)
LimitReached(p) == root.attempts >= limit.retries /\ ~Override(p)

\* The repair that exists already is the one that is wanted.
SameRepair_Started(t, source) == Active(t) /\ status[t] # "pending" /\ fixFor[t] = source
SameRepair(t, source) == Active(t) /\ fixFor[t] = source

\* Cancelled is the end; resolved as well, for a task that failed or was rejected.
Terminated == resolution[0] \in {"cancelled", "resolved"}

\* Read the source, the root and its repairs, and decide.
Ensure(p) ==
  LET r == req[p]
      g == root.gen + 1
      cur == pointer[0]
      made == [Idle EXCEPT !.task = r.task, !.by = r.by, !.source = r.source, !.cur = g,
                           !.base = Snap, !.awaiting = g \in Task /\ Awaiting(g)]
      none == [r EXCEPT !.cur = 0, !.source = 0]
      publish == <<"publish", "root">> \o (IF r.source = 0 THEN <<>> ELSE <<"source">>) \o Rest(p)
      stale == Override(p) /\ root.owner # Nobody /\ cur # NoTask /\ Awaiting(cur)
      reuse == cur # NoTask /\ Active(cur) /\ ~stale
  IN
  /\ Calling(p, "ensure")
  /\ \/ /\ Terminated
        /\ GoOn(p, none, Rest(p))
     \/ /\ ~Terminated
        /\ \/ /\ reuse
              /\ IF Awaiting(cur) THEN GoOn(p, [r EXCEPT !.by = cur, !.cur = cur, !.source = 0], <<"await">> \o Rest(p))
                                  ELSE GoOn(p, [r EXCEPT !.cur = cur, !.source = 0], Rest(p))
           \/ /\ ~reuse
              /\ IF LimitReached(p) THEN GoOn(p, [none EXCEPT !.why = "retry_limit"], <<"needs">> \o Rest(p))
                 ELSE IF g > MaxGen THEN GoOn(p, none, Rest(p))
                 ELSE IF status[g] = "absent" THEN GoOn(p, made, <<"create">> \o publish)
                 ELSE IF SameRepair(g, r.source) THEN GoOn(p, made, publish)
                 ELSE GoOn(p, [none EXCEPT !.why = "collision"], <<"needs">> \o Rest(p))
  /\ UNCHANGED <<taskVars, chainVars, doneVars, bounds>>

\* The repair is created unless it exists; then everything is looked at again.
Create(p) ==
  LET r == req[p]
      g == r.cur
      last == IF r.source = 0 THEN 3 ELSE 4
  IN
  /\ Calling(p, "create")
  /\ IF status[g] # "absent"
     THEN /\ GoOn(p, [r EXCEPT !.cur = 0, !.base = NoSnapshot, !.awaiting = FALSE],
                  <<"ensure">> \o SubSeq(r.todo, last + 1, Len(r.todo)))
          /\ UNCHANGED <<status, fixFor>>
     ELSE /\ status' = [status EXCEPT ![g] = "pending"]
          /\ fixFor' = [fixFor EXCEPT ![g] = r.source]
          /\ Return(p)
  /\ UNCHANGED <<review, queued, chainVars, doneVars, bounds>>

\* ensurePendingTaskPublished.
WithPublished_Always(t) == queued \cup {t}
WithPublished(t) == IF status[t] = "pending" THEN queued \cup {t} ELSE queued
PublishRepair(p) ==
  /\ Calling(p, "publish")
  /\ queued' = WithPublished(req[p].cur)
  /\ Return(p)
  /\ UNCHANGED <<status, review, fixFor, chainVars, doneVars, bounds>>

\* The root is written from what was read of it before the repair was created.
WriteRoot(p) ==
  LET r == req[p] IN
  /\ Calling(p, "root")
  /\ resolution' = [resolution EXCEPT ![0] = IF r.awaiting THEN "required" ELSE "repairing"]
  /\ pointer' = [pointer EXCEPT ![0] = r.cur] /\ resolvedBy' = [resolvedBy EXCEPT ![0] = NoTask]
  /\ root' = [root EXCEPT !.gen = r.cur, !.attempts = r.base.attempts + 1,
                          !.history = r.base.history \cup {r.cur}, !.why = "none"]
  /\ GoOn(p, [r EXCEPT !.base = NoSnapshot], Rest(p))
  /\ UNCHANGED <<taskVars, doneVars, bounds>>

WriteSource(p) ==
  LET r == req[p] IN
  /\ Calling(p, "source")
  /\ resolution' = [resolution EXCEPT ![r.source] = IF r.awaiting THEN "required" ELSE "repairing"]
  /\ pointer' = [pointer EXCEPT ![r.source] = r.cur]
  /\ GoOn(p, [r EXCEPT !.source = 0, !.awaiting = FALSE], Rest(p))
  /\ UNCHANGED <<taskVars, resolvedBy, root, doneVars, bounds>>

\* markRepairAwaitingReview: one ancestor of the delivered repair per step.
AwaitReview(p) ==
  LET r == req[p] parent == fixFor[r.cur] IN
  /\ Calling(p, "await")
  /\ IF parent = NoTask
     THEN GoOn(p, [r EXCEPT !.cur = r.by], Rest(p)) /\ UNCHANGED <<resolution, pointer, resolvedBy, diverted>>
     ELSE /\ resolution' = [resolution EXCEPT ![parent] = "required"]
          /\ pointer' = [pointer EXCEPT ![parent] = r.by]
          /\ resolvedBy' = [resolvedBy EXCEPT ![parent] = NoTask]
          /\ IF parent = 0 THEN Divert(r.by) ELSE UNCHANGED diverted
          /\ GoOn(p, [r EXCEPT !.cur = parent], r.todo)
  /\ UNCHANGED <<taskVars, root, doneVars, counters>>

\* After a cancel the PM is asked only if the cancelled repair was the current one.
Check(p) ==
  /\ Calling(p, "check")
  /\ GoOn(p, req[p], IF pointer[0] = req[p].cur THEN <<"needs">> ELSE <<>>)
  /\ UNCHANGED <<taskVars, chainVars, doneVars, bounds>>

\* markResolutionNeedsPmDecision reads the root, for the repair it points to or the
\* last of its history (0 for none) ...
Latest(t) ==
  \/ t = pointer[0]
  \/ pointer[0] = NoTask /\ t \in root.history /\ \A u \in root.history : u <= t
  \/ pointer[0] = NoTask /\ root.history = {} /\ t = 0
Needs(p) ==
  /\ Calling(p, "needs")
  /\ \E t \in Task : Latest(t) /\ GoOn(p, [req[p] EXCEPT !.cur = t], <<"decide">> \o Rest(p))
  /\ UNCHANGED <<taskVars, chainVars, doneVars, bounds>>

\* ... and writes that back with the question, whatever the root points to by then.
AskPm(p) ==
  LET r == req[p]
      latest == IF r.cur = 0 THEN NoTask ELSE r.cur
  IN
  /\ Calling(p, "decide")
  /\ resolution' = [resolution EXCEPT ![0] = "needs_pm_decision"]
  /\ pointer' = [pointer EXCEPT ![0] = latest]
  /\ root' = [root EXCEPT !.why = r.why]
  /\ IF latest = pointer[0] THEN UNCHANGED diverted ELSE Divert(latest)
  /\ GoOn(p, [r EXCEPT !.cur = 0, !.why = "none"], Rest(p))
  /\ UNCHANGED <<taskVars, resolvedBy, doneVars, counters>>

-----------------------------------------------------------------------------
(* pmReview.                                                               *)

\* A review that is not refused at once takes the lock of its task and reads it.
\* A repeated one goes on with the effects of the decision that was taken.
FirstReview(p, t, ruling) ==
  /\ review[t] = "none" /\ ~Superseded(t)
  /\ ruling = "accept" => resolution[t] = "none"
  /\ Start(p, [Idle EXCEPT !.task = t, !.by = t, !.todo = <<ruling>>,
                           !.base.round = resets, !.base.resolution = resolution[t]])

AcceptAgain(p, t) ==
  /\ review[t] = "accepted"
  /\ Start(p, [Idle EXCEPT !.task = t, !.by = t, !.todo = <<"replay">>])

\* A rejection that has no repair yet gets one.
RejectAgain(p, t) ==
  /\ review[t] = "rejected"
  /\ (IF t = 0 THEN root.history = {} ELSE pointer[t] = NoTask)
  /\ Start(p, [Idle EXCEPT !.task = t, !.by = t, !.todo = <<"ensure">>, !.source = t])

ReviewBegin(p, t, ruling) ==
  /\ lock[t] = Nobody /\ status[t] = "done"
  /\ \/ FirstReview(p, t, ruling)
     \/ ruling = "accept" /\ AcceptAgain(p, t)
     \/ ruling = "reject" /\ RejectAgain(p, t)
  /\ lock' = [lock EXCEPT ![t] = p]
  /\ UNCHANGED <<taskVars, chainVars, doneVars, bounds>>

\* COMMIT_PM_REVIEW_AUDIT: the lock, the round and the decision are compared.
SameReview_Stale(p, t) == status[t] = "done" /\ req[p].base.round = resets
SameReview(p, t) ==
  lock[t] = p /\ Awaiting(t) /\ req[p].base.round = resets /\ req[p].base.resolution = resolution[t]

Commit(p, ruling) ==
  LET r == [req[p] EXCEPT !.base = NoSnapshot] t == r.task IN
  /\ Calling(p, ruling)
  /\ IF SameReview(p, t)
     THEN /\ review' = [review EXCEPT ![t] = IF ruling = "accept" THEN "accepted" ELSE "rejected"]
          /\ candidates' = candidates \cup {t}
          /\ IF ruling = "accept" THEN GoOn(p, r, <<"replay">>)
                                   ELSE GoOn(p, [r EXCEPT !.source = t], <<"ensure">>)
     ELSE GoOn(p, r, <<>>) /\ UNCHANGED <<review, candidates>>
  /\ UNCHANGED <<status, fixFor, queued, chainVars, applied, dependent, bounds>>

-----------------------------------------------------------------------------
(* replayAcceptedRepairSideEffects(req.by).                                *)

Ancestors[t \in Task] == IF fixFor[t] = NoTask THEN {} ELSE {fixFor[t]} \cup Ancestors[fixFor[t]]

\* Nothing of the effects is missing.
AllApplied(t) == t \in applied /\ \A a \in Ancestors[t] :
  /\ resolution[a] = "resolved" /\ (a = 0 => root.owner = Nobody)
  /\ resolvedBy[a] \in {NoTask, pointer[a]}

\* resolveRepairLineage begins with the pending children of the root.  (An
\* accepted root has no ancestors; only its dependents are woken.)
Replay(p) ==
  LET r == req[p] IN
  /\ Calling(p, "replay")
  /\ IF ~Accepted(r.by) \/ AllApplied(r.by) THEN Return(p)
     ELSE IF fixFor[r.by] = NoTask THEN GoOn(p, r, <<"wake", "mark">> \o Rest(p))
     ELSE GoOn(p, [r EXCEPT !.kill = Children \ {r.by}, !.cur = r.by],
               <<"sweep", "close", "wake", "mark">> \o Rest(p))
  /\ UNCHANGED <<taskVars, chainVars, doneVars, bounds>>

\* terminalizePendingResolutionChildren looks at a child, then writes it.
Sweep(p) ==
  LET r == req[p] IN
  /\ Calling(p, "sweep")
  /\ \/ \E t \in r.kill : /\ status[t] = "pending"
                          /\ GoOn(p, [r EXCEPT !.kill = @ \ {t}, !.cur = t], <<"kill">> \o r.todo)
     \/ /\ \A t \in r.kill : status[t] # "pending"
        /\ GoOn(p, [r EXCEPT !.kill = {}, !.cur = r.by], Rest(p))
  /\ UNCHANGED <<taskVars, chainVars, doneVars, bounds>>

KillChild(p) ==
  LET t == req[p].cur IN
  /\ Calling(p, "kill")
  /\ status' = [status EXCEPT ![t] = "cancelled"] /\ queued' = queued \ {t}
  /\ Return(p)
  /\ UNCHANGED <<review, fixFor, chainVars, doneVars, bounds>>

\* One ancestor of the accepted repair per step; closing the root withdraws a
\* continue that has begun.
Close(p) ==
  LET r == req[p] parent == fixFor[r.cur] IN
  /\ Calling(p, "close")
  /\ IF parent = NoTask
     THEN GoOn(p, [r EXCEPT !.cur = 0], Rest(p)) /\ UNCHANGED <<chainVars, diverted>>
     ELSE /\ resolution' = [resolution EXCEPT ![parent] = "resolved"]
          /\ pointer' = [pointer EXCEPT ![parent] = r.by]
          /\ resolvedBy' = [resolvedBy EXCEPT ![parent] = r.by]
          /\ root' = IF parent = 0 THEN [root EXCEPT !.why = "none", !.owner = Nobody, !.snapshot = NoSnapshot]
                                   ELSE root
          /\ IF parent = 0 THEN Divert(r.by) ELSE UNCHANGED diverted
          /\ GoOn(p, [r EXCEPT !.cur = parent], r.todo)
  /\ UNCHANGED <<taskVars, doneVars, counters>>

\* wakeDependents of what was closed.
Wake(p) ==
  /\ Calling(p, "wake")
  /\ dependent' = IF RootSatisfied THEN "pending" ELSE dependent
  /\ Return(p)
  /\ UNCHANGED <<taskVars, chainVars, applied, candidates, bounds>>

MarkApplied(p) ==
  /\ Calling(p, "mark")
  /\ applied' = applied \cup {req[p].by}
  /\ GoOn(p, [req[p] EXCEPT !.by = 0], Rest(p))
  /\ UNCHANGED <<taskVars, chainVars, candidates, dependent, bounds>>

-----------------------------------------------------------------------------
(* resolutionDecision: cancel or continue the chain.                       *)

\* The source of the repair a continue asks for.
ContinueSource == IF pointer[0] = NoTask THEN 0
                  ELSE IF fixFor[pointer[0]] = NoTask THEN 0 ELSE fixFor[pointer[0]]

\* An accepted repair closes the chain first; a cancel needs every child ended.
Winners == {t \in root.history : Accepted(t)}
MayCancel == resolution[0] = "needs_pm_decision" /\ \A t \in Children : ~Active(t)
MayContinue == /\ resolution[0] \in {"needs_pm_decision", "cancelled"} /\ root.why = "retry_limit"
               /\ continues < limit.continues

DecideBegin(p, action) ==
  LET r == [Idle EXCEPT !.base = Snap] IN
  /\ lock[0] = Nobody /\ lock' = [lock EXCEPT ![0] = p]
  /\ \/ \E t \in Winners : /\ \A u \in Winners : u <= t
                           /\ Start(p, [Idle EXCEPT !.todo = <<"replay">>, !.by = t])
     \/ Winners = {} /\ action = "cancel" /\ MayCancel /\ Start(p, [r EXCEPT !.todo = <<"cancel">>])
     \/ /\ Winners = {} /\ action = "continue" /\ MayContinue
        /\ Start(p, [r EXCEPT !.todo = IF resolution[0] = "cancelled" THEN <<"reopen", "begin">> ELSE <<"begin">>])
  /\ UNCHANGED <<taskVars, chainVars, doneVars, bounds>>

\* What every commit of a decision compares.
SameDecision(p) == LET b == req[p].base IN
  lock[0] = p /\ resolution[0] = b.resolution /\ root.gen = b.gen /\ root.why = b.why

CancelCommit(p) ==
  /\ Calling(p, "cancel")
  /\ resolution' = IF SameDecision(p) THEN [resolution EXCEPT ![0] = "cancelled"] ELSE resolution
  /\ Return(p)
  /\ UNCHANGED <<taskVars, pointer, resolvedBy, root, doneVars, bounds>>

Reopen(p) ==
  /\ Calling(p, "reopen")
  /\ IF SameDecision(p)
     THEN /\ resolution' = [resolution EXCEPT ![0] = "needs_pm_decision"] /\ candidates' = candidates \cup {0}
          /\ GoOn(p, [req[p] EXCEPT !.base.resolution = "needs_pm_decision"], Rest(p))
     ELSE GoOn(p, req[p], <<>>) /\ UNCHANGED <<resolution, candidates>>
  /\ UNCHANGED <<taskVars, pointer, resolvedBy, root, applied, dependent, bounds>>

\* BEGIN_RESOLUTION_CONTINUE: the root is taken for one more generation.
BeginContinue(p) ==
  /\ Calling(p, "begin")
  /\ IF SameDecision(p) /\ continues < limit.continues
     THEN /\ resolution' = [resolution EXCEPT ![0] = "repairing"]
          /\ root' = [root EXCEPT !.owner = p, !.snapshot = req[p].base]
          /\ candidates' = candidates \cup {0}
          /\ continues' = continues + 1
          /\ GoOn(p, [Idle EXCEPT !.source = ContinueSource], <<"ensure", "audit">>)
     ELSE GoOn(p, req[p], <<>>) /\ UNCHANGED <<resolution, root, candidates, continues>>
  /\ UNCHANGED <<taskVars, pointer, resolvedBy, applied, dependent, audits, resets, crashes, limit, diverted>>

Released_Kept == [root EXCEPT !.snapshot = NoSnapshot]
Released == [root EXCEPT !.owner = Nobody, !.snapshot = NoSnapshot]

\* The new generation is visible on the root; or nothing of it is.
Progressed == /\ resolution[0] \in {"repairing", "required"} /\ root.why = "none"
              /\ pointer[0] # NoTask
              /\ root.gen > root.snapshot.gen \/ root.attempts > root.snapshot.attempts
Untouched == /\ root.gen = root.snapshot.gen /\ root.attempts = root.snapshot.attempts
             /\ root.history = root.snapshot.history

\* ROLLBACK_INTERRUPTED_RESOLUTION_CONTINUE.
Rollback(p) ==
  \/ /\ resolution[0] = "repairing" /\ Untouched
     /\ resolution' = [resolution EXCEPT ![0] = "needs_pm_decision"]
     /\ root' = [Released EXCEPT !.why = root.snapshot.why]
     /\ candidates' = candidates \ {0}
  \/ /\ resolution[0] = "needs_pm_decision"
     /\ root' = Released /\ candidates' = candidates \ {0} /\ UNCHANGED resolution
  \/ /\ ~(resolution[0] = "repairing" /\ Untouched) /\ resolution[0] # "needs_pm_decision"
     /\ root' = Forget(p) /\ UNCHANGED <<resolution, candidates>>

\* The audit of a continue: by its own request, which must still hold the lock
\* and its token, or by the reconciliation.  cur = 0 says that no repair came.
Audit(p) ==
  LET r == req[p]
      own == Len(r.todo) = 1
      mine == root.owner # Nobody /\ (own => root.owner = p)
  IN
  /\ Calling(p, "audit")
  /\ \/ /\ ~mine /\ UNCHANGED <<root, resolution, candidates, audits>>
     \/ /\ mine /\ r.cur # 0 /\ Progressed /\ (own => lock[0] = p)
        /\ root' = Released /\ audits' = audits + 1
        /\ candidates' = IF own THEN candidates ELSE candidates \ {0}
        /\ UNCHANGED resolution
     \/ /\ mine /\ r.cur # 0 /\ own /\ ~(Progressed /\ lock[0] = p)
        /\ root' = Forget(p) /\ UNCHANGED <<audits, candidates, resolution>>
     \/ /\ mine /\ (r.cur = 0 \/ (~own /\ ~Progressed))
        /\ Rollback(p) /\ UNCHANGED audits
  /\ GoOn(p, [r EXCEPT !.cur = 0, !.by = 0], Rest(p))
  /\ UNCHANGED <<taskVars, pointer, resolvedBy, applied, dependent, continues, resets, crashes, limit, diverted>>

-----------------------------------------------------------------------------
(* reconcileRuntimeState, for one of its candidates.                       *)

\* recoverInterruptedResolutionContinues: the repair of a continue that was cut
\* off is made again; a chain that was closed meanwhile only drops the token.
ReconcileBegin(p, t) ==
  LET orphan == t = 0 /\ root.owner # Nobody /\ lock[0] = Nobody
      closed == resolution[0] \in {"resolved", "cancelled"}
      r == [Idle EXCEPT !.task = t]
      rest == <<"reconcile", "redo", "clean">>
  IN
  /\ t \in candidates
  /\ IF orphan /\ ~closed
     THEN Start(p, [r EXCEPT !.todo = <<"ensure", "audit">> \o rest, !.source = ContinueSource])
     ELSE Start(p, [r EXCEPT !.todo = rest])
  /\ IF orphan /\ closed THEN root' = Released /\ candidates' = candidates \ {0} ELSE UNCHANGED <<root, candidates>>
  /\ UNCHANGED <<taskVars, resolution, pointer, resolvedBy, applied, dependent, lock, bounds>>

\* reconcileResolutionBacklogUnlocked, for a chain of code tasks.  An accepted root
\* whose chain is still open drops it, unless a worker has a child or delivered one.
ReconcileAccepted(p) ==
  LET r == req[p]
      unstarted == /\ r.task = 0 /\ resolution[0] \in {"required", "repairing", "needs_pm_decision"}
                   /\ \A c \in Children : ~(status[c] = "running" \/ Awaiting(c))
  IN
  /\ Accepted(r.task)
  /\ IF unstarted THEN GoOn(p, [r EXCEPT !.kill = Children], <<"sweep", "clear">> \o Rest(p)) ELSE Return(p)
  /\ UNCHANGED queued

\* A failure in a chain that has ended or waits for the PM only loses its pending
\* children; a continue that holds the lock is left alone.
ReconcileHalted(p) ==
  /\ Failure(req[p].task)
  /\ \/ /\ resolution[0] \in {"resolved", "cancelled", "needs_pm_decision"}
        /\ \/ resolution[0] # "needs_pm_decision"
           \/ ~(root.owner # Nobody /\ lock[0] = root.owner)
        /\ GoOn(p, [req[p] EXCEPT !.kill = Children], <<"sweep">> \o Rest(p))
     \/ /\ resolution[0] \notin {"resolved", "cancelled"}
        /\ root.owner # Nobody /\ lock[0] = root.owner
        /\ Return(p)
  /\ UNCHANGED queued

\* Any other failure gets a repair, or the one it has is published.
ReconcileFailure(p) ==
  LET t == req[p].task
      cur == pointer[0]
      ended == cur # NoTask /\ (status[cur] \in {"failed", "cancelled"} \/ Rejected(cur))
  IN
  /\ Failure(t)
  /\ resolution[0] \notin {"resolved", "cancelled", "needs_pm_decision"}
  /\ ~(root.owner # Nobody /\ lock[0] = root.owner)
  /\ IF resolution[t] # "none" /\ ~(resolution[0] \in {"repairing", "required"} /\ ended)
     THEN Return(p) /\ queued' = IF cur = NoTask THEN queued ELSE WithPublished(cur)
     ELSE GoOn(p, [req[p] EXCEPT !.source = t], <<"ensure">> \o Rest(p)) /\ UNCHANGED queued

Reconcile(p) ==
  /\ Calling(p, "reconcile")
  /\ \/ ReconcileAccepted(p) \/ ReconcileHalted(p) \/ ReconcileFailure(p)
     \/ ~Accepted(req[p].task) /\ ~Failure(req[p].task) /\ Return(p) /\ UNCHANGED queued
  /\ UNCHANGED <<status, review, fixFor, chainVars, doneVars, bounds>>

\* An accepted root drops a chain that no worker has started.
Clear(p) ==
  /\ Calling(p, "clear")
  /\ resolution' = [resolution EXCEPT ![0] = "none"]
  /\ pointer' = [pointer EXCEPT ![0] = NoTask] /\ resolvedBy' = [resolvedBy EXCEPT ![0] = NoTask]
  /\ root' = [root EXCEPT !.why = "none"]
  /\ Divert(NoTask)
  /\ Return(p)
  /\ UNCHANGED <<taskVars, doneVars, counters>>

\* The tasks a candidate of the reconciliation stands for.
StandsFor_Pointer(t) == {pointer[t]} \ {NoTask}
StandsFor(t) ==
  ({t, pointer[t]} \ {NoTask})
    \cup (IF t = 0 /\ resolution[0] \in {"required", "repairing", "needs_pm_decision"} THEN root.history ELSE {})

\* replayPendingAcceptedRepairSideEffects: what of an accept is missing yet.
Redo(p) ==
  LET r == [req[p] EXCEPT !.cur = 0, !.by = 0, !.source = 0]
      accepted == {u \in StandsFor(r.task) : Accepted(u) /\ ~AllApplied(u)}
  IN
  /\ Calling(p, "redo")
  /\ \/ \E u \in accepted : /\ \A w \in accepted : w <= u
                            /\ GoOn(p, [r EXCEPT !.by = u], <<"replay">> \o r.todo)
     \/ accepted = {} /\ GoOn(p, r, Rest(p))
  /\ UNCHANGED <<taskVars, chainVars, doneVars, bounds>>

\* CLEAN_RUNTIME_RECONCILE_CANDIDATE.
KeepCandidate(t) ==
  \/ Accepted(t) /\ t \notin applied
  \/ Failure(t) /\ resolution[t] \notin {"resolved", "cancelled", "needs_pm_decision"}
CleanCandidate(p) ==
  LET t == req[p].task IN
  /\ Calling(p, "clean")
  /\ candidates' = IF KeepCandidate(t) THEN candidates ELSE candidates \ {t}
  /\ Return(p)
  /\ UNCHANGED <<taskVars, chainVars, applied, dependent, bounds>>

\* reconcileBlockedWaiters.
SweepDependent ==
  /\ dependent = "blocked" /\ RootSatisfied
  /\ dependent' = "pending"
  /\ UNCHANGED <<taskVars, chainVars, applied, candidates, lock, req, bounds>>

-----------------------------------------------------------------------------
(* Requests die and locks expire.                                          *)

Crash(p) ==
  /\ req[p] # Idle /\ crashes < limit.crashes
  /\ req' = [req EXCEPT ![p] = Idle]
  /\ lock' = [t \in Task |-> IF lock[t] = p THEN Gone ELSE lock[t]]
  /\ root' = Forget(p)
  /\ crashes' = crashes + 1
  /\ UNCHANGED <<taskVars, resolution, pointer, resolvedBy, doneVars, audits, continues, resets, limit, diverted>>

\* The lock of a stalled request expires; the request does not notice.
Lose(t) ==
  /\ lock[t] \in Requests /\ crashes < limit.crashes
  /\ lock' = [lock EXCEPT ![t] = Nobody]
  /\ crashes' = crashes + 1
  /\ UNCHANGED <<taskVars, chainVars, doneVars, req, audits, continues, resets, limit, diverted>>

Expire(t) ==
  /\ lock[t] = Gone
  /\ lock' = [lock EXCEPT ![t] = Nobody]
  /\ UNCHANGED <<taskVars, chainVars, doneVars, req, bounds>>

Step(p) ==
  \/ Ensure(p) \/ Create(p) \/ PublishRepair(p) \/ WriteRoot(p) \/ WriteSource(p) \/ AwaitReview(p)
  \/ Check(p) \/ Needs(p) \/ AskPm(p)
  \/ Commit(p, "accept") \/ Commit(p, "reject")
  \/ Replay(p) \/ Sweep(p) \/ KillChild(p) \/ Close(p) \/ Wake(p) \/ MarkApplied(p)
  \/ CancelCommit(p) \/ Reopen(p) \/ BeginContinue(p) \/ Audit(p)
  \/ Reconcile(p) \/ Clear(p) \/ Redo(p) \/ CleanCandidate(p)

RepairNext ==
  \/ \E t \in Task : PickSuperseded(t) \/ Claim(t) \/ Reclaim(t) \/ Lose(t) \/ Expire(t)
  \/ \E p \in Requests, t \in Task :
       \/ ReportDone(p, t) \/ ReportFailed(p, t) \/ CancelTask(p, t)
       \/ ReviewBegin(p, t, "accept") \/ ReviewBegin(p, t, "reject")
       \/ ReconcileBegin(p, t)
  \/ \E p \in Requests : DecideBegin(p, "cancel") \/ DecideBegin(p, "continue")
  \/ \E p \in Requests : Step(p) \/ Crash(p)
  \/ ResetRoot \/ SweepDependent

RepairSpec == RepairInit /\ [][RepairNext]_repairVars

\* A request goes on, locks expire, and the supervisor's tick gets to every
\* candidate again and again.  Nothing is assumed of workers, PM and operator,
\* nor of the sweep over blocked tasks.
Fairness ==
  /\ \A p \in Requests : WF_repairVars(Step(p))
  /\ \A t \in Task : WF_repairVars(Expire(t)) /\ \A p \in Requests : SF_repairVars(ReconcileBegin(p, t))
FairSpec == RepairSpec /\ Fairness

-----------------------------------------------------------------------------
(* Properties.                                                             *)

\* What a PM decided about a delivery is never changed, a reset of the root aside.
ReviewsAreFinal == [][\A t \in Task : review'[t] = review[t] \/ review[t] = "none" \/ resets' > resets]_repairVars

\* At most one repair of the root can be claimed or is being worked on.
OneRepairAtATime == \A t, u \in AtWork : t = u

\* A chain the PM has cancelled gets no new repair.
CancelledGetsNoRepair ==
  [][\A t \in Task : status[t] = "absent" /\ status'[t] # "absent" => resolution[0] # "cancelled"]_repairVars

\* Without a continue the hub makes max_retries repairs, whoever asks for them at once.
RepairsAreBounded == resets = 0 /\ continues = 0 =>
  \A t \in Task \ {0} : status[t] # "absent" => t <= limit.retries

\* The repairs go on one after the other, unless a late mark of a delivery, an accept, the
\* clean-up of an accepted root, or a decision asked for on an old reading of the root took
\* the root away from the one at work.
RepairsStayInLine == (diverted \/ OneRepairAtATime) /\ RepairsAreBounded

\* A continue is audited once.
ContinueAuditedOnce == audits <= continues

\* A decision of the PM is recorded once and stands.
DecisionsAreFinal == []ContinueAuditedOnce /\ ReviewsAreFinal

\* Cleaning up never takes a task from the worker who has it or has delivered it.
StartedIsKept == [][\A t \in Task : status[t] \in {"running", "done"} => status'[t] # "cancelled"]_repairVars

\* Contention and crashes are never taken for a foreign task with the repair's id.
NoFalseCollision == resets = 0 => root.why # "collision"

\* The effects of an accept are not lost, whatever died before they were applied.
AcceptTakesEffect == \A t \in Task : Accepted(t) ~> (t \in applied \/ ~Accepted(t))

\* A repair that was created gets into the pending zset, where workers look,
\* unless the PM cancels the chain or is asked about a collision, or it was a continue
\* that died (see ContinueIsTakenOver).
RepairIsOffered ==
  \A t \in Task : status[t] = "pending" ~>
    (t \in queued \/ status[t] # "pending" \/ resolution[0] = "cancelled" \/ root.owner = Gone
       \/ root.why = "collision")

\* The reconciliation takes over the continue of a request that died.
ContinueIsTakenOver == root.owner = Gone ~> root.owner = Nobody

\* The marker of an accept says that the effects of this accept have been applied.
MarkedIsDone == 0 \in applied /\ Accepted(0) => dependent = "pending"

\* Who waits for the root goes on by the wake-up, without the sweep.
DependentIsWoken == RootSatisfied ~> (dependent = "pending" \/ ~RootSatisfied)

\* An accept reaches the root and the task that waits for it, and an adverse result
\* leads to a repair that workers see.
RepairsMoveOn == AcceptTakesEffect /\ DependentIsWoken /\ RepairIsOffered
=============================================================================
