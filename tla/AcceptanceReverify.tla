-------------------------- MODULE AcceptanceReverify --------------------------
(***************************************************************************)
(* An acceptance task checks several sources.  When it fails or the PM     *)
(* rejects it, it is never run again: fresh attempts (reverify-1, -2, ...) *)
(* are made for it, by another agent and, where the PM asked for a repair, *)
(* only after one was accepted.  Reports, reviews, decisions and the sweep *)
(* of the hub read and write the root of the chain call by call.           *)
(***************************************************************************)
EXTENDS Naturals, Sequences, FiniteSets, FiniteSetsExt

CONSTANTS
  MaxGen,            \* bound: attempts after the first
  Fixes,             \* repairs of sources the PM may order, numbers
  Reverifiers,       \* agents
  Requests,          \* requests and sweeps under way
  MaxReverifies,     \* max_retries of the root
  PromptReports,     \* the hub answers a delivery before the PM reviews it
  DecisionBound, SweepBound, CrashBound,
  Nobody, NoRequest

ASSUME ReverifyAssumption ==
  /\ MaxGen \in Nat /\ MaxReverifies \in Nat
  /\ DecisionBound \in Nat /\ SweepBound \in Nat /\ CrashBound \in Nat
  /\ Nobody \notin Reverifiers /\ NoRequest \notin Requests

Gens == 0 .. MaxGen
VARIABLES
  root,      \* resolution fields of attempt 0, the acceptance itself
  attempt,   \* the acceptance and its reverify attempts
  fix,       \* the repairs of sources
  looked,    \* <<agent, attempt>>: the claim scan found no conflict
  todo,       \* what each request is about to do
  rootLock,  \* pmReviewLock of the root: the request that holds it
  count      \* reviews (the time of the last), decisions, sweeps, crashes; whether a late
             \* request for a decision pointed the root away from an attempt (history)

reverifyVars == <<root, attempt, fix, looked, todo, rootLock, count>>
Tasks0 == <<attempt, fix, looked>>

Why == {"none", "sources", "failure", "gate", "limit", "collision", "schedule"}
Snapshot == [why : Why, generation : Gens, repairs : SUBSET Fixes, history : SUBSET Gens]
NoSnapshot == [why |-> "none", generation |-> 0, repairs |-> {}, history |-> {}]
Root == [state : {"none", "required", "repairing", "needs", "resolved"}, why : Why,
         at : Gens, history : SUBSET Gens, generation : Gens, repairs : SUBSET Fixes,
         continued : Snapshot]
NoRoot == [state |-> "none", why |-> "none", at |-> 0, history |-> {}, generation |-> 0,
           repairs |-> {}, continued |-> NoSnapshot]
States == {"absent", "pending", "running", "done", "failed", "cancelled"}
AttemptRecord == [state : States, verdict : {"none", "accepted", "repair", "reverify"},
                  by : Reverifiers \cup {Nobody}, time : Nat, offered : BOOLEAN]
Fix == [state : {"absent", "pending", "running", "done"}, verdict : {"none", "accepted", "rejected"},
        by : Reverifiers \cup {Nobody}, time : Nat, made : Nat, trigger : Gens, open : BOOLEAN]
JobSteps == {"await", "kill", "kills", "needs", "asks", "mark", "marks", "reopen", "resume", "read", "current", "gate",
             "make", "create", "publish", "write", "sweep", "resolve", "close", "restore",
             "perform", "audit", "recover", "pick", "replay", "check"}
Idle0 == [steps |-> <<>>, root |-> NoRoot, gen |-> 0, why |-> "none", over |-> FALSE, result |-> "none",
          targets |-> {}, repairs |-> {}]

\* The fields of the chain have their types.
ReverifyTypeOK ==
  /\ root \in Root /\ attempt \in [Gens -> AttemptRecord] /\ fix \in [Fixes -> Fix]
  /\ looked \subseteq Reverifiers \X Gens /\ rootLock \in Requests \cup {NoRequest}
  /\ \A c \in Requests :
       /\ todo[c].root \in Root /\ todo[c].gen \in Gens /\ todo[c].why \in Why
       /\ todo[c].targets \subseteq Gens /\ todo[c].repairs \subseteq Fixes
       /\ todo[c].result \in {"none", "task", "pm"}
       /\ \A i \in DOMAIN todo[c].steps : todo[c].steps[i] \in JobSteps
  /\ count \in [reviews : Nat, decisions : 0 .. DecisionBound, sweeps : 0 .. SweepBound,
                crashes : 0 .. CrashBound, diverted : BOOLEAN]

\* The acceptance is being worked on by some agent.
ReverifyInit ==
  /\ root = NoRoot
  /\ \E a \in Reverifiers : attempt = [g \in Gens |->
       [state |-> IF g = 0 THEN "running" ELSE "absent", verdict |-> "none",
        by |-> IF g = 0 THEN a ELSE Nobody, time |-> 0, offered |-> FALSE]]
  /\ fix = [r \in Fixes |-> [state |-> "absent", verdict |-> "none", by |-> Nobody, time |-> 0,
                             made |-> 0, trigger |-> 0, open |-> FALSE]]
  /\ looked = {} /\ rootLock = NoRequest
  /\ todo = [c \in Requests |-> Idle0]
  /\ count = [reviews |-> 0, decisions |-> 0, sweeps |-> 0, crashes |-> 0, diverted |-> FALSE]

-----------------------------------------------------------------------------
(* What the hub reads off the tasks.                                       *)

Live(task) == task.state \in {"pending", "running"} \/ (task.state = "done" /\ task.verdict = "none")

\* It is under way or has been accepted.
Standing(task) == Live(task) \/ task.verdict = "accepted"

\* latestAcceptanceRepairReject: the last review that demands a repair, 0 if none.
LastReject(at) ==
  Max({0} \cup {attempt[g].time : g \in {h \in {0} \cup at.history : attempt[h].verdict = "repair"}}
          \cup {fix[r].time : r \in {s \in at.repairs : fix[s].verdict = "rejected"}})
Repaired_Always(at) == TRUE
Repaired(at) ==
  LastReject(at) = 0 \/ \E r \in at.repairs : fix[r].verdict = "accepted" /\ fix[r].time > LastReject(at)

\* Repairs the PM ordered after the last reject and that are not decided yet.
Selected(at) ==
  {r \in at.repairs :
     /\ LastReject(at) # 0 /\ Live(fix[r])
     /\ \/ attempt[fix[r].trigger].verdict = "repair" /\ attempt[fix[r].trigger].time = LastReject(at)
        \/ /\ fix[r].trigger \in {0} \cup at.history
           /\ attempt[fix[r].trigger].verdict = "repair" /\ fix[r].made >= LastReject(at)}

SourcesSatisfied == \A r \in Fixes : ~fix[r].open

\* acceptanceReviewerConflictTask: who repaired a source, and who took the last attempt
\* before this one, else the acceptance itself.
Excluded(at, g) ==
  LET taken == {h \in at.history \ {g} : attempt[h].by # Nobody}
  IN  {fix[r].by : r \in at.repairs} \cup {attempt[IF taken = {} THEN 0 ELSE Max(taken)].by}

-----------------------------------------------------------------------------
(* A request does its steps in order; each reads or writes the store once. *)

Idle(c) == todo[c].steps = <<>>
Does(c, step) == ~Idle(c) /\ Head(todo[c].steps) = step
Left(c, steps) == steps \o Tail(todo[c].steps)
\* What no step to come uses is forgotten.
Uses(steps, some) == \E i \in DOMAIN steps : steps[i] \in some
Keeping(t, steps) ==
  [steps |-> steps, over |-> t.over /\ Uses(steps, {"read", "current", "gate"}),
   root |-> IF Uses(steps, {"marks", "current", "gate", "make", "create", "write"}) THEN t.root ELSE NoRoot,
   gen |-> IF Uses(steps, {"asks", "await", "make", "create", "publish", "write", "sweep", "resolve"}) THEN t.gen ELSE 0,
   why |-> IF Uses(steps, {"needs", "asks"}) THEN t.why ELSE "none",
   result |-> IF Uses(steps, {"audit", "check"}) THEN t.result ELSE "none",
   targets |-> IF Uses(steps, {"kill", "kills"}) THEN t.targets ELSE {},
   repairs |-> IF Uses(steps, {"mark", "marks", "close", "restore"}) THEN t.repairs ELSE {}]
Continues(c, steps, new) == todo' = [todo EXCEPT ![c] = Keeping(new, Left(c, steps))]
\* The last step of a request gives the root's lock back.
Unlocks(c, steps) ==
  rootLock' = IF rootLock = c /\ Left(c, steps) = <<>> THEN NoRequest ELSE rootLock
On(c, steps, new) == Continues(c, steps, new) /\ Unlocks(c, steps) /\ UNCHANGED count
Same(c, steps) == On(c, steps, todo[c])
Starts(c, steps, new) == Idle(c) /\ todo' = [todo EXCEPT ![c] = [new EXCEPT !.steps = steps]]

\* markResolutionNeedsPmDecision reads where the root points, or the last of its history,
\* and writes that back with the question, whatever the root points at by then.
LastOf(at) == IF at.at # 0 \/ at.history = {} THEN at.at ELSE Max(at.history)
AskReads(c) ==
  /\ Does(c, "needs")
  /\ On(c, <<"asks">>, [todo[c] EXCEPT !.gen = LastOf(root)])
  /\ UNCHANGED <<root, Tasks0>>
AskPm(c) == LET g == todo[c].gen IN
  /\ Does(c, "asks")
  /\ root' = [root EXCEPT !.state = "needs", !.why = todo[c].why, !.at = g]
  /\ count' = [count EXCEPT !.diverted = @ \/ (g # LastOf(root) /\ \E h \in Gens \ {g} : Standing(attempt[h]))]
  /\ Continues(c, <<>>, [todo[c] EXCEPT !.result = "pm"]) /\ Unlocks(c, <<>>)
  /\ UNCHANGED Tasks0

\* markAcceptanceFailureResolution writes what it computed from an earlier reading.
MarkReads(c) ==
  /\ Does(c, "mark")
  /\ IF root.state = "resolved" THEN Same(c, <<>>) ELSE On(c, <<"marks">>, [todo[c] EXCEPT !.root = root])
  /\ UNCHANGED <<root, Tasks0>>
MarkWrites(c) == LET seen == todo[c].root none == todo[c].repairs = {} IN
  /\ Does(c, "marks")
  /\ root' = [root EXCEPT
       !.state = IF none THEN "needs" ELSE "repairing", !.why = IF none THEN seen.why ELSE "none",
       !.at = IF seen.at # 0 \/ seen.history = {} THEN seen.at ELSE Max(seen.history),
       !.history = seen.history, !.generation = seen.generation,
       !.repairs = seen.repairs \cup todo[c].repairs]
  /\ Same(c, <<>>)
  /\ UNCHANGED Tasks0

\* terminalizePendingResolutionChildren reads which are pending, then cancels them.
KillReads(c) ==
  /\ Does(c, "kill")
  /\ LET found == {g \in todo[c].targets \ {0} : attempt[g].state = "pending"}
     IN  IF found = {} THEN Same(c, <<>>) ELSE On(c, <<"kills">>, [todo[c] EXCEPT !.targets = found])
  /\ UNCHANGED <<root, Tasks0>>
KillWrites(c) ==
  /\ Does(c, "kills")
  /\ attempt' = [g \in Gens |-> IF g \notin todo[c].targets THEN attempt[g]
                                ELSE [attempt[g] EXCEPT !.state = "cancelled", !.offered = FALSE]]
  /\ Same(c, <<>>)
  /\ UNCHANGED <<root, fix, looked>>

-----------------------------------------------------------------------------
(* ensureAcceptanceReverifyTask.                                           *)

EnsureRead(c) ==
  /\ Does(c, "read")
  /\ IF (root.state \in {"required", "repairing"} \/ (todo[c].over /\ root.state = "needs")) /\ SourcesSatisfied
     THEN On(c, <<"current">>, [todo[c] EXCEPT !.root = root, !.result = "none"])
     ELSE On(c, <<>>, [todo[c] EXCEPT !.result = "none"])
  /\ UNCHANGED <<root, Tasks0>>

\* The attempt the root points at is closed, kept, withdrawn, or history.
EnsureCurrent(c) == LET seen == todo[c].root g == todo[c].root.at IN
  /\ Does(c, "current")
  /\ IF g # 0 /\ attempt[g].verdict = "accepted"
     THEN On(c, <<"sweep", "resolve">>, [todo[c] EXCEPT !.gen = g, !.result = "task"])
     ELSE IF g = 0 \/ ~Live(attempt[g]) THEN Same(c, <<"gate">>)
     ELSE IF Repaired(seen) \/ attempt[g].state # "pending"
     THEN On(c, <<"publish">>, [todo[c] EXCEPT !.gen = g, !.result = "task"])
     ELSE IF Selected(seen) # {} THEN Same(c, <<>>)
     ELSE On(c, <<"kill", "needs">>, [todo[c] EXCEPT !.targets = {g}, !.why = "gate"])
  /\ UNCHANGED <<root, Tasks0>>

LimitReached(seen) == seen.generation >= Max({1, MaxReverifies})
EnsureGate(c) == LET seen == todo[c].root IN
  /\ Does(c, "gate")
  /\ IF ~Repaired(seen)
     THEN IF Selected(seen) # {} THEN Same(c, <<>>) ELSE On(c, <<"needs">>, [todo[c] EXCEPT !.why = "gate"])
     ELSE IF LimitReached(seen) /\ ~todo[c].over
     THEN On(c, <<"needs">>, [todo[c] EXCEPT !.why = "limit"])
     ELSE seen.generation < MaxGen /\ On(c, <<"make">>, [todo[c] EXCEPT !.gen = seen.generation + 1])
  /\ UNCHANGED <<root, Tasks0>>

\* An attempt of that number that a request left behind is adopted.
EnsureMake(c) == LET a == attempt[todo[c].gen] IN
  /\ Does(c, "make")
  /\ CASE a.state = "absent" -> Same(c, <<"create">>)
       [] a.state = "cancelled" -> On(c, <<"needs">>, [todo[c] EXCEPT !.why = "collision"])
       [] a.verdict = "accepted" -> On(c, <<"publish", "write", "sweep", "resolve">>, [todo[c] EXCEPT !.result = "task"])
       [] OTHER -> On(c, <<"publish", "write">>, [todo[c] EXCEPT !.result = "task"])
  /\ UNCHANGED <<root, Tasks0>>
EnsureCreate(c) == LET g == todo[c].gen IN
  /\ Does(c, "create")
  /\ IF attempt[g].state # "absent" THEN Same(c, <<"read">>) /\ UNCHANGED attempt
     ELSE /\ attempt' = [attempt EXCEPT ![g].state = "pending"]
          /\ On(c, <<"publish", "write">>, [todo[c] EXCEPT !.result = "task"])
  /\ UNCHANGED <<root, fix, looked>>

\* ensurePendingTaskPublished.
Publish(c) == LET g == todo[c].gen IN
  /\ Does(c, "publish")
  /\ attempt' = [attempt EXCEPT ![g].offered = @ \/ attempt[g].state = "pending"]
  /\ Same(c, <<>>)
  /\ UNCHANGED <<root, fix, looked>>
EnsureWrite(c) == LET g == todo[c].gen IN
  /\ Does(c, "write")
  /\ root' = [root EXCEPT !.state = "required", !.why = "none", !.at = g,
                          !.history = todo[c].root.history \cup {g}, !.generation = g]
  /\ Same(c, <<>>)
  /\ UNCHANGED Tasks0

\* resolveRepairLineage of an accepted attempt: its pending siblings go first.
SweepSiblings(c) ==
  /\ Does(c, "sweep")
  /\ On(c, <<"kill">>, [todo[c] EXCEPT !.targets = root.history \ {todo[c].gen}])
  /\ UNCHANGED <<root, Tasks0>>
ResolveRoot(c) ==
  /\ Does(c, "resolve")
  /\ root' = [root EXCEPT !.state = "resolved", !.why = "none", !.at = todo[c].gen, !.continued = NoSnapshot]
  /\ Same(c, <<>>)
  /\ UNCHANGED Tasks0

-----------------------------------------------------------------------------
(* Agents claim and report attempts and repairs.                           *)

\* The scan checks the reviewer, the claim's script only that the task is pending.
Look(a, g) ==
  /\ attempt[g].state = "pending" /\ attempt[g].offered /\ a \notin Excluded(root, g)
  /\ looked' = looked \cup {<<a, g>>}
  /\ UNCHANGED <<root, attempt, fix, todo, rootLock, count>>
TakeAttempt(a, g) ==
  /\ <<a, g>> \in looked /\ looked' = {l \in looked : l[1] # a}
  /\ attempt' = IF attempt[g].state # "pending" THEN attempt
                ELSE [attempt EXCEPT ![g].state = "running", ![g].by = a, ![g].offered = FALSE]
  /\ UNCHANGED <<root, fix, todo, rootLock, count>>
TakeFix(a, r) ==
  /\ fix[r].state = "pending"
  /\ fix' = [fix EXCEPT ![r].state = "running", ![r].by = a]
  /\ looked' = {l \in looked : l[1] # a}
  /\ UNCHANGED <<root, attempt, todo, rootLock, count>>

\* A delivery checks the reviewer again and marks the root (markRepairAwaitingReview), a
\* failure asks the PM.
Deliver(c, g) ==
  /\ attempt[g].state = "running" /\ (g # 0 => attempt[g].by \notin Excluded(root, g))
  /\ attempt' = [attempt EXCEPT ![g].state = "done"]
  /\ IF g = 0 THEN todo' = todo ELSE Starts(c, <<"await">>, [Idle0 EXCEPT !.gen = g])
  /\ UNCHANGED <<root, fix, looked, rootLock, count>>
Await(c) ==
  /\ Does(c, "await")
  /\ root' = [root EXCEPT !.state = "required", !.at = todo[c].gen]
  /\ Same(c, <<>>)
  /\ UNCHANGED Tasks0
FailAttempt(c, g) ==
  /\ attempt[g].state = "running"
  /\ attempt' = [attempt EXCEPT ![g].state = "failed", ![g].time = count.reviews]
  /\ Starts(c, <<"needs">>, [Idle0 EXCEPT !.why = "failure"])
  /\ UNCHANGED <<root, fix, looked, rootLock, count>>
DeliverFix(r) ==
  /\ fix[r].state = "running"
  /\ fix' = [fix EXCEPT ![r].state = "done"]
  /\ UNCHANGED <<root, attempt, looked, todo, rootLock, count>>

-----------------------------------------------------------------------------
(* The PM reviews and decides.                                             *)

Reviewed(verdict, task) == [task EXCEPT !.verdict = verdict, !.time = count.reviews + 1]
Counts == count' = [count EXCEPT !.reviews = @ + 1]
\* The review of the acceptance itself holds the lock of the root.
LocksFor(c, g, steps) == IF g # 0 \/ steps = <<>> THEN UNCHANGED rootLock
                         ELSE rootLock = NoRequest /\ rootLock' = c
Review(c, g, verdict, steps, new) ==
  /\ attempt[g].state = "done" /\ attempt[g].verdict = "none"
  /\ g = 0 => rootLock = NoRequest
  /\ PromptReports => \A d \in Requests : ~(todo[d].gen = g /\ Does(d, "await"))
  /\ attempt' = [attempt EXCEPT ![g] = Reviewed(verdict, @)]
  /\ Starts(c, steps, new) /\ LocksFor(c, g, steps) /\ Counts
  /\ UNCHANGED <<fix, looked>>
AcceptAttempt(c, g) ==
  /\ Review(c, g, "accepted", IF g = 0 THEN <<>> ELSE <<"sweep", "resolve">>, [Idle0 EXCEPT !.gen = g])
  /\ UNCHANGED root
RejectRepair(c, g) ==
  /\ Review(c, g, "repair", <<"mark", "needs">>, [Idle0 EXCEPT !.why = "sources"])
  /\ UNCHANGED root
RejectReverify(c, g) ==
  /\ Review(c, g, "reverify", <<"read", "check">>, Idle0)
  /\ root' = IF g # 0 THEN root ELSE [root EXCEPT !.state = "required", !.at = 0, !.why = "none"]
CheckScheduled(c) ==
  /\ Does(c, "check")
  /\ IF todo[c].result # "none" THEN Same(c, <<>>) ELSE On(c, <<"needs">>, [todo[c] EXCEPT !.why = "schedule"])
  /\ UNCHANGED <<root, Tasks0>>

\* An accepted repair closes its source and wakes the acceptance; a rejected one the PM
\* had selected takes the source back and asks the PM again, any other leaves the
\* source to its own chain of repairs.
AcceptFix(c, r) ==
  /\ fix[r].state = "done" /\ fix[r].verdict = "none"
  /\ fix' = [fix EXCEPT ![r] = Reviewed("accepted", @)]
  /\ Starts(c, <<"close", "read">>, [Idle0 EXCEPT !.repairs = {r}]) /\ Counts
  /\ UNCHANGED <<root, attempt, looked, rootLock>>
RejectFix(c, r) ==
  /\ fix[r].state = "done" /\ fix[r].verdict = "none"
  /\ fix' = [fix EXCEPT ![r] = Reviewed("rejected", @)]
  /\ IF r \in root.repairs /\ root.state # "resolved"
     THEN Starts(c, <<"restore", "mark", "needs">>, [Idle0 EXCEPT !.repairs = {r}, !.why = "sources"])
     ELSE Idle(c) /\ UNCHANGED todo
  /\ Counts
  /\ UNCHANGED <<root, attempt, looked, rootLock>>
CloseSource(c) ==
  /\ Does(c, "close") \/ Does(c, "restore")
  /\ fix' = [r \in Fixes |-> IF r \in todo[c].repairs THEN [fix[r] EXCEPT !.open = FALSE] ELSE fix[r]]
  /\ On(c, <<>>, [todo[c] EXCEPT !.repairs = {}])
  /\ UNCHANGED <<root, attempt, looked>>

\* The PM goes on (BEGIN_RESOLUTION_CONTINUE).
Continue(c) ==
  /\ root.state = "needs" /\ root.why \in {"limit", "sources", "failure"}
  /\ count.decisions < DecisionBound /\ rootLock = NoRequest /\ rootLock' = c
  /\ root' = [root EXCEPT !.state = "repairing",
       !.continued = [why |-> root.why, generation |-> root.generation, repairs |-> root.repairs,
                      history |-> root.history]]
  /\ Starts(c, <<"perform", "audit">>, Idle0)
  /\ count' = [count EXCEPT !.decisions = @ + 1]
  /\ UNCHANGED Tasks0

\* performResolutionContinueWork: another attempt, or a repair of a source the PM names.
PerformReverify(c) ==
  /\ Does(c, "perform") /\ root.continued.why \in {"limit", "failure"} /\ Repaired(root)
  /\ On(c, <<"read">>, [todo[c] EXCEPT !.over = TRUE])
  /\ UNCHANGED <<root, Tasks0>>
PerformRepair(c, r) ==
  /\ Does(c, "perform") /\ root.continued.why = "sources"
  /\ fix[r].state = "absent" \/ (Live(fix[r]) /\ r \notin root.repairs)
  /\ fix' = IF fix[r].state # "absent" THEN fix
            ELSE [fix EXCEPT ![r].state = "pending", ![r].open = TRUE, ![r].made = count.reviews,
                   ![r].trigger = CHOOSE g \in Gens : \A h \in Gens :
                      attempt[h].verdict = "repair" => attempt[g].verdict = "repair" /\ attempt[h].time <= attempt[g].time]
  /\ On(c, <<"mark">>, [todo[c] EXCEPT !.repairs = {r}, !.result = "task"])
  /\ UNCHANGED <<root, attempt, looked>>
PerformFails(c) ==
  /\ Does(c, "perform")
  /\ \/ root.continued.why \in {"limit", "failure"} /\ ~Repaired(root)
     \/ root.continued.why = "none"
     \/ root.continued.why = "sources" /\ \A r \in Fixes : fix[r].state # "absent" /\ (~Live(fix[r]) \/ r \in root.repairs)
  /\ On(c, <<>>, [todo[c] EXCEPT !.result = "none"])
  /\ UNCHANGED <<root, Tasks0>>

\* The audit: it is complete when a generation or a repair was added, else it is taken back.
Progress == /\ root.state \in {"repairing", "required"} /\ root.why = "none"
            /\ root.generation > root.continued.generation \/ root.repairs # root.continued.repairs
            /\ root.at # 0 \/ root.repairs # root.continued.repairs
Restored ==
  CASE /\ root.state = "repairing" /\ root.generation = root.continued.generation
       /\ root.history = root.continued.history /\ root.repairs = root.continued.repairs
         -> [root EXCEPT !.state = "needs", !.why = root.continued.why, !.continued = NoSnapshot]
    [] root.state = "needs" -> [root EXCEPT !.continued = NoSnapshot]
    [] OTHER -> root
Audit(c) ==
  /\ Does(c, "audit")
  /\ root' = IF root.continued = NoSnapshot THEN root
             ELSE IF todo[c].result # "task" THEN Restored
             ELSE IF Progress THEN [root EXCEPT !.continued = NoSnapshot]
             ELSE IF rootLock = c THEN root ELSE Restored
  /\ On(c, <<>>, [todo[c] EXCEPT !.over = FALSE, !.result = "none", !.repairs = {}])
  /\ UNCHANGED Tasks0

-----------------------------------------------------------------------------
(* The sweep (reconcileResolutionBacklog).                                 *)

Sweep(c) ==
  /\ count.sweeps < SweepBound /\ Starts(c, <<"recover", "pick", "replay", "read">>, Idle0)
  /\ count' = [count EXCEPT !.sweeps = @ + 1]
  /\ UNCHANGED <<root, Tasks0, rootLock>>

\* recoverInterruptedResolutionContinues.
Recover(c) ==
  /\ Does(c, "recover")
  /\ IF root.continued = NoSnapshot \/ rootLock # NoRequest THEN Same(c, <<>>) /\ UNCHANGED root
     ELSE IF root.state = "resolved"
     THEN root' = [root EXCEPT !.continued = NoSnapshot] /\ Same(c, <<>>)
     ELSE Same(c, <<"perform", "audit">>) /\ UNCHANGED root
  /\ UNCHANGED Tasks0

Candidates == {g \in {0} \cup root.history :
                 attempt[g].state = "failed" \/ attempt[g].verdict \in {"repair", "reverify"}}
At == attempt[root.at]
Needed(s) == IF attempt[s].state = "failed" THEN "failure" ELSE "sources"
\* A root that waits for the PM goes on when its repair was accepted since, otherwise
\* its unclaimed attempts are withdrawn.
WhileNeeds(c) ==
  IF root.why \in {"sources", "gate"} /\ Repaired(root) THEN Same(c, <<"reopen", "read">>)
  ELSE IF root.at # 0 /\ At.verdict = "repair" THEN On(c, <<"needs">>, [todo[c] EXCEPT !.why = "sources"])
  ELSE IF root.why = "failure" /\ root.at # 0 /\ Live(At)
  THEN On(c, <<"resume", "publish">>, [todo[c] EXCEPT !.gen = root.at])
  ELSE On(c, <<"kill">>, [todo[c] EXCEPT !.targets = {root.at} \cup root.history])
\* An attempt under way is offered again, unless a repair has to come first.
WhileLive(c) ==
  IF Repaired(root) THEN On(c, <<"publish">>, [todo[c] EXCEPT !.gen = root.at])
  ELSE On(c, <<"kill", "mark", "needs">>, [todo[c] EXCEPT !.targets = {root.at}, !.why = "sources"])
Afresh(c, s) ==
  IF attempt[s].verdict # "reverify" THEN On(c, <<"mark", "needs">>, [todo[c] EXCEPT !.why = Needed(s)])
  ELSE Same(c, IF s = 0 /\ root.state \notin {"required", "repairing"} THEN <<"reopen", "read">> ELSE <<"read">>)
Pick(c, s) ==
  /\ Does(c, "pick") /\ s \in Candidates
  /\ IF root.state = "resolved" THEN On(c, <<"kill">>, [todo[c] EXCEPT !.targets = root.history])
     ELSE IF root.continued # NoSnapshot /\ rootLock # NoRequest THEN Same(c, <<>>)
     ELSE IF Selected(root) # {} THEN On(c, <<"mark">>, [todo[c] EXCEPT !.repairs = Selected(root)])
     ELSE IF root.state = "needs" THEN WhileNeeds(c)
     ELSE IF root.at # 0 /\ Live(At) THEN WhileLive(c)
     ELSE Afresh(c, s)
  /\ UNCHANGED <<root, Tasks0>>
PickNone(c) ==
  /\ Does(c, "pick") /\ Candidates = {} /\ Same(c, <<>>)
  /\ UNCHANGED <<root, Tasks0>>
ReopenRoot(c) ==
  /\ Does(c, "reopen") \/ Does(c, "resume")
  /\ root' = [root EXCEPT !.state = "required", !.why = "none", !.at = IF Does(c, "resume") THEN @ ELSE 0]
  /\ On(c, <<>>, [todo[c] EXCEPT !.repairs = {}])
  /\ UNCHANGED Tasks0

\* replayPendingAcceptedRepairSideEffects.
Replay(c) ==
  /\ Does(c, "replay")
  /\ LET won == {g \in root.history : attempt[g].verdict = "accepted"}
         shut == {r \in Fixes : fix[r].verdict = "accepted" /\ fix[r].open}
     IN  On(c, (IF won # {} /\ root.state # "resolved" THEN <<"sweep", "resolve">> ELSE <<>>)
                 \o (IF shut # {} THEN <<"close">> ELSE <<>>),
            [todo[c] EXCEPT !.gen = IF won = {} THEN 0 ELSE Max(won), !.repairs = shut])
  /\ UNCHANGED <<root, Tasks0>>

\* The process of a request dies; its lock lapses.
Die(c) ==
  /\ ~Idle(c) /\ count.crashes < CrashBound
  /\ todo' = [todo EXCEPT ![c] = Idle0]
  /\ rootLock' = IF rootLock = c THEN NoRequest ELSE rootLock
  /\ count' = [count EXCEPT !.crashes = @ + 1]
  /\ UNCHANGED <<root, Tasks0>>

ReverifyNext ==
  \/ \E a \in Reverifiers : \/ \E g \in Gens : Look(a, g) \/ TakeAttempt(a, g)
                            \/ \E r \in Fixes : TakeFix(a, r)
  \/ \E r \in Fixes : DeliverFix(r)
  \/ \E c \in Requests :
       \/ \E g \in Gens : \/ Deliver(c, g) \/ FailAttempt(c, g) \/ Pick(c, g)
                          \/ AcceptAttempt(c, g) \/ RejectRepair(c, g) \/ RejectReverify(c, g)
       \/ \E r \in Fixes : AcceptFix(c, r) \/ RejectFix(c, r) \/ PerformRepair(c, r)
       \/ AskReads(c) \/ AskPm(c) \/ MarkReads(c) \/ MarkWrites(c) \/ KillReads(c) \/ KillWrites(c)
       \/ EnsureRead(c) \/ EnsureCurrent(c) \/ EnsureGate(c) \/ EnsureMake(c) \/ EnsureCreate(c)
       \/ Publish(c) \/ EnsureWrite(c) \/ SweepSiblings(c) \/ ResolveRoot(c) \/ Await(c)
       \/ CheckScheduled(c) \/ CloseSource(c) \/ Continue(c) \/ PerformReverify(c) \/ PerformFails(c)
       \/ Audit(c) \/ Sweep(c) \/ Recover(c) \/ PickNone(c) \/ ReopenRoot(c) \/ Replay(c) \/ Die(c)

ReverifySpec == ReverifyInit /\ [][ReverifyNext]_reverifyVars

-----------------------------------------------------------------------------
\* What the tasks say, whatever the root remembers: the last time a source was found
\* wanting, and whether a repair was accepted since.
LastDemand(repairs) ==
  Max({0} \cup {attempt[g].time : g \in {h \in Gens : attempt[h].verdict = "repair"}}
          \cup {fix[r].time : r \in {s \in repairs : fix[s].verdict = "rejected"}})
DemandIsMet(repairs) ==
  \/ LastDemand(repairs) = 0
  \/ \E r \in Fixes : fix[r].verdict = "accepted" /\ fix[r].time > LastDemand(repairs)
Creates(c) == Does(c, "create") /\ attempt[todo[c].gen].state = "absent" /\ attempt' # attempt

\* A late request for a decision may point the root back, away from an attempt that is under
\* way or was accepted; what follows may be an attempt beside that one.
Diverted == count.diverted

\* A second sweep may take what the first wrote late, that the PM is asked, for news of a
\* repair: it forgets the attempt the root points at, and makes another beside it.
OneSweep == count.sweeps <= 1

\* A new attempt follows an accepted repair when the last demand was for one (`only an
\* accepted repair after that decision reopens reverify'), and none follows an accepted
\* attempt; the sweep, a continue and a review may run into each other.  Repairs that were
\* ordered since the request read the root are not seen by it.
RepairComesFirst ==
  [][\A c \in Requests : OneSweep /\ ~Diverted /\ Creates(c) =>
       DemandIsMet(todo[c].root.repairs) /\ \A h \in Gens : attempt[h].verdict # "accepted"]_reverifyVars

\* Two attempts at one acceptance are never under way together, as long as the hub answers
\* a delivery before the PM reviews it: a mark of the root that comes later points it back
\* at an attempt that is decided.
OneLiveAttempt ==
  [](PromptReports /\ OneSweep /\ ~Diverted => Cardinality({g \in Gens : Live(attempt[g])}) <= 1)

\* Past the retry limit none is made before the PM has decided to go on.
LimitNeedsDecision ==
  [](\A g \in Gens : g > Max({1, MaxReverifies}) /\ count.decisions = 0 => attempt[g].state = "absent")

\* The chain of reverify attempts of an acceptance: these three.
ReverifyIsSafe == RepairComesFirst /\ OneLiveAttempt /\ LimitNeedsDecision

\* One decision to go on makes one attempt (`deterministic task ids make the replay safe').
\* (Does not hold: when the attempt fails before the decision is recorded, the sweep goes
\* on a second time.)
OneAttemptPerDecision ==
  [](\A g \in Gens : g > Max({1, MaxReverifies}) + count.decisions => attempt[g].state = "absent")
=============================================================================
