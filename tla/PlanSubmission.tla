--------------------------- MODULE PlanSubmission ---------------------------
(***************************************************************************)
(* The files of a plan become tasks.  A submission reads the directory,    *)
(* checks that nothing in it belongs to another plan, takes a preview of   *)
(* the tasks, and publishes them in one guarded transaction; the durable   *)
(* copy follows task by task.  Meanwhile the tasks it would overwrite are  *)
(* reserved, claimed and finished.                                         *)
(*                                                                         *)
(* One Redis connection answers in order and SQLite is called without an   *)
(* await, so a read of Redis and the write to SQLite that follows it are   *)
(* one step.  A claim is no such read: it commits long after it has read.  *)
(***************************************************************************)
EXTENDS Naturals, FiniteSets

CONSTANTS
  Plans, Names,        \* plans, and the ids their tasks may have
  Submits,             \* requests that submit
  ContentBound,        \* how many versions of its text a task can have
  RunBound,            \* how often a task can be claimed
  NoPlan, NoSubmit

Contents == 1 .. ContentBound

Entry == [plan : Plans \cup {NoPlan}, text : 0 .. ContentBound, reserved : BOOLEAN, runs : Nat,
          status : {"missing", "pending", "running", "done"}]
Copy == [plan : Plans \cup {NoPlan}, text : 0 .. ContentBound,
         status : {"missing", "pending", "running", "done"}]
Missing == [plan |-> NoPlan, text |-> 0, reserved |-> FALSE, runs |-> 0, status |-> "missing"]
Submission == [plan : Plans, files : [Names -> 0 .. ContentBound], preview : [Names -> Entry],
               at : {"check", "preview", "watch", "exec", "copy"}, left : SUBSET Names]

ASSUME SubmissionAssumption ==
  /\ ContentBound \in Nat \ {0} /\ RunBound \in Nat /\ NoPlan \notin Plans
  /\ NoSubmit \notin Submission

VARIABLES
  directory,   \* the text of each task file in a plan's directory, 0 for none
  published,   \* plans the hub knows
  entry,       \* the hub's task of each id
  readings,    \* the texts claim requests have read of a task
  given,       \* the text the worker of a task was given
  copied,      \* SQLite's copy of each task
  submit,      \* the requests under way
  broken,      \* requests whose WATCH saw a write
  outdated,    \* history: readings a submission has overwritten since
  overtaken    \* history: tasks whose last claim gave such a reading to the worker

claimVars == <<readings, given, outdated, overtaken>>
submissionVars == <<directory, published, entry, claimVars, copied, submit, broken>>

SubmissionTypeOK ==
  /\ directory \in [Plans -> [Names -> 0 .. ContentBound]]
  /\ published \in SUBSET Plans
  /\ entry \in [Names -> Entry] /\ copied \in [Names -> Copy]
  /\ given \in [Names -> 0 .. ContentBound]
  /\ {readings, outdated} \subseteq [Names -> SUBSET (0 .. ContentBound)]
  /\ overtaken \subseteq Names
  /\ submit \in [Submits -> Submission \cup {NoSubmit}]
  /\ broken \in SUBSET Submits

SubmissionInit ==
  /\ directory = [p \in Plans |-> [n \in Names |-> 0]]
  /\ published = {}
  /\ entry = [n \in Names |-> Missing]
  /\ copied = [n \in Names |-> [plan |-> NoPlan, text |-> 0, status |-> "missing"]]
  /\ given = [n \in Names |-> 0] /\ overtaken = {}
  /\ readings = [n \in Names |-> {}] /\ outdated = [n \in Names |-> {}]
  /\ submit = [s \in Submits |-> NoSubmit]
  /\ broken = {}

Under(s) == submit[s] # NoSubmit
StageOf(s, step) == Under(s) /\ submit[s].at = step
Listed(s) == {n \in Names : submit[s].files[n] # 0}
MovesOn(s, step) == submit' = [submit EXCEPT ![s].at = step]
Refused(s) == submit' = [submit EXCEPT ![s] = NoSubmit]

\* Every change of a task bumps the revision of its plan, which all submissions
\* watch; a reservation only touches its task.
Watching == {s \in Submits : StageOf(s, "exec")}
Touches == broken' = broken \cup Watching
TouchesTask(n) == broken' = broken \cup {s \in Watching : n \in Listed(s)}

-----------------------------------------------------------------------------
(* Requests *)

Begins(s, p, files) ==
  submit' = [submit EXCEPT ![s] = [plan |-> p, files |-> files, at |-> "check", left |-> {},
                                   preview |-> [n \in Names |-> Missing]]]

\* planCreate writes the directory, planTaskUpsert one file of a known plan; both
\* submit the whole directory in the same breath.
Create(s, p) ==
  /\ ~Under(s) /\ \A n \in Names : directory[p][n] = 0
  /\ \E some \in SUBSET Names : some # {} /\
       directory' = [directory EXCEPT ![p] = [n \in Names |-> IF n \in some THEN 1 ELSE 0]]
  /\ Begins(s, p, directory'[p])
  /\ UNCHANGED <<published, entry, claimVars, copied, broken>>

Upsert(s, p, n, c) ==
  /\ ~Under(s) /\ p \in published
  /\ directory' = [directory EXCEPT ![p][n] = c]
  /\ Begins(s, p, directory'[p])
  /\ UNCHANGED <<published, entry, claimVars, copied, broken>>

Resubmit(s, p) ==
  /\ ~Under(s) /\ \E n \in Names : directory[p][n] # 0
  /\ Begins(s, p, directory[p])
  /\ UNCHANGED <<directory, published, entry, claimVars, copied, broken>>

\* The ids are looked up before the preview is taken.
Foreign(s, n) ==
  LET owner == IF entry[n].plan # NoPlan THEN entry[n].plan ELSE copied[n].plan IN
  owner \notin {NoPlan, submit[s].plan}

CheckPlan(s) ==
  /\ StageOf(s, "check")
  /\ IF \E n \in Listed(s) : Foreign(s, n) THEN Refused(s) ELSE MovesOn(s, "preview")
  /\ UNCHANGED <<directory, published, entry, claimVars, copied, broken>>

Preview(s) ==
  /\ StageOf(s, "preview")
  /\ submit' = [submit EXCEPT ![s].at = "watch", ![s].preview = entry]
  /\ UNCHANGED <<directory, published, entry, claimVars, copied, broken>>

\* The preview is taken again once the keys are watched: it must be the same, and
\* no task it would overwrite may be reserved.
Same(s) == \A n \in Listed(s) : submit[s].preview[n] = entry[n]
Overwritten(s) == {n \in Listed(s) : submit[s].preview[n].status \in {"missing", "pending"}}

Watch(s) ==
  /\ StageOf(s, "watch")
  /\ IF Same(s) /\ \A n \in Listed(s) : ~(entry[n].status = "pending" /\ entry[n].reserved)
     THEN MovesOn(s, "exec") /\ broken' = broken \ {s}
     ELSE Refused(s) /\ UNCHANGED broken
  /\ UNCHANGED <<directory, published, entry, claimVars, copied>>

\* EXEC fails when a watched key was written.
Unbroken_Always(s) == TRUE
Unbroken(s) == s \notin broken

ExecSubmit(s) ==
  /\ StageOf(s, "exec")
  /\ IF Unbroken(s)
     THEN /\ entry' = [n \in Names |-> IF n \notin Overwritten(s) THEN entry[n]
                       ELSE [entry[n] EXCEPT !.plan = submit[s].plan, !.text = submit[s].files[n],
                                             !.status = "pending"]]
          /\ published' = published \cup {submit[s].plan}
          /\ submit' = [submit EXCEPT ![s].at = "copy", ![s].left = Listed(s)]
          /\ broken' = broken \cup (Watching \ {s})
          /\ readings' = [n \in Names |-> IF n \in Overwritten(s) THEN {} ELSE readings[n]]
          /\ outdated' = [n \in Names |-> IF n \in Overwritten(s) THEN outdated[n] \cup readings[n] ELSE outdated[n]]
     ELSE Refused(s) /\ broken' = broken \ {s} /\ UNCHANGED <<entry, published, readings, outdated>>
  /\ UNCHANGED <<directory, given, overtaken, copied>>

\* What is no longer pending is copied from Redis; a pending task gets the text
\* of this request, and keeps a later status SQLite has.
CopyOf(n) == [plan |-> entry[n].plan, text |-> entry[n].text, status |-> entry[n].status]
Written_FromFile(s, n) == [plan |-> submit[s].plan, text |-> submit[s].files[n], status |-> "pending"]
Written(s, n) ==
  IF n \notin Overwritten(s) \/ entry[n].status # "pending" THEN CopyOf(n)
  ELSE [plan |-> submit[s].plan, text |-> submit[s].files[n],
        status |-> IF copied[n].status = "missing" THEN "pending" ELSE copied[n].status]

CopyTask(s, n) ==
  /\ StageOf(s, "copy") /\ n \in submit[s].left
  /\ copied' = [copied EXCEPT ![n] = Written(s, n)]
  /\ submit' = [submit EXCEPT ![s].left = @ \ {n}]
  /\ UNCHANGED <<directory, published, entry, claimVars, broken>>

AnswerSubmit(s) ==
  /\ StageOf(s, "copy") /\ submit[s].left = {}
  /\ Refused(s)
  /\ UNCHANGED <<directory, published, entry, claimVars, copied, broken>>

\* The hub stops: its requests are gone, what they wrote stays.
HubStops ==
  /\ \E s \in Submits : Under(s)
  /\ submit' = [s \in Submits |-> NoSubmit] /\ broken' = {}
  /\ readings' = [n \in Names |-> {}] /\ outdated' = [n \in Names |-> {}]
  /\ UNCHANGED <<directory, published, entry, given, overtaken, copied>>

-----------------------------------------------------------------------------
(* What happens to the tasks meanwhile *)

Reserves(n, on) ==
  /\ entry[n].status = "pending" /\ entry[n].reserved # on
  /\ entry' = [entry EXCEPT ![n].reserved = on]
  /\ TouchesTask(n)
  /\ UNCHANGED <<directory, published, claimVars, copied, submit>>

Persisted(n, st) == copied' = [copied EXCEPT ![n].status = IF @ = "missing" THEN @ ELSE st]

\* A claim request reads the hashes of the pending tasks, and makes its answer from them.
Reads(n) ==
  /\ entry[n].status = "pending" /\ entry[n].runs < RunBound
  /\ readings' = [readings EXCEPT ![n] = @ \cup {entry[n].text}]
  /\ UNCHANGED <<directory, published, entry, given, outdated, overtaken, copied, submit, broken>>

\* The script that commits the claim asks for the status, not for the text that was read.
Claims(n) ==
  /\ entry[n].status = "pending" /\ entry[n].runs < RunBound
  /\ entry' = [entry EXCEPT ![n].status = "running", ![n].reserved = FALSE, ![n].runs = @ + 1]
  /\ \/ /\ \E text \in readings[n] : given' = [given EXCEPT ![n] = text]
        /\ overtaken' = overtaken \ {n}
     \/ /\ \E text \in outdated[n] : given' = [given EXCEPT ![n] = text]
        /\ overtaken' = overtaken \cup {n}
  /\ Persisted(n, "running")
  /\ Touches
  /\ UNCHANGED <<directory, published, readings, outdated, submit>>

\* A report or a lost lease ends the run.
RunEnds(n, st) ==
  /\ entry[n].status = "running"
  /\ entry' = [entry EXCEPT ![n].status = st]
  /\ copied' = [copied EXCEPT ![n] = [plan |-> entry[n].plan, text |-> entry[n].text, status |-> st]]
  /\ Touches
  /\ UNCHANGED <<directory, published, claimVars, submit>>

SubmissionNext ==
  \/ \E s \in Submits, p \in Plans : Create(s, p) \/ Resubmit(s, p)
  \/ \E s \in Submits, p \in Plans, n \in Names, c \in Contents : Upsert(s, p, n, c)
  \/ \E s \in Submits : CheckPlan(s) \/ Preview(s) \/ Watch(s) \/ ExecSubmit(s) \/ AnswerSubmit(s)
  \/ \E s \in Submits, n \in Names : CopyTask(s, n)
  \/ HubStops
  \/ \E n \in Names, on \in BOOLEAN : Reserves(n, on)
  \/ \E n \in Names : Reads(n) \/ Claims(n)
  \/ \E n \in Names, st \in {"pending", "done"} : RunEnds(n, st)

SubmissionSpec == SubmissionInit /\ [][SubmissionNext]_submissionVars

-----------------------------------------------------------------------------
(* Properties *)

\* Whoever runs a task works on the text the hub has for it, unless a submission
\* overwrote the text after his claim request had read it and before it was committed;
\* no submission changes the text of what runs.
RunsKeepTheirText ==
  \A n \in Names : entry[n].status \in {"running", "done"} => given[n] = entry[n].text \/ n \in overtaken

\* A finished task is not offered again after a restore: its copy does not fall
\* back to pending under a submission that was under way.
DoneStaysDone ==
  \A n \in Names : entry[n].status = "done" => copied[n].status = "done"

\* A task that is reserved for a wake-up is not rewritten under its reservation.
ReservedIsStable ==
  \A n \in Names : entry[n].status = "pending" /\ entry[n].reserved
    => entry'[n].text = entry[n].text /\ entry'[n].plan = entry[n].plan

SubmissionIsSafe ==
  /\ [](RunsKeepTheirText /\ DoneStaysDone)
  /\ [][ReservedIsStable]_submissionVars

\* "Every identity conflict is checked before the first write, so that no half
\* of a submission overwrites another project" (the comment in planSubmit): a
\* task stays with the plan that published it.
TaskKeepsItsPlan == [][\A n \in Names : entry[n].plan # NoPlan => entry'[n].plan = entry[n].plan]_submissionVars
=============================================================================
