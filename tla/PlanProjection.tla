--------------------------- MODULE PlanProjection ---------------------------
(***************************************************************************)
(* The status projection of one plan.  Every write of a task registers     *)
(* plan and task, counts a revision and marks the plan dirty, all in one   *)
(* script.  A reader of the status makes sure that the projection is ready *)
(* - under a lock, by a scan of all tasks and one publishing script -,     *)
(* rebuilds the aggregate of a dirty plan, with the revision as its        *)
(* compare-and-swap, and answers from the aggregates.                      *)
(***************************************************************************)
EXTENDS Naturals, FiniteSets

CONSTANTS
  PlanTasks,    \* task ids of the plan
  Readers,      \* slots for readers of the status
  NoReader,     \* the lock is free, and a free slot
  NoAggregate,  \* there is no aggregate of this version
  Tries,        \* attempts of a refresh
  ChangeBound,  \* bound on writes of tasks
  FailureBound  \* bound on readers that die or throw, and on lost locks

Counts == [PlanTasks -> Nat]
ReaderPhase == {"check", "locked", "scan", "publish", "wait", "dirty", "revision", "members",
                "commit", "answer", "answered"}
\* floor, since: what was in the hashes, and the revision, when the request came; lost
\* (history): tasks that were dropped since; heals: after a rebuild of a missing aggregate.
Reader == [phase : ReaderPhase, try : 0..Tries, rev : Nat, ids : SUBSET PlanTasks,
           seen : Counts, floor : Counts, since : Nat, lost : SUBSET PlanTasks, heals : BOOLEAN]

ASSUME ProjectionAssumption ==
  /\ NoReader \notin Readers \cup Reader /\ NoAggregate \notin Counts
  /\ Tries \in Nat \ {0} /\ ChangeBound \in Nat /\ FailureBound \in Nat

VARIABLES
  content,              \* the task hashes: 0 if there is none, else the number of its writes
  listed, registered,   \* planIds and taskIdsByPlan
  revision, dirty,      \* revisionByPlan and dirtyPlans
  aggregate, ready,     \* aggregateByPlan and the marker of the backfill
  backfill,             \* owner of the lock of the backfill
  reader, failed,
  withdrawn,            \* history: a marker that was published has been taken back
  dropped               \* history: tasks a backfill took off the lists, until a write lists them

writeVars == <<content, listed, registered, revision>>
projectionVars == <<writeVars, dirty, aggregate, ready, backfill, reader, failed, withdrawn, dropped>>

ProjectionTypeOK ==
  /\ content \in Counts /\ listed \in BOOLEAN /\ registered \subseteq PlanTasks
  /\ revision \in 0..ChangeBound /\ dirty \in BOOLEAN
  /\ aggregate \in Counts \cup {NoAggregate} /\ ready \in BOOLEAN
  /\ backfill \in Readers \cup {NoReader}
  /\ reader \in [Readers -> Reader \cup {NoReader}]
  /\ failed \in 0..FailureBound /\ withdrawn \in BOOLEAN /\ dropped \subseteq PlanTasks

\* Any tasks of an earlier version, which kept no projection.
ProjectionInit ==
  /\ content \in [PlanTasks -> {0, 1}]
  /\ listed = FALSE /\ registered = {} /\ revision = 0 /\ dirty = FALSE
  /\ aggregate = NoAggregate /\ ready = FALSE /\ backfill = NoReader
  /\ reader = [p \in Readers |-> NoReader] /\ failed = 0 /\ withdrawn = FALSE
  /\ dropped = {}

-----------------------------------------------------------------------------
(* Helpers.  A definition named X_What is a faulty variant of X.            *)

In(p, phase) == reader[p] # NoReader /\ reader[p].phase = phase
Count(ids) == [t \in PlanTasks |-> IF t \in ids THEN content[t] ELSE 0]
\* What a scan or a rebuild has read is forgotten when it is over.
Forgetting(r, phase) ==
  [r EXCEPT !.phase = phase, !.try = IF phase = "revision" THEN @ ELSE 0, !.rev = 0, !.ids = {}, !.seen = Count({})]
ToPhase(p, phase) == reader' = [reader EXCEPT ![p] = Forgetting(@, phase)]
Existing == {t \in PlanTasks : content[t] > 0}
\* The owner of the lock gives it back when it is done.
Release(p) == backfill' = IF backfill = p THEN NoReader ELSE backfill

\* mutateTaskWithPlanProjection, for a new task as well.
WriteTask(t) ==
  /\ revision < ChangeBound
  /\ content' = [content EXCEPT ![t] = @ + 1]
  /\ listed' = TRUE /\ registered' = registered \cup {t}
  /\ revision' = revision + 1 /\ dirty' = TRUE
  /\ dropped' = dropped \ (registered \cup {t})
  /\ UNCHANGED <<aggregate, ready, backfill, reader, failed, withdrawn>>

-----------------------------------------------------------------------------
(* A reader.                                                                *)

StartReading(p) ==
  /\ reader[p] = NoReader
  /\ reader' = [reader EXCEPT ![p] = [phase |-> "check", try |-> 0, rev |-> 0, ids |-> {},
                                      seen |-> Count({}), floor |-> content, since |-> revision,
                                      lost |-> dropped, heals |-> FALSE]]
  /\ UNCHANGED <<writeVars, dirty, aggregate, ready, backfill, failed, withdrawn, dropped>>

\* ensurePlanStatusProjection
CheckReady(p) ==
  /\ In(p, "check") \/ In(p, "locked")
  /\ ToPhase(p, IF ready THEN "dirty" ELSE IF In(p, "locked") THEN "scan"
                ELSE IF backfill = NoReader THEN "locked" ELSE "wait")
  /\ backfill' = IF ~ready /\ backfill = NoReader /\ In(p, "check") THEN p ELSE backfill
  /\ UNCHANGED <<writeVars, dirty, aggregate, ready, failed, withdrawn, dropped>>

Scan(p) ==
  /\ In(p, "scan")
  /\ reader' = [reader EXCEPT ![p].phase = "publish", ![p].ids = Existing, ![p].seen = content]
  /\ UNCHANGED <<writeVars, dirty, aggregate, ready, backfill, failed, withdrawn, dropped>>

\* PUBLISH_PLAN_STATUS_BACKFILL_FENCED: nothing unless the lock is still its own.  It
\* deletes the registries, and lists again what the scan found.
Fenced_Late(p) == TRUE
Fenced(p) == backfill = p
Drops(p, tasks) ==
  /\ dropped' = tasks
  /\ reader' = [q \in Readers |->
       IF reader[q] = NoReader THEN NoReader
       ELSE [IF q = p THEN Forgetting(reader[q], "dirty") ELSE reader[q] EXCEPT !.lost = @ \cup tasks]]
PublishScan(p) ==
  /\ In(p, "publish")
  /\ IF Fenced(p)
     THEN /\ listed' = (reader[p].ids # {})
          /\ IF reader[p].ids # {}
             THEN registered' = reader[p].ids /\ aggregate' = reader[p].seen
             ELSE UNCHANGED <<registered, aggregate>>
          /\ ready' = TRUE /\ Drops(p, Existing \ reader[p].ids)
     ELSE ToPhase(p, "wait") /\ UNCHANGED <<listed, registered, aggregate, ready, dropped>>
  /\ UNCHANGED <<content, revision, dirty, backfill, failed, withdrawn>>

\* waitForPlanStatusBackfill
Await(p) ==
  /\ In(p, "wait") /\ (ready \/ backfill = NoReader)
  /\ ToPhase(p, IF ready THEN "dirty" ELSE "check")
  /\ UNCHANGED <<writeVars, dirty, aggregate, ready, backfill, failed, withdrawn, dropped>>

\* refreshDirtyPlanStatusProjections; the lock of a backfill is released after it.
LookDirty(p) ==
  /\ In(p, "dirty")
  /\ IF dirty THEN ToPhase(p, "revision") /\ UNCHANGED backfill
              ELSE ToPhase(p, "answer") /\ Release(p)
  /\ UNCHANGED <<writeVars, dirty, aggregate, ready, failed, withdrawn, dropped>>

\* refreshPlanStatusProjection: revision, members, hashes, and the commit.
ReadRevision(p) ==
  /\ In(p, "revision")
  /\ reader' = [reader EXCEPT ![p].phase = "members", ![p].rev = revision, ![p].try = @ + 1,
                              ![p].ids = registered]
  /\ UNCHANGED <<writeVars, dirty, aggregate, ready, backfill, failed, withdrawn, dropped>>

ReadMembers(p) ==
  /\ In(p, "members")
  /\ reader' = [reader EXCEPT ![p].phase = "commit", ![p].seen = Count(reader[p].ids)]
  /\ UNCHANGED <<writeVars, dirty, aggregate, ready, backfill, failed, withdrawn, dropped>>

\* COMMIT_PLAN_STATUS_PROJECTION; after the last attempt the plan stays dirty.
SameRevision_Ignored(p) == TRUE
SameRevision(p) == reader[p].rev = revision
CommitAggregate(p) ==
  /\ In(p, "commit")
  /\ IF SameRevision(p)
     THEN aggregate' = reader[p].seen /\ dirty' = FALSE /\ ToPhase(p, "answer") /\ Release(p)
     ELSE /\ UNCHANGED <<aggregate, dirty>>
          /\ IF reader[p].try < Tries THEN ToPhase(p, "revision") /\ UNCHANGED backfill
                                      ELSE ToPhase(p, "answer") /\ Release(p)
  /\ UNCHANGED <<writeVars, ready, failed, withdrawn, dropped>>

\* loadPlanStatusSummaries: a missing aggregate is rebuilt once, a present one
\* is the answer.
Answer(p) ==
  /\ In(p, "answer")
  /\ IF listed /\ aggregate = NoAggregate /\ ~reader[p].heals
     THEN reader' = [reader EXCEPT ![p].phase = "revision", ![p].heals = TRUE, ![p].try = 0]
     ELSE reader' = [reader EXCEPT ![p].phase = "answered",
                       ![p].seen = IF listed /\ aggregate # NoAggregate THEN aggregate ELSE Count({})]
  /\ UNCHANGED <<writeVars, dirty, aggregate, ready, backfill, failed, withdrawn, dropped>>

EndReading(p) ==
  /\ In(p, "answered") /\ reader' = [reader EXCEPT ![p] = NoReader]
  /\ UNCHANGED <<writeVars, dirty, aggregate, ready, backfill, failed, withdrawn, dropped>>

\* The reader throws: the owner of the lock takes the marker back.
FailReading(p) ==
  /\ reader[p] # NoReader /\ reader[p].phase \notin {"check", "answered"} /\ failed < FailureBound
  /\ reader' = [reader EXCEPT ![p] = NoReader] /\ failed' = failed + 1
  /\ ready' = (ready /\ backfill # p) /\ withdrawn' = (withdrawn \/ (ready /\ backfill = p))
  /\ Release(p)
  /\ UNCHANGED <<writeVars, dirty, aggregate, dropped>>

\* Its process dies; the lock stays until it runs out.
DieReading(p) ==
  /\ reader[p] # NoReader /\ failed < FailureBound
  /\ reader' = [reader EXCEPT ![p] = NoReader] /\ failed' = failed + 1
  /\ UNCHANGED <<writeVars, dirty, aggregate, ready, backfill, withdrawn, dropped>>

\* The lock runs out, under an owner that is dead or late.
LoseBackfill ==
  /\ backfill # NoReader
  /\ backfill' = NoReader
  /\ UNCHANGED <<writeVars, dirty, aggregate, ready, reader, failed, withdrawn, dropped>>

ProjectionNext ==
  \/ \E t \in PlanTasks : WriteTask(t)
  \/ \E p \in Readers : \/ StartReading(p) \/ CheckReady(p) \/ Scan(p) \/ PublishScan(p) \/ Await(p)
                        \/ LookDirty(p) \/ ReadRevision(p) \/ ReadMembers(p) \/ CommitAggregate(p)
                        \/ Answer(p) \/ EndReading(p) \/ FailReading(p) \/ DieReading(p)
  \/ LoseBackfill

ProjectionSpec == ProjectionInit /\ [][ProjectionNext]_projectionVars

-----------------------------------------------------------------------------
\* The counters of a plan that is not dirty are its tasks as they are now - none for a
\* plan that is not listed -, whatever was written during a scan or a rebuild (comment
\* above refreshPlanStatusProjection), as long as no marker that others rely on is taken
\* back.  Only tasks a backfill has dropped are missing, until one of them is written.
AggregateIsTrue ==
  ~withdrawn /\ ready /\ ~dirty =>
    (IF listed THEN aggregate ELSE Count({})) = Count(Existing \ dropped)

\* A status request does not answer with the state of a task before it came, or without the
\* task, unless a backfill dropped the task, or as many writes crossed its rebuilds as it
\* tried: then the old aggregate is its answer.
AnswersAreFresh ==
  \A p \in Readers : ~withdrawn /\ In(p, "answered") =>
    \/ \A t \in PlanTasks \ reader[p].lost : reader[p].seen[t] >= reader[p].floor[t]
    \/ revision >= reader[p].since + Tries

\* Neither the stored counters nor what a request answers is older than it may be.
StatusIsCurrent == AggregateIsTrue /\ AnswersAreFresh

\* What is written while the backfill scans is counted once the marker is there and the
\* dirty plans are rebuilt (comment at the end of ensurePlanStatusProjection).  (Does not
\* hold: the publishing script deletes the registration of a task that was made meanwhile.)
ChangesConverge == ready /\ ~dirty => listed = (Existing # {}) /\ registered = Existing
=============================================================================
