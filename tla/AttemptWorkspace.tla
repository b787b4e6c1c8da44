-------------------------- MODULE AttemptWorkspace --------------------------
(***************************************************************************)
(* The git workspace of one attempt, from the clone to the delivery.       *)
(* Prepare clones the project, checks the base and makes the branch of the *)
(* attempt; finalize commits what the worker has left, pushes the branch   *)
(* with its marker, verifies the remote and records the delivery.  Both go *)
(* on from the states in the row of the workspace, so that a call can be   *)
(* repeated after a failure or a crash; nothing keeps two calls for the    *)
(* same attempt apart.  A step is what a call does between two awaits.     *)
(*                                                                         *)
(* A commit is a number: 1 is the base, and each commit of the worker the  *)
(* next one; 0 is none, and Foreign a commit that somebody else pushed.    *)
(***************************************************************************)
EXTENDS Naturals, FiniteSets

CONSTANTS
  Callers,      \* slots for requests
  NoOp,
  CommitBound,  \* bound on the commits of the worker
  MishapBound   \* bound on transient failures, lost answers, crashes and strangers

PrepareSteps == {"probe", "cloning", "cloned", "base", "branch", "marker"}
FinalizeSteps == {"commit", "diff", "look", "looked", "push", "rejected", "pushed", "verify", "verified"}

ASSUME WorkspaceAssumption ==
  /\ CommitBound \in Nat \ {0} /\ MishapBound \in Nat
  /\ NoOp \notin PrepareSteps \cup FinalizeSteps

VARIABLES
  prep,       \* prepare_state
  final,      \* finalize_state
  headSha,    \* head_sha of the row
  deliveryOf, \* the head of the delivery that delivery_id names
  made,       \* the deliveries of the attempt, by their head
  clone,      \* the working directory: none, half, usable, or who is cloning
  local,      \* the commit of the branch in the working directory
  dirty,      \* there is something to commit
  remote,     \* the branch in the remote repository
  marker,     \* the head in the marker that was pushed with it
  caller,
  mishaps

wsRow == <<prep, final, headSha, deliveryOf>>
wsGit == <<clone, local, dirty>>
wsRemote == <<remote, marker>>
wsVars == <<wsRow, made, wsGit, wsRemote, caller, mishaps>>

Base == 1
Commits == Base..(Base + CommitBound)
Foreign == Base + CommitBound + 1
NoCaller == [at |-> NoOp, head |-> 0, seen |-> 0]
CallState == [at : {NoOp} \cup PrepareSteps \cup FinalizeSteps,
              head : {0} \cup Commits, seen : {0, Foreign} \cup Commits]

WorkspaceTypeOK ==
  /\ prep \in {"none", "cloning", "checking_base", "creating_branch", "ready", "failed"}
  /\ final \in {"idle", "committing", "pushing", "delivering", "delivered", "pending_recovery", "failed"}
  /\ headSha \in {0} \cup Commits /\ deliveryOf \in {0} \cup Commits
  /\ made \in [Commits -> {"none", "live", "waiting", "invalidated"}]
  /\ clone \in {NoOp, "half", "usable"} \cup Callers
  /\ local \in {0} \cup Commits /\ dirty \in BOOLEAN
  /\ remote \in {0, Foreign} \cup Commits /\ marker \in {0} \cup Commits
  /\ caller \in [Callers -> CallState]
  /\ mishaps \in 0..MishapBound

WorkspaceInit ==
  /\ prep = "none" /\ final = "idle" /\ headSha = 0 /\ deliveryOf = 0
  /\ made = [h \in Commits |-> "none"]
  /\ clone = NoOp /\ local = 0 /\ dirty = FALSE
  /\ remote = 0 /\ marker = 0
  /\ caller = [c \in Callers |-> NoCaller] /\ mishaps = 0

At(c, at) == caller[c].at = at
Goes(c, at) == caller' = [caller EXCEPT ![c].at = at]
Answers(c) == caller' = [caller EXCEPT ![c] = NoCaller]

\* A mishap uses up the bound.
Mishap == mishaps < MishapBound /\ mishaps' = mishaps + 1

\* A git call fails for the moment: the state stays, and the call may be repeated.
Transient(c) ==
  /\ caller[c].at \in {"cloned", "base", "branch", "commit", "diff", "look", "push", "verify"}
  /\ Mishap /\ Answers(c) /\ UNCHANGED <<wsRow, made, wsGit, wsRemote>>

-----------------------------------------------------------------------------
(* Prepare.  A definition named X_What is a faulty variant of X.           *)

\* The row is made, and the call goes on where the last one stopped.
Prepare(c) ==
  /\ caller[c] = NoCaller /\ prep \notin {"failed", "ready"}
  /\ final \notin {"delivered", "pending_recovery"}
  /\ \/ prep = "none" /\ prep' = "failed" /\ UNCHANGED caller     \* the disk is full
     \/ prep' = (IF prep = "none" THEN "cloning" ELSE prep)
        /\ Goes(c, CASE prep \in {"none", "cloning"} -> "probe"
                     [] prep = "checking_base" -> "base"
                     [] prep = "creating_branch" -> "branch")
  /\ UNCHANGED <<final, headSha, deliveryOf, made, wsGit, wsRemote, mishaps>>

\* A clone that can be used is fetched; anything else is removed and cloned anew.
Probe(c) ==
  /\ At(c, "probe")
  /\ IF clone = "usable" THEN Goes(c, "cloned") /\ UNCHANGED wsGit
     ELSE Goes(c, "cloning") /\ clone' = c /\ local' = 0 /\ dirty' = FALSE
  /\ UNCHANGED <<wsRow, made, wsRemote, mishaps>>

\* A clone whose directory another call has removed fails.
CloneEnds(c) ==
  /\ At(c, "cloning")
  /\ IF clone # c THEN Answers(c) /\ UNCHANGED <<clone, mishaps>>
     ELSE \/ clone' = "usable" /\ Goes(c, "cloned") /\ UNCHANGED mishaps
          \/ clone' = "half" /\ Answers(c) /\ Mishap
  /\ UNCHANGED <<wsRow, made, local, dirty, wsRemote>>

Cloned(c) ==
  /\ At(c, "cloned") /\ prep' = "checking_base" /\ Goes(c, "base")
  /\ UNCHANGED <<final, headSha, deliveryOf, made, wsGit, wsRemote, mishaps>>

\* The fingerprint of the repository and the base are as they should be, or they never are.
CheckBase(c) ==
  /\ At(c, "base")
  /\ \/ prep' = "creating_branch" /\ Goes(c, "branch")
     \/ prep' = "failed" /\ Answers(c)
  /\ UNCHANGED <<final, headSha, deliveryOf, made, wsGit, wsRemote, mishaps>>

\* A branch that is there and not at the base is refused.
MakeBranch(c) ==
  /\ At(c, "branch")
  /\ IF clone = "usable" /\ local \in {0, Base}
     THEN local' = Base /\ Goes(c, "marker") ELSE Answers(c) /\ UNCHANGED local
  /\ UNCHANGED <<wsRow, made, clone, dirty, wsRemote, mishaps>>

WriteMarker(c) ==
  /\ At(c, "marker") /\ Answers(c)
  /\ prep' \in {"ready", "failed"}
  /\ UNCHANGED <<final, headSha, deliveryOf, made, wsGit, wsRemote, mishaps>>

-----------------------------------------------------------------------------
(* Finalize.                                                               *)

Finalize(c) ==
  /\ caller[c] = NoCaller /\ prep = "ready"
  /\ \/ /\ final = "idle" /\ final' = "failed" /\ UNCHANGED caller   \* no snapshot of the ownership
     \/ /\ final \in {"idle", "committing"} /\ final' = "committing" /\ Goes(c, "commit")
     \/ /\ final \in {"pushing", "delivering"} /\ UNCHANGED final
        /\ caller' = [caller EXCEPT ![c].at = IF final = "pushing" THEN "look" ELSE "verify",
                                    ![c].head = headSha]
  /\ UNCHANGED <<prep, headSha, deliveryOf, made, wsGit, wsRemote, mishaps>>

\* git says on its standard output that there is nothing to commit, and commitAll looks
\* for that on the error output: the call fails.
CommitOf == IF dirty THEN local + 1 ELSE 0
Commit(c) ==
  /\ At(c, "commit")
  /\ IF CommitOf # 0
     THEN local' = CommitOf /\ dirty' = FALSE
          /\ caller' = [caller EXCEPT ![c].at = "diff", ![c].head = CommitOf]
     ELSE Answers(c) /\ UNCHANGED <<local, dirty>>
  /\ UNCHANGED <<wsRow, made, clone, wsRemote, mishaps>>

\* Files outside of the ownership are the end of it.
Diffed(c) ==
  /\ At(c, "diff")
  /\ \/ final' = "failed" /\ Answers(c) /\ UNCHANGED headSha
     \/ final' = "pushing" /\ headSha' = caller[c].head /\ Goes(c, "look")
  /\ UNCHANGED <<prep, deliveryOf, made, wsGit, wsRemote, mishaps>>

Look(c) ==
  /\ At(c, "look")
  /\ caller' = [caller EXCEPT ![c].at = "looked", ![c].seen = remote]
  /\ UNCHANGED <<wsRow, made, wsGit, wsRemote, mishaps>>

\* Another commit is on the branch: recorded for the audit unless the head has a delivery.
Conflict(c) ==
  LET h == caller[c].head IN
  /\ final' = "failed" /\ Answers(c)
  /\ IF made[h] = "none" THEN made' = [made EXCEPT ![h] = "invalidated"] /\ deliveryOf' = h
     ELSE UNCHANGED <<made, deliveryOf>>

Looked(c) ==
  /\ At(c, "looked")
  /\ CASE caller[c].seen = 0 -> Goes(c, "push") /\ UNCHANGED <<final, deliveryOf, made>>
       [] caller[c].seen = caller[c].head -> Goes(c, "pushed") /\ UNCHANGED <<final, deliveryOf, made>>
       [] OTHER -> Conflict(c)
  /\ UNCHANGED <<prep, headSha, wsGit, wsRemote, mishaps>>

\* The branch, whatever commit it is at by now, and the marker go together, to refs
\* that are not there.  The answer may get lost.
Accepts_Forced == TRUE
Accepts == remote = 0 /\ marker = 0
PushBranch(c) ==
  /\ At(c, "push")
  /\ IF Accepts
     THEN /\ remote' = local /\ marker' = caller[c].head
          /\ \/ Goes(c, "pushed") /\ UNCHANGED mishaps
             \/ Answers(c) /\ Mishap
     ELSE Goes(c, "rejected") /\ UNCHANGED <<wsRemote, mishaps>>
  /\ UNCHANGED <<wsRow, made, wsGit>>

Rejected(c) ==
  /\ At(c, "rejected")
  /\ IF remote \notin {0, caller[c].head} THEN Conflict(c)
     ELSE Answers(c) /\ UNCHANGED <<final, deliveryOf, made>>
  /\ UNCHANGED <<prep, headSha, wsGit, wsRemote, mishaps>>

\* The access rules of the project forbid the push, for good.
Forbidden(c) ==
  /\ At(c, "push") /\ final' = "failed" /\ Answers(c)
  /\ UNCHANGED <<prep, headSha, deliveryOf, made, wsGit, wsRemote, mishaps>>

AfterPush(c) ==
  /\ At(c, "pushed") /\ final' = "delivering" /\ Goes(c, "verify")
  /\ UNCHANGED <<prep, headSha, deliveryOf, made, wsGit, wsRemote, mishaps>>

\* The branch and the marker in the remote repository are the ones of this head.
Verifies_AnyBranch(h) == remote # 0
Verifies(h) == remote = h /\ marker = h
Verify(c) ==
  /\ At(c, "verify")
  /\ \/ Verifies(caller[c].head) /\ Goes(c, "verified") /\ UNCHANGED final
     \/ final' = "failed" /\ Answers(c)
  /\ UNCHANGED <<prep, headSha, deliveryOf, made, wsGit, wsRemote, mishaps>>

\* The delivery of the head, or the one that is there; it waits for missing artifacts.
Record(c) ==
  LET h == caller[c].head IN
  /\ At(c, "verified") /\ Answers(c) /\ deliveryOf' = h
  /\ \E s \in IF made[h] = "none" THEN {"live", "waiting"} ELSE {made[h]} :
       /\ made' = [made EXCEPT ![h] = s]
       /\ final' = IF s = "waiting" THEN "pending_recovery" ELSE "delivered"
  /\ UNCHANGED <<prep, headSha, wsGit, wsRemote, mishaps>>

-----------------------------------------------------------------------------
(* The worker, strangers and failures.                                     *)

\* The worker changes files in the workspace.
Edit ==
  /\ prep = "ready" /\ ~dirty /\ local < Base + CommitBound /\ dirty' = TRUE
  /\ UNCHANGED <<wsRow, made, clone, local, wsRemote, caller, mishaps>>

PushOfForeign ==
  /\ remote = 0 /\ remote' = Foreign /\ Mishap
  /\ UNCHANGED <<wsRow, made, wsGit, marker, caller>>

CrashWorkspace ==
  /\ Mishap /\ caller' = [c \in Callers |-> NoCaller]
  /\ clone' = IF clone \in Callers THEN "half" ELSE clone
  /\ UNCHANGED <<wsRow, made, local, dirty, wsRemote>>

PrepareStep(c) ==
  Prepare(c) \/ Probe(c) \/ CloneEnds(c) \/ Cloned(c) \/ CheckBase(c) \/ MakeBranch(c) \/ WriteMarker(c)
FinalizeStep(c) ==
  \/ Finalize(c) \/ Commit(c) \/ Diffed(c) \/ Look(c) \/ Looked(c) \/ PushBranch(c) \/ Rejected(c)
  \/ Forbidden(c) \/ AfterPush(c) \/ Verify(c) \/ Record(c)
WorkspaceNext ==
  \/ \E c \in Callers : PrepareStep(c) \/ FinalizeStep(c) \/ Transient(c)
  \/ Edit \/ PushOfForeign \/ CrashWorkspace

\* A caller repeats a finalize that has not ended.
WorkspaceSpec == WorkspaceInit /\ [][WorkspaceNext]_wsVars
RetriedSpec == WorkspaceSpec /\ \A c \in Callers : WF_wsVars(FinalizeStep(c))

-----------------------------------------------------------------------------
(* Properties.                                                             *)

Delivered == {h \in Commits : made[h] \in {"live", "waiting"}}

\* However many calls overlap or are repeated, an attempt delivers one commit, and that
\* commit is what the remote branch holds and what the signed marker names.
OneDelivery == Cardinality(Delivered) <= 1
DeliveredIsPushed == \A h \in Delivered : remote = h /\ marker = h

\* A workspace that calls itself delivered names a delivery that is to be reviewed.
NamesItsDelivery ==
  final \in {"delivered", "pending_recovery"} => deliveryOf \in Delivered

WorkspaceIsSafe == OneDelivery /\ DeliveredIsPushed /\ NamesItsDelivery

\* A finalize that was interrupted while it committed ends when it is repeated
\* (tests/distributed/p4-git-workspace.test.ts, the kill while committing).
InterruptedCommitEnds ==
  (final = "committing" /\ local > Base) ~> (final # "committing")
=============================================================================
