----------------------------- MODULE RestoreGate -----------------------------
(***************************************************************************)
(* Rebuilding Redis from SQLite, and what keeps everybody else out while   *)
(* it happens: every write holds a permit in Redis and is counted in its   *)
(* process; a restore holds a lock with a TTL and, from just before it     *)
(* publishes, a barrier without one; a read looks at the gate before and   *)
(* after.  The hub may die, Redis may lose everything, a lock may run out  *)
(* and the publishing transaction may fail after some of its commands.     *)
(*                                                                         *)
(* Data are sets of writes: live, those in Redis, rows, those in SQLite.   *)
(***************************************************************************)
EXTENDS Naturals, FiniteSets

CONSTANTS
  Writers,     \* slots for writing requests
  Restorers,   \* slots for restores
  Unowned,     \* no owner
  Past,        \* an owner of a hub that is no more
  WriteBound,  \* bound on writes
  MishapBound  \* bound on crashes, losses, expired locks and failing transactions

ASSUME GateAssumption ==
  /\ Unowned \notin Restorers /\ Past \notin Restorers \cup {Unowned}
  /\ WriteBound \in Nat /\ MishapBound \in Nat

VARIABLES
  gateLock, barrier, permits,  \* dbRestoreLock, dbRestoreBarrier, maintenanceMutationPermits
  live, rows,
  half,                        \* history: live is what a failed transaction left
  writer, restorer, viewer,
  written, mishaps

gateVars == <<gateLock, barrier, permits>>
dataVars == <<live, rows, half>>
restoreVars == <<gateVars, dataVars, writer, restorer, viewer, written, mishaps>>

WriteNumber == 0..WriteBound
WriterPhase == {"idle", "entered", "permitted", "stored"}
RestorePhase == {"idle", "retry", "check", "prepare", "recheck", "assert", "bar", "renew", "watch",
                 "exec", "open", "clean", "cleaned", "mark", "unlock"}
NoBarrier == [phase |-> "none", owner |-> Unowned]

RestoreTypeOK ==
  /\ gateLock \in Restorers \cup {Unowned, Past}
  /\ barrier \in [phase : {"none", "restoring", "failed"}, owner : Restorers \cup {Unowned, Past}]
  /\ permits \subseteq Writers \cup {Past}
  /\ live \subseteq WriteNumber /\ rows \subseteq WriteNumber /\ half \in BOOLEAN
  /\ writer \in [Writers -> [phase : WriterPhase, number : WriteNumber]]
  /\ restorer \in [Restorers -> [phase : RestorePhase, rows : SUBSET WriteNumber, barred : BOOLEAN]]
  /\ viewer \in [phase : {"idle", "opened", "read", "answered"}, half : BOOLEAN]
  /\ written \in WriteNumber /\ mishaps \in 0..MishapBound

\* WriteNumber 0 is the history; Redis has it, or has lost it.
RestoreInit ==
  /\ gateLock = Unowned /\ barrier = NoBarrier /\ permits = {}
  /\ live \in {{}, {0}} /\ rows = {0} /\ half = FALSE
  /\ writer = [w \in Writers |-> [phase |-> "idle", number |-> 0]]
  /\ restorer = [r \in Restorers |-> [phase |-> "idle", rows |-> {}, barred |-> FALSE]]
  /\ viewer = [phase |-> "idle", half |-> FALSE]
  /\ written = 0 /\ mishaps = 0

-----------------------------------------------------------------------------
(* Helpers.  A definition named X_What is a faulty variant of X.            *)

\* READ_RESTORE_GATE and the first half of ACQUIRE_MUTATION_PERMIT.
GateOpen == barrier = NoBarrier /\ gateLock = Unowned
\* localMutationCount of the hub.
LocalWriters_Permitted == {w \in Writers : w \in permits}
LocalWriters == {w \in Writers : writer[w].phase # "idle"}
RestoreTo(r, phase) == restorer' = [restorer EXCEPT ![r].phase = phase]
AtPhase(r, phase) == restorer[r].phase = phase
Unlocked(r) == IF gateLock = r THEN Unowned ELSE gateLock
Opened(r) == IF barrier.owner = r THEN NoBarrier ELSE barrier

-----------------------------------------------------------------------------
(* Writing requests (the hooks around a handler, withMutationPermit) and    *)
(* reads.                                                                   *)

EnterWriter(w) ==
  /\ writer[w].phase = "idle" /\ written < WriteBound
  /\ written' = written + 1
  /\ writer' = [writer EXCEPT ![w] = [phase |-> "entered", number |-> written + 1]]
  /\ UNCHANGED <<gateVars, dataVars, restorer, viewer, mishaps>>

AcquirePermit(w) ==
  /\ writer[w].phase = "entered"
  /\ IF GateOpen THEN permits' = permits \cup {w} /\ writer' = [writer EXCEPT ![w].phase = "permitted"]
                 ELSE UNCHANGED permits /\ writer' = [writer EXCEPT ![w].phase = "idle"]
  /\ UNCHANGED <<gateLock, barrier, dataVars, restorer, viewer, written, mishaps>>

StoreLive(w) ==
  /\ writer[w].phase = "permitted"
  /\ live' = live \cup {writer[w].number} /\ writer' = [writer EXCEPT ![w].phase = "stored"]
  /\ UNCHANGED <<gateVars, rows, half, restorer, viewer, written, mishaps>>

StoreRow(w) ==
  /\ writer[w].phase = "stored"
  /\ rows' = rows \cup {writer[w].number} /\ writer' = [writer EXCEPT ![w].phase = "idle"]
  /\ permits' = permits \ {w}
  /\ UNCHANGED <<gateLock, barrier, live, half, restorer, viewer, written, mishaps>>

View ==
  /\ \/ viewer.phase = "idle" /\ GateOpen /\ viewer' = [viewer EXCEPT !.phase = "opened"]
     \/ viewer.phase = "opened" /\ viewer' = [phase |-> "read", half |-> half]
     \/ viewer.phase = "read"
        /\ viewer' = IF GateOpen THEN [viewer EXCEPT !.phase = "answered"] ELSE [phase |-> "idle", half |-> FALSE]
     \/ viewer.phase = "answered" /\ viewer' = [phase |-> "idle", half |-> FALSE]
  /\ UNCHANGED <<gateVars, dataVars, writer, restorer, written, mishaps>>

-----------------------------------------------------------------------------
(* A restore (dbRestore).                                                   *)

\* The count of the process and the script are one step: a writer that enters
\* later sends its own script later, over the same connection.
AcquireLock(r) ==
  /\ AtPhase(r, "idle") /\ LocalWriters = {}
  /\ \/ /\ GateOpen /\ permits = {}
        /\ gateLock' = r /\ RestoreTo(r, "check")
     \/ /\ barrier # NoBarrier /\ live = {}
        /\ RestoreTo(r, "retry") /\ UNCHANGED gateLock
  /\ UNCHANGED <<barrier, permits, dataVars, writer, viewer, written, mishaps>>

\* RETRY_EMPTY_FAILED_RESTORE
MayRetry == barrier.phase = "failed" /\ gateLock = Unowned /\ permits = {}
RetryLock(r) ==
  /\ AtPhase(r, "retry")
  /\ IF MayRetry THEN gateLock' = r /\ barrier' = NoBarrier /\ RestoreTo(r, "check")
                 ELSE UNCHANGED <<gateLock, barrier>> /\ RestoreTo(r, "idle")
  /\ UNCHANGED <<permits, dataVars, writer, viewer, written, mishaps>>

\* Without a barrier of its own a failing restore only gives back the lock.
Goes(r, ok, phase) == RestoreTo(r, IF ok THEN phase ELSE IF restorer[r].barred THEN "clean" ELSE "unlock")

CheckTarget(r) ==
  /\ \/ AtPhase(r, "check")   /\ Goes(r, live = {}, "prepare")
     \/ AtPhase(r, "prepare") /\ restorer' = [restorer EXCEPT ![r].phase = "recheck", ![r].rows = rows]
     \/ AtPhase(r, "recheck") /\ Goes(r, live = {}, "assert")
     \/ AtPhase(r, "assert")  /\ Goes(r, gateLock = r, "bar")
     \/ AtPhase(r, "renew")   /\ Goes(r, gateLock = r, "watch")
     \/ AtPhase(r, "watch")   /\ Goes(r, gateLock = r, "exec")
  /\ UNCHANGED <<gateVars, dataVars, writer, viewer, written, mishaps>>

Bar(r) ==
  /\ AtPhase(r, "bar")
  /\ IF barrier = NoBarrier
     THEN /\ barrier' = [phase |-> "restoring", owner |-> r]
          /\ restorer' = [restorer EXCEPT ![r].phase = "renew", ![r].barred = TRUE]
     ELSE UNCHANGED barrier /\ RestoreTo(r, "unlock")
  /\ UNCHANGED <<gateLock, permits, dataVars, writer, viewer, written, mishaps>>

\* publishRestoreProjection: the transaction is refused if the lock has changed,
\* and may fail with some of its commands executed.
Exec(r) ==
  /\ AtPhase(r, "exec") /\ gateLock = r
  /\ \/ live' = restorer[r].rows /\ RestoreTo(r, "open") /\ UNCHANGED <<half, mishaps>>
     \/ /\ mishaps < MishapBound /\ mishaps' = mishaps + 1
        /\ live' = live \cup {0} /\ half' = TRUE /\ RestoreTo(r, "clean")
  /\ UNCHANGED <<gateVars, rows, writer, viewer, written>>

ExecRefused(r) ==
  /\ AtPhase(r, "exec") /\ gateLock # r /\ RestoreTo(r, "clean")
  /\ UNCHANGED <<gateVars, dataVars, writer, viewer, written, mishaps>>

Open(r) ==
  /\ AtPhase(r, "open") /\ barrier' = Opened(r) /\ RestoreTo(r, "unlock")
  /\ UNCHANGED <<gateLock, permits, dataVars, writer, viewer, written, mishaps>>

\* cleanupFailedRestoreProjection, under its own lock and barrier only.
HoldsBoth(r) == gateLock = r /\ barrier.owner = r
Clean1(r) ==
  /\ AtPhase(r, "clean")
  /\ IF HoldsBoth(r) THEN RestoreTo(r, "cleaned") /\ live' = {} /\ half' = FALSE
                     ELSE RestoreTo(r, "mark") /\ UNCHANGED <<live, half>>
  /\ UNCHANGED <<gateVars, rows, writer, viewer, written, mishaps>>

Clean2(r) ==
  /\ AtPhase(r, "cleaned")
  /\ IF HoldsBoth(r) /\ live = {} THEN RestoreTo(r, "unlock") /\ barrier' = Opened(r)
                                  ELSE RestoreTo(r, "mark") /\ UNCHANGED barrier
  /\ UNCHANGED <<gateLock, permits, dataVars, writer, viewer, written, mishaps>>

\* MARK_RESTORE_BARRIER_FAILED
MarkFailed_Opens(r) == Opened(r)
MarkFailed(r) == IF barrier.owner = r THEN [barrier EXCEPT !.phase = "failed"] ELSE barrier
Mark(r) ==
  /\ AtPhase(r, "mark") /\ barrier' = MarkFailed(r) /\ RestoreTo(r, "unlock")
  /\ UNCHANGED <<gateLock, permits, dataVars, writer, viewer, written, mishaps>>

\* A barrier that stays behind has an owner whom no later restore can be.
Unlock(r) ==
  /\ AtPhase(r, "unlock")
  /\ gateLock' = Unlocked(r)
  /\ barrier' = IF barrier.owner = r THEN [barrier EXCEPT !.owner = Past] ELSE barrier
  /\ restorer' = [restorer EXCEPT ![r] = [phase |-> "idle", rows |-> {}, barred |-> FALSE]]
  /\ UNCHANGED <<permits, dataVars, writer, viewer, written, mishaps>>

-----------------------------------------------------------------------------
(* Mishaps.                                                                 *)

Mishap == mishaps < MishapBound /\ mishaps' = mishaps + 1

\* The lock of a restore that has stopped renewing runs out.
ExpireLock ==
  /\ Mishap /\ gateLock # Unowned /\ gateLock' = Unowned
  /\ UNCHANGED <<barrier, permits, dataVars, writer, restorer, viewer, written>>

\* The hub dies and starts again; its permits, lock and barrier stay.
CrashHub ==
  /\ Mishap
  /\ gateLock' = IF gateLock = Unowned THEN Unowned ELSE Past
  /\ barrier' = IF barrier = NoBarrier THEN NoBarrier ELSE [barrier EXCEPT !.owner = Past]
  /\ permits' = IF permits = {} THEN {} ELSE {Past}
  /\ writer' = [w \in Writers |-> [phase |-> "idle", number |-> 0]]
  /\ restorer' = [r \in Restorers |-> [phase |-> "idle", rows |-> {}, barred |-> FALSE]]
  /\ viewer' = [phase |-> "idle", half |-> FALSE]
  /\ UNCHANGED <<dataVars, written>>

\* Redis is flushed or comes back empty.
LoseRedis ==
  /\ Mishap
  /\ gateLock' = Unowned /\ barrier' = NoBarrier /\ permits' = {}
  /\ live' = {} /\ half' = FALSE
  /\ UNCHANGED <<rows, writer, restorer, viewer, written>>

RestoreNext ==
  \/ \E w \in Writers : EnterWriter(w) \/ AcquirePermit(w) \/ StoreLive(w) \/ StoreRow(w)
  \/ \E r \in Restorers : \/ AcquireLock(r) \/ RetryLock(r) \/ CheckTarget(r) \/ Bar(r) \/ Exec(r) \/ ExecRefused(r)
                          \/ Open(r) \/ Clean1(r) \/ Clean2(r) \/ Mark(r) \/ Unlock(r)
  \/ View \/ ExpireLock \/ CrashHub \/ LoseRedis

RestoreSpec == RestoreInit /\ [][RestoreNext]_restoreVars

-----------------------------------------------------------------------------
\* What a failed transaction left is behind the barrier until it is gone
\* (comment in the handler of dbRestore's errors).
HalfIsShut == half => barrier # NoBarrier

\* A restore publishes into an empty namespace, while nobody writes, and what it
\* publishes is what SQLite holds at that moment, whatever became of lock, permits
\* and barrier while it was prepared.
RestoreIsExclusive ==
  [][\A r \in Restorers :
       (AtPhase(r, "exec") /\ live' # live /\ restorer'[r].phase \in {"open", "clean"}) =>
         live = {} /\ {w \in Writers : writer[w].phase \in {"permitted", "stored"}} = {}
         /\ (half' \/ live' = rows)]_restoreVars

\* Nobody works on, or into, a restore that is not complete.
RestoreIsSafe == []HalfIsShut /\ RestoreIsExclusive

\* No read is answered from half a projection (comment on getRestoreMaintenanceGate).
NoHalfAnswer == viewer.phase = "answered" => ~viewer.half

\* Once Redis has been cleaned up, a failed restore can be repeated with its barrier
\* in place (the recovery_hint of getDbStatus).
CleanedCanBeRetried ==
  barrier # NoBarrier /\ live = {} /\ gateLock = Unowned /\ permits = {}
    /\ (\A r \in Restorers : AtPhase(r, "idle")) => MayRetry
=============================================================================
