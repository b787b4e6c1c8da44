------------------------------ MODULE PmIntake ------------------------------
(***************************************************************************)
(* How the project manager learns what waits for him.  The event stream is *)
(* append-only; every consumer has a cursor into it and an index of events *)
(* that are still pending.  Beside the stream, two sets list the facts     *)
(* themselves: deliveries without a review, and failures and decisions.    *)
(*                                                                         *)
(* A poll (pmIntake) is a sequence of Redis calls: build the indexes once  *)
(* if they are missing, ring for deliveries that never rang, index the     *)
(* tail of the stream page by page, read the pending events, drop those    *)
(* whose reason has gone, then read both lists and drop what is stale.     *)
(* Polls overlap with each other and with the tasks, and may die anywhere. *)
(*                                                                         *)
(* A task is seen through what it wants of the PM.  round[t] counts its    *)
(* changes, so that an event can be told from one of another round.        *)
(***************************************************************************)
EXTENDS Naturals, Sequences, FiniteSets

CONSTANTS
  Items,        \* task ids
  Polls,        \* slots for polls of the consumer in progress
  NoPoll,       \* a free slot
  PageSize,     \* INTAKE_STREAM_PAGE_SIZE
  StreamBound,  \* bound on the length of the stream
  AckBound      \* bound on acknowledged events

Phase == {"absorb", "ready", "ring", "tail", "store", "advance", "list", "judge", "clean",
          "deliveries", "cleanDeliveries", "build", "publish", "failures", "cleanFailures"}
\* at: the position reached in the stream; seen: positions or tasks read.
Poll == [phase : Phase, at : Nat, seen : SUBSET (Nat \cup Items)]

ASSUME IntakeAssumption ==
  /\ PageSize \in Nat \ {0} /\ StreamBound \in Nat /\ AckBound \in Nat
  /\ Items \cap Nat = {} /\ NoPoll \notin Poll

VARIABLES
  want, round,                      \* the task hashes
  stream,                           \* stream:events
  cursor, pending, acked,           \* of the consumer: cursor, index, acknowledged
  deliveries, fired,                \* reviewRequested: pending, fired
  failures,                         \* intakeActionableFailed: pending
  deliveriesReady, failuresReady,   \* both indexes have been built
  builder,                          \* the lock of the second build
  poll

itemVars   == <<want, round, stream>>
cursorVars == <<cursor, pending, acked>>
deliveryVars == <<deliveries, fired, deliveriesReady>>
failureVars  == <<failures, failuresReady, builder>>
listVars   == <<deliveryVars, failureVars>>
intakeVars == <<itemVars, cursorVars, listVars, poll>>

\* busy: pending or running; decision: failed, or needs_pm_decision; settled:
\* reviewed, cancelled or being repaired.
Want == {"busy", "review", "answer", "decision", "settled"}
Event == [kind : {"noise", "review", "answer", "decision"}, item : Items, round : Nat]

IntakeTypeOK ==
  /\ want \in [Items -> Want] /\ round \in [Items -> Nat]
  /\ stream \in Seq(Event) /\ cursor \in 0..Len(stream)
  /\ pending \subseteq DOMAIN stream /\ acked \subseteq DOMAIN stream
  /\ deliveries \subseteq Items /\ fired \subseteq Items /\ failures \subseteq Items
  /\ deliveriesReady \in BOOLEAN /\ failuresReady \in BOOLEAN
  /\ builder \in Polls \cup {NoPoll}
  /\ poll \in [Polls -> Poll \cup {NoPoll}]

\* The data of an earlier version: tasks in any state, neither index, and
\* perhaps the events of the deliveries.
IntakeInit ==
  /\ want \in [Items -> {"busy", "review", "decision"}] /\ round = [i \in Items |-> 1]
  /\ \/ stream = <<>>
     \/ \E i \in Items : want[i] = "review" /\ stream = <<[kind |-> "review", item |-> i, round |-> 1]>>
  /\ cursor = 0 /\ pending = {} /\ acked = {}
  /\ deliveries = {} /\ fired = {} /\ failures = {}
  /\ deliveriesReady = FALSE /\ failuresReady = FALSE /\ builder = NoPoll
  /\ poll = [p \in Polls |-> NoPoll]

-----------------------------------------------------------------------------
(* Helpers.  A definition named X_What is a faulty variant of X.            *)

\* The event is about what the task wants now.
Current(e) == want[e.item] = e.kind /\ round[e.item] = e.round
\* Its reason holds, for all a poll can tell: a question is looked up by its id
\* (questionDoorbellMatchesCurrentTruth), the other kinds by the task's state.
Holds(e) == IF e.kind = "answer" THEN Current(e) ELSE want[e.item] = e.kind
Bell(n) == stream[n].kind # "noise"

At(p, phase) == poll[p] # NoPoll /\ poll[p].phase = phase
GoTo(p, phase) == poll' = [poll EXCEPT ![p].phase = phase, ![p].seen = {}]
Keep(p, phase, at, seen) == poll' = [poll EXCEPT ![p] = [phase |-> phase, at |-> at, seen |-> seen]]

Delivered(i) == want[i] = "review"
\* The indexes as a change of the task to w leaves them, in its own commit.
Deliveries(i, w) == IF w = "review" THEN deliveries \cup {i}
                    ELSE IF w \in {"busy", "settled"} THEN deliveries \ {i} ELSE deliveries
Failures(i, w) == IF w = "decision" THEN failures \cup {i} ELSE failures \ {i}

-----------------------------------------------------------------------------
(* What tasks do.                                                           *)

\* Reports, questions and exhausted repairs write the event with the state
\* (that of a decision follows in a call of its own, and may be lost).
Turn(i, from, w, rings) ==
  /\ want[i] = from /\ Len(stream) < StreamBound
  /\ want' = [want EXCEPT ![i] = w] /\ round' = [round EXCEPT ![i] = @ + 1]
  /\ stream' = IF rings THEN Append(stream, [kind |-> IF w \in {"busy", "settled"} THEN "noise" ELSE w,
                                             item |-> i, round |-> round[i] + 1])
               ELSE stream
  /\ deliveries' = Deliveries(i, w) /\ failures' = Failures(i, w)
  /\ UNCHANGED <<cursorVars, deliveriesReady, failuresReady, builder, poll>>

ReportDelivery(i) == Turn(i, "busy", "review", TRUE) /\ fired' = fired \cup {i}
AskPm(i)          == Turn(i, "busy", "answer", TRUE) /\ UNCHANGED fired
AnswerPm(i)       == Turn(i, "answer", "busy", TRUE) /\ UNCHANGED fired
ReviewItem(i)     == Turn(i, "review", "settled", TRUE) /\ UNCHANGED fired
ResetItem(i)      == Turn(i, "review", "busy", TRUE) /\ fired' = fired \ {i}
\* The hub may die between the state and the event of a decision.
NeedDecision(i, rings) == Turn(i, "settled", "decision", rings) /\ UNCHANGED fired
FailItem(i)       == Turn(i, "busy", "decision", FALSE) /\ UNCHANGED fired
RepairItem(i)     == Turn(i, "decision", "settled", TRUE) /\ UNCHANGED fired

-----------------------------------------------------------------------------
(* A poll.                                                                  *)

StartPoll(p) ==
  /\ poll[p] = NoPoll
  /\ poll' = [poll EXCEPT ![p] = [phase |-> IF deliveriesReady THEN "ring" ELSE "absorb",
                                  at |-> 0, seen |-> {}]]
  /\ UNCHANGED <<itemVars, cursorVars, listVars>>

\* ensureLegacyReviewIndexes: what has rung, and the done tasks, are read
\* before they are written.
AbsorbRead(p) ==
  /\ At(p, "absorb")
  /\ Keep(p, "ready", 0, {n \in DOMAIN stream : stream[n].kind = "review" /\ Current(stream[n])}
                         \cup {i \in Items : Delivered(i)})
  /\ UNCHANGED <<itemVars, cursorVars, listVars>>

AbsorbWrite(p) ==
  /\ At(p, "ready")
  /\ fired' = fired \cup {stream[n].item : n \in poll[p].seen \cap Nat}
  /\ deliveries' = deliveries \cup (poll[p].seen \cap Items) /\ deliveriesReady' = TRUE
  /\ GoTo(p, "ring")
  /\ UNCHANGED <<itemVars, cursorVars, failureVars>>

\* EMIT_PENDING_REVIEW_DOORBELL: rings at most once for a task.
MayRing_Again(i) == i \in deliveries /\ Delivered(i)
MayRing(i) == i \in deliveries /\ Delivered(i) /\ i \notin fired
Ring(p, i) ==
  /\ At(p, "ring") /\ MayRing(i) /\ Len(stream) < StreamBound
  /\ fired' = fired \cup {i}
  /\ stream' = Append(stream, [kind |-> "review", item |-> i, round |-> round[i]])
  /\ UNCHANGED <<want, round, cursorVars, deliveries, deliveriesReady, failureVars, poll>>

\* REMOVE_STALE_PENDING_REVIEW looks at the task again when it removes.
StillStale_Unchecked(i) == TRUE
StillStale(i) == ~Delivered(i)
Unlist(seen) == deliveries \ {i \in seen : StillStale(i)}

\* removeStalePendingReviews of what the ringing has passed over; the cursor is read.
RingEnds(p) ==
  /\ At(p, "ring") /\ {i \in Items : MayRing(i)} = {}
  /\ deliveries' = Unlist({i \in deliveries : ~Delivered(i)}) /\ Keep(p, "tail", cursor, {})
  /\ UNCHANGED <<itemVars, cursorVars, fired, deliveriesReady, failureVars>>

\* indexConsumerEventTail: a page is read, then indexed, then the cursor moves,
\* and never back (ADVANCE_CONSUMER_CURSOR).
Page(p) == {n \in DOMAIN stream : n > poll[p].at /\ n <= poll[p].at + PageSize}
Last(seen) == CHOOSE n \in seen : \A m \in seen : m <= n
MoveCursor(n) == cursor' = IF n > cursor THEN n ELSE cursor

ReadTail_Eager(p) ==
  /\ At(p, "tail")
  /\ IF Page(p) = {} THEN GoTo(p, "list") /\ UNCHANGED cursor
     ELSE Keep(p, "store", poll[p].at, Page(p)) /\ MoveCursor(Last(Page(p)))
  /\ UNCHANGED <<itemVars, pending, acked, listVars>>
ReadTail(p) ==
  /\ At(p, "tail")
  /\ IF Page(p) = {} THEN GoTo(p, "list") ELSE Keep(p, "store", poll[p].at, Page(p))
  /\ UNCHANGED <<itemVars, cursorVars, listVars>>

Store(p) ==
  /\ At(p, "store")
  /\ pending' = pending \cup {n \in poll[p].seen : Bell(n)}
  /\ Keep(p, "advance", Last(poll[p].seen), poll[p].seen)
  /\ UNCHANGED <<itemVars, cursor, acked, listVars>>

Advance(p) ==
  /\ At(p, "advance")
  /\ MoveCursor(poll[p].at) /\ Keep(p, "tail", poll[p].at, {})
  /\ UNCHANGED <<itemVars, pending, acked, listVars>>

\* readConsumerPending: the members and whether they are acknowledged, then
\* the tasks behind them, then the removal of what was judged stale.
List(p) ==
  /\ At(p, "list") /\ Keep(p, "judge", 0, pending)
  /\ UNCHANGED <<itemVars, cursorVars, listVars>>

Obsolete(n) == n \in acked \/ ~Holds(stream[n])
Judge(p) ==
  /\ At(p, "judge") /\ Keep(p, "clean", 0, {n \in poll[p].seen : Obsolete(n)})
  /\ UNCHANGED <<itemVars, cursorVars, listVars>>

Clean(p) ==
  /\ At(p, "clean") /\ pending' = pending \ poll[p].seen /\ GoTo(p, "deliveries")
  /\ UNCHANGED <<itemVars, cursor, acked, listVars>>

\* SYNC_INTAKE_ACTIONABLE_FAILED and the publication look at the tasks once more
\* and put in what has become actionable since.
Actionable_Snapshot(seen) == failures \ {i \in seen : failuresReady \/ want[i] # "decision"}
Actionable(seen) == (failures \ seen) \cup {i \in seen : want[i] = "decision"}

\* The list of deliveries, and the removal of those that were stale when read.
ReadDeliveries(p) ==
  /\ At(p, "deliveries") /\ Keep(p, "cleanDeliveries", 0, {i \in deliveries : ~Delivered(i)})
  /\ UNCHANGED <<itemVars, cursorVars, listVars>>

CleanDeliveries(p) ==
  /\ At(p, "cleanDeliveries") /\ deliveries' = Unlist(poll[p].seen)
  /\ GoTo(p, IF failuresReady THEN "failures" ELSE "build")
  /\ UNCHANGED <<itemVars, cursorVars, fired, deliveriesReady, failureVars>>

\* ensureIntakeActionableFailedIndex: under a lock the candidates are read, and
\* looked at again by the script that publishes them.
BuildFailures(p) ==
  /\ At(p, "build")
  /\ IF failuresReady THEN GoTo(p, "failures") /\ UNCHANGED builder
     ELSE /\ builder = NoPoll /\ builder' = p
          /\ Keep(p, "publish", 0, failures \cup {i \in Items : want[i] \notin {"busy", "answer"}})
  /\ UNCHANGED <<itemVars, cursorVars, deliveryVars, failures, failuresReady>>

PublishFailures(p) ==
  /\ At(p, "publish")
  /\ IF builder # p THEN GoTo(p, "build") /\ UNCHANGED failureVars
     ELSE /\ failures' = Actionable(poll[p].seen) /\ failuresReady' = TRUE /\ builder' = NoPoll
          /\ GoTo(p, "failures")
  /\ UNCHANGED <<itemVars, cursorVars, deliveryVars>>

\* The lock runs out, or its renewal fails.
LoseBuild == builder # NoPoll /\ builder' = NoPoll
             /\ UNCHANGED <<itemVars, cursorVars, deliveryVars, failures, failuresReady, poll>>

ReadFailures(p) ==
  /\ At(p, "failures") /\ Keep(p, "cleanFailures", 0, {i \in failures : want[i] # "decision"})
  /\ UNCHANGED <<itemVars, cursorVars, listVars>>

CleanFailures(p) ==
  /\ At(p, "cleanFailures")
  /\ failures' = Actionable(poll[p].seen) /\ poll' = [poll EXCEPT ![p] = NoPoll]
  /\ UNCHANGED <<itemVars, cursorVars, deliveryVars, failuresReady, builder>>

\* ackEvent, also of an event that is not indexed yet (findEventForAck).
Ack(n) ==
  /\ Bell(n) /\ Cardinality(acked \cup {n}) <= AckBound
  /\ acked' = acked \cup {n} /\ pending' = pending \ {n}
  /\ UNCHANGED <<itemVars, cursor, listVars, poll>>

DiePoll(p) ==
  /\ poll[p] # NoPoll /\ poll' = [poll EXCEPT ![p] = NoPoll]
  /\ UNCHANGED <<itemVars, cursorVars, listVars>>

IntakeNext ==
  \/ \E i \in Items : \/ ReportDelivery(i) \/ AskPm(i) \/ AnswerPm(i) \/ ReviewItem(i) \/ ResetItem(i)
                      \/ FailItem(i) \/ RepairItem(i)
                      \/ \E rings \in BOOLEAN : NeedDecision(i, rings)
  \/ \E p \in Polls : \/ StartPoll(p) \/ AbsorbRead(p) \/ AbsorbWrite(p) \/ RingEnds(p)
                      \/ \E i \in Items : Ring(p, i)
                      \/ ReadTail(p) \/ Store(p) \/ Advance(p) \/ List(p) \/ Judge(p) \/ Clean(p)
                      \/ ReadDeliveries(p) \/ CleanDeliveries(p) \/ BuildFailures(p) \/ PublishFailures(p)
                      \/ ReadFailures(p) \/ CleanFailures(p) \/ DiePoll(p)
  \/ \E n \in DOMAIN stream : Ack(n)
  \/ LoseBuild

IntakeSpec == IntakeInit /\ [][IntakeNext]_intakeVars

-----------------------------------------------------------------------------
\* The cursor never passes an event that was not indexed, and clean-ups take
\* away nothing current: what a task still wants of the PM is behind the cursor
\* only if it is pending or was acknowledged (comment above IndexedPendingEvent).
NothingSkipped ==
  \A n \in 1..cursor : Bell(n) /\ Current(stream[n]) => n \in pending \cup acked

\* Every delivery without a review is listed, although polls remove entries
\* they read as stale before the task was reset and delivered again.
DeliveriesAreListed == deliveriesReady => {i \in Items : Delivered(i)} \subseteq deliveries

\* The same of failures and decisions, for which the event may never come.
FailuresAreListed == failuresReady => {i \in Items : want[i] = "decision"} \subseteq failures

\* What waits for the PM is in the index its intake is read from.
ReasonsAreListed == DeliveriesAreListed /\ FailuresAreListed

\* One round of a task rings for its review once, however many polls and
\* whatever version of the hub wrote the event.
RingsOnce ==
  \A m, n \in DOMAIN stream : stream[m].kind = "review" /\ stream[m] = stream[n] => m = n

\* The inbox loses nothing the PM has to see, and shows a review once.
InboxIsKept == NothingSkipped /\ ReasonsAreListed /\ RingsOnce
=============================================================================
