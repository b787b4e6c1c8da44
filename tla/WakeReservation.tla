--------------------------- MODULE WakeReservation ---------------------------
(***************************************************************************)
(* A task kept back for one bound agent while that agent is woken.  The    *)
(* supervisor reserves a pending task for a binding, wakes the agent       *)
(* through its adapter, and the agent redeems the reservation with its     *)
(* claim.  A receipt records whether the wake succeeded.                   *)
(*                                                                         *)
(* The scripts are atomic; the files of a task are taken and given back    *)
(* by calls of their own, before and after them.  Priorities are equal, so *)
(* no acquisition preempts another.                                        *)
(***************************************************************************)
EXTENDS Naturals, FiniteSets

CONSTANTS
  WakeTasks, Bound,    \* tasks, and the agents that are bound to the project
  Background,      \* the bound agents that the coordinator itself runs
  Clash,           \* the sets of two tasks whose files overlap
  ReservationBound,
  NoAgent, NoReservation, NoCall

Ids == 1 .. ReservationBound

Reservation == [task : WakeTasks, agent : Bound, fresh : BOOLEAN,
                status : {"reserved", "claimed", "failed", "ownership_unavailable"}]
Claim == [task : WakeTasks, id : Ids \cup {0}, at : {"acquire", "script", "unown", "launch"}]

ASSUME WakeAssumption ==
  /\ Background \subseteq Bound /\ ReservationBound \in Nat /\ NoAgent \notin Bound
  /\ \A p \in Clash : p \subseteq WakeTasks /\ Cardinality(p) = 2
  /\ NoReservation \notin Reservation /\ NoCall \notin Claim

VARIABLES
  state, holder, under,  \* each task: its status, who holds it, and by which reservation
  mark,                  \* wake_reservation_id of each task, 0 for none
  reservation,           \* the reservation of each id
  files,                 \* how long each agent's record of a task's files lasts
  reserving,             \* what the request that made a reservation is at
  failing,               \* what the request that recorded a failure is at
  call,                  \* the claim of each agent
  receipt,               \* the receipt of each id
  redeemed               \* history: how often each reservation was redeemed

taskVars == <<state, holder, under, mark>>
wakeVars == <<taskVars, reservation, files, reserving, failing, call, receipt, redeemed>>

WakeTypeOK ==
  /\ state \in [WakeTasks -> {"pending", "running", "done"}]
  /\ holder \in [WakeTasks -> Bound \cup {NoAgent}]
  /\ under \in [WakeTasks -> Ids \cup {0}] /\ mark \in [WakeTasks -> Ids \cup {0}]
  /\ reservation \in [Ids -> Reservation \cup {NoReservation}]
  /\ \A t \in WakeTasks : under[t] # 0 => reservation[under[t]].status = "claimed"
  /\ files \in [Bound \X WakeTasks -> {"none", "short", "long"}]
  /\ reserving \in [Ids -> {"none", "acquire", "release", "unown", "answered"}]
  /\ failing \in [Ids -> {"none", "release", "unown"}]
  /\ call \in [Bound -> Claim \cup {NoCall}]
  /\ receipt \in [Ids -> {"none", "succeeded", "failed"}]
  /\ redeemed \in [Ids -> Nat]

WakeInit ==
  /\ state = [t \in WakeTasks |-> "pending"] /\ holder = [t \in WakeTasks |-> NoAgent]
  /\ under = [t \in WakeTasks |-> 0] /\ mark = [t \in WakeTasks |-> 0]
  /\ reservation = [n \in Ids |-> NoReservation]
  /\ files = [r \in Bound \X WakeTasks |-> "none"]
  /\ reserving = [n \in Ids |-> "none"] /\ failing = [n \in Ids |-> "none"]
  /\ call = [a \in Bound |-> NoCall]
  /\ receipt = [n \in Ids |-> "none"] /\ redeemed = [n \in Ids |-> 0]

Made(n) == reservation[n] # NoReservation
Reserved(n) == Made(n) /\ reservation[n].status = "reserved" /\ reservation[n].fresh

\* The mark carries the expiry of its reservation.
Kept(t) == mark[t] # 0 /\ reservation[mark[t]].fresh

HoldsNothing(a) == \A t \in WakeTasks : ~(state[t] = "running" /\ holder[t] = a)

\* Another record of a task with overlapping files is in the way.
Blocked(a, t) ==
  \E b \in Bound, u \in WakeTasks : <<b, u>> # <<a, t>> /\ files[<<b, u>>] # "none" /\ (u = t \/ {t, u} \in Clash)
Owns(a, t, term) == files' = [files EXCEPT ![<<a, t>>] = term]

-----------------------------------------------------------------------------
(* Reservations *)

Reserve(n, a, t) ==
  /\ ~Made(n) /\ \A m \in Ids : m < n => Made(m)
  /\ state[t] = "pending" /\ ~Kept(t)
  /\ mark' = [mark EXCEPT ![t] = n]
  /\ reservation' = [reservation EXCEPT ![n] = [task |-> t, agent |-> a, fresh |-> TRUE, status |-> "reserved"]]
  /\ reserving' = [reserving EXCEPT ![n] = "acquire"]
  /\ UNCHANGED <<state, holder, under, files, failing, call, receipt, redeemed>>

\* Activation renews a record the agent already has, with its own term.
Acquire(n) ==
  LET a == reservation[n].agent  t == reservation[n].task IN
  /\ reserving[n] = "acquire"
  /\ IF Blocked(a, t) THEN reserving' = [reserving EXCEPT ![n] = "release"] /\ UNCHANGED files
     ELSE reserving' = [reserving EXCEPT ![n] = "answered"] /\ Owns(a, t, "short")
  /\ UNCHANGED <<taskVars, reservation, failing, call, receipt, redeemed>>

\* RELEASE_PROJECT_AGENT_RESERVATION gives back only what is still reserved.
Releasable_Always(n) == reservation[n].fresh
Releasable(n) == Reserved(n)
Released(n, why) ==
  LET t == reservation[n].task IN
  /\ reservation' = [reservation EXCEPT ![n].status = why]
  /\ mark' = [mark EXCEPT ![t] = IF @ = n THEN 0 ELSE @]

ReleaseUnavailable(n) ==
  /\ reserving[n] = "release"
  /\ IF Releasable(n)
     THEN Released(n, "ownership_unavailable") /\ reserving' = [reserving EXCEPT ![n] = "unown"]
     ELSE reserving' = [reserving EXCEPT ![n] = "none"] /\ UNCHANGED <<mark, reservation>>
  /\ UNCHANGED <<state, holder, under, files, failing, call, receipt, redeemed>>

UnownUnavailable(n) ==
  /\ reserving[n] = "unown"
  /\ reserving' = [reserving EXCEPT ![n] = "none"]
  /\ Owns(reservation[n].agent, reservation[n].task, "none")
  /\ UNCHANGED <<taskVars, reservation, failing, call, receipt, redeemed>>

\* The reservation expires; its record of files does so a little later.
Lapse(n) ==
  /\ Made(n) /\ reservation[n].fresh
  /\ reservation' = [reservation EXCEPT ![n].fresh = FALSE]
  /\ UNCHANGED <<taskVars, files, reserving, failing, call, receipt, redeemed>>

LapseFiles(a, t) ==
  /\ files[<<a, t>>] = "short"
  /\ \A n \in Ids : Reserved(n) => <<reservation[n].agent, reservation[n].task>> # <<a, t>>
  /\ Owns(a, t, "none")
  /\ UNCHANGED <<taskVars, reservation, reserving, failing, call, receipt, redeemed>>

-----------------------------------------------------------------------------
(* Claims: a bound agent redeems its reservation, or claims as any agent may *)

Redeems(a, n, t) == Reserved(n) /\ reservation[n].agent = a /\ reservation[n].task = t

Ask(a, n, t) ==
  /\ call[a] = NoCall /\ HoldsNothing(a)
  /\ n # 0 => reserving[n] = "answered" /\ Redeems(a, n, t) /\ mark[t] = n
  /\ n = 0 => ~Kept(t)
  /\ state[t] = "pending"
  /\ call' = [call EXCEPT ![a] = [task |-> t, id |-> n, at |-> "acquire"]]
  /\ UNCHANGED <<taskVars, reservation, files, reserving, failing, receipt, redeemed>>

ClaimAcquires(a) ==
  /\ call[a] # NoCall /\ call[a].at = "acquire"
  /\ IF Blocked(a, call[a].task) THEN call' = [call EXCEPT ![a] = NoCall] /\ UNCHANGED files
     ELSE call' = [call EXCEPT ![a].at = "script"] /\ Owns(a, call[a].task, "long")
  /\ UNCHANGED <<taskVars, reservation, reserving, failing, receipt, redeemed>>

\* CLAIM_WITH_AGENT_EPOCH, as far as it looks at reservations.
Permitted_Filtered(a, n, t) == n # 0 => Redeems(a, n, t) /\ mark[t] = n
Permitted(a, n, t) == IF n # 0 THEN Redeems(a, n, t) /\ mark[t] = n ELSE ~Kept(t)

Redeemed(n) ==
  IF n = 0 THEN UNCHANGED <<reservation, redeemed>>
  ELSE /\ reservation' = [reservation EXCEPT ![n].status = "claimed"]
       /\ redeemed' = [redeemed EXCEPT ![n] = @ + 1]

ClaimCommits(a) ==
  LET t == call[a].task  n == call[a].id IN
  /\ call[a] # NoCall /\ call[a].at = "script"
  /\ IF state[t] = "pending" /\ HoldsNothing(a) /\ Permitted(a, n, t)
     THEN /\ state' = [state EXCEPT ![t] = "running"]
          /\ holder' = [holder EXCEPT ![t] = a]
          /\ under' = [under EXCEPT ![t] = n]
          /\ mark' = [mark EXCEPT ![t] = 0]
          /\ Redeemed(n)
          /\ call' = IF n # 0 /\ a \in Background THEN [call EXCEPT ![a].at = "launch"]
                     ELSE [call EXCEPT ![a] = NoCall]
     ELSE /\ call' = [call EXCEPT ![a].at = "unown"]
          /\ UNCHANGED <<taskVars, reservation, redeemed>>
  /\ UNCHANGED <<files, reserving, failing, receipt>>

\* A refused claim gives the files back by agent and task.
ClaimUnowns_Skipped(a) ==
  /\ call[a] # NoCall /\ call[a].at = "unown"
  /\ call' = [call EXCEPT ![a] = NoCall]
  /\ UNCHANGED <<taskVars, files, reservation, reserving, failing, receipt, redeemed>>
ClaimUnowns(a) ==
  /\ call[a] # NoCall /\ call[a].at = "unown"
  /\ Owns(a, call[a].task, "none")
  /\ call' = [call EXCEPT ![a] = NoCall]
  /\ UNCHANGED <<taskVars, reservation, reserving, failing, receipt, redeemed>>

\* The holder reports, or its lease runs out, or it blocks and is requeued.
Leave(t, st) ==
  /\ state' = [state EXCEPT ![t] = st]
  /\ holder' = [holder EXCEPT ![t] = IF st = "done" THEN @ ELSE NoAgent]
  /\ Owns(holder[t], t, "none")

HoldEnds(t, st) ==
  /\ state[t] = "running"
  /\ Leave(t, st)
  /\ UNCHANGED <<under, mark, reservation, reserving, failing, call, receipt, redeemed>>

-----------------------------------------------------------------------------
(* Receipts *)

\* A receipt of success is refused unless the reservation was redeemed by its
\* agent and the task is still that agent's.
True_Believed(n) == TRUE
True(n) ==
  LET t == reservation[n].task IN
  /\ reservation[n].status = "claimed" /\ reservation[n].fresh
  /\ holder[t] = reservation[n].agent /\ state[t] \in {"running", "done"}

\* The adapter said that its agent has claimed.
WakeSucceeds(n) ==
  /\ reserving[n] = "answered" /\ receipt[n] = "none"
  /\ reservation[n].agent \notin Background
  /\ True(n)
  /\ receipt' = [receipt EXCEPT ![n] = "succeeded"]
  /\ UNCHANGED <<taskVars, reservation, files, reserving, failing, call, redeemed>>

\* No adapter, a refusal, a malformed answer or a timeout: the agent may claim
\* all the same.  The reservation is given back after the receipt is stored.
WakeFails(n) ==
  /\ reserving[n] = "answered" /\ receipt[n] = "none"
  /\ reservation[n].agent \notin Background
  /\ receipt' = [receipt EXCEPT ![n] = "failed"]
  /\ failing' = [failing EXCEPT ![n] = "release"]
  /\ UNCHANGED <<taskVars, reservation, files, reserving, call, redeemed>>

ReleaseFailed(n) ==
  /\ failing[n] = "release"
  /\ IF Releasable(n)
     THEN Released(n, "failed") /\ failing' = [failing EXCEPT ![n] = "unown"]
     ELSE failing' = [failing EXCEPT ![n] = "none"] /\ UNCHANGED <<mark, reservation>>
  /\ UNCHANGED <<state, holder, under, files, reserving, call, receipt, redeemed>>

UnownFailed(n) ==
  /\ failing[n] = "unown"
  /\ failing' = [failing EXCEPT ![n] = "none"]
  /\ Owns(reservation[n].agent, reservation[n].task, "none")
  /\ UNCHANGED <<taskVars, reservation, reserving, call, receipt, redeemed>>

\* The coordinator runs nothing without a stored receipt: a refused one makes it
\* give the task back.
Launch(a) ==
  LET n == call[a].id  t == call[a].task IN
  /\ call[a] # NoCall /\ call[a].at = "launch"
  /\ call' = [call EXCEPT ![a] = NoCall]
  /\ \/ /\ True(n)
        /\ receipt' = [receipt EXCEPT ![n] = "succeeded"]
        /\ UNCHANGED <<state, holder, files>>
     \/ /\ UNCHANGED receipt
        /\ IF state[t] = "running" /\ holder[t] = a THEN Leave(t, "pending")
           ELSE UNCHANGED <<state, holder, files>>
  /\ UNCHANGED <<under, mark, reservation, reserving, failing, redeemed>>

WakeNext ==
  \/ \E n \in Ids, a \in Bound, t \in WakeTasks : Reserve(n, a, t)
  \/ \E n \in Ids : Acquire(n) \/ ReleaseUnavailable(n) \/ UnownUnavailable(n) \/ Lapse(n)
  \/ \E n \in Ids : WakeSucceeds(n) \/ WakeFails(n) \/ ReleaseFailed(n) \/ UnownFailed(n)
  \/ \E a \in Bound, t \in WakeTasks : LapseFiles(a, t)
  \/ \E a \in Bound, t \in WakeTasks, n \in Ids \cup {0} : Ask(a, n, t)
  \/ \E a \in Bound : ClaimAcquires(a) \/ ClaimCommits(a) \/ ClaimUnowns(a) \/ Launch(a)
  \/ \E t \in WakeTasks, st \in {"pending", "done"} : HoldEnds(t, st)

WakeSpec == WakeInit /\ [][WakeNext]_wakeVars

-----------------------------------------------------------------------------
(* Properties *)

\* A live reservation is the one its task names, and the task is pending: no task
\* is kept for two agents.
KeptForOne == \A n \in Ids : Reserved(n) => state[reservation[n].task] = "pending" /\ mark[reservation[n].task] = n

\* A reservation is redeemed at most once, and never one that was given back: a
\* wake that failed late does not undo the claim it brought about.
ReservationEndsOnce ==
  \A n \in Ids : Made(n) =>
    redeemed[n] <= 1 /\ (reservation[n].status \in {"failed", "ownership_unavailable"} => redeemed[n] = 0)

\* A receipt of success is only stored for a wake that led to a claim, whatever
\* the adapter says.
ReceiptIsTrue == \A n \in Ids : receipt[n] = "succeeded" => redeemed[n] = 1

\* A claim leaves no files taken once it is over: a long record belongs to a
\* claim in flight or to the task's holder.
NoStrandedFiles ==
  \A a \in Bound, t \in WakeTasks : files[<<a, t>>] = "long" =>
    (state[t] = "running" /\ holder[t] = a) \/ (call[a] # NoCall /\ call[a].task = t)

\* While a task is kept for an agent, no other claim gets it.
ClaimedByItsAgent ==
  \A t \in WakeTasks : (state[t] = "pending" /\ Kept(t) /\ state'[t] = "running")
    => holder'[t] = reservation[mark[t]].agent /\ under'[t] = mark[t]

\* The promise of a reservation.
WakeIsSafe ==
  /\ [](KeptForOne /\ ReservationEndsOnce /\ ReceiptIsTrue /\ NoStrandedFiles)
  /\ [][ClaimedByItsAgent]_wakeVars

\* "An old attempt must not give back, by agent and task, what the new owner
\* holds" (the comment in claimTask): a running task keeps its files.
RunningKeepsFiles == \A t \in WakeTasks : state[t] = "running" => files[<<holder[t], t>>] # "none"
=============================================================================
