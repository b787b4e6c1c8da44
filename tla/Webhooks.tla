------------------------------ MODULE Webhooks ------------------------------
(***************************************************************************)
(* The hub tells other systems of deliveries, conflicts about files and    *)
(* incidents (v2/webhook-service.ts): one dispatcher walks the event       *)
(* stream by a cursor and two lists by the time of the newest entry it has *)
(* seen, makes a row per webhook and event, and posts it; rows that failed *)
(* are posted again, by the dispatcher or by anyone who asks for it.  The  *)
(* other system's answer comes much later, and the hub may stop meanwhile. *)
(***************************************************************************)
EXTENDS Integers, Sequences, FiniteSets, FiniteSetsExt

CONSTANTS
  Hooks,             \* registered webhooks
  Events,
  SourceOf(_),       \* where an event is found: "stream", "conflict" or "incident"
  Manuals,           \* requests to post what is due
  MaxAttempts,       \* WEBHOOK_MAX_ATTEMPTS
  EventBound, TimeBound, CrashBound,
  OwnerBound,       \* bound on the owner's requests
  NoEvent

ASSUME WebhooksAssumption ==
  /\ \A e \in Events : SourceOf(e) \in {"stream", "conflict", "incident"}
  /\ NoEvent \notin Events
  /\ MaxAttempts \in Nat \ {0} /\ EventBound \in Nat /\ TimeBound \in Nat
  /\ OwnerBound \in Nat /\ CrashBound \in Nat

VARIABLES
  hook,       \* status of each registration
  stream,      \* the events of the stream, oldest first
  listed,      \* the conflicts and incidents that are in their lists
  at,         \* the time each event carries, 0 before it happens
  resolved,   \* incidents that are over
  saved,      \* the dispatcher's state: entries of the stream read, and two times
  row,        \* the delivery of an event to a webhook
  caller,     \* what the dispatcher and each manual request are about to do
  promised,       \* history: webhooks active since the event became visible
  sent,       \* history: posts of a delivery, success taken, two callers at it at once
  changes, stops

webhookVars == <<hook, stream, listed, at, resolved, saved, row, caller, promised, sent, changes, stops>>
sources == <<stream, listed, at, resolved>>

Dispatcher == "dispatcher"
Callers == {Dispatcher} \cup Manuals
Sources == <<"stream", "conflict", "incident">>
Rows == Hooks \X Events

NoPost == [row |-> <<>>, attempt |-> 0]
Idle == [at |-> "idle", events |-> {}, event |-> NoEvent, hooks |-> {}, top |-> 0, due |-> {}, post |-> NoPost]

Post == [row : Rows, attempt : 1 .. MaxAttempts]
Due == [row : Rows, attempts : 0 .. MaxAttempts - 1]
Caller == [at : {"idle", "due", "stream", "conflict", "incident"}, events : SUBSET Events,
           event : Events \cup {NoEvent}, hooks : SUBSET Hooks, top : Nat, due : SUBSET Due,
           post : Post \cup {NoPost}]

WebhooksTypeOK ==
  /\ hook \in [Hooks -> {"none", "active", "failed", "gone"}]
  /\ stream \in Seq(Events) /\ listed \subseteq Events
  /\ at \in [Events -> 0 .. TimeBound] /\ resolved \subseteq Events
  /\ saved \in [stream : Nat, conflict : 0 .. TimeBound, incident : 0 .. TimeBound]
  /\ row \in [Rows -> [status : {"none", "pending", "delivered", "failed"}, attempts : 0 .. MaxAttempts, due : BOOLEAN]]
  /\ caller \in [Callers -> Caller]
  /\ promised \subseteq Rows
  /\ sent \in [Rows -> [posts : Nat, taken : BOOLEAN, shared : BOOLEAN]]
  /\ changes \in 0 .. OwnerBound /\ stops \in 0 .. CrashBound

WebhooksInit ==
  /\ hook \in [Hooks -> {"none", "active"}]
  /\ stream = <<>> /\ listed = {} /\ at = [e \in Events |-> 0] /\ resolved = {}
  /\ saved = [stream |-> 0, conflict |-> 0, incident |-> 0]
  /\ row = [r \in Rows |-> [status |-> "none", attempts |-> 0, due |-> FALSE]]
  /\ caller = [c \in Callers |-> Idle]
  /\ promised = {} /\ sent = [r \in Rows |-> [posts |-> 0, taken |-> FALSE, shared |-> FALSE]]
  /\ changes = 0 /\ stops = 0

Sees(e) == {<<h, e>> : h \in {k \in Hooks : hook[k] = "active"}}
Visible == {stream[i] : i \in 1 .. Len(stream)} \cup listed
\* Entries of one of the two lists.
Listed(src) == {e \in listed : SourceOf(e) = src}

-----------------------------------------------------------------------------
(* What happens in the hub. *)

\* Times never go back; two events may carry the same.  A stream entry and an incident
\* are visible at once, a conflict is dated before the transaction that lists it.
Dated(e) == at[e] # 0
InOrder(e, t) == \A o \in Listed(SourceOf(e)) : at[o] < t
Now == Max({1} \cup {at[e] : e \in Events})
Happens(e, t) ==
  /\ ~Dated(e) /\ Cardinality({o \in Events : Dated(o)}) < EventBound
  /\ t \in Now .. Now + 1 /\ t <= TimeBound
  /\ at' = [at EXCEPT ![e] = t]
  /\ stream' = IF SourceOf(e) = "stream" THEN Append(stream, e) ELSE stream
  /\ listed' = IF SourceOf(e) = "incident" THEN listed \cup {e} ELSE listed
  /\ promised' = IF SourceOf(e) = "stream" \/ (SourceOf(e) = "incident" /\ InOrder(e, t))
                 THEN promised \cup Sees(e) ELSE promised
  /\ UNCHANGED <<hook, resolved, saved, row, caller, sent, changes, stops>>
ListConflict(e) ==
  /\ SourceOf(e) = "conflict" /\ Dated(e) /\ e \notin listed
  /\ listed' = listed \cup {e}
  /\ promised' = IF InOrder(e, at[e]) THEN promised \cup Sees(e) ELSE promised
  /\ UNCHANGED <<hook, stream, at, resolved, saved, row, caller, sent, changes, stops>>
Resolve(e) ==
  /\ SourceOf(e) = "incident" /\ Dated(e) /\ e \notin resolved
  /\ resolved' = resolved \cup {e}
  /\ promised' = promised \ (Hooks \X {e})
  /\ UNCHANGED <<hook, stream, listed, at, saved, row, caller, sent, changes, stops>>

\* The owner's requests.
OwnersTurn == changes < OwnerBound /\ changes' = changes + 1
Set(h, from, to) ==
  /\ hook[h] \in from /\ OwnersTurn
  /\ hook' = [hook EXCEPT ![h] = to]
  /\ promised' = IF to = "gone" THEN promised \ ({h} \X Events) ELSE promised
  /\ UNCHANGED <<saved, row, caller, sent, stops, sources>>
RegisterWebhook(h) == Set(h, {"none"}, "active")
DeleteWebhook(h) == Set(h, {"active", "failed"}, "gone")
ReactivateWebhook(h) == Set(h, {"active", "failed"}, "active")

-----------------------------------------------------------------------------
(* Posting one delivery. *)

\* Another caller posts the row, or has since this one read it.
Shared(r, attempts) ==
  \/ \E c \in Callers : caller[c].post.row = r
  \/ row[r].status \in {"delivered", "failed"} \/ row[r].attempts # attempts
Posts(c, r, attempts, new) ==
  /\ caller' = [caller EXCEPT ![c] = [new EXCEPT !.post = [row |-> r, attempt |-> attempts + 1]]]
  /\ sent' = [sent EXCEPT ![r].posts = IF @ > MaxAttempts + CrashBound THEN @ ELSE @ + 1,
                             ![r].shared = @ \/ Shared(r, attempts)]

Registered(h) == hook[h] \in {"active", "failed"}
Becomes(h, status) ==
  /\ hook' = IF Registered(h) THEN [hook EXCEPT ![h] = status] ELSE hook
  /\ promised' = IF status = "failed" THEN promised \ ({h} \X Events) ELSE promised

\* attemptDelivery after the answer: it counts from the row it was given.
Exhausted_Later(attempt) == attempt > MaxAttempts
Exhausted(attempt) == attempt >= MaxAttempts
Answered(c) == caller[c].post # NoPost /\ caller' = [caller EXCEPT ![c].post = NoPost]
Delivers(c) == LET p == caller[c].post IN
  /\ Answered(c)
  /\ row' = [row EXCEPT ![p.row] = [status |-> "delivered", attempts |-> p.attempt, due |-> FALSE]]
  /\ sent' = [sent EXCEPT ![p.row].taken = TRUE]
  /\ Becomes(p.row[1], "active")
  /\ UNCHANGED <<saved, changes, stops, sources>>
PostFails(c) == LET p == caller[c].post IN
  /\ Answered(c)
  /\ IF Exhausted(p.attempt)
     THEN /\ row' = [row EXCEPT ![p.row] = [status |-> "failed", attempts |-> p.attempt, due |-> FALSE]]
          /\ Becomes(p.row[1], "failed")
     ELSE /\ row' = [row EXCEPT ![p.row] = [status |-> "pending", attempts |-> p.attempt, due |-> FALSE]]
          /\ UNCHANGED <<hook, promised>>
  /\ UNCHANGED <<saved, sent, changes, stops, sources>>

\* The pause before the next attempt is over.
BackoffEnds(r) ==
  /\ row[r].status = "pending" /\ ~row[r].due
  /\ row' = [row EXCEPT ![r].due = TRUE]
  /\ UNCHANGED <<hook, saved, caller, promised, sent, changes, stops, sources>>

-----------------------------------------------------------------------------
(* The dispatcher: the three sources one after the other, then what is due. *)

Quiet(c) == caller[c].post = NoPost
DueRows == {[row |-> r, attempts |-> row[r].attempts] : r \in {q \in Rows : row[q].status = "pending" /\ row[q].due}}

\* The entries a source has beyond what was saved, and what will be saved after them.
Unseen(src) ==
  IF src = "stream" THEN {stream[i] : i \in saved.stream + 1 .. Len(stream)}
  ELSE {e \in Listed(src) : at[e] > saved[src] /\ e \notin resolved}
Top(src) ==
  IF src = "stream" THEN Len(stream)
  ELSE IF Unseen(src) = {} THEN saved[src] ELSE Max({at[e] : e \in Unseen(src)})
Walk(src) == [Idle EXCEPT !.at = src, !.events = Unseen(src), !.top = Top(src)]
Work == [Idle EXCEPT !.at = "due", !.due = DueRows]

StartCycle ==
  /\ caller[Dispatcher] = Idle
  /\ caller' = [caller EXCEPT ![Dispatcher] = Walk("stream")]
  /\ UNCHANGED <<hook, saved, row, promised, sent, changes, stops, sources>>

\* The webhooks are listed once per event; those that have the row are skipped.  (In what
\* order the events of a source come is left open.)
NextEvent(e) == LET d == caller[Dispatcher] IN
  /\ Quiet(Dispatcher) /\ d.hooks = {} /\ e \in d.events
  /\ caller' = [caller EXCEPT ![Dispatcher] =
       [d EXCEPT !.events = @ \ {e}, !.event = e,
                 !.hooks = {h \in Hooks : hook[h] = "active" /\ row[<<h, e>>].status = "none"}]]
  /\ UNCHANGED <<hook, saved, row, promised, sent, changes, stops, sources>>
DispatchTo(h) == LET d == caller[Dispatcher] IN
  /\ Quiet(Dispatcher) /\ h \in d.hooks
  /\ row' = [row EXCEPT ![<<h, d.event>>] = [status |-> "pending", attempts |-> 0, due |-> TRUE]]
  /\ Posts(Dispatcher, <<h, d.event>>, 0,
           [d EXCEPT !.hooks = @ \ {h}, !.event = IF d.hooks = {h} THEN NoEvent ELSE @])
  /\ UNCHANGED <<hook, saved, promised, changes, stops, sources>>

\* The end of one source: what is saved is where its entries ended when they were read.
SaveTo_Latest(src) == IF src = "stream" THEN Len(stream) ELSE Max({0} \cup {at[e] : e \in Listed(src)})
SaveTo(src) == caller[Dispatcher].top
EndOfSource(i) == LET d == caller[Dispatcher] src == Sources[i] IN
  /\ d.at = src /\ Quiet(Dispatcher) /\ d.hooks = {} /\ d.events = {}
  /\ saved' = [saved EXCEPT ![src] = SaveTo(src)]
  /\ caller' = [caller EXCEPT ![Dispatcher] = IF i < Len(Sources) THEN Walk(Sources[i + 1]) ELSE Work]
  /\ UNCHANGED <<hook, row, promised, sent, changes, stops, sources>>

\* processDueDeliveries, with the rows as they were read; the webhook is read anew.
AskForDue(m) ==
  /\ caller[m] = Idle /\ DueRows # {} /\ OwnersTurn
  /\ caller' = [caller EXCEPT ![m] = Work]
  /\ UNCHANGED <<hook, saved, row, promised, sent, stops, sources>>
PostDue(c, d) ==
  /\ caller[c].at = "due" /\ Quiet(c) /\ d \in caller[c].due
  /\ LET rest == [caller[c] EXCEPT !.due = @ \ {d}] IN
       IF Registered(d.row[1]) THEN Posts(c, d.row, d.attempts, rest)
       ELSE caller' = [caller EXCEPT ![c] = rest] /\ UNCHANGED sent
  /\ UNCHANGED <<hook, saved, row, promised, changes, stops, sources>>
EndDue(c) ==
  /\ caller[c].at = "due" /\ Quiet(c) /\ caller[c].due = {}
  /\ caller' = [caller EXCEPT ![c] = Idle]
  /\ UNCHANGED <<hook, saved, row, promised, sent, changes, stops, sources>>

\* The hub stops: nobody takes the answers that are under way.
HubRestarts ==
  /\ stops < CrashBound /\ stops' = stops + 1
  /\ \E c \in Callers : caller[c] # Idle
  /\ caller' = [c \in Callers |-> Idle]
  /\ UNCHANGED <<hook, saved, row, promised, sent, changes, sources>>

DispatcherStep ==
  \/ StartCycle
  \/ \E e \in caller[Dispatcher].events : NextEvent(e)
  \/ \E h \in Hooks : DispatchTo(h)
  \/ \E i \in DOMAIN Sources : EndOfSource(i)
  \/ \E d \in caller[Dispatcher].due : PostDue(Dispatcher, d)
  \/ EndDue(Dispatcher)

WebhooksNext ==
  \/ HubRestarts
  \/ \E e \in Events : ListConflict(e) \/ Resolve(e) \/ \E t \in 1 .. TimeBound : Happens(e, t)
  \/ \E h \in Hooks : RegisterWebhook(h) \/ DeleteWebhook(h) \/ ReactivateWebhook(h)
  \/ DispatcherStep
  \/ \E m \in Manuals : AskForDue(m) \/ EndDue(m) \/ \E d \in caller[m].due : PostDue(m, d)
  \/ \E c \in Callers : Delivers(c) \/ PostFails(c)
  \/ \E r \in Rows : BackoffEnds(r)

WebhooksSpec == WebhooksInit /\ [][WebhooksNext]_webhookVars

-----------------------------------------------------------------------------
(* Properties *)

\* The dispatcher will not look at this event again.
PassedOver(e) ==
  IF SourceOf(e) = "stream" THEN \E i \in 1 .. saved.stream : stream[i] = e
  ELSE e \in listed /\ at[e] <= saved[SourceOf(e)]

\* A delivery is given up only by attempts of its own.
GivesUp == [][\A r \in Rows : row[r].status # "failed" /\ row'[r].status = "failed" => sent[r].posts >= MaxAttempts]_webhookVars

\* What the dispatcher promises, whatever is registered, posted and restarted in between:
WebhooksAreSafe ==
  \* an event that comes in the order of its time has a delivery for every webhook that
  \* was active when it came and stayed so, once the cursor or watermark is past it;
  /\ [](\A r \in promised : PassedOver(r[2]) => row[r].status # "none")
  \* a delivery that no two callers have in hand at once is posted three times at the most, the
  \* posts whose answer a restart lost aside, and its success is not forgotten.
  /\ [](\A r \in Rows : ~sent[r].shared =>
          /\ sent[r].posts <= MaxAttempts + stops
          /\ sent[r].taken => row[r].status = "delivered")
  /\ GivesUp

\* A webhook that failed gets no post before it is reactivated (`no longer delivered
\* automatically').  (Does not hold: rows that are pending are posted all the same, and an
\* answer makes the webhook active again.)
FailedIsLeftAlone ==
  [][\A r \in Rows : sent'[r].posts > sent[r].posts => hook[r[1]] = "active"]_webhookVars

\* A delivered row stays delivered.  (Does not hold: a request and the dispatcher post one
\* row at the same time, and the one that fails answers later.)
DeliveredStays ==
  [][\A r \in Rows : row[r].status = "delivered" => row'[r].status = "delivered"]_webhookVars
=============================================================================
