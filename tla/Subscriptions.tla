---------------------------- MODULE Subscriptions ----------------------------
(***************************************************************************)
(* The subscription webhook of vike-stripe (subscription.js) and the       *)
(* observer vike-notifications-stripe registers with it: the row of one    *)
(* subject, which no event of another subject touches.                     *)
(*                                                                         *)
(* Stripe delivers an event again until a delivery is answered with 200,   *)
(* in any order, sometimes again after that, and several at once.  A       *)
(* handler reads the row, writes it and notifies observers behind awaits,  *)
(* so each is a step, and may die in between.                              *)
(***************************************************************************)
EXTENDS Integers

CONSTANTS
    Handlers,       \* deliveries served at once
    Events,         \* events Stripe sends for the subject
    StatusOf,       \* the status each carries
    OccurredAt,     \* when each occurred; NoTime if the event does not say
    MaxTime,        \* bound on the clock
    MaxDeliveries,  \* bound on the deliveries of an event that was answered
    MaxAborts,      \* bound on handlers that die or whose calls throw
    NoTime,         \* the event carries no occurredAt
    None            \* no event or row

Statuses == {"active", "past_due", "canceled"}

ASSUME BillingConstants ==
    /\ StatusOf \in [Events -> Statuses]
    /\ OccurredAt \in [Events -> Nat \union {NoTime}]
    /\ NoTime \notin Nat
    /\ MaxTime \in Nat /\ MaxDeliveries \in Nat /\ MaxAborts \in Nat
    /\ None \notin Events

VARIABLES
    now,
    row,            \* the subject's row: the event it shows, its status and updated_at
    pc,             \* what each handler awaits
    event,          \* the event it serves
    previous,       \* the row as it read it
    deliveries,     \* how often each event was delivered
    answered,       \* the events answered with 200
    aborts,
    transitions,    \* history: writes that moved the row into past_due
    notified        \* history: payment-failed notifications

handlers == <<pc, event, previous>>
stripe == <<deliveries, answered>>
vars == <<now, row, handlers, stripe, aborts, transitions, notified>>

Points == {"idle", "upsert", "emit"}

NoRow == [event |-> None, status |-> "none", updatedAt |-> 0]

\* updated_at: event.occurredAt ?? isoNow()
Stamp_Missing(e) == OccurredAt[e]
Stamp(e) == IF OccurredAt[e] = NoTime THEN now ELSE OccurredAt[e]

RowOf(e) == [event |-> e, status |-> StatusOf[e], updatedAt |-> Stamp(e)]

Goto(h, point) == pc' = [pc EXCEPT ![h] = point]

\* The handler answers or throws.
Finish(h) ==
    /\ Goto(h, "idle")
    /\ event' = [event EXCEPT ![h] = None]
    /\ previous' = [previous EXCEPT ![h] = NoRow]

Answer(h, e) ==
    /\ answered' = answered \union {e}
    /\ Finish(h)

-----------------------------------------------------------------------------

Init ==
    /\ now = 0
    /\ row = NoRow
    /\ pc = [h \in Handlers |-> "idle"]
    /\ event = [h \in Handlers |-> None]
    /\ previous = [h \in Handlers |-> NoRow]
    /\ deliveries = [e \in Events |-> 0]
    /\ answered = {}
    /\ aborts = 0
    /\ transitions = 0
    /\ notified = 0

\* Stripe sends an event from when it occurred, and again until it is answered.
Deliverable(e) ==
    /\ OccurredAt[e] # NoTime => OccurredAt[e] <= now
    /\ e \in answered => deliveries[e] < MaxDeliveries

\* "drop a strictly older event"; without a timestamp on either side, apply.
Stale_Never(e) == FALSE
Stale(e) == row # NoRow /\ OccurredAt[e] # NoTime /\ OccurredAt[e] < row.updatedAt

\* A delivery arrives and findOne reads the row.
Receive(h, e) ==
    /\ pc[h] = "idle"
    /\ Deliverable(e)
    /\ ~Stale(e)
    /\ deliveries' = [deliveries EXCEPT ![e] = @ + 1]
    /\ event' = [event EXCEPT ![h] = e]
    /\ previous' = [previous EXCEPT ![h] = row]
    /\ Goto(h, "upsert")
    /\ UNCHANGED <<now, row, answered, aborts, transitions, notified>>

ReceiveStale(h, e) ==
    /\ pc[h] = "idle"
    /\ Deliverable(e)
    /\ Stale(e)
    /\ deliveries' = [deliveries EXCEPT ![e] = @ + 1]
    /\ answered' = answered \union {e}
    /\ UNCHANGED <<now, row, handlers, aborts, transitions, notified>>

\* upsert on the subject's column: one statement, whatever the row is by now.
Upsert(h) ==
    LET e == event[h]
    IN  /\ pc[h] = "upsert"
        /\ row' = RowOf(e)
        /\ transitions' = IF StatusOf[e] = "past_due" /\ row.status # "past_due"
                          THEN transitions + 1 ELSE transitions
        /\ Goto(h, "emit")
        /\ UNCHANGED <<now, event, previous, stripe, aborts, notified>>

\* onSubscriptionApplied: "fire only on the TRANSITION into past_due".
Transition_AnyPastDue(h) == StatusOf[event[h]] = "past_due"
Transition(h) == StatusOf[event[h]] = "past_due" /\ previous[h].status # "past_due"

\* emitSubscriptionEvent, and the answer of the webhook.
Emit(h) ==
    /\ pc[h] = "emit"
    /\ notified' = IF Transition(h) THEN notified + 1 ELSE notified
    /\ Answer(h, event[h])
    /\ UNCHANGED <<now, row, deliveries, aborts, transitions>>

\* An observer throws: the error is logged and the webhook answers 200.
EmitThrows(h) ==
    /\ pc[h] = "emit"
    /\ aborts < MaxAborts
    /\ aborts' = aborts + 1
    /\ Answer(h, event[h])
    /\ UNCHANGED <<now, row, deliveries, transitions, notified>>

\* The process dies or an adapter call throws: no 200, so Stripe sends it again.
Abort_Answered(h) ==
    /\ pc[h] # "idle"
    /\ aborts < MaxAborts
    /\ aborts' = aborts + 1
    /\ Answer(h, event[h])
    /\ UNCHANGED <<now, row, deliveries, transitions, notified>>
Abort(h) ==
    /\ pc[h] # "idle"
    /\ aborts < MaxAborts
    /\ aborts' = aborts + 1
    /\ Finish(h)
    /\ UNCHANGED <<now, row, stripe, transitions, notified>>

Tick ==
    /\ now < MaxTime
    /\ now' = now + 1
    /\ UNCHANGED <<row, handlers, stripe, aborts, transitions, notified>>

Deliver(e) == \E h \in Handlers : Receive(h, e) \/ ReceiveStale(h, e)

Serve(h) == Upsert(h) \/ Emit(h)

Next ==
    \/ \E e \in Events : Deliver(e)
    \/ \E h \in Handlers : Serve(h) \/ EmitThrows(h) \/ Abort(h)
    \/ Tick

Spec == Init /\ [][Next]_vars

\* A handler whose calls return gets to its answer; time passes; Stripe retries
\* an event that was not answered, at moments when the server is free.
FairSpec ==
    /\ Spec
    /\ WF_vars(Tick)
    /\ \A h \in Handlers : WF_vars(Serve(h))
    /\ \A e \in Events : SF_vars(e \notin answered /\ Deliver(e))

-----------------------------------------------------------------------------

Row == [event : Events \union {None}, status : Statuses \union {"none"}, updatedAt : Nat]

TypeOK ==
    /\ now \in Nat
    /\ row \in Row
    /\ pc \in [Handlers -> Points]
    /\ event \in [Handlers -> Events \union {None}]
    /\ previous \in [Handlers -> Row]
    /\ deliveries \in [Events -> Nat]
    /\ answered \in SUBSET Events
    /\ aborts \in Nat
    /\ transitions \in Nat
    /\ notified \in Nat

\* "a delayed `active` event can't overwrite a newer `canceled` one and re-grant
\* access": the row never goes back to what an older event says.
RowNeverOlder == [][row' # row => row'.updatedAt >= row.updatedAt]_vars

\* "Fire only on the TRANSITION into past_due (not every past_due event - a
\* replayed webhook must not re-notify)": no more notifications than moves.
\* There may be fewer: a delivery that dies behind its upsert notifies nobody.
NotifiedPerTransition == notified <= transitions

\* "each converging the one row": however deliveries are repeated, reordered and
\* lost, the row ends up at least as new as every event that says when it was.
ConvergesToLatest ==
    <>[](\A e \in Events : OccurredAt[e] # NoTime => row.updatedAt >= OccurredAt[e])
=============================================================================
