------------------------------- MODULE Charges -------------------------------
(***************************************************************************)
(* One-time payments of vike-stripe (purchase/payment.js): the webhook     *)
(* records a succeeded charge once per payment intent, by a find, an       *)
(* insert, and a second find when the insert throws.  Stripe delivers an   *)
(* event until a delivery was answered with 200, and several at once.      *)
(***************************************************************************)
EXTENDS Naturals, FiniteSets

CONSTANTS
    Handlers,       \* deliveries served at once
    Intents,
    MaxDeliveries,  \* bound on the deliveries of an event that was answered
    MaxFaults,      \* bound on calls that throw and handlers that die
    None

ChargeConstants ==
    /\ MaxDeliveries \in Nat /\ MaxFaults \in Nat
    /\ None \notin Intents

VARIABLES
    payments,   \* the rows of each intent, by the handler that inserted them
    pc,         \* what each handler awaits
    intent,     \* the charge it serves
    deliveries, \* how often each charge was delivered
    answered,   \* the charges Stripe got a 200 for
    faults,
    refused     \* history: deliveries that were answered with an error

vars == <<payments, pc, intent, deliveries, answered, faults, refused>>

Goto(h, point) == pc' = [pc EXCEPT ![h] = point]

Paid(i) == payments[i] # {}

Init ==
    /\ payments = [i \in Intents |-> {}]
    /\ pc = [h \in Handlers |-> "idle"]
    /\ intent = [h \in Handlers |-> None]
    /\ deliveries = [i \in Intents |-> 0]
    /\ answered = {}
    /\ faults = 0
    /\ refused = 0

-----------------------------------------------------------------------------

\* External: Stripe repeats what was not answered, and at times what was.
Deliver(h, i) ==
    /\ pc[h] = "idle"
    /\ i \in answered => deliveries[i] < MaxDeliveries
    /\ deliveries' = [deliveries EXCEPT ![i] = IF @ < MaxDeliveries THEN @ + 1 ELSE @]
    /\ intent' = [intent EXCEPT ![h] = i]
    /\ Goto(h, "find")
    /\ UNCHANGED <<payments, answered, faults, refused>>

\* { ok: true }, which the webhook answers with 200.
Ok(h) ==
    /\ answered' = answered \union {intent[h]}
    /\ Goto(h, "idle")
    /\ UNCHANGED <<intent, deliveries, faults, refused>>

\* An error, which it answers with 500.
Throw(h) ==
    /\ refused' = refused + 1
    /\ Goto(h, "idle")
    /\ UNCHANGED <<payments, intent, deliveries, answered>>

FindFirst(h) ==
    /\ pc[h] = "find"
    /\ IF Paid(intent[h]) THEN Ok(h)
       ELSE Goto(h, "insert") /\ UNCHANGED <<intent, deliveries, answered, faults, refused>>
    /\ UNCHANGED payments

\* Slip: the unique column is not declared.
Accepts_Twice(i) == TRUE

\* External: the database holds the column unique.
Accepts(i) == ~Paid(i)

Insert(h) ==
    /\ pc[h] = "insert"
    /\ Accepts(intent[h])
    /\ payments' = [payments EXCEPT ![intent[h]] = @ \union {h}]
    /\ Ok(h)

InsertConflicts(h) ==
    /\ pc[h] = "insert"
    /\ ~Accepts(intent[h])
    /\ Goto(h, "reread")
    /\ UNCHANGED <<payments, intent, deliveries, answered, faults, refused>>

\* The insert throws for another reason, having taken effect or not.
InsertFails(h) ==
    /\ pc[h] = "insert"
    /\ faults < MaxFaults
    /\ faults' = faults + 1
    /\ \/ /\ ~Paid(intent[h])
          /\ payments' = [payments EXCEPT ![intent[h]] = {h}]
       \/ UNCHANGED payments
    /\ Goto(h, "reread")
    /\ UNCHANGED <<intent, deliveries, answered, refused>>

\* Slip: no second find, the error is thrown on.
Reread_Not(h) ==
    /\ pc[h] = "reread"
    /\ Throw(h)
    /\ UNCHANGED faults

\* Slip: any error counts as a lost race.
Reread_Trusts(h) ==
    /\ pc[h] = "reread"
    /\ Ok(h)
    /\ UNCHANGED payments

Reread(h) ==
    /\ pc[h] = "reread"
    /\ IF Paid(intent[h]) THEN Ok(h) /\ UNCHANGED payments ELSE Throw(h) /\ UNCHANGED faults

\* A find throws, or the process dies: Stripe sees no 200.
Abort(h) ==
    /\ pc[h] # "idle"
    /\ faults < MaxFaults
    /\ faults' = faults + 1
    /\ Throw(h)

Step(h) == FindFirst(h) \/ Insert(h) \/ InsertConflicts(h) \/ Reread(h)

Next ==
    \E h \in Handlers :
        \/ Step(h) \/ InsertFails(h) \/ Abort(h)
        \/ \E i \in Intents : Deliver(h, i)

Spec == Init /\ [][Next]_vars

Redelivers(i) == i \notin answered /\ \E h \in Handlers : Deliver(h, i)

\* A handler whose calls return gets to its answer, and Stripe delivers an event
\* until it was answered: a busy server is free again and again, not always.
Fairness ==
    /\ \A h \in Handlers : WF_vars(Step(h))
    /\ \A i \in Intents : SF_vars(Redelivers(i))

FairSpec == Spec /\ Fairness

-----------------------------------------------------------------------------

TypeOK ==
    /\ payments \in [Intents -> SUBSET Handlers]
    /\ pc \in [Handlers -> {"idle", "find", "insert", "reread"}]
    /\ intent \in [Handlers -> Intents \union {None}]
    /\ deliveries \in [Intents -> 0 .. MaxDeliveries]
    /\ answered \subseteq Intents
    /\ faults \in 0 .. MaxFaults
    /\ refused \in Nat

\* "idempotent on the Stripe payment-intent id": a 200 means that the charge is
\* recorded, and it is recorded once.
RecordedOnce ==
    \A i \in Intents :
        /\ i \in answered => Paid(i)
        /\ Cardinality(payments[i]) <= 1

\* "the webhook stays idempotent (a 200) instead of surfacing the unique-violation
\* 500": a delivery is answered with an error only if a call failed or a process
\* died; losing the race to another delivery is no error.
RefusedOnlyOnFaults == refused <= faults

\* Every charge is recorded and answered in the end, however the deliveries collide.
EveryChargeRecorded == <>(\A i \in Intents : i \in answered /\ Paid(i))
=============================================================================
