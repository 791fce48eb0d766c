------------------------------ MODULE PushSends ------------------------------
(***************************************************************************)
(* Web pushes (vike-push/index.js, vike-notifications-push): sendPush      *)
(* dispatches a send job per subscription of a user; the job carries the   *)
(* id of the subscription row only, and reads the row when it runs.  In    *)
(* between the browser may be handed to another user, who subscribes with  *)
(* the same endpoint, or the push service may give the endpoint up.        *)
(*                                                                         *)
(* The jobs are run by a queue that keeps JobContract.                     *)
(***************************************************************************)
EXTENDS Naturals, FiniteSets

CONSTANTS
    Users,
    Endpoints,      \* browsers, by the endpoint their push service gave them
    Ids,            \* of subscription rows
    Jobs,
    MaxAttempts,    \* the one limit that is used: {3} in the code
    Callers,        \* requests to save a subscription
    None

PushConstants == MaxAttempts \subseteq Nat /\ None \notin Users \union Endpoints \union Ids

VARIABLES
    phase, limit, runs, \* the queue
    task,           \* each job: the user it is for, and a subscription or none
    pc,             \* where the run of a job is
    todo,           \* subscriptions for which a run of the channel has yet to dispatch
    target,         \* the endpoint a send job has read
    rows,           \* the push_subscriptions table, by id
    used,           \* ids that were given out
    caller,         \* what each request awaits: the user, its endpoint, and whether a row was there
    gone,           \* external: endpoints the push service gave up, for good
    due,            \* history: subscriptions the last run of a channel job found
    sent,           \* history: pushes the service accepted: for whom, and to where
    bound,          \* history: the endpoints each user subscribed
    released        \* history: endpoints whose subscription was removed, for whom since

queue == <<phase, limit, runs>>
work == <<task, pc, todo, target, due>>
table == <<rows, used, bound, released>>
vars == <<queue, work, table, caller, gone, sent>>

\* To a send an attempt that is lost is a run that ends before it has done anything, and
\* of no success is it told whether it was recorded.
Queue == INSTANCE JobContract WITH
    lost <- [j \in Jobs |-> 0],
    unsure <- {j \in Jobs : phase[j] = "done"},
    MayRefuse <- FALSE

NoRow == [owner |-> None, endpoint |-> None]
NoTask == [user |-> None, id |-> None]
Idle == [user |-> None, endpoint |-> None, found |-> FALSE]

At(e) == {i \in Ids : rows[i].endpoint = e}
Without(S) == [i \in Ids |-> IF i \in S THEN NoRow ELSE rows[i]]
Goto(j, point) == pc' = [pc EXCEPT ![j] = point]

Init ==
    /\ Queue!Init
    /\ task = [j \in Jobs |-> NoTask]
    /\ pc = [j \in Jobs |-> "waiting"]
    /\ todo = [j \in Jobs |-> {}]
    /\ target = [j \in Jobs |-> None]
    /\ due = [j \in Jobs |-> {}]
    /\ rows = [i \in Ids |-> NoRow]
    /\ used = {}
    /\ caller = [c \in Callers |-> Idle]
    /\ gone = {}
    /\ sent = {}
    /\ bound = {}
    /\ released = {}

-----------------------------------------------------------------------------

\* Which of the unused jobs, rows and callers does not matter.
New(S) == CHOOSE x \in S : TRUE

Unused == {j \in Jobs : phase[j] = "absent"}

Dispatch(u, i, max) ==
    /\ Unused # {}
    /\ Queue!Accept(New(Unused), max)
    /\ task' = [task EXCEPT ![New(Unused)] = [user |-> u, id |-> i]]

\* notify, by the push channel: a job that looks the subscriptions up.
Notify(u, max) ==
    /\ Dispatch(u, None, max)
    /\ UNCHANGED <<pc, todo, target, due, table, caller, gone, sent>>

Start(j) ==
    /\ Queue!Run(j)
    /\ Goto(j, IF task[j].id = None THEN "fanout" ELSE "send")
    /\ UNCHANGED <<task, todo, target, due, table, caller, gone, sent>>

\* Slip: every subscription is looked up.
Addressed_Everyone(u) == {i \in Ids : rows[i] # NoRow}
Addressed(u) == {i \in Ids : rows[i].owner = u}

\* pushChannel.send, sendPush: find the user's rows,
FindSubscriptions(j) ==
    /\ pc[j] = "fanout"
    /\ todo' = [todo EXCEPT ![j] = Addressed(task[j].user)]
    /\ due' = [due EXCEPT ![j] = Addressed(task[j].user)]
    /\ Goto(j, "dispatch")
    /\ UNCHANGED <<queue, task, target, table, caller, gone, sent>>

\* and dispatch a job for each.
DispatchSend(j, i, max) ==
    /\ pc[j] = "dispatch"
    /\ i \in todo[j]
    /\ Dispatch(task[j].user, i, max)
    /\ todo' = [todo EXCEPT ![j] = @ \ {i}]
    /\ UNCHANGED <<pc, target, due, table, caller, gone, sent>>

\* Slip: Promise.all is not awaited.
DispatchedAll_NotAwaited(j) ==
    /\ pc[j] = "dispatch"
    /\ Goto(j, "succeeded")
    /\ UNCHANGED <<queue, task, todo, target, due, table, caller, gone, sent>>

DispatchedAll(j) ==
    /\ pc[j] = "dispatch"
    /\ todo[j] = {}
    /\ Goto(j, "succeeded")
    /\ UNCHANGED <<queue, task, todo, target, due, table, caller, gone, sent>>

\* Slip: a row that is not there is sent to.
FindSubscription_Unchecked(j) ==
    /\ pc[j] = "send"
    /\ target' = [target EXCEPT ![j] = rows[task[j].id].endpoint]
    /\ Goto(j, "sending")
    /\ UNCHANGED <<queue, task, todo, due, table, caller, gone, sent>>

\* sendHandler: the row as it is now; for a row that was removed there is nothing to
\* send.
FindSubscription(j) ==
    /\ pc[j] = "send"
    /\ target' = [target EXCEPT ![j] = rows[task[j].id].endpoint]
    /\ Goto(j, IF rows[task[j].id] = NoRow THEN "succeeded" ELSE "sending")
    /\ UNCHANGED <<queue, task, todo, due, table, caller, gone, sent>>

\* transport.send, to an endpoint that the push service still knows.
Send(j) ==
    /\ pc[j] = "sending"
    /\ target[j] \notin gone
    /\ sent' = sent \union {<<task[j].user, target[j]>>}
    /\ Goto(j, "succeeded")
    /\ UNCHANGED <<queue, task, todo, target, due, table, caller, gone>>

\* Slip: any failure counts as gone.
IsGone_Any(e) == TRUE
IsGone(e) == e \in gone

\* The error is flagged subscriptionGone: prune the endpoint, whoever's it is by now.
Prune(j) ==
    /\ pc[j] = "sending"
    /\ IsGone(target[j])
    /\ rows' = Without(At(target[j]))
    /\ Goto(j, "succeeded")
    /\ UNCHANGED <<queue, task, todo, target, due, used, bound, released, caller, gone, sent>>

Ended(j) ==
    /\ Goto(j, "waiting")
    /\ todo' = [todo EXCEPT ![j] = {}]
    /\ target' = [target EXCEPT ![j] = None]
    /\ UNCHANGED <<task, due, table, caller, gone, sent>>

Succeed(j) == pc[j] = "succeeded" /\ Queue!Succeed(j) /\ Ended(j)

\* Any other error of the transport, a dispatch that failed, a worker that died, or
\* a success that was not recorded or is taken back.
EndRun(j) == (Queue!Requeue(j) \/ Queue!Reopen(j) \/ Queue!GiveUp(j)) /\ Ended(j)

-----------------------------------------------------------------------------

\* saveSubscription: find the endpoint's row, then update or insert.
FindEndpoint(u, e) ==
    /\ e \notin gone
    /\ \E c \in Callers : caller[c] = Idle
    /\ caller' = [caller EXCEPT ![New({c \in Callers : caller[c] = Idle})] =
                    [user |-> u, endpoint |-> e, found |-> At(e) # {}]]
    /\ UNCHANGED <<queue, work, table, gone, sent>>

Bind(c, S) ==
    /\ rows' = [i \in Ids |-> IF i \in S THEN [owner |-> caller[c].user, endpoint |-> caller[c].endpoint]
                              ELSE rows[i]]
    /\ bound' = IF S = {} THEN bound ELSE bound \union {<<caller[c].user, caller[c].endpoint>>}
    /\ released' = IF S = {} THEN released ELSE released \ {<<caller[c].user, caller[c].endpoint>>}
    /\ caller' = [caller EXCEPT ![c] = Idle]
    /\ UNCHANGED <<queue, work, gone, sent>>

\* The update matches the endpoint's row, unless that was removed meanwhile.
Rebind(c) ==
    /\ caller[c].found
    /\ Bind(c, At(caller[c].endpoint))
    /\ UNCHANGED used

\* The endpoint's column is unique.
Insert(c) ==
    /\ caller[c] # Idle /\ ~caller[c].found
    /\ At(caller[c].endpoint) = {}
    /\ Ids \ used # {}
    /\ Bind(c, {New(Ids \ used)})
    /\ used' = used \union {New(Ids \ used)}

\* An endpoint inserted meanwhile, or any other error, or the process dies.
SaveFails(c) ==
    /\ caller[c] # Idle
    /\ caller' = [caller EXCEPT ![c] = Idle]
    /\ UNCHANGED <<queue, work, table, gone, sent>>

Sending(u, e) == \E j \in Jobs : pc[j] = "sending" /\ task[j].user = u /\ target[j] = e

RemoveSubscription(u, e) ==
    /\ \E i \in At(e) : rows[i].owner = u
    /\ rows' = Without({i \in At(e) : rows[i].owner = u})
    /\ released' = released \union {<<v, e>> : v \in {v \in Users : ~Sending(v, e)}}
    /\ UNCHANGED <<queue, work, used, bound, caller, gone, sent>>

Vanish(e) ==
    /\ e \notin gone
    /\ gone' = gone \union {e}
    /\ UNCHANGED <<queue, work, table, caller, sent>>

Next ==
    \/ \E u \in Users, max \in MaxAttempts : Notify(u, max)
    \/ \E j \in Jobs, i \in Ids, max \in MaxAttempts : DispatchSend(j, i, max)
    \/ \E j \in Jobs :
        \/ Start(j) \/ FindSubscriptions(j) \/ DispatchedAll(j) \/ FindSubscription(j)
        \/ Send(j) \/ Prune(j) \/ Succeed(j) \/ EndRun(j)
    \/ \E c \in Callers : Rebind(c) \/ Insert(c) \/ SaveFails(c)
    \/ \E e \in Endpoints : Vanish(e)
    \/ \E u \in Users, e \in Endpoints :
        RemoveSubscription(u, e) \/ FindEndpoint(u, e)

Spec == Init /\ [][Next]_vars

-----------------------------------------------------------------------------

TypeOK ==
    /\ task \in [Jobs -> [user : Users \union {None}, id : Ids \union {None}]]
    /\ pc \in [Jobs -> {"waiting", "fanout", "dispatch", "send", "sending", "succeeded"}]
    /\ todo \in [Jobs -> SUBSET Ids] /\ due \in [Jobs -> SUBSET Ids]
    /\ target \in [Jobs -> Endpoints \union {None}]
    /\ rows \in [Ids -> [owner : Users, endpoint : Endpoints] \union {NoRow}]
    /\ caller \in [Callers -> [user : Users, endpoint : Endpoints, found : BOOLEAN] \union {Idle}]
    /\ gone \subseteq Endpoints
    /\ sent \subseteq Users \X Endpoints
    /\ bound \subseteq Users \X Endpoints
    /\ released \subseteq Users \X Endpoints

\* A push for a user goes to browsers that the user has subscribed and to no other,
\* although a job carries no more than a row's id, rows change their owner, and a row
\* is read when the job runs.  And "clients should call unsubscribe() on logout to
\* release the endpoint": once a browser's subscription was removed, no push that was
\* on its way for anyone, queued or found, is sent there, whoever subscribes the
\* browser next, until its addressee does; only a send that had read the row goes on.
\* (Without the removal it is sent: a browser that is bound to another user still gets
\* the pushes that were queued for the one before.)
OnlySubscribedBrowsers ==
    /\ sent \subseteq bound
    /\ \A j \in Jobs : pc[j] = "sending" => <<task[j].user, target[j]>> \notin released

\* "one bad endpoint does not block the others": once a push's job is done, and so is
\* the send job of a subscription it found, that subscription was sent to, or is no
\* more.
DoneReachesEveryBrowser ==
    \A j \in Jobs : phase[j] = "done" /\ task[j].id = None =>
        \A i \in due[j] :
            \E k \in Jobs :
                /\ task[k] = [user |-> task[j].user, id |-> i]
                /\ phase[k] = "done" /\ rows[i] # NoRow => <<task[k].user, rows[i].endpoint>> \in sent

\* A subscription disappears because its owner removed it or because its endpoint is
\* gone: what a send that began for a former owner prunes is of no use to the new
\* owner either.
PrunesOnlyTheGone ==
    [][\A i \in Ids :
        rows[i] # NoRow /\ rows'[i] = NoRow =>
            rows[i].endpoint \in gone \/ RemoveSubscription(rows[i].owner, rows[i].endpoint)]_vars
=============================================================================
