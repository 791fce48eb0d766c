-------------------------- MODULE NotificationFeed --------------------------
(***************************************************************************)
(* The in-app feed of vike-notifications: notify() dispatches a job per    *)
(* channel, the job of the database channel inserts a row into the feed,   *)
(* and markRead marks the rows it found unread.  The jobs are run by a     *)
(* queue that keeps JobContract, so one that succeeded may run again.      *)
(***************************************************************************)
EXTENDS Naturals, Sequences, FiniteSets

CONSTANTS
    Users,
    Jobs,           \* a delivery by the database channel each
    MaxAttempts,    \* the maxAttempts that notify may be given; 3 by default
    Callers,        \* requests to mark a feed read
    None

FeedConstants == MaxAttempts \subseteq Nat /\ None \notin Users

VARIABLES
    phase, limit, runs, \* the queue
    notified,           \* the user each job is for
    inserted,           \* the jobs whose present run has inserted its row
    feed,               \* the notifications table, oldest first
    marking             \* each request: the user, and the ids it found unread

queue == <<phase, limit, runs>>
vars == <<queue, notified, inserted, feed, marking>>

\* To a channel an attempt that is lost is a run that ends before it has done anything,
\* and of no success is it told whether it was recorded.
Queue == INSTANCE JobContract WITH
    lost <- [j \in Jobs |-> 0],
    unsure <- {j \in Jobs : phase[j] = "done"},
    MayRefuse <- FALSE

Idle == [user |-> None, ids |-> {}]

Init ==
    /\ Queue!Init
    /\ notified = [j \in Jobs |-> None]
    /\ inserted = {}
    /\ feed = <<>>
    /\ marking = [c \in Callers |-> Idle]

\* notify: the channels' dispatches are independent of each other; the row carries
\* no more than the fields a channel routes on.
Notify(j, u, max) ==
    /\ Queue!Accept(j, max)
    /\ notified' = [notified EXCEPT ![j] = u]
    /\ UNCHANGED <<inserted, feed, marking>>

Start(j) == Queue!Run(j) /\ UNCHANGED <<notified, inserted, feed, marking>>

\* deliverHandler, databaseChannel.send
Delivered(j) == [job |-> j, owner |-> notified[j], read |-> FALSE]

InsertRow(j) ==
    /\ phase[j] = "running"
    /\ j \notin inserted
    /\ inserted' = inserted \union {j}
    /\ feed' = Append(feed, Delivered(j))
    /\ UNCHANGED <<queue, notified, marking>>

\* Slip: the insert is not awaited.
Succeed_Early(j) ==
    /\ Queue!Succeed(j)
    /\ inserted' = inserted \ {j}
    /\ UNCHANGED <<notified, feed, marking>>

Succeed(j) ==
    /\ j \in inserted
    /\ Queue!Succeed(j)
    /\ inserted' = inserted \ {j}
    /\ UNCHANGED <<notified, feed, marking>>

\* The insert threw, the worker died, or the success was not recorded or is taken back.
EndRun(j) ==
    /\ Queue!Requeue(j) \/ Queue!Reopen(j) \/ Queue!GiveUp(j)
    /\ inserted' = inserted \ {j}
    /\ UNCHANGED <<notified, feed, marking>>

Unread(u) == {n \in DOMAIN feed : feed[n].owner = u /\ ~feed[n].read}

\* markRead of everything: the ids of what is unread; of ids that the caller names:
\* these, whoever's they are.
FindUnread(c, u) ==
    /\ marking[c] = Idle
    /\ \E ids \in {Unread(u)} \union {{n} : n \in DOMAIN feed} :
        /\ ids # {}
        /\ marking' = [marking EXCEPT ![c] = [user |-> u, ids |-> ids]]
    /\ UNCHANGED <<queue, notified, inserted, feed>>

\* Slip: the update repeats the owner alone.
Marked_All(c) == {n \in DOMAIN feed : feed[n].owner = marking[c].user}
Marked(c) == {n \in marking[c].ids : feed[n].owner = marking[c].user}

Mark(c) ==
    /\ marking[c] # Idle
    /\ feed' = [n \in DOMAIN feed |-> [feed[n] EXCEPT !.read = @ \/ n \in Marked(c)]]
    /\ marking' = [marking EXCEPT ![c] = Idle]
    /\ UNCHANGED <<queue, notified, inserted>>

Next ==
    \/ \E j \in Jobs, u \in Users, max \in MaxAttempts : Notify(j, u, max)
    \/ \E j \in Jobs : Start(j) \/ InsertRow(j) \/ Succeed(j) \/ EndRun(j)
    \/ \E c \in Callers : Mark(c) \/ \E u \in Users : FindUnread(c, u)

Spec == Init /\ [][Next]_vars

-----------------------------------------------------------------------------

TypeOK ==
    /\ phase \in [Jobs -> {"absent", "pending", "running", "done", "failed"}]
    /\ limit \in [Jobs -> Nat]
    /\ runs \in [Jobs -> Nat]
    /\ notified \in [Jobs -> Users \union {None}]
    /\ inserted \subseteq Jobs
    /\ feed \in Seq([job : Jobs, owner : Users, read : BOOLEAN])
    /\ marking \in [Callers -> [user : Users \union {None}, ids : SUBSET (1 .. Len(feed))]]

Copies(j) == {n \in DOMAIN feed : feed[n].job = j}

\* A notification whose job is done is in its user's feed, whatever failed and ran
\* again, and a feed shows it at most as often as the job may run.
DoneIsInTheFeed ==
    \A j \in Jobs :
        /\ phase[j] = "done" => \E n \in Copies(j) : feed[n].owner = notified[j]
        /\ phase[j] # "absent" => Cardinality(Copies(j)) <= limit[j]

\* A notification becomes read only by a markRead of its owner that began when it was
\* there: one that arrives between the find and the update stays unread, and ids
\* that are another owner's are not marked.
ArrivalsStayUnread ==
    [][\A n \in DOMAIN feed' : feed'[n].read =>
        \/ n \in DOMAIN feed /\ feed[n].read
        \/ \E c \in Callers : n \in marking[c].ids /\ marking[c].user = feed'[n].owner]_vars
=============================================================================
