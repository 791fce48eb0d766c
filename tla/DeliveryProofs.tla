---------------------------- MODULE DeliveryProofs ----------------------------
(***************************************************************************)
(* Proofs about what is delivered to a user: the feed of                   *)
(* vike-notifications and the sends of vike-push, for every number of      *)
(* users, jobs, callers and browsers.                                      *)
(***************************************************************************)
EXTENDS Packages, Sequences, FiniteSetTheorems, TLAPS

(***************************************************************************)
(* vike-notifications: what is done is in the feed.                        *)
(***************************************************************************)

FeedRow == [job : Jobs, owner : Users, read : BOOLEAN]

(***************************************************************************)
(* A row of the feed is for the user of its job; a run that has inserted,  *)
(* and a job that is done, have left one.                                  *)
(***************************************************************************)
RowsAreDelivered ==
    /\ \A n \in DOMAIN feed :
            feed[n].owner = notified[feed[n].job] /\ feedPhase[feed[n].job] # "absent"
    /\ \A j \in Jobs : feedPhase[j] # "absent" => notified[j] \in Users
    /\ \A j \in inserted : feedPhase[j] = "running"
    /\ \A j \in Jobs : j \in inserted \/ feedPhase[j] = "done" => Feed!Copies(j) # {}

(***************************************************************************)
(* Of each run at most one row is left, and a run that has not inserted    *)
(* yet has one to come.                                                    *)
(***************************************************************************)
ToCome(j) == IF feedPhase[j] = "running" /\ j \notin inserted THEN 1 ELSE 0

RunsCoverRows ==
    \A j \in Jobs :
        /\ Cardinality(Feed!Copies(j)) + ToCome(j) <= feedRuns[j]
        /\ feedRuns[j] <= feedLimit[j]
        /\ feedPhase[j] = "absent" => feedRuns[j] = 0

FeedInv == Feed!TypeOK /\ RowsAreDelivered /\ RunsCoverRows

LEMMA CopiesAreFinite ==
    ASSUME feed \in Seq(FeedRow), NEW j \in Jobs
    PROVE  IsFiniteSet(Feed!Copies(j)) /\ Cardinality(Feed!Copies(j)) \in Nat
<1>1. DOMAIN feed = 1 .. Len(feed) /\ Len(feed) \in Nat
  OBVIOUS
<1>2. IsFiniteSet(1 .. Len(feed))
  BY <1>1, FS_Interval
<1>3. Feed!Copies(j) \subseteq 1 .. Len(feed)
  BY <1>1 DEF Feed!Copies
<1>4. QED
  BY <1>2, <1>3, FS_Subset, FS_CardinalityType

(***************************************************************************)
(* The insert adds a row of its own job.                                   *)
(***************************************************************************)
LEMMA InsertAddsACopy ==
    ASSUME feed \in Seq(FeedRow), NEW j \in Jobs, NEW row \in FeedRow, row.job = j,
           feed' = Append(feed, row)
    PROVE  /\ feed' \in Seq(FeedRow) /\ 1 .. Len(feed) \subseteq 1 .. Len(feed')
           /\ \A n \in DOMAIN feed' : (n \in DOMAIN feed /\ feed'[n] = feed[n]) \/ feed'[n] = row
           /\ \A k \in Jobs \ {j} : Feed!Copies(k)' = Feed!Copies(k)
           /\ Feed!Copies(j)' # {}
           /\ Cardinality(Feed!Copies(j)') = Cardinality(Feed!Copies(j)) + 1
<1>1. /\ feed' \in Seq(FeedRow) /\ Len(feed') = Len(feed) + 1 /\ Len(feed) \in Nat
      /\ DOMAIN feed = 1 .. Len(feed) /\ DOMAIN feed' = 1 .. (Len(feed) + 1)
      /\ \A n \in 1 .. Len(feed) : feed'[n] = feed[n]
      /\ feed'[Len(feed) + 1] = row
  OBVIOUS
<1>2. Feed!Copies(j)' = Feed!Copies(j) \union {Len(feed) + 1} /\ Len(feed) + 1 \notin Feed!Copies(j)
  BY <1>1 DEF Feed!Copies
<1>3. \A k \in Jobs \ {j} : Feed!Copies(k)' = Feed!Copies(k)
  BY <1>1 DEF Feed!Copies
<1>4. Cardinality(Feed!Copies(j)') = Cardinality(Feed!Copies(j)) + 1
  BY <1>2, CopiesAreFinite, FS_AddElement
<1>5. QED
  BY <1>1, <1>2, <1>3, <1>4

(***************************************************************************)
(* markRead changes nothing of a row but whether it is read.               *)
(***************************************************************************)
LEMMA MarkKeepsRows ==
    ASSUME feed \in Seq(FeedRow), NEW c \in Callers, Feed!Mark(c)
    PROVE  /\ feed' \in Seq(FeedRow) /\ DOMAIN feed' = DOMAIN feed /\ Len(feed') = Len(feed)
           /\ \A n \in DOMAIN feed : feed'[n].job = feed[n].job /\ feed'[n].owner = feed[n].owner
<1> DEFINE row(n) == [feed[n] EXCEPT !.read = @ \/ n \in Feed!Marked(c)]
<1>1. feed' = [n \in 1 .. Len(feed) |-> row(n)] /\ Len(feed) \in Nat /\ DOMAIN feed = 1 .. Len(feed)
  BY DEF Feed!Mark
<1>2. ASSUME NEW n \in 1 .. Len(feed)
      PROVE  row(n) \in FeedRow /\ row(n).job = feed[n].job /\ row(n).owner = feed[n].owner
  <2>1. feed[n] \in FeedRow
    OBVIOUS
  <2>2. (feed[n].read \/ n \in Feed!Marked(c)) \in BOOLEAN
    OBVIOUS
  <2>3. QED
    BY <2>1, <2>2 DEF FeedRow
<1>3. feed' \in Seq(FeedRow) /\ Len(feed') = Len(feed)
  <2> HIDE DEF row
  <2>1. QED
    BY <1>1, <1>2
<1>4. QED
  BY <1>1, <1>2, <1>3

LEMMA FeedStep ==
    ASSUME Feed!FeedConstants, FeedInv, [Feed!Next]_(Feed!vars)
    PROVE  FeedInv'
<1> USE DEF FeedInv, Feed!FeedConstants
<1>1. \A j \in Jobs : Cardinality(Feed!Copies(j)) \in Nat
  BY CopiesAreFinite DEF Feed!TypeOK, FeedRow
<1>2. ASSUME UNCHANGED feed
      PROVE  \A j \in Jobs : Feed!Copies(j)' = Feed!Copies(j)
  BY <1>2 DEF Feed!Copies
<1>3. ASSUME NEW j \in Jobs, NEW u \in Users, NEW max \in FeedAttempts, Feed!Notify(j, u, max)
      PROVE  FeedInv'
  <2>1. /\ feedPhase[j] = "absent" /\ feedPhase' = [feedPhase EXCEPT ![j] = "pending"]
        /\ feedLimit' = [feedLimit EXCEPT ![j] = IF max = 0 THEN 1 ELSE max]
        /\ notified' = [notified EXCEPT ![j] = u]
        /\ UNCHANGED <<feedRuns, inserted, feed, marking>>
    BY <1>3 DEF Feed!Notify, Feed!Queue!Accept, Feed!Queue!Move
  <2>2. Feed!TypeOK'
    BY <2>1 DEF Feed!TypeOK
  <2>3. RowsAreDelivered'
    BY <1>2, <2>1 DEF RowsAreDelivered, Feed!TypeOK
  <2>4. RunsCoverRows'
    BY <1>1, <1>2, <2>1 DEF RunsCoverRows, ToCome, Feed!TypeOK
  <2>5. QED
    BY <2>2, <2>3, <2>4
<1>4. ASSUME NEW j \in Jobs, Feed!Start(j)
      PROVE  FeedInv'
  <2>1. /\ feedPhase[j] = "pending" /\ feedPhase' = [feedPhase EXCEPT ![j] = "running"]
        /\ feedRuns[j] < feedLimit[j] /\ feedRuns' = [feedRuns EXCEPT ![j] = @ + 1]
        /\ UNCHANGED <<feedLimit, notified, inserted, feed, marking>>
    <3>1. feedRuns[j] + [k \in Jobs |-> 0][j] < feedLimit[j]
      BY <1>4 DEF Feed!Start, Feed!Queue!Run, Feed!Queue!AttemptsLeft
    <3>2. feedRuns[j] < feedLimit[j]
      <4>1. [k \in Jobs |-> 0][j] = 0 /\ feedRuns[j] \in Nat /\ feedLimit[j] \in Nat
        BY DEF Feed!TypeOK
      <4> QED
        BY <3>1, <4>1
    <3> QED
      BY <1>4, <3>2 DEF Feed!Start, Feed!Queue!Run, Feed!Queue!Move
  <2>2. Feed!TypeOK'
    BY <2>1 DEF Feed!TypeOK
  <2>3. RowsAreDelivered'
    BY <1>2, <2>1 DEF RowsAreDelivered, Feed!TypeOK
  <2>4. RunsCoverRows'
    BY <1>1, <1>2, <2>1 DEF RunsCoverRows, ToCome, Feed!TypeOK
  <2>5. QED
    BY <2>2, <2>3, <2>4
<1>5. ASSUME NEW j \in Jobs, Feed!InsertRow(j)
      PROVE  FeedInv'
  <2> DEFINE row == Feed!Delivered(j)
  <2>1. /\ feedPhase[j] = "running" /\ j \notin inserted /\ inserted' = inserted \union {j}
        /\ feed' = Append(feed, row)
        /\ UNCHANGED <<feedPhase, feedLimit, feedRuns, notified, marking>>
    BY <1>5 DEF Feed!InsertRow, Feed!queue
  <2>2. row \in FeedRow /\ row.job = j /\ row.owner = notified[j]
    BY <2>1 DEF Feed!Delivered, FeedRow, RowsAreDelivered
  <2>3. /\ feed' \in Seq(FeedRow) /\ 1 .. Len(feed) \subseteq 1 .. Len(feed')
        /\ \A n \in DOMAIN feed' : (n \in DOMAIN feed /\ feed'[n] = feed[n]) \/ feed'[n] = row
        /\ \A k \in Jobs \ {j} : Feed!Copies(k)' = Feed!Copies(k)
        /\ Feed!Copies(j)' # {}
        /\ Cardinality(Feed!Copies(j)') = Cardinality(Feed!Copies(j)) + 1
    <3> HIDE DEF row
    <3>1. feed \in Seq(FeedRow)
      BY DEF Feed!TypeOK, FeedRow
    <3>2. QED
      BY <2>1, <2>2, <3>1, InsertAddsACopy
  <2> HIDE DEF row
  <2>4. Feed!TypeOK'
    BY <2>1, <2>3 DEF Feed!TypeOK, FeedRow
  <2>5. RowsAreDelivered'
    BY <2>1, <2>2, <2>3 DEF RowsAreDelivered
  <2>6. RunsCoverRows'
    BY <1>1, <2>1, <2>3 DEF RunsCoverRows, ToCome, Feed!TypeOK
  <2>7. QED
    BY <2>4, <2>5, <2>6
<1>6. ASSUME NEW j \in Jobs, Feed!Succeed(j) \/ Feed!EndRun(j)
      PROVE  FeedInv'
  <2>1. PICK end \in {"done", "pending", "failed"} :
            /\ feedPhase[j] # "absent" /\ feedPhase' = [feedPhase EXCEPT ![j] = end]
            /\ end = "done" => j \in inserted
    BY <1>6 DEF Feed!Succeed, Feed!EndRun, Feed!Queue!Succeed, Feed!Queue!Requeue,
       Feed!Queue!Reopen, Feed!Queue!GiveUp, Feed!Queue!Move
  <2>2. inserted' = inserted \ {j} /\ UNCHANGED <<feedLimit, feedRuns, notified, feed, marking>>
    BY <1>6 DEF Feed!Succeed, Feed!EndRun, Feed!Queue!Succeed, Feed!Queue!Requeue,
       Feed!Queue!Reopen, Feed!Queue!GiveUp, Feed!Queue!Move
  <2>3. Feed!TypeOK'
    BY <2>1, <2>2 DEF Feed!TypeOK
  <2>4. RowsAreDelivered'
    BY <1>2, <2>1, <2>2 DEF RowsAreDelivered, Feed!TypeOK
  <2>5. RunsCoverRows'
    BY <1>1, <1>2, <2>1, <2>2 DEF RunsCoverRows, ToCome, Feed!TypeOK
  <2>6. QED
    BY <2>3, <2>4, <2>5
<1>7. ASSUME NEW c \in Callers, NEW u \in Users, Feed!FindUnread(c, u)
      PROVE  FeedInv'
  <2>1. PICK ids \in {Feed!Unread(u)} \union {{n} : n \in DOMAIN feed} :
            marking' = [marking EXCEPT ![c] = [user |-> u, ids |-> ids]]
    BY <1>7 DEF Feed!FindUnread
  <2>2. ids \subseteq 1 .. Len(feed)
    BY DEF Feed!Unread, Feed!TypeOK
  <2>3. UNCHANGED <<feedPhase, feedLimit, feedRuns, notified, inserted, feed>>
    BY <1>7 DEF Feed!FindUnread, Feed!queue
  <2>4. Feed!TypeOK'
    BY <2>1, <2>2, <2>3 DEF Feed!TypeOK
  <2>5. QED
    BY <1>2, <2>3, <2>4 DEF RowsAreDelivered, RunsCoverRows, ToCome
<1>8. ASSUME NEW c \in Callers, Feed!Mark(c)
      PROVE  FeedInv'
  <2>1. /\ marking' = [marking EXCEPT ![c] = Feed!Idle]
        /\ UNCHANGED <<feedPhase, feedLimit, feedRuns, notified, inserted>>
    BY <1>8 DEF Feed!Mark, Feed!queue
  <2>2. /\ feed' \in Seq(FeedRow) /\ DOMAIN feed' = DOMAIN feed /\ Len(feed') = Len(feed)
        /\ \A n \in DOMAIN feed : feed'[n].job = feed[n].job /\ feed'[n].owner = feed[n].owner
    BY <1>8, MarkKeepsRows DEF Feed!TypeOK, FeedRow
  <2>3. \A j \in Jobs : Feed!Copies(j)' = Feed!Copies(j)
    BY <2>2 DEF Feed!Copies
  <2>4. Feed!TypeOK'
    BY <2>1, <2>2 DEF Feed!TypeOK, FeedRow, Feed!Idle
  <2>5. QED
    BY <2>1, <2>2, <2>3, <2>4 DEF RowsAreDelivered, RunsCoverRows, ToCome
<1>9. ASSUME UNCHANGED Feed!vars
      PROVE  FeedInv'
  BY <1>2, <1>9 DEF Feed!vars, Feed!queue, Feed!TypeOK, RowsAreDelivered, RunsCoverRows, ToCome
<1>10. QED
  BY <1>3, <1>4, <1>5, <1>6, <1>7, <1>8, <1>9 DEF Feed!Next

\* The one the component sees, and the one of the theorems about finite sets.
LEMMA SameCardinality == ASSUME NEW S PROVE Feed!Cardinality(S) = Cardinality(S)
BY Zenon DEF Feed!Cardinality, Cardinality

LEMMA FeedInvariant == ASSUME Feed!FeedConstants PROVE Feed!Spec => []FeedInv
<1>1. Feed!Init => FeedInv
  <2> SUFFICES ASSUME Feed!Init
               PROVE  FeedInv
    OBVIOUS
  <2>1. feed = <<>> /\ \A j \in Jobs : Feed!Copies(j) = {}
    BY DEF Feed!Init, Feed!Copies
  <2>2. Feed!TypeOK
    BY DEF Feed!Init, Feed!Queue!Init, Feed!TypeOK, Feed!Idle
  <2>3. RowsAreDelivered
    BY <2>1 DEF Feed!Init, Feed!Queue!Init, RowsAreDelivered
  <2>4. RunsCoverRows
    <3> SUFFICES ASSUME NEW j \in Jobs
                 PROVE  /\ Cardinality(Feed!Copies(j)) + ToCome(j) <= feedRuns[j]
                        /\ feedRuns[j] <= feedLimit[j]
                        /\ feedPhase[j] = "absent" => feedRuns[j] = 0
      BY DEF RunsCoverRows
    <3>1. feedPhase[j] = "absent" /\ feedLimit[j] = 0 /\ feedRuns[j] = 0
      BY DEF Feed!Init, Feed!Queue!Init
    <3>2. Cardinality(Feed!Copies(j)) = 0 /\ ToCome(j) = 0
      BY <2>1, <3>1, FS_EmptySet DEF ToCome
    <3>3. QED
      BY <3>1, <3>2
  <2>5. QED
    BY <2>2, <2>3, <2>4 DEF FeedInv
<1>2. Feed!FeedConstants /\ FeedInv /\ [Feed!Next]_(Feed!vars) => FeedInv'
  BY FeedStep
<1>3. QED
  BY <1>1, <1>2, PTL DEF Feed!Spec

(***************************************************************************)
(* A notification whose job is done is in its user's feed, whatever failed *)
(* and ran again, and a feed shows it at most as often as its job may run. *)
(***************************************************************************)
THEOREM DoneNotificationsAreInTheFeed ==
    ASSUME Feed!FeedConstants PROVE Feed!Spec => []Feed!DoneIsInTheFeed
<1>1. FeedInv => Feed!DoneIsInTheFeed
  <2> SUFFICES ASSUME FeedInv, NEW j \in Jobs
               PROVE  /\ feedPhase[j] = "done" =>
                            \E n \in Feed!Copies(j) : feed[n].owner = notified[j]
                      /\ feedPhase[j] # "absent" => Cardinality(Feed!Copies(j)) <= feedLimit[j]
    BY SameCardinality DEF Feed!DoneIsInTheFeed
  <2>1. Cardinality(Feed!Copies(j)) \in Nat /\ feedRuns[j] \in Nat /\ feedLimit[j] \in Nat
    BY CopiesAreFinite DEF FeedInv, Feed!TypeOK, FeedRow
  <2>2. \A n \in Feed!Copies(j) : feed[n].owner = notified[j]
    BY DEF FeedInv, RowsAreDelivered, Feed!Copies
  <2>3. QED
    BY <2>1, <2>2 DEF FeedInv, RowsAreDelivered, RunsCoverRows, ToCome
<1>2. QED
  BY <1>1, FeedInvariant, PTL

(***************************************************************************)
(* markRead finds what is unread and marks it in a second statement: what  *)
(* arrived in between stays unread, and ids of another owner's             *)
(* notifications are not marked.                                           *)
(***************************************************************************)
THEOREM MarkingSparesArrivals ==
    ASSUME Feed!FeedConstants PROVE Feed!Spec => Feed!ArrivalsStayUnread
<1> DEFINE Spared(n) ==
        \/ n \in DOMAIN feed /\ feed[n].read
        \/ \E c \in Callers : n \in marking[c].ids /\ marking[c].user = feed'[n].owner
           Spares == \A n \in DOMAIN feed' : feed'[n].read => Spared(n)
<1>1. ASSUME FeedInv, NEW j \in Jobs, Feed!InsertRow(j) PROVE Spares
  <2>1. /\ feed' = Append(feed, Feed!Delivered(j)) /\ Feed!Delivered(j).read = FALSE
        /\ feed \in Seq(FeedRow)
    BY <1>1 DEF Feed!InsertRow, Feed!Delivered, FeedInv, Feed!TypeOK, FeedRow
  <2> HIDE DEF Spared
  <2>2. ASSUME NEW n \in DOMAIN feed', feed'[n].read PROVE n \in DOMAIN feed /\ feed[n].read
    BY <2>1, <2>2
  <2> QED
    BY <2>2 DEF Spared
<1>2. ASSUME FeedInv, NEW c \in Callers, Feed!Mark(c) PROVE Spares
  <2>1. /\ feed' = [n \in DOMAIN feed |-> [feed[n] EXCEPT !.read = @ \/ n \in Feed!Marked(c)]]
        /\ \A n \in DOMAIN feed : feed[n] \in FeedRow
    <3>1. feed \in Seq(FeedRow)
      BY <1>2 DEF FeedInv, Feed!TypeOK, FeedRow
    <3>2. \A n \in DOMAIN feed : feed[n] \in FeedRow
      BY <3>1
    <3> QED
      BY <1>2, <3>2 DEF Feed!Mark
  <2>2. ASSUME NEW n \in DOMAIN feed', feed'[n].read PROVE Spared(n)
    <3>1. /\ n \in DOMAIN feed /\ feed'[n].owner = feed[n].owner
          /\ feed[n].read \/ n \in Feed!Marked(c)
      BY <2>1, <2>2 DEF FeedRow
    <3>2. n \in Feed!Marked(c) => n \in marking[c].ids /\ marking[c].user = feed'[n].owner
      BY <3>1 DEF Feed!Marked
    <3> QED
      BY <1>2, <3>1, <3>2
  <2> QED
    BY <2>2
<1>3. ASSUME UNCHANGED feed PROVE Spares
  BY <1>3
<1> HIDE DEF Spares
<1>4. FeedInv /\ [Feed!Next]_(Feed!vars) => [Spares]_(Feed!vars)
  <2> SUFFICES ASSUME FeedInv, Feed!Next PROVE Spares
    OBVIOUS
  <2>1. ASSUME NEW j \in Jobs, NEW u \in Users, NEW max \in FeedAttempts, Feed!Notify(j, u, max)
        PROVE  UNCHANGED feed
    BY <2>1 DEF Feed!Notify
  <2>2. ASSUME NEW j \in Jobs, Feed!Start(j) \/ Feed!Succeed(j) \/ Feed!EndRun(j)
        PROVE  UNCHANGED feed
    BY <2>2 DEF Feed!Start, Feed!Succeed, Feed!EndRun
  <2>3. ASSUME NEW c \in Callers, NEW u \in Users, Feed!FindUnread(c, u)
        PROVE  UNCHANGED feed
    BY <2>3 DEF Feed!FindUnread
  <2> QED
    BY <1>1, <1>2, <1>3, <2>1, <2>2, <2>3 DEF Feed!Next
<1> QED
  BY <1>4, FeedInvariant, PTL DEF Feed!Spec, Feed!ArrivalsStayUnread, Spares


-----------------------------------------------------------------------------
(***************************************************************************)
(* vike-push: a push goes to browsers its user has subscribed.             *)
(***************************************************************************)

PushTyped ==
    /\ Push!TypeOK
    /\ pushPhase \in [Jobs -> {"absent", "pending", "running", "done", "failed"}]
    /\ used \subseteq Subscribed

(***************************************************************************)
(* A row that is there was given out, and its owner has subscribed its     *)
(* endpoint.                                                               *)
(***************************************************************************)
RowsAreBound ==
    \A i \in Subscribed : pushRows[i] # Push!NoRow =>
        i \in used /\ <<pushRows[i].owner, pushRows[i].endpoint>> \in bound

(***************************************************************************)
(* What user u may be sent by way of row i: ids are not given out again,   *)
(* and a row keeps its endpoint, so that the row may be another user's by  *)
(* now, but its endpoint is one that u has subscribed.                     *)
(***************************************************************************)
Reaches(u, i) == i \in used /\ (pushRows[i] # Push!NoRow => <<u, pushRows[i].endpoint>> \in bound)

JobsReachTheirUsers ==
    \A j \in Jobs :
        /\ pushPhase[j] = "absent" => pushPc[j] = "waiting" /\ todo[j] = {}
        /\ pushPhase[j] # "absent" => task[j].user \in Users
        /\ pushPhase[j] # "absent" /\ task[j].id # None => Reaches(task[j].user, task[j].id)
        /\ pushPc[j] = "send" => task[j].id # None
        /\ \A i \in todo[j] : Reaches(task[j].user, i)
        /\ pushPc[j] = "sending" => <<task[j].user, target[j]>> \in bound

PushInv == PushTyped /\ RowsAreBound /\ JobsReachTheirUsers /\ sent \subseteq bound

LEMMA SomeOfThem == ASSUME NEW S, S # {} PROVE Push!New(S) \in S
BY DEF Push!New

(***************************************************************************)
(* A new job is for a user of whom it may read the row it names.           *)
(***************************************************************************)
LEMMA PushDispatched ==
    ASSUME Push!PushConstants, PushInv,
           NEW u \in Users, NEW i \in Subscribed \union {None}, NEW max \in PushAttempts,
           i # None => Reaches(u, i),
           Push!Dispatch(u, i, max),
           NEW done \in [Jobs -> SUBSET Subscribed], todo' = done,
           \A j \in Jobs : done[j] \subseteq todo[j],
           UNCHANGED <<pushPc, target, due, pushRows, used, bound, released, caller, gone, sent>>
    PROVE  PushInv'
<1> DEFINE k == Push!New(Push!Unused)
<1>1. k \in Jobs /\ pushPhase[k] = "absent"
  BY SomeOfThem DEF Push!Dispatch, Push!Unused
<1>2. pushPhase' = [pushPhase EXCEPT ![k] = "pending"] /\ task' = [task EXCEPT ![k] = [user |-> u, id |-> i]]
  BY DEF Push!Dispatch, Push!Queue!Accept, Push!Queue!Move
<1> HIDE DEF k
<1>3. PushTyped'
  BY <1>1, <1>2 DEF PushInv, PushTyped, Push!TypeOK
<1>4. \A v, n : Reaches(v, n)' <=> Reaches(v, n)
  BY DEF Reaches, Push!NoRow
<1>5. RowsAreBound'
  BY DEF PushInv, RowsAreBound, Push!NoRow
<1>6. ASSUME NEW j \in Jobs, j # k
      PROVE  task'[j] = task[j] /\ pushPhase'[j] = pushPhase[j]
  BY <1>1, <1>2, <1>6 DEF PushInv, PushTyped, Push!TypeOK
<1>7. /\ task'[k] = [user |-> u, id |-> i] /\ pushPhase'[k] = "pending" /\ pushPc'[k] = "waiting"
      /\ todo'[k] = {}
  BY <1>1, <1>2 DEF PushInv, PushTyped, Push!TypeOK, JobsReachTheirUsers
<1>8. JobsReachTheirUsers'
  <2> SUFFICES ASSUME NEW j \in Jobs
               PROVE  (/\ pushPhase[j] = "absent" => pushPc[j] = "waiting" /\ todo[j] = {}
                       /\ pushPhase[j] # "absent" => task[j].user \in Users
                       /\ pushPhase[j] # "absent" /\ task[j].id # None => Reaches(task[j].user, task[j].id)
                       /\ pushPc[j] = "send" => task[j].id # None
                       /\ \A n \in todo[j] : Reaches(task[j].user, n)
                       /\ pushPc[j] = "sending" => <<task[j].user, target[j]>> \in bound)'
    BY DEF JobsReachTheirUsers
  <2>1. CASE j = k
    BY <1>4, <1>7, <2>1
  <2>2. CASE j # k
    BY <1>4, <1>6, <2>2 DEF PushInv, JobsReachTheirUsers
  <2>3. QED
    BY <2>1, <2>2
<1>9. QED
  BY <1>3, <1>5, <1>8 DEF PushInv

(***************************************************************************)
(* The steps of a run, which leave the table and the tasks.                *)
(***************************************************************************)
LEMMA PushRunStep ==
    ASSUME Push!PushConstants, PushInv, NEW j \in Jobs,
           \/ Push!Start(j) \/ Push!FindSubscriptions(j) \/ Push!DispatchedAll(j)
           \/ Push!FindSubscription(j) \/ Push!Send(j) \/ Push!Succeed(j) \/ Push!EndRun(j)
    PROVE  PushInv'
<1> USE DEF PushInv
<1>1. UNCHANGED <<task, pushRows, used, bound, released, caller, gone>>
  BY DEF Push!Start, Push!FindSubscriptions, Push!DispatchedAll, Push!FindSubscription, Push!Send,
     Push!Succeed, Push!EndRun, Push!Ended, Push!table
<1>2. RowsAreBound' /\ \A v, n : Reaches(v, n)' <=> Reaches(v, n)
  BY <1>1 DEF RowsAreBound, Reaches, Push!NoRow
<1>3. pushPc[j] = "fanout" => \A i \in Push!Addressed(task[j].user) : Reaches(task[j].user, i)
  <2> SUFFICES ASSUME pushPc[j] = "fanout", NEW i \in Push!Addressed(task[j].user)
               PROVE  Reaches(task[j].user, i)
    OBVIOUS
  <2>1. task[j].user \in Users /\ i \in Subscribed /\ pushRows[i].owner = task[j].user
    BY DEF Push!Addressed, JobsReachTheirUsers
  <2>2. pushRows[i] # Push!NoRow
    BY <2>1 DEF Push!NoRow, Push!PushConstants
  <2>3. QED
    BY <2>1, <2>2 DEF Reaches, RowsAreBound
<1>4. CASE Push!Start(j)
  BY <1>1, <1>2, <1>4 DEF Push!Start, Push!Queue!Run, Push!Queue!Move, Push!Goto, PushTyped, Push!TypeOK,
     JobsReachTheirUsers
<1>5. CASE Push!FindSubscriptions(j)
  <2>1. Push!Addressed(task[j].user) \subseteq Subscribed
    BY DEF Push!Addressed
  <2>2. QED
    BY <1>1, <1>2, <1>3, <1>5, <2>1 DEF Push!FindSubscriptions, Push!Goto, Push!queue, PushTyped,
       Push!TypeOK,
       JobsReachTheirUsers
<1>6. CASE Push!DispatchedAll(j)
  BY <1>1, <1>2, <1>6 DEF Push!DispatchedAll, Push!Goto, Push!queue, PushTyped, Push!TypeOK,
     JobsReachTheirUsers
<1>7. CASE Push!FindSubscription(j)
  <2>1. task[j].id \in Subscribed /\ Reaches(task[j].user, task[j].id)
    BY <1>7 DEF Push!FindSubscription, PushTyped, Push!TypeOK, JobsReachTheirUsers
  <2>2. pushRows[task[j].id].endpoint \in Endpoints \union {None}
    BY <2>1 DEF PushTyped, Push!TypeOK, Push!NoRow
  <2>3. /\ UNCHANGED <<pushPhase, todo, due, sent>>
        /\ target' = [target EXCEPT ![j] = pushRows[task[j].id].endpoint]
        /\ pushPc[j] = "send"
        /\ \/ pushPc' = [pushPc EXCEPT ![j] = "succeeded"]
           \/ pushPc' = [pushPc EXCEPT ![j] = "sending"] /\ pushRows[task[j].id] # Push!NoRow
    BY <1>7 DEF Push!FindSubscription, Push!Goto, Push!queue
  <2>4. PushTyped'
    BY <1>1, <2>2, <2>3 DEF PushTyped, Push!TypeOK, Push!NoRow, Push!Idle
  <2>5. JobsReachTheirUsers'
    <3>1. target'[j] = pushRows[task[j].id].endpoint
      BY <2>3 DEF PushTyped, Push!TypeOK
    <3>2. pushPc'[j] = "sending" => <<task[j].user, target'[j]>> \in bound
      BY <2>1, <2>3, <3>1 DEF Reaches, PushTyped, Push!TypeOK
    <3>3. /\ pushPc'[j] \in {"succeeded", "sending"} /\ pushPhase[j] # "absent"
          /\ \A k \in Jobs \ {j} : pushPc'[k] = pushPc[k] /\ target'[k] = target[k]
      BY <2>3 DEF PushTyped, Push!TypeOK, JobsReachTheirUsers
    <3> SUFFICES ASSUME NEW k \in Jobs
                   PROVE  (/\ pushPhase[k] = "absent" => pushPc[k] = "waiting" /\ todo[k] = {}
                           /\ pushPhase[k] # "absent" => task[k].user \in Users
                           /\ pushPhase[k] # "absent" /\ task[k].id # None => Reaches(task[k].user, task[k].id)
                           /\ pushPc[k] = "send" => task[k].id # None
                           /\ \A n \in todo[k] : Reaches(task[k].user, n)
                           /\ pushPc[k] = "sending" => <<task[k].user, target[k]>> \in bound)'
      BY DEF JobsReachTheirUsers
    <3>4. task'[k] = task[k] /\ todo'[k] = todo[k] /\ pushPhase'[k] = pushPhase[k] /\ bound' = bound
      BY <1>1, <2>3
    <3>5. pushPc'[k] = "sending" => <<task[k].user, target'[k]>> \in bound
      BY <3>2, <3>3 DEF JobsReachTheirUsers
    <3>6. /\ pushPhase[k] = "absent" => pushPc'[k] = "waiting"
          /\ pushPc'[k] = "send" => task[k].id # None
      BY <3>3 DEF JobsReachTheirUsers
    <3>7. QED
      BY <1>2, <3>4, <3>5, <3>6 DEF JobsReachTheirUsers
  <2>6. QED
    BY <1>1, <1>2, <2>3, <2>4, <2>5
<1>8. CASE Push!Send(j)
  BY <1>1, <1>2, <1>8 DEF Push!Send, Push!Goto, Push!queue, PushTyped, Push!TypeOK,
     JobsReachTheirUsers
<1>9. CASE Push!Succeed(j) \/ Push!EndRun(j)
  <2>1. PICK end \in {"done", "pending", "failed"} : pushPhase' = [pushPhase EXCEPT ![j] = end]
    BY <1>9 DEF Push!Succeed, Push!EndRun, Push!Queue!Succeed, Push!Queue!Requeue,
       Push!Queue!Reopen, Push!Queue!GiveUp, Push!Queue!Move
  <2>2. pushPhase[j] # "absent"
    BY <1>9 DEF Push!Succeed, Push!EndRun, Push!Queue!Succeed, Push!Queue!Requeue,
       Push!Queue!Reopen, Push!Queue!GiveUp, Push!Queue!Move
  <2>3. /\ pushPc' = [pushPc EXCEPT ![j] = "waiting"]
        /\ todo' = [todo EXCEPT ![j] = {}]
        /\ target' = [target EXCEPT ![j] = None]
        /\ UNCHANGED <<due, sent>>
    BY <1>9 DEF Push!Succeed, Push!EndRun, Push!Ended, Push!Goto
  <2>4. PushTyped'
    BY <1>1, <2>1, <2>3 DEF PushTyped, Push!TypeOK, Push!NoRow, Push!Idle
  <2>5. JobsReachTheirUsers'
    <3>1. /\ pushPhase'[j] # "absent" /\ pushPc'[j] = "waiting" /\ todo'[j] = {}
          /\ \A k \in Jobs \ {j} : /\ pushPhase'[k] = pushPhase[k] /\ pushPc'[k] = pushPc[k]
                                 /\ todo'[k] = todo[k] /\ target'[k] = target[k]
      BY <2>1, <2>3 DEF PushTyped, Push!TypeOK
    <3>2. QED
      BY <1>1, <1>2, <2>2, <3>1 DEF JobsReachTheirUsers
  <2>6. QED
    BY <1>1, <1>2, <2>3, <2>4, <2>5
<1>10. QED
  BY <1>4, <1>5, <1>6, <1>7, <1>8, <1>9

(***************************************************************************)
(* A request puts a user's endpoint into rows that have it already, or         *)
(* into one that was never given out.                                      *)
(***************************************************************************)
LEMMA BindStep ==
    ASSUME Push!PushConstants, PushInv, NEW c \in Callers, caller[c] # Push!Idle,
           NEW S \in SUBSET Subscribed, Push!Bind(c, S), used' = used \union S,
           \A i \in S : i \notin used \/ (pushRows[i].endpoint = caller[c].endpoint /\ pushRows[i] # Push!NoRow)
    PROVE  PushInv'
<1> DEFINE u == caller[c].user
           e == caller[c].endpoint
<1>1. u \in Users /\ e \in Endpoints
  BY DEF PushInv, PushTyped, Push!TypeOK
<1>2. /\ pushRows' = [i \in Subscribed |-> IF i \in S THEN [owner |-> u, endpoint |-> e] ELSE pushRows[i]]
      /\ S # {} => <<u, e>> \in bound'
      /\ bound \subseteq bound' /\ bound' \subseteq Users \X Endpoints
      /\ released' \subseteq Users \X Endpoints
      /\ caller' = [caller EXCEPT ![c] = Push!Idle]
      /\ UNCHANGED <<pushPhase, task, pushPc, todo, target, due, gone, sent>>
  BY <1>1 DEF Push!Bind, PushInv, PushTyped, Push!TypeOK, Push!queue, Push!work
<1> HIDE DEF u, e
<1>3. PushTyped'
  BY <1>1, <1>2 DEF PushInv, PushTyped, Push!TypeOK, Push!NoRow, Push!Idle
<1>4. RowsAreBound'
  <2> SUFFICES ASSUME NEW i \in Subscribed, pushRows'[i] # Push!NoRow
               PROVE  i \in used' /\ <<pushRows'[i].owner, pushRows'[i].endpoint>> \in bound'
    BY DEF RowsAreBound, Push!NoRow
  <2>1. CASE i \in S
    BY <1>2, <2>1
  <2>2. CASE i \notin S
    BY <1>2, <2>2 DEF PushInv, RowsAreBound
  <2>3. QED
    BY <2>1, <2>2
<1>5. ASSUME NEW v, NEW i \in Subscribed, Reaches(v, i)
      PROVE  Reaches(v, i)'
  <2>1. CASE i \in S
    <3>1. pushRows[i].endpoint = e /\ pushRows[i] # Push!NoRow
      BY <1>5, <2>1 DEF Reaches, e
    <3>2. pushRows'[i].endpoint = e
      BY <1>2, <2>1
    <3>3. QED
      BY <1>2, <1>5, <3>1, <3>2 DEF Reaches
  <2>2. CASE i \notin S
    BY <1>2, <1>5, <2>2 DEF Reaches, Push!NoRow
  <2>3. QED
    BY <2>1, <2>2
<1>6. JobsReachTheirUsers'
  <2>1. \A j \in Jobs : todo[j] \subseteq Subscribed /\ task[j].id \in Subscribed \union {None}
    BY DEF PushInv, PushTyped, Push!TypeOK
  <2>2. QED
    BY <1>2, <1>5, <2>1 DEF PushInv, JobsReachTheirUsers
<1>7. QED
  BY <1>2, <1>3, <1>4, <1>6 DEF PushInv

(***************************************************************************)
(* Rows that go take nothing with them.                                    *)
(***************************************************************************)
LEMMA WithoutStep ==
    ASSUME PushInv, NEW S, pushRows' = Push!Without(S),
           NEW points \in [Jobs -> {"waiting", "fanout", "dispatch", "send", "sending", "succeeded"}],
           pushPc' = points,
           \A j \in Jobs : points[j] \in {pushPc[j], "succeeded"} /\ (pushPc[j] = "waiting" => points[j] = "waiting"),
           released' \subseteq Users \X Endpoints,
           UNCHANGED <<pushPhase, task, todo, target, due, used, bound, caller, gone, sent>>
    PROVE  PushInv'
<1>1. \A i \in Subscribed : pushRows'[i] \in {pushRows[i], Push!NoRow}
  BY DEF Push!Without
<1>2. PushTyped'
  BY DEF PushInv, PushTyped, Push!TypeOK, Push!Without
<1>3. RowsAreBound'
  BY <1>1 DEF PushInv, RowsAreBound, Push!NoRow
<1>4. ASSUME NEW v, NEW i \in Subscribed, Reaches(v, i)
      PROVE  Reaches(v, i)'
  BY <1>1, <1>4 DEF Reaches, Push!NoRow
<1>5. JobsReachTheirUsers'
  <2>1. \A j \in Jobs : todo[j] \subseteq Subscribed /\ task[j].id \in Subscribed \union {None}
    BY DEF PushInv, PushTyped, Push!TypeOK
  <2>2. QED
    BY <1>4, <2>1 DEF PushInv, JobsReachTheirUsers
<1>6. QED
  BY <1>2, <1>3, <1>5 DEF PushInv

LEMMA PushStep ==
    ASSUME Push!PushConstants, PushInv, [Push!Next]_(Push!vars)
    PROVE  PushInv'
<1>1. ASSUME NEW u \in Users, NEW max \in PushAttempts, Push!Notify(u, max)
      PROVE  PushInv'
  BY <1>1, PushDispatched DEF Push!Notify, Push!table, PushInv, PushTyped, Push!TypeOK
<1>2. ASSUME NEW j \in Jobs, NEW i \in Subscribed, NEW max \in PushAttempts, Push!DispatchSend(j, i, max)
      PROVE  PushInv'
  <2>1. task[j].user \in Users /\ Reaches(task[j].user, i)
    BY <1>2 DEF Push!DispatchSend, PushInv, JobsReachTheirUsers
  <2>2. /\ todo' = [todo EXCEPT ![j] = @ \ {i}]
        /\ todo' \in [Jobs -> SUBSET Subscribed] /\ \A k \in Jobs : todo'[k] \subseteq todo[k]
    BY <1>2 DEF Push!DispatchSend, PushInv, PushTyped, Push!TypeOK
  <2>3. QED
    BY <1>2, <2>1, <2>2, PushDispatched DEF Push!DispatchSend, Push!table
<1>3. ASSUME NEW j \in Jobs, Push!Prune(j)
      PROVE  PushInv'
  <2>1. /\ pushRows' = Push!Without(Push!At(target[j])) /\ pushPc[j] = "sending"
        /\ pushPc' = [pushPc EXCEPT ![j] = "succeeded"]
        /\ UNCHANGED <<pushPhase, task, todo, target, due, used, bound, released, caller, gone, sent>>
        /\ released' \subseteq Users \X Endpoints
    BY <1>3 DEF PushInv, PushTyped, Push!TypeOK, Push!Prune, Push!Goto, Push!queue
  <2>2. /\ pushPc' \in [Jobs -> {"waiting", "fanout", "dispatch", "send", "sending", "succeeded"}]
        /\ \A k \in Jobs : pushPc'[k] \in {pushPc[k], "succeeded"}
                         /\ (pushPc[k] = "waiting" => pushPc'[k] = "waiting")
    BY <2>1 DEF PushInv, PushTyped, Push!TypeOK
  <2>3. QED
    BY <2>1, <2>2, WithoutStep
<1>4. ASSUME NEW c \in Callers, Push!Rebind(c)
      PROVE  PushInv'
  <2>1. caller[c] # Push!Idle /\ caller[c].endpoint \in Endpoints
    BY <1>4 DEF Push!Rebind, Push!Idle, PushInv, PushTyped, Push!TypeOK
  <2>2. /\ Push!At(caller[c].endpoint) \in SUBSET Subscribed
        /\ \A i \in Push!At(caller[c].endpoint) :
              pushRows[i].endpoint = caller[c].endpoint /\ pushRows[i] # Push!NoRow /\ i \in used
    <3>1. caller[c].endpoint # None
      BY <2>1 DEF Push!PushConstants
    <3>2. ASSUME NEW i \in Push!At(caller[c].endpoint)
          PROVE  i \in Subscribed /\ pushRows[i].endpoint = caller[c].endpoint
      BY DEF Push!At
    <3>3. ASSUME NEW i \in Push!At(caller[c].endpoint)
          PROVE  pushRows[i] # Push!NoRow
      BY <3>1, <3>2 DEF Push!NoRow
    <3>4. QED
      BY <3>2, <3>3 DEF PushInv, RowsAreBound
  <2>3. QED
    BY <1>4, <2>1, <2>2, BindStep DEF Push!Rebind
<1>5. ASSUME NEW c \in Callers, Push!Insert(c)
      PROVE  PushInv'
  <2>1. Push!New(Subscribed \ used) \in Subscribed \ used
    BY <1>5, SomeOfThem DEF Push!Insert
  <2>2. PICK S \in SUBSET Subscribed : S = {Push!New(Subscribed \ used)}
    BY <2>1
  <2>3. /\ Push!Bind(c, S) /\ used' = used \union S /\ caller[c] # Push!Idle
        /\ \A i \in S : i \notin used \/ (pushRows[i].endpoint = caller[c].endpoint /\ pushRows[i] # Push!NoRow)
    BY <1>5, <2>1, <2>2 DEF Push!Insert
  <2>4. c \in Callers /\ S \in SUBSET Subscribed
    BY <1>5, <2>2
  <2>5. QED
    BY <2>3, <2>4, BindStep
<1>6. ASSUME NEW u \in Users, NEW e \in Endpoints, Push!RemoveSubscription(u, e)
      PROVE  PushInv'
  <2>1. /\ released' \subseteq Users \X Endpoints
        /\ pushRows' = Push!Without({i \in Push!At(e) : pushRows[i].owner = u})
        /\ UNCHANGED <<pushPhase, task, pushPc, todo, target, due, used, bound, caller, gone, sent>>
    BY <1>6 DEF Push!RemoveSubscription, Push!queue, Push!work, PushInv, PushTyped, Push!TypeOK
  <2>2. QED
    BY <2>1, WithoutStep DEF PushInv, PushTyped, Push!TypeOK
<1>7. ASSUME \/ \E c \in Callers : Push!SaveFails(c)
             \/ \E e \in Endpoints : Push!Vanish(e)
             \/ \E u \in Users, e \in Endpoints : Push!FindEndpoint(u, e)
             \/ UNCHANGED Push!vars
      PROVE  PushInv'
  <2>1. UNCHANGED <<pushPhase, task, pushPc, todo, target, due, pushRows, used, bound, released, sent>>
    BY <1>7 DEF Push!SaveFails, Push!Vanish, Push!FindEndpoint, Push!vars, Push!queue, Push!work,
       Push!table
  <2>2. gone' \subseteq Endpoints
    BY <1>7 DEF Push!SaveFails, Push!Vanish, Push!FindEndpoint, Push!vars, PushInv, PushTyped,
       Push!TypeOK
  <2>3. caller' \in [Callers -> [user : Users, endpoint : Endpoints, found : BOOLEAN] \union {Push!Idle}]
    <3>1. ASSUME NEW u \in Users, NEW e \in Endpoints, Push!FindEndpoint(u, e)
          PROVE  caller' \in [Callers -> [user : Users, endpoint : Endpoints, found : BOOLEAN] \union {Push!Idle}]
      BY <3>1 DEF Push!FindEndpoint, PushInv, PushTyped, Push!TypeOK
    <3>2. QED
      BY <1>7, <3>1 DEF Push!SaveFails, Push!Vanish, Push!vars, PushInv, PushTyped, Push!TypeOK
  <2>4. PushTyped'
    BY <2>1, <2>2, <2>3 DEF PushInv, PushTyped, Push!TypeOK, Push!NoRow, Push!Idle
  <2>5. RowsAreBound' /\ JobsReachTheirUsers'
    BY <2>1 DEF PushInv, RowsAreBound, JobsReachTheirUsers, Reaches, Push!NoRow
  <2>6. QED
    BY <2>1, <2>4, <2>5 DEF PushInv
<1>8. QED
  BY <1>1, <1>2, <1>3, <1>4, <1>5, <1>6, <1>7, PushRunStep DEF Push!Next

LEMMA PushInvariant == ASSUME Push!PushConstants PROVE Push!Spec => []PushInv
<1>1. Push!Init => PushInv
  BY DEF Push!Init, Push!Queue!Init, PushInv, PushTyped, Push!TypeOK, RowsAreBound,
     JobsReachTheirUsers,
     Push!NoRow, Push!NoTask, Push!Idle
<1>2. Push!PushConstants /\ PushInv /\ [Push!Next]_(Push!vars) => PushInv'
  BY PushStep
<1> QED
  BY <1>1, <1>2, PTL DEF Push!Spec

(***************************************************************************)
(* The column of the endpoint is unique.                                   *)
(***************************************************************************)
EndpointsUnique ==
    \A i, k \in Subscribed :
        pushRows[i] # Push!NoRow /\ pushRows[i].endpoint = pushRows[k].endpoint => i = k

(***************************************************************************)
(* For whom an endpoint is released no row has it, and no row that a job   *)
(* of theirs names or is to name; nor is it being sent to for them.        *)
(***************************************************************************)
QuietFor(u, e) ==
    /\ \A i \in Subscribed : ~(pushRows[i].owner = u /\ pushRows[i].endpoint = e)
    /\ \A j \in Jobs : task[j].user = u =>
        /\ \A i \in Subscribed : i \in todo[j] \/ i = task[j].id => pushRows[i].endpoint # e
        /\ pushPc[j] = "sending" => target[j] # e

Quiet == \A u \in Users, e \in Endpoints : <<u, e>> \in released => QuietFor(u, e)

\* A job that is absent has no task yet.
NoTaskYet == \A j \in Jobs : pushPhase[j] = "absent" => task[j] = Push!NoTask

QuietInv == PushInv /\ NoTaskYet /\ EndpointsUnique /\ Quiet

\* A step that leaves the table and the requests' history.
LEMMA StillUnique == ASSUME EndpointsUnique, UNCHANGED pushRows PROVE EndpointsUnique'
BY DEF EndpointsUnique, Push!NoRow

LEMMA DispatchIsQuiet ==
    ASSUME Push!PushConstants, QuietInv, NEW v \in Users, NEW n \in Subscribed \union {None},
           NEW max \in PushAttempts, Push!Dispatch(v, n, max),
           n # None => \E j \in Jobs : task[j].user = v /\ n \in todo[j],
           \A j \in Jobs : todo'[j] \subseteq todo[j],
           UNCHANGED <<pushPc, target, pushRows, released>>
    PROVE  Quiet'
<1> DEFINE k == Push!New(Push!Unused)
<1>1. k \in Jobs /\ pushPhase[k] = "absent"
  BY SomeOfThem DEF Push!Dispatch, Push!Unused
<1>2. task' = [task EXCEPT ![k] = [user |-> v, id |-> n]]
  BY DEF Push!Dispatch
<1> HIDE DEF k
<1>3. /\ task'[k] = [user |-> v, id |-> n] /\ todo'[k] = {} /\ pushPc[k] = "waiting"
      /\ \A j \in Jobs : j # k => task'[j] = task[j]
  BY <1>1, <1>2 DEF QuietInv, PushInv, PushTyped, Push!TypeOK, JobsReachTheirUsers
<1> SUFFICES ASSUME NEW u \in Users, NEW e \in Endpoints, <<u, e>> \in released
             PROVE  QuietFor(u, e)'
  BY DEF Quiet
<1>4. QuietFor(u, e)
  BY DEF QuietInv, Quiet
<1>5. v = u /\ n # None => pushRows[n].endpoint # e
  BY <1>4 DEF QuietFor
<1>6. None \notin Subscribed
  BY DEF Push!PushConstants
<1> QED
  BY <1>3, <1>4, <1>5, <1>6 DEF QuietFor

LEMMA RunIsQuiet ==
    ASSUME Push!PushConstants, QuietInv, NEW j \in Jobs,
           \/ Push!Start(j) \/ Push!FindSubscriptions(j) \/ Push!DispatchedAll(j)
           \/ Push!FindSubscription(j) \/ Push!Send(j) \/ Push!Succeed(j) \/ Push!EndRun(j)
    PROVE  Quiet'
<1>1. UNCHANGED <<task, pushRows, released>>
  BY DEF Push!Start, Push!FindSubscriptions, Push!DispatchedAll, Push!FindSubscription, Push!Send,
     Push!Succeed, Push!EndRun, Push!Ended, Push!table
<1> SUFFICES ASSUME NEW u \in Users, NEW e \in Endpoints, <<u, e>> \in released
             PROVE  QuietFor(u, e)'
  BY <1>1 DEF Quiet
<1>2. QuietFor(u, e)
  BY DEF QuietInv, Quiet
<1>3. /\ todo \in [Jobs -> SUBSET Subscribed] /\ target \in [Jobs -> Endpoints \union {None}]
      /\ pushPc \in [Jobs -> {"waiting", "fanout", "dispatch", "send", "sending", "succeeded"}]
      /\ task[j].id \in Subscribed \union {None}
  BY DEF QuietInv, PushInv, PushTyped, Push!TypeOK
<1>4. /\ \A k \in Jobs \ {j} : todo'[k] = todo[k] /\ pushPc'[k] = pushPc[k] /\ target'[k] = target[k]
      /\ \/ todo'[j] \in {todo[j], {}} /\ (pushPc'[j] # "sending" \/ UNCHANGED <<pushPc, target>>)
         \/ Push!FindSubscriptions(j)
         \/ Push!FindSubscription(j)
  BY <1>3 DEF Push!Start, Push!FindSubscriptions, Push!DispatchedAll, Push!FindSubscription, Push!Send,
     Push!Succeed, Push!EndRun, Push!Ended, Push!Goto
<1>5. task[j].user = u =>
        /\ \A i \in Subscribed : i \in todo'[j] \/ i = task[j].id => pushRows[i].endpoint # e
        /\ pushPc'[j] = "sending" => target'[j] # e
  <2>1. CASE Push!FindSubscriptions(j)
    <3>1. todo'[j] = Push!Addressed(task[j].user) /\ pushPc'[j] = "dispatch"
      BY <1>3, <2>1 DEF Push!FindSubscriptions, Push!Goto
    <3> QED
      BY <1>2, <3>1 DEF QuietFor, Push!Addressed
  <2>2. CASE Push!FindSubscription(j)
    <3>1. /\ todo'[j] = todo[j] /\ task[j].id \in Subscribed
          /\ target'[j] = pushRows[task[j].id].endpoint
      <4>1. task[j].id # None
        BY <2>2 DEF Push!FindSubscription, QuietInv, PushInv, JobsReachTheirUsers
      <4> QED
        BY <1>3, <2>2, <4>1 DEF Push!FindSubscription
    <3> QED
      BY <1>2, <3>1 DEF QuietFor
  <2>3. CASE todo'[j] \in {todo[j], {}} /\ (pushPc'[j] # "sending" \/ UNCHANGED <<pushPc, target>>)
    BY <1>2, <2>3 DEF QuietFor
  <2> QED
    BY <1>4, <2>1, <2>2, <2>3
<1> QED
  BY <1>1, <1>2, <1>4, <1>5 DEF QuietFor

\* A request binds rows that have its endpoint already, or a new one if none has.
LEMMA BindIsQuiet ==
    ASSUME Push!PushConstants, QuietInv, NEW c \in Callers, Push!Rebind(c) \/ Push!Insert(c)
    PROVE  Quiet' /\ EndpointsUnique'
<1>1. caller[c] # Push!Idle
  BY DEF Push!Rebind, Push!Insert, Push!Idle
<1> DEFINE w == caller[c].user
           f == caller[c].endpoint
<1>2. w \in Users /\ f \in Endpoints /\ f # None
  BY <1>1 DEF QuietInv, PushInv, PushTyped, Push!TypeOK, Push!PushConstants
<1>3. PICK S \in SUBSET Subscribed :
        /\ Push!Bind(c, S)
        /\ \/ S = Push!At(f)
           \/ \E i \in Subscribed \ used : S = {i} /\ Push!At(f) = {}
  <2>1. CASE Push!Rebind(c)
    BY <2>1 DEF Push!Rebind, Push!At
  <2>2. CASE Push!Insert(c)
    BY <2>2, SomeOfThem DEF Push!Insert
  <2> QED
    BY <2>1, <2>2
<1>4. /\ \A i \in Subscribed : pushRows'[i] = IF i \in S THEN [owner |-> w, endpoint |-> f] ELSE pushRows[i]
      /\ released' = IF S = {} THEN released ELSE released \ {<<w, f>>}
      /\ UNCHANGED <<task, pushPc, todo, target>>
  BY <1>3 DEF Push!Bind, Push!work
<1> HIDE DEF w, f
<1>5. ASSUME NEW u \in Users, NEW e \in Endpoints, <<u, e>> \in released'
      PROVE  QuietFor(u, e)'
  <2>1. QuietFor(u, e) /\ (S = {} \/ <<u, e>> # <<w, f>>)
    BY <1>4, <1>5 DEF QuietInv, Quiet
  <2>2. \A i \in Subscribed : ~(pushRows'[i].owner = u /\ pushRows'[i].endpoint = e)
    BY <1>4, <2>1 DEF QuietFor
  <2>3. ASSUME NEW j \in Jobs, task[j].user = u, NEW i \in Subscribed, i \in todo[j] \/ i = task[j].id
        PROVE  pushRows'[i].endpoint # e
    <3>1. pushRows[i].endpoint # e
      BY <2>1, <2>3 DEF QuietFor
    <3>2. i \in used
      <4>1. pushPhase[j] # "absent" /\ i # None
        <5>1. task[j].user # None /\ i # None
          BY <2>3 DEF Push!PushConstants
        <5>2. pushPhase[j] = "absent" => todo[j] = {} /\ task[j] = Push!NoTask
          BY DEF QuietInv, PushInv, JobsReachTheirUsers, NoTaskYet
        <5> QED
          BY <2>3, <5>1, <5>2 DEF Push!NoTask
      <4> QED
        BY <2>3, <4>1 DEF QuietInv, PushInv, JobsReachTheirUsers, Reaches
    <3>3. i \in S => pushRows[i].endpoint = f
      BY <1>3, <3>2 DEF Push!At
    <3> QED
      BY <1>4, <3>1, <3>3
  <2>4. \A j \in Jobs : task[j].user = u => (pushPc[j] = "sending" => target[j] # e)
    BY <2>1 DEF QuietFor
  <2> QED
    BY <1>4, <2>2, <2>3, <2>4 DEF QuietFor
<1>6. EndpointsUnique'
  <2> SUFFICES ASSUME NEW i \in Subscribed, NEW k \in Subscribed,
                      pushRows'[i] # Push!NoRow, pushRows'[i].endpoint = pushRows'[k].endpoint
               PROVE  i = k
    BY DEF EndpointsUnique, Push!NoRow
  <2>1. S = Push!At(f) => pushRows'[i].endpoint = pushRows[i].endpoint /\ pushRows'[k].endpoint = pushRows[k].endpoint
    BY <1>4 DEF Push!At
  <2>2. S = Push!At(f) => pushRows[i] # Push!NoRow
    BY <1>2, <1>4 DEF Push!At, Push!NoRow
  <2>3. CASE S = Push!At(f)
    BY <2>1, <2>2, <2>3 DEF QuietInv, EndpointsUnique
  <2>4. CASE \E n \in Subscribed \ used : S = {n} /\ Push!At(f) = {}
    <3>1. PICK n \in Subscribed \ used : S = {n} /\ Push!At(f) = {}
      BY <2>4
    <3>2. \A m \in Subscribed : m # n => pushRows'[m] = pushRows[m] /\ pushRows[m].endpoint # f
      BY <1>4, <3>1 DEF Push!At
    <3>3. pushRows'[n].endpoint = f
      BY <1>4, <3>1
    <3> QED
      BY <3>2, <3>3 DEF QuietInv, EndpointsUnique
  <2> QED
    BY <1>3, <2>3, <2>4
<1> QED
  BY <1>5, <1>6 DEF Quiet

\* Rows that go leave no endpoint where there was none.
LEMMA WithoutIsQuiet ==
    ASSUME Push!PushConstants, QuietInv, NEW S, pushRows' = Push!Without(S),
           UNCHANGED <<task, todo, target>>,
           \A j \in Jobs : pushPc'[j] = "sending" => pushPc[j] = "sending"
    PROVE  /\ EndpointsUnique'
           /\ \A u \in Users, e \in Endpoints : QuietFor(u, e) => QuietFor(u, e)'
<1>1. /\ \A i \in Subscribed : pushRows'[i] = pushRows[i] \/ pushRows'[i] = Push!NoRow
      /\ Push!NoRow.endpoint = None /\ None \notin Endpoints
  BY DEF Push!Without, Push!NoRow, Push!PushConstants
<1>2. EndpointsUnique'
  <2> SUFFICES ASSUME NEW i \in Subscribed, NEW k \in Subscribed,
                      pushRows'[i] # Push!NoRow, pushRows'[i].endpoint = pushRows'[k].endpoint
               PROVE  i = k
    BY DEF EndpointsUnique, Push!NoRow
  <2>1. pushRows'[i] = pushRows[i] /\ pushRows[i].endpoint \in Endpoints
    BY <1>1 DEF QuietInv, PushInv, PushTyped, Push!TypeOK
  <2>2. pushRows'[k] = pushRows[k]
    BY <1>1, <2>1
  <2> QED
    BY <2>1, <2>2 DEF QuietInv, EndpointsUnique
<1>3. ASSUME NEW u \in Users, NEW e \in Endpoints, QuietFor(u, e)
      PROVE  QuietFor(u, e)'
  <2>1. \A i \in Subscribed : pushRows'[i].endpoint = e => pushRows'[i] = pushRows[i]
    BY <1>1
  <2> QED
    BY <1>3, <2>1 DEF QuietFor
<1> QED
  BY <1>2, <1>3

LEMMA RemovalIsQuiet ==
    ASSUME Push!PushConstants, QuietInv, NEW v \in Users, NEW f \in Endpoints,
           Push!RemoveSubscription(v, f)
    PROVE  Quiet' /\ EndpointsUnique'
<1>1. /\ pushRows' = Push!Without({i \in Push!At(f) : pushRows[i].owner = v})
      /\ released' = released \union {<<u, f>> : u \in {u \in Users : ~Push!Sending(u, f)}}
      /\ UNCHANGED <<task, pushPc, todo, target>>
  BY DEF Push!RemoveSubscription, Push!work
<1>2. EndpointsUnique' /\ \A u \in Users, e \in Endpoints : QuietFor(u, e) => QuietFor(u, e)'
  BY <1>1, WithoutIsQuiet
<1>3. \A i \in Subscribed : pushRows'[i].endpoint # f
  <2>1. PICK n \in Push!At(f) : pushRows[n].owner = v
    BY DEF Push!RemoveSubscription
  <2>2. n \in Subscribed /\ pushRows[n].endpoint = f /\ f # None
    BY <2>1 DEF Push!At, Push!PushConstants
  <2>3. \A i \in Push!At(f) : i = n
    BY <2>2 DEF QuietInv, EndpointsUnique, Push!At, Push!NoRow
  <2> QED
    BY <1>1, <2>1, <2>2, <2>3 DEF Push!Without, Push!At, Push!NoRow
<1>4. ASSUME NEW u \in Users, ~Push!Sending(u, f)
      PROVE  QuietFor(u, f)'
  BY <1>1, <1>3, <1>4 DEF QuietFor, Push!Sending
<1>5. ASSUME NEW u \in Users, NEW e \in Endpoints, <<u, e>> \in released'
      PROVE  QuietFor(u, e)'
  BY <1>1, <1>2, <1>4, <1>5 DEF QuietInv, Quiet
<1> QED
  BY <1>2, <1>5 DEF Quiet

LEMMA TasksComeWithJobs ==
    ASSUME Push!PushConstants, PushInv, NoTaskYet, [Push!Next]_(Push!vars)
    PROVE  NoTaskYet'
<1>1. task \in [Jobs -> [user : Users \union {None}, id : Subscribed \union {None}]]
  BY DEF PushInv, PushTyped, Push!TypeOK
<1>2. pushPhase \in [Jobs -> {"absent", "pending", "running", "done", "failed", "refused"}]
  BY DEF PushInv, PushTyped
<1>3. ASSUME NEW u, NEW n, NEW max, Push!Dispatch(u, n, max)
      PROVE  NoTaskYet'
  <2> DEFINE k == Push!New(Push!Unused)
  <2>1. k \in Jobs
    BY <1>3, SomeOfThem DEF Push!Dispatch, Push!Unused
  <2>2. pushPhase' = [pushPhase EXCEPT ![k] = "pending"] /\ task' = [task EXCEPT ![k] = [user |-> u, id |-> n]]
    BY <1>3 DEF Push!Dispatch, Push!Queue!Accept, Push!Queue!Move
  <2> HIDE DEF k
  <2> QED
    BY <1>1, <1>2, <2>1, <2>2 DEF NoTaskYet, Push!NoTask
<1>4. ASSUME UNCHANGED task, \A j \in Jobs : pushPhase'[j] = "absent" => pushPhase[j] = "absent"
      PROVE  NoTaskYet'
  BY <1>4 DEF NoTaskYet, Push!NoTask
<1>5. ASSUME NEW j \in Jobs,
             \/ Push!Start(j) \/ Push!FindSubscriptions(j) \/ Push!DispatchedAll(j)
             \/ Push!FindSubscription(j) \/ Push!Send(j) \/ Push!Succeed(j) \/ Push!EndRun(j)
             \/ Push!Prune(j)
      PROVE  NoTaskYet'
  <2>1. /\ UNCHANGED task
        /\ \/ UNCHANGED pushPhase
           \/ \E to \in {"pending", "running", "done", "failed"} : pushPhase' = [pushPhase EXCEPT ![j] = to]
    BY <1>5 DEF Push!Start, Push!FindSubscriptions, Push!DispatchedAll, Push!FindSubscription, Push!Send,
       Push!Succeed, Push!EndRun, Push!Ended, Push!Prune, Push!table, Push!queue, Push!Queue!Run,
       Push!Queue!Succeed, Push!Queue!Requeue, Push!Queue!Reopen, Push!Queue!GiveUp, Push!Queue!Move
  <2> QED
    BY <1>2, <1>4, <2>1
<1> QED
  BY <1>3, <1>4, <1>5 DEF Push!Next, Push!Notify, Push!DispatchSend, Push!Rebind, Push!Insert, Push!Bind,
     Push!SaveFails, Push!Vanish, Push!RemoveSubscription, Push!FindEndpoint, Push!queue, Push!work,
     Push!vars

LEMMA QuietStep ==
    ASSUME Push!PushConstants, QuietInv, [Push!Next]_(Push!vars)
    PROVE  QuietInv'
<1>1. PushInv' /\ NoTaskYet'
  BY PushStep, TasksComeWithJobs DEF QuietInv
<1>2. ASSUME NEW u \in Users, NEW max \in PushAttempts, Push!Notify(u, max)
      PROVE  Quiet' /\ EndpointsUnique'
  BY <1>2, DispatchIsQuiet, StillUnique DEF Push!Notify, Push!table, QuietInv
<1>3. ASSUME NEW j \in Jobs, NEW i \in Subscribed, NEW max \in PushAttempts, Push!DispatchSend(j, i, max)
      PROVE  Quiet' /\ EndpointsUnique'
  <2>1. /\ task[j].user \in Users /\ i \in todo[j] /\ Push!Dispatch(task[j].user, i, max)
        /\ UNCHANGED <<pushPc, target, pushRows, released>>
        /\ \A k \in Jobs : todo'[k] \subseteq todo[k]
    BY <1>3 DEF Push!DispatchSend, Push!table, QuietInv, PushInv, PushTyped, Push!TypeOK, JobsReachTheirUsers
  <2> QED
    BY <2>1, DispatchIsQuiet, StillUnique DEF QuietInv
<1>4. ASSUME NEW j \in Jobs,
             \/ Push!Start(j) \/ Push!FindSubscriptions(j) \/ Push!DispatchedAll(j)
             \/ Push!FindSubscription(j) \/ Push!Send(j) \/ Push!Succeed(j) \/ Push!EndRun(j)
      PROVE  Quiet' /\ EndpointsUnique'
  <2>1. UNCHANGED pushRows
    BY <1>4 DEF Push!Start, Push!FindSubscriptions, Push!DispatchedAll, Push!FindSubscription, Push!Send,
       Push!Succeed, Push!EndRun, Push!Ended, Push!table
  <2> QED
    BY <1>4, <2>1, RunIsQuiet, StillUnique DEF QuietInv
<1>5. ASSUME NEW j \in Jobs, Push!Prune(j)
      PROVE  Quiet' /\ EndpointsUnique'
  <2>1. /\ pushRows' = Push!Without(Push!At(target[j])) /\ UNCHANGED <<task, todo, target, released>>
        /\ \A k \in Jobs : pushPc'[k] = "sending" => pushPc[k] = "sending"
    BY <1>5 DEF Push!Prune, Push!Goto, Push!queue, QuietInv, PushInv, PushTyped, Push!TypeOK
  <2> QED
    BY <2>1, WithoutIsQuiet DEF QuietInv, Quiet
<1>6. ASSUME \/ \E c \in Callers : Push!SaveFails(c)
             \/ \E e \in Endpoints : Push!Vanish(e)
             \/ \E u \in Users, e \in Endpoints : Push!FindEndpoint(u, e)
             \/ UNCHANGED Push!vars
      PROVE  Quiet' /\ EndpointsUnique'
  <2>1. UNCHANGED <<task, pushPc, todo, target, pushRows, released>>
    BY <1>6 DEF Push!SaveFails, Push!Vanish, Push!FindEndpoint, Push!vars, Push!queue, Push!work,
       Push!table
  <2> QED
    BY <2>1, StillUnique DEF QuietInv, Quiet, QuietFor
<1> QED
  BY <1>1, <1>2, <1>3, <1>4, <1>5, <1>6, BindIsQuiet, RemovalIsQuiet DEF Push!Next, QuietInv

(***************************************************************************)
(* A send reads the row that its job names when it runs, and saving an     *)
(* endpoint "reassigns the row to the current holder by design": even so a *)
(* push for a user goes only to browsers that user has subscribed, and     *)
(* once the subscription was removed no push that was queued before is     *)
(* sent there, whoever subscribes the browser next.                        *)
(***************************************************************************)
THEOREM PushesGoToSubscribedBrowsers ==
    ASSUME Push!PushConstants PROVE Push!Spec => []Push!OnlySubscribedBrowsers
<1>1. Push!Init => QuietInv
  BY DEF Push!Init, Push!Queue!Init, QuietInv, PushInv, PushTyped, Push!TypeOK, RowsAreBound,
     JobsReachTheirUsers, Push!NoRow, Push!NoTask, Push!Idle, EndpointsUnique, Quiet, NoTaskYet
<1>2. Push!PushConstants /\ QuietInv /\ [Push!Next]_(Push!vars) => QuietInv'
  BY QuietStep
<1>3. Push!PushConstants /\ QuietInv => Push!OnlySubscribedBrowsers
  <2> SUFFICES ASSUME Push!PushConstants, QuietInv, NEW j \in Jobs, pushPc[j] = "sending"
               PROVE  <<task[j].user, target[j]>> \notin released
    BY DEF QuietInv, PushInv, Push!OnlySubscribedBrowsers
  <2>1. <<task[j].user, target[j]>> \in bound
    BY DEF QuietInv, PushInv, JobsReachTheirUsers
  <2>2. task[j].user \in Users /\ target[j] \in Endpoints
    BY <2>1 DEF QuietInv, PushInv, PushTyped, Push!TypeOK
  <2> QED
    BY <2>2 DEF QuietInv, Quiet, QuietFor
<1> QED
  BY <1>1, <1>2, <1>3, PTL DEF Push!Spec

(***************************************************************************)
(* A send that began for a device's former owner prunes by endpoint, and   *)
(* the row may be another owner's by then: even so a subscription goes     *)
(* only by its owner's removal, or with an endpoint that is gone.          *)
(***************************************************************************)
THEOREM PruningSparesTheLiving ==
    ASSUME Push!PushConstants PROVE Push!Spec => Push!PrunesOnlyTheGone
<1> DEFINE Spares ==
        \A i \in Subscribed :
            pushRows[i] # Push!NoRow /\ pushRows'[i] = Push!NoRow =>
                pushRows[i].endpoint \in gone
                    \/ Push!RemoveSubscription(pushRows[i].owner, pushRows[i].endpoint)
<1>1. ASSUME NEW j \in Jobs, Push!Prune(j) PROVE Spares
  <2>1. pushRows' = Push!Without(Push!At(target[j])) /\ target[j] \in gone
    BY <1>1 DEF Push!Prune, Push!IsGone
  <2> QED
    BY <2>1 DEF Push!Without, Push!At
<1>2. ASSUME NEW u, NEW e, Push!RemoveSubscription(u, e) PROVE Spares
  <2> SUFFICES ASSUME NEW i \in Subscribed, pushRows[i] # Push!NoRow, pushRows'[i] = Push!NoRow
               PROVE  Push!RemoveSubscription(pushRows[i].owner, pushRows[i].endpoint)
    OBVIOUS
  <2>1. i \in Push!At(e) /\ pushRows[i].owner = u
    BY <1>2 DEF Push!RemoveSubscription, Push!Without
  <2>2. pushRows[i].owner = u /\ pushRows[i].endpoint = e
    BY <2>1 DEF Push!At
  <2> QED
    BY <1>2, <2>2
<1>3. ASSUME Push!PushConstants, PushInv, NEW c \in Callers, NEW S, Push!Bind(c, S), caller[c] # Push!Idle
      PROVE  Spares
  <2>1. caller[c].user # None
    BY <1>3 DEF PushInv, PushTyped, Push!TypeOK, Push!PushConstants
  <2>2. [owner |-> caller[c].user, endpoint |-> caller[c].endpoint] # Push!NoRow
    BY <2>1 DEF Push!NoRow
  <2> QED
    BY <1>3, <2>2 DEF Push!Bind
<1>4. ASSUME UNCHANGED pushRows PROVE Spares
  BY <1>4
<1> HIDE DEF Spares
<1>5. Push!PushConstants /\ PushInv /\ [Push!Next]_(Push!vars) => [Spares]_(Push!vars)
  <2> SUFFICES ASSUME Push!PushConstants, PushInv, Push!Next PROVE Spares
    OBVIOUS
  <2>1. ASSUME \/ \E u \in Users, max \in PushAttempts : Push!Notify(u, max)
               \/ \E j \in Jobs, i \in Subscribed, max \in PushAttempts : Push!DispatchSend(j, i, max)
        PROVE  UNCHANGED pushRows
    BY <2>1 DEF Push!Notify, Push!DispatchSend, Push!table
  <2>2. ASSUME NEW j \in Jobs,
               \/ Push!Start(j) \/ Push!FindSubscriptions(j) \/ Push!DispatchedAll(j)
               \/ Push!FindSubscription(j) \/ Push!Send(j) \/ Push!Succeed(j) \/ Push!EndRun(j)
        PROVE  UNCHANGED pushRows
    BY <2>2 DEF Push!Start, Push!FindSubscriptions, Push!DispatchedAll, Push!FindSubscription,
                Push!Send, Push!Succeed, Push!EndRun, Push!Ended, Push!table
  <2>3. ASSUME \/ \E c \in Callers : Push!SaveFails(c)
               \/ \E e \in Endpoints : Push!Vanish(e)
               \/ \E u \in Users, e \in Endpoints : Push!FindEndpoint(u, e)
        PROVE  UNCHANGED pushRows
    BY <2>3 DEF Push!SaveFails, Push!Vanish, Push!FindEndpoint, Push!table
  <2>4. ASSUME NEW c \in Callers, Push!Rebind(c) \/ Push!Insert(c) PROVE Spares
    <3>1. caller[c] # Push!Idle
      BY <2>4 DEF Push!Rebind, Push!Insert, Push!Idle
    <3> QED
      BY <1>3, <2>4, <3>1 DEF Push!Rebind, Push!Insert
  <2> QED
    BY <1>1, <1>2, <1>4, <2>1, <2>2, <2>3, <2>4 DEF Push!Next
<1> QED
  BY <1>5, PushInvariant, PTL DEF Push!Spec, Push!PrunesOnlyTheGone, Spares

(***************************************************************************)
(* "one bad endpoint does not block the others": what a channel job found  *)
(* is dispatched or to be dispatched, and a send job that got through has  *)
(* sent to the endpoint of its row, if that is still there.                *)
(***************************************************************************)
Dispatched(j, i) ==
    \E k \in Jobs : pushPhase[k] # "absent" /\ task[k] = [user |-> task[j].user, id |-> i]

Served(j) ==
    pushRows[task[j].id] # Push!NoRow => <<task[j].user, pushRows[task[j].id].endpoint>> \in sent

Aims(j) == pushRows[task[j].id] # Push!NoRow => pushRows[task[j].id].endpoint = target[j]

Through(j) == pushPc[j] = "succeeded" \/ pushPhase[j] = "done"

Proceeds(j) ==
    /\ pushPc[j] # "waiting" <=> pushPhase[j] = "running"
    /\ pushPc[j] \in {"fanout", "dispatch"} => task[j].id = None
    /\ pushPc[j] \in {"send", "sending"} => task[j].id # None
    /\ pushPc[j] = "dispatch" => \A i \in due[j] \ todo[j] : Dispatched(j, i)
    /\ Through(j) /\ task[j].id = None => \A i \in due[j] : Dispatched(j, i)
    /\ pushPc[j] = "sending" => Aims(j)
    /\ Through(j) /\ task[j].id # None => Served(j)

DoneInv == PushInv /\ \A j \in Jobs : Proceeds(j)

\* Jobs keep their task, rows that were given out their endpoint while they are there,
\* and what was sent was sent.
Steady ==
    /\ \A j \in Jobs : pushPhase[j] # "absent" => pushPhase'[j] # "absent" /\ task'[j] = task[j]
    /\ \A i \in used : pushRows'[i] # Push!NoRow =>
            pushRows[i] # Push!NoRow /\ pushRows'[i].endpoint = pushRows[i].endpoint
    /\ sent \subseteq sent'

LEMMA SteadyKeeps ==
    ASSUME DoneInv, Steady, NEW j \in Jobs, pushPhase[j] # "absent"
    PROVE  /\ \A i : Dispatched(j, i) => Dispatched(j, i)'
           /\ task[j].id # None /\ Served(j) => Served(j)'
           /\ task[j].id # None /\ Aims(j) /\ target'[j] = target[j] => Aims(j)'
<1>1. task'[j] = task[j] /\ (task[j].id # None => task[j].id \in used)
  BY DEF Steady, DoneInv, PushInv, JobsReachTheirUsers, Reaches
<1>2. ASSUME NEW i, Dispatched(j, i) PROVE Dispatched(j, i)'
  <2>1. PICK k \in Jobs : pushPhase[k] # "absent" /\ task[k] = [user |-> task[j].user, id |-> i]
    BY <1>2 DEF Dispatched
  <2>2. pushPhase'[k] # "absent" /\ task'[k] = task[k]
    BY <2>1 DEF Steady
  <2> QED
    BY <1>1, <2>1, <2>2 DEF Dispatched
<1>3. task[j].id # None /\ Served(j) => Served(j)'
  BY <1>1 DEF Served, Steady, Push!NoRow
<1>4. task[j].id # None /\ Aims(j) /\ target'[j] = target[j] => Aims(j)'
  BY <1>1 DEF Aims, Steady, Push!NoRow
<1> QED
  BY <1>2, <1>3, <1>4

\* A job at rest proceeds as it did.
LEMMA RestProceeds ==
    ASSUME DoneInv, Steady, NEW j \in Jobs, UNCHANGED <<pushPc[j], pushPhase[j], due[j], target[j]>>,
           todo'[j] = todo[j]
    PROVE  Proceeds(j)'
<1>1. CASE pushPhase[j] # "absent"
  <2>1. task'[j] = task[j] /\ Proceeds(j)
    BY <1>1 DEF Steady, DoneInv
  <2> QED
    BY <1>1, <2>1, SteadyKeeps DEF Proceeds, Through
<1>2. CASE pushPhase[j] = "absent"
  <2>1. pushPc[j] = "waiting"
    BY <1>2 DEF DoneInv, Proceeds
  <2> QED
    BY <1>2, <2>1 DEF Proceeds, Through
<1> QED
  BY <1>1, <1>2

LEMMA RunProceeds ==
    ASSUME DoneInv, Steady, NEW j \in Jobs, Proceeds(j)',
           \A k \in Jobs \ {j} : /\ pushPc'[k] = pushPc[k] /\ pushPhase'[k] = pushPhase[k]
                                 /\ due'[k] = due[k] /\ target'[k] = target[k] /\ todo'[k] = todo[k]
    PROVE  \A k \in Jobs : Proceeds(k)'
<1> SUFFICES ASSUME NEW k \in Jobs, k # j PROVE Proceeds(k)'
  OBVIOUS
<1> QED
  BY RestProceeds

\* A dispatch that leaves the found subscriptions of other jobs as they are.
LEMMA DispatchProceeds ==
    ASSUME DoneInv, NEW u \in Users, NEW i \in Subscribed \union {None}, NEW max \in PushAttempts,
           Push!Dispatch(u, i, max),
           UNCHANGED <<pushPc, target, due, pushRows, sent>>
    PROVE  /\ Steady
           /\ \A j \in Jobs : pushPhase[j] = "absent" => Proceeds(j)'
           /\ \A j \in Jobs : pushPhase[j] # "absent" => pushPhase'[j] = pushPhase[j]
           /\ \E k \in Jobs : pushPhase'[k] # "absent" /\ task'[k] = [user |-> u, id |-> i]
<1> DEFINE k == Push!New(Push!Unused)
<1>1. k \in Jobs /\ pushPhase[k] = "absent"
  BY SomeOfThem DEF Push!Dispatch, Push!Unused
<1>2. pushPhase' = [pushPhase EXCEPT ![k] = "pending"] /\ task' = [task EXCEPT ![k] = [user |-> u, id |-> i]]
  BY DEF Push!Dispatch, Push!Queue!Accept, Push!Queue!Move
<1> HIDE DEF k
<1>3. /\ \A j \in Jobs : j # k => task'[j] = task[j] /\ pushPhase'[j] = pushPhase[j]
      /\ task'[k] = [user |-> u, id |-> i] /\ pushPhase'[k] = "pending"
  BY <1>1, <1>2 DEF DoneInv, PushInv, PushTyped, Push!TypeOK
<1>4. Steady
  BY <1>1, <1>3 DEF Steady
<1>5. ASSUME NEW j \in Jobs, pushPhase[j] = "absent" PROVE Proceeds(j)'
  <2>1. pushPc'[j] = "waiting"
    BY <1>5 DEF DoneInv, Proceeds
  <2>2. pushPhase'[j] \in {"absent", "pending"}
    BY <1>3, <1>5
  <2> QED
    BY <2>1, <2>2 DEF Proceeds, Through
<1> QED
  BY <1>1, <1>3, <1>4, <1>5

LEMMA NotifyProceeds ==
    ASSUME DoneInv, NEW u \in Users, NEW max \in PushAttempts, Push!Notify(u, max)
    PROVE  \A j \in Jobs : Proceeds(j)'
<1>1. /\ Push!Dispatch(u, None, max) /\ None \in Subscribed \union {None}
      /\ UNCHANGED <<pushPc, todo, target, due, pushRows, sent>>
  BY DEF Push!Notify, Push!table
<1>2. /\ Steady
      /\ \A j \in Jobs : pushPhase[j] = "absent" => Proceeds(j)'
      /\ \A j \in Jobs : pushPhase[j] # "absent" => pushPhase'[j] = pushPhase[j]
  BY <1>1, DispatchProceeds
<1>3. ASSUME NEW j \in Jobs, pushPhase[j] # "absent" PROVE Proceeds(j)'
  BY <1>1, <1>2, <1>3, RestProceeds
<1> QED
  BY <1>2, <1>3

LEMMA DispatchSendProceeds ==
    ASSUME DoneInv, NEW j \in Jobs, NEW i \in Subscribed, NEW max \in PushAttempts,
           Push!DispatchSend(j, i, max)
    PROVE  \A k \in Jobs : Proceeds(k)'
<1>1. /\ pushPc[j] = "dispatch" /\ pushPhase[j] = "running" /\ task[j].user \in Users /\ task[j].id = None
      /\ Push!Dispatch(task[j].user, i, max) /\ todo' = [todo EXCEPT ![j] = @ \ {i}]
      /\ UNCHANGED <<pushPc, target, due, pushRows, sent>>
  BY DEF Push!DispatchSend, Push!table, DoneInv, Proceeds, PushInv, JobsReachTheirUsers
<1>2. /\ Steady
      /\ \A k \in Jobs : pushPhase[k] = "absent" => Proceeds(k)'
      /\ \A k \in Jobs : pushPhase[k] # "absent" => pushPhase'[k] = pushPhase[k]
      /\ \E k \in Jobs : pushPhase'[k] # "absent" /\ task'[k] = [user |-> task[j].user, id |-> i]
  BY <1>1, DispatchProceeds
<1>3. todo'[j] = todo[j] \ {i} /\ \A k \in Jobs \ {j} : todo'[k] = todo[k]
  BY <1>1 DEF DoneInv, PushInv, PushTyped, Push!TypeOK
<1>4. task'[j] = task[j]
  BY <1>1, <1>2 DEF Steady
<1>5. Dispatched(j, i)'
  BY <1>2, <1>4 DEF Dispatched
<1>6. \A n \in due'[j] \ todo'[j] : Dispatched(j, n)'
  <2>1. \A n \in due[j] \ todo[j] : Dispatched(j, n)'
    BY <1>1, <1>2, SteadyKeeps DEF DoneInv, Proceeds
  <2> QED
    BY <1>1, <1>3, <1>5, <2>1
<1>7. Proceeds(j)'
  BY <1>1, <1>2, <1>4, <1>6 DEF Proceeds, Through
<1>8. ASSUME NEW k \in Jobs, k # j, pushPhase[k] # "absent" PROVE Proceeds(k)'
  BY <1>1, <1>2, <1>3, <1>8, RestProceeds
<1> QED
  BY <1>2, <1>7, <1>8

\* The steps of a run.
LEMMA RunningProceeds ==
    ASSUME DoneInv, NEW j \in Jobs,
           \/ Push!Start(j) \/ Push!FindSubscriptions(j) \/ Push!DispatchedAll(j)
           \/ Push!FindSubscription(j) \/ Push!Send(j) \/ Push!Prune(j)
           \/ Push!Succeed(j) \/ Push!EndRun(j)
    PROVE  \A k \in Jobs : Proceeds(k)'
<1> USE DEF Push!Goto
<1>1. /\ pushPhase \in [Jobs -> {"absent", "pending", "running", "done", "failed"}]
      /\ pushPc \in [Jobs -> {"waiting", "fanout", "dispatch", "send", "sending", "succeeded"}]
      /\ todo \in [Jobs -> SUBSET Subscribed] /\ due \in [Jobs -> SUBSET Subscribed]
      /\ target \in [Jobs -> Endpoints \union {None}]
  BY DEF DoneInv, PushInv, PushTyped, Push!TypeOK
<1>2. /\ Proceeds(j)
      /\ task[j].id # None /\ pushPhase[j] # "absent" => task[j].id \in Subscribed
  <2>1. task[j].id \in Subscribed \union {None}
    BY DEF DoneInv, PushInv, PushTyped, Push!TypeOK
  <2> QED
    BY <2>1 DEF DoneInv
<1>3. CASE Push!Start(j)
  <2>1. /\ pushPhase[j] = "pending" /\ pushPhase' = [pushPhase EXCEPT ![j] = "running"]
        /\ pushPc' = [pushPc EXCEPT ![j] = IF task[j].id = None THEN "fanout" ELSE "send"]
        /\ UNCHANGED <<task, todo, target, due, pushRows, sent>>
    BY <1>3 DEF Push!Start, Push!Queue!Run, Push!Queue!Move, Push!table
  <2>2. Steady
    BY <1>1, <2>1 DEF Steady
  <2>3. Proceeds(j)'
    BY <1>1, <2>1 DEF Proceeds, Through
  <2> QED
    BY <1>1, <2>1, <2>2, <2>3, RunProceeds
<1>4. CASE Push!FindSubscriptions(j)
  <2>1. /\ pushPc[j] = "fanout" /\ pushPc' = [pushPc EXCEPT ![j] = "dispatch"]
        /\ todo' = [todo EXCEPT ![j] = Push!Addressed(task[j].user)]
        /\ due' = [due EXCEPT ![j] = Push!Addressed(task[j].user)]
        /\ UNCHANGED <<pushPhase, task, target, pushRows, sent>>
    BY <1>4 DEF Push!FindSubscriptions, Push!queue, Push!table
  <2>2. Steady
    BY <2>1 DEF Steady
  <2>3. Proceeds(j)'
    BY <1>1, <1>2, <2>1 DEF Proceeds, Through
  <2> QED
    BY <1>1, <2>1, <2>2, <2>3, RunProceeds
<1>5. CASE Push!DispatchedAll(j)
  <2>1. /\ pushPc[j] = "dispatch" /\ todo[j] = {} /\ pushPc' = [pushPc EXCEPT ![j] = "succeeded"]
        /\ UNCHANGED <<pushPhase, task, todo, target, due, pushRows, sent>>
    BY <1>5 DEF Push!DispatchedAll, Push!queue, Push!table
  <2>2. Steady
    BY <2>1 DEF Steady
  <2>3. pushPhase[j] = "running" /\ task[j].id = None /\ \A i \in due[j] : Dispatched(j, i)
    BY <1>2, <2>1 DEF Proceeds
  <2>4. \A i \in due[j] : Dispatched(j, i)'
    BY <2>2, <2>3, SteadyKeeps
  <2>5. Proceeds(j)'
    BY <1>1, <2>1, <2>3, <2>4 DEF Proceeds, Through
  <2> QED
    BY <1>1, <2>1, <2>2, <2>5, RunProceeds
<1>6. CASE Push!FindSubscription(j)
  <2>1. /\ pushPc[j] = "send" /\ target' = [target EXCEPT ![j] = pushRows[task[j].id].endpoint]
        /\ pushPc' = [pushPc EXCEPT ![j] =
                        IF pushRows[task[j].id] = Push!NoRow THEN "succeeded" ELSE "sending"]
        /\ UNCHANGED <<pushPhase, task, todo, due, pushRows, sent>>
    BY <1>6 DEF Push!FindSubscription, Push!queue, Push!table
  <2>2. Steady
    BY <2>1 DEF Steady
  <2>3. pushPhase[j] = "running" /\ task[j].id # None
    BY <1>2, <2>1 DEF Proceeds
  <2>4. target'[j] = pushRows[task[j].id].endpoint
    BY <1>1, <2>1
  <2>5. Aims(j)' /\ (pushRows[task[j].id] = Push!NoRow => Served(j)')
    BY <2>1, <2>4 DEF Aims, Served, Push!NoRow
  <2>6. Proceeds(j)'
    BY <1>1, <2>1, <2>3, <2>5 DEF Proceeds, Through
  <2> QED
    BY <1>1, <2>1, <2>2, <2>6, RunProceeds
<1>7. CASE Push!Send(j)
  <2>1. /\ pushPc[j] = "sending" /\ sent' = sent \union {<<task[j].user, target[j]>>}
        /\ pushPc' = [pushPc EXCEPT ![j] = "succeeded"]
        /\ UNCHANGED <<pushPhase, task, todo, target, due, pushRows>>
    BY <1>7 DEF Push!Send, Push!queue, Push!table
  <2>2. Steady
    BY <2>1 DEF Steady
  <2>3. pushPhase[j] = "running" /\ task[j].id # None /\ Aims(j)
    BY <1>2, <2>1 DEF Proceeds
  <2>4. Served(j)'
    BY <2>1, <2>3 DEF Aims, Served, Push!NoRow
  <2>5. Proceeds(j)'
    BY <1>1, <2>1, <2>3, <2>4 DEF Proceeds, Through
  <2> QED
    BY <1>1, <2>1, <2>2, <2>5, RunProceeds
<1>8. CASE Push!Prune(j)
  <2>1. /\ pushPc[j] = "sending" /\ pushRows' = Push!Without(Push!At(target[j]))
        /\ pushPc' = [pushPc EXCEPT ![j] = "succeeded"]
        /\ UNCHANGED <<pushPhase, task, todo, target, due, sent>>
    BY <1>8 DEF Push!Prune, Push!queue
  <2>2. Steady
    <3>1. used \subseteq Subscribed
      BY DEF DoneInv, PushInv, PushTyped
    <3> QED
      BY <2>1, <3>1 DEF Steady, Push!Without
  <2>3. pushPhase[j] = "running" /\ task[j].id # None /\ Aims(j)
    BY <1>2, <2>1 DEF Proceeds
  <2>4. pushRows'[task[j].id] = Push!NoRow
    <3>1. task[j].id \in Subscribed
      BY <1>2, <2>3
    <3> QED
      BY <2>1, <2>3, <3>1 DEF Aims, Push!Without, Push!At
  <2>5. Served(j)'
    BY <2>1, <2>4 DEF Served, Push!NoRow
  <2>6. Proceeds(j)'
    BY <1>1, <2>1, <2>3, <2>5 DEF Proceeds, Through
  <2> QED
    BY <1>1, <2>1, <2>2, <2>6, RunProceeds
<1>9. CASE Push!Succeed(j) \/ Push!EndRun(j)
  <2>1. PICK end \in {"done", "pending", "failed"} :
            /\ pushPhase' = [pushPhase EXCEPT ![j] = end]
            /\ end = "done" => pushPc[j] = "succeeded"
    BY <1>9 DEF Push!Succeed, Push!EndRun, Push!Queue!Succeed, Push!Queue!Requeue,
       Push!Queue!Reopen, Push!Queue!GiveUp, Push!Queue!Move
  <2>2. pushPhase[j] # "absent"
    BY <1>9 DEF Push!Succeed, Push!EndRun, Push!Queue!Succeed, Push!Queue!Requeue,
       Push!Queue!Reopen, Push!Queue!GiveUp, Push!Queue!Move
  <2>3. /\ pushPc' = [pushPc EXCEPT ![j] = "waiting"]
        /\ todo' = [todo EXCEPT ![j] = {}]
        /\ target' = [target EXCEPT ![j] = None]
        /\ UNCHANGED <<task, due, pushRows, sent>>
    BY <1>9 DEF Push!Succeed, Push!EndRun, Push!Ended, Push!table
  <2>4. Steady
    BY <1>1, <2>1, <2>3 DEF Steady
  <2>5. end = "done" => /\ task[j].id = None => \A i \in due[j] : Dispatched(j, i)'
                        /\ task[j].id # None => Served(j)'
    BY <1>2, <2>1, <2>2, <2>4, SteadyKeeps DEF Proceeds, Through
  <2>6. pushPhase'[j] = end /\ pushPc'[j] = "waiting"
    BY <1>1, <2>1, <2>3
  <2>7. Proceeds(j)'
    BY <2>3, <2>5, <2>6 DEF Proceeds, Through
  <2>8. \A k \in Jobs \ {j} : /\ pushPc'[k] = pushPc[k] /\ pushPhase'[k] = pushPhase[k]
                              /\ due'[k] = due[k] /\ target'[k] = target[k] /\ todo'[k] = todo[k]
    BY <1>1, <2>1, <2>3
  <2> QED
    BY <2>4, <2>7, <2>8, RunProceeds
<1> QED
  BY <1>3, <1>4, <1>5, <1>6, <1>7, <1>8, <1>9

\* The steps of requests and of the push service.
LEMMA OthersProceed ==
    ASSUME Push!PushConstants, DoneInv,
           \/ \E c \in Callers : Push!Rebind(c) \/ Push!Insert(c) \/ Push!SaveFails(c)
           \/ \E e \in Endpoints : Push!Vanish(e)
           \/ \E u \in Users, e \in Endpoints : Push!RemoveSubscription(u, e) \/ Push!FindEndpoint(u, e)
    PROVE  \A j \in Jobs : Proceeds(j)'
<1>1. UNCHANGED <<pushPhase, task, pushPc, todo, target, due, sent>>
  BY DEF Push!Rebind, Push!Insert, Push!Bind, Push!SaveFails, Push!Vanish,
     Push!RemoveSubscription,
         Push!FindEndpoint, Push!queue, Push!work
<1>2. \A i \in used : pushRows'[i] # Push!NoRow =>
            pushRows[i] # Push!NoRow /\ pushRows'[i].endpoint = pushRows[i].endpoint
  <2>1. used \subseteq Subscribed
    BY DEF DoneInv, PushInv, PushTyped
  <2>2. ASSUME NEW c \in Callers, Push!Rebind(c)
        PROVE  \A i \in Subscribed : pushRows'[i] # Push!NoRow =>
                    pushRows[i] # Push!NoRow /\ pushRows'[i].endpoint = pushRows[i].endpoint
    <3>1. caller[c].endpoint # None
      BY <2>2 DEF Push!Rebind, Push!Idle, DoneInv, PushInv, PushTyped, Push!TypeOK,
         Push!PushConstants
    <3>2. pushRows' = [i \in Subscribed |-> IF i \in Push!At(caller[c].endpoint)
                          THEN [owner |-> caller[c].user, endpoint |-> caller[c].endpoint] ELSE pushRows[i]]
      BY <2>2 DEF Push!Rebind, Push!Bind
    <3>3. \A i \in Push!At(caller[c].endpoint) :
            pushRows[i].endpoint = caller[c].endpoint /\ pushRows[i] # Push!NoRow
      BY <3>1 DEF Push!At, Push!NoRow
    <3> QED
      BY <3>2, <3>3
  <2>3. ASSUME NEW c \in Callers, Push!Insert(c)
        PROVE  \A i \in used : pushRows'[i] = pushRows[i]
    <3>1. Push!New(Subscribed \ used) \notin used
      BY <2>3, SomeOfThem DEF Push!Insert
    <3> QED
      BY <2>1, <2>3, <3>1 DEF Push!Insert, Push!Bind
  <2>4. ASSUME NEW u, NEW e, Push!RemoveSubscription(u, e)
        PROVE  \A i \in Subscribed : pushRows'[i] # Push!NoRow => pushRows'[i] = pushRows[i]
    BY <2>4 DEF Push!RemoveSubscription, Push!Without
  <2>5. ASSUME \/ \E c \in Callers : Push!SaveFails(c)
               \/ \E e \in Endpoints : Push!Vanish(e)
               \/ \E u \in Users, e \in Endpoints : Push!FindEndpoint(u, e)
        PROVE  UNCHANGED pushRows
    BY <2>5 DEF Push!SaveFails, Push!Vanish, Push!FindEndpoint, Push!table
  <2> QED
    BY <2>1, <2>2, <2>3, <2>4, <2>5
<1>3. Steady
  BY <1>1, <1>2 DEF Steady
<1> QED
  BY <1>1, <1>3, RestProceeds

LEMMA DoneStep ==
    ASSUME Push!PushConstants, DoneInv, [Push!Next]_(Push!vars)
    PROVE  DoneInv'
<1>1. PushInv'
  BY PushStep DEF DoneInv
<1>2. CASE Push!Next
  <2>1. \A j \in Jobs : Proceeds(j)'
    BY <1>2, NotifyProceeds, DispatchSendProceeds, RunningProceeds, OthersProceed DEF Push!Next
  <2> QED
    BY <1>1, <2>1 DEF DoneInv
<1>3. CASE UNCHANGED Push!vars
  BY <1>1, <1>3 DEF DoneInv, Proceeds, Through, Dispatched, Served, Aims, Push!NoRow,
                    Push!vars, Push!queue, Push!work, Push!table
<1> QED
  BY <1>2, <1>3

(***************************************************************************)
(* Once a push's job is done, and so is the send job of a subscription it  *)
(* found, that subscription was sent to, or is no more: whatever failed    *)
(* and ran again, and whoever's the row is by now.                         *)
(***************************************************************************)
THEOREM DonePushesReachEveryBrowser ==
    ASSUME Push!PushConstants PROVE Push!Spec => []Push!DoneReachesEveryBrowser
<1>1. Push!Init => DoneInv
  <2> SUFFICES ASSUME Push!Init PROVE DoneInv
    OBVIOUS
  <2>1. PushInv
    BY DEF Push!Init, Push!Queue!Init, PushInv, PushTyped, Push!TypeOK, RowsAreBound,
           JobsReachTheirUsers, Push!NoRow, Push!NoTask, Push!Idle
  <2>2. \A j \in Jobs : pushPhase[j] = "absent" /\ pushPc[j] = "waiting"
    BY DEF Push!Init, Push!Queue!Init
  <2> QED
    BY <2>1, <2>2 DEF DoneInv, Proceeds, Through
<1>2. Push!PushConstants /\ DoneInv /\ [Push!Next]_(Push!vars) => DoneInv'
  BY DoneStep
<1>3. Push!PushConstants /\ DoneInv => Push!DoneReachesEveryBrowser
  <2> SUFFICES ASSUME Push!PushConstants, DoneInv, NEW j \in Jobs, pushPhase[j] = "done",
                      task[j].id = None, NEW i \in due[j]
               PROVE  \E k \in Jobs :
                        /\ task[k] = [user |-> task[j].user, id |-> i]
                        /\ pushPhase[k] = "done" /\ pushRows[i] # Push!NoRow =>
                                <<task[k].user, pushRows[i].endpoint>> \in sent
    BY DEF Push!DoneReachesEveryBrowser
  <2>1. i \in Subscribed /\ i # None
    BY DEF DoneInv, PushInv, PushTyped, Push!TypeOK, Push!PushConstants
  <2>2. PICK k \in Jobs : pushPhase[k] # "absent" /\ task[k] = [user |-> task[j].user, id |-> i]
    BY DEF DoneInv, Proceeds, Through, Dispatched
  <2>3. pushPhase[k] = "done" => Served(k)
    BY <2>1, <2>2 DEF DoneInv, Proceeds, Through
  <2> QED
    BY <2>2, <2>3 DEF Served
<1> QED
  BY <1>1, <1>2, <1>3, PTL DEF Push!Spec
=============================================================================
