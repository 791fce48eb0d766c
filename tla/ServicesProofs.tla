---------------------------- MODULE ServicesProofs ----------------------------
(***************************************************************************)
(* Proofs about the packages of Services: first each of them alone, then   *)
(* what that says of the services together.                                *)
(***************************************************************************)
EXTENDS Services, Sequences, FiniteSetTheorems, TLAPS

(***************************************************************************)
(* vike-stripe: the subscription webhook, for every number of events and   *)
(* whatever they say, however they are delivered.                          *)
(***************************************************************************)

(***************************************************************************)
(* A handler that serves an event has one, which occurred already, and the *)
(* row carries no time that is not past.                                   *)
(***************************************************************************)
Timely ==
    /\ row.updatedAt <= now
    /\ \A h \in Handlers : pc[h] # "idle" =>
            /\ event[h] \in Events
            /\ OccurredAt[event[h]] = NoTime \/ OccurredAt[event[h]] <= now

LEMMA StampIsPast ==
    ASSUME NEW e \in Events, now \in Nat,
           OccurredAt[e] = NoTime \/ OccurredAt[e] <= now
    PROVE  Stamp(e) \in Nat /\ Stamp(e) <= now
BY BillingConstants DEF Stamp

LEMMA RowOfEvent ==
    ASSUME NEW e \in Events, Stamp(e) \in Nat
    PROVE  /\ RowOf(e) \in Row
           /\ RowOf(e).updatedAt = Stamp(e)
           /\ RowOf(e).status = StatusOf[e]
           /\ RowOf(e) # NoRow
BY BillingConstants DEF RowOf, Row, NoRow

LEMMA NoRowIsRow == NoRow \in Row
BY DEF NoRow, Row

(***************************************************************************)
(* Type correctness, and that time runs forward.                           *)
(***************************************************************************)
LEMMA TypeInvariant == Spec => [](TypeOK /\ Timely)
<1> USE BillingConstants
<1>1. Init => TypeOK /\ Timely
  BY NoRowIsRow DEF Init, TypeOK, Timely, NoRow, Points
<1>2. TypeOK /\ Timely /\ [Next]_vars => TypeOK' /\ Timely'
  <2> SUFFICES ASSUME TypeOK, Timely, [Next]_vars
               PROVE  TypeOK' /\ Timely'
    OBVIOUS
  <2> USE NoRowIsRow DEF TypeOK, Timely, Points, Goto, Finish, Answer, handlers, stripe
  <2>1. ASSUME NEW h \in Handlers, NEW e \in Events, Receive(h, e)
        PROVE  TypeOK' /\ Timely'
    BY <2>1 DEF Receive, Deliverable
  <2>2. ASSUME NEW h \in Handlers, NEW e \in Events, ReceiveStale(h, e)
        PROVE  TypeOK' /\ Timely'
    BY <2>2 DEF ReceiveStale
  <2>3. ASSUME NEW h \in Handlers, Upsert(h)
        PROVE  TypeOK' /\ Timely'
    <3>1. /\ event[h] \in Events
          /\ OccurredAt[event[h]] = NoTime \/ OccurredAt[event[h]] <= now
      BY <2>3 DEF Upsert
    <3>2. Stamp(event[h]) \in Nat /\ Stamp(event[h]) <= now
      BY <3>1, StampIsPast
    <3>3. row' \in Row /\ row'.updatedAt <= now
      BY <2>3, <3>1, <3>2, RowOfEvent DEF Upsert
    <3>4. TypeOK'
      BY <2>3, <3>3 DEF Upsert
    <3>5. Timely'
      BY <2>3, <3>3 DEF Upsert
    <3>6. QED
      BY <3>4, <3>5
  <2>4. ASSUME NEW h \in Handlers, Emit(h)
        PROVE  TypeOK' /\ Timely'
    BY <2>4 DEF Emit
  <2>5. ASSUME NEW h \in Handlers, EmitThrows(h)
        PROVE  TypeOK' /\ Timely'
    BY <2>5 DEF EmitThrows
  <2>6. ASSUME NEW h \in Handlers, Abort(h)
        PROVE  TypeOK' /\ Timely'
    BY <2>6 DEF Abort
  <2>7. CASE Tick
    <3>1. TypeOK'
      BY <2>7 DEF Tick
    <3>2. row'.updatedAt <= now'
      <4>1. row.updatedAt \in Nat
        BY DEF Row
      <4>2. QED
        BY <2>7, <4>1 DEF Tick
    <3>3. ASSUME NEW h \in Handlers, pc'[h] # "idle"
          PROVE  /\ event'[h] \in Events
                 /\ OccurredAt[event'[h]] = NoTime \/ OccurredAt[event'[h]] <= now'
      <4>1. OccurredAt[event[h]] \in Nat \union {NoTime}
        BY <2>7, <3>3 DEF Tick
      <4>2. QED
        BY <2>7, <3>3, <4>1 DEF Tick
    <3>4. Timely'
      BY <3>2, <3>3
    <3>5. QED
      BY <3>1, <3>4
  <2>8. CASE UNCHANGED vars
    BY <2>8 DEF vars
  <2>9. QED
    BY <2>1, <2>2, <2>3, <2>4, <2>5, <2>6, <2>7, <2>8 DEF Next, Deliver, Serve
<1>3. QED
  BY <1>1, <1>2, PTL DEF Spec

(***************************************************************************)
(* Type correctness.                                                       *)
(***************************************************************************)
THEOREM TypeCorrect == Spec => []TypeOK
BY TypeInvariant, PTL

-----------------------------------------------------------------------------

(***************************************************************************)
(* As long as deliveries for the subject do not overlap, what a handler    *)
(* read is still the row when it writes, so its stale check is about the   *)
(* row it overwrites and the transition it sees is one of the row.         *)
(***************************************************************************)
Serial == \A g, h \in Handlers : pc[g] # "idle" /\ pc[h] # "idle" => g = h

Fresh ==
    \A h \in Handlers : pc[h] = "upsert" =>
        /\ previous[h] = row
        /\ OccurredAt[event[h]] # NoTime => row.updatedAt <= OccurredAt[event[h]]

LEMMA FreshInvariant == Spec /\ []Serial => [](TypeOK /\ Timely /\ Fresh)
<1> USE BillingConstants DEF Serial
<1>1. Init => Fresh
  BY DEF Init, Fresh
<1>2. Serial /\ TypeOK /\ Timely /\ Fresh /\ [Next]_vars => Fresh'
  <2> SUFFICES ASSUME Serial, TypeOK, Timely, Fresh, [Next]_vars
               PROVE  Fresh'
    OBVIOUS
  <2> USE DEF TypeOK, Timely, Fresh, Points, Goto, Finish, Answer, handlers, stripe
  <2>1. ASSUME NEW h \in Handlers, NEW e \in Events, Receive(h, e)
        PROVE  Fresh'
    BY <2>1 DEF Receive, Deliverable, Stale, NoRow, Row
  <2>2. ASSUME NEW h \in Handlers, NEW e \in Events, ReceiveStale(h, e)
        PROVE  Fresh'
    BY <2>2 DEF ReceiveStale
  <2>3. ASSUME NEW h \in Handlers, Upsert(h)
        PROVE  Fresh'
    BY <2>3 DEF Upsert
  <2>4. ASSUME NEW h \in Handlers, Emit(h)
        PROVE  Fresh'
    BY <2>4 DEF Emit
  <2>5. ASSUME NEW h \in Handlers, EmitThrows(h)
        PROVE  Fresh'
    BY <2>5 DEF EmitThrows
  <2>6. ASSUME NEW h \in Handlers, Abort(h)
        PROVE  Fresh'
    BY <2>6 DEF Abort
  <2>7. CASE Tick
    BY <2>7 DEF Tick
  <2>8. CASE UNCHANGED vars
    BY <2>8 DEF vars
  <2>9. QED
    BY <2>1, <2>2, <2>3, <2>4, <2>5, <2>6, <2>7, <2>8 DEF Next, Deliver, Serve
<1>3. QED
  BY <1>1, <1>2, TypeInvariant, PTL DEF Spec

(***************************************************************************)
(* applySubscriptionEvent: as long as deliveries for a subject do not      *)
(* overlap, they never take the row back to an older event.                *)
(***************************************************************************)
THEOREM SerialDeliveriesKeepOrder == Spec /\ []Serial => RowNeverOlder
<1> DEFINE Newer == row' # row => row'.updatedAt >= row.updatedAt
<1>1. TypeOK /\ Timely /\ Fresh /\ [Next]_vars => [Newer]_vars
  <2> SUFFICES ASSUME TypeOK, Timely, Fresh, [Next]_vars
               PROVE  Newer
    OBVIOUS
  <2>1. ASSUME NEW h \in Handlers, NEW e \in Events, Receive(h, e)
        PROVE  Newer
    BY <2>1 DEF Receive, handlers
  <2>2. ASSUME NEW h \in Handlers, NEW e \in Events, ReceiveStale(h, e)
        PROVE  Newer
    BY <2>2 DEF ReceiveStale, handlers
  <2>3. ASSUME NEW h \in Handlers, Upsert(h)
        PROVE  Newer
    <3>1. /\ event[h] \in Events
          /\ OccurredAt[event[h]] = NoTime \/ OccurredAt[event[h]] <= now
          /\ OccurredAt[event[h]] # NoTime => row.updatedAt <= OccurredAt[event[h]]
      BY <2>3 DEF Upsert, Timely, Fresh
    <3>2. Stamp(event[h]) \in Nat
      BY <3>1, StampIsPast DEF TypeOK
    <3>3. row'.updatedAt = Stamp(event[h])
      BY <2>3, <3>1, <3>2, RowOfEvent DEF Upsert
    <3>4. row.updatedAt <= now /\ row.updatedAt \in Nat
      BY DEF Timely, TypeOK, Row
    <3>5. QED
      BY <3>1, <3>2, <3>3, <3>4 DEF Stamp
  <2>4. ASSUME NEW h \in Handlers, Emit(h)
        PROVE  Newer
    BY <2>4 DEF Emit, handlers
  <2>5. ASSUME NEW h \in Handlers, EmitThrows(h)
        PROVE  Newer
    BY <2>5 DEF EmitThrows, handlers
  <2>6. ASSUME NEW h \in Handlers, Abort(h)
        PROVE  Newer
    BY <2>6 DEF Abort, handlers
  <2>7. CASE Tick
    BY <2>7 DEF Tick, handlers
  <2>8. CASE UNCHANGED vars
    BY <2>8 DEF vars, handlers
  <2>9. QED
    BY <2>1, <2>2, <2>3, <2>4, <2>5, <2>6, <2>7, <2>8 DEF Next, Deliver, Serve
<1>2. Spec /\ []Serial => [][Newer]_vars
  BY <1>1, FreshInvariant, PTL DEF Spec
<1>3. QED
  BY <1>2 DEF RowNeverOlder

(***************************************************************************)
(* onSubscriptionApplied: a handler that will notify has moved the row     *)
(* into past_due, and nobody has notified for that move.                   *)
(***************************************************************************)
Due ==
    /\ notified <= transitions
    /\ \A h \in Handlers : pc[h] = "emit" /\ Transition(h) => notified < transitions

(***************************************************************************)
(* As long as deliveries for a subject do not overlap, they notify at most *)
(* once per transition.                                                    *)
(***************************************************************************)
THEOREM SerialDeliveriesNotifyTransitions == Spec /\ []Serial => []NotifiedPerTransition
<1> USE BillingConstants DEF Serial
<1>1. Init => Due
  BY DEF Init, Due
<1>2. Serial /\ TypeOK /\ Timely /\ Fresh /\ Due /\ [Next]_vars => Due'
  <2> SUFFICES ASSUME Serial, TypeOK, Timely, Fresh, Due, [Next]_vars
               PROVE  Due'
    OBVIOUS
  <2> USE DEF TypeOK, Timely, Fresh, Due, Transition, Points, Goto, Finish, Answer, handlers, stripe
  <2>1. ASSUME NEW h \in Handlers, NEW e \in Events, Receive(h, e)
        PROVE  Due'
    BY <2>1 DEF Receive
  <2>2. ASSUME NEW h \in Handlers, NEW e \in Events, ReceiveStale(h, e)
        PROVE  Due'
    BY <2>2 DEF ReceiveStale
  <2>3. ASSUME NEW h \in Handlers, Upsert(h)
        PROVE  Due'
    BY <2>3 DEF Upsert
  <2>4. ASSUME NEW h \in Handlers, Emit(h)
        PROVE  Due'
    BY <2>4 DEF Emit
  <2>5. ASSUME NEW h \in Handlers, EmitThrows(h)
        PROVE  Due'
    BY <2>5 DEF EmitThrows
  <2>6. ASSUME NEW h \in Handlers, Abort(h)
        PROVE  Due'
    BY <2>6 DEF Abort
  <2>7. CASE Tick
    BY <2>7 DEF Tick
  <2>8. CASE UNCHANGED vars
    BY <2>8 DEF vars
  <2>9. QED
    BY <2>1, <2>2, <2>3, <2>4, <2>5, <2>6, <2>7, <2>8 DEF Next, Deliver, Serve
<1>3. Due => NotifiedPerTransition
  BY DEF Due, NotifiedPerTransition
<1>4. QED
  BY <1>1, <1>2, <1>3, FreshInvariant, PTL DEF Spec

-----------------------------------------------------------------------------

LEMMA SameCardinality ==
    ASSUME NEW S
    PROVE  Actions!Cardinality(S) = Cardinality(S) /\ Purchases!Cardinality(S) = Cardinality(S)
BY DEF Actions!Cardinality, Purchases!Cardinality, Cardinality

-----------------------------------------------------------------------------

(***************************************************************************)
(* vike-actions and vike-csrf: a request to an action endpoint, however often*)
(* the server collects it, whatever it claims and however its action is    *)
(* registered meanwhile.                                                   *)
(***************************************************************************)

\* A handler that took the request; the others wait, or passed it on.
Took(h) == requestPc[h] \notin {"waiting", "passed"}
Serving(h) == requestPc[h] \in {"read", "resolve", "lookup", "guard", "run", "hint"}

\* A request that is no POST is refused by all handlers alike; another is taken by
\* one handler.
OneTakesIt ==
    /\ \A h \in Servers : requestPc[h] # "waiting" => request \in Actions!Sent
    /\ \A h \in Servers : Took(h) /\ ~request.post => requestPc[h] = "answered" /\ status[h] = 405
    /\ \A h \in Servers : Took(h) /\ request.post => handled
    /\ \A g, h \in Servers : Took(g) /\ Took(h) /\ request.post => g = h

\* What is served passed the origin checks, and is a POST.
Allowed ==
    (\E h \in Servers : Serving(h)) \/ ran # {} =>
        request \in Actions!Sent /\ request.post /\ ~Actions!Denied

\* What ran is the definition its handler looked up and whose guard it passed.
BehindGuard ==
    /\ \A h \in Servers : requestPc[h] \in {"guard", "run", "hint"} => action[h] \in Definitions
    /\ \A h \in Servers : requestPc[h] = "run" => <<h, action[h]>> \in passed
    /\ \A h \in Servers, d \in Definitions : <<h, d>> \in ran =>
            /\ requestPc[h] \in {"hint", "answered", "thrown"} /\ d = action[h] /\ <<h, d>> \in passed

RequestInv == Actions!TypeOK /\ OneTakesIt /\ Allowed /\ BehindGuard

LEMMA RequestInvariant ==
    ASSUME Actions!RequestConstants, None \notin Actions!Sent
    PROVE  Actions!Spec => []RequestInv
<1> USE DEF Actions!RequestConstants, RequestInv, Took, Serving
<1>1. Actions!Init => RequestInv
  <2> SUFFICES ASSUME Actions!Init PROVE RequestInv
    OBVIOUS
  <2>1. Actions!TypeOK
    BY DEF Actions!Init, Actions!TypeOK, Actions!Points
  <2>2. OneTakesIt
    BY DEF Actions!Init, OneTakesIt
  <2>3. Allowed
    BY DEF Actions!Init, Allowed
  <2>4. BehindGuard
    BY DEF Actions!Init, BehindGuard
  <2> QED
    BY <2>1, <2>2, <2>3, <2>4
<1>2. RequestInv /\ [Actions!Next]_(Actions!vars) => RequestInv'
  <2> SUFFICES ASSUME RequestInv, [Actions!Next]_(Actions!vars) PROVE RequestInv'
    OBVIOUS
  <2> USE DEF Actions!Goto, Actions!Answer, Actions!Throw, Actions!Reply
  <2>1. CASE Actions!Send
    <3>1. Actions!TypeOK'
      BY <2>1 DEF Actions!Send, Actions!TypeOK, Actions!Points, BehindGuard
    <3>2. OneTakesIt'
      BY <2>1 DEF Actions!Send, Actions!TypeOK, OneTakesIt
    <3>3. Allowed'
      BY <2>1 DEF Actions!Send, Actions!TypeOK, OneTakesIt, Allowed, Actions!Denied,
         Actions!SameOrigin, Actions!SiteHeader
    <3>4. BehindGuard'
      BY <2>1 DEF Actions!Send, Actions!TypeOK, BehindGuard
    <3> QED
      BY <3>1, <3>2, <3>3, <3>4
  <2>2. ASSUME NEW d \in Definitions \union {None}, Actions!Register(d) PROVE RequestInv'
    <3>1. Actions!TypeOK'
      BY <2>2 DEF Actions!Register, Actions!TypeOK, Actions!Points, BehindGuard
    <3>2. OneTakesIt'
      BY <2>2 DEF Actions!Register, Actions!TypeOK, OneTakesIt
    <3>3. Allowed'
      BY <2>2 DEF Actions!Register, Actions!TypeOK, OneTakesIt, Allowed, Actions!Denied,
         Actions!SameOrigin, Actions!SiteHeader
    <3>4. BehindGuard'
      BY <2>2 DEF Actions!Register, Actions!TypeOK, BehindGuard
    <3> QED
      BY <3>1, <3>2, <3>3, <3>4
  <2>3. ASSUME NEW h \in Servers, Actions!Collect(h) PROVE RequestInv'
    <3>1. Actions!TypeOK'
      BY <2>3 DEF Actions!Collect, Actions!Taken, Actions!TypeOK, Actions!Points, BehindGuard
    <3>2. OneTakesIt'
      <4> USE DEF OneTakesIt, Actions!TypeOK
      <4>1. request \in Actions!Sent /\ request' = request
        BY <2>3 DEF Actions!Collect
      <4>2. CASE ~request.post
        <5>1. requestPc' = [requestPc EXCEPT ![h] = "answered"] /\ status' = [status EXCEPT ![h] = 405]
          BY <2>3, <4>2 DEF Actions!Collect
        <5> QED
          BY <4>1, <4>2, <5>1
      <4>3. CASE request.post /\ handled
        <5>1. requestPc' = [requestPc EXCEPT ![h] = "passed"] /\ handled' = TRUE
          BY <2>3, <4>3 DEF Actions!Collect, Actions!Taken
        <5> QED
          BY <4>1, <4>3, <5>1
      <4>4. CASE request.post /\ ~handled
        <5>1. handled' = TRUE /\ \A g \in Servers : ~Took(g)
          BY <2>3, <4>4 DEF Actions!Collect
        <5>2. \A g \in Servers \ {h} : requestPc'[g] = requestPc[g]
          BY <2>3 DEF Actions!Collect
        <5> QED
          BY <4>1, <4>4, <5>1, <5>2
      <4> QED
        BY <4>2, <4>3, <4>4
    <3>3. Allowed'
      BY <2>3 DEF Actions!Collect, Actions!Taken, Actions!TypeOK, OneTakesIt, Allowed,
         Actions!Denied, Actions!SameOrigin, Actions!SiteHeader
    <3>4. BehindGuard'
      BY <2>3 DEF Actions!Collect, Actions!Taken, Actions!TypeOK, BehindGuard
    <3> QED
      BY <3>1, <3>2, <3>3, <3>4
  <2>4. ASSUME NEW h \in Servers, Actions!ReadBody(h) PROVE RequestInv'
    <3>1. Actions!TypeOK'
      BY <2>4 DEF Actions!ReadBody, Actions!TypeOK, Actions!Points, BehindGuard
    <3>2. OneTakesIt'
      BY <2>4 DEF Actions!ReadBody, Actions!TypeOK, OneTakesIt
    <3>3. Allowed'
      BY <2>4 DEF Actions!ReadBody, Actions!TypeOK, OneTakesIt, Allowed, Actions!Denied,
         Actions!SameOrigin, Actions!SiteHeader
    <3>4. BehindGuard'
      BY <2>4 DEF Actions!ReadBody, Actions!TypeOK, BehindGuard
    <3> QED
      BY <3>1, <3>2, <3>3, <3>4
  <2>5. ASSUME NEW h \in Servers, Actions!ResolveUser(h) PROVE RequestInv'
    <3>1. Actions!TypeOK'
      BY <2>5 DEF Actions!ResolveUser, Actions!TypeOK, Actions!Points, BehindGuard
    <3>2. OneTakesIt'
      BY <2>5 DEF Actions!ResolveUser, Actions!TypeOK, OneTakesIt
    <3>3. Allowed'
      BY <2>5 DEF Actions!ResolveUser, Actions!TypeOK, OneTakesIt, Allowed, Actions!Denied,
         Actions!SameOrigin, Actions!SiteHeader
    <3>4. BehindGuard'
      BY <2>5 DEF Actions!ResolveUser, Actions!TypeOK, BehindGuard
    <3> QED
      BY <3>1, <3>2, <3>3, <3>4
  <2>6. ASSUME NEW h \in Servers, Actions!ResolveThrows(h) PROVE RequestInv'
    <3>1. Actions!TypeOK'
      BY <2>6 DEF Actions!ResolveThrows, Actions!TypeOK, Actions!Points, BehindGuard
    <3>2. OneTakesIt'
      BY <2>6 DEF Actions!ResolveThrows, Actions!TypeOK, OneTakesIt
    <3>3. Allowed'
      BY <2>6 DEF Actions!ResolveThrows, Actions!TypeOK, OneTakesIt, Allowed, Actions!Denied,
         Actions!SameOrigin, Actions!SiteHeader
    <3>4. BehindGuard'
      BY <2>6 DEF Actions!ResolveThrows, Actions!TypeOK, BehindGuard
    <3> QED
      BY <3>1, <3>2, <3>3, <3>4
  <2>7. ASSUME NEW h \in Servers, Actions!LookUp(h) PROVE RequestInv'
    <3>1. Actions!TypeOK'
      BY <2>7 DEF Actions!LookUp, Actions!TypeOK, Actions!Points, BehindGuard
    <3>2. OneTakesIt'
      BY <2>7 DEF Actions!LookUp, Actions!TypeOK, OneTakesIt
    <3>3. Allowed'
      BY <2>7 DEF Actions!LookUp, Actions!TypeOK, OneTakesIt, Allowed, Actions!Denied,
         Actions!SameOrigin, Actions!SiteHeader
    <3>4. BehindGuard'
      BY <2>7 DEF Actions!LookUp, Actions!TypeOK, BehindGuard
    <3> QED
      BY <3>1, <3>2, <3>3, <3>4
  <2>8. ASSUME NEW h \in Servers, Actions!Guard(h) PROVE RequestInv'
    <3>1. Actions!TypeOK'
      BY <2>8 DEF Actions!Guard, Actions!TypeOK, Actions!Points, BehindGuard
    <3>2. OneTakesIt'
      BY <2>8 DEF Actions!Guard, Actions!TypeOK, OneTakesIt
    <3>3. Allowed'
      BY <2>8 DEF Actions!Guard, Actions!TypeOK, OneTakesIt, Allowed, Actions!Denied,
         Actions!SameOrigin, Actions!SiteHeader
    <3>4. BehindGuard'
      BY <2>8 DEF Actions!Guard, Actions!TypeOK, BehindGuard
    <3> QED
      BY <3>1, <3>2, <3>3, <3>4
  <2>9. ASSUME NEW h \in Servers, Actions!Run(h) PROVE RequestInv'
    <3>1. Actions!TypeOK'
      BY <2>9 DEF Actions!Run, Actions!Runs, Actions!TypeOK, Actions!Points, BehindGuard
    <3>2. OneTakesIt'
      BY <2>9 DEF Actions!Run, Actions!Runs, Actions!TypeOK, OneTakesIt
    <3>3. Allowed'
      BY <2>9 DEF Actions!Run, Actions!Runs, Actions!TypeOK, OneTakesIt, Allowed, Actions!Denied,
         Actions!SameOrigin, Actions!SiteHeader
    <3>4. BehindGuard'
      BY <2>9 DEF Actions!Run, Actions!Runs, Actions!TypeOK, BehindGuard
    <3> QED
      BY <3>1, <3>2, <3>3, <3>4
  <2>10. ASSUME NEW h \in Servers, Actions!Hint(h) PROVE RequestInv'
    <3>1. Actions!TypeOK'
      BY <2>10 DEF Actions!Hint, Actions!TypeOK, Actions!Points, BehindGuard
    <3>2. OneTakesIt'
      BY <2>10 DEF Actions!Hint, Actions!TypeOK, OneTakesIt
    <3>3. Allowed'
      BY <2>10 DEF Actions!Hint, Actions!TypeOK, OneTakesIt, Allowed, Actions!Denied,
         Actions!SameOrigin, Actions!SiteHeader
    <3>4. BehindGuard'
      BY <2>10 DEF Actions!Hint, Actions!TypeOK, BehindGuard
    <3> QED
      BY <3>1, <3>2, <3>3, <3>4
  <2>11. CASE UNCHANGED Actions!vars
    <3>1. Actions!TypeOK'
      BY <2>11 DEF Actions!vars, Actions!TypeOK, Actions!Points, BehindGuard
    <3>2. OneTakesIt'
      BY <2>11 DEF Actions!vars, Actions!TypeOK, OneTakesIt
    <3>3. Allowed'
      BY <2>11 DEF Actions!vars, Actions!TypeOK, OneTakesIt, Allowed, Actions!Denied,
         Actions!SameOrigin, Actions!SiteHeader
    <3>4. BehindGuard'
      BY <2>11 DEF Actions!vars, Actions!TypeOK, BehindGuard
    <3> QED
      BY <3>1, <3>2, <3>3, <3>4
  <2> QED
    BY <2>1, <2>2, <2>3, <2>4, <2>5, <2>6, <2>7, <2>8, <2>9, <2>10, <2>11 DEF Actions!Next,
       Actions!Step
<1> QED
  BY <1>1, <1>2, PTL DEF Actions!Spec

(***************************************************************************)
(* Type correctness of the endpoint and its pipeline.                      *)
(***************************************************************************)
THEOREM RequestsTypeCorrect ==
    ASSUME Actions!RequestConstants, None \notin Actions!Sent
    PROVE  Actions!Spec => []Actions!TypeOK
<1>1. RequestInv => Actions!TypeOK
  BY DEF RequestInv
<1>2. QED
  BY <1>1, RequestInvariant, PTL

(***************************************************************************)
(* "without this guard a second run would re-read the body and, for a      *)
(* write, insert twice": one request runs at most one action, once, and    *)
(* its answers agree, however many handlers are collected for it.          *)
(***************************************************************************)
THEOREM RequestHandledOnce ==
    ASSUME Actions!RequestConstants, None \notin Actions!Sent
    PROVE  Actions!Spec => []Actions!HandledOnce
<1>1. RequestInv => Actions!HandledOnce
  <2> SUFFICES ASSUME RequestInv PROVE Actions!HandledOnce
    OBVIOUS
  <2> USE DEF RequestInv, OneTakesIt, Took
  <2>1. ASSUME ran # {} PROVE Cardinality(ran) = 1
    <3>1. PICK h \in Servers, d \in Definitions : <<h, d>> \in ran
      <4>1. PICK r \in ran : TRUE
        BY <2>1
      <4>2. r \in Servers \X Definitions
        BY <4>1 DEF Actions!TypeOK
      <4> QED
        BY <4>1, <4>2
    <3>2. ASSUME NEW g \in Servers, NEW e \in Definitions, <<g, e>> \in ran
          PROVE  g = h /\ e = d
      BY <3>1, <3>2 DEF BehindGuard, Allowed
    <3>3. ran = {<<h, d>>}
      BY <3>1, <3>2 DEF Actions!TypeOK
    <3> QED
      BY <3>3, FS_Singleton
  <2>2. Cardinality(ran) <= 1
    <3>1. CASE ran = {}
      BY <3>1, FS_EmptySet
    <3>2. CASE ran # {}
      BY <2>1, <3>2
    <3> QED
      BY <3>1, <3>2
  <2>3. ASSUME NEW g \in Servers, NEW h \in Servers, {requestPc[g], requestPc[h]} = {"answered"}
        PROVE  status[g] = status[h]
    <3>1. requestPc[g] = "answered" /\ requestPc[h] = "answered"
      BY <2>3
    <3>2. request \in Actions!Sent /\ request.post \in BOOLEAN
      BY <3>1 DEF Actions!Sent
    <3>3. CASE request.post
      BY <3>1, <3>3
    <3>4. CASE ~request.post
      BY <3>1, <3>4
    <3> QED
      BY <3>2, <3>3, <3>4
  <2> QED
    BY <2>2, <2>3, SameCardinality DEF Actions!HandledOnce
<1>2. QED
  BY <1>1, RequestInvariant, PTL

(***************************************************************************)
(* What runs is what its own guard let pass, and no page of an origin that *)
(* the app does not trust makes an action run.                             *)
(***************************************************************************)
THEOREM RunsAreGuarded ==
    ASSUME Actions!RequestConstants, None \notin Actions!Sent
    PROVE  Actions!Spec => [](Actions!RunsBehindItsGuard /\ Actions!OnlyTrustedPagesRun)
<1>1. RequestInv => Actions!RunsBehindItsGuard
  <2> SUFFICES ASSUME RequestInv, NEW r \in ran PROVE r \in passed
    BY DEF Actions!RunsBehindItsGuard
  <2>1. PICK h \in Servers, d \in Definitions : r = <<h, d>>
    BY DEF RequestInv, Actions!TypeOK
  <2> QED
    BY <2>1 DEF RequestInv, BehindGuard
<1>2. Actions!RequestConstants /\ RequestInv => Actions!OnlyTrustedPagesRun
  BY DEF Actions!RequestConstants, RequestInv, Allowed, Actions!Denied, Actions!SameOrigin,
     Actions!SiteHeader, Actions!OnlyTrustedPagesRun
<1>3. QED
  BY <1>1, <1>2, RequestInvariant, PTL

-----------------------------------------------------------------------------
(***************************************************************************)
(* vike-storage, for every number of requests, owners, files and faults.   *)
(***************************************************************************)

Storing(h) == uploadPc[h] \in {"put", "insert"}
Deleting(h) == uploadPc[h] \in {"remove", "delete"}

\* A handler that stores a file has it to itself: no row, no answer, no other handler.
StoresAlone ==
    \A h \in Servers : Storing(h) =>
        /\ job[h].file \in issued \ stored
        /\ job[h].owner \in Owners
        /\ uploadPc[h] = "insert" => job[h].file \in objects
        /\ \A g \in Servers \ {h} : Storing(g) => job[g].file # job[h].file

\* A handler that deletes a file found its row, and removes the bytes first.
DeletesWhatItFound ==
    \A h \in Servers : Deleting(h) =>
        /\ <<job[h].file, job[h].owner>> \in deletions
        /\ uploadPc[h] = "delete" => job[h].file \notin objects

\* Keys are issued before bytes and rows, and rows are answered before deletions.
InOrder ==
    /\ objects \subseteq issued /\ stored \subseteq issued
    /\ \A f \in Files : uploadOwner[f] # None => f \in stored
    /\ \A f \in Files, u \in Owners : <<f, u>> \in deletions => f \in stored
    /\ \A f \in Files, u \in Owners : <<f, u>> \in deletions => uploadOwner[f] \in {u, None}
    /\ \A f \in Files : deleted[f] > 0 => f \in stored

UploadInv ==
    /\ Storage!TypeOK /\ StoresAlone /\ DeletesWhatItFound /\ InOrder
    /\ Storage!RowsHaveTheirBytes /\ Storage!DeletedIsGone /\ Storage!LostBytesWereNeverAnswered

LEMMA JobFields ==
    ASSUME Storage!TypeOK, NEW h \in Servers
    PROVE  job[h].file \in Files \union {None} /\ job[h].owner \in Owners \union {None}
BY DEF Storage!TypeOK

LEMMA NoJobTyped == Storage!NoJob \in [file : Files \union {None}, owner : Owners \union {None}]
BY DEF Storage!NoJob

LEMMA Pair ==
    ASSUME NEW D \in SUBSET (Files \X Owners), NEW f, NEW u, <<f, u>> \in D
    PROVE  f \in Files /\ u \in Owners
OBVIOUS

LEMMA ZeroOrOne == ASSUME NEW n \in Nat, n <= 1, n # 1 PROVE n = 0
OBVIOUS

LEMMA UploadInit == ASSUME Storage!UploadConstants PROVE Storage!Init => UploadInv
BY NoJobTyped DEF Storage!Init, Storage!UploadConstants, UploadInv, Storage!TypeOK, StoresAlone,
   DeletesWhatItFound, InOrder,
    Storage!RowsHaveTheirBytes, Storage!DeletedIsGone, Storage!LostBytesWereNeverAnswered, Storing, Deleting

LEMMA UploadStep ==
    ASSUME Storage!UploadConstants
    PROVE  UploadInv /\ [Storage!Next]_(Storage!vars) => UploadInv'
<1> SUFFICES ASSUME UploadInv, [Storage!Next]_(Storage!vars) PROVE UploadInv'
  OBVIOUS
<1> USE Storage!UploadConstants, NoJobTyped
    DEF Storage!UploadConstants, UploadInv, Storage!TypeOK, StoresAlone, DeletesWhatItFound,
        InOrder, Storing, Deleting,
        Storage!RowsHaveTheirBytes, Storage!DeletedIsGone, Storage!LostBytesWereNeverAnswered,
        Storage!Goto, Storage!Done, Storage!history
<1>1. ASSUME NEW h \in Servers, NEW f \in Files, NEW u \in Owners, Storage!Store(h, f, u)
      PROVE  UploadInv'
  <2>1. Storage!TypeOK'
    BY <1>1 DEF Storage!Store
  <2>2. StoresAlone'
    BY <1>1 DEF Storage!Store
  <2>3. DeletesWhatItFound'
    BY <1>1 DEF Storage!Store
  <2>4. InOrder'
    BY <1>1 DEF Storage!Store
  <2>5. Storage!RowsHaveTheirBytes'
    BY <1>1 DEF Storage!Store
  <2>6. Storage!DeletedIsGone'
    BY <1>1 DEF Storage!Store
  <2>7. Storage!LostBytesWereNeverAnswered'
    BY <1>1 DEF Storage!Store
  <2> QED
    BY <2>1, <2>2, <2>3, <2>4, <2>5, <2>6, <2>7
<1>2. ASSUME NEW h \in Servers, Storage!Put(h)
      PROVE  UploadInv'
  <2>1. Storage!TypeOK'
    BY <1>2 DEF Storage!Put
  <2>2. StoresAlone'
    BY <1>2 DEF Storage!Put
  <2>3. DeletesWhatItFound'
    BY <1>2 DEF Storage!Put
  <2>4. InOrder'
    BY <1>2 DEF Storage!Put
  <2>5. Storage!RowsHaveTheirBytes'
    BY <1>2 DEF Storage!Put
  <2>6. Storage!DeletedIsGone'
    BY <1>2 DEF Storage!Put
  <2>7. Storage!LostBytesWereNeverAnswered'
    BY <1>2 DEF Storage!Put
  <2> QED
    BY <2>1, <2>2, <2>3, <2>4, <2>5, <2>6, <2>7
<1>3. ASSUME NEW h \in Servers, Storage!InsertRow(h)
      PROVE  UploadInv'
  <2>1. Storage!TypeOK'
    BY <1>3 DEF Storage!InsertRow
  <2>2. StoresAlone'
    BY <1>3 DEF Storage!InsertRow
  <2>3. DeletesWhatItFound'
    BY <1>3 DEF Storage!InsertRow
  <2>4. InOrder'
    BY <1>3 DEF Storage!InsertRow
  <2>5. Storage!RowsHaveTheirBytes'
    BY <1>3 DEF Storage!InsertRow
  <2>6. Storage!DeletedIsGone'
    BY <1>3 DEF Storage!InsertRow
  <2>7. Storage!LostBytesWereNeverAnswered'
    BY <1>3 DEF Storage!InsertRow
  <2> QED
    BY <2>1, <2>2, <2>3, <2>4, <2>5, <2>6, <2>7
<1>4. ASSUME NEW h \in Servers, NEW f \in Files, NEW u \in Owners, Storage!FindRow(h, f, u)
      PROVE  UploadInv'
  <2>1. Storage!TypeOK'
    BY <1>4 DEF Storage!FindRow
  <2>2. StoresAlone'
    BY <1>4 DEF Storage!FindRow
  <2>3. DeletesWhatItFound'
    BY <1>4 DEF Storage!FindRow
  <2>4. InOrder'
    <3>1. ASSUME NEW g \in Files, NEW v \in Owners, <<g, v>> \in deletions'
          PROVE  g \in stored /\ uploadOwner[g] \in {v, None}
      <4>1. CASE <<g, v>> \in deletions
        BY <4>1
      <4>2. CASE g = f /\ v = u
        BY <1>4, <4>2 DEF Storage!FindRow, Storage!Finds
      <4> QED
        BY <1>4, <3>1, <4>1, <4>2 DEF Storage!FindRow
    <3> QED
      BY <1>4, <3>1 DEF Storage!FindRow
  <2>5. Storage!RowsHaveTheirBytes'
    BY <1>4 DEF Storage!FindRow
  <2>6. Storage!DeletedIsGone'
    BY <1>4 DEF Storage!FindRow
  <2>7. Storage!LostBytesWereNeverAnswered'
    BY <1>4 DEF Storage!FindRow
  <2> QED
    BY <2>1, <2>2, <2>3, <2>4, <2>5, <2>6, <2>7
<1>5. ASSUME NEW h \in Servers, Storage!RemoveBytes(h)
      PROVE  UploadInv'
  <2>1. PICK f \in Files, u \in Owners :
          /\ job[h].file = f /\ job[h].owner = u
          /\ <<f, u>> \in deletions /\ f \in stored /\ uploadOwner[f] \in {None, u}
          /\ objects' = objects \ {f}
    <3>1. <<job[h].file, job[h].owner>> \in deletions /\ deletions \in SUBSET (Files \X Owners)
      BY <1>5 DEF Storage!RemoveBytes
    <3>2. job[h].file \in Files /\ job[h].owner \in Owners
      BY <3>1, Pair
    <3> QED
      BY <1>5, <3>1, <3>2 DEF Storage!RemoveBytes
  <2>2. Storage!TypeOK'
    BY <1>5, <2>1 DEF Storage!RemoveBytes
  <2>3. StoresAlone'
    BY <1>5, <2>1 DEF Storage!RemoveBytes
  <2>4. DeletesWhatItFound'
    BY <1>5, <2>1 DEF Storage!RemoveBytes
  <2>5. InOrder'
    BY <1>5, <2>1 DEF Storage!RemoveBytes
  <2>6. Storage!RowsHaveTheirBytes'
    BY <1>5, <2>1 DEF Storage!RemoveBytes
  <2>7. Storage!DeletedIsGone'
    BY <1>5, <2>1 DEF Storage!RemoveBytes
  <2>8. Storage!LostBytesWereNeverAnswered'
    BY <1>5, <2>1 DEF Storage!RemoveBytes
  <2> QED
    BY <2>2, <2>3, <2>4, <2>5, <2>6, <2>7, <2>8
<1>6. ASSUME NEW h \in Servers, Storage!DeleteRow(h)
      PROVE  UploadInv'
  <2>1. PICK f \in Files, u \in Owners :
          /\ job[h].file = f /\ job[h].owner = u
          /\ <<f, u>> \in deletions /\ f \in stored /\ f \notin objects
    <3>1. <<job[h].file, job[h].owner>> \in deletions /\ deletions \in SUBSET (Files \X Owners)
      BY <1>6 DEF Storage!DeleteRow
    <3>2. job[h].file \in Files /\ job[h].owner \in Owners
      BY <3>1, Pair
    <3> QED
      BY <1>6, <3>1, <3>2 DEF Storage!DeleteRow
  <2>2. CASE uploadOwner[f] = u
    <3>1. uploadOwner' = [uploadOwner EXCEPT ![f] = None] /\ deleted' = [deleted EXCEPT ![f] = @ + 1]
      BY <1>6, <2>1, <2>2 DEF Storage!DeleteRow, Storage!Finds
    <3>2. deleted[f] = 0 /\ deleted'[f] = 1 /\ uploadOwner'[f] = None
      <4>1. deleted[f] \in Nat /\ deleted[f] <= 1 /\ uploadOwner[f] # None
        BY <2>1, <2>2
      <4>2. deleted[f] # 1
        BY <2>1, <4>1 DEF Storage!DeletedIsGone
      <4>3. deleted[f] = 0
        BY <4>1, <4>2, ZeroOrOne
      <4> QED
        BY <2>1, <3>1, <4>3
    <3>3. Storage!TypeOK'
      BY <1>6, <2>1, <2>2, <3>1, <3>2 DEF Storage!DeleteRow
    <3>4. StoresAlone'
      BY <1>6, <2>1, <2>2, <3>1, <3>2 DEF Storage!DeleteRow
    <3>5. DeletesWhatItFound'
      BY <1>6, <2>1, <2>2, <3>1, <3>2 DEF Storage!DeleteRow
    <3>6. InOrder'
      BY <1>6, <2>1, <2>2, <3>1, <3>2 DEF Storage!DeleteRow
    <3>7. Storage!RowsHaveTheirBytes'
      BY <1>6, <2>1, <2>2, <3>1, <3>2 DEF Storage!DeleteRow
    <3>8. Storage!DeletedIsGone'
      BY <1>6, <2>1, <2>2, <3>1, <3>2 DEF Storage!DeleteRow
    <3>9. Storage!LostBytesWereNeverAnswered'
      BY <1>6, <2>1, <2>2, <3>1, <3>2 DEF Storage!DeleteRow
    <3> QED
      BY <3>3, <3>4, <3>5, <3>6, <3>7, <3>8, <3>9
  <2>3. CASE uploadOwner[f] # u
    <3>1. UNCHANGED <<uploadOwner, deleted>>
      BY <1>6, <2>1, <2>3 DEF Storage!DeleteRow, Storage!Finds
    <3>2. Storage!TypeOK'
      BY <1>6, <2>1, <3>1 DEF Storage!DeleteRow
    <3>3. StoresAlone'
      BY <1>6, <2>1, <3>1 DEF Storage!DeleteRow
    <3>4. DeletesWhatItFound'
      BY <1>6, <2>1, <3>1 DEF Storage!DeleteRow
    <3>5. InOrder'
      BY <1>6, <2>1, <3>1 DEF Storage!DeleteRow
    <3>6. Storage!RowsHaveTheirBytes'
      BY <1>6, <2>1, <3>1 DEF Storage!DeleteRow
    <3>7. Storage!DeletedIsGone'
      BY <1>6, <2>1, <3>1 DEF Storage!DeleteRow
    <3>8. Storage!LostBytesWereNeverAnswered'
      BY <1>6, <2>1, <3>1 DEF Storage!DeleteRow
    <3> QED
      BY <3>2, <3>3, <3>4, <3>5, <3>6, <3>7, <3>8
  <2> QED
    BY <2>2, <2>3
<1>7. ASSUME NEW h \in Servers, Storage!Abort(h)
      PROVE  UploadInv'
  <2>1. Storage!TypeOK'
    BY <1>7 DEF Storage!Abort
  <2>2. StoresAlone'
    BY <1>7 DEF Storage!Abort
  <2>3. DeletesWhatItFound'
    BY <1>7 DEF Storage!Abort
  <2>4. InOrder'
    BY <1>7 DEF Storage!Abort
  <2>5. Storage!RowsHaveTheirBytes'
    BY <1>7 DEF Storage!Abort
  <2>6. Storage!DeletedIsGone'
    BY <1>7 DEF Storage!Abort
  <2>7. Storage!LostBytesWereNeverAnswered'
    BY <1>7 DEF Storage!Abort
  <2> QED
    BY <2>1, <2>2, <2>3, <2>4, <2>5, <2>6, <2>7
<1>8. CASE UNCHANGED Storage!vars
  BY <1>8 DEF Storage!vars, Storage!handlers
<1> QED
  BY <1>1, <1>2, <1>3, <1>4, <1>5, <1>6, <1>7, <1>8 DEF Storage!Next, Storage!Step

(***************************************************************************)
(* The invariant: stored files belong to one handler until they are        *)
(* answered, and deletions follow the rows they found.                     *)
(***************************************************************************)
LEMMA UploadInvariant == ASSUME Storage!UploadConstants PROVE Storage!Spec => []UploadInv
BY UploadInit, UploadStep, PTL DEF Storage!Spec

(***************************************************************************)
(* Type correctness of storeUpload and deleteUpload: a handler that writes *)
(* has an upload that was issued.                                          *)
(***************************************************************************)
THEOREM UploadsTypeCorrect == ASSUME Storage!UploadConstants PROVE Storage!Spec => []Storage!TypeOK
<1>1. UploadInv => Storage!TypeOK
  BY DEF UploadInv
<1>2. QED
  BY <1>1, UploadInvariant, PTL

(***************************************************************************)
(* The bytes follow the rows, whatever fails between the provider and the  *)
(* table: a row can be served unless its owner deletes it, what counted as *)
(* deleted is gone, and only uploads without an answer leave bytes behind. *)
(***************************************************************************)
THEOREM BytesAndRowsAgree ==
    ASSUME Storage!UploadConstants
    PROVE  Storage!Spec =>
               [](Storage!RowsHaveTheirBytes /\ Storage!DeletedIsGone
                     /\ Storage!LostBytesWereNeverAnswered)
<1>1. UploadInv => Storage!RowsHaveTheirBytes /\ Storage!DeletedIsGone /\ Storage!LostBytesWereNeverAnswered
  BY DEF UploadInv
<1>2. QED
  BY <1>1, UploadInvariant, PTL

-----------------------------------------------------------------------------
(***************************************************************************)
(* vike-stripe: charges, for every number of handlers, intents, deliveries *)
(* and faults.                                                             *)
(***************************************************************************)

\* Who lost an insert without a winner: the one error that a handler has coming.
Unlucky == {h \in Servers : chargePc[h] = "reread" /\ ~Purchases!Paid(intent[h])}

\* A handler that serves a delivery has its intent, an answered charge is recorded,
\* and by one handler.
Recorded ==
    /\ \A h \in Servers : chargePc[h] # "idle" => intent[h] \in Intents
    /\ \A i \in chargeAnswered : Purchases!Paid(i)
    /\ \A i \in Intents : Purchases!Paid(i) => \E h \in Servers : payments[i] = {h}

ErrorsAreFaults == refused + Cardinality(Unlucky) <= faults

LEMMA Counting ==
    ASSUME IsFiniteSet(Servers), NEW P \in SUBSET Servers, NEW Q \in SUBSET Servers,
           NEW h \in Servers
    PROVE  /\ Cardinality(P) \in Nat /\ Cardinality(Q) \in Nat
           /\ Q \subseteq P => Cardinality(Q) <= Cardinality(P)
           /\ Q \subseteq P \union {h} => Cardinality(Q) <= Cardinality(P) + 1
           /\ h \in P /\ Q \subseteq P \ {h} => Cardinality(Q) + 1 <= Cardinality(P)
<1>1. IsFiniteSet(P) /\ IsFiniteSet(Q)
  BY FS_Subset
<1>2. Cardinality(P) \in Nat /\ Cardinality(Q) \in Nat
  BY <1>1, FS_CardinalityType
<1>3. Q \subseteq P => Cardinality(Q) <= Cardinality(P)
  BY <1>1, FS_Subset
<1>4. ASSUME Q \subseteq P \union {h} PROVE Cardinality(Q) <= Cardinality(P) + 1
  <2>1. /\ IsFiniteSet(P \union {h})
        /\ Cardinality(P \union {h}) = Cardinality(P) \/ Cardinality(P \union {h}) = Cardinality(P) + 1
    BY <1>1, FS_AddElement
  <2>2. Cardinality(Q) <= Cardinality(P \union {h})
    BY <1>4, <2>1, FS_Subset
  <2>3. QED
    BY <1>2, <2>1, <2>2
<1>5. ASSUME h \in P, Q \subseteq P \ {h} PROVE Cardinality(Q) + 1 <= Cardinality(P)
  <2>1. IsFiniteSet(P \ {h}) /\ Cardinality(P \ {h}) = Cardinality(P) - 1
    BY <1>1, <1>5, FS_RemoveElement
  <2>2. Cardinality(Q) <= Cardinality(P \ {h})
    BY <1>5, <2>1, FS_Subset
  <2>3. QED
    BY <1>2, <2>1, <2>2
<1>6. QED
  BY <1>2, <1>3, <1>4, <1>5

LEMMA RecordedInvariant ==
    ASSUME Purchases!ChargeConstants
    PROVE  Purchases!Spec => [](Purchases!TypeOK /\ Recorded)
<1> USE DEF Purchases!ChargeConstants
<1>1. Purchases!Init => Purchases!TypeOK /\ Recorded
  BY DEF Purchases!Init, Purchases!TypeOK, Recorded, Purchases!Paid
<1>2. Purchases!TypeOK /\ Recorded /\ [Purchases!Next]_(Purchases!vars) => Purchases!TypeOK' /\ Recorded'
  <2> SUFFICES ASSUME Purchases!TypeOK, Recorded, [Purchases!Next]_(Purchases!vars)
               PROVE  Purchases!TypeOK' /\ Recorded'
    OBVIOUS
  <2> USE DEF Purchases!TypeOK, Recorded, Purchases!Paid, Purchases!Goto, Purchases!Ok, Purchases!Throw
  <2>1. ASSUME NEW h \in Servers, NEW i \in Intents, Purchases!Deliver(h, i)
        PROVE  Purchases!TypeOK' /\ Recorded'
    <3>1. Purchases!TypeOK'
      BY <2>1 DEF Purchases!Deliver
    <3>2. Recorded'
      BY <2>1 DEF Purchases!Deliver
    <3> QED
      BY <3>1, <3>2
  <2>2. ASSUME NEW h \in Servers, Purchases!FindFirst(h)
        PROVE  Purchases!TypeOK' /\ Recorded'
    <3>1. Purchases!TypeOK'
      BY <2>2 DEF Purchases!FindFirst
    <3>2. Recorded'
      BY <2>2 DEF Purchases!FindFirst
    <3> QED
      BY <3>1, <3>2
  <2>3. ASSUME NEW h \in Servers, Purchases!Insert(h)
        PROVE  Purchases!TypeOK' /\ Recorded'
    <3>1. Purchases!TypeOK'
      BY <2>3 DEF Purchases!Insert, Purchases!Accepts
    <3>2. Recorded'
      BY <2>3 DEF Purchases!Insert, Purchases!Accepts
    <3> QED
      BY <3>1, <3>2
  <2>4. ASSUME NEW h \in Servers, Purchases!InsertConflicts(h)
        PROVE  Purchases!TypeOK' /\ Recorded'
    <3>1. Purchases!TypeOK'
      BY <2>4 DEF Purchases!InsertConflicts, Purchases!Accepts
    <3>2. Recorded'
      BY <2>4 DEF Purchases!InsertConflicts, Purchases!Accepts
    <3> QED
      BY <3>1, <3>2
  <2>5. ASSUME NEW h \in Servers, Purchases!InsertFails(h)
        PROVE  Purchases!TypeOK' /\ Recorded'
    <3>1. Purchases!TypeOK'
      BY <2>5 DEF Purchases!InsertFails
    <3>2. Recorded'
      BY <2>5 DEF Purchases!InsertFails
    <3> QED
      BY <3>1, <3>2
  <2>6. ASSUME NEW h \in Servers, Purchases!Reread(h)
        PROVE  Purchases!TypeOK' /\ Recorded'
    <3>1. Purchases!TypeOK'
      BY <2>6 DEF Purchases!Reread
    <3>2. Recorded'
      BY <2>6 DEF Purchases!Reread
    <3> QED
      BY <3>1, <3>2
  <2>7. ASSUME NEW h \in Servers, Purchases!Abort(h)
        PROVE  Purchases!TypeOK' /\ Recorded'
    <3>1. Purchases!TypeOK'
      BY <2>7 DEF Purchases!Abort
    <3>2. Recorded'
      BY <2>7 DEF Purchases!Abort
    <3> QED
      BY <3>1, <3>2
  <2>8. CASE UNCHANGED Purchases!vars
    BY <2>8 DEF Purchases!vars
  <2> QED
    BY <2>1, <2>2, <2>3, <2>4, <2>5, <2>6, <2>7, <2>8 DEF Purchases!Next, Purchases!Step
<1> QED
  BY <1>1, <1>2, PTL DEF Purchases!Spec

(***************************************************************************)
(* Type correctness of recordCharge.                                       *)
(***************************************************************************)
THEOREM ChargesTypeCorrect ==
    ASSUME Purchases!ChargeConstants
    PROVE  Purchases!Spec => []Purchases!TypeOK
BY RecordedInvariant, PTL

(***************************************************************************)
(* "idempotent on the Stripe payment-intent id": a charge that was answered *)
(* with 200 has a row, and no charge has two, however deliveries collide   *)
(* and whatever fails.                                                     *)
(***************************************************************************)
THEOREM ChargeRecordedOnce ==
    ASSUME Purchases!ChargeConstants
    PROVE  Purchases!Spec => []Purchases!RecordedOnce
<1>1. Purchases!TypeOK /\ Recorded => Purchases!RecordedOnce
  <2> SUFFICES ASSUME Purchases!TypeOK, Recorded, NEW i \in Intents
               PROVE  (i \in chargeAnswered => Purchases!Paid(i)) /\ Cardinality(payments[i]) <= 1
    BY SameCardinality DEF Purchases!RecordedOnce
  <2>1. CASE Purchases!Paid(i)
    <3>1. PICK h \in Servers : payments[i] = {h}
      BY <2>1 DEF Recorded
    <3>2. Cardinality(payments[i]) = 1
      BY <3>1, FS_Singleton
    <3> QED
      BY <2>1, <3>2
  <2>2. CASE ~Purchases!Paid(i)
    <3>1. Cardinality(payments[i]) = 0
      BY <2>2, FS_EmptySet DEF Purchases!Paid
    <3> QED
      BY <3>1 DEF Recorded
  <2> QED
    BY <2>1, <2>2
<1>2. QED
  BY <1>1, RecordedInvariant, PTL

-----------------------------------------------------------------------------

LEMMA ErrorsCounted ==
    ASSUME Purchases!ChargeConstants, IsFiniteSet(Servers)
    PROVE  Purchases!Spec => []ErrorsAreFaults
<1> USE DEF Purchases!ChargeConstants, ErrorsAreFaults
<1>1. Purchases!Init => ErrorsAreFaults
  <2> SUFFICES ASSUME Purchases!Init PROVE ErrorsAreFaults
    OBVIOUS
  <2>1. Unlucky = {}
    BY DEF Purchases!Init, Unlucky
  <2> QED
    BY <2>1, FS_EmptySet DEF Purchases!Init
<1>2. Purchases!TypeOK /\ Recorded /\ ErrorsAreFaults /\ [Purchases!Next]_(Purchases!vars) => ErrorsAreFaults'
  <2> SUFFICES ASSUME Purchases!TypeOK, Recorded, ErrorsAreFaults, [Purchases!Next]_(Purchases!vars)
               PROVE  ErrorsAreFaults'
    OBVIOUS
  <2>0. Unlucky \in SUBSET Servers /\ Unlucky' \in SUBSET Servers /\ refused \in Nat /\ faults \in Nat
    BY DEF Unlucky, Purchases!TypeOK
  <2>1. ASSUME NEW h \in Servers, NEW i \in Intents, Purchases!Deliver(h, i)
        PROVE  ErrorsAreFaults'
    <3>1. Unlucky' \subseteq Unlucky /\ UNCHANGED <<refused, faults>>
      BY <2>1 DEF Purchases!Deliver, Unlucky, Purchases!TypeOK, Recorded, Purchases!Paid,
         Purchases!Goto, Purchases!Ok, Purchases!Throw
    <3> QED
      BY <2>0, <3>1, Counting
  <2>2. ASSUME NEW h \in Servers, Purchases!FindFirst(h)
        PROVE  ErrorsAreFaults'
    <3>1. Unlucky' \subseteq Unlucky /\ UNCHANGED <<refused, faults>>
      BY <2>2 DEF Purchases!FindFirst, Unlucky, Purchases!TypeOK, Recorded, Purchases!Paid,
         Purchases!Goto, Purchases!Ok, Purchases!Throw
    <3> QED
      BY <2>0, <3>1, Counting
  <2>3. ASSUME NEW h \in Servers, Purchases!Insert(h)
        PROVE  ErrorsAreFaults'
    <3>1. Unlucky' \subseteq Unlucky /\ UNCHANGED <<refused, faults>>
      BY <2>3 DEF Purchases!Insert, Purchases!Accepts, Unlucky, Purchases!TypeOK, Recorded,
         Purchases!Paid, Purchases!Goto, Purchases!Ok, Purchases!Throw
    <3> QED
      BY <2>0, <3>1, Counting
  <2>4. ASSUME NEW h \in Servers, Purchases!InsertConflicts(h)
        PROVE  ErrorsAreFaults'
    <3>1. Unlucky' \subseteq Unlucky /\ UNCHANGED <<refused, faults>>
      BY <2>4 DEF Purchases!InsertConflicts, Purchases!Accepts, Unlucky, Purchases!TypeOK,
         Recorded, Purchases!Paid, Purchases!Goto, Purchases!Ok, Purchases!Throw
    <3> QED
      BY <2>0, <3>1, Counting
  <2>5. ASSUME NEW h \in Servers, Purchases!InsertFails(h)
        PROVE  ErrorsAreFaults'
    <3>1. Unlucky' \subseteq Unlucky \union {h} /\ refused' = refused /\ faults' = faults + 1
      BY <2>5 DEF Purchases!InsertFails, Unlucky, Purchases!TypeOK, Recorded, Purchases!Paid,
         Purchases!Goto, Purchases!Ok, Purchases!Throw
    <3> QED
      BY <2>0, <3>1, Counting
  <2>6. ASSUME NEW h \in Servers, Purchases!Reread(h)
        PROVE  ErrorsAreFaults'
    <3>1. CASE Purchases!Paid(intent[h])
      <4>1. Unlucky' \subseteq Unlucky /\ UNCHANGED <<refused, faults>>
        BY <2>6, <3>1 DEF Purchases!Reread, Unlucky, Purchases!TypeOK, Recorded, Purchases!Paid,
           Purchases!Goto, Purchases!Ok, Purchases!Throw
      <4> QED
        BY <2>0, <4>1, Counting
    <3>2. CASE ~Purchases!Paid(intent[h])
      <4>1. /\ h \in Unlucky /\ Unlucky' \subseteq Unlucky \ {h}
            /\ refused' = refused + 1 /\ faults' = faults
        BY <2>6, <3>2 DEF Purchases!Reread, Unlucky, Purchases!TypeOK, Recorded, Purchases!Paid,
           Purchases!Goto, Purchases!Ok, Purchases!Throw
      <4> QED
        BY <2>0, <4>1, Counting
    <3> QED
      BY <3>1, <3>2
  <2>7. ASSUME NEW h \in Servers, Purchases!Abort(h)
        PROVE  ErrorsAreFaults'
    <3>1. Unlucky' \subseteq Unlucky /\ refused' = refused + 1 /\ faults' = faults + 1
      BY <2>7 DEF Purchases!Abort, Unlucky, Purchases!TypeOK, Recorded, Purchases!Paid,
         Purchases!Goto, Purchases!Ok, Purchases!Throw
    <3> QED
      BY <2>0, <3>1, <2>7, Counting
  <2>8. CASE UNCHANGED Purchases!vars
    BY <2>8 DEF Purchases!vars, Unlucky, Purchases!Paid
  <2> QED
    BY <2>1, <2>2, <2>3, <2>4, <2>5, <2>6, <2>7, <2>8 DEF Purchases!Next, Purchases!Step
<1> QED
  BY <1>1, <1>2, RecordedInvariant, PTL DEF Purchases!Spec

(***************************************************************************)
(* "the webhook stays idempotent (a 200) instead of surfacing the          *)
(* unique-violation 500": every error that Stripe sees is of a call that   *)
(* failed or of a process that died; no delivery is refused because it     *)
(* lost the race against another.  The bookkeeping counts, beside the      *)
(* errors that were answered, the handlers whose insert failed and whose   *)
(* second find will find nothing.                                          *)
(***************************************************************************)
THEOREM ErrorsOnlyOnFaults ==
    ASSUME Purchases!ChargeConstants, IsFiniteSet(Servers)
    PROVE  Purchases!Spec => []Purchases!RefusedOnlyOnFaults
<1>1. Purchases!TypeOK /\ ErrorsAreFaults => Purchases!RefusedOnlyOnFaults
  <2> SUFFICES ASSUME Purchases!TypeOK, ErrorsAreFaults PROVE Purchases!RefusedOnlyOnFaults
    OBVIOUS
  <2>1. IsFiniteSet(Unlucky)
    BY FS_Subset DEF Unlucky
  <2>2. Cardinality(Unlucky) \in Nat
    BY <2>1, FS_CardinalityType
  <2> QED
    BY <2>2 DEF ErrorsAreFaults, Purchases!RefusedOnlyOnFaults, Purchases!TypeOK
<1>2. QED
  BY <1>1, ChargesTypeCorrect, ErrorsCounted, PTL

-----------------------------------------------------------------------------
(***************************************************************************)
(* vike-queue: the inline driver, whose jobs live in the process that      *)
(* dispatches them.                                                        *)
(***************************************************************************)

(***************************************************************************)
(* Where runJob is tells how many of the calls of the handler are over; a  *)
(* rejected promise was rejected with no attempt left.                     *)
(***************************************************************************)
AttemptsCounted ==
    \A j \in Jobs :
        /\ at[j] = "absent" => allowed[j] = 0 /\ over[j] = 0 /\ calls[j] = 0 /\ dispatched[j] = "none"
        /\ at[j] \in {"loop", "pause"} =>
                calls[j] = over[j] /\ over[j] <= allowed[j] /\ dispatched[j] = "none"
        /\ at[j] = "running" =>
                calls[j] = over[j] + 1 /\ over[j] < allowed[j] /\ dispatched[j] = "none"
        /\ at[j] = "lost" => dispatched[j] = "none"

InlineInv == Inline!TypeOK /\ AttemptsCounted

LEMMA InlineStep ==
    ASSUME Inline!InlineConstants, InlineInv, [Inline!Next]_(Inline!vars)
    PROVE  InlineInv'
<1> USE DEF InlineInv, Inline!TypeOK, AttemptsCounted, Inline!InlineConstants
<1>1. ASSUME NEW j \in Jobs, Inline!RegisterJob(j) \/ Inline!DispatchRejects(j)
      PROVE  InlineInv'
  BY <1>1 DEF Inline!RegisterJob, Inline!DispatchRejects
<1>2. ASSUME NEW j \in Jobs, NEW halves \in Halves, Inline!Dispatch(j, halves)
      PROVE  InlineInv'
  <2>1. Inline!Normalized(halves) \in Nat
    BY DEF Inline!Normalized
  <2>2. QED
    BY <1>2, <2>1 DEF Inline!Dispatch
<1>3. ASSUME NEW j \in Jobs, Inline!RunJob(j)
      PROVE  InlineInv'
  <2>1. CASE Inline!Attempt(j) \/ Inline!GiveUp(j)
    BY <2>1 DEF Inline!Attempt, Inline!GiveUp
  <2>2. CASE Inline!Succeed(j) \/ Inline!Sleep(j)
    BY <2>2 DEF Inline!Succeed, Inline!Sleep
  <2>3. CASE Inline!Fail(j)
    BY <2>3 DEF Inline!Fail
  <2>4. QED
    BY <1>3, <2>1, <2>2, <2>3 DEF Inline!RunJob
<1>4. ASSUME Inline!Die
      PROVE  InlineInv'
  BY <1>4 DEF Inline!Die
<1>5. ASSUME UNCHANGED Inline!vars
      PROVE  InlineInv'
  BY <1>5 DEF Inline!vars
<1>6. QED
  BY <1>1, <1>2, <1>3, <1>4, <1>5 DEF Inline!Next

LEMMA InlineInvariant == ASSUME Inline!InlineConstants PROVE Inline!Spec => []InlineInv
<1>1. Inline!Init => InlineInv
  BY DEF Inline!Init, InlineInv, Inline!TypeOK, AttemptsCounted, Inline!InlineConstants
<1>2. InlineInv /\ [Inline!Next]_(Inline!vars) => InlineInv'
  BY InlineStep
<1>3. QED
  BY <1>1, <1>2, PTL DEF Inline!Spec

(***************************************************************************)
(* A step that touches one job shows the phases of the others unchanged.   *)
(***************************************************************************)
LEMMA OthersStay ==
    ASSUME NEW j \in Jobs, NEW phase,
           \A k \in Jobs \ {j} : /\ allowed'[k] = allowed[k] /\ dispatched'[k] = dispatched[k]
                                 /\ calls'[k] = calls[k] /\ over'[k] = over[k],
           Inline!Phase(j)' = phase
    PROVE  [k \in Jobs |-> Inline!Phase(k)'] = [[k \in Jobs |-> Inline!Phase(k)] EXCEPT ![j] = phase]
<1>1. \A k \in Jobs : Inline!Phase(k)' = IF k = j THEN phase ELSE Inline!Phase(k)
  BY DEF Inline!Phase
<1>2. QED
  BY <1>1

LEMMA InlineShows ==
    ASSUME Inline!InlineConstants, InlineInv, [Inline!Next]_(Inline!vars)
    PROVE  [Inline!Contract!Next]_(Inline!Contract!vars)
<1> USE DEF InlineInv, Inline!TypeOK, AttemptsCounted
<1> DEFINE Shows == Inline!Contract!Next \/ UNCHANGED Inline!Contract!vars
<1>1. ASSUME UNCHANGED <<allowed, over, calls, dispatched>>
      PROVE  UNCHANGED Inline!Contract!vars
  BY <1>1 DEF Inline!Contract!vars, Inline!Phase
<1>2. ASSUME NEW j \in Jobs, Inline!RegisterJob(j) \/ Inline!Sleep(j)
      PROVE  Shows
  BY <1>1, <1>2 DEF Inline!RegisterJob, Inline!Sleep
<1>10. ASSUME NEW j \in Jobs, allowed[j] = 0, dispatched[j] = "none", UNCHANGED <<allowed, over, calls>>,
              dispatched' = [dispatched EXCEPT ![j] = "rejected"]
       PROVE  Shows
  <2>1. Inline!Phase(j) = "absent" /\ Inline!Phase(j)' = "refused"
    BY <1>10 DEF Inline!Phase
  <2>2. [k \in Jobs |-> Inline!Phase(k)'] = [[k \in Jobs |-> Inline!Phase(k)] EXCEPT ![j] = "refused"]
    BY <1>10, <2>1, OthersStay
  <2>3. Inline!Contract!Refuse(j)
    BY <1>10, <2>1, <2>2 DEF Inline!Contract!Refuse, Inline!Contract!Move
  <2>4. QED
    BY <2>3 DEF Inline!Contract!Next
<1>11. ASSUME NEW j \in Jobs, Inline!DispatchRejects(j)
       PROVE  Shows
  BY <1>10, <1>11 DEF Inline!DispatchRejects
<1>3. ASSUME NEW j \in Jobs, NEW halves \in Halves, Inline!Dispatch(j, halves)
      PROVE  Shows
  <2>1. Inline!Normalized(halves) \in Nat
    BY DEF Inline!Normalized, Inline!InlineConstants
  <2>2. CASE Inline!Normalized(halves) = 0
    <3>1. UNCHANGED <<allowed, over, calls, dispatched>>
      BY <1>3, <2>2 DEF Inline!Dispatch
    <3>2. QED
      BY <1>1, <3>1
  <2>3. CASE Inline!Normalized(halves) # 0
    <3>1. Inline!Phase(j) = "absent" /\ Inline!Phase(j)' = "pending"
      BY <1>3, <2>1, <2>3 DEF Inline!Dispatch, Inline!Phase
    <3>2. [k \in Jobs |-> Inline!Phase(k)'] = [[k \in Jobs |-> Inline!Phase(k)] EXCEPT ![j] = "pending"]
      BY <1>3, <3>1, OthersStay DEF Inline!Dispatch
    <3>3. Inline!Contract!Accept(j, Inline!Normalized(halves))
      BY <1>3, <2>3, <3>1, <3>2 DEF Inline!Dispatch, Inline!Contract!Accept, Inline!Contract!Move
    <3>4. QED
      BY <2>3, <3>3 DEF Inline!Contract!Next
  <2>4. QED
    BY <2>2, <2>3
<1>4. ASSUME NEW j \in Jobs, Inline!Attempt(j)
      PROVE  Shows
  <2>1. Inline!Phase(j) = "pending" /\ Inline!Phase(j)' = "running" /\ calls[j] < allowed[j]
    BY <1>4 DEF Inline!Attempt, Inline!Phase
  <2>2. [k \in Jobs |-> Inline!Phase(k)'] = [[k \in Jobs |-> Inline!Phase(k)] EXCEPT ![j] = "running"]
    BY <1>4, <2>1, OthersStay DEF Inline!Attempt
  <2>3. Inline!Contract!Run(j)
    BY <1>4, <2>1, <2>2 DEF Inline!Attempt, Inline!Contract!Run, Inline!Contract!AttemptsLeft, Inline!Contract!Move
  <2>4. QED
    BY <2>3 DEF Inline!Contract!Next
<1>5. ASSUME NEW j \in Jobs, Inline!GiveUp(j)
      PROVE  Shows
  <2>1. CASE allowed[j] = 0
    BY <1>5, <1>10, <2>1 DEF Inline!GiveUp
  <2>2. CASE allowed[j] # 0
    <3>1. Inline!Phase(j) = "pending" /\ Inline!Phase(j)' = "failed" /\ calls[j] = allowed[j]
      BY <1>5, <2>2 DEF Inline!GiveUp, Inline!Phase
    <3>2. [k \in Jobs |-> Inline!Phase(k)'] = [[k \in Jobs |-> Inline!Phase(k)] EXCEPT ![j] = "failed"]
      BY <1>5, <3>1, OthersStay DEF Inline!GiveUp
    <3>3. Inline!Contract!GiveUp(j)
      BY <1>5, <3>1, <3>2 DEF Inline!GiveUp, Inline!Contract!GiveUp, Inline!Contract!AttemptsLeft
    <3>4. QED
      BY <3>3 DEF Inline!Contract!Next
  <2>3. QED
    BY <2>1, <2>2
<1>6. ASSUME NEW j \in Jobs, Inline!Succeed(j)
      PROVE  Shows
  <2>1. Inline!Phase(j) = "running" /\ Inline!Phase(j)' = "done"
    BY <1>6 DEF Inline!Succeed, Inline!Phase
  <2>2. [k \in Jobs |-> Inline!Phase(k)'] = [[k \in Jobs |-> Inline!Phase(k)] EXCEPT ![j] = "done"]
    BY <1>6, <2>1, OthersStay DEF Inline!Succeed
  <2>3. Inline!Contract!Succeed(j)
    BY <1>6, <2>1, <2>2 DEF Inline!Succeed, Inline!Contract!Succeed, Inline!Contract!Move
  <2>4. QED
    BY <2>3 DEF Inline!Contract!Next
<1>7. ASSUME NEW j \in Jobs, Inline!Fail(j)
      PROVE  Shows
  <2>1. Inline!Phase(j) = "running" /\ Inline!Phase(j)' = "pending"
    BY <1>7 DEF Inline!Fail, Inline!Phase
  <2>2. [k \in Jobs |-> Inline!Phase(k)'] = [[k \in Jobs |-> Inline!Phase(k)] EXCEPT ![j] = "pending"]
    BY <1>7, <2>1, OthersStay DEF Inline!Fail
  <2>3. Inline!Contract!Requeue(j)
    BY <1>7, <2>1, <2>2 DEF Inline!Fail, Inline!Contract!Requeue, Inline!Contract!Move
  <2>4. QED
    BY <2>3 DEF Inline!Contract!Next
<1>8. ASSUME Inline!Die \/ UNCHANGED Inline!vars
      PROVE  Shows
  BY <1>1, <1>8 DEF Inline!Die, Inline!vars
<1>9. QED
  BY <1>2, <1>3, <1>4, <1>5, <1>6, <1>7, <1>8, <1>11 DEF Inline!Next, Inline!RunJob

(***************************************************************************)
(* Only a dispatch that finds no handler, or asks for no attempt, is       *)
(* refused.                                                                *)
(***************************************************************************)
RefusalIsFounded ==
    \A j \in Jobs : Inline!Phase(j) # "refused" /\ Inline!Phase(j)' = "refused" =>
        ~registeredJobs[j] \/ (at[j] = "loop" /\ allowed[j] = 0)

LEMMA InlineRefuses ==
    ASSUME Inline!InlineConstants, InlineInv, [Inline!Next]_(Inline!vars)
    PROVE  [RefusalIsFounded]_(Inline!vars)
<1> USE DEF InlineInv, Inline!TypeOK, AttemptsCounted, Inline!InlineConstants
<1> SUFFICES ASSUME NEW k \in Jobs, Inline!Phase(k) # "refused", Inline!Phase(k)' = "refused"
             PROVE  ~registeredJobs[k] \/ (at[k] = "loop" /\ allowed[k] = 0)
  BY DEF RefusalIsFounded
<1>1. /\ allowed'[k] = 0 /\ dispatched'[k] = "rejected"
      /\ allowed[k] # 0 \/ dispatched[k] # "rejected"
  BY DEF Inline!Phase
<1>2. \/ allowed' = allowed /\ dispatched[k] # dispatched'[k]
      \/ \E halves \in Halves : Inline!Dispatch(k, halves)
  <2>1. CASE \E j \in Jobs, halves \in Halves : Inline!Dispatch(j, halves)
    BY <1>1, <2>1 DEF Inline!Dispatch
  <2>2. CASE UNCHANGED allowed
    BY <1>1, <2>2
  <2>3. QED
    BY <2>1, <2>2 DEF Inline!Next, Inline!RunJob, Inline!RegisterJob, Inline!DispatchRejects,
       Inline!Attempt, Inline!GiveUp, Inline!Succeed, Inline!Fail, Inline!Sleep, Inline!Die, Inline!vars
<1>3. ASSUME NEW halves \in Halves, Inline!Dispatch(k, halves)
      PROVE  FALSE
  BY <1>1, <1>3 DEF Inline!Dispatch
<1>4. CASE allowed' = allowed /\ dispatched[k] # dispatched'[k]
  BY <1>1, <1>4 DEF Inline!Next, Inline!RunJob, Inline!RegisterJob, Inline!DispatchRejects,
     Inline!Dispatch, Inline!Attempt, Inline!GiveUp, Inline!Succeed, Inline!Fail, Inline!Sleep,
     Inline!Die, Inline!vars
<1>5. QED
  BY <1>2, <1>3, <1>4

(***************************************************************************)
(* The inline driver implements the contract of dispatch for every job it  *)
(* does not refuse, as the database driver does for every job: no job is   *)
(* run more often than was asked for or given up before, and a promise     *)
(* resolves only for a job that succeeded.  What it refuses at once, where *)
(* the other driver accepts, is a job without a handler and a maxAttempts  *)
(* between 0 and 1.                                                        *)
(***************************************************************************)
THEOREM InlineDriverKeepsContract ==
    ASSUME Inline!InlineConstants PROVE Inline!Spec => Inline!KeepsContract
<1>1. Inline!Init => Inline!Contract!Init
  BY DEF Inline!Init, Inline!Contract!Init, Inline!Phase
<1>2. InlineInv /\ [Inline!Next]_(Inline!vars) => [Inline!Contract!Next]_(Inline!Contract!vars)
  BY InlineShows
<1>3. InlineInv /\ [Inline!Next]_(Inline!vars) => [RefusalIsFounded]_(Inline!vars)
  BY InlineRefuses
<1>4. Inline!RefusesOnly <=> [][RefusalIsFounded]_(Inline!vars)
  BY DEF Inline!RefusesOnly, RefusalIsFounded
<1>5. QED
  BY <1>1, <1>2, <1>3, <1>4, InlineInvariant, PTL
     DEF Inline!Spec, Inline!KeepsContract, Inline!Contract!Spec

-----------------------------------------------------------------------------
(***************************************************************************)
(* vike-i18n: translations stay current.                                   *)
(***************************************************************************)


(***************************************************************************)
(* Every entry of a file is of the English its ledger names, or a person   *)
(* edited it, and a key that the ledger does not have has none.            *)
(***************************************************************************)
Honest(f) ==
    \A l \in DOMAIN f.catalogs, k \in Keys :
        /\ f.catalogs[l][k] \in {None, Hand, f.ledger[k]}
        /\ f.ledger[k] = None => f.catalogs[l][k] = None

(***************************************************************************)
(* A run has answers only for what it planned, and each is of the English  *)
(* that the run has read.                                                  *)
(***************************************************************************)
AnswersArePlanned ==
    /\ run = Texts!NoRun => results = Texts!NoResults
    /\ \A l \in Locales, k \in Keys : results[l][k] # None =>
            results[l][k] = run.texts[k] /\ Texts!Planned(run.texts, run.file, l, k)

TextInv == Texts!TypeOK /\ Honest(file) /\ Honest(run.file) /\ AnswersArePlanned

LEMMA NothingIsTyped ==
    /\ Texts!NoFile \in Texts!FileContents /\ Texts!NoResults \in [Locales -> Texts!Sources]
    /\ Texts!NoRun \in [texts : Texts!Sources, file : Texts!FileContents, locales : SUBSET Locales]
    /\ DOMAIN Texts!NoFile.catalogs = {} /\ Texts!NoRun.file = Texts!NoFile
<1>1. <<>> \in [{} -> [Keys -> Texts!Entries]]
  OBVIOUS
<1>2. <<>> \in Texts!Catalogs
  BY <1>1 DEF Texts!Catalogs
<1>3. Texts!NoFile \in Texts!FileContents
  BY <1>2 DEF Texts!NoFile, Texts!FileContents, Texts!Sources
<1>4. QED
  BY <1>3 DEF Texts!NoFile, Texts!NoResults, Texts!NoRun, Texts!Sources

LEMMA CatalogFields ==
    ASSUME NEW f \in Texts!FileContents
    PROVE  /\ f.ledger \in Texts!Sources /\ DOMAIN f.catalogs \subseteq Locales
           /\ f.catalogs \in [DOMAIN f.catalogs -> [Keys -> Texts!Entries]]
BY DEF Texts!FileContents, Texts!Catalogs

LEMMA CatalogsTyped ==
    ASSUME NEW S \in SUBSET Locales, NEW c \in [S -> [Keys -> Texts!Entries]]
    PROVE  c \in Texts!Catalogs
BY DEF Texts!Catalogs

(***************************************************************************)
(* What a run makes of its file is an honest file.                         *)
(***************************************************************************)
LEMMA AppliedIsHonest ==
    ASSUME TextInv
    PROVE  Texts!Applied(run, results) \in Texts!FileContents /\ Honest(Texts!Applied(run, results))
<1> DEFINE c == Texts!Applied(run, results).catalogs
<1> USE DEF TextInv, Texts!TypeOK
<1>1. /\ run.file \in Texts!FileContents /\ run.texts \in Texts!Sources /\ run.locales \subseteq Locales
      /\ results \in [Locales -> Texts!Sources]
  OBVIOUS
<1>2. ASSUME NEW l \in run.locales, NEW k \in Keys
      PROVE  /\ Texts!Kept(run, l, k) \in Texts!Entries
             /\ Texts!Kept(run, l, k) \in {None, Hand, run.texts[k]}
             /\ run.texts[k] = None => Texts!Kept(run, l, k) = None
  BY <1>1, CatalogFields DEF Texts!Kept, Texts!Committed, Texts!Stale, Texts!Entries,
     Texts!Sources, Honest
<1>3. ASSUME NEW l \in run.locales, NEW k \in Keys
      PROVE  /\ results[l][k] \in Texts!Entries
             /\ results[l][k] \in {None, run.texts[k]}
  BY <1>1 DEF Texts!Entries, Texts!Sources, AnswersArePlanned
<1>4. c = [l \in run.locales |->
            [k \in Keys |-> IF results[l][k] # None THEN results[l][k] ELSE Texts!Kept(run, l, k)]]
  BY DEF Texts!Applied
<1>5. c \in [run.locales -> [Keys -> Texts!Entries]]
  BY <1>2, <1>3, <1>4
<1>6. c \in Texts!Catalogs
  BY <1>1, <1>5, CatalogsTyped
<1>7. Texts!Applied(run, results) = [ledger |-> run.texts, catalogs |-> c]
  BY DEF Texts!Applied
<1>8. \A l \in run.locales, k \in Keys :
        c[l][k] = IF results[l][k] # None THEN results[l][k] ELSE Texts!Kept(run, l, k)
  BY <1>4
<1>9. Honest([ledger |-> run.texts, catalogs |-> c])
  <2> HIDE DEF c
  <2>1. DOMAIN c = run.locales
    BY <1>5
  <2>2. QED
    BY <1>2, <1>3, <1>8, <2>1 DEF Honest
<1>10. [ledger |-> run.texts, catalogs |-> c] \in Texts!FileContents
  BY <1>1, <1>6 DEF Texts!FileContents
<1>11. QED
  BY <1>7, <1>9, <1>10

(***************************************************************************)
(* What a person edited is edited in an honest file.                       *)
(***************************************************************************)
LEMMA HandEditIsHonest ==
    ASSUME TextInv, Texts!HandEdit
    PROVE  file' \in Texts!FileContents /\ Honest(file')
<1> USE DEF TextInv, Texts!TypeOK
<1>1. PICK l \in DOMAIN file.catalogs, k \in Keys :
        /\ file.catalogs[l][k] \notin {None, Hand}
        /\ file' = [file EXCEPT !.catalogs[l][k] = Hand]
  BY DEF Texts!HandEdit
<1>2. /\ file.ledger \in Texts!Sources /\ DOMAIN file.catalogs \subseteq Locales
      /\ file.catalogs \in [DOMAIN file.catalogs -> [Keys -> Texts!Entries]]
      /\ file = [ledger |-> file.ledger, catalogs |-> file.catalogs]
  BY CatalogFields DEF Texts!FileContents
<1> DEFINE c == [file.catalogs EXCEPT ![l] = [file.catalogs[l] EXCEPT ![k] = Hand]]
<1>3. file' = [ledger |-> file.ledger, catalogs |-> c]
  BY <1>1, <1>2
<1>4. c \in [DOMAIN file.catalogs -> [Keys -> Texts!Entries]] /\ DOMAIN c = DOMAIN file.catalogs
  BY <1>1, <1>2 DEF Texts!Entries
<1>5. c \in Texts!Catalogs
  BY <1>2, <1>4, CatalogsTyped
<1>6. \A m \in DOMAIN file.catalogs, n \in Keys :
        c[m][n] = IF m = l /\ n = k THEN Hand ELSE file.catalogs[m][n]
  BY <1>1, <1>2
<1>7. file.ledger[k] # None
  BY <1>1 DEF Honest
<1>8. Honest([ledger |-> file.ledger, catalogs |-> c])
  <2> HIDE DEF c
  <2>1. ASSUME NEW m \in DOMAIN c, NEW n \in Keys
        PROVE  c[m][n] \in {None, Hand, file.ledger[n]} /\ (file.ledger[n] = None => c[m][n] = None)
    BY <1>4, <1>6, <1>7 DEF Honest
  <2>2. QED
    BY <2>1 DEF Honest
<1>9. [ledger |-> file.ledger, catalogs |-> c] \in Texts!FileContents
  BY <1>2, <1>5 DEF Texts!FileContents
<1>10. QED
  BY <1>3, <1>8, <1>9

LEMMA TextStep ==
    ASSUME Texts!TranslationConstants, TextInv, [Texts!Next]_(Texts!vars)
    PROVE  TextInv'
<1> USE NothingIsTyped DEF TextInv, Texts!TypeOK, Texts!TranslationConstants
<1>1. ASSUME Texts!EditText
      PROVE  TextInv'
  BY <1>1 DEF Texts!EditText, Texts!Changed, Texts!runVars, Texts!Sources, AnswersArePlanned
<1>2. ASSUME Texts!HandEdit
      PROVE  TextInv'
  <2>1. UNCHANGED <<texts, run, asked, results, translateFaults>> /\ changes' \in 0 .. MaxChanges
    BY <1>2 DEF Texts!HandEdit, Texts!Changed, Texts!runVars
  <2>2. file' \in Texts!FileContents /\ Honest(file')
    BY <1>2, HandEditIsHonest
  <2>3. AnswersArePlanned'
    BY <2>1 DEF AnswersArePlanned
  <2>4. QED
    BY <2>1, <2>2, <2>3
<1>3. ASSUME NEW locales \in SUBSET Locales, Texts!Begin(locales), changes' \in 0 .. MaxChanges
      PROVE  TextInv'
  <2>1. results = Texts!NoResults
    BY <1>3 DEF Texts!Begin, AnswersArePlanned
  <2>2. AnswersArePlanned'
    BY <1>3, <2>1 DEF Texts!Begin, AnswersArePlanned, Texts!NoResults
  <2>3. QED
    BY <1>3, <2>2 DEF Texts!Begin
<1>4. ASSUME NEW l \in Locales, Texts!Translate(l) \/ Texts!FallShort(l)
      PROVE  TextInv'
  <2>1. PICK keys \in SUBSET Texts!Asks(l) :
            results' = [results EXCEPT ![l] = [k \in Keys |-> IF k \in keys THEN run.texts[k] ELSE None]]
    BY <1>4 DEF Texts!Translate, Texts!FallShort, Texts!Answer
  <2>2. /\ UNCHANGED <<texts, file, run, changes>> /\ asked' \subseteq Locales
        /\ translateFaults' \in 0 .. MaxFaults /\ run # Texts!NoRun
    BY <1>4 DEF Texts!Translate, Texts!FallShort, Texts!Answer, Texts!Unasked, Texts!NoRun
  <2>3. [k \in Keys |-> IF k \in keys THEN run.texts[k] ELSE None] \in Texts!Sources
    BY DEF Texts!Sources
  <2>4. AnswersArePlanned'
    BY <2>1, <2>2 DEF AnswersArePlanned, Texts!Asks, Texts!Planned, Texts!Stale, Texts!Committed
  <2>5. QED
    BY <2>1, <2>2, <2>3, <2>4
<1>5. ASSUME Texts!End, UNCHANGED <<texts, changes>>, translateFaults' \in 0 .. MaxFaults,
             file' \in Texts!FileContents, Honest(file')
      PROVE  TextInv'
  <2>1. AnswersArePlanned'
    BY <1>5 DEF Texts!End, AnswersArePlanned, Texts!NoResults
  <2>2. Honest(run'.file)
    BY <1>5 DEF Texts!End, Honest
  <2>3. QED
    BY <1>5, <2>1, <2>2 DEF Texts!End
<1>6. ASSUME Texts!Finish
      PROVE  TextInv'
  BY <1>5, <1>6, AppliedIsHonest DEF Texts!Finish
<1>7. ASSUME Texts!Kill
      PROVE  TextInv'
  BY <1>5, <1>7 DEF Texts!Kill
<1>8. ASSUME UNCHANGED Texts!vars
      PROVE  TextInv'
  BY <1>8 DEF Texts!vars, Texts!runVars, AnswersArePlanned
<1>9. ASSUME Texts!BeginFor \/ Texts!BeginAgain
      PROVE  TextInv'
  <2>1. DOMAIN file.catalogs \subseteq Locales
    BY CatalogFields
  <2>2. changes' \in 0 .. MaxChanges /\ \E locales \in SUBSET Locales : Texts!Begin(locales)
    BY <1>9, <2>1 DEF Texts!BeginFor, Texts!BeginAgain, Texts!Changed
  <2>3. QED
    BY <1>3, <2>2
<1>10. QED
  BY <1>1, <1>2, <1>4, <1>6, <1>7, <1>8, <1>9 DEF Texts!Next

LEMMA TextInvariant == ASSUME Texts!TranslationConstants PROVE Texts!Spec => []TextInv
<1>1. Texts!Init => TextInv
  BY NothingIsTyped DEF Texts!Init, TextInv, Texts!TypeOK, Honest, AnswersArePlanned,
     Texts!NoResults,
     Texts!Sources, Texts!TranslationConstants
<1>2. TextInv /\ [Texts!Next]_(Texts!vars) => TextInv'
  BY TextStep
<1>3. QED
  BY <1>1, <1>2, PTL DEF Texts!Spec

(***************************************************************************)
(* What --check lets pass is of the current English, or a person wrote it, *)
(* for every number of keys and languages, whatever fails and whoever      *)
(* edits the texts and the file meanwhile.                                 *)
(***************************************************************************)
THEOREM CheckedTranslationsAreCurrent ==
    ASSUME Texts!TranslationConstants PROVE Texts!Spec => []Texts!CheckedIsCurrent
<1>1. TextInv => Texts!CheckedIsCurrent
  <2> SUFFICES ASSUME TextInv, ~Texts!OutOfDate,
                      NEW l \in DOMAIN file.catalogs, NEW k \in Keys
               PROVE  file.catalogs[l][k] \in IF texts[k] = None THEN {None} ELSE {texts[k], Hand}
    BY DEF Texts!CheckedIsCurrent
  <2>1. /\ file.catalogs[l][k] \in {None, Hand, file.ledger[k]}
        /\ file.ledger[k] = None => file.catalogs[l][k] = None
    BY DEF TextInv, Honest
  <2>2. ~Texts!Planned(texts, file, l, k) /\ (texts[k] = None => file.ledger[k] = None)
    BY DEF Texts!OutOfDate, Texts!IsStale, Texts!Removed
  <2>3. QED
    BY <2>1, <2>2 DEF Texts!Planned, Texts!Stale, Texts!Committed
<1>2. QED
  BY <1>1, TextInvariant, PTL

(***************************************************************************)
(* "A hand-edit to a translated string never touches $sources, so it       *)
(* survives re-runs", unless the English had changed, the run was for      *)
(* other languages, or the edit was made while it ran.                     *)
(***************************************************************************)
THEOREM HandEditsAreKept ==
    ASSUME Texts!TranslationConstants PROVE Texts!Spec => Texts!HandEditsSurvive
<1> DEFINE Survives(l, k) ==
        Texts!Committed(file, l, k) = Hand /\ Texts!Committed(file', l, k) # Hand =>
            \/ run.texts[k] # run.file.ledger[k]
            \/ l \notin run.locales
            \/ Texts!Committed(run.file, l, k) # Hand
<1>1. ASSUME Texts!TranslationConstants, TextInv, [Texts!Next]_(Texts!vars),
             NEW l \in Locales, NEW k \in Keys
      PROVE  Survives(l, k)
  <2> USE <1>1
  <2>1. CASE Texts!HandEdit
    <3>1. PICK m \in DOMAIN file.catalogs, n \in Keys : file' = [file EXCEPT !.catalogs[m][n] = Hand]
      BY <2>1 DEF Texts!HandEdit
    <3>2. /\ file.catalogs \in [DOMAIN file.catalogs -> [Keys -> Texts!Entries]]
          /\ file = [ledger |-> file.ledger, catalogs |-> file.catalogs]
      BY CatalogFields DEF TextInv, Texts!TypeOK, Texts!FileContents
    <3>3. file'.catalogs = [file.catalogs EXCEPT ![m] = [file.catalogs[m] EXCEPT ![n] = Hand]]
      BY <3>1, <3>2
    <3>4. Texts!Committed(file, l, k) = Hand => Texts!Committed(file', l, k) = Hand
      BY <3>2, <3>3 DEF Texts!Committed
    <3>5. QED
      BY <3>4
  <2>2. CASE Texts!Finish /\ file' = Texts!Applied(run, results)
    <3> SUFFICES ASSUME run.texts[k] = run.file.ledger[k], l \in run.locales,
                        Texts!Committed(run.file, l, k) = Hand
                 PROVE  Texts!Committed(file', l, k) = Hand
      OBVIOUS
    <3>1. l \in DOMAIN run.file.catalogs /\ run.file.catalogs[l][k] = Hand /\ Hand # None
      BY DEF Texts!Committed, Texts!TranslationConstants
    <3>2. run.texts[k] # None
      BY <3>1 DEF TextInv, Honest
    <3>3. results[l][k] = None
      BY <3>1 DEF TextInv, AnswersArePlanned, Texts!Planned, Texts!Stale, Texts!Committed
    <3>4. Texts!Kept(run, l, k) = Hand
      BY <3>2 DEF Texts!Kept, Texts!Stale
    <3>5. file'.catalogs = [m \in run.locales |-> [n \in Keys |->
            IF results[m][n] # None THEN results[m][n] ELSE Texts!Kept(run, m, n)]]
      BY <2>2 DEF Texts!Applied
    <3>6. QED
      BY <3>3, <3>4, <3>5 DEF Texts!Committed
  <2>3. CASE UNCHANGED file
    BY <2>3
  <2>4. QED
    BY <2>1, <2>2, <2>3 DEF Texts!Next, Texts!EditText, Texts!BeginFor, Texts!BeginAgain,
       Texts!Begin,
       Texts!Translate, Texts!FallShort, Texts!Answer, Texts!Finish, Texts!Kill, Texts!vars
<1>2. TextInv /\ Texts!TranslationConstants /\ [Texts!Next]_(Texts!vars)
        => [\A l \in Locales, k \in Keys : Survives(l, k)]_(Texts!vars)
  BY <1>1
<1>3. QED
  BY <1>2, TextInvariant, PTL DEF Texts!Spec, Texts!HandEditsSurvive

-----------------------------------------------------------------------------
(***************************************************************************)
(* vike-blocks: toasts.                                                    *)
(***************************************************************************)
\* A mounted region shows the toasts there are.
RegionsAreCurrent == view \in [Regions -> {None, toasts}]

\* Only what was emitted has a timeout, and what is about to be removed is leaving.
RemovalsFollowExits ==
    /\ \A t \in toasts : t.id \in emitted
    /\ \A p \in pending : p.id \in emitted
    /\ \A id \in Ids : Blocks!Timeout(id, "remove") \in pending => Blocks!Toast(id, FALSE) \notin toasts

ToastInv == Blocks!TypeOK /\ RegionsAreCurrent /\ RemovalsFollowExits

LEMMA ToastFields ==
    /\ \A id, flag : Blocks!Toast(id, flag).id = id /\ Blocks!Toast(id, flag).dismissed = flag
    /\ \A id, does : Blocks!Timeout(id, does).id = id /\ Blocks!Timeout(id, does).does = does
    /\ \A id \in Ids, flag \in BOOLEAN : Blocks!Toast(id, flag) \in [id : Ids, dismissed : BOOLEAN]
    /\ \A id \in Ids, does \in {"dismiss", "remove"} :
            Blocks!Timeout(id, does) \in [id : Ids, does : {"dismiss", "remove"}]
    /\ \A t \in [id : Ids, dismissed : BOOLEAN] :
            t = Blocks!Toast(t.id, TRUE) \/ t = Blocks!Toast(t.id, FALSE)
BY DEF Blocks!Toast, Blocks!Timeout

(***************************************************************************)
(* After every change of the toasts, each mounted region is told.          *)
(***************************************************************************)
LEMMA NotifyTells ==
    ASSUME Blocks!ToastConstants, ToastInv, Blocks!Notify
    PROVE  RegionsAreCurrent'
BY DEF Blocks!Notify, RegionsAreCurrent

LEMMA DismissStep ==
    ASSUME Blocks!ToastConstants, ToastInv, NEW id \in Ids, NEW due, due \subseteq pending,
           id \in emitted, Blocks!Dismiss(id, due)
    PROVE  ToastInv'
<1> USE ToastFields DEF ToastInv, Blocks!TypeOK, RemovalsFollowExits
<1>1. RegionsAreCurrent'
  BY NotifyTells DEF Blocks!Dismiss
<1>2. CASE id \in Blocks!Live \ Blocks!Dismissed
  <2>1. /\ toasts' = (toasts \ {Blocks!Toast(id, FALSE)}) \union {Blocks!Toast(id, TRUE)}
        /\ timers' = [timers EXCEPT ![id] = "remove"]
        /\ pending' = (due \ {Blocks!Timeout(id, timers[id])}) \union {Blocks!Timeout(id, "remove")}
        /\ UNCHANGED <<emitted, lasting>>
    BY <1>2 DEF Blocks!Dismiss
  <2>2. toasts' \subseteq [id : Ids, dismissed : BOOLEAN] /\ pending' \subseteq [id : Ids, does : {"dismiss", "remove"}]
    <3>1. toasts' \subseteq [id : Ids, dismissed : BOOLEAN]
      BY <2>1
    <3>2. pending' \subseteq [id : Ids, does : {"dismiss", "remove"}]
      BY <2>1
    <3> QED
      BY <3>1, <3>2
  <2>3. Blocks!TypeOK'
    BY <1>1, <2>1, <2>2 DEF RegionsAreCurrent
  <2>4. /\ \A t \in toasts' : t \in toasts \/ t.id = id
        /\ \A p \in pending' : p \in pending \/ p.id = id
    BY <2>1 DEF Blocks!Toast, Blocks!Timeout
  <2>5. \A k \in Ids : Blocks!Timeout(k, "remove") \in pending' => Blocks!Toast(k, FALSE) \notin toasts'
    <3> SUFFICES ASSUME NEW k \in Ids, Blocks!Timeout(k, "remove") \in pending'
                 PROVE  Blocks!Toast(k, FALSE) \notin toasts'
      OBVIOUS
    <3>1. Blocks!Toast(k, FALSE) # Blocks!Toast(id, TRUE)
      BY DEF Blocks!Toast
    <3>2. CASE k = id
      BY <2>1, <3>1, <3>2
    <3>3. CASE k # id
      <4>1. Blocks!Timeout(k, "remove") \in pending
        BY <2>1, <3>3
      <4> QED
        BY <2>1, <3>1, <4>1
    <3> QED
      BY <3>2, <3>3
  <2> QED
    BY <1>1, <2>1, <2>3, <2>4, <2>5
<1>3. CASE ~(id \in Blocks!Live \ Blocks!Dismissed)
  <2>1. pending' = due /\ UNCHANGED <<toasts, timers, emitted, lasting>>
    BY <1>3 DEF Blocks!Dismiss
  <2> QED
    BY <1>1, <2>1 DEF RegionsAreCurrent
<1> QED
  BY <1>2, <1>3

LEMMA RemoveStep ==
    ASSUME Blocks!ToastConstants, ToastInv, NEW id \in Ids, NEW due, due \subseteq pending,
           Blocks!Remove(id, due)
    PROVE  ToastInv'
<1> USE ToastFields DEF ToastInv, Blocks!TypeOK, RemovalsFollowExits
<1>1. RegionsAreCurrent'
  BY NotifyTells DEF Blocks!Remove
<1>2. toasts' \subseteq toasts /\ pending' \subseteq pending /\ UNCHANGED <<emitted, lasting>>
  BY DEF Blocks!Remove
<1>3. timers' \in [Ids -> {"none", "dismiss", "remove"}]
  BY DEF Blocks!Remove
<1> QED
  BY <1>1, <1>2, <1>3 DEF RegionsAreCurrent

LEMMA EmitStep ==
    ASSUME Blocks!ToastConstants, ToastInv, NEW id \in Ids, NEW finite \in BOOLEAN,
           Blocks!Emit(id, finite)
    PROVE  ToastInv'
<1> USE ToastFields DEF ToastInv, Blocks!TypeOK, RemovalsFollowExits
<1>1. RegionsAreCurrent'
  BY NotifyTells DEF Blocks!Emit
<1>2. /\ id \notin emitted /\ emitted' = emitted \union {id}
      /\ lasting' \subseteq lasting \union {id}
      /\ toasts' = toasts \union {Blocks!Toast(id, FALSE)}
      /\ pending' \subseteq pending \union {Blocks!Timeout(id, "dismiss")}
  BY DEF Blocks!Emit
<1>3. timers' \in [Ids -> {"none", "dismiss", "remove"}]
  BY DEF Blocks!Emit
<1>4. /\ toasts' \subseteq [id : Ids, dismissed : BOOLEAN]
      /\ pending' \subseteq [id : Ids, does : {"dismiss", "remove"}]
      /\ \A t \in toasts' : t.id \in emitted'
      /\ \A p \in pending' : p.id \in emitted'
  <2>1. /\ Blocks!Toast(id, FALSE) \in [id : Ids, dismissed : BOOLEAN]
        /\ Blocks!Timeout(id, "dismiss") \in [id : Ids, does : {"dismiss", "remove"}]
        /\ Blocks!Toast(id, FALSE).id = id /\ Blocks!Timeout(id, "dismiss").id = id
    BY DEF Blocks!Toast, Blocks!Timeout
  <2>2. /\ toasts' \subseteq [id : Ids, dismissed : BOOLEAN]
        /\ pending' \subseteq [id : Ids, does : {"dismiss", "remove"}]
    BY <1>2, <2>1
  <2>3. \A t \in toasts' : t.id \in emitted'
    BY <1>2, <2>1
  <2>4. \A p \in pending' : p.id \in emitted'
    BY <1>2, <2>1
  <2> QED
    BY <2>2, <2>3, <2>4
<1>5. Blocks!TypeOK'
  <2>1. emitted' \subseteq Ids /\ lasting' \subseteq emitted'
    BY <1>2
  <2>2. \A r \in Regions : view'[r] = None \/ view'[r] \subseteq [id : Ids, dismissed : BOOLEAN]
    BY <1>1, <1>4 DEF RegionsAreCurrent
  <2> QED
    BY <1>3, <1>4, <2>1, <2>2
<1>6. ASSUME NEW k \in Ids, Blocks!Timeout(k, "remove") \in pending'
      PROVE  Blocks!Toast(k, FALSE) \notin toasts'
  <2>1. Blocks!Timeout(k, "remove") # Blocks!Timeout(id, "dismiss")
    BY DEF Blocks!Timeout
  <2>2. Blocks!Timeout(k, "remove") \in pending
    BY <1>2, <1>6, <2>1
  <2>3. k # id
    BY <1>2, <2>2
  <2>4. Blocks!Toast(k, FALSE) # Blocks!Toast(id, FALSE)
    BY <2>3 DEF Blocks!Toast
  <2> QED
    BY <1>2, <2>2, <2>4
<1> QED
  BY <1>1, <1>4, <1>5, <1>6

LEMMA ToastStep ==
    ASSUME Blocks!ToastConstants, ToastInv, [Blocks!Next]_(Blocks!vars)
    PROVE  ToastInv'
<1>1. ASSUME NEW r \in Regions, Blocks!Subscribe(r) \/ Blocks!Unsubscribe(r)
      PROVE  ToastInv'
  <2>1. UNCHANGED <<toasts, timers, pending, emitted, lasting>>
    BY <1>1 DEF Blocks!Subscribe, Blocks!Unsubscribe
  <2>2. RegionsAreCurrent'
    BY <1>1, <2>1 DEF Blocks!Subscribe, Blocks!Unsubscribe, ToastInv, RegionsAreCurrent
  <2> QED
    BY <2>1, <2>2 DEF ToastInv, Blocks!TypeOK, RegionsAreCurrent, RemovalsFollowExits
<1>2. ASSUME NEW id \in Ids, NEW finite \in BOOLEAN, Blocks!Emit(id, finite)
      PROVE  ToastInv'
  BY <1>2, EmitStep
<1>3. ASSUME NEW id \in Ids, id \in emitted, Blocks!Dismiss(id, pending)
      PROVE  ToastInv'
  BY <1>3, DismissStep
<1>4. ASSUME NEW id \in Ids, Blocks!Fire(id)
      PROVE  ToastInv'
  <2>1. CASE /\ Blocks!Timeout(id, "dismiss") \in pending
             /\ Blocks!Dismiss(id, pending \ {Blocks!Timeout(id, "dismiss")})
    <3>1. id \in emitted
      BY <2>1, ToastFields DEF ToastInv, RemovalsFollowExits
    <3>2. pending \ {Blocks!Timeout(id, "dismiss")} \subseteq pending
      OBVIOUS
    <3> QED
      BY <2>1, <3>1, <3>2, DismissStep
  <2>2. CASE Blocks!Remove(id, pending \ {Blocks!Timeout(id, "remove")})
    <3>1. pending \ {Blocks!Timeout(id, "remove")} \subseteq pending
      OBVIOUS
    <3> QED
      BY <2>2, <3>1, RemoveStep
  <2> QED
    BY <1>4, <2>1, <2>2 DEF Blocks!Fire
<1>5. CASE UNCHANGED Blocks!vars
  BY <1>5 DEF Blocks!vars, ToastInv, Blocks!TypeOK, RegionsAreCurrent, RemovalsFollowExits
<1> QED
  BY <1>1, <1>2, <1>3, <1>4, <1>5 DEF Blocks!Next

LEMMA ToastInvariant == ASSUME Blocks!ToastConstants PROVE Blocks!Spec => []ToastInv
<1>1. Blocks!Init => ToastInv
  BY DEF Blocks!Init, ToastInv, Blocks!TypeOK, RegionsAreCurrent, RemovalsFollowExits
<1> QED
  BY <1>1, ToastStep, PTL DEF Blocks!Spec

(***************************************************************************)
(* "mark dismissed so the region can animate out, then hard-remove after   *)
(* the exit": for any number of toasts and regions, whoever dismisses a    *)
(* toast and however its timeouts fire, a region never loses a toast that  *)
(* it did not show leaving.                                                *)
(***************************************************************************)
THEOREM ToastsLeaveInTwoPhases ==
    ASSUME Blocks!ToastConstants PROVE Blocks!Spec => Blocks!LeavesInTwoPhases
<1> DEFINE Shows(r, id) == \E t \in view[r] : t.id = id
<1> DEFINE Leaves ==
        \A r \in Regions, id \in Ids :
            view[r] # None /\ view'[r] # None /\ (\E t \in view[r] : t.id = id)
                /\ ~(\E t \in view'[r] : t.id = id) => Blocks!Toast(id, TRUE) \in view[r]
<1>1. ToastInv /\ ToastInv' /\ [Blocks!Next]_(Blocks!vars) => [Leaves]_(Blocks!vars)
  <2> SUFFICES ASSUME ToastInv, ToastInv', Blocks!Next, NEW r \in Regions, NEW id \in Ids,
                      view[r] # None, view'[r] # None,
                      \E t \in view[r] : t.id = id,
                      ~(\E t \in view'[r] : t.id = id)
               PROVE  Blocks!Toast(id, TRUE) \in view[r]
    OBVIOUS
  <2>1. view[r] = toasts /\ view'[r] = toasts'
    BY DEF ToastInv, RegionsAreCurrent
  <2>2. PICK t \in toasts : t.id = id
    BY <2>1
  <2>3. \A u \in toasts' : u.id # id
    BY <2>1
  <2>4. Blocks!Timeout(id, "remove") \in pending
    <3>1. PICK k \in Ids : \/ \E finite \in BOOLEAN : Blocks!Emit(k, finite)
                           \/ \E due : Blocks!Dismiss(k, due)
                           \/ /\ Blocks!Timeout(k, "remove") \in pending
                              /\ Blocks!Remove(k, pending \ {Blocks!Timeout(k, "remove")})
      <4>1. ~(\E s \in Regions : Blocks!Subscribe(s) \/ Blocks!Unsubscribe(s))
        BY <2>2, <2>3 DEF Blocks!Subscribe, Blocks!Unsubscribe
      <4> QED
        BY <4>1 DEF Blocks!Next, Blocks!Fire
    <3>2. ~(\E finite \in BOOLEAN : Blocks!Emit(k, finite))
      BY <2>2, <2>3 DEF Blocks!Emit
    <3>3. ~(\E due : Blocks!Dismiss(k, due))
      <4>1. \A due : Blocks!Dismiss(k, due) =>
                \/ toasts' = toasts
                \/ toasts' = (toasts \ {Blocks!Toast(k, FALSE)}) \union {Blocks!Toast(k, TRUE)}
        BY DEF Blocks!Dismiss
      <4>2. ASSUME toasts' = (toasts \ {Blocks!Toast(k, FALSE)}) \union {Blocks!Toast(k, TRUE)}
            PROVE  FALSE
        <5>1. Blocks!Toast(k, TRUE).id = k /\ Blocks!Toast(k, FALSE).id = k
          BY DEF Blocks!Toast
        <5>2. Blocks!Toast(k, TRUE) \in toasts'
          BY <4>2
        <5>3. k # id
          BY <2>3, <5>1, <5>2
        <5>4. t \in toasts'
          BY <2>2, <4>2, <5>1, <5>3
        <5> QED
          BY <2>2, <2>3, <5>4
      <4> QED
        BY <2>2, <2>3, <4>1, <4>2
    <3>4. Blocks!Timeout(k, "remove") \in pending /\ k = id
      BY <2>2, <2>3, <3>1, <3>2, <3>3 DEF Blocks!Remove
    <3> QED
      BY <3>4
  <2>5. t # Blocks!Toast(id, FALSE)
    BY <2>4 DEF ToastInv, RemovalsFollowExits
  <2> QED
    BY <2>1, <2>2, <2>5, ToastFields DEF ToastInv, Blocks!TypeOK
<1> QED
  BY <1>1, ToastInvariant, PTL DEF Blocks!Spec, Blocks!LeavesInTwoPhases

-----------------------------------------------------------------------------
(***************************************************************************)
(* The services together.                                                  *)
(***************************************************************************)
\* A step is one of the package in focus; the others keep their variables.
LEMMA ServicesStep ==
    ASSUME [ServicesNext]_serviceVars
    PROVE  /\ [Next]_vars
           /\ [Actions!Next]_(Actions!vars)
           /\ [Purchases!Next]_(Purchases!vars)
           /\ [Storage!Next]_(Storage!vars)
           /\ [Inline!Next]_(Inline!vars)
           /\ [Texts!Next]_(Texts!vars)
           /\ [Blocks!Next]_(Blocks!vars)
<1>1. /\ UNCHANGED actionVars => UNCHANGED Actions!vars
      /\ UNCHANGED chargeVars => UNCHANGED Purchases!vars
      /\ UNCHANGED uploadVars => UNCHANGED Storage!vars
      /\ UNCHANGED inlineVars => UNCHANGED Inline!vars
      /\ UNCHANGED textVars => UNCHANGED Texts!vars
      /\ UNCHANGED toastVars => UNCHANGED Blocks!vars
  BY DEF actionVars, Actions!vars, chargeVars, Purchases!vars,
     uploadVars, Storage!vars, Storage!handlers, Storage!history, inlineVars, Inline!vars,
     textVars, Texts!vars, Texts!runVars, toastVars, Blocks!vars
<1>2. CASE On("subscriptions") /\ Next
  BY <1>1, <1>2 DEF On, Still
<1>3. CASE On("actions") /\ Actions!Next
  BY <1>1, <1>3 DEF On, Still
<1>4. CASE On("purchases") /\ Purchases!Next
  BY <1>1, <1>4 DEF On, Still
<1>5. CASE On("storage") /\ Storage!Next
  BY <1>1, <1>5 DEF On, Still
<1>6. CASE On("inline") /\ Inline!Next
  BY <1>1, <1>6 DEF On, Still
<1>7. CASE On("texts") /\ Texts!Next
  BY <1>1, <1>7 DEF On, Still
<1>8. CASE On("toasts") /\ Blocks!Next
  BY <1>1, <1>8 DEF On, Still
<1>9. CASE UNCHANGED serviceVars
  BY <1>1, <1>9 DEF serviceVars
<1> QED
  BY <1>2, <1>3, <1>4, <1>5, <1>6, <1>7, <1>8, <1>9 DEF ServicesNext

(***************************************************************************)
(* What the services do together is, seen from each package, what it does  *)
(* alone.                                                                  *)
(***************************************************************************)
LEMMA ServicesRunPackages ==
    ServicesSpec => /\ Spec /\ Actions!Spec /\ Purchases!Spec /\ Storage!Spec
                    /\ Inline!Spec /\ Texts!Spec /\ Blocks!Spec
<1>1. ServicesInit => /\ Init /\ Actions!Init /\ Purchases!Init /\ Storage!Init
                      /\ Inline!Init /\ Texts!Init /\ Blocks!Init
  BY DEF ServicesInit
<1> QED
  BY <1>1, ServicesStep, PTL
     DEF ServicesSpec, Spec, Actions!Spec, Purchases!Spec, Storage!Spec, Inline!Spec, Texts!Spec,
         Blocks!Spec

(***************************************************************************)
(* Type correctness of every service.                                      *)
(***************************************************************************)
THEOREM ServicesTypeCorrect == ServicesSpec => []ServicesTypeOK
<1>1. ToastInv => Blocks!TypeOK
  BY DEF ToastInv
<1>2. TextInv => Texts!TypeOK
  BY DEF TextInv
<1>3. InlineInv => Inline!TypeOK
  BY DEF InlineInv
<1>4. Actions!TypeOK /\ Purchases!TypeOK /\ Storage!TypeOK
        /\ Inline!TypeOK /\ Texts!TypeOK /\ Blocks!TypeOK => ServicesTypeOK
  BY DEF ServicesTypeOK
<1>5. /\ Actions!Spec => []Actions!TypeOK
      /\ Purchases!Spec => []Purchases!TypeOK
      /\ Storage!Spec => []Storage!TypeOK
      /\ Inline!Spec => []InlineInv
      /\ Texts!Spec => []TextInv
      /\ Blocks!Spec => []ToastInv
  BY ServiceConstants, RequestsTypeCorrect, ChargesTypeCorrect, UploadsTypeCorrect,
     InlineInvariant, TextInvariant, ToastInvariant
<1> QED
  BY <1>1, <1>2, <1>3, <1>4, <1>5, ServicesRunPackages, PTL

(***************************************************************************)
(* vike-stripe: as long as deliveries for a subject do not overlap, its    *)
(* row follows the order of the events, and nobody is notified twice of    *)
(* one move into past_due.                                                 *)
(***************************************************************************)
THEOREM SerialServiceKeepsOrder ==
    ServicesSpec /\ []Serial => RowNeverOlder /\ []NotifiedPerTransition
BY ServicesRunPackages, SerialDeliveriesKeepOrder, SerialDeliveriesNotifyTransitions, PTL

(***************************************************************************)
(* However many handlers are collected for one request, it runs at most    *)
(* one action, once, behind the guard that let it pass, and never for a    *)
(* page of an origin that the app does not trust.                          *)
(***************************************************************************)
THEOREM RequestsAreHandledBehindTheirGuards == ServicesSpec => []HandledBehindItsGuard
<1>1. Actions!HandledOnce /\ (Actions!RunsBehindItsGuard /\ Actions!OnlyTrustedPagesRun)
        => HandledBehindItsGuard
  BY DEF HandledBehindItsGuard
<1>2. /\ Actions!Spec => []Actions!HandledOnce
      /\ Actions!Spec => [](Actions!RunsBehindItsGuard /\ Actions!OnlyTrustedPagesRun)
  BY ServiceConstants, RequestHandledOnce, RunsAreGuarded
<1> QED
  BY <1>1, <1>2, ServicesRunPackages, PTL

(***************************************************************************)
(* Whatever collides or fails, a charge that was answered is recorded,     *)
(* once, and Stripe sees an error only where a call failed or a process    *)
(* died.                                                                   *)
(***************************************************************************)
THEOREM AnsweredChargesAreRecordedOnce == ServicesSpec => []ChargesRecordedOnce
<1>1. Purchases!RecordedOnce /\ Purchases!RefusedOnlyOnFaults => ChargesRecordedOnce
  BY DEF ChargesRecordedOnce
<1>2. /\ Purchases!Spec => []Purchases!RecordedOnce
      /\ Purchases!Spec => []Purchases!RefusedOnlyOnFaults
  BY ServiceConstants, ChargeRecordedOnce, ErrorsOnlyOnFaults
<1> QED
  BY <1>1, <1>2, ServicesRunPackages, PTL

(***************************************************************************)
(* Whatever fails between the provider and the table, bytes and rows agree *)
(* on what can be served and on what is gone.                              *)
(***************************************************************************)
THEOREM StoredBytesFollowRows == ServicesSpec => []BytesFollowRows
<1>1. Storage!RowsHaveTheirBytes /\ Storage!DeletedIsGone /\ Storage!LostBytesWereNeverAnswered
        => BytesFollowRows
  BY DEF BytesFollowRows
<1>2. Storage!Spec =>
        [](Storage!RowsHaveTheirBytes /\ Storage!DeletedIsGone /\ Storage!LostBytesWereNeverAnswered)
  BY ServiceConstants, BytesAndRowsAgree
<1> QED
  BY <1>1, <1>2, ServicesRunPackages, PTL

(***************************************************************************)
(* dispatch with the inline driver implements the contract of the queue.   *)
(***************************************************************************)
THEOREM InlineServiceKeepsContract == ServicesSpec => InlineKeepsContract
BY ServiceConstants, ServicesRunPackages, InlineDriverKeepsContract DEF InlineKeepsContract

(***************************************************************************)
(* What the check of the translations lets pass is current or written by   *)
(* hand, and no run takes away what a person wrote unless the English had  *)
(* changed, other languages were asked for, or it was written meanwhile.   *)
(***************************************************************************)
THEOREM TranslationsAreCurrent == ServicesSpec => TranslationsStayCurrent
BY ServiceConstants, ServicesRunPackages, CheckedTranslationsAreCurrent, HandEditsAreKept
   DEF TranslationsStayCurrent

(***************************************************************************)
(* The safety in what TLC checks of toasts: a region shows a toast leaving *)
(* before it loses it.                                                     *)
(***************************************************************************)
THEOREM ToastsAreSeenLeaving == ServicesSpec => Blocks!LeavesInTwoPhases
BY ServiceConstants, ServicesRunPackages, ToastsLeaveInTwoPhases
=============================================================================
