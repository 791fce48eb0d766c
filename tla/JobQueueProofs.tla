--------------------------- MODULE JobQueueProofs ---------------------------
(***************************************************************************)
(* Proofs about the database queue driver, for every number of workers and *)
(* jobs and every value of the timeouts and bounds.                        *)
(***************************************************************************)
EXTENDS JobQueue, FiniteSetTheorems, TLAPS

(***************************************************************************)
(* A backoff is an integer number of ticks, so that a rescheduled row has  *)
(* a timestamp in run_at.                                                  *)
(***************************************************************************)
LEMMA BackoffIsInt ==
    ASSUME NEW n \in Nat, n >= 1
    PROVE  BackoffMs(n) \in Int
<1>1. 2^(n - 1) \in Int
  BY SMT
<1>2. QED
  BY <1>1, QueueConstants DEF BackoffMs

(***************************************************************************)
(* What the driver's updates and the passing of time make of a row is a    *)
(* row.                                                                    *)
(***************************************************************************)
LEMMA UpdatedIsRow ==
    ASSUME NEW row \in Row, NEW status \in Statuses, NEW attempts \in Nat,
           NEW runAt \in Int
    PROVE  Updated(row, status, attempts, runAt) \in Row
BY DEF Updated, Row

LEMMA AgedIsRow ==
    ASSUME NEW row \in Row
    PROVE  Aged(row) \in Row
BY QueueConstants DEF Aged, Older, Row

(***************************************************************************)
(* A worker past a claim holds a job, so that the write of its result has a     *)
(* row to go to, and it is on at least its first attempt.                  *)
(***************************************************************************)
Held == \A w \in Workers : pc[w] \in InHand =>
            cur[w].job \in Jobs /\ cur[w].attempts >= 1

(***************************************************************************)
(* Type correctness: every step of every worker leaves well-formed rows    *)
(* and drains, and a worker in a handler holds a job.                      *)
(***************************************************************************)
LEMMA TypeInvariant == Spec => [](TypeOK /\ Held)
<1> USE QueueConstants
<1>1. Init => TypeOK /\ Held
  BY DEF Init, TypeOK, Held, NoRow, Row, Idle, Statuses, Points, InHand
<1>2. TypeOK /\ Held /\ [Next]_vars => TypeOK' /\ Held'
  <2> SUFFICES ASSUME TypeOK, Held, [Next]_vars
               PROVE  TypeOK' /\ Held'
    OBVIOUS
  <2> USE DEF TypeOK, Held, Statuses, Points, InHand
  <2>1. ASSUME NEW j \in Jobs, NEW max \in MaxAttempts, Enqueue(j, max)
        PROVE  TypeOK' /\ Held'
    BY <2>1 DEF Enqueue, workerVars, history, Row
  <2>2. ASSUME NEW w \in Workers, BeginDrain(w)
        PROVE  TypeOK' /\ Held'
    BY <2>2 DEF BeginDrain, history
  <2>3. ASSUME NEW w \in Workers, FindRunning(w)
        PROVE  TypeOK' /\ Held'
    BY <2>3 DEF FindRunning, history
  <2>4. ASSUME NEW w \in Workers, NEW j \in Jobs, Reclaim(w, j)
        PROVE  TypeOK' /\ Held'
    <3>1. rows' \in [Jobs -> Row]
      <4>1. Updated(rows[j], "pending", rows[j].attempts, rows[j].runAt) \in Row
        BY UpdatedIsRow DEF Row
      <4>2. QED
        BY <2>4, <4>1 DEF Reclaim
    <3>2. QED
      BY <2>4, <3>1 DEF Reclaim, history
  <2>5. ASSUME NEW w \in Workers, FindPending(w)
        PROVE  TypeOK' /\ Held'
    BY <2>5 DEF FindPending, history, Row
  <2>6. ASSUME NEW w \in Workers, NEW r \in batch[w], FailExhausted(w, r)
        PROVE  TypeOK' /\ Held'
    <3>1. rows' \in [Jobs -> Row]
      <4>1. r.job \in Jobs /\ r.attempts \in Nat /\ rows[r.job] \in Row
        OBVIOUS
      <4>2. Updated(rows[r.job], "failed", rows[r.job].attempts, rows[r.job].runAt) \in Row
        BY <4>1, UpdatedIsRow DEF Row
      <4>3. QED
        BY <2>6, <4>1, <4>2 DEF FailExhausted
    <3>2. QED
      BY <2>6, <3>1 DEF FailExhausted, history
  <2>7. ASSUME NEW w \in Workers, NEW r \in batch[w], Claim(w, r)
        PROVE  TypeOK' /\ Held'
    <3>1. rows' \in [Jobs -> Row]
      <4>1. r.job \in Jobs /\ r.attempts \in Nat /\ rows[r.job] \in Row
        OBVIOUS
      <4>2. r.attempts + 1 \in Nat /\ rows[r.job].runAt \in Int
        BY <4>1 DEF Row
      <4>3. Updated(rows[r.job], "running", r.attempts + 1, rows[r.job].runAt) \in Row
        BY <4>1, <4>2, UpdatedIsRow
      <4>4. QED
        BY <2>7, <4>1, <4>3 DEF Claim, ClaimIf
    <3>2. QED
      BY <2>7, <3>1 DEF Claim, ClaimIf, history
  <2>8. ASSUME NEW w \in Workers, NEW r \in batch[w], LoseClaim(w, r)
        PROVE  TypeOK' /\ Held'
    BY <2>8 DEF LoseClaim, history
  <2>9. ASSUME NEW w \in Workers, HandlerSucceeds(w)
        PROVE  TypeOK' /\ Held'
    BY <2>9 DEF HandlerSucceeds
  <2>10. ASSUME NEW w \in Workers, HandlerFails(w)
         PROVE  TypeOK' /\ Held'
    BY <2>10 DEF HandlerFails, history
  <2>11. ASSUME NEW w \in Workers, pc[w] \in {"commit", "unknown", "settle"},
                NEW status \in Statuses, NEW runAt \in Int,
                Settle(w, status, runAt)
         PROVE  TypeOK' /\ Held'
    <3>1. rows' \in [Jobs -> Row]
      <4>1. Updated(rows[cur[w].job], status, rows[cur[w].job].attempts, runAt) \in Row
        BY <2>11, UpdatedIsRow DEF Row
      <4>2. QED
        BY <2>11, <4>1 DEF Settle
    <3>2. QED
      BY <2>11, <3>1 DEF Settle, Idle, history
  <2>12. ASSUME NEW w \in Workers, WriteDone(w) \/ WriteFailed(w)
         PROVE  TypeOK' /\ Held'
    <3>1. rows[cur[w].job].runAt \in Int
      BY <2>12 DEF WriteDone, WriteFailed, Failed, Row
    <3>2. QED
      BY <2>11, <2>12, <3>1 DEF WriteDone, WriteFailed, Failed
  <2>13. ASSUME NEW w \in Workers, Reschedule(w)
         PROVE  TypeOK' /\ Held'
    <3>1. BackoffMs(cur[w].attempts) \in Int
      BY <2>13, BackoffIsInt DEF Reschedule, Failed
    <3>2. QED
      BY <2>11, <2>13, <3>1 DEF Reschedule, Failed
  <2>14. ASSUME NEW w \in Workers, EndDrain(w)
         PROVE  TypeOK' /\ Held'
    BY <2>14 DEF EndDrain, history
  <2>15. ASSUME NEW w \in Workers, WriteDoneThrows(w)
         PROVE  TypeOK' /\ Held'
    <3>1. rows' \in [Jobs -> Row]
      <4>1. cur[w].job \in Jobs /\ rows[cur[w].job].attempts \in Nat /\ rows[cur[w].job].runAt \in Int
        BY <2>15 DEF WriteDoneThrows, Row
      <4>2. Updated(rows[cur[w].job], "done", rows[cur[w].job].attempts, rows[cur[w].job].runAt) \in Row
        BY <4>1, UpdatedIsRow
      <4>3. QED
        BY <2>15, <4>1, <4>2 DEF WriteDoneThrows
    <3>2. QED
      BY <2>15, <3>1 DEF WriteDoneThrows, history
  <2>16. ASSUME NEW w \in Workers, Abort(w)
         PROVE  TypeOK' /\ Held'
    BY <2>16 DEF Abort, Idle, history
  <2>17. CASE Tick
    <3>1. rows' \in [Jobs -> Row]
      BY <2>17, AgedIsRow DEF Tick
    <3>2. QED
      BY <2>17, <3>1 DEF Tick, history
  <2>18. ASSUME NEW w \in Workers, StartHandler(w) \/ NoHandler(w)
         PROVE  TypeOK' /\ Held'
    <3>1. cur[w].job \in Jobs /\ pc[w] \in InHand
      BY <2>18 DEF StartHandler, NoHandler
    <3>2. CASE StartHandler(w)
      BY <3>1, <3>2 DEF StartHandler
    <3>3. CASE NoHandler(w)
      BY <3>1, <3>3 DEF NoHandler
    <3>4. QED
      BY <2>18, <3>2, <3>3
  <2>19. CASE UNCHANGED vars
    BY <2>19 DEF vars
  <2>20. QED
    BY <2>1, <2>2, <2>3, <2>4, <2>5, <2>6, <2>7, <2>8, <2>9, <2>10, <2>12,
       <2>13, <2>14, <2>15, <2>16, <2>17, <2>18, <2>19 DEF Next, DrainStep
<1>3. QED
  BY <1>1, <1>2, PTL DEF Spec

(***************************************************************************)
(* What a job has spent does not change as long as the same workers have   *)
(* yet to resume from a claim of it.                                       *)
(***************************************************************************)
LEMMA SpentKept ==
    ASSUME UNCHANGED <<runs, lost>>, NEW j \in Jobs,
           \A w \in Workers : /\ pc'[w] = "claimed" <=> pc[w] = "claimed"
                              /\ pc[w] = "claimed" => cur'[w] = cur[w]
    PROVE  Spent(j)' = Spent(j)
<1>1. Resuming(j)' = Resuming(j)
  BY DEF Resuming
<1>2. QED
  BY <1>1 DEF Spent

(***************************************************************************)
(* Nor when a worker resumes or dies after its claim: the attempt it       *)
(* claimed then counts as a run or as lost.                                *)
(***************************************************************************)
LEMMA SpentResumed ==
    ASSUME TypeOK, Held, NEW w \in Workers, pc[w] = "claimed", pc'[w] # "claimed",
           \A v \in Workers \ {w} : pc'[v] = pc[v] /\ cur'[v] = cur[v],
           \/ lost' = lost /\ runs' = [runs EXCEPT ![cur[w].job] = @ + 1]
           \/ runs' = runs /\ lost' = [lost EXCEPT ![cur[w].job] = @ + 1],
           NEW j \in Jobs
    PROVE  Spent(j)' = Spent(j)
<1> USE DEF TypeOK
<1>1. IsFiniteSet(Resuming(j))
  BY QueueConstants, FS_Subset DEF Resuming
<1>2. CASE cur[w].job = j
  <2>1. Resuming(j)' = Resuming(j) \ {w} /\ w \in Resuming(j)
    BY <1>2 DEF Resuming
  <2>2. Cardinality(Resuming(j))' = Cardinality(Resuming(j)) - 1 /\ Cardinality(Resuming(j)) \in Nat
    BY <1>1, <2>1, FS_RemoveElement, FS_CardinalityType
  <2>3. runs'[j] + lost'[j] = runs[j] + lost[j] + 1 /\ runs[j] + lost[j] \in Nat
    <3>1. runs[j] \in Nat /\ lost[j] \in Nat /\ j \in DOMAIN runs /\ j \in DOMAIN lost
      OBVIOUS
    <3>2. \/ lost' = lost /\ runs'[j] = runs[j] + 1
          \/ runs' = runs /\ lost'[j] = lost[j] + 1
      BY <1>2, <3>1
    <3>3. QED
      BY <3>1, <3>2
  <2>4. QED
    BY <2>2, <2>3 DEF Spent
<1>3. CASE cur[w].job # j
  <2>1. Resuming(j)' = Resuming(j)
    BY <1>3 DEF Resuming
  <2>2. runs'[j] = runs[j] /\ lost'[j] = lost[j]
    BY <1>3
  <2>3. QED
    BY <2>1, <2>2 DEF Spent
<1>4. QED
  BY <1>2, <1>3

(***************************************************************************)
(* A claim spends one attempt of its job.                                  *)
(***************************************************************************)
LEMMA ClaimSpends ==
    ASSUME TypeOK, NEW w \in Workers, NEW r \in batch[w], Claim(w, r), NEW j \in Jobs
    PROVE  Spent(j)' = IF j = r.job THEN Spent(j) + 1 ELSE Spent(j)
<1> USE DEF TypeOK
<1>1. /\ pc[w] = "drain" /\ pc' = [pc EXCEPT ![w] = "claimed"]
      /\ cur' = [cur EXCEPT ![w] = [job |-> r.job, attempts |-> r.attempts + 1]]
      /\ UNCHANGED <<runs, lost>>
  BY DEF Claim, ClaimIf, history
<1>2. IsFiniteSet(Resuming(j))
  BY QueueConstants, FS_Subset DEF Resuming
<1>3. CASE j = r.job
  <2>1. Resuming(j)' = Resuming(j) \union {w} /\ w \notin Resuming(j)
    BY <1>1, <1>3 DEF Resuming
  <2>2. Cardinality(Resuming(j))' = Cardinality(Resuming(j)) + 1 /\ Cardinality(Resuming(j)) \in Nat
    BY <1>2, <2>1, FS_AddElement, FS_CardinalityType
  <2>3. runs'[j] + lost'[j] = runs[j] + lost[j] /\ runs[j] + lost[j] \in Nat
    BY <1>1
  <2>4. Spent(j)' = Spent(j) + 1
    BY <2>2, <2>3 DEF Spent
  <2>5. QED
    BY <1>3, <2>4
<1>4. CASE j # r.job
  <2>1. Resuming(j)' = Resuming(j)
    BY <1>1, <1>4 DEF Resuming
  <2>2. QED
    BY <1>1, <1>4, <2>1 DEF Spent
<1>5. QED
  BY <1>3, <1>4

(***************************************************************************)
(* No other step spends one, whichever worker takes it.                    *)
(***************************************************************************)
LEMMA OthersSpendNothing ==
    ASSUME TypeOK, Held, NEW j \in Jobs, [Next]_vars,
           \A w \in Workers : \A r \in batch[w] : ~Claim(w, r)
    PROVE  Spent(j)' = Spent(j)
<1> USE DEF TypeOK, history
<1>1. ASSUME NEW w \in Workers, StartHandler(w) \/ NoHandler(w)
      PROVE  Spent(j)' = Spent(j)
  BY <1>1, SpentResumed DEF StartHandler, NoHandler
<1>2. ASSUME NEW w \in Workers, Abort(w)
      PROVE  Spent(j)' = Spent(j)
  <2>1. CASE pc[w] = "claimed"
    BY <1>2, <2>1, SpentResumed DEF Abort
  <2>2. CASE pc[w] # "claimed"
    BY <1>2, <2>2, SpentKept DEF Abort
  <2>3. QED
    BY <2>1, <2>2
<1>3. ASSUME NEW w \in Workers,
             \/ BeginDrain(w) \/ FindRunning(w) \/ FindPending(w)
             \/ HandlerSucceeds(w) \/ HandlerFails(w) \/ WriteDoneThrows(w) \/ EndDrain(w)
      PROVE  Spent(j)' = Spent(j)
  BY <1>3, SpentKept DEF BeginDrain, FindRunning, FindPending, HandlerSucceeds, HandlerFails,
     WriteDoneThrows, EndDrain
<1>4. ASSUME NEW w \in Workers, NEW k \in Jobs, Reclaim(w, k)
      PROVE  Spent(j)' = Spent(j)
  BY <1>4, SpentKept DEF Reclaim
<1>5. ASSUME NEW w \in Workers, NEW r \in batch[w], FailExhausted(w, r) \/ LoseClaim(w, r)
      PROVE  Spent(j)' = Spent(j)
  BY <1>5, SpentKept DEF FailExhausted, LoseClaim
<1>6. ASSUME NEW w \in Workers, WriteDone(w) \/ WriteFailed(w) \/ Reschedule(w)
      PROVE  Spent(j)' = Spent(j)
  BY <1>6, SpentKept DEF WriteDone, WriteFailed, Reschedule, Failed, Settle
<1>7. ASSUME NEW k \in Jobs, NEW max \in MaxAttempts, Enqueue(k, max)
      PROVE  Spent(j)' = Spent(j)
  BY <1>7, SpentKept DEF Enqueue, workerVars
<1>8. CASE Tick
  BY <1>8, SpentKept DEF Tick
<1>9. CASE UNCHANGED vars
  BY <1>9, SpentKept DEF vars
<1>10. QED
  BY <1>1, <1>2, <1>3, <1>4, <1>5, <1>6, <1>7, <1>8, <1>9 DEF Next, DrainStep

LEMMA SpentIsNat == ASSUME TypeOK, NEW j \in Jobs PROVE Spent(j) \in Nat
<1>1. IsFiniteSet(Resuming(j))
  BY QueueConstants, FS_Subset DEF Resuming
<1>2. QED
  BY <1>1, FS_CardinalityType DEF Spent, TypeOK

(***************************************************************************)
(* The strengthening behind the safety theorems.  Every attempt count, in  *)
(* a row, in what a drain has read or in a worker's hands, is backed by as *)
(* many attempts spent; a row's count is within its limit; a worker about to *)
(* write `done` has a success behind it.                                   *)
(***************************************************************************)
RowsBacked ==
    \A j \in Jobs : rows[j].attempts <= Spent(j)

BatchesBacked ==
    \A w \in Workers : \A r \in batch[w] :
        rows[r.job].status # "absent" /\ r.attempts <= Spent(r.job)

HeldBacked ==
    \A w \in Workers : pc[w] \in InHand =>
        rows[cur[w].job].status # "absent" /\ cur[w].attempts <= Spent(cur[w].job)

CommitsSucceeded ==
    \A w \in Workers : pc[w] = "commit" => cur[w].job \in succeeded

Backed == RowsBacked /\ BatchesBacked /\ HeldBacked /\ CommitsSucceeded

Safe == NoEarlyGiveUp /\ AttemptsWithinLimit /\ DoneMeansSucceeded

(***************************************************************************)
(* The inductive step: whatever the interleaving of drains, aborts, failed *)
(* writes and overlong handlers, a step keeps the counts backed and the    *)
(* three safety properties.                                                *)
(***************************************************************************)
LEMMA BackedStep ==
    ASSUME TypeOK, Held, TypeOK', Backed, Safe, [Next]_vars
    PROVE  Backed' /\ Safe'
<1> USE QueueConstants DEF TypeOK, Held, Backed, Safe, RowsBacked, BatchesBacked, HeldBacked,
        CommitsSucceeded, NoEarlyGiveUp, AttemptsWithinLimit, DoneMeansSucceeded,
        Limit, Row, InHand
<1>7. ASSUME NEW w \in Workers, NEW r \in batch[w], Claim(w, r)
      PROVE  Backed' /\ Safe'
  <2>1. \A j \in Jobs : Spent(j) \in Nat /\ Spent(j)' = IF j = r.job THEN Spent(j) + 1 ELSE Spent(j)
    BY <1>7, ClaimSpends, SpentIsNat
  <2>2. Spent(r.job)' = Spent(r.job) + 1
    BY <2>1
  <2>3. \A j \in Jobs : Spent(j)' >= Spent(j)
    BY <2>1
  <2>4. RowsBacked' /\ NoEarlyGiveUp' /\ AttemptsWithinLimit' /\ DoneMeansSucceeded'
    BY <1>7, <2>1, <2>3 DEF Claim, ClaimIf, Matches, Updated, history
  <2>5. BatchesBacked'
    BY <1>7, <2>1, <2>3 DEF Claim, ClaimIf, Matches, Updated, history
  <2>6. HeldBacked' /\ CommitsSucceeded'
    BY <1>7, <2>1, <2>3 DEF Claim, ClaimIf, Matches, Updated, history
  <2>7. QED
    BY <2>4, <2>5, <2>6
<1> SUFFICES ASSUME \A w \in Workers : \A r \in batch[w] : ~Claim(w, r)
             PROVE  Backed' /\ Safe'
  BY <1>7
<1>0. \A j \in Jobs : Spent(j) \in Nat /\ Spent(j)' = Spent(j)
  BY OthersSpendNothing, SpentIsNat
<1>1. ASSUME NEW j \in Jobs, NEW max \in MaxAttempts, Enqueue(j, max)
      PROVE  Backed' /\ Safe'
  BY <1>0, <1>1 DEF Enqueue, workerVars, history
<1>2. ASSUME NEW w \in Workers, BeginDrain(w)
      PROVE  Backed' /\ Safe'
  BY <1>0, <1>2 DEF BeginDrain, history
<1>3. ASSUME NEW w \in Workers, FindRunning(w)
      PROVE  Backed' /\ Safe'
  BY <1>0, <1>3 DEF FindRunning, history
<1>4. ASSUME NEW w \in Workers, NEW j \in Jobs, Reclaim(w, j)
      PROVE  Backed' /\ Safe'
  BY <1>0, <1>4 DEF Reclaim, Matches, Updated, history
<1>5. ASSUME NEW w \in Workers, FindPending(w)
      PROVE  Backed' /\ Safe'
  BY <1>0, <1>5 DEF FindPending, IsReady, history
<1>6. ASSUME NEW w \in Workers, NEW r \in batch[w], FailExhausted(w, r)
      PROVE  Backed' /\ Safe'
  BY <1>0, <1>6 DEF FailExhausted, Matches, Updated, history
<1>8. ASSUME NEW w \in Workers, NEW r \in batch[w], LoseClaim(w, r)
      PROVE  Backed' /\ Safe'
  BY <1>0, <1>8 DEF LoseClaim, history
<1>9. ASSUME NEW w \in Workers, HandlerSucceeds(w)
      PROVE  Backed' /\ Safe'
  BY <1>0, <1>9 DEF HandlerSucceeds
<1>10. ASSUME NEW w \in Workers, HandlerFails(w)
       PROVE  Backed' /\ Safe'
  BY <1>0, <1>10 DEF HandlerFails, history
<1>11. ASSUME NEW w \in Workers, WriteDone(w)
       PROVE  Backed' /\ Safe'
  BY <1>0, <1>11 DEF WriteDone, Settle, Updated, Idle, history
<1>12. ASSUME NEW w \in Workers, WriteFailed(w)
       PROVE  Backed' /\ Safe'
  BY <1>0, <1>12 DEF WriteFailed, Failed, Settle, Updated, Idle, history
<1>13. ASSUME NEW w \in Workers, Reschedule(w)
       PROVE  Backed' /\ Safe'
  BY <1>0, <1>13 DEF Reschedule, Failed, Settle, Updated, Idle, history
<1>14. ASSUME NEW w \in Workers, EndDrain(w)
       PROVE  Backed' /\ Safe'
  BY <1>0, <1>14 DEF EndDrain, history
<1>15. ASSUME NEW w \in Workers, WriteDoneThrows(w)
       PROVE  Backed' /\ Safe'
  <2>1. CASE rows' = rows
    BY <1>0, <1>15, <2>1 DEF WriteDoneThrows, history
  <2>2. CASE rows' = [rows EXCEPT ![cur[w].job] = Updated(@, "done", @.attempts, @.runAt)]
    BY <1>0, <1>15, <2>2 DEF WriteDoneThrows, Updated, history
  <2>3. QED
    BY <1>15, <2>1, <2>2 DEF WriteDoneThrows
<1>16. ASSUME NEW w \in Workers, Abort(w)
       PROVE  Backed' /\ Safe'
  BY <1>0, <1>16 DEF Abort, Idle, history
<1>17. CASE Tick
  BY <1>0, <1>17 DEF Tick, Aged, history
<1>18. ASSUME NEW w \in Workers, StartHandler(w) \/ NoHandler(w)
       PROVE  Backed' /\ Safe'
  BY <1>0, <1>18 DEF StartHandler, NoHandler
<1>19. CASE UNCHANGED vars
  BY <1>0, <1>19 DEF vars
<1>20. QED
  BY <1>1, <1>2, <1>3, <1>4, <1>5, <1>6, <1>8, <1>9, <1>10, <1>11, <1>12,
     <1>13, <1>14, <1>15, <1>16, <1>17, <1>18, <1>19 DEF Next, DrainStep

(***************************************************************************)
(* Type correctness, for every deployment.                                 *)
(***************************************************************************)
THEOREM TypeCorrect == Spec => []TypeOK
BY TypeInvariant, PTL

(***************************************************************************)
(* Safe and what backs it are invariants of every deployment.              *)
(***************************************************************************)
LEMMA SafeInvariant == Spec => []Safe
<1>1. Init => Backed /\ Safe
  <2>1. Init => \A j \in Jobs : rows[j] = NoRow
    BY DEF Init
  <2>2. Init => TypeOK
    BY QueueConstants DEF Init, TypeOK, NoRow, Row, Idle, Statuses, Points
  <2>3. Init => \A j \in Jobs : Spent(j) >= 0
    BY <2>2, SpentIsNat
  <2>4. QED
    BY <2>1, <2>3 DEF Init, NoRow, Backed, Safe, RowsBacked, BatchesBacked, HeldBacked,
       CommitsSucceeded, NoEarlyGiveUp, AttemptsWithinLimit, DoneMeansSucceeded, InHand
<1>2. TypeOK /\ Held /\ TypeOK' /\ Backed /\ Safe /\ [Next]_vars => Backed' /\ Safe'
  BY BackedStep
<1>3. QED
  BY <1>1, <1>2, TypeInvariant, PTL DEF Spec

(***************************************************************************)
(* A job is never marked failed before it had max_attempts attempts, each of*)
(* them a handler run or one whose worker died before, or knew no handler. *)
(***************************************************************************)
THEOREM JobsAreNotGivenUpEarly == Spec => []NoEarlyGiveUp
<1>1. Safe => NoEarlyGiveUp
  BY DEF Safe
<1>2. QED
  BY <1>1, SafeInvariant, PTL

(***************************************************************************)
(* The attempts column never exceeds max_attempts.                         *)
(***************************************************************************)
THEOREM AttemptsStayWithinLimit == Spec => []AttemptsWithinLimit
<1>1. Safe => AttemptsWithinLimit
  BY DEF Safe
<1>2. QED
  BY <1>1, SafeInvariant, PTL

(***************************************************************************)
(* A row marked done has had a successful handler run.                     *)
(***************************************************************************)
THEOREM DoneJobsSucceeded == Spec => []DoneMeansSucceeded
<1>1. Safe => DoneMeansSucceeded
  BY DEF Safe
<1>2. QED
  BY <1>1, SafeInvariant, PTL

-----------------------------------------------------------------------------
(***************************************************************************)
(* Without faults, and with a visibility timeout that exceeds the longest  *)
(* handler, a running row always has exactly one worker behind it, which   *)
(* claimed it within the timeout; so no drain ever finds a zombie.         *)
(***************************************************************************)
HolderOwnsRow ==
    \A w \in Workers : pc[w] \in InHand =>
        /\ rows[cur[w].job].status = "running"
        /\ rows[cur[w].job].updatedAt = claimedAt[w]
        /\ claimedAt[w] > -HandlerBound

RunningIsHeld ==
    \A j \in Jobs : rows[j].status = "running" => \E w \in Workers : Holds(w, j)

NoZombies == \A w \in Workers : zombies[w] = {}

DrainsBeganByNow == \A w \in Workers : ts[w] <= 0

Exclusive ==
    /\ faults = 0
    /\ HolderOwnsRow
    /\ RunningIsHeld
    /\ NoZombies
    /\ DrainsBeganByNow
    /\ OneRunAtATime

(***************************************************************************)
(* A drain that moves between points where it holds no job leaves who      *)
(* holds what as it is.                                                    *)
(***************************************************************************)
LEMMA MoveKeepsExclusive ==
    ASSUME TypeOK, Exclusive,
           NEW w \in Workers, NEW point \in {"idle", "opened", "reclaim", "drain"},
           pc[w] \in {"idle", "opened", "reclaim", "drain"},
           pc' = [pc EXCEPT ![w] = point],
           UNCHANGED <<rows, cur, claimedAt, faults>>,
           NoZombies', DrainsBeganByNow'
    PROVE  Exclusive'
<1> USE DEF TypeOK, Exclusive
<1>1. \A v \in Workers : /\ pc'[v] \in InHand
                               <=> pc[v] \in InHand
                         /\ \A j \in Jobs : Holds(v, j)' <=> Holds(v, j)
  BY DEF Holds, InHand
<1>2. HolderOwnsRow'
  BY <1>1 DEF HolderOwnsRow
<1>3. RunningIsHeld'
  BY <1>1 DEF RunningIsHeld
<1>4. OneRunAtATime'
  BY <1>1 DEF OneRunAtATime
<1>5. QED
  BY <1>2, <1>3, <1>4

(***************************************************************************)
(* The inductive step of exclusion, and what it says of settled rows: a    *)
(* step changes a row only from absent, pending or running.                *)
(***************************************************************************)
LEMMA ExclusiveStep ==
    ASSUME MaxFaults = 0, HandlerBound <= Visibility,
           TypeOK, Held, TypeOK', Exclusive, [Next]_vars
    PROVE  /\ Exclusive'
           /\ \A j \in Jobs : rows[j].status \in Settled => rows'[j].status = rows[j].status
<1> DEFINE Kept == \A j \in Jobs : rows[j].status \in Settled
                                        => rows'[j].status = rows[j].status
<1> USE QueueConstants DEF TypeOK, Held, Exclusive, HolderOwnsRow, RunningIsHeld,
        NoZombies, DrainsBeganByNow, OneRunAtATime, Holds, InHand, Settled, Row
<1>1. ASSUME NEW j \in Jobs, NEW max \in MaxAttempts, Enqueue(j, max)
      PROVE  Exclusive' /\ Kept
  BY <1>1 DEF Enqueue, workerVars, history
<1>2. ASSUME NEW w \in Workers, BeginDrain(w)
      PROVE  Exclusive' /\ Kept
  <2>1. NoZombies' /\ DrainsBeganByNow'
    BY <1>2 DEF BeginDrain
  <2>2. QED
    BY <1>2, <2>1, MoveKeepsExclusive DEF BeginDrain
<1>3. ASSUME NEW w \in Workers, FindRunning(w)
      PROVE  Exclusive' /\ Kept
  <2>1. ASSUME NEW j \in Jobs, rows[j].status = "running"
        PROVE  ~IsStale(w, j)
    <3>1. PICK v \in Workers : Holds(v, j)
      BY <2>1
    <3>2. rows[j].updatedAt > -Visibility
      BY <3>1
    <3>3. QED
      BY <3>2 DEF IsStale
  <2>2. NoZombies'
    BY <1>3, <2>1 DEF FindRunning
  <2>3. QED
    BY <1>3, <2>2, MoveKeepsExclusive DEF FindRunning
<1>4. ASSUME NEW w \in Workers, NEW j \in Jobs, Reclaim(w, j)
      PROVE  Exclusive' /\ Kept
  BY <1>4 DEF Reclaim
<1>5. ASSUME NEW w \in Workers, FindPending(w)
      PROVE  Exclusive' /\ Kept
  BY <1>5, MoveKeepsExclusive DEF FindPending
<1>6. ASSUME NEW w \in Workers, NEW r \in batch[w], FailExhausted(w, r)
      PROVE  Exclusive' /\ Kept
  BY <1>6 DEF FailExhausted, Matches, Updated, history
<1>7. ASSUME NEW w \in Workers, NEW r \in batch[w], Claim(w, r)
      PROVE  Exclusive' /\ Kept
  BY <1>7 DEF Claim, ClaimIf, Matches, Updated, history
<1>8. ASSUME NEW w \in Workers, NEW r \in batch[w], LoseClaim(w, r)
      PROVE  Exclusive' /\ Kept
  BY <1>8 DEF LoseClaim, history
<1>9. ASSUME NEW w \in Workers, HandlerSucceeds(w)
      PROVE  Exclusive' /\ Kept
  BY <1>9 DEF HandlerSucceeds
<1>10. ASSUME NEW w \in Workers, HandlerFails(w)
       PROVE  Exclusive' /\ Kept
  BY <1>10 DEF HandlerFails, history
<1>11. ASSUME NEW w \in Workers, pc[w] \in {"commit", "unknown", "settle"},
              NEW status \in {"pending", "done", "failed"}, NEW runAt \in Int,
              Settle(w, status, runAt)
       PROVE  Exclusive' /\ Kept
  BY <1>11 DEF Settle, Updated, Idle, history
<1>12. ASSUME NEW w \in Workers, WriteDone(w) \/ WriteFailed(w)
       PROVE  Exclusive' /\ Kept
  BY <1>11, <1>12 DEF WriteDone, WriteFailed, Failed
<1>13. ASSUME NEW w \in Workers, Reschedule(w)
       PROVE  Exclusive' /\ Kept
  BY <1>11, <1>13, BackoffIsInt DEF Reschedule, Failed
<1>14. ASSUME NEW w \in Workers, EndDrain(w)
       PROVE  Exclusive' /\ Kept
  <2>1. NoZombies' /\ DrainsBeganByNow'
    BY <1>14 DEF EndDrain
  <2>2. QED
    BY <1>14, <2>1, MoveKeepsExclusive DEF EndDrain
<1>15. ASSUME NEW w \in Workers, WriteDoneThrows(w) \/ Abort(w)
       PROVE  Exclusive' /\ Kept
  BY <1>15 DEF WriteDoneThrows, Abort
<1>16. CASE Tick
  BY <1>16 DEF Tick, Aged, Older, history
<1>17. ASSUME NEW w \in Workers, StartHandler(w) \/ NoHandler(w)
       PROVE  Exclusive' /\ Kept
  <2>1. /\ \A v \in Workers : pc'[v] \in InHand <=> pc[v] \in InHand
        /\ UNCHANGED <<rows, ts, zombies, cur, claimedAt, faults>>
    BY <1>17 DEF StartHandler, NoHandler
  <2>2. QED
    BY <2>1
<1>18. CASE UNCHANGED vars
  BY <1>18 DEF vars
<1>19. QED
  BY <1>1, <1>2, <1>3, <1>4, <1>5, <1>6, <1>7, <1>8, <1>9, <1>10, <1>12,
     <1>13, <1>14, <1>15, <1>16, <1>17, <1>18 DEF Next, DrainStep

(***************************************************************************)
(* Concurrent workers never run a job at the same time, if no worker dies  *)
(* and the visibility timeout exceeds the longest handler.                 *)
(***************************************************************************)
THEOREM ConcurrentDrainsExclude ==
    ASSUME MaxFaults = 0, HandlerBound <= Visibility
    PROVE  Spec => []OneRunAtATime
<1>1. Init => Exclusive
  BY QueueConstants DEF Init, NoRow, Exclusive, HolderOwnsRow, RunningIsHeld, NoZombies,
     DrainsBeganByNow, OneRunAtATime, Holds, InHand
<1>2. TypeOK /\ Held /\ TypeOK' /\ Exclusive /\ [Next]_vars => Exclusive'
  BY ExclusiveStep
<1>3. Exclusive => OneRunAtATime
  BY DEF Exclusive
<1>4. QED
  BY <1>1, <1>2, <1>3, TypeInvariant, PTL DEF Spec

(***************************************************************************)
(* Under the same conditions a job that is done or failed stays so.        *)
(***************************************************************************)
THEOREM SettledJobsStaySettled ==
    ASSUME MaxFaults = 0, HandlerBound <= Visibility
    PROVE  Spec => SettledIsFinal
<1>1. Init => Exclusive
  BY QueueConstants DEF Init, NoRow, Exclusive, HolderOwnsRow, RunningIsHeld, NoZombies,
     DrainsBeganByNow, OneRunAtATime, Holds, InHand
<1>2. TypeOK /\ Held /\ TypeOK' /\ Exclusive /\ [Next]_vars => Exclusive'
  BY ExclusiveStep
<1>3. TypeOK /\ Held /\ TypeOK' /\ Exclusive /\ [Next]_vars =>
        [\A j \in Jobs : rows[j].status \in Settled => rows'[j].status = rows[j].status]_vars
  BY ExclusiveStep
<1>4. QED
  BY <1>1, <1>2, <1>3, TypeInvariant, PTL DEF Spec, SettledIsFinal
-----------------------------------------------------------------------------
(***************************************************************************)
(* As long as drains do not overlap, whatever a drain has read is still so *)
(* when it acts on it, although workers may die and others begin: the      *)
(* attempts column counts the runs, the rows of a batch wait with the      *)
(* attempts and the run_at they were read with, and zombies and the job in *)
(* hand are running.                                                       *)
(***************************************************************************)
DrainsApart == \A v, w \in Workers : pc[v] # "idle" /\ pc[w] # "idle" => v = w

OneWorker == \A v, w \in Workers : v = w

CountsExact ==
    \A j \in Jobs : rows[j].attempts = Spent(j) /\ (rows[j].status = "absent" => Spent(j) = 0)

BatchesFresh ==
    \A w \in Workers :
        /\ pc[w] \in {"idle", "opened", "reclaim"} => batch[w] = {}
        /\ \A r \in batch[w] :
            /\ rows[r.job].status = "pending"
            /\ rows[r.job].attempts = r.attempts
            /\ rows[r.job].runAt <= ts[w]

ZombiesRun ==
    \A w \in Workers :
        /\ pc[w] # "reclaim" => zombies[w] = {}
        /\ \A j \in zombies[w] : rows[j].status = "running"

HeldRuns ==
    \A w \in Workers : pc[w] \in InHand =>
        /\ \/ rows[cur[w].job].status = "running"
           \/ rows[cur[w].job].status = "done" /\ pc[w] = "settle"
        /\ rows[cur[w].job].attempts = cur[w].attempts

Fresh == CountsExact /\ BatchesFresh /\ ZombiesRun /\ HeldRuns /\ DrainsBeganByNow

(***************************************************************************)
(* The inductive step.                                                     *)
(***************************************************************************)
LEMMA FreshStep ==
    ASSUME DrainsApart, TypeOK, Held, TypeOK', Fresh, [Next]_vars
    PROVE  Fresh'
<1> USE QueueConstants DEF DrainsApart, TypeOK, Held, Fresh, CountsExact, BatchesFresh, ZombiesRun,
        HeldRuns, DrainsBeganByNow, InHand, Row
<1>7. ASSUME NEW w \in Workers, NEW r \in batch[w], Claim(w, r)
      PROVE  Fresh'
  <2>1. \A j \in Jobs : Spent(j) \in Nat /\ Spent(j)' = IF j = r.job THEN Spent(j) + 1 ELSE Spent(j)
    BY <1>7, ClaimSpends, SpentIsNat
  <2>2. CountsExact'
    BY <1>7, <2>1 DEF Claim, ClaimIf, Matches, Updated, history
  <2>3. BatchesFresh'
    BY <1>7 DEF Claim, ClaimIf, Matches, Updated, history
  <2>4. ZombiesRun' /\ HeldRuns' /\ DrainsBeganByNow'
    BY <1>7 DEF Claim, ClaimIf, Matches, Updated, history
  <2>5. QED
    BY <2>2, <2>3, <2>4
<1> SUFFICES ASSUME \A w \in Workers : \A r \in batch[w] : ~Claim(w, r)
             PROVE  Fresh'
  BY <1>7
<1>0. \A j \in Jobs : Spent(j) \in Nat /\ Spent(j)' = Spent(j)
  BY OthersSpendNothing, SpentIsNat
<1>1. ASSUME NEW j \in Jobs, NEW max \in MaxAttempts, Enqueue(j, max)
      PROVE  Fresh'
  BY <1>0, <1>1 DEF Enqueue, workerVars, history
<1>2. ASSUME NEW w \in Workers, BeginDrain(w)
      PROVE  Fresh'
  BY <1>0, <1>2 DEF BeginDrain, history
<1>3. ASSUME NEW w \in Workers, FindRunning(w)
      PROVE  Fresh'
  BY <1>0, <1>3 DEF FindRunning, history
<1>4. ASSUME NEW w \in Workers, NEW j \in Jobs, Reclaim(w, j)
      PROVE  Fresh'
  <2>1. CASE Matches(j, "running")
    <3>1. rows' = [rows EXCEPT ![j] = Updated(@, "pending", @.attempts, @.runAt)]
      BY <1>4, <2>1 DEF Reclaim
    <3>2. /\ zombies' = [zombies EXCEPT ![w] = @ \ {j}] /\ pc[w] = "reclaim"
          /\ UNCHANGED <<pc, ts, batch, cur>>
      BY <1>4 DEF Reclaim
    <3>3. /\ rows[j].status = "running" /\ rows'[j].status = "pending"
          /\ rows'[j].attempts = rows[j].attempts
          /\ \A k \in Jobs : k # j => rows'[k] = rows[k]
      BY <2>1, <3>1 DEF Matches, Updated
    <3>4. CountsExact'
      <4>1. \A k \in Jobs : /\ rows'[k].attempts = rows[k].attempts
                            /\ rows'[k].status = "absent" => rows[k].status = "absent"
        BY <3>3
      <4>2. QED
        BY <1>0, <4>1
    <3>5. BatchesFresh'
      <4> HIDE DEF TypeOK, CountsExact, ZombiesRun, HeldRuns, DrainsBeganByNow, Held, Row, InHand
      <4>1. \A v \in Workers : v # w => pc[v] = "idle"
        BY <3>2
      <4>2. \A v \in Workers : batch[v] = {}
        BY <3>2, <4>1
      <4>3. QED
        BY <3>2, <4>2
    <3>6. ZombiesRun' /\ HeldRuns' /\ DrainsBeganByNow'
      <4>1. \A v \in Workers : v # w => pc[v] = "idle"
        BY <3>2
      <4>2. QED
        BY <3>2, <3>3, <4>1
    <3>7. QED
      BY <3>4, <3>5, <3>6
  <2>2. CASE ~Matches(j, "running")
    BY <1>0, <1>4, <2>2 DEF Reclaim
  <2>3. QED
    BY <2>1, <2>2
<1>5. ASSUME NEW w \in Workers, FindPending(w)
      PROVE  Fresh'
  BY <1>0, <1>5 DEF FindPending, IsReady, history
<1>6. ASSUME NEW w \in Workers, NEW r \in batch[w], FailExhausted(w, r)
      PROVE  Fresh'
  <2> HIDE DEF DrainsApart, Fresh, CountsExact, BatchesFresh, ZombiesRun, HeldRuns, DrainsBeganByNow
  <2>1. r.job \in Jobs /\ rows[r.job].status = "pending" /\ pc[w] = "drain"
    BY <1>6 DEF FailExhausted, Fresh, BatchesFresh
  <2>2. /\ rows' = [rows EXCEPT ![r.job] = Updated(@, "failed", @.attempts, @.runAt)]
        /\ batch' = [batch EXCEPT ![w] = @ \ {r}]
        /\ UNCHANGED <<pc, ts, zombies, cur>>
    BY <1>6, <2>1 DEF FailExhausted, Matches, history
  <2>3. \A v \in Workers : v # w => pc[v] = "idle"
    BY <2>1 DEF DrainsApart
  <2>4. \A q \in batch[w] : q # r => q.job # r.job
    BY DEF Fresh, BatchesFresh
  <2>5. /\ \A j \in Jobs : j # r.job => rows'[j] = rows[j]
        /\ rows'[r.job].status = "failed" /\ rows'[r.job].attempts = rows[r.job].attempts
    BY <2>1, <2>2 DEF Updated
  <2>6. CountsExact'
    BY <1>0, <2>1, <2>2, <2>5 DEF Fresh, CountsExact
  <2>7. BatchesFresh'
    <3> SUFFICES ASSUME NEW v \in Workers
                 PROVE  /\ pc[v] \in {"idle", "opened", "reclaim"} => batch'[v] = {}
                        /\ \A q \in batch'[v] :
                            /\ rows'[q.job].status = "pending"
                            /\ rows'[q.job].attempts = q.attempts
                            /\ rows'[q.job].runAt <= ts[v]
      BY <2>2 DEF BatchesFresh
    <3>1. CASE v = w
      <4>1. batch'[v] = batch[w] \ {r} /\ \A q \in batch[w] : q.job \in Jobs
        BY <2>2, <3>1
      <4>2. QED
        BY <2>1, <2>4, <2>5, <3>1, <4>1 DEF Fresh, BatchesFresh
    <3>2. CASE v # w
      BY <2>2, <2>3, <3>2 DEF Fresh, BatchesFresh
    <3>3. QED
      BY <3>1, <3>2
  <2>8. ZombiesRun'
    BY <2>1, <2>2, <2>3 DEF Fresh, ZombiesRun
  <2>9. HeldRuns'
    BY <2>1, <2>2, <2>3 DEF HeldRuns
  <2>10. QED
    BY <2>2, <2>6, <2>7, <2>8, <2>9 DEF Fresh, DrainsBeganByNow
<1>8. ASSUME NEW w \in Workers, NEW r \in batch[w], LoseClaim(w, r)
      PROVE  Fresh'
  BY <1>0, <1>8 DEF LoseClaim, history
<1>9. ASSUME NEW w \in Workers, HandlerSucceeds(w)
      PROVE  Fresh'
  BY <1>0, <1>9 DEF HandlerSucceeds
<1>10. ASSUME NEW w \in Workers, HandlerFails(w)
       PROVE  Fresh'
  BY <1>0, <1>10 DEF HandlerFails, history
<1>11. ASSUME NEW w \in Workers, NEW status \in {"pending", "done", "failed"},
              NEW runAt \in Int, pc[w] \in {"commit", "unknown", "settle"}, Settle(w, status, runAt)
       PROVE  Fresh'
  <2> HIDE DEF DrainsApart, Fresh, CountsExact, BatchesFresh, ZombiesRun, HeldRuns, DrainsBeganByNow
  <2> DEFINE k == cur[w].job
  <2>1. k \in Jobs /\ rows[k].status \in {"running", "done"}
    BY <1>11 DEF Fresh, HeldRuns
  <2>2. /\ rows' = [rows EXCEPT ![k] = Updated(@, status, @.attempts, runAt)]
        /\ pc' = [pc EXCEPT ![w] = "drain"]
        /\ UNCHANGED <<ts, zombies, batch>>
    BY <1>11 DEF Settle, history
  <2>3. \A v \in Workers : v # w => pc[v] = "idle"
    BY <1>11 DEF DrainsApart
  <2> HIDE DEF k
  <2>4. /\ \A j \in Jobs : j # k => rows'[j] = rows[j]
        /\ rows'[k].status = status /\ rows'[k].attempts = rows[k].attempts
    BY <2>1, <2>2 DEF Updated
  <2>5. CountsExact'
    BY <1>0, <2>1, <2>2, <2>4 DEF Fresh, CountsExact
  <2>6. BatchesFresh'
    <3> SUFFICES ASSUME NEW v \in Workers
                 PROVE  /\ pc'[v] \in {"idle", "opened", "reclaim"} => batch[v] = {}
                        /\ \A q \in batch[v] :
                            /\ rows'[q.job].status = "pending"
                            /\ rows'[q.job].attempts = q.attempts
                            /\ rows'[q.job].runAt <= ts[v]
      BY <2>2 DEF BatchesFresh
    <3>1. CASE v = w
      <4>1. \A q \in batch[v] : q.job \in Jobs /\ q.job # k
        BY <2>1 DEF Fresh, BatchesFresh
      <4>2. QED
        BY <2>2, <2>4, <3>1, <4>1 DEF Fresh, BatchesFresh
    <3>2. CASE v # w
      BY <2>2, <2>3, <3>2 DEF Fresh, BatchesFresh
    <3>3. QED
      BY <3>1, <3>2
  <2>7. ZombiesRun'
    <3>1. \A v \in Workers : zombies[v] = {}
      BY <1>11, <2>3 DEF Fresh, ZombiesRun
    <3>2. QED
      BY <2>2, <3>1 DEF ZombiesRun
  <2>8. HeldRuns'
    BY <2>2, <2>3 DEF HeldRuns
  <2>9. QED
    BY <2>2, <2>5, <2>6, <2>7, <2>8 DEF Fresh, DrainsBeganByNow
<1>12. ASSUME NEW w \in Workers, WriteDone(w) \/ WriteFailed(w)
       PROVE  Fresh'
  BY <1>11, <1>12 DEF WriteDone, WriteFailed, Failed
<1>13. ASSUME NEW w \in Workers, Reschedule(w)
       PROVE  Fresh'
  BY <1>11, <1>13, BackoffIsInt DEF Reschedule, Failed
<1>14. ASSUME NEW w \in Workers, EndDrain(w)
       PROVE  Fresh'
  BY <1>0, <1>14 DEF EndDrain, history
<1>15. ASSUME NEW w \in Workers, WriteDoneThrows(w)
       PROVE  Fresh'
  <2> HIDE DEF DrainsApart, Fresh, CountsExact, BatchesFresh, ZombiesRun, HeldRuns, DrainsBeganByNow
  <2> DEFINE k == cur[w].job
  <2>1. k \in Jobs /\ rows[k].status = "running" /\ pc[w] = "commit"
    BY <1>15 DEF WriteDoneThrows, Fresh, HeldRuns
  <2>2. /\ pc' = [pc EXCEPT ![w] = "settle"]
        /\ UNCHANGED <<ts, zombies, batch, cur>>
    BY <1>15 DEF WriteDoneThrows
  <2>3. \A v \in Workers : v # w => pc[v] = "idle"
    BY <2>1 DEF DrainsApart
  <2>4. /\ \A j \in Jobs : j # k => rows'[j] = rows[j]
        /\ rows'[k].status \in {"running", "done"} /\ rows'[k].attempts = rows[k].attempts
    BY <1>15, <2>1 DEF WriteDoneThrows, Updated
  <2> HIDE DEF k
  <2>5. CountsExact'
    BY <1>0, <2>1, <2>4 DEF Fresh, CountsExact
  <2>6. BatchesFresh'
    <3>1. \A v \in Workers : \A q \in batch[v] : q.job \in Jobs /\ q.job # k
      BY <2>1 DEF Fresh, BatchesFresh
    <3>2. QED
      BY <2>1, <2>2, <2>3, <2>4, <3>1 DEF Fresh, BatchesFresh
  <2>7. ZombiesRun'
    <3>1. \A v \in Workers : zombies[v] = {}
      BY <2>1, <2>3 DEF Fresh, ZombiesRun
    <3>2. QED
      BY <2>2, <3>1 DEF ZombiesRun
  <2>8. HeldRuns'
    BY <2>1, <2>2, <2>3, <2>4 DEF Fresh, HeldRuns, k
  <2>9. QED
    BY <2>2, <2>5, <2>6, <2>7, <2>8 DEF Fresh, DrainsBeganByNow
<1>16. ASSUME NEW w \in Workers, Abort(w)
       PROVE  Fresh'
  BY <1>0, <1>16 DEF Abort, Idle, history
<1>17. CASE Tick
  BY <1>0, <1>17 DEF Tick, Aged, Older, history
<1>18. ASSUME NEW w \in Workers, StartHandler(w) \/ NoHandler(w)
       PROVE  Fresh'
  <2>1. /\ \A v \in Workers : pc'[v] \in InHand <=> pc[v] \in InHand
        /\ \A v \in Workers : v # w => pc'[v] = pc[v]
        /\ pc[w] = "claimed" /\ pc'[w] \in {"run", "unknown"}
        /\ UNCHANGED <<rows, ts, zombies, batch, cur>>
    BY <1>18 DEF StartHandler, NoHandler
  <2>2. CountsExact' /\ DrainsBeganByNow'
    BY <1>0, <2>1
  <2>3. BatchesFresh' /\ ZombiesRun'
    <3> HIDE DEF DrainsApart, TypeOK, CountsExact, HeldRuns, DrainsBeganByNow, Held, Row, InHand
    <3>1. \A v \in Workers :
            /\ pc'[v] \in {"idle", "opened", "reclaim"} => pc[v] \in {"idle", "opened", "reclaim"}
            /\ pc'[v] # "reclaim" => pc[v] # "reclaim"
      BY <2>1
    <3>2. BatchesFresh'
      BY <2>1, <3>1
    <3>3. ZombiesRun'
      BY <2>1, <3>1
    <3>4. QED
      BY <3>2, <3>3
  <2>4. HeldRuns'
    <3> HIDE DEF DrainsApart, TypeOK, CountsExact, BatchesFresh, ZombiesRun, DrainsBeganByNow, Held, Row,
             InHand
    <3>1. \A v \in Workers : pc[v] = "settle" => pc'[v] = "settle"
      BY <2>1
    <3>2. QED
      BY <2>1, <3>1
  <2>5. QED
    BY <2>2, <2>3, <2>4
<1>19. CASE UNCHANGED vars
  BY <1>0, <1>19 DEF vars
<1>20. QED
  BY <1>1, <1>2, <1>3, <1>4, <1>5, <1>6, <1>8, <1>9, <1>10, <1>12,
     <1>13, <1>14, <1>15, <1>16, <1>17, <1>18, <1>19 DEF Next, DrainStep

LEMMA FreshInvariant == Spec /\ []DrainsApart => []Fresh
<1>1. Init => Fresh
  <2> SUFFICES ASSUME Init PROVE Fresh
    OBVIOUS
  <2>1. \A j \in Jobs : rows[j] = NoRow /\ runs[j] = 0 /\ lost[j] = 0 /\ Resuming(j) = {}
    BY DEF Init, Resuming
  <2>2. \A j \in Jobs : Spent(j) = 0
    BY <2>1, FS_EmptySet DEF Spent
  <2>3. QED
    BY <2>1, <2>2 DEF Init, NoRow, Fresh, CountsExact, BatchesFresh, ZombiesRun, HeldRuns,
       DrainsBeganByNow, InHand
<1>2. DrainsApart /\ TypeOK /\ Held /\ TypeOK' /\ Fresh /\ [Next]_vars => Fresh'
  BY FreshStep
<1>3. QED
  BY <1>1, <1>2, TypeInvariant, PTL DEF Spec

(***************************************************************************)
(* As long as drains do not overlap, however often workers die, a handler  *)
(* is never started more often than max_attempts.                          *)
(***************************************************************************)
THEOREM RunsStayWithinLimit == Spec /\ []DrainsApart => []RunsWithinLimit
<1>1. TypeOK /\ Fresh /\ Safe => RunsWithinLimit
  <2> SUFFICES ASSUME TypeOK, Fresh, Safe, NEW j \in Jobs, rows[j].status # "absent"
               PROVE  runs[j] <= Limit(j)
    BY DEF RunsWithinLimit
  <2>1. Spent(j) <= Limit(j) /\ Spent(j) \in Nat /\ Limit(j) \in Nat
    BY SpentIsNat DEF Fresh, CountsExact, Safe, AttemptsWithinLimit, Limit, TypeOK, Row
  <2>2. Cardinality(Resuming(j)) \in Nat /\ runs[j] \in Nat /\ lost[j] \in Nat
    BY QueueConstants, FS_Subset, FS_CardinalityType DEF Resuming, TypeOK
  <2>3. QED
    BY <2>1, <2>2 DEF Spent
<1>2. QED
  BY <1>1, TypeInvariant, FreshInvariant, SafeInvariant, PTL

(***************************************************************************)
(* As long as drains do not overlap, a row is claimed only when its run_at *)
(* has passed.                                                             *)
(***************************************************************************)
THEOREM ClaimsAwaitBackoff == Spec /\ []DrainsApart => BackoffElapses
<1> DEFINE Elapsed == \A j \in Jobs :
        rows[j].status = "pending" /\ rows'[j].status = "running" => rows[j].runAt <= 0
<1>1. ASSUME TypeOK, Held, Fresh, [Next]_vars
      PROVE  Elapsed
  <2> USE <1>1 DEF TypeOK, Held
  <2>1. ASSUME NEW w \in Workers, NEW r \in batch[w], Claim(w, r)
        PROVE  Elapsed
    <3>1. rows[r.job].runAt <= ts[w] /\ ts[w] <= 0 /\ ts[w] \in Int /\ rows[r.job].runAt \in Int
      BY DEF Fresh, BatchesFresh, DrainsBeganByNow, Row
    <3>2. QED
      BY <2>1, <3>1 DEF Claim, ClaimIf
  <2>2. ASSUME NEW w \in Workers, NEW status \in Settled \union {"pending"}, NEW runAt,
               Settle(w, status, runAt)
        PROVE  Elapsed
    BY <2>2 DEF Settle, Updated, Settled
  <2>3. ASSUME NEW w \in Workers, WriteDone(w) \/ WriteFailed(w) \/ Reschedule(w)
        PROVE  Elapsed
    BY <2>2, <2>3 DEF WriteDone, WriteFailed, Reschedule, Settled
  <2>4. ASSUME NEW w \in Workers, NEW j \in Jobs, Reclaim(w, j)
        PROVE  Elapsed
    BY <2>4 DEF Reclaim, Updated
  <2>5. ASSUME NEW w \in Workers, NEW r \in batch[w], FailExhausted(w, r)
        PROVE  Elapsed
    BY <2>5 DEF FailExhausted, Updated
  <2>6. ASSUME NEW j \in Jobs, NEW max \in MaxAttempts, Enqueue(j, max)
        PROVE  Elapsed
    BY <2>6 DEF Enqueue
  <2>7. ASSUME Tick
        PROVE  Elapsed
    BY <2>7 DEF Tick, Aged
  <2>8. ASSUME UNCHANGED rows
        PROVE  Elapsed
    BY <2>8
  <2>9. ASSUME NEW w \in Workers, DrainStep(w)
        PROVE  Elapsed
    BY <2>1, <2>3, <2>4, <2>5, <2>8, <2>9
       DEF DrainStep, FindRunning, FindPending, LoseClaim, StartHandler, NoHandler,
           HandlerSucceeds, HandlerFails, EndDrain
  <2>10. ASSUME NEW w \in Workers, WriteDoneThrows(w)
         PROVE  Elapsed
    <3>1. cur[w].job \in Jobs
      BY <2>10 DEF WriteDoneThrows, InHand
    <3>2. \A j \in Jobs : rows'[j] = rows[j] \/ rows'[j].status = "done"
      BY <2>10, <3>1 DEF WriteDoneThrows, Updated
    <3>3. QED
      BY <3>2
  <2>11. QED
    BY <2>6, <2>7, <2>8, <2>9, <2>10 DEF Next, BeginDrain, Abort, vars
<1>2. TypeOK /\ Held /\ Fresh /\ [Next]_vars => [Elapsed]_vars
  BY <1>1
<1>3. QED
  BY <1>2, FreshInvariant, TypeInvariant, PTL DEF Spec, BackoffElapses

-----------------------------------------------------------------------------
(***************************************************************************)
(* A step that leaves the status and the limit of every row, and what is   *)
(* in hand, shows a caller nothing.                                        *)
(***************************************************************************)
LEMMA Hidden ==
    ASSUME \A j \in Jobs : /\ rows'[j].max = rows[j].max
                           /\ rows'[j].status = "absent" <=> rows[j].status = "absent"
                           /\ Phase(j)' = Phase(j),
           Unsure' = Unsure, UNCHANGED <<runs, lost>>
    PROVE  UNCHANGED Contract!vars
<1>1. Phases' = Phases
  BY DEF Phases
<1>2. \A j \in Jobs : Limit(j)' = Limit(j)
  BY DEF Limit
<1>3. Limits' = Limits
  BY <1>2 DEF Limits
<1>4. QED
  BY <1>1, <1>3 DEF Contract!vars

(***************************************************************************)
(* A step that changes what one row looks like moves that job's phase.     *)
(***************************************************************************)
LEMMA Shown ==
    ASSUME NEW j \in Jobs,
           \A k \in Jobs : k # j => rows'[k] = rows[k] /\ Phase(k)' = Phase(k),
           rows'[j].max = rows[j].max,
           rows[j].status # "absent", rows'[j].status # "absent"
    PROVE  /\ Phases[j] = Phase(j)
           /\ Phases' = [Phases EXCEPT ![j] = Phase(j)']
           /\ Limits' = Limits
<1>1. Phases' = [Phases EXCEPT ![j] = Phase(j)'] /\ Phases[j] = Phase(j)
  BY DEF Phases
<1>2. \A k \in Jobs : Limit(k)' = Limit(k) /\ (rows'[k].status = "absent" <=> rows[k].status = "absent")
  BY DEF Limit
<1>3. Limits' = Limits
  BY <1>2 DEF Limits
<1>4. QED
  BY <1>1, <1>3

(***************************************************************************)
(* What is in hand is in the hands of the one worker that is not idle.     *)
(***************************************************************************)
LEMMA Alone ==
    ASSUME NEW w \in Workers,
           \A v \in Workers : v # w => pc[v] = "idle" /\ pc'[v] = "idle"
    PROVE  /\ \A j \in Jobs :
                /\ InRun(j) <=> pc[w] \in {"run", "commit", "settle"} /\ cur[w].job = j
                /\ InRun(j)' <=> pc'[w] \in {"run", "commit", "settle"} /\ cur'[w].job = j
           /\ Unsure = {j \in Jobs :
                rows[j].status = "done" /\ pc[w] = "settle" /\ cur[w].job = j}
           /\ Unsure' = {j \in Jobs :
                rows'[j].status = "done" /\ pc'[w] = "settle" /\ cur'[w].job = j}
           /\ \A j \in Jobs : Resuming(j) = IF pc[w] = "claimed" /\ cur[w].job = j THEN {w} ELSE {}
<1>1. \A j \in Jobs :
        /\ InRun(j) <=> pc[w] \in {"run", "commit", "settle"} /\ cur[w].job = j
        /\ InRun(j)' <=> pc'[w] \in {"run", "commit", "settle"} /\ cur'[w].job = j
  BY DEF InRun
<1>2. Unsure = {j \in Jobs : rows[j].status = "done" /\ pc[w] = "settle" /\ cur[w].job = j}
  BY DEF Unsure
<1>3. Unsure' = {j \in Jobs : rows'[j].status = "done" /\ pc'[w] = "settle" /\ cur'[w].job = j}
  BY DEF Unsure
<1>4. \A j \in Jobs : Resuming(j) = IF pc[w] = "claimed" /\ cur[w].job = j THEN {w} ELSE {}
  BY DEF Resuming
<1>5. QED
  BY <1>1, <1>2, <1>3, <1>4

(***************************************************************************)
(* The attempts a row counts are those its caller is told of, except the   *)
(* one whose worker has yet to resume.                                     *)
(***************************************************************************)
LEMMA Counted ==
    ASSUME TypeOK, Fresh, Safe, NEW j \in Jobs, rows[j].status # "absent"
    PROVE  /\ Limits[j] = Limit(j) /\ Limit(j) \in Nat /\ runs[j] \in Nat /\ lost[j] \in Nat
           /\ rows[j].attempts <= Limit(j) /\ rows[j].attempts \in Nat
           /\ Resuming(j) = {} => rows[j].attempts = runs[j] + lost[j]
           /\ \A w : Resuming(j) = {w} => rows[j].attempts = runs[j] + lost[j] + 1
<1>1. /\ rows[j].attempts = Spent(j) /\ rows[j].attempts <= Limit(j)
      /\ runs[j] \in Nat /\ lost[j] \in Nat /\ Limit(j) \in Nat /\ rows[j].attempts \in Nat
  BY QueueConstants DEF Fresh, CountsExact, Safe, AttemptsWithinLimit, TypeOK, Row, Limit
<1>2. Limits[j] = Limit(j)
  BY DEF Limits
<1>3. Resuming(j) = {} => rows[j].attempts = runs[j] + lost[j]
  BY <1>1, FS_EmptySet DEF Spent
<1>4. ASSUME NEW w, Resuming(j) = {w}
      PROVE  rows[j].attempts = runs[j] + lost[j] + 1
  BY <1>1, <1>4, FS_Singleton DEF Spent
<1>5. QED
  BY <1>1, <1>2, <1>3, <1>4

(***************************************************************************)
(* The steps of a drain that no other drain overlaps, before, at and after *)
(* a handler run, are steps of the contract or show the caller nothing.    *)
(***************************************************************************)
Shows == Contract!Next \/ UNCHANGED Contract!vars

LEMMA ReadsShow ==
    ASSUME TypeOK, Held, Fresh, Safe, NEW w \in Workers,
           \A v \in Workers : v # w => pc[v] = "idle" /\ pc'[v] = "idle",
           \/ FindRunning(w) \/ FindPending(w) \/ EndDrain(w)
           \/ HandlerSucceeds(w) \/ HandlerFails(w)
           \/ \E r \in batch[w] : LoseClaim(w, r)
    PROVE  Shows
<1>1. /\ UNCHANGED <<rows, cur, runs, lost>>
      /\ pc[w] \in {"run", "commit", "settle"} <=> pc'[w] \in {"run", "commit", "settle"}
      /\ pc'[w] = "settle" => pc[w] = "run"
      /\ pc[w] # "settle"
  BY DEF FindRunning, FindPending, EndDrain, HandlerSucceeds, HandlerFails, LoseClaim, history, TypeOK
<1>2. \A j \in Jobs : Phase(j)' = Phase(j)
  BY <1>1, Alone DEF Phase
<1>3. Unsure' = {} /\ Unsure = {}
  <2>1. pc'[w] = "settle" => rows[cur[w].job].status = "running"
    BY <1>1 DEF Fresh, HeldRuns, InHand
  <2>2. QED
    BY <1>1, <2>1, Alone
<1>4. QED
  BY <1>1, <1>2, <1>3, Hidden DEF Shows

LEMMA TableStepsShow ==
    ASSUME TypeOK, Held, Fresh, Safe, NEW w \in Workers,
           \A v \in Workers : v # w => pc[v] = "idle" /\ pc'[v] = "idle",
           \/ \E j \in Jobs : Reclaim(w, j)
           \/ \E r \in batch[w] : FailExhausted(w, r) \/ Claim(w, r)
    PROVE  Shows
<1> USE DEF TypeOK
<1>1. ASSUME NEW j \in Jobs, Reclaim(w, j)
      PROVE  Shows
  <2>1. /\ rows[j].status = "running" /\ pc[w] = "reclaim" /\ UNCHANGED <<pc, cur, runs, lost>>
        /\ rows' = [rows EXCEPT ![j] = Updated(@, "pending", @.attempts, @.runAt)]
    BY <1>1 DEF Reclaim, Fresh, ZombiesRun, Matches, history
  <2>2. /\ \A k \in Jobs : k # j => rows'[k] = rows[k]
        /\ rows'[j].status = "pending" /\ rows'[j].max = rows[j].max
    BY <2>1 DEF Updated
  <2>3. \A k \in Jobs : Phase(k)' = Phase(k)
    BY <2>1, <2>2, Alone DEF Phase
  <2>4. Unsure' = {} /\ Unsure = {}
    BY <2>1, Alone
  <2>5. QED
    BY <2>1, <2>2, <2>3, <2>4, Hidden DEF Shows
<1>2. ASSUME NEW r \in batch[w], Claim(w, r)
      PROVE  Shows
  <2> DEFINE j == r.job
  <2>1. j \in Jobs /\ rows[j].status = "pending" /\ r.attempts \in Nat
    BY DEF Fresh, BatchesFresh
  <2>2. /\ rows' = [rows EXCEPT ![j] = Updated(@, "running", r.attempts + 1, @.runAt)]
        /\ pc[w] = "drain" /\ pc'[w] = "claimed" /\ UNCHANGED <<runs, lost>>
    BY <1>2 DEF Claim, ClaimIf, history
  <2> HIDE DEF j
  <2>3. /\ \A k \in Jobs : k # j => rows'[k] = rows[k]
        /\ rows'[j].status = "running" /\ rows'[j].max = rows[j].max
    BY <2>1, <2>2 DEF Updated
  <2>4. \A k \in Jobs : Phase(k)' = Phase(k)
    BY <2>1, <2>2, <2>3, Alone DEF Phase
  <2>5. Unsure' = {} /\ Unsure = {}
    BY <2>2, Alone
  <2>6. QED
    BY <2>1, <2>2, <2>3, <2>4, <2>5, Hidden DEF Shows
<1>3. ASSUME NEW r \in batch[w], FailExhausted(w, r)
      PROVE  Shows
  <2> DEFINE j == r.job
  <2>1. /\ j \in Jobs /\ rows[j].status = "pending" /\ r.attempts = rows[j].attempts
        /\ r.attempts >= Limit(j)
    BY <1>3 DEF FailExhausted, Fresh, BatchesFresh
  <2>2. /\ rows' = [rows EXCEPT ![j] = Updated(@, "failed", @.attempts, @.runAt)]
        /\ pc[w] = "drain" /\ UNCHANGED <<pc, cur, runs, lost>>
    BY <1>3, <2>1 DEF FailExhausted, Matches, history
  <2> HIDE DEF j
  <2>3. /\ \A k \in Jobs : k # j => rows'[k] = rows[k]
        /\ rows'[j].status = "failed" /\ rows'[j].max = rows[j].max
    BY <2>1, <2>2 DEF Updated
  <2>4. Phase(j)' = "failed" /\ Phase(j) = "pending" /\ \A k \in Jobs : k # j => Phase(k)' = Phase(k)
    BY <2>1, <2>2, <2>3, Alone DEF Phase
  <2>5. Unsure' = {} /\ Unsure = {} /\ Resuming(j) = {}
    BY <2>1, <2>2, Alone
  <2>6. ~(runs[j] + lost[j] < Limits[j])
    BY <2>1, <2>5, Counted
  <2>7. Phases[j] = "pending" /\ Phases' = [Phases EXCEPT ![j] = "failed"] /\ Limits' = Limits
    <3>1. rows[j].status # "absent" /\ rows'[j].status # "absent"
      BY <2>1, <2>3
    <3>2. QED
      BY <2>1, <2>3, <2>4, <3>1, Shown
  <2>8. Contract!GiveUp(j)
    BY <2>2, <2>5, <2>6, <2>7 DEF Contract!GiveUp, Contract!AttemptsLeft
  <2>9. QED
    BY <2>1, <2>8 DEF Shows, Contract!Next
<1>4. QED
  BY <1>1, <1>2, <1>3

LEMMA ResumingShows ==
    ASSUME TypeOK, Held, Fresh, Safe, NEW w \in Workers,
           \A v \in Workers : v # w => pc[v] = "idle" /\ pc'[v] = "idle",
           \/ StartHandler(w) \/ NoHandler(w)
           \/ Abort(w) /\ pc[w] = "claimed"
    PROVE  Shows
<1> USE DEF TypeOK
<1>0. pc[w] = "claimed" /\ cur[w].job \in Jobs
  BY DEF StartHandler, NoHandler, Abort, Held, InHand
<1> SUFFICES ASSUME NEW j \in Jobs, j = cur[w].job PROVE Shows
  BY <1>0
<1>1. pc[w] = "claimed" /\ rows[j].status = "running" /\ UNCHANGED rows
  BY <1>0 DEF StartHandler, NoHandler, Abort, Fresh, HeldRuns, InHand
<1>2. Unsure' = {} /\ Unsure = {} /\ Resuming(j) = {w} /\ Phase(j) = "pending"
  <2>1. pc'[w] # "settle"
    BY DEF StartHandler, NoHandler, Abort
  <2>2. QED
    BY <1>1, <2>1, Alone DEF Phase
<1>3. runs[j] + lost[j] < Limits[j]
  <2> HIDE DEF TypeOK
  <2>1. rows[j].status # "absent"
    BY <1>1
  <2>2. /\ Limits[j] = Limit(j) /\ Limit(j) \in Nat /\ runs[j] \in Nat /\ lost[j] \in Nat
        /\ rows[j].attempts <= Limit(j)
        /\ Resuming(j) = {w} => rows[j].attempts = runs[j] + lost[j] + 1
    BY <2>1, Counted
  <2>3. QED
    BY <1>2, <2>2
<1>4. \A k \in Jobs : k # j => Phase(k)' = Phase(k)
  <2>1. (pc'[w] \in {"run", "commit", "settle"} => cur'[w] = cur[w]) /\ pc[w] = "claimed"
    BY DEF StartHandler, NoHandler, Abort
  <2>2. QED
    BY <1>1, <2>1, Alone DEF Phase
<1>5. CASE StartHandler(w)
  <2>1. /\ pc'[w] = "run" /\ UNCHANGED <<cur, lost>> /\ runs' = [runs EXCEPT ![j] = @ + 1]
    BY <1>5 DEF StartHandler
  <2>2. Phase(j)' = "running"
    BY <1>1, <2>1, Alone DEF Phase
  <2>3. Phases[j] = "pending" /\ Phases' = [Phases EXCEPT ![j] = "running"] /\ Limits' = Limits
    BY <1>1, <1>2, <1>4, <2>2, Shown
  <2>4. Contract!Run(j)
    BY <1>2, <1>3, <2>1, <2>3 DEF Contract!Run, Contract!AttemptsLeft, Contract!Move
  <2>5. QED
    BY <1>1, <2>4 DEF Shows, Contract!Next
<1>6. CASE NoHandler(w) \/ Abort(w)
  <2>1. /\ pc'[w] \in {"unknown", "idle"} /\ UNCHANGED runs /\ lost' = [lost EXCEPT ![j] = @ + 1]
    BY <1>1, <1>6 DEF NoHandler, Abort
  <2>2. Phase(j)' = "pending"
    BY <1>1, <2>1, Alone DEF Phase
  <2>3. Phases[j] = "pending" /\ Phases' = Phases /\ Limits' = Limits
    <3>1. Phases' = [Phases EXCEPT ![j] = "pending"] /\ Limits' = Limits
      BY <1>1, <1>4, <2>2, Shown
    <3>2. QED
      BY <1>1, <1>2, <3>1 DEF Phases
  <2>4. Contract!Lose(j)
    BY <1>2, <1>3, <2>1, <2>3 DEF Contract!Lose, Contract!AttemptsLeft
  <2>5. QED
    BY <1>1, <2>4 DEF Shows, Contract!Next
<1>7. QED
  BY <1>5, <1>6

LEMMA DoneShows ==
    ASSUME TypeOK, Held, Fresh, Safe, NEW w \in Workers,
           \A v \in Workers : v # w => pc[v] = "idle" /\ pc'[v] = "idle",
           WriteDone(w) \/ WriteDoneThrows(w)
    PROVE  Shows
<1> USE DEF TypeOK
<1>0. pc[w] = "commit" /\ cur[w].job \in Jobs
  BY DEF WriteDone, WriteDoneThrows, Held, InHand
<1> SUFFICES ASSUME NEW j \in Jobs, j = cur[w].job PROVE Shows
  BY <1>0
<1>1. pc[w] = "commit" /\ rows[j].status = "running" /\ UNCHANGED <<runs, lost>>
  BY <1>0 DEF WriteDone, WriteDoneThrows, Settle, history, Fresh, HeldRuns, InHand
<1>2. Phase(j) = "running" /\ Unsure = {}
  BY <1>1, Alone DEF Phase
<1>3. CASE rows' = rows /\ WriteDoneThrows(w)
  <2>1. pc'[w] = "settle" /\ cur' = cur
    BY <1>3 DEF WriteDoneThrows
  <2>2. \A k \in Jobs : Phase(k)' = Phase(k)
    BY <1>1, <1>3, <2>1, Alone DEF Phase
  <2>3. Unsure' = {}
    BY <1>1, <1>3, <2>1, Alone
  <2>4. QED
    BY <1>1, <1>2, <1>3, <2>2, <2>3, Hidden DEF Shows
<1>4. CASE rows' = [rows EXCEPT ![j] = Updated(@, "done", @.attempts, @.runAt)]
  <2>1. /\ \A k \in Jobs : k # j => rows'[k] = rows[k]
        /\ rows'[j].status = "done" /\ rows'[j].max = rows[j].max
    BY <1>1, <1>4 DEF Updated
  <2>2. /\ pc'[w] \in {"drain", "settle"}
        /\ pc'[w] = "settle" => cur'[w] = cur[w]
    BY DEF WriteDone, WriteDoneThrows, Settle
  <2>3. Phase(j)' = "done" /\ \A k \in Jobs : k # j => Phase(k)' = Phase(k)
    BY <1>1, <2>1, <2>2, Alone DEF Phase
  <2>4. Unsure' \in {Unsure, Unsure \union {j}}
    <3>1. CASE pc'[w] = "drain"
      BY <1>2, <3>1, Alone
    <3>2. CASE pc'[w] = "settle"
      BY <1>1, <1>2, <2>1, <2>2, <3>2, Alone
    <3>3. QED
      BY <2>2, <3>1, <3>2
  <2>5. Phases[j] = "running" /\ Phases' = [Phases EXCEPT ![j] = "done"] /\ Limits' = Limits
    <3>1. rows[j].status # "absent" /\ rows'[j].status # "absent"
      BY <1>1, <2>1
    <3>2. QED
      BY <1>1, <1>2, <2>1, <2>3, <3>1, Shown
  <2>6. Contract!Succeed(j)
    BY <1>1, <2>4, <2>5 DEF Contract!Succeed, Contract!Move
  <2>7. QED
    BY <1>1, <2>6 DEF Shows, Contract!Next
<1>5. QED
  BY <1>3, <1>4 DEF WriteDone, WriteDoneThrows, Settle

LEMMA FailureShows ==
    ASSUME TypeOK, Held, Fresh, Safe, NEW w \in Workers,
           \A v \in Workers : v # w => pc[v] = "idle" /\ pc'[v] = "idle",
           WriteFailed(w) \/ Reschedule(w)
    PROVE  Shows
<1> USE DEF TypeOK
<1>0. pc[w] \in {"unknown", "settle"} /\ cur[w].job \in Jobs
  BY DEF WriteFailed, Reschedule, Failed, Held, InHand
<1> SUFFICES ASSUME NEW j \in Jobs, j = cur[w].job PROVE Shows
  BY <1>0
<1> DEFINE status == rows'[j].status
<1>1. /\ pc[w] \in {"unknown", "settle"} /\ rows[j].attempts = cur[w].attempts
      /\ rows[j].status = "running" \/ (rows[j].status = "done" /\ pc[w] = "settle")
  BY <1>0 DEF Fresh, HeldRuns, InHand
<1>2. /\ \A k \in Jobs : k # j => rows'[k] = rows[k]
      /\ rows'[j].max = rows[j].max
      /\ \/ status = "failed" /\ cur[w].attempts >= Limit(j)
         \/ status = "pending"
      /\ pc'[w] = "drain" /\ UNCHANGED <<runs, lost>>
  BY <1>1 DEF WriteFailed, Reschedule, Settle, Updated, history
<1> HIDE DEF status
<1>3. Phase(j)' = status /\ \A k \in Jobs : k # j => Phase(k)' = Phase(k)
  BY <1>1, <1>2, Alone DEF Phase, status
<1>4. /\ Phase(j) = IF rows[j].status = "done" THEN "done" ELSE IF pc[w] = "settle" THEN "running" ELSE "pending"
      /\ Unsure = (IF rows[j].status = "done" /\ pc[w] = "settle" THEN {j} ELSE {})
      /\ Unsure' = {} /\ Resuming(j) = {}
  BY <1>1, <1>2, Alone DEF Phase
<1>5. Phases[j] = Phase(j) /\ Phases' = [Phases EXCEPT ![j] = status] /\ Limits' = Limits
  <2>1. rows[j].status # "absent" /\ rows'[j].status # "absent"
    BY <1>1, <1>2 DEF status
  <2>2. QED
    BY <1>1, <1>2, <1>3, <2>1, Shown
<1>6. CASE status = "failed" /\ cur[w].attempts >= Limit(j)
  <2>1. ~(runs[j] + lost[j] < Limits[j])
    BY <1>1, <1>4, <1>6, Counted
  <2>2. Contract!GiveUp(j)
    BY <1>1, <1>2, <1>4, <1>5, <1>6, <2>1 DEF Contract!GiveUp, Contract!AttemptsLeft
  <2>3. QED
    BY <1>1, <2>2 DEF Shows, Contract!Next
<1>7. CASE status = "pending"
  <2>1. CASE rows[j].status = "done"
    <3>1. Contract!Reopen(j)
      BY <1>1, <1>2, <1>4, <1>5, <1>7, <2>1 DEF Contract!Reopen, Contract!Move
    <3>2. QED
      BY <1>1, <3>1 DEF Shows, Contract!Next
  <2>2. CASE rows[j].status = "running" /\ pc[w] = "settle"
    <3>1. Contract!Requeue(j)
      BY <1>1, <1>2, <1>4, <1>5, <1>7, <2>2 DEF Contract!Requeue, Contract!Move
    <3>2. QED
      BY <1>1, <3>1 DEF Shows, Contract!Next
  <2>3. CASE rows[j].status = "running" /\ pc[w] = "unknown"
    <3>1. Phase(j)' = Phase(j) /\ Unsure' = Unsure
      BY <1>3, <1>4, <1>7, <2>3
    <3>2. \A k \in Jobs : Phase(k)' = Phase(k)
      BY <1>3, <3>1
    <3>3. \A k \in Jobs : /\ rows'[k].max = rows[k].max
                          /\ rows'[k].status = "absent" <=> rows[k].status = "absent"
      BY <1>1, <1>2, <1>7 DEF status
    <3>4. QED
      BY <1>2, <3>1, <3>2, <3>3, Hidden DEF Shows
  <2>4. QED
    BY <1>1, <2>1, <2>2, <2>3
<1>8. QED
  BY <1>2, <1>6, <1>7

LEMMA AbortShows ==
    ASSUME TypeOK, Held, Fresh, Safe, NEW w \in Workers,
           \A v \in Workers : v # w => pc[v] = "idle" /\ pc'[v] = "idle",
           Abort(w), pc[w] # "claimed"
    PROVE  Shows
<1> USE DEF TypeOK
<1>1. pc'[w] = "idle" /\ UNCHANGED <<rows, runs, lost>>
  BY DEF Abort
<1>2. Unsure' = {}
  BY <1>1, Alone
<1>3. CASE pc[w] \in {"run", "commit", "settle"}
  <2>0. cur[w].job \in Jobs
    BY <1>3 DEF Held, InHand
  <2> SUFFICES ASSUME NEW j \in Jobs, j = cur[w].job PROVE Shows
    BY <2>0
  <2>1. rows[j].status = "running" \/ (rows[j].status = "done" /\ pc[w] = "settle")
    BY <1>3 DEF Fresh, HeldRuns, InHand
  <2>2. \A k \in Jobs : k # j => Phase(k)' = Phase(k)
    BY <1>1, Alone DEF Phase
  <2>3. CASE rows[j].status = "running"
    <3>1. Phase(j) = "running" /\ Phase(j)' = "pending" /\ Unsure = {}
      BY <1>1, <1>3, <2>1, <2>3, Alone DEF Phase
    <3>2. Phases[j] = "running" /\ Phases' = [Phases EXCEPT ![j] = "pending"] /\ Limits' = Limits
      BY <1>1, <2>1, <2>2, <2>3, <3>1, Shown
    <3>3. Contract!Requeue(j)
      BY <1>1, <1>2, <3>1, <3>2 DEF Contract!Requeue, Contract!Move
    <3>4. QED
      BY <2>1, <3>3 DEF Shows, Contract!Next
  <2>4. CASE rows[j].status = "done" /\ pc[w] = "settle"
    <3>1. Phase(j) = "done" /\ Phase(j)' = "done" /\ Unsure = {j}
      BY <1>1, <2>1, <2>4, Alone DEF Phase
    <3>2. Phases' = Phases /\ Limits' = Limits
      <4>1. Phases' = [Phases EXCEPT ![j] = "done"] /\ Limits' = Limits
        BY <1>1, <2>1, <2>2, <2>4, <3>1, Shown
      <4>2. QED
        BY <2>1, <3>1, <4>1 DEF Phases
    <3>3. Contract!Confirm(j)
      BY <1>1, <1>2, <3>1, <3>2 DEF Contract!Confirm
    <3>4. QED
      BY <2>1, <3>3 DEF Shows, Contract!Next
  <2>5. QED
    BY <2>1, <2>3, <2>4
<1>4. CASE pc[w] \notin {"run", "commit", "settle"}
  <2>1. \A k \in Jobs : Phase(k)' = Phase(k)
    BY <1>1, <1>4, Alone DEF Phase
  <2>2. Unsure = {}
    BY <1>4, Alone
  <2>3. QED
    BY <1>1, <1>2, <2>1, <2>2, Hidden DEF Shows
<1>5. QED
  BY <1>3, <1>4

(***************************************************************************)
(* The initial states and the steps of drains that do not overlap are      *)
(* those of the contract.                                                  *)
(***************************************************************************)
LEMMA ContractStep ==
    ASSUME DrainsApart, TypeOK, Held, Fresh, Safe, [Next]_vars
    PROVE  [Contract!Next]_Contract!vars
<1> USE DEF TypeOK
<1>1. ASSUME NEW j \in Jobs, NEW max \in MaxAttempts, Enqueue(j, max)
      PROVE  Shows
  <2>1. /\ rows[j].status = "absent" /\ UNCHANGED <<pc, cur, runs, lost>>
        /\ \A k \in Jobs : rows'[k] =
            IF k = j THEN [status |-> "pending", attempts |-> 0, max |-> max,
                           runAt |-> 0, updatedAt |-> 0]
            ELSE rows[k]
    BY <1>1 DEF Enqueue, workerVars, history
  <2>2. \A k \in Jobs : InRun(k)' = InRun(k)
    BY <2>1 DEF InRun
  <2>3. \A k \in Jobs : Phase(k)' = IF k = j THEN "pending" ELSE Phase(k)
    BY <2>1, <2>2 DEF Phase
  <2>4. Phases[j] = "absent" /\ Phases' = [Phases EXCEPT ![j] = "pending"]
    BY <2>1, <2>3 DEF Phases, Phase
  <2>5. Limits' = [Limits EXCEPT ![j] = IF max = 0 THEN 1 ELSE max]
    <3>1. \A k \in Jobs : Limits'[k] = IF k = j THEN IF max = 0 THEN 1 ELSE max ELSE Limits[k]
      BY <2>1 DEF Limits, Limit
    <3>2. QED
      BY <3>1 DEF Limits
  <2>6. Unsure' = Unsure
    BY <2>1 DEF Unsure
  <2>7. Contract!Accept(j, max)
    BY <2>1, <2>4, <2>5, <2>6 DEF Contract!Accept, Contract!Move
  <2>8. QED
    BY <2>7 DEF Shows, Contract!Next
<1>2. ASSUME NEW w \in Workers, BeginDrain(w)
      PROVE  Shows
  <2>1. /\ UNCHANGED <<rows, cur, runs, lost>>
        /\ \A v \in Workers : v # w => pc'[v] = pc[v]
        /\ pc[w] = "idle" /\ pc'[w] = "opened"
    BY <1>2 DEF BeginDrain, history
  <2>2. \A k \in Jobs : InRun(k)' = InRun(k)
    BY <2>1 DEF InRun
  <2>3. Unsure' = Unsure
    BY <2>1 DEF Unsure
  <2>4. \A k \in Jobs : Phase(k)' = Phase(k)
    BY <2>1, <2>2 DEF Phase
  <2>5. QED
    BY <2>1, <2>3, <2>4, Hidden DEF Shows
<1>3. CASE Tick
  <2>1. /\ \A j \in Jobs : rows'[j].status = rows[j].status /\ rows'[j].max = rows[j].max
        /\ UNCHANGED <<pc, cur, runs, lost>>
    BY <1>3 DEF Tick, Aged, history
  <2>2. Unsure' = Unsure /\ \A k \in Jobs : InRun(k)' = InRun(k)
    BY <2>1 DEF Unsure, InRun
  <2>3. \A k \in Jobs : Phase(k)' = Phase(k)
    BY <2>1, <2>2 DEF Phase
  <2>4. QED
    BY <2>1, <2>2, <2>3, Hidden DEF Shows
<1>4. ASSUME NEW w \in Workers, pc[w] # "idle",
             DrainStep(w) \/ WriteDoneThrows(w) \/ Abort(w)
      PROVE  Shows
  <2>1. \A v \in Workers : v # w => pc[v] = "idle" /\ pc'[v] = "idle"
    <3>1. \A v \in Workers : v # w => pc'[v] = pc[v]
      BY <1>4 DEF DrainStep, FindRunning, Reclaim, FindPending, FailExhausted, Claim, ClaimIf,
         LoseClaim, StartHandler, NoHandler, HandlerSucceeds, HandlerFails, WriteDone, WriteFailed,
         Reschedule, Settle, EndDrain, WriteDoneThrows, Abort
    <3>2. QED
      BY <1>4, <3>1 DEF DrainsApart
  <2>2. QED
    BY <1>4, <2>1, ReadsShow, TableStepsShow, ResumingShows, DoneShows, FailureShows, AbortShows
       DEF DrainStep
<1>5. CASE UNCHANGED vars
  <2>1. UNCHANGED <<rows, pc, cur, runs, lost>>
    BY <1>5 DEF vars
  <2>2. Unsure' = Unsure /\ \A k \in Jobs : InRun(k)' = InRun(k)
    BY <2>1 DEF Unsure, InRun
  <2>3. \A k \in Jobs : Phase(k)' = Phase(k)
    BY <2>1, <2>2 DEF Phase
  <2>4. QED
    BY <2>1, <2>2, <2>3, Hidden DEF Shows
<1>6. ASSUME NEW w \in Workers, DrainStep(w) \/ WriteDoneThrows(w) \/ Abort(w)
      PROVE  pc[w] # "idle"
  BY <1>6 DEF DrainStep, FindRunning, Reclaim, FindPending, FailExhausted, Claim, ClaimIf,
     LoseClaim, StartHandler, NoHandler, HandlerSucceeds, HandlerFails, WriteDone, WriteFailed,
     Reschedule, Failed, EndDrain, WriteDoneThrows, Abort
<1>7. QED
  BY <1>1, <1>2, <1>3, <1>4, <1>5, <1>6 DEF Next, Shows

(***************************************************************************)
(* Workers whose drains do not overlap implement the contract of dispatch, *)
(* however many there are, however often they die and begin again, and     *)
(* whether or not a write that throws was committed.                       *)
(***************************************************************************)
THEOREM DrainsApartKeepContract == Spec /\ []DrainsApart => ImplementsContract
<1>1. Init => Contract!Init
  <2> SUFFICES ASSUME Init PROVE Contract!Init
    OBVIOUS
  <2>1. \A j \in Jobs : rows[j].status = "absent"
    BY DEF Init, NoRow
  <2>2. Unsure = {} /\ Phases = [j \in Jobs |-> "absent"] /\ Limits = [j \in Jobs |-> 0]
    BY <2>1 DEF Unsure, Phases, Phase, Limits
  <2>3. QED
    BY <2>2 DEF Init, Contract!Init
<1>2. DrainsApart /\ TypeOK /\ Held /\ Fresh /\ Safe /\ [Next]_vars => [Contract!Next]_Contract!vars
  BY ContractStep
<1>3. QED
  BY <1>1, <1>2, TypeInvariant, FreshInvariant, SafeInvariant, PTL
     DEF Spec, ImplementsContract, Contract!Spec

(***************************************************************************)
(* In particular one worker does, as the run queue_single has it.          *)
(***************************************************************************)
THEOREM OneWorkerKeepsContract == ASSUME OneWorker PROVE Spec => ImplementsContract
<1>1. DrainsApart
  BY DEF OneWorker, DrainsApart
<1>2. QED
  BY <1>1, DrainsApartKeepContract, PTL
=============================================================================
