------------------------------ MODULE JobQueue ------------------------------
(***************************************************************************)
(* The database driver of vike-queue (packages/vike-queue/database.js).    *)
(*                                                                         *)
(* A job is a row of the `jobs` table.  enqueue() inserts it; any number   *)
(* of workers call work(), one drain after another.  A drain is a sequence *)
(* of adapter calls with an await between them, so the atomic steps below  *)
(* are the adapter calls: whatever another drain does can come in between. *)
(* A drain acts on what it read: the zombies it saw, and the pending rows  *)
(* it saw with the attempt count they had then.                            *)
(*                                                                         *)
(* Time is relative to the present: a stored timestamp is its distance     *)
(* from now (0 is now, -3 is three ticks ago), so that a tick makes every  *)
(* timestamp one older and time never runs out.  A timestamp older than    *)
(* anything the code compares it with is kept at a floor.                  *)
(***************************************************************************)
EXTENDS Integers, FiniteSets

CONSTANTS
    Workers,        \* callers of work(): processes, cron invocations, overlapping drains
    Jobs,           \* the rows that may be enqueued
    MaxAttempts,    \* the max_attempts values a dispatch may ask for
    BatchMax,       \* the `max` option of work()
    Visibility,     \* visibilityTimeoutMs, in ticks
    BackoffBase,    \* the 100 of backoffMs, in ticks
    BackoffCap,     \* the 30_000 of backoffMs, in ticks
    HandlerBound,   \* bound: a handler, with the write of its result, takes fewer ticks
    DrainBound,     \* bound: a work() call stays open at most this many ticks
    MaxFaults,      \* bound on aborted drains and failed writes of a result
    NoJob           \* a worker that holds no job

ASSUME QueueConstants ==
    /\ IsFiniteSet(Workers)
    /\ MaxAttempts \subseteq Nat
    /\ BatchMax \in Nat \ {0}
    /\ Visibility \in Nat \ {0}
    /\ BackoffBase \in Nat \ {0}
    /\ BackoffCap \in Nat \ {0}
    /\ HandlerBound \in Nat \ {0}
    /\ DrainBound \in Nat \ {0}
    /\ MaxFaults \in Nat
    /\ NoJob \notin Jobs

VARIABLES
    rows,       \* the jobs table
    pc,         \* where each worker's drain is
    ts,         \* nowMs of the drain: the present it took when it began
    zombies,    \* `running` rows still to reclaim, as read by the drain
    batch,      \* `ready` rows still to run: id and attempts as read by the drain
    cur,        \* the job whose handler the worker runs, and the attempt it is
    claimedAt,  \* when the worker claimed that job
    faults,     \* faults so far
    runs,       \* history: how many times a handler was started for the job
    lost,       \* history: its attempts that ended before a handler was started
    succeeded   \* history: the jobs one of whose handler runs succeeded

workerVars == <<pc, ts, zombies, batch, cur, claimedAt>>
history == <<runs, lost, succeeded>>
vars == <<rows, pc, ts, zombies, batch, cur, claimedAt, faults, runs, lost, succeeded>>

Statuses == {"absent", "pending", "running", "done", "failed"}
Settled == {"done", "failed"}
Points == {"idle", "opened", "reclaim", "drain",
           "claimed", "run", "commit", "unknown", "settle"}
InHand == {"claimed", "run", "commit", "unknown", "settle"}

Idle == [job |-> NoJob, attempts |-> 0]
NoRow == [status |-> "absent", attempts |-> 0, max |-> 0, runAt |-> 0, updatedAt |-> 0]

\* `job.max_attempts || 1`: dispatch() floors 0.5 to 0, which then counts as 1.
\* The column is never written again, so a drain's copy of it is never stale.
Limit(j) == IF rows[j].max = 0 THEN 1 ELSE rows[j].max

\* A worker between its claim of a job and the write of that job's result.
Holds(w, j) == pc[w] \in InHand /\ cur[w].job = j

\* Attempts of j so far: runs, losses, and claims whose worker has yet to resume.
Resuming(j) == {w \in Workers : pc[w] = "claimed" /\ cur[w].job = j}
Spent(j) == runs[j] + lost[j] + Cardinality(Resuming(j))

-----------------------------------------------------------------------------

BackoffMs(n) ==
    LET delay == BackoffBase * 2^(n - 1)
    IN  IF delay < BackoffCap THEN delay ELSE BackoffCap

Older(t, floor) == IF t > floor THEN t - 1 ELSE t

\* Slip: the cutoff forgets the visibility timeout.
IsStale_NoTimeout(w, j) == rows[j].updatedAt <= ts[w]

IsStale(w, j) == rows[j].updatedAt <= ts[w] - Visibility

\* Slip: the drain forgets the run_at filter.
IsReady_AnyTime(w, j) == rows[j].status = "pending"

IsReady(w, j) == rows[j].status = "pending" /\ rows[j].runAt <= ts[w]

\* The row after one of the driver's updates: each sets the status and stamps
\* updated_at with now; the claim also sets attempts, a reschedule run_at.
Updated(row, status, attempts, runAt) ==
    [status |-> status, attempts |-> attempts, max |-> row.max,
     runAt |-> runAt, updatedAt |-> 0]

\* The same row one tick later.
Aged(row) ==
    [status |-> row.status, attempts |-> row.attempts, max |-> row.max,
     runAt |-> Older(row.runAt, -DrainBound),
     updatedAt |-> Older(row.updatedAt, -(DrainBound + Visibility))]

\* The compare-and-swap: update WHERE id = j AND status = expected.
Matches(j, expected) == rows[j].status = expected

-----------------------------------------------------------------------------

Init ==
    /\ rows = [j \in Jobs |-> NoRow]
    /\ pc = [w \in Workers |-> "idle"]
    /\ ts = [w \in Workers |-> 0]
    /\ zombies = [w \in Workers |-> {}]
    /\ batch = [w \in Workers |-> {}]
    /\ cur = [w \in Workers |-> Idle]
    /\ claimedAt = [w \in Workers |-> 0]
    /\ faults = 0
    /\ runs = [j \in Jobs |-> 0]
    /\ lost = [j \in Jobs |-> 0]
    /\ succeeded = {}

\* enqueue(): insert the row, eligible at once.
Enqueue(j, max) ==
    /\ rows[j].status = "absent"
    /\ rows' = [rows EXCEPT ![j] = [status |-> "pending", attempts |-> 0, max |-> max,
                                    runAt |-> 0, updatedAt |-> 0]]
    /\ UNCHANGED <<workerVars, faults, history>>

\* work() is called: the drain takes its one reading of the clock.
BeginDrain(w) ==
    /\ pc[w] = "idle"
    /\ pc' = [pc EXCEPT ![w] = "opened"]
    /\ ts' = [ts EXCEPT ![w] = 0]
    /\ UNCHANGED <<rows, zombies, batch, cur, claimedAt, faults, history>>

\* find(status running), and the test of each row against staleBefore.
FindRunning(w) ==
    /\ pc[w] = "opened"
    /\ zombies' = [zombies EXCEPT
            ![w] = {j \in Jobs : rows[j].status = "running" /\ IsStale(w, j)}]
    /\ pc' = [pc EXCEPT ![w] = "reclaim"]
    /\ UNCHANGED <<rows, ts, batch, cur, claimedAt, faults, history>>

\* Slip: the reclaim updates WHERE status = 'pending'.
Reclaim_WrongStatus(w, j) ==
    /\ pc[w] = "reclaim"
    /\ j \in zombies[w]
    /\ zombies' = [zombies EXCEPT ![w] = @ \ {j}]
    /\ rows' = IF Matches(j, "pending")
               THEN [rows EXCEPT ![j] = Updated(@, "pending", @.attempts, @.runAt)]
               ELSE rows
    /\ UNCHANGED <<pc, ts, batch, cur, claimedAt, faults, history>>

\* One turn of the reclaim loop: running -> pending, if the row is still running.
Reclaim(w, j) ==
    /\ pc[w] = "reclaim"
    /\ j \in zombies[w]
    /\ zombies' = [zombies EXCEPT ![w] = @ \ {j}]
    /\ rows' = IF Matches(j, "running")
               THEN [rows EXCEPT ![j] = Updated(@, "pending", @.attempts, @.runAt)]
               ELSE rows
    /\ UNCHANGED <<pc, ts, batch, cur, claimedAt, faults, history>>

\* find(status pending), the run_at filter and slice(0, max), in any row order.
FindPending(w) ==
    /\ pc[w] = "reclaim"
    /\ zombies[w] = {}
    /\ \E chosen \in SUBSET {j \in Jobs : IsReady(w, j)} :
        /\ \/ chosen = {j \in Jobs : IsReady(w, j)}
           \/ Cardinality(chosen) = BatchMax
        /\ Cardinality(chosen) <= BatchMax
        /\ batch' = [batch EXCEPT
                ![w] = {[job |-> j, attempts |-> rows[j].attempts] : j \in chosen}]
    /\ pc' = [pc EXCEPT ![w] = "drain"]
    /\ UNCHANGED <<rows, ts, zombies, cur, claimedAt, faults, history>>

\* The row had used its attempts when it was read: pending -> failed, no run.
FailExhausted(w, r) ==
    /\ pc[w] = "drain"
    /\ r \in batch[w]
    /\ r.attempts >= Limit(r.job)
    /\ batch' = [batch EXCEPT ![w] = @ \ {r}]
    /\ rows' = IF Matches(r.job, "pending")
               THEN [rows EXCEPT ![r.job] = Updated(@, "failed", @.attempts, @.runAt)]
               ELSE rows
    /\ UNCHANGED <<pc, ts, zombies, cur, claimedAt, faults, history>>

\* The claim of row r by w, for a given guard on the row and its attempts.
ClaimIf(w, r, guard) ==
    /\ pc[w] = "drain"
    /\ r \in batch[w]
    /\ guard
    /\ batch' = [batch EXCEPT ![w] = @ \ {r}]
    /\ rows' = [rows EXCEPT ![r.job] = Updated(@, "running", r.attempts + 1, @.runAt)]
    /\ cur' = [cur EXCEPT ![w] = [job |-> r.job, attempts |-> r.attempts + 1]]
    /\ claimedAt' = [claimedAt EXCEPT ![w] = 0]
    /\ pc' = [pc EXCEPT ![w] = "claimed"]
    /\ UNCHANGED <<ts, zombies, faults, history>>

\* Slip: the update names the id only.
Claim_NoCas(w, r) == ClaimIf(w, r, r.attempts < Limit(r.job))

\* Slip: no check that a reclaimed job has attempts left.
Claim_NoLimit(w, r) == ClaimIf(w, r, Matches(r.job, "pending"))

\* The claim: pending -> running, with the attempt count the drain computed.
Claim(w, r) == ClaimIf(w, r, r.attempts < Limit(r.job) /\ Matches(r.job, "pending"))

\* The claim matched no row: another drain has it; continue.
LoseClaim(w, r) ==
    /\ pc[w] = "drain"
    /\ r \in batch[w]
    /\ r.attempts < Limit(r.job)
    /\ ~Matches(r.job, "pending")
    /\ batch' = [batch EXCEPT ![w] = @ \ {r}]
    /\ UNCHANGED <<rows, pc, ts, zombies, cur, claimedAt, faults, history>>

\* The awaited claim returns its row: runJob finds the handler and calls it.
StartHandler(w) ==
    /\ pc[w] = "claimed"
    /\ runs' = [runs EXCEPT ![cur[w].job] = @ + 1]
    /\ pc' = [pc EXCEPT ![w] = "run"]
    /\ UNCHANGED <<rows, ts, zombies, batch, cur, claimedAt, faults, lost, succeeded>>

\* Or this process has no handler registered under the name, and runJob throws.
NoHandler(w) ==
    /\ pc[w] = "claimed"
    /\ lost' = [lost EXCEPT ![cur[w].job] = @ + 1]
    /\ pc' = [pc EXCEPT ![w] = "unknown"]
    /\ UNCHANGED <<rows, ts, zombies, batch, cur, claimedAt, faults, runs, succeeded>>

HandlerSucceeds(w) ==
    /\ pc[w] = "run"
    /\ succeeded' = succeeded \union {cur[w].job}
    /\ pc' = [pc EXCEPT ![w] = "commit"]
    /\ UNCHANGED <<rows, ts, zombies, batch, cur, claimedAt, faults, runs, lost>>

\* Slip: a throw is swallowed and the job counts as run.
HandlerFails_Swallowed(w) ==
    /\ pc[w] = "run"
    /\ pc' = [pc EXCEPT ![w] = "commit"]
    /\ UNCHANGED <<rows, ts, zombies, batch, cur, claimedAt, faults, history>>

\* The handler threw.
HandlerFails(w) ==
    /\ pc[w] = "run"
    /\ pc' = [pc EXCEPT ![w] = "settle"]
    /\ UNCHANGED <<rows, ts, zombies, batch, cur, claimedAt, faults, history>>

\* update WHERE id = j, whatever the row's status has become.
Settle(w, status, runAt) ==
    /\ rows' = [rows EXCEPT ![cur[w].job] = Updated(@, status, @.attempts, runAt)]
    /\ pc' = [pc EXCEPT ![w] = "drain"]
    /\ cur' = [cur EXCEPT ![w] = Idle]
    /\ claimedAt' = [claimedAt EXCEPT ![w] = 0]
    /\ UNCHANGED <<ts, zombies, batch, faults, history>>

WriteDone(w) ==
    /\ pc[w] = "commit"
    /\ Settle(w, "done", rows[cur[w].job].runAt)

\* The write of `done` is inside the try: if it throws, without effect or after it
\* was committed, the catch treats the job as failed although its handler succeeded.
WriteDoneThrows(w) ==
    /\ pc[w] = "commit"
    /\ faults < MaxFaults
    /\ faults' = faults + 1
    /\ rows' \in {rows, [rows EXCEPT ![cur[w].job] = Updated(@, "done", @.attempts, @.runAt)]}
    /\ pc' = [pc EXCEPT ![w] = "settle"]
    /\ UNCHANGED <<ts, zombies, batch, cur, claimedAt, history>>

Failed(w) == pc[w] \in {"unknown", "settle"}

\* Slip: off by one, the job fails with a run left.
WriteFailed_Early(w) ==
    /\ Failed(w)
    /\ cur[w].attempts + 1 >= Limit(cur[w].job)
    /\ Settle(w, "failed", rows[cur[w].job].runAt)

\* Slip: a status the table does not know.
WriteFailed_Typo(w) ==
    /\ Failed(w)
    /\ cur[w].attempts >= Limit(cur[w].job)
    /\ Settle(w, "error", rows[cur[w].job].runAt)

WriteFailed(w) ==
    /\ Failed(w)
    /\ cur[w].attempts >= Limit(cur[w].job)
    /\ Settle(w, "failed", rows[cur[w].job].runAt)

Reschedule(w) ==
    /\ Failed(w)
    /\ cur[w].attempts < Limit(cur[w].job)
    /\ Settle(w, "pending", BackoffMs(cur[w].attempts))

EndDrain(w) ==
    /\ pc[w] = "drain"
    /\ batch[w] = {}
    /\ pc' = [pc EXCEPT ![w] = "idle"]
    /\ ts' = [ts EXCEPT ![w] = 0]
    /\ UNCHANGED <<rows, zombies, batch, cur, claimedAt, faults, history>>

\* The process dies, or an adapter call outside the try throws, before or after it
\* took effect, and work() rejects: the drain is gone, the rows stay as they are.
Abort(w) ==
    /\ pc[w] # "idle"
    /\ faults < MaxFaults
    /\ faults' = faults + 1
    /\ pc' = [pc EXCEPT ![w] = "idle"]
    /\ ts' = [ts EXCEPT ![w] = 0]
    /\ zombies' = [zombies EXCEPT ![w] = {}]
    /\ batch' = [batch EXCEPT ![w] = {}]
    /\ cur' = [cur EXCEPT ![w] = Idle]
    /\ claimedAt' = [claimedAt EXCEPT ![w] = 0]
    /\ lost' = IF pc[w] = "claimed" THEN [lost EXCEPT ![cur[w].job] = @ + 1] ELSE lost
    /\ UNCHANGED <<rows, runs, succeeded>>

\* Time passes, for as long as the bounds on handlers and drains allow.
Tick ==
    /\ \A w \in Workers :
        /\ pc[w] # "idle" => ts[w] > -DrainBound
        /\ pc[w] \in InHand => claimedAt[w] - 1 > -HandlerBound
    /\ rows' = [j \in Jobs |-> Aged(rows[j])]
    /\ ts' = [w \in Workers |-> IF pc[w] = "idle" THEN 0 ELSE ts[w] - 1]
    /\ claimedAt' = [w \in Workers |->
            IF pc[w] \in InHand THEN claimedAt[w] - 1 ELSE 0]
    /\ UNCHANGED <<pc, zombies, batch, cur, faults, history>>

-----------------------------------------------------------------------------

\* What a drain does by itself once it is open.
DrainStep(w) ==
    \/ FindRunning(w)
    \/ \E j \in Jobs : Reclaim(w, j)
    \/ FindPending(w)
    \/ \E r \in batch[w] : FailExhausted(w, r) \/ Claim(w, r) \/ LoseClaim(w, r)
    \/ StartHandler(w)
    \/ NoHandler(w)
    \/ HandlerSucceeds(w)
    \/ HandlerFails(w)
    \/ WriteDone(w)
    \/ WriteFailed(w)
    \/ Reschedule(w)
    \/ EndDrain(w)

Next ==
    \/ \E j \in Jobs, max \in MaxAttempts : Enqueue(j, max)
    \/ \E w \in Workers : BeginDrain(w)
    \/ \E w \in Workers : DrainStep(w)
    \/ \E w \in Workers : WriteDoneThrows(w)
    \/ \E w \in Workers : Abort(w)
    \/ Tick

Spec == Init /\ [][Next]_vars

\* Something keeps calling work(), an open drain that is not aborted goes on
\* (the event loop resumes every settled await), and time passes.
Fairness ==
    /\ \A w \in Workers : WF_vars(BeginDrain(w)) /\ WF_vars(DrainStep(w))
    /\ WF_vars(Tick)

FairSpec == Spec /\ Fairness

-----------------------------------------------------------------------------

Row == [status : Statuses, attempts : Nat, max : Nat, runAt : Int, updatedAt : Int]

TypeOK ==
    /\ rows \in [Jobs -> Row]
    /\ pc \in [Workers -> Points]
    /\ ts \in [Workers -> Int]
    /\ zombies \in [Workers -> SUBSET Jobs]
    /\ batch \in [Workers -> SUBSET [job : Jobs, attempts : Nat]]
    /\ cur \in [Workers -> [job : Jobs \union {NoJob}, attempts : Nat]]
    /\ claimedAt \in [Workers -> Int]
    /\ faults \in Nat
    /\ runs \in [Jobs -> Nat]
    /\ lost \in [Jobs -> Nat]
    /\ succeeded \in SUBSET Jobs

\* A job is marked failed only after max_attempts attempts, each of them a handler run
\* or a claim whose worker died before it called the handler or knows none (or has yet
\* to resume): no interleaving of claims, stale attempt counts, reclaims, aborted drains
\* and writes that throw after they were committed takes an attempt twice.
NoEarlyGiveUp ==
    \A j \in Jobs : rows[j].status = "failed" => Spent(j) >= Limit(j)

\* The attempts column never counts beyond max_attempts, whichever drain's
\* stale copy of it was written last.
AttemptsWithinLimit ==
    \A j \in Jobs : rows[j].status # "absent" => rows[j].attempts <= Limit(j)

\* A job is marked done only if one of its handler runs returned normally, also
\* when another worker runs the job again at the same time.
DoneMeansSucceeded ==
    \A j \in Jobs : rows[j].status = "done" => j \in succeeded

\* "only the worker whose update matched a row runs the handler, so two
\* concurrent workers / overlapping drains never run the same job twice": no two
\* workers are between the claim of one job and the write of its result.
OneRunAtATime ==
    \A j \in Jobs : \A v, w \in Workers : Holds(v, j) /\ Holds(w, j) => v = w

\* What a job came to is final: nothing moves a row out of done or failed.
SettledIsFinal ==
    [][\A j \in Jobs : rows[j].status \in Settled => rows'[j].status = rows[j].status]_vars

\* "a job can't exceed its max via crashes", "it can't exceed max_attempts": the
\* handler is started at most max_attempts times.
RunsWithinLimit ==
    \A j \in Jobs : rows[j].status # "absent" => runs[j] <= Limit(j)

\* "a later drain re-claims it once the backoff elapses": a row is claimed only
\* when its run_at has passed.
BackoffElapses ==
    [][\A j \in Jobs :
        rows[j].status = "pending" /\ rows'[j].status = "running" => rows[j].runAt <= 0]_vars

\* Every accepted job is eventually done or failed.
EveryJobSettles ==
    \A j \in Jobs : rows[j].status # "absent" ~> rows[j].status \in Settled

\* A handler of j is in hand, from its call to the end of the driver's writes about it.
InRun(j) ==
    \E w \in Workers : pc[w] \in {"run", "commit", "settle"} /\ cur[w].job = j

\* A running row no handler is at work on waits: it was only claimed, or its worker is
\* gone.
Phase(j) == IF rows[j].status = "running" /\ ~InRun(j) THEN "pending" ELSE rows[j].status

Phases == [j \in Jobs |-> Phase(j)]
Limits == [j \in Jobs |-> IF rows[j].status = "absent" THEN 0 ELSE Limit(j)]

\* A done row may be overwritten while the worker that wrote it is in its catch.
Unsure == {j \in Jobs :
    rows[j].status = "done" /\ \E w \in Workers : pc[w] = "settle" /\ cur[w].job = j}

Contract == INSTANCE JobContract WITH
    phase <- Phases, limit <- Limits, unsure <- Unsure, MayRefuse <- FALSE

\* The driver implements the contract of dispatch(), also where workers die between any
\* two of its calls, know no handler, or are told that a write failed that did not.
ImplementsContract == Contract!Spec
=============================================================================
