----------------------------- MODULE InlineQueue -----------------------------
(***************************************************************************)
(* The inline driver of vike-queue (index.js: dispatch, runJob; inline.js):*)
(* dispatch runs the job in its own process, again after a pause when it   *)
(* fails, and settles when the job is over.  There is no table, so the     *)
(* jobs of a process that dies are gone.                                   *)
(***************************************************************************)
EXTENDS Naturals

CONSTANTS
    Jobs,       \* calls of dispatch
    Halves,     \* opts.maxAttempts, in halves; 0 if it is not given
    MaxDeaths   \* bound on processes that die

InlineConstants == Halves \subseteq Nat /\ MaxDeaths \in Nat

VARIABLES
    at,         \* where runJob is for each call
    registered, \* whether the job's handler is registered
    max,        \* maxAttempts, as dispatch passes it on
    i,          \* attempts that are over
    answer,     \* what became of dispatch's promise
    deaths,
    runs        \* history: how often the handler was called

vars == <<at, registered, max, i, answer, deaths, runs>>

Init ==
    /\ at = [j \in Jobs |-> "absent"]
    /\ registered \in [Jobs -> BOOLEAN]
    /\ max = [j \in Jobs |-> 0]
    /\ i = [j \in Jobs |-> 0]
    /\ answer = [j \in Jobs |-> "none"]
    /\ deaths = 0
    /\ runs = [j \in Jobs |-> 0]

-----------------------------------------------------------------------------

\* dispatch: what is not a positive number asks for one attempt.
Normalized(halves) == IF halves > 0 THEN halves \div 2 ELSE 1

\* A module is loaded and registers its job.
RegisterJob(j) ==
    /\ ~registered[j]
    /\ registered' = [registered EXCEPT ![j] = TRUE]
    /\ UNCHANGED <<at, max, i, answer, deaths, runs>>

\* Without a handler the promise is rejected at once.
DispatchRejects(j) ==
    /\ at[j] = "absent"
    /\ ~registered[j]
    /\ at' = [at EXCEPT ![j] = "over"]
    /\ answer' = [answer EXCEPT ![j] = "rejected"]
    /\ UNCHANGED <<registered, max, i, deaths, runs>>

Dispatch(j, halves) ==
    /\ at[j] = "absent"
    /\ registered[j]
    /\ max' = [max EXCEPT ![j] = Normalized(halves)]
    /\ at' = [at EXCEPT ![j] = "loop"]
    /\ UNCHANGED <<registered, i, answer, deaths, runs>>

\* The head of the loop with attempts left: the handler is called.
Attempt(j) ==
    /\ at[j] = "loop"
    /\ i[j] < max[j]
    /\ runs' = [runs EXCEPT ![j] = @ + 1]
    /\ at' = [at EXCEPT ![j] = "running"]
    /\ UNCHANGED <<registered, max, i, answer, deaths>>

\* Slip: nothing is thrown behind the loop.
GiveUp_Resolves(j) ==
    /\ at[j] = "loop"
    /\ i[j] >= max[j]
    /\ at' = [at EXCEPT ![j] = "over"]
    /\ answer' = [answer EXCEPT ![j] = "resolved"]
    /\ UNCHANGED <<registered, max, i, deaths, runs>>

\* The head of the loop with none left: the last error is thrown, or none if no
\* attempt was asked for.
GiveUp(j) ==
    /\ at[j] = "loop"
    /\ i[j] >= max[j]
    /\ at' = [at EXCEPT ![j] = "over"]
    /\ answer' = [answer EXCEPT ![j] = "rejected"]
    /\ UNCHANGED <<registered, max, i, deaths, runs>>

Succeed(j) ==
    /\ at[j] = "running"
    /\ at' = [at EXCEPT ![j] = "over"]
    /\ answer' = [answer EXCEPT ![j] = "resolved"]
    /\ UNCHANGED <<registered, max, i, deaths, runs>>

\* Slip: a failure is not counted before the pause.
Fail_Uncounted(j) ==
    /\ at[j] = "running"
    /\ i' = [i EXCEPT ![j] = IF @ + 1 < max[j] THEN @ ELSE @ + 1]
    /\ at' = [at EXCEPT ![j] = IF i[j] + 1 < max[j] THEN "pause" ELSE "loop"]
    /\ UNCHANGED <<registered, max, answer, deaths, runs>>

\* The handler throws; there is a pause before another attempt.
Fail(j) ==
    /\ at[j] = "running"
    /\ i' = [i EXCEPT ![j] = @ + 1]
    /\ at' = [at EXCEPT ![j] = IF i[j] + 1 < max[j] THEN "pause" ELSE "loop"]
    /\ UNCHANGED <<registered, max, answer, deaths, runs>>

Sleep(j) ==
    /\ at[j] = "pause"
    /\ at' = [at EXCEPT ![j] = "loop"]
    /\ UNCHANGED <<registered, max, i, answer, deaths, runs>>

\* The process dies, and every job that is not over with it.
Die ==
    /\ deaths < MaxDeaths
    /\ deaths' = deaths + 1
    /\ at' = [j \in Jobs |-> IF at[j] \in {"absent", "over"} THEN at[j] ELSE "lost"]
    /\ UNCHANGED <<registered, max, i, answer, runs>>

RunJob(j) == Attempt(j) \/ GiveUp(j) \/ Succeed(j) \/ Fail(j) \/ Sleep(j)

Next ==
    \/ \E j \in Jobs :
        \/ RegisterJob(j) \/ DispatchRejects(j)
        \/ \E halves \in Halves : Dispatch(j, halves)
        \/ RunJob(j)
    \/ Die

Spec == Init /\ [][Next]_vars

\* A handler returns or throws, and a pause ends.
Fairness == \A j \in Jobs : WF_vars(RunJob(j))

FairSpec == Spec /\ Fairness

-----------------------------------------------------------------------------

TypeOK ==
    /\ at \in [Jobs -> {"absent", "loop", "running", "pause", "over", "lost"}]
    /\ registered \in [Jobs -> BOOLEAN]
    /\ max \in [Jobs -> Nat]
    /\ i \in [Jobs -> Nat]
    /\ answer \in [Jobs -> {"none", "resolved", "rejected"}]
    /\ deaths \in 0 .. MaxDeaths
    /\ runs \in [Jobs -> Nat]

\* What the caller is told: a dispatch that was rejected without an attempt was refused,
\* and an attempt that began and has no end is running, for ever if the process died.
Phase(j) ==
    IF max[j] = 0 THEN IF answer[j] = "rejected" THEN "refused" ELSE "absent"
    ELSE IF answer[j] = "resolved" THEN "done"
    ELSE IF answer[j] = "rejected" THEN "failed"
    ELSE IF runs[j] # i[j] THEN "running"
    ELSE "pending"

Contract == INSTANCE JobContract WITH
    phase <- [j \in Jobs |-> Phase(j)],
    limit <- max,
    lost <- [j \in Jobs |-> 0],
    unsure <- {},
    MaxAttempts <- {Normalized(halves) : halves \in Halves} \ {0},
    MayRefuse <- TRUE

\* What the inline driver refuses at once: a job without a handler, which the database
\* driver takes and runs when a worker knows it, and a maxAttempts that is floored to 0,
\* which the database driver reads as 1.
RefusesOnly ==
    [][\A j \in Jobs : Phase(j) # "refused" /\ Phase(j)' = "refused" =>
        ~registered[j] \/ (at[j] = "loop" /\ max[j] = 0)]_vars

\* Of a job it does not refuse, the inline driver promises what the jobs table
\* promises: as many attempts as were asked for at most, one at a time, none of them
\* without a run, given up only after all of them, and a promise that resolves only for
\* a job that succeeded and is never in doubt.
KeepsContract == Contract!Spec /\ RefusesOnly

\* Unless the process dies, dispatch settles.
DispatchSettles == \A j \in Jobs : at[j] = "loop" ~> at[j] \in {"over", "lost"}
=============================================================================
