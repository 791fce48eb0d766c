----------------------------- MODULE JobContract -----------------------------
(***************************************************************************)
(* What a queue driver promises the caller of dispatch(), with no workers, *)
(* no drains and no clock: an accepted job gets attempts, one at a time    *)
(* and max_attempts in all, until a run succeeds or the attempts are used  *)
(* up.  vike-queue/README.md ("Concurrent workers", "Retries") and the     *)
(* comments of index.js and database.js say this.  Two things the promise  *)
(* has to leave open: an attempt may pass without a run of the handler, if *)
(* its worker dies first or knows no handler of that name; and what a job  *)
(* came to is final unless the write of its success was answered with an   *)
(* error, after which the job may run again or be given up.                *)
(***************************************************************************)
EXTENDS Naturals

CONSTANTS
    Jobs,
    MaxAttempts,    \* the max_attempts an accepted job may ask for
    MayRefuse       \* whether a dispatch may be refused at once, without a run

VARIABLES
    phase,  \* where each job is
    limit,  \* how many attempts it may have
    runs,   \* how many of them were runs of its handler
    lost,   \* and how many passed without one
    unsure  \* done jobs whose success may not have been recorded

vars == <<phase, limit, runs, lost, unsure>>

Init ==
    /\ phase = [j \in Jobs |-> "absent"]
    /\ limit = [j \in Jobs |-> 0]
    /\ runs = [j \in Jobs |-> 0]
    /\ lost = [j \in Jobs |-> 0]
    /\ unsure = {}

Move(j, from, to) == phase[j] = from /\ phase' = [phase EXCEPT ![j] = to]

Accept(j, max) ==
    /\ Move(j, "absent", "pending")
    /\ limit' = [limit EXCEPT ![j] = IF max = 0 THEN 1 ELSE max]
    /\ UNCHANGED <<runs, lost, unsure>>

Refuse(j) ==
    /\ MayRefuse
    /\ Move(j, "absent", "refused")
    /\ UNCHANGED <<limit, runs, lost, unsure>>

AttemptsLeft(j) == runs[j] + lost[j] < limit[j]

Run(j) ==
    /\ AttemptsLeft(j)
    /\ Move(j, "pending", "running")
    /\ runs' = [runs EXCEPT ![j] = @ + 1]
    /\ UNCHANGED <<limit, lost, unsure>>

\* An attempt passes without a run.
Lose(j) ==
    /\ AttemptsLeft(j)
    /\ phase[j] = "pending"
    /\ lost' = [lost EXCEPT ![j] = @ + 1]
    /\ UNCHANGED <<phase, limit, runs, unsure>>

\* The run failed with attempts left, or its worker is gone: the job waits again.
Requeue(j) ==
    /\ Move(j, "running", "pending")
    /\ UNCHANGED <<limit, runs, lost, unsure>>

Succeed(j) ==
    /\ Move(j, "running", "done")
    /\ unsure' \in {unsure, unsure \union {j}}
    /\ UNCHANGED <<limit, runs, lost>>

\* The doubt is over, and the success stands,
Confirm(j) ==
    /\ j \in unsure
    /\ unsure' = unsure \ {j}
    /\ UNCHANGED <<phase, limit, runs, lost>>

\* or it is taken for a failure.
Reopen(j) ==
    /\ j \in unsure
    /\ Move(j, "done", "pending")
    /\ unsure' = unsure \ {j}
    /\ UNCHANGED <<limit, runs, lost>>

\* Only a job that has had all its attempts is given up.
GiveUp(j) ==
    /\ phase[j] \in {"pending", "running"} \/ j \in unsure
    /\ ~AttemptsLeft(j)
    /\ phase' = [phase EXCEPT ![j] = "failed"]
    /\ unsure' = unsure \ {j}
    /\ UNCHANGED <<limit, runs, lost>>

Next ==
    \E j \in Jobs :
        \/ \E max \in MaxAttempts : Accept(j, max)
        \/ Refuse(j)
        \/ Run(j) \/ Lose(j)
        \/ Requeue(j)
        \/ Succeed(j) \/ Confirm(j) \/ Reopen(j)
        \/ GiveUp(j)

Spec == Init /\ [][Next]_vars
=============================================================================
