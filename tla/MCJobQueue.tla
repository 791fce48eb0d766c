----------------------------- MODULE MCJobQueue -----------------------------
(***************************************************************************)
(* Instances of JobQueue for TLC: the workers and the jobs are model       *)
(* values, interchangeable in the runs that check no liveness.             *)
(***************************************************************************)
EXTENDS JobQueue, TLC

Interchangeable == Permutations(Workers) \union Permutations(Jobs)
=============================================================================
