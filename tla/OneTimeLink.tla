----------------------------- MODULE OneTimeLink -----------------------------
(***************************************************************************)
(* What a mailed, single-use link promises, whoever follows it how often:  *)
(* once issued it is spent once or becomes void, and what it grants it     *)
(* grants at most once, only after it was spent.  Magic links (vike-auth)  *)
(* and team invitations (vike-teams) are both such links.                  *)
(***************************************************************************)
EXTENDS Naturals

CONSTANT Links

VARIABLES
    phase,      \* what each link is good for
    grants      \* how often each link's grant was given

vars == <<phase, grants>>

Init ==
    /\ phase = [l \in Links |-> "unissued"]
    /\ grants = [l \in Links |-> 0]

Issue(l) ==
    /\ phase[l] = "unissued"
    /\ phase' = [phase EXCEPT ![l] = "open"]
    /\ UNCHANGED grants

Spend(l) ==
    /\ phase[l] = "open"
    /\ phase' = [phase EXCEPT ![l] = "spent"]
    /\ UNCHANGED grants

\* The link is revoked, or dropped once it has expired.
Void(l) ==
    /\ phase[l] = "open"
    /\ phase' = [phase EXCEPT ![l] = "void"]
    /\ UNCHANGED grants

Grant(l) ==
    /\ phase[l] = "spent"
    /\ grants[l] = 0
    /\ grants' = [grants EXCEPT ![l] = 1]
    /\ UNCHANGED phase

Next == \E l \in Links : Issue(l) \/ Spend(l) \/ Void(l) \/ Grant(l)

Spec == Init /\ [][Next]_vars
=============================================================================
