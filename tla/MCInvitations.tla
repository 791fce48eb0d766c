---------------------------- MODULE MCInvitations ----------------------------
(***************************************************************************)
(* Instances of Invitations for TLC.                                       *)
(***************************************************************************)
EXTENDS Invitations

CONSTANTS u1, u2, u3, e1, e2

\* u3 is a named guard's user with the address of u1.
Addresses == [u \in Users |-> IF u = u2 THEN e2 ELSE e1]
=============================================================================
