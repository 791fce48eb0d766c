----------------------------- MODULE MCMagicLink -----------------------------
(***************************************************************************)
(* Instances of MagicLink for TLC.  Handlers, links, users and sessions    *)
(* are interchangeable.                                                    *)
(***************************************************************************)
EXTENDS MagicLink, TLC

Interchangeable ==
    Permutations(Handlers) \union Permutations(Links) \union
    Permutations(UserIds) \union Permutations(SessionIds)
=============================================================================
