------------------------------ MODULE MCServices ------------------------------
(***************************************************************************)
(* The packages of Services for TLC, beside the subscriptions of           *)
(* MCSubscriptions.                                                        *)
(***************************************************************************)
EXTENDS Services, MCSubscriptions

\* maxAttempts not given, a half, one, and two and a half.
ExampleHalves == {0, 1, 2, 5}
=============================================================================
