--------------------------- MODULE MCSubscriptions ---------------------------
(***************************************************************************)
(* Instances of Subscriptions for TLC: a subscription that starts, falls   *)
(* behind on payment and is canceled in the same tick, and an event that   *)
(* does not say when it occurred.                                          *)
(***************************************************************************)
EXTENDS Subscriptions

CONSTANTS started, unpaid, canceled, untimed

LifeOfSubscription ==
    [e \in Events |-> CASE e = started -> "active"
                        [] e = canceled -> "canceled"
                        [] OTHER -> "past_due"]

TimesOfEvents ==
    [e \in Events |-> CASE e = started -> 1
                        [] e = untimed -> NoTime
                        [] OTHER -> 2]
=============================================================================
