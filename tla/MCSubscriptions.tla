-------------------------- MODULE MCSubscriptions --------------------------
(* Instances of Subscriptions for TLC.                                      *)
EXTENDS Subscriptions

CONSTANTS s1, s2, studio, scale

TwoPlans == [s \in {s1, s2} |-> IF s = s1 THEN studio ELSE scale]
=============================================================================
