--------------------------- MODULE MCPublication ---------------------------
(* Instances of Publication.                                                 *)
EXTENDS Publication

CONSTANTS b1, b2, d1, k1

TwoBuilds == {b1, b2}
OneRedeploy == {d1}
OneRollback == {k1}
=============================================================================
