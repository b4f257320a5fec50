-------------------------- MODULE MCBuildLifecycle --------------------------
(* Instances of BuildLifecycle.                                              *)
EXTENDS BuildLifecycle

CONSTANTS r1, r2

TwoRequests == {r1, r2}
SecondRequest == {r2}
=============================================================================
