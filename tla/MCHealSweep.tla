---------------------------- MODULE MCHealSweep ----------------------------
(* Instances of HealSweep for TLC.                                          *)
EXTENDS HealSweep
=============================================================================
