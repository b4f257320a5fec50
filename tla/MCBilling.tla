------------------------------ MODULE MCBilling ------------------------------
(* Three tools of one workspace, two presses at a time and two plans; and a *)
(* checkout of one of them.                                                 *)
EXTENDS Billing, TLC

CONSTANTS h1, h2, w1, w2, w3, s1

MCPlans == {"studio", "scale"}
MCPlanOf == [s \in {s1} |-> "studio"]
MCBuildLimit == [p \in MCPlans |-> IF p = "studio" THEN 1 ELSE 2]
MCLiveLimit == [p \in MCPlans |-> 1]
MCSymmetry == Permutations({h1, h2}) \cup Permutations({w1, w2, w3})
=============================================================================
