----------------------------- MODULE MCWorkspace -----------------------------
(* One tool; a visitor who submits from a session and from a page without    *)
(* one, and a second person in the same browser; two people with accounts,   *)
(* two tools and one host name; two requests at a time; scores from 0 to 2,  *)
(* so that two answers have means of 1/2 and estimates of 4, with one or two *)
(* results whose limits are missing, meet, overlap, leave gaps or are in     *)
(* reverse, and edits that leave one question of two; two passwords, and two *)
(* processes that lose Redis once; three leads, and pages of one.            *)
EXTENDS Workspace, TLC

CONSTANTS ada, bob, s1

MCVisits == {[email |-> ada, session |-> s1], [email |-> ada, session |-> NoSession],
             [email |-> bob, session |-> s1]}
MCEvents == {"started", "result_viewed"}
MCPlans == {"free", "studio"}
MCLeadLimit == [p \in MCPlans |-> IF p = "studio" THEN 3 ELSE 0]

MCWeight == [q \in {"q1", "q2"} |-> 1]

None == -1                 \* no limit
Ranges == {[min |-> r[1], max |-> r[2]] : r \in
             {<<None, None>>, <<None, 0>>, <<0, 1>>, <<0, 2>>,
              <<1, 2>>, <<2, 2>>, <<2, None>>}}
MCDecisions ==
    [asks : {<<"q1", "q2">>}, results : UNION {[1..n -> Ranges] : n \in 1..2},
     kind : {"weighted_score"}, clamped : {FALSE}]

OneEach == <<[min |-> 2, max |-> 2], [min |-> 0, max |-> 0]>>
MCEdits ==
    [asks : {<<"q1", "q2">>}, results : {OneEach},
     kind : {"linear_estimate"}, clamped : BOOLEAN]
    \cup [asks : {<<"q2">>}, results : {OneEach}, kind : {"weighted_score"}, clamped : {FALSE}]

Bands == [key : {1}, min : 0..2, max : 0..2]
MCScreens == UNION {[1..n -> Bands] : n \in 1..2}

Alike == Permutations(Handlers) \cup Permutations(Processes)
=============================================================================
