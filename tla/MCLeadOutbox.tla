---------------------------- MODULE MCLeadOutbox ----------------------------
(* Instances of LeadOutbox: one lead that owes one email.                    *)
EXTENDS LeadOutbox

CONSTANTS l1, p1, s1, mail

OneLead == {l1}
OnePress == {p1}
OneSweep == {s1}
OneRow == {mail}
LeadOfRow == [d \in Rows |-> l1]
=============================================================================
