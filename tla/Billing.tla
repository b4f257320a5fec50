------------------------------- MODULE Billing -------------------------------
(***************************************************************************)
(* What a workspace has paid for and what it may do with it.  Checkouts    *)
(* and webhooks write the subscription's row (Subscriptions); presses of   *)
(* Build and Deploy read it (Allowances).  Allowances takes every history  *)
(* of the row, of which those that Subscriptions allows are some, so that  *)
(* the two need no state in common: a behaviour is one of payments or one  *)
(* of presses.                                                             *)
(***************************************************************************)
EXTENDS Subscriptions

CONSTANTS Presses, Widgets, BuildLimit, LiveLimit, Month, MaxClock, MaxRequests, MaxNews

VARIABLES clock, sub, status, grant, built, running, usage, req, best, budget

Allow == INSTANCE Allowances WITH Handlers <- Presses, MaxChanges <- MaxNews

\* There is a press at a time at least, there are finitely many presses and
\* tools; the limits of the plans are numbers, and a month takes time.
ASSUME BillingAssumption ==
    /\ Presses # {} /\ IsFiniteSet(Presses) /\ IsFiniteSet(Widgets)
    /\ BuildLimit \in [Plans -> Nat] /\ LiveLimit \in [Plans -> Nat]
    /\ Month \in Nat \ {0}
    /\ {MaxClock, MaxRequests, MaxNews} \subseteq Nat

allowVars == <<clock, sub, status, grant, built, running, usage, req, best, budget>>

BillingInit == Init /\ Allow!Init

BillingNext ==
    \/ Allow!Init /\ Next /\ UNCHANGED allowVars
    \/ Init /\ Allow!Next /\ UNCHANGED vars

BillingSpec == BillingInit /\ [][BillingNext]_<<vars, allowVars>>
-----------------------------------------------------------------------------
\* Neither the builds of a period nor the live tools pass the best plan the
\* workspace ever had by more than the other requests in flight, although
\* nothing locks what they count.
OvershootBounded == Allow!OvershootBounded
=============================================================================
