----------------------------- MODULE MCCheckout -----------------------------
(* Instances of Checkout: one widget, and one session to pay for it.         *)
EXTENDS Checkout

CONSTANTS w1, c1, h1, h2

OneWidget == {w1}
OneSession == {c1}
TwoHandlers == {h1, h2}
ForWidget == [s \in Sessions |-> w1]
=============================================================================
