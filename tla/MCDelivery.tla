----------------------------- MODULE MCDelivery -----------------------------
(* One provider and one webhook; two requests of the owner's and a batch;   *)
(* and an outbox with one row.                                              *)
EXTENDS Delivery

CONSTANTS l1, mail

MCLeadOf == [d \in {mail} |-> l1]
=============================================================================
