------------------------------- MODULE Outbox -------------------------------
(***************************************************************************)
(* What features/leads/delivery.py promises of the lead outbox: a lead that *)
(* is captured owes all of its deliveries from that moment on, a delivery   *)
(* that is settled stays settled, and only the owner opens one again, once  *)
(* for each press.  Nothing is said of senders, attempts, or time.          *)
(***************************************************************************)
CONSTANTS
  Leads,     \* the leads that may be captured
  Rows,      \* their deliveries, one for each lead and destination
  LeadOf,    \* the lead each delivery is for
  Presses    \* the times the owner may press "retry"

VARIABLES
  owed,      \* deliveries still to be made
  settled,   \* deliveries made, given up, or not wanted
  pressed    \* the presses that have been answered

vars == <<owed, settled, pressed>>

Init == owed = {} /\ settled = {} /\ pressed = {}

\* A lead and its deliveries come into being together.
Capture(l) ==
  LET rows == {d \in Rows : LeadOf[d] = l}
  IN  /\ rows \cap (owed \cup settled) = {}
      /\ owed' = owed \cup rows
      /\ UNCHANGED <<settled, pressed>>

\* A sender records what has become of a batch.
Settle(batch) ==
  /\ owed' = owed \ batch
  /\ settled' = settled \cup batch
  /\ UNCHANGED pressed

\* The owner asks for a delivery again.  A press that found it owed, or that a
\* sender overtakes, may come to nothing.
Reopen(p, d) ==
  /\ p \notin pressed /\ d \in owed \cup settled
  /\ pressed' = pressed \cup {p}
  /\ \/ owed' = owed \cup {d} /\ settled' = settled \ {d}
     \/ UNCHANGED <<owed, settled>>

Next ==
  \/ \E l \in Leads : Capture(l)
  \/ \E batch \in SUBSET owed : Settle(batch)
  \/ \E p \in Presses, d \in Rows : Reopen(p, d)

Spec == Init /\ [][Next]_vars
=============================================================================
