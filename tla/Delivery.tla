------------------------------- MODULE Delivery -------------------------------
(***************************************************************************)
(* How leads leave: the outbox that owes each of them to its destinations  *)
(* (LeadOutbox), and the connections and the webhook that its owner sets   *)
(* up, pauses and tests meanwhile (Connections).  LeadOutbox knows of a    *)
(* destination whether it takes a lead, and Connections of a row that it   *)
(* is pending, so the two share no column: a behaviour is one of senders   *)
(* and rows, or one of connections.                                        *)
(***************************************************************************)
EXTENDS LeadOutbox

CONSTANTS Ids, Providers, Keys, Urls, Submissions, Handlers, Batches, MaxChanges

VARIABLES conn, accepts, hook, req, lead, rows, job, paused, mixed, changes

Conn == INSTANCE Connections WITH Leads <- Submissions, Senders <- Batches

\* There is a key and an address, and connections can be told apart.
ASSUME DeliveryAssumption ==
    /\ IsFiniteSet(Ids) /\ Keys # {} /\ Urls # {} /\ MaxChanges \in Nat

connVars == <<conn, accepts, hook, req, lead, rows, job, paused, mixed, changes>>

DeliveryInit == Init /\ Conn!Init

DeliveryNext ==
    \/ Conn!Init /\ Next /\ UNCHANGED connVars
    \/ Init /\ Conn!Next /\ UNCHANGED vars

\* The fairness of Connections asks nothing before the first of its steps.
DeliverySpec ==
    DeliveryInit /\ [][DeliveryNext]_<<vars, connVars>> /\ Conn!Fairness
-----------------------------------------------------------------------------
\* A connection that was paused with nothing on its way to it stays paused, and
\* is owed nothing, until the owner resumes or connects it again.
PausedStaysPaused == Conn!PausedStaysPaused

\* When the panel says that leads are delivered they are, and when it says that
\* the webhook was tested it was.
PanelTrue == Conn!PanelTrue

\* A connection that failed mends itself, if leads keep coming and the other
\* side takes them.
Recovers == Conn!Recovers
=============================================================================
