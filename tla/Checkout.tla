------------------------------ MODULE Checkout ------------------------------
(***************************************************************************)
(* Buying one widget outright (features/payments): the checkout session at   *)
(* Stripe, the payments row, and the widget's entitlement_status.           *)
(*                                                                          *)
(* Three parties write the two rows: the customer who opens a checkout, the *)
(* webhooks Stripe sends, and the customer who comes back and has the       *)
(* session reconciled.  Stripe delivers a webhook at least once, in any     *)
(* order, and again until it is answered with success.  Each handler is one *)
(* transaction at READ COMMITTED that takes no lock before it writes:       *)
(*                                                                          *)
(*   loaded    it has loaded the payment, and asks Stripe                   *)
(*   planned   it knows what to make of the payment and of the widget       *)
(*   ready     it has written the payment and loaded the widget             *)
(*                                                                          *)
(* and then commits.  Stripe is external: a session is open until it is     *)
(* paid, completed without payment, or expires, and a refund leaves its     *)
(* payment_status at "paid".                                                *)
(***************************************************************************)
EXTENDS Integers, FiniteSets

CONSTANTS
  Handlers,   \* bound on the requests that are handled at once
  Sessions,   \* checkout sessions that may be created
  Widgets,
  WidgetOf,   \* payments.widget_id
  NoSession,  \* what a handler that is idle is about
  MaxFaults   \* bound on failures of a handler and repeated webhooks

ASSUME WidgetOfAssumption == WidgetOf \in [Sessions -> Widgets]
ASSUME NoSessionAssumption == NoSession \notin Sessions
ASSUME MaxFaultsAssumption == MaxFaults \in Nat

Paid == {"paid", "refunded"}        \* payment_status is "paid"
StripeStates == Paid \cup {"none", "open", "unpaid", "expired"}
PaymentStatuses == {"none", "pending", "confirmed", "failed", "refunded"}
EntitlementStatuses == {"preview", "checkout_pending", "paid"}
Events == {"completed", "expired", "refunded"}
Kinds == Events \cup {"create", "reconcile", "none"}
PCs == {"idle", "loaded", "planned", "ready"}
Goals == {"none", "pending", "paid", "release", "revoke"}

VARIABLES
  stripe,       \* the sessions at Stripe
  exact,        \* those paid in the amount the payment records
  events,       \* the webhooks not answered yet
  payment,      \* payments.status, "none" without a row
  intent,       \* the payments with their stripe_payment_intent
  entitlement,  \* widgets.entitlement_status
  pc,           \* where each handler is
  kind,         \* what it handles
  on,           \* the session it is about
  seenPayment,  \* the payment's status it has loaded
  seenWidget,   \* the widget's status it has loaded
  newPayment,   \* the status it gives the payment, "none" to leave it
  goal,         \* what it does with the widget
  faults,       \* faults so far
  crossed,      \* widgets two handlers have ever been busy with at once
  late          \* sessions confirmed when their refund had been handled

outside == <<stripe, exact>>
rows == <<payment, intent, entitlement>>
handler == <<pc, kind, on, seenPayment, seenWidget, newPayment, goal>>
vars == <<outside, events, rows, handler, faults, crossed, late>>

TypeOK ==
  /\ stripe \in [Sessions -> StripeStates]
  /\ exact \subseteq Sessions
  /\ events \subseteq Events \X Sessions
  /\ payment \in [Sessions -> PaymentStatuses]
  /\ intent \subseteq Sessions
  /\ entitlement \in [Widgets -> EntitlementStatuses]
  /\ pc \in [Handlers -> PCs]
  /\ kind \in [Handlers -> Kinds]
  /\ on \in [Handlers -> Sessions \cup {NoSession}]
  /\ \A h \in Handlers : pc[h] # "idle" => on[h] \in Sessions
  /\ seenPayment \in [Handlers -> PaymentStatuses]
  /\ seenWidget \in [Handlers -> EntitlementStatuses]
  /\ newPayment \in [Handlers -> PaymentStatuses]
  /\ goal \in [Handlers -> Goals]
  /\ faults \in 0 .. MaxFaults
  /\ crossed \subseteq Widgets
  /\ late \subseteq Sessions

Init ==
  /\ stripe = [s \in Sessions |-> "none"]
  /\ exact = {}
  /\ events = {}
  /\ payment = [s \in Sessions |-> "none"]
  /\ intent = {}
  /\ entitlement = [w \in Widgets |-> "preview"]
  /\ pc = [h \in Handlers |-> "idle"]
  /\ kind = [h \in Handlers |-> "none"]
  /\ on = [h \in Handlers |-> NoSession]
  /\ seenPayment = [h \in Handlers |-> "none"]
  /\ seenWidget = [h \in Handlers |-> "preview"]
  /\ newPayment = [h \in Handlers |-> "none"]
  /\ goal = [h \in Handlers |-> "none"]
  /\ faults = 0
  /\ crossed = {}
  /\ late = {}

----------------------------------------------------------------------------

Busy(h) == pc[h] # "idle"
Idle(h) == pc[h] = "idle"

\* Handler `h` begins with session `s`, and has loaded the payment.
Begin(h, k, s) ==
  /\ Idle(h)
  /\ kind' = [kind EXCEPT ![h] = k]
  /\ on' = [on EXCEPT ![h] = s]
  /\ seenPayment' = [seenPayment EXCEPT ![h] = payment[s]]
  /\ crossed' = crossed \cup
       {w \in Widgets : w = WidgetOf[s] /\ \E g \in Handlers : Busy(g) /\ WidgetOf[on[g]] = w}
  /\ UNCHANGED <<outside, rows, faults, late>>

\* It knows what to make of the payment, and of the widget.
Plan(h, status, aim) ==
  /\ pc' = [pc EXCEPT ![h] = "planned"]
  /\ newPayment' = [newPayment EXCEPT ![h] = status]
  /\ goal' = [goal EXCEPT ![h] = aim]
  /\ UNCHANGED seenWidget

\* It has to ask Stripe first.
AskStripe(h) ==
  /\ pc' = [pc EXCEPT ![h] = "loaded"]
  /\ UNCHANGED <<seenWidget, newPayment, goal>>

\* It is done, and what it had loaded is of no further use.
End(h) ==
  /\ pc' = [pc EXCEPT ![h] = "idle"]
  /\ kind' = [kind EXCEPT ![h] = "none"]
  /\ seenPayment' = [seenPayment EXCEPT ![h] = "none"]
  /\ seenWidget' = [seenWidget EXCEPT ![h] = "preview"]
  /\ newPayment' = [newPayment EXCEPT ![h] = "none"]
  /\ goal' = [goal EXCEPT ![h] = "none"]
  /\ on' = [on EXCEPT ![h] = NoSession]

----------------------------------------------------------------------------
(* The customer: create_checkout and reconcile_checkout_session.            *)

\* The handler loads the widget; one that is paid for is refused.
CreateCheckout(h, s) ==
  /\ stripe[s] = "none" /\ \A g \in Handlers : on[g] # s
  /\ entitlement[WidgetOf[s]] # "paid"
  /\ Begin(h, "create", s)
  /\ pc' = [pc EXCEPT ![h] = "loaded"]
  /\ seenWidget' = [seenWidget EXCEPT ![h] = entitlement[WidgetOf[s]]]
  /\ UNCHANGED <<events, newPayment, goal>>

\* Stripe creates the session, which no rollback undoes.
CreateSession(h) ==
  /\ pc[h] = "loaded" /\ kind[h] = "create"
  /\ stripe' = [stripe EXCEPT ![on[h]] = "open"]
  /\ pc' = [pc EXCEPT ![h] = "ready"]
  /\ newPayment' = [newPayment EXCEPT ![h] = "pending"]
  /\ goal' = [goal EXCEPT ![h] = "pending"]
  /\ UNCHANGED <<exact, events, rows, kind, on, seenPayment, seenWidget, faults, crossed, late>>

\* The customer is back.  A pending payment has Stripe asked about it.
Reconcile(h, s) ==
  /\ payment[s] # "none"
  /\ Begin(h, "reconcile", s)
  /\ CASE payment[s] = "pending"   -> AskStripe(h)
       [] payment[s] = "confirmed" -> Plan(h, "none", "paid")
       [] OTHER                    -> Plan(h, "none", "release")
  /\ UNCHANGED events

----------------------------------------------------------------------------
(* The webhooks: handle_checkout_completed, handle_checkout_expired and     *)
(* handle_payment_refunded.                                                 *)

\* No row to be found, or a payment that is no longer pending: the event is
\* answered with success, and Stripe does not send it again.
Nothing(k, s) ==
  \/ k = "completed" /\ payment[s] = "none"
  \/ k = "expired" /\ payment[s] # "pending"
  \/ k = "refunded" /\ s \notin intent

Ignore(k, s) ==
  /\ <<k, s>> \in events /\ Nothing(k, s)
  /\ events' = events \ {<<k, s>>}
  /\ UNCHANGED <<outside, rows, handler, faults, crossed, late>>

\* Mutant: a refund is noted, and the widget left alone.
DeliverRefundNoted(h, k, s) ==
  /\ <<k, s>> \in events /\ ~Nothing(k, s)
  /\ Begin(h, k, s)
  /\ CASE k = "expired"  -> Plan(h, "failed", "release")
       [] k = "refunded" -> Plan(h, "refunded", "none")
       [] k = "completed" /\ payment[s] = "confirmed" -> Plan(h, "none", "paid")
       [] OTHER -> AskStripe(h)
  /\ UNCHANGED events

Deliver(h, k, s) ==
  /\ <<k, s>> \in events /\ ~Nothing(k, s)
  /\ Begin(h, k, s)
  /\ CASE k = "expired"  -> Plan(h, "failed", "release")
       [] k = "refunded" -> Plan(h, "refunded", "revoke")
       [] k = "completed" /\ payment[s] = "confirmed" -> Plan(h, "none", "paid")
       [] OTHER -> AskStripe(h)
  /\ UNCHANGED events

\* Mutant: what was paid is not compared with the amount of the payment.
AnsweredAnyAmount(h) ==
  IF stripe[on[h]] \in Paid THEN Plan(h, "confirmed", "paid")
  ELSE /\ kind[h] = "reconcile"
       /\ Plan(h, IF stripe[on[h]] = "open" THEN "none" ELSE "failed", "release")

\* What Stripe's answer leads to, for a webhook only if the session was paid.
Answered(h) ==
  IF stripe[on[h]] \in Paid
  THEN IF on[h] \in exact THEN Plan(h, "confirmed", "paid") ELSE Plan(h, "failed", "none")
  ELSE /\ kind[h] = "reconcile"
       /\ Plan(h, IF stripe[on[h]] = "open" THEN "none" ELSE "failed", "release")

Verify(h) ==
  /\ pc[h] = "loaded" /\ kind[h] \in {"completed", "reconcile"}
  /\ Answered(h)
  /\ UNCHANGED <<outside, events, rows, kind, on, seenPayment, faults, crossed, late>>

\* A session that was completed without payment leaves the payment pending.
VerifyUnpaid(h) ==
  /\ pc[h] = "loaded" /\ kind[h] = "completed"
  /\ stripe[on[h]] \notin Paid
  /\ events' = events \ {<<"completed", on[h]>>}
  /\ End(h)
  /\ UNCHANGED <<outside, rows, faults, crossed, late>>

----------------------------------------------------------------------------
(* The end of every handler that has something to write.                    *)

\* SQLAlchemy writes an attribute only when it differs from what was loaded.
WritesPayment(h) == newPayment[h] # "none" /\ newPayment[h] # seenPayment[h]

\* Selecting the widget flushes the payment, which waits for its row.
LoadWidget(h) ==
  /\ pc[h] = "planned"
  /\ WritesPayment(h) =>
       \A g \in Handlers : pc[g] = "ready" /\ on[g] = on[h] => ~WritesPayment(g)
  /\ seenWidget' = [seenWidget EXCEPT ![h] = entitlement[WidgetOf[on[h]]]]
  /\ pc' = [pc EXCEPT ![h] = "ready"]
  /\ UNCHANGED <<outside, events, rows, kind, on, seenPayment, newPayment, goal, faults,
                 crossed, late>>

\* _mark_widget_paid, _release_widget, the refund's revocation, or none.
NewWidget(h) ==
  CASE goal[h] = "pending" -> "checkout_pending"
    [] goal[h] = "paid"    -> "paid"
    [] goal[h] = "release" /\ seenWidget[h] = "checkout_pending" -> "preview"
    [] goal[h] = "revoke"  /\ seenWidget[h] = "paid" -> "preview"
    [] OTHER -> seenWidget[h]

WidgetAfter(h, w) ==
  IF w = WidgetOf[on[h]] /\ NewWidget(h) # seenWidget[h] THEN NewWidget(h) ELSE entitlement[w]

PaymentAfter(h, s) == IF s = on[h] /\ WritesPayment(h) THEN newPayment[h] ELSE payment[s]

\* A purchase is made good after its refund has been handled.
Resurrects(h) ==
  /\ goal[h] = "paid"
  /\ stripe[on[h]] = "refunded" /\ <<"refunded", on[h]>> \notin events

\* The transaction commits, and a webhook is answered with success.
Commit(h) ==
  /\ pc[h] = "ready"
  /\ payment' = [s \in Sessions |-> PaymentAfter(h, s)]
  /\ entitlement' = [w \in Widgets |-> WidgetAfter(h, w)]
  /\ intent' = intent \cup {s \in Sessions : s = on[h] /\ newPayment[h] = "confirmed"}
  /\ events' = events \ {<<kind[h], on[h]>>}
  /\ late' = late \cup {s \in Sessions : s = on[h] /\ Resurrects(h)}
  /\ End(h)
  /\ UNCHANGED <<outside, faults, crossed>>

\* Mutant: what was done before Stripe failed is kept, and the event answered.
FailAnswered(h) ==
  /\ Busy(h) /\ faults < MaxFaults
  /\ faults' = faults + 1
  /\ events' = events \ {<<kind[h], on[h]>>}
  /\ End(h)
  /\ UNCHANGED <<outside, rows, crossed, late>>

\* Stripe cannot be reached, the commit fails, or the process dies: nothing is
\* written, and a webhook is not answered with success.
Fail(h) ==
  /\ Busy(h) /\ faults < MaxFaults
  /\ faults' = faults + 1
  /\ End(h)
  /\ UNCHANGED <<outside, events, rows, crossed, late>>

----------------------------------------------------------------------------
(* Stripe.                                                                  *)

\* The customer has the address of a session when its handler has ended.
Open(s) == stripe[s] = "open" /\ \A h \in Handlers : ~(kind[h] = "create" /\ on[h] = s)

Becomes(s, state, k) ==
  /\ stripe' = [stripe EXCEPT ![s] = state]
  /\ events' = events \cup {<<k, s>>}
  /\ UNCHANGED <<rows, handler, faults, crossed, late>>

\* The customer pays, mostly the amount the payment records.
Pay(s) ==
  /\ Open(s)
  /\ Becomes(s, "paid", "completed")
  /\ exact' \in {exact, exact \cup {s}}

CompleteUnpaid(s) == Open(s) /\ Becomes(s, "unpaid", "completed") /\ UNCHANGED exact
Expire(s) == Open(s) /\ Becomes(s, "expired", "expired") /\ UNCHANGED exact
Refund(s) == stripe[s] = "paid" /\ Becomes(s, "refunded", "refunded") /\ UNCHANGED exact

\* The events Stripe has ever sent of a session.
Sent(k, s) ==
  \/ k = "completed" /\ stripe[s] \in Paid \cup {"unpaid"}
  \/ k = "expired" /\ stripe[s] = "expired"
  \/ k = "refunded" /\ stripe[s] = "refunded"

\* An event that was answered is sent once more.
Redeliver(k, s) ==
  /\ Sent(k, s) /\ <<k, s>> \notin events
  /\ faults < MaxFaults
  /\ faults' = faults + 1
  /\ events' = events \cup {<<k, s>>}
  /\ UNCHANGED <<outside, rows, handler, crossed, late>>

----------------------------------------------------------------------------

HandlerStep(h) == CreateSession(h) \/ Verify(h) \/ VerifyUnpaid(h) \/ LoadWidget(h) \/ Commit(h)
Webhook(k, s) == Ignore(k, s) \/ \E h \in Handlers : Deliver(h, k, s)

Next ==
  \/ \E h \in Handlers, s \in Sessions : CreateCheckout(h, s) \/ Reconcile(h, s)
  \/ \E h \in Handlers : HandlerStep(h) \/ Fail(h)
  \/ \E k \in Events, s \in Sessions : Webhook(k, s) \/ Redeliver(k, s)
  \/ \E s \in Sessions : Pay(s) \/ CompleteUnpaid(s) \/ Expire(s) \/ Refund(s)

Spec == Init /\ [][Next]_vars

\* A handler ends or fails, Stripe sends an event until it is answered, and a
\* session that nobody pays expires.  Nothing is asked of the customer.
FairSpec ==
  /\ Spec
  /\ \A h \in Handlers : WF_vars(HandlerStep(h))
  /\ \A k \in Events, s \in Sessions : SF_vars(Webhook(k, s))
  /\ \A s \in Sessions : WF_vars(Expire(s))

----------------------------------------------------------------------------

SessionsOf(w) == {s \in Sessions : WidgetOf[s] = w}

(* payments/service.py:397, "Never trusts the browser", and :301-330: only    *)
(* money that was paid, in the amount recorded, makes a widget "paid",        *)
(* whatever handlers overlap and however often an event is repeated.          *)
PaidIsPaidFor ==
  \A w \in Widgets : entitlement[w] = "paid" => \E s \in SessionsOf(w) : s \in exact

(* The widget says what its payments say, as long as no two handlers have     *)
(* been busy with it at once: it is paid when one of them is confirmed, and   *)
(* none refunded, and only then.                                              *)
RowsAgree ==
  \A w \in Widgets \ crossed :
    LET statuses == {payment[s] : s \in SessionsOf(w)}
    IN  /\ entitlement[w] = "paid" => "confirmed" \in statuses
        /\ "confirmed" \in statuses /\ "refunded" \notin statuses => entitlement[w] = "paid"

(* payments/service.py:496: when a refund has been handled the widget it paid *)
(* for is no longer "paid", unless something else paid for it, a completed    *)
(* event was handled after the refund, or handlers overlapped.                *)
RefundHonoured ==
  \A w \in Widgets \ crossed : entitlement[w] = "paid" =>
    \E s \in SessionsOf(w) : \/ stripe[s] = "paid" \/ s \in late
                             \/ <<"refunded", s>> \in events

(* A payment that Stripe has the money of is confirmed in the end, whatever   *)
(* fails, as long as its row was committed.                                   *)
PaidIsConfirmed ==
  \A s \in Sessions : s \in exact /\ payment[s] = "pending" ~> payment[s] \in {"confirmed", "refunded"}
=============================================================================
