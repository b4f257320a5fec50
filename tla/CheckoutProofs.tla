--------------------------- MODULE CheckoutProofs ---------------------------
(* Theorems about Checkout, for every set of handlers, sessions and widgets  *)
(* and every bound on the faults.                                            *)
EXTENDS Checkout, TLAPS

(* What Stripe's answer leads to has its type.                               *)
LEMMA AnsweredTypes ==
  ASSUME TypeOK, NEW h \in Handlers, Answered(h)
  PROVE  /\ pc' \in [Handlers -> PCs]
         /\ newPayment' \in [Handlers -> PaymentStatuses]
         /\ goal' \in [Handlers -> Goals]
         /\ seenWidget' \in [Handlers -> EntitlementStatuses]
BY DEF Answered, Plan, TypeOK, PCs, PaymentStatuses, Goals

(* A handler that ends has nothing in hand.                                  *)
LEMMA EndTypes ==
  ASSUME TypeOK, NEW h \in Handlers, End(h)
  PROVE  /\ pc' \in [Handlers -> PCs]
         /\ kind' \in [Handlers -> Kinds]
         /\ on' \in [Handlers -> Sessions \cup {NoSession}]
         /\ \A g \in Handlers : pc'[g] # "idle" => on'[g] \in Sessions
         /\ seenPayment' \in [Handlers -> PaymentStatuses]
         /\ seenWidget' \in [Handlers -> EntitlementStatuses]
         /\ newPayment' \in [Handlers -> PaymentStatuses]
         /\ goal' \in [Handlers -> Goals]
BY DEF End, TypeOK, PCs, Kinds, PaymentStatuses, EntitlementStatuses, Goals

(* A handler that begins is about a session.                                 *)
LEMMA BeginTypes ==
  ASSUME TypeOK, NEW h \in Handlers, NEW k \in Kinds, NEW s \in Sessions, Begin(h, k, s),
         NEW place \in PCs, pc' = [pc EXCEPT ![h] = place]
  PROVE  /\ pc' \in [Handlers -> PCs]
         /\ kind' \in [Handlers -> Kinds]
         /\ on' \in [Handlers -> Sessions \cup {NoSession}]
         /\ \A g \in Handlers : pc'[g] # "idle" => on'[g] \in Sessions
         /\ seenPayment' \in [Handlers -> PaymentStatuses]
         /\ crossed' \subseteq Widgets
BY DEF Begin, TypeOK

(* One step keeps the types.                                                 *)
LEMMA TypeStep == ASSUME TypeOK, [Next]_vars PROVE TypeOK'
<1> USE WidgetOfAssumption, NoSessionAssumption, MaxFaultsAssumption DEF outside, rows, handler
<1>1. ASSUME NEW h \in Handlers, NEW s \in Sessions, CreateCheckout(h, s) PROVE TypeOK'
  <2>1. pc' = [pc EXCEPT ![h] = "loaded"] /\ Begin(h, "create", s)
    BY <1>1 DEF CreateCheckout
  <2>2. "create" \in Kinds /\ "loaded" \in PCs
    BY DEF Kinds, PCs
  <2>3. seenWidget' \in [Handlers -> EntitlementStatuses]
    BY <1>1 DEF CreateCheckout, TypeOK
  <2> QED
    BY <1>1, <2>1, <2>2, <2>3, BeginTypes DEF CreateCheckout, Begin, TypeOK
<1>2. ASSUME NEW h \in Handlers, CreateSession(h) PROVE TypeOK'
  BY <1>2 DEF CreateSession, TypeOK, StripeStates, PCs, PaymentStatuses, Goals
<1>3. ASSUME NEW h \in Handlers, NEW k \in Kinds, NEW s \in Sessions, Begin(h, k, s),
             NEW status \in PaymentStatuses, NEW aim \in Goals,
             Plan(h, status, aim) \/ AskStripe(h), UNCHANGED events
      PROVE  TypeOK'
  <2>1. PICK place \in PCs : pc' = [pc EXCEPT ![h] = place]
    BY <1>3 DEF Plan, AskStripe, PCs
  <2>2. newPayment' \in [Handlers -> PaymentStatuses] /\ goal' \in [Handlers -> Goals]
    BY <1>3 DEF Plan, AskStripe, TypeOK
  <2>3. seenWidget' = seenWidget
    BY <1>3 DEF Plan, AskStripe
  <2> QED
    BY <1>3, <2>1, <2>2, <2>3, BeginTypes DEF Begin, TypeOK
<1>4. ASSUME NEW h \in Handlers, NEW s \in Sessions, Reconcile(h, s) PROVE TypeOK'
  <2>1. Begin(h, "reconcile", s) /\ UNCHANGED events
    BY <1>4 DEF Reconcile
  <2>2. AskStripe(h) \/ Plan(h, "none", "paid") \/ Plan(h, "none", "release")
    BY <1>4 DEF Reconcile
  <2> QED
    BY <1>3, <2>1, <2>2 DEF Kinds, PaymentStatuses, Goals
<1>5. ASSUME NEW h \in Handlers, NEW k \in Events, NEW s \in Sessions, Deliver(h, k, s)
      PROVE  TypeOK'
  <2>1. Begin(h, k, s) /\ UNCHANGED events /\ k \in Kinds
    BY <1>5 DEF Deliver, Kinds
  <2>2. \/ AskStripe(h) \/ Plan(h, "failed", "release") \/ Plan(h, "refunded", "revoke")
        \/ Plan(h, "none", "paid")
    BY <1>5 DEF Deliver
  <2> QED
    BY <1>3, <2>1, <2>2 DEF PaymentStatuses, Goals
<1>6. ASSUME NEW k \in Events, NEW s \in Sessions, Ignore(k, s) PROVE TypeOK'
  BY <1>6 DEF Ignore, TypeOK
<1>7. ASSUME NEW h \in Handlers, Verify(h) PROVE TypeOK'
  <2>1. \A g \in Handlers : pc'[g] # "idle" => pc[g] # "idle"
    BY <1>7 DEF Verify, Answered, Plan, TypeOK
  <2> QED
    BY <1>7, <2>1, AnsweredTypes DEF Verify, TypeOK
<1>8. ASSUME NEW h \in Handlers, VerifyUnpaid(h) PROVE TypeOK'
  <2>1. events' \subseteq Events \X Sessions
    BY <1>8 DEF VerifyUnpaid, TypeOK
  <2>2. UNCHANGED <<outside, rows, faults, crossed, late>> /\ End(h)
    BY <1>8 DEF VerifyUnpaid
  <2> QED
    BY <2>1, <2>2, EndTypes DEF TypeOK
<1>9. ASSUME NEW h \in Handlers, LoadWidget(h) PROVE TypeOK'
  BY <1>9 DEF LoadWidget, TypeOK, PCs
<1>10. ASSUME NEW h \in Handlers, Commit(h) PROVE TypeOK'
  <2>1. payment' \in [Sessions -> PaymentStatuses]
    BY <1>10 DEF Commit, PaymentAfter, TypeOK
  <2>2. entitlement' \in [Widgets -> EntitlementStatuses]
    <3>1. \A w \in Widgets : WidgetAfter(h, w) \in EntitlementStatuses
      BY DEF WidgetAfter, NewWidget, TypeOK, EntitlementStatuses
    <3> QED
      BY <1>10, <3>1 DEF Commit
  <2>3. events' \subseteq Events \X Sessions /\ intent' \subseteq Sessions /\ late' \subseteq Sessions
    BY <1>10 DEF Commit, TypeOK
  <2>4. UNCHANGED <<outside, faults, crossed>> /\ End(h)
    BY <1>10 DEF Commit
  <2> QED
    BY <2>1, <2>2, <2>3, <2>4, EndTypes DEF TypeOK
<1>11. ASSUME NEW h \in Handlers, Fail(h) PROVE TypeOK'
  BY <1>11, EndTypes DEF Fail, TypeOK
<1>12. ASSUME NEW s \in Sessions, Pay(s) \/ CompleteUnpaid(s) \/ Expire(s) \/ Refund(s)
       PROVE  TypeOK'
  <2>1. stripe' \in [Sessions -> StripeStates] /\ events' \subseteq Events \X Sessions
    BY <1>12 DEF Pay, CompleteUnpaid, Expire, Refund, Becomes, TypeOK, StripeStates, Paid, Events
  <2>2. exact' \subseteq Sessions
    BY <1>12 DEF Pay, CompleteUnpaid, Expire, Refund, TypeOK
  <2>3. UNCHANGED <<rows, handler, faults, crossed, late>>
    BY <1>12 DEF Pay, CompleteUnpaid, Expire, Refund, Becomes
  <2> QED
    BY <2>1, <2>2, <2>3 DEF TypeOK
<1>13. ASSUME NEW k \in Events, NEW s \in Sessions, Redeliver(k, s) PROVE TypeOK'
  BY <1>13 DEF Redeliver, TypeOK
<1>14. CASE UNCHANGED vars
  BY <1>14 DEF vars, TypeOK
<1> QED
  BY <1>1, <1>2, <1>4, <1>5, <1>6, <1>7, <1>8, <1>9, <1>10, <1>11, <1>12, <1>13, <1>14
  DEF Next, HandlerStep, Webhook

(* The variables keep their types: no status outside the CHECK constraints   *)
(* of payments and widgets is ever written.                                  *)
THEOREM TypeCorrect == Spec => []TypeOK
<1>1. Init => TypeOK
  BY MaxFaultsAssumption
  DEF Init, TypeOK, StripeStates, PaymentStatuses, EntitlementStatuses, PCs, Kinds, Goals
<1> QED
  BY <1>1, TypeStep, PTL DEF Spec

----------------------------------------------------------------------------
(* PaidIsPaidFor.                                                            *)

\* A payment is confirmed, and a handler is about to confirm it or to mark its
\* widget, only when the session was paid in the amount recorded.
Backed(s) == payment[s] \in {"confirmed", "refunded"} \/ s \in intent => s \in exact
BackedBy(h) ==
  newPayment[h] \in {"confirmed", "refunded"} \/ goal[h] = "paid" => on[h] \in exact

PaidInv ==
  /\ PaidIsPaidFor
  /\ \A s \in Sessions : Backed(s)
  /\ \A h \in Handlers : BackedBy(h)

(* A handler's plan is backed.                                               *)
LEMMA PlanBacked ==
  ASSUME TypeOK, NEW h \in Handlers, \A g \in Handlers : BackedBy(g),
         UNCHANGED exact, NEW status, NEW aim, Plan(h, status, aim) \/ AskStripe(h),
         on'[h] = on[h] \/ (newPayment[h] = "none" /\ goal[h] = "none"),
         \A g \in Handlers : g # h => on'[g] = on[g],
         status \in {"confirmed", "refunded"} \/ aim = "paid" => on'[h] \in exact
  PROVE  \A g \in Handlers : BackedBy(g)'
BY DEF BackedBy, Plan, AskStripe, TypeOK

(* A handler that is idle plans nothing.                                     *)
IdleInv == \A h \in Handlers : pc[h] \in {"idle", "loaded"} => newPayment[h] = "none" /\ goal[h] = "none"

LEMMA IdleStep == ASSUME TypeOK, IdleInv, [Next]_vars PROVE IdleInv'
<1> USE DEF IdleInv, TypeOK, outside, rows, handler
<1>1. ASSUME NEW h \in Handlers, NEW s \in Sessions, CreateCheckout(h, s) \/ Reconcile(h, s) PROVE IdleInv'
  BY <1>1 DEF CreateCheckout, Reconcile, Begin, Idle, Plan, AskStripe
<1>2. ASSUME NEW h \in Handlers, NEW k \in Events, NEW s \in Sessions, Deliver(h, k, s) PROVE IdleInv'
  BY <1>2 DEF Deliver, Begin, Idle, Plan, AskStripe
<1>3. ASSUME NEW h \in Handlers, CreateSession(h) \/ LoadWidget(h) PROVE IdleInv'
  BY <1>3 DEF CreateSession, LoadWidget
<1>4. ASSUME NEW h \in Handlers, Verify(h) PROVE IdleInv'
  BY <1>4 DEF Verify, Answered, Plan
<1>5. ASSUME NEW h \in Handlers, VerifyUnpaid(h) \/ Commit(h) \/ Fail(h) PROVE IdleInv'
  BY <1>5 DEF VerifyUnpaid, Commit, Fail, End
<1>6. ASSUME NEW k \in Events, NEW s \in Sessions, Ignore(k, s) \/ Redeliver(k, s) PROVE IdleInv'
  BY <1>6 DEF Ignore, Redeliver
<1>7. ASSUME NEW s \in Sessions, Pay(s) \/ CompleteUnpaid(s) \/ Expire(s) \/ Refund(s) PROVE IdleInv'
  BY <1>7 DEF Pay, CompleteUnpaid, Expire, Refund, Becomes
<1>8. CASE UNCHANGED vars
  BY <1>8 DEF vars
<1> QED
  BY <1>1, <1>2, <1>3, <1>4, <1>5, <1>6, <1>7, <1>8 DEF Next, HandlerStep, Webhook

LEMMA IdleCorrect == Spec => []IdleInv
<1>1. Init => IdleInv
  BY DEF Init, IdleInv
<1> QED
  BY <1>1, IdleStep, TypeCorrect, PTL DEF Spec

(* One step: nothing is confirmed that was not paid in full.                 *)
LEMMA PaidStep == ASSUME TypeOK, IdleInv, PaidInv, [Next]_vars PROVE PaidInv'
<1> USE WidgetOfAssumption DEF outside, rows, handler
<1> DEFINE Handled == \A h \in Handlers : BackedBy(h)
           Rows == PaidIsPaidFor /\ \A s \in Sessions : Backed(s)
<1>1. Handled /\ Rows
  BY DEF PaidInv
<1>2. ASSUME exact \subseteq exact', UNCHANGED rows PROVE Rows'
  BY <1>1, <1>2 DEF PaidIsPaidFor, Backed, SessionsOf
<1>3. ASSUME NEW h \in Handlers, NEW k, NEW s \in Sessions, Begin(h, k, s)
      PROVE  /\ UNCHANGED exact /\ Rows'
             /\ newPayment[h] = "none" /\ goal[h] = "none"
             /\ on'[h] = s /\ \A g \in Handlers : g # h => on'[g] = on[g]
  BY <1>2, <1>3 DEF Begin, Idle, IdleInv, TypeOK
<1>4. ASSUME NEW h \in Handlers, NEW s \in Sessions, CreateCheckout(h, s) PROVE Rows' /\ Handled'
  <2>1. Begin(h, "create", s)
    BY <1>4 DEF CreateCheckout
  <2>2. Handled'
    BY <1>1, <1>3, <1>4, <2>1 DEF CreateCheckout, BackedBy
  <2> QED
    BY <1>3, <2>1, <2>2
<1>5. ASSUME NEW h \in Handlers, NEW s \in Sessions, Reconcile(h, s) PROVE Rows' /\ Handled'
  <2>1. Begin(h, "reconcile", s)
    BY <1>5 DEF Reconcile
  <2>2. \/ AskStripe(h) \/ Plan(h, "none", "release")
        \/ Plan(h, "none", "paid") /\ s \in exact
    BY <1>1, <1>5 DEF Reconcile, Backed
  <2>3. Handled'
    BY <1>1, <1>3, <2>1, <2>2, PlanBacked
  <2> QED
    BY <1>3, <2>1, <2>3
<1>6. ASSUME NEW h \in Handlers, NEW k \in Events, NEW s \in Sessions, Deliver(h, k, s)
      PROVE  Rows' /\ Handled'
  <2>1. Begin(h, k, s)
    BY <1>6 DEF Deliver
  <2>2. \/ AskStripe(h) \/ Plan(h, "failed", "release")
        \/ Plan(h, "none", "paid") /\ s \in exact
        \/ Plan(h, "refunded", "revoke") /\ s \in exact
    BY <1>1, <1>6 DEF Deliver, Nothing, Backed
  <2>3. Handled'
    BY <1>1, <1>3, <2>1, <2>2, PlanBacked
  <2> QED
    BY <1>3, <2>1, <2>3
<1>7. ASSUME NEW h \in Handlers, CreateSession(h) PROVE Rows' /\ Handled'
  BY <1>1, <1>2, <1>7 DEF CreateSession, BackedBy, TypeOK
<1>8. ASSUME NEW h \in Handlers, Verify(h) PROVE Rows' /\ Handled'
  <2>1. UNCHANGED <<exact, rows, on>> /\ Answered(h)
    BY <1>8 DEF Verify
  <2>2. \/ Plan(h, "failed", "none") \/ Plan(h, "failed", "release") \/ Plan(h, "none", "release")
        \/ Plan(h, "confirmed", "paid") /\ on[h] \in exact
    BY <2>1 DEF Answered
  <2>3. Handled'
    BY <1>1, <2>1, <2>2, PlanBacked
  <2> QED
    BY <1>2, <2>1, <2>3
<1>9. ASSUME NEW h \in Handlers, End(h), UNCHANGED exact PROVE Handled'
  BY <1>1, <1>9 DEF End, BackedBy, TypeOK
<1>10. ASSUME NEW h \in Handlers, VerifyUnpaid(h) \/ Fail(h) PROVE Rows' /\ Handled'
  BY <1>2, <1>9, <1>10 DEF VerifyUnpaid, Fail
<1>11. ASSUME NEW h \in Handlers, LoadWidget(h) PROVE Rows' /\ Handled'
  BY <1>1, <1>2, <1>11 DEF LoadWidget, BackedBy
<1>12. ASSUME NEW h \in Handlers, Commit(h) PROVE Rows' /\ Handled'
  <2>1. on[h] \in Sessions /\ End(h) /\ UNCHANGED exact
    BY <1>12 DEF Commit, TypeOK
  <2>2. ASSUME NEW s \in Sessions PROVE Backed(s)'
    <3>1. payment'[s] = PaymentAfter(h, s) /\ intent' = intent \cup {c \in Sessions : c = on[h] /\ newPayment[h] = "confirmed"}
      BY <1>12 DEF Commit
    <3>2. BackedBy(h) /\ Backed(s)
      BY <1>1
    <3> QED
      BY <2>1, <3>1, <3>2 DEF Backed, BackedBy, PaymentAfter
  <2>3. ASSUME NEW w \in Widgets, entitlement'[w] = "paid" PROVE \E s \in SessionsOf(w) : s \in exact
    <3>1. entitlement[w] = "paid" \/ (w = WidgetOf[on[h]] /\ goal[h] = "paid")
      BY <1>12, <2>3 DEF Commit, WidgetAfter, NewWidget
    <3>2. CASE entitlement[w] = "paid"
      BY <1>1, <3>2 DEF PaidIsPaidFor
    <3>3. CASE w = WidgetOf[on[h]] /\ goal[h] = "paid"
      BY <1>1, <2>1, <3>3 DEF BackedBy, SessionsOf
    <3> QED
      BY <3>1, <3>2, <3>3
  <2>4. Handled'
    BY <1>9, <2>1
  <2>5. PaidIsPaidFor'
    BY <2>1, <2>3 DEF PaidIsPaidFor, SessionsOf
  <2> QED
    BY <2>2, <2>4, <2>5
<1>13. ASSUME exact \subseteq exact', UNCHANGED <<rows, handler>> PROVE Rows' /\ Handled'
  BY <1>1, <1>2, <1>13 DEF BackedBy
<1>14. ASSUME NEW k \in Events, NEW s \in Sessions, Ignore(k, s) \/ Redeliver(k, s)
       PROVE  Rows' /\ Handled'
  BY <1>13, <1>14 DEF Ignore, Redeliver
<1>15. ASSUME NEW s \in Sessions, Pay(s) \/ CompleteUnpaid(s) \/ Expire(s) \/ Refund(s)
       PROVE  Rows' /\ Handled'
  BY <1>13, <1>15 DEF Pay, CompleteUnpaid, Expire, Refund, Becomes
<1>16. ASSUME UNCHANGED vars PROVE Rows' /\ Handled'
  BY <1>13, <1>16 DEF vars
<1>17. Rows' /\ Handled'
  <2> HIDE DEF Rows, Handled
  <2> QED
    BY <1>4, <1>5, <1>6, <1>7, <1>8, <1>10, <1>11, <1>12, <1>14, <1>15, <1>16
    DEF Next, HandlerStep, Webhook
<1> QED
  BY <1>17 DEF PaidInv

(* service.py:397 and :326-336: whatever overlaps, fails or is repeated, no  *)
(* widget is "paid" unless a session for it was paid in the amount recorded. *)
THEOREM PaidCorrect == Spec => []PaidIsPaidFor
<1>1. Init => PaidInv
  BY DEF Init, PaidInv, PaidIsPaidFor, Backed, BackedBy
<1>2. PaidInv => PaidIsPaidFor
  BY DEF PaidInv
<1> QED
  BY <1>1, <1>2, PaidStep, TypeCorrect, IdleCorrect, PTL DEF Spec

----------------------------------------------------------------------------
(* RowsAgree and RefundHonoured.  The strengthening speaks of the widgets    *)
(* that never had two handlers, and of the handler each of them may have.    *)

\* Handler `h` is busy with widget `w`.
For(h, w) == pc[h] # "idle" /\ WidgetOf[on[h]] = w

\* What a handler knows, when no other is busy with its widget.
Knows(h) ==
  LET s == on[h]
      w == WidgetOf[s]
  IN  /\ seenPayment[h] = payment[s]
      /\ pc[h] = "ready" \/ kind[h] = "create" => seenWidget[h] = entitlement[w]
      /\ kind[h] = "create" <=> payment[s] = "none"
      /\ kind[h] = "create" => entitlement[w] # "paid"

\* What it plans.
Plans(h) ==
  LET s == on[h]
  IN  /\ kind[h] = "refunded" => newPayment[h] = "refunded"
      /\ goal[h] = "revoke" <=> newPayment[h] = "refunded"
      /\ goal[h] = "pending" <=> newPayment[h] = "pending"
      /\ goal[h] = "pending" => kind[h] = "create"
      /\ kind[h] = "create" => newPayment[h] \in {"none", "pending"}
      /\ newPayment[h] = "confirmed" => goal[h] = "paid"
      /\ newPayment[h] \in {"confirmed", "refunded"} => stripe[s] \in Paid
      /\ goal[h] = "paid" => \/ newPayment[h] = "confirmed"
                             \/ newPayment[h] = "none" /\ payment[s] = "confirmed"
      /\ newPayment[h] = "failed" => payment[s] \notin {"confirmed", "refunded"}
      /\ newPayment[h] # "none" => stripe[s] # "none"

\* A refund that is not handled yet, or that a late confirmation undid.
Excused(s) == stripe[s] = "refunded" => <<"refunded", s>> \in events \/ s \in late

\* A session and its payment.
Recorded(s) ==
  /\ payment[s] # "none" => stripe[s] # "none"
  /\ s \in intent => payment[s] \in {"confirmed", "refunded"}
  /\ payment[s] \in {"confirmed", "refunded"} => stripe[s] \in Paid
  /\ payment[s] = "confirmed" => s \in intent /\ Excused(s)

\* A widget and the payments of its sessions.
Agrees(w) ==
  /\ entitlement[w] = "paid" => \E s \in SessionsOf(w) : payment[s] = "confirmed"
  /\ (\E s \in SessionsOf(w) : payment[s] = "confirmed") =>
       entitlement[w] = "paid" \/ \E s \in SessionsOf(w) : payment[s] = "refunded"

Serial(w) ==
  /\ \A h, g \in Handlers : For(h, w) /\ For(g, w) => h = g
  /\ \A h \in Handlers : For(h, w) => Knows(h) /\ Plans(h)
  /\ \A s \in SessionsOf(w) : Recorded(s)
  /\ Agrees(w)

\* What a handler has in hand stays what it is.
Same(g) ==
  UNCHANGED <<pc[g], kind[g], on[g], seenPayment[g], seenWidget[g], newPayment[g], goal[g]>>

\* The rows of a widget stay what they are, and so does what excuses them.
RowsKept(w) ==
  /\ entitlement'[w] = entitlement[w]
  /\ \A s \in SessionsOf(w) :
       /\ payment'[s] = payment[s] /\ (s \in intent' <=> s \in intent)
       /\ payment[s] # "none" /\ stripe[s] \in Paid => stripe'[s] \in Paid
       /\ stripe[s] # "none" => stripe'[s] # "none"
       /\ payment[s] = "confirmed" /\ Excused(s) => Excused(s)'

(* A step of one handler, or of none, that writes no row.                    *)
LEMMA SerialKept ==
  ASSUME TypeOK, NEW w \in Widgets, Serial(w), RowsKept(w), NEW h,
         \A g \in Handlers : g # h => Same(g),
         h \in Handlers /\ For(h, w)' =>
           Knows(h)' /\ Plans(h)' /\ \A g \in Handlers : g # h => ~For(g, w)
  PROVE  Serial(w)'
<1>1. \A g \in Handlers : g # h => (For(g, w)' <=> For(g, w))
  BY DEF Same, For
<1>2. \A g, f \in Handlers : For(g, w)' /\ For(f, w)' => g = f
  BY <1>1 DEF Serial
<1>3. ASSUME NEW g \in Handlers, g # h, For(g, w)' PROVE Knows(g)' /\ Plans(g)'
  <2>1. For(g, w) /\ Knows(g) /\ Plans(g) /\ Same(g)
    BY <1>1, <1>3 DEF Serial
  <2>2. on[g] \in SessionsOf(w) /\ WidgetOf[on[g]] = w
    BY <2>1 DEF For, SessionsOf, TypeOK
  <2>3. Knows(g)'
    BY <2>1, <2>2 DEF Knows, Same, RowsKept
  <2>4. Plans(g)'
    BY <2>1, <2>2 DEF Plans, Knows, Same, RowsKept
  <2> QED
    BY <2>3, <2>4
<1>4. \A g \in Handlers : For(g, w)' => Knows(g)' /\ Plans(g)'
  BY <1>3
<1>5. \A s \in SessionsOf(w) : Recorded(s)'
  BY DEF Serial, RowsKept, Recorded
<1>6. Agrees(w)'
  BY DEF Serial, RowsKept, Agrees, SessionsOf
<1> QED
  BY <1>2, <1>4, <1>5, <1>6 DEF Serial, SessionsOf

(* The commit of the one handler that is busy with the widget.               *)
LEMMA SerialCommit ==
  ASSUME TypeOK, NEW w \in Widgets, Serial(w), NEW h \in Handlers, For(h, w), Commit(h)
  PROVE  Serial(w)'
<1>0. PICK s \in Sessions : s = on[h]
  BY DEF For, TypeOK
<1>1. /\ s = on[h] /\ s \in SessionsOf(w) /\ s \in Sessions /\ WidgetOf[s] = w
      /\ Knows(h) /\ Plans(h) /\ pc[h] = "ready"
  BY <1>0 DEF For, Serial, SessionsOf, TypeOK, Commit
<1>2. \A g \in Handlers : ~For(g, w)'
  <2>1. \A g \in Handlers : g # h => ~For(g, w)
    BY DEF Serial
  <2>2. \A g \in Handlers : pc'[g] = IF g = h THEN "idle" ELSE pc[g]
    BY DEF Commit, End, TypeOK
  <2>3. \A g \in Handlers : g # h => on'[g] = on[g]
    BY DEF Commit, End, TypeOK
  <2> QED
    BY <2>1, <2>2, <2>3 DEF For
<1>3. /\ payment'[s] = IF newPayment[h] = "none" THEN payment[s] ELSE newPayment[h]
      /\ \A c \in SessionsOf(w) : c # s => payment'[c] = payment[c]
  BY <1>1 DEF Commit, PaymentAfter, WritesPayment, Knows, SessionsOf
<1>4. entitlement'[w] = NewWidget(h) /\ seenWidget[h] = entitlement[w]
  BY <1>1 DEF Commit, WidgetAfter, Knows
<1>5. \A c \in SessionsOf(w) : c \in intent' <=> c \in intent \/ (c = s /\ newPayment[h] = "confirmed")
  BY <1>1 DEF Commit, SessionsOf
<1>6. stripe' = stripe
  BY DEF Commit, outside
<1>7. ASSUME NEW c \in SessionsOf(w) PROVE Recorded(c)'
  <2>1. Recorded(c)
    BY <1>7 DEF Serial
  <2>2. c \in Sessions
    BY <1>7 DEF SessionsOf
  <2>3. CASE c # s
    <3>1. Excused(c) => Excused(c)'
      BY <1>1, <1>6, <2>3 DEF Excused, Commit
    <3> QED
      BY <1>3, <1>5, <1>6, <2>1, <2>3, <3>1 DEF Recorded
  <2>4. CASE c = s
    <3>1. payment'[s] # "none" => stripe'[s] # "none"
      BY <1>1, <1>3, <1>6, <2>1, <2>4 DEF Recorded, Plans
    <3>2. s \in intent' => payment'[s] \in {"confirmed", "refunded"}
      <4>1. s \in intent' <=> s \in intent \/ newPayment[h] = "confirmed"
        BY <1>1, <1>5
      <4>2. newPayment[h] \in PaymentStatuses
        BY DEF TypeOK
      <4>3. Recorded(s) /\ Plans(h) /\ Knows(h)
        BY <1>1, <2>1, <2>4
      <4> QED
        BY <1>1, <1>3, <4>1, <4>2, <4>3 DEF Recorded, Plans, Knows, PaymentStatuses
    <3>3. /\ payment'[s] \in {"confirmed", "refunded"} => stripe'[s] \in Paid
          /\ payment'[s] = "confirmed" => s \in intent'
      <4> HIDE DEF Paid
      <4>1. s \in intent' <=> s \in intent \/ newPayment[h] = "confirmed"
        BY <1>1, <1>5
      <4>2. Recorded(s) /\ Plans(h)
        BY <1>1, <2>1, <2>4
      <4> QED
        BY <1>1, <1>3, <1>6, <4>1, <4>2 DEF Recorded, Plans
    <3>4. ASSUME payment'[s] = "confirmed" PROVE Excused(s)'
      <4>1. kind[h] # "refunded"
        BY <1>1, <1>3, <3>4 DEF Plans
      <4>2. <<"refunded", s>> \in events => <<"refunded", s>> \in events'
        BY <1>1, <4>1 DEF Commit
      <4>3. CASE newPayment[h] = "confirmed"
        <5>1. goal[h] = "paid"
          BY <1>1, <4>3 DEF Plans
        <5>2. stripe[s] = "refunded" /\ <<"refunded", s>> \notin events => s \in late'
          BY <1>1, <5>1 DEF Commit, Resurrects
        <5> QED
          BY <1>6, <4>2, <5>2 DEF Excused
      <4>4. CASE newPayment[h] = "none"
        <5>1. Excused(s)
          BY <1>3, <2>1, <2>4, <3>4, <4>4 DEF Recorded
        <5>2. late \subseteq late'
          BY DEF Commit
        <5> QED
          BY <1>6, <4>2, <5>1, <5>2 DEF Excused
      <4> QED
        BY <1>3, <3>4, <4>3, <4>4
    <3> QED
      BY <2>4, <3>1, <3>2, <3>3, <3>4 DEF Recorded
  <2> QED
    BY <2>3, <2>4
<1>8. Agrees(w)'
  <2>1. Agrees(w)
    BY DEF Serial
  <2>2. CASE goal[h] = "paid"
    <3>1. payment'[s] = "confirmed" /\ entitlement'[w] = "paid"
      BY <1>1, <1>3, <1>4, <2>2 DEF Plans, NewWidget
    <3> QED
      BY <1>1, <3>1 DEF Agrees, SessionsOf
  <2>3. CASE goal[h] = "revoke"
    <3>1. payment'[s] = "refunded" /\ entitlement'[w] # "paid"
      BY <1>1, <1>3, <1>4, <2>3 DEF Plans, NewWidget
    <3> QED
      BY <1>1, <3>1 DEF Agrees, SessionsOf
  <2>4. CASE goal[h] \notin {"paid", "revoke"}
    <3>1. newPayment[h] \in {"none", "pending", "failed"}
      BY <1>1, <2>4 DEF Plans, TypeOK, PaymentStatuses
    <3>2. \A c \in SessionsOf(w) :
            /\ payment'[c] = "confirmed" <=> payment[c] = "confirmed"
            /\ payment'[c] = "refunded" <=> payment[c] = "refunded"
      BY <1>1, <1>3, <3>1 DEF Plans, Knows
    <3>3. entitlement'[w] = "paid" <=> entitlement[w] = "paid"
      BY <1>1, <1>4, <2>4 DEF NewWidget, Plans, Knows
    <3> QED
      BY <2>1, <3>2, <3>3 DEF Agrees, SessionsOf
  <2> QED
    BY <2>2, <2>3, <2>4
<1> QED
  BY <1>2, <1>7, <1>8 DEF Serial, SessionsOf

(* A step that writes no row of a widget, and loses no refund of it.         *)
LEMMA RowsQuiet ==
  ASSUME NEW w \in Widgets, Serial(w), UNCHANGED <<stripe, rows, late>>,
         \A s \in SessionsOf(w) :
           s \in intent /\ <<"refunded", s>> \in events => <<"refunded", s>> \in events'
  PROVE  RowsKept(w)
BY DEF RowsKept, Serial, Recorded, Excused, rows

(* A handler begins.                                                         *)
LEMMA SerialBegin ==
  ASSUME TypeOK, NEW w \in Widgets, w \notin crossed', Serial(w),
         NEW h \in Handlers, NEW k, NEW s \in Sessions, Begin(h, k, s), UNCHANGED events,
         \A g \in Handlers : g # h => Same(g),
         WidgetOf[s] = w => Knows(h)' /\ Plans(h)'
  PROVE  Serial(w)'
<1>1. RowsKept(w)
  BY RowsQuiet DEF Begin, outside
<1>2. on'[h] = s
  BY DEF Begin, TypeOK
<1>3. ASSUME For(h, w)' PROVE Knows(h)' /\ Plans(h)' /\ \A g \in Handlers : g # h => ~For(g, w)
  <2>1. WidgetOf[s] = w
    BY <1>2, <1>3 DEF For
  <2>2. ~\E g \in Handlers : Busy(g) /\ WidgetOf[on[g]] = w
    BY <2>1 DEF Begin
  <2> QED
    BY <2>1, <2>2 DEF For, Busy
<1> QED
  BY <1>1, <1>3, SerialKept

(* What the customer begins.                                                 *)
LEMMA SerialCreate ==
  ASSUME TypeOK, IdleInv, NEW w \in Widgets, w \notin crossed', Serial(w),
         NEW h \in Handlers, NEW s \in Sessions, CreateCheckout(h, s)
  PROVE  Serial(w)'
<1>1. Begin(h, "create", s) /\ UNCHANGED events
  BY DEF CreateCheckout
<1>2. \A g \in Handlers : g # h => Same(g)
  BY DEF CreateCheckout, Begin, Same, TypeOK
<1>3. /\ on'[h] = s /\ kind'[h] = "create" /\ pc'[h] = "loaded"
      /\ seenPayment'[h] = payment[s] /\ seenWidget'[h] = entitlement[WidgetOf[s]]
      /\ newPayment'[h] = "none" /\ goal'[h] = "none"
      /\ UNCHANGED <<stripe, payment, entitlement>>
      /\ stripe[s] = "none" /\ entitlement[WidgetOf[s]] # "paid"
  BY DEF CreateCheckout, Begin, IdleInv, Idle, TypeOK, outside, rows
<1>4. ASSUME WidgetOf[s] = w PROVE Knows(h)' /\ Plans(h)'
  <2>1. payment[s] = "none"
    BY <1>3, <1>4 DEF Serial, Recorded, SessionsOf
  <2>2. Knows(h)'
    BY <1>3, <2>1 DEF Knows
  <2>3. Plans(h)'
    BY <1>3 DEF Plans
  <2> QED
    BY <2>2, <2>3
<1> QED
  BY <1>1, <1>2, <1>4, SerialBegin

(* A handler that begins with a payment that has a row.                      *)
LEMMA SerialPlan ==
  ASSUME TypeOK, IdleInv, NEW w \in Widgets, w \notin crossed', Serial(w),
         NEW h \in Handlers, NEW k \in Kinds \ {"create"}, NEW s \in Sessions, Begin(h, k, s),
         UNCHANGED events, payment[s] # "none",
         \/ AskStripe(h) /\ k # "refunded"
         \/ Plan(h, "failed", "release") /\ payment[s] = "pending" /\ k # "refunded"
         \/ Plan(h, "none", "release") /\ k # "refunded"
         \/ Plan(h, "none", "paid") /\ payment[s] = "confirmed" /\ k # "refunded"
         \/ Plan(h, "refunded", "revoke") /\ s \in intent
  PROVE  Serial(w)'
<1>1. \A g \in Handlers : g # h => Same(g)
  BY DEF Begin, Plan, AskStripe, Same, TypeOK
<1>2. /\ on'[h] = s /\ kind'[h] = k /\ seenPayment'[h] = payment[s] /\ pc'[h] # "ready"
      /\ UNCHANGED <<stripe, payment, entitlement>>
  BY DEF Begin, Plan, AskStripe, TypeOK, outside, rows
<1>3. newPayment[h] = "none" /\ goal[h] = "none"
  BY DEF Begin, Idle, IdleInv
<1>4. \/ newPayment'[h] = "none" /\ goal'[h] = "none" /\ k # "refunded"
      \/ newPayment'[h] = "failed" /\ goal'[h] = "release" /\ payment[s] = "pending" /\ k # "refunded"
      \/ newPayment'[h] = "none" /\ goal'[h] = "release" /\ k # "refunded"
      \/ newPayment'[h] = "none" /\ goal'[h] = "paid" /\ payment[s] = "confirmed" /\ k # "refunded"
      \/ newPayment'[h] = "refunded" /\ goal'[h] = "revoke" /\ s \in intent
  BY <1>3 DEF Plan, AskStripe, TypeOK
<1>5. ASSUME WidgetOf[s] = w PROVE Knows(h)' /\ Plans(h)'
  <2>1. Recorded(s)
    BY <1>5 DEF Serial, SessionsOf
  <2>2. Knows(h)'
    BY <1>2 DEF Knows
  <2>3. Plans(h)'
    BY <1>2, <1>4, <2>1 DEF Plans, Recorded, Paid
  <2> QED
    BY <2>2, <2>3
<1> QED
  BY <1>1, <1>5, SerialBegin

(* The one handler of a widget goes on.                                      *)
LEMMA SerialGoesOn ==
  ASSUME TypeOK, NEW w \in Widgets, Serial(w), RowsKept(w),
         NEW h \in Handlers, pc[h] # "idle", on' = on, \A g \in Handlers : g # h => Same(g),
         For(h, w) /\ Knows(h) /\ Plans(h) => Knows(h)' /\ Plans(h)'
  PROVE  Serial(w)'
<1>1. For(h, w)' => For(h, w)
  BY DEF For
<1>2. For(h, w) => Knows(h) /\ Plans(h) /\ \A g \in Handlers : g # h => ~For(g, w)
  BY DEF Serial
<1> QED
  BY <1>1, <1>2, SerialKept

LEMMA SerialSession ==
  ASSUME TypeOK, IdleInv, NEW w \in Widgets, Serial(w), NEW h \in Handlers, CreateSession(h)
  PROVE  Serial(w)'
<1>1. \A g \in Handlers : g # h => Same(g)
  BY DEF CreateSession, Same, TypeOK
<1>2. /\ \A s \in Sessions : stripe'[s] = IF s = on[h] THEN "open" ELSE stripe[s]
      /\ UNCHANGED <<payment, intent, entitlement, events, late, kind, on, seenPayment, seenWidget>>
      /\ pc[h] = "loaded" /\ kind[h] = "create"
      /\ newPayment'[h] = "pending" /\ goal'[h] = "pending" /\ pc'[h] = "ready"
  BY DEF CreateSession, TypeOK, rows
<1>3. on[h] \in Sessions
  BY <1>2 DEF TypeOK
<1>4. For(h, w) => payment[on[h]] = "none"
  BY <1>2 DEF Serial, Knows
<1>5. RowsKept(w)
  <2>1. \A s \in SessionsOf(w) : s = on[h] => payment[s] = "none"
    BY <1>2, <1>4 DEF For, SessionsOf
  <2> QED
    BY <1>2, <2>1 DEF RowsKept, SessionsOf, Excused
<1>6. ASSUME For(h, w), Knows(h) PROVE Knows(h)' /\ Plans(h)'
  <2>1. Knows(h)'
    BY <1>2, <1>6 DEF Knows
  <2>2. Plans(h)'
    BY <1>2, <1>3 DEF Plans
  <2> QED
    BY <2>1, <2>2
<1> QED
  BY <1>1, <1>2, <1>5, <1>6, SerialGoesOn

LEMMA SerialVerify ==
  ASSUME TypeOK, PaidInv, NEW w \in Widgets, Serial(w), NEW h \in Handlers, Verify(h)
  PROVE  Serial(w)'
<1>1. \A g \in Handlers : g # h => Same(g)
  BY DEF Verify, Answered, Plan, Same, TypeOK
<1>2. /\ UNCHANGED <<stripe, payment, intent, entitlement, events, late, kind, on, seenPayment, seenWidget>>
      /\ pc[h] = "loaded" /\ kind[h] \in {"completed", "reconcile"} /\ pc'[h] = "planned"
  BY DEF Verify, Answered, Plan, TypeOK, outside, rows
<1>3. \/ newPayment'[h] = "confirmed" /\ goal'[h] = "paid" /\ stripe[on[h]] \in Paid
      \/ newPayment'[h] = "failed" /\ goal'[h] \in {"none", "release"}
           /\ (on[h] \notin exact \/ stripe[on[h]] \notin Paid)
      \/ newPayment'[h] = "none" /\ goal'[h] = "release"
  BY DEF Verify, Answered, Plan, TypeOK
<1>4. RowsKept(w)
  BY <1>2, RowsQuiet DEF rows
<1>5. ASSUME For(h, w), Knows(h), Plans(h) PROVE Knows(h)' /\ Plans(h)'
  <2>1. on[h] \in SessionsOf(w)
    BY <1>5 DEF For, SessionsOf, TypeOK
  <2>2. Recorded(on[h]) /\ Backed(on[h])
    BY <2>1 DEF Serial, PaidInv, SessionsOf
  <2>3. Knows(h)'
    BY <1>2, <1>5 DEF Knows
  <2>4. payment[on[h]] # "none"
    BY <1>2, <1>5 DEF Knows
  <2>5. Plans(h)'
    <3> HIDE DEF Paid
    <3>1. stripe[on[h]] # "none"
      BY <2>2, <2>4 DEF Recorded
    <3>2. on[h] \notin exact \/ stripe[on[h]] \notin Paid => payment[on[h]] \notin {"confirmed", "refunded"}
      BY <2>2 DEF Recorded, Backed
    <3> QED
      BY <1>2, <1>3, <3>1, <3>2 DEF Plans
  <2> QED
    BY <2>3, <2>5
<1> QED
  BY <1>1, <1>2, <1>4, <1>5, SerialGoesOn

LEMMA SerialLoad ==
  ASSUME TypeOK, NEW w \in Widgets, Serial(w), NEW h \in Handlers, LoadWidget(h)
  PROVE  Serial(w)'
<1>1. \A g \in Handlers : g # h => Same(g)
  BY DEF LoadWidget, Same, TypeOK
<1>2. /\ UNCHANGED <<stripe, payment, intent, entitlement, events, late, kind, on, seenPayment, newPayment, goal>>
      /\ pc[h] = "planned" /\ seenWidget'[h] = entitlement[WidgetOf[on[h]]]
  BY DEF LoadWidget, TypeOK, outside, rows
<1>3. RowsKept(w)
  BY <1>2, RowsQuiet DEF rows
<1>4. Knows(h) /\ Plans(h) => Knows(h)' /\ Plans(h)'
  BY <1>2 DEF Knows, Plans
<1> QED
  BY <1>1, <1>2, <1>3, <1>4, SerialGoesOn

(* A handler ends without writing a row of the widget.                       *)
LEMMA SerialEnd ==
  ASSUME TypeOK, NEW w \in Widgets, Serial(w), RowsKept(w), NEW h \in Handlers, End(h)
  PROVE  Serial(w)'
<1>1. \A g \in Handlers : g # h => Same(g)
  BY DEF End, Same, TypeOK
<1>2. ~For(h, w)'
  BY DEF End, For, TypeOK
<1> QED
  BY <1>1, <1>2, SerialKept

LEMMA SerialElsewhere ==
  ASSUME TypeOK, NEW w \in Widgets, Serial(w), NEW h \in Handlers, ~For(h, w), Commit(h)
  PROVE  Serial(w)'
<1>1. on[h] \in Sessions /\ WidgetOf[on[h]] # w
  BY DEF For, Commit, TypeOK
<1>2. /\ \A s \in Sessions : s # on[h] => payment'[s] = payment[s] /\ (s \in intent' <=> s \in intent)
      /\ entitlement'[w] = entitlement[w] /\ stripe' = stripe
  BY <1>1 DEF Commit, PaymentAfter, WidgetAfter, outside
<1>3. \A s \in Sessions : s # on[h] => (Excused(s) => Excused(s)')
  BY <1>2 DEF Commit, Excused
<1>4. RowsKept(w)
  BY <1>1, <1>2, <1>3 DEF RowsKept, SessionsOf
<1> QED
  BY <1>4, SerialEnd DEF Commit

(* One step: a widget that had no two handlers at once stays in order.       *)
LEMMA SerialStep ==
  ASSUME TypeOK, IdleInv, PaidInv, [Next]_vars, NEW w \in Widgets, w \notin crossed', Serial(w)
  PROVE  Serial(w)'
<1>1. ASSUME NEW h \in Handlers, NEW s \in Sessions, CreateCheckout(h, s) PROVE Serial(w)'
  BY <1>1, SerialCreate
<1>2. ASSUME NEW h \in Handlers, NEW s \in Sessions, Reconcile(h, s) PROVE Serial(w)'
  <2>1. /\ Begin(h, "reconcile", s) /\ UNCHANGED events /\ payment[s] # "none"
        /\ \/ AskStripe(h) \/ Plan(h, "none", "release")
           \/ Plan(h, "none", "paid") /\ payment[s] = "confirmed"
    BY <1>2 DEF Reconcile
  <2>2. "reconcile" \in Kinds \ {"create"}
    BY DEF Kinds
  <2> QED
    BY <2>1, <2>2, SerialPlan
<1>3. ASSUME NEW h \in Handlers, NEW k \in Events, NEW s \in Sessions, Deliver(h, k, s)
      PROVE  Serial(w)'
  <2>1. Begin(h, k, s) /\ UNCHANGED events /\ k \in Kinds \ {"create"}
    BY <1>3 DEF Deliver, Kinds, Events
  <2>2. \/ AskStripe(h) /\ k = "completed" /\ payment[s] # "none"
        \/ Plan(h, "failed", "release") /\ payment[s] = "pending" /\ k = "expired"
        \/ Plan(h, "none", "paid") /\ payment[s] = "confirmed" /\ k = "completed"
        \/ Plan(h, "refunded", "revoke") /\ s \in intent /\ k = "refunded"
    BY <1>3 DEF Deliver, Nothing, Events
  <2>3. CASE WidgetOf[s] = w
    <3>1. s \in intent => payment[s] # "none"
      BY <2>3 DEF Serial, Recorded, SessionsOf
    <3> QED
      BY <2>1, <2>2, <3>1, SerialPlan
  <2>4. CASE WidgetOf[s] # w
    <3>1. \A g \in Handlers : g # h => Same(g)
      BY <2>1, <2>2 DEF Begin, Plan, AskStripe, Same, TypeOK
    <3> QED
      BY <2>1, <2>4, <3>1, SerialBegin
  <2> QED
    BY <2>3, <2>4
<1>4. ASSUME NEW h \in Handlers, HandlerStep(h) \/ Fail(h) PROVE Serial(w)'
  <2>1. CASE CreateSession(h)
    BY <2>1, SerialSession
  <2>2. CASE Verify(h)
    BY <2>2, SerialVerify
  <2>3. CASE LoadWidget(h)
    BY <2>3, SerialLoad
  <2>4. CASE Commit(h)
    BY <2>4, SerialCommit, SerialElsewhere
  <2>5. CASE VerifyUnpaid(h)
    <3>1. RowsKept(w)
      BY <2>5, RowsQuiet DEF VerifyUnpaid, outside
    <3> QED
      BY <2>5, <3>1, SerialEnd DEF VerifyUnpaid
  <2>6. CASE Fail(h)
    <3>1. RowsKept(w)
      BY <2>6, RowsQuiet DEF Fail, outside
    <3> QED
      BY <2>6, <3>1, SerialEnd DEF Fail
  <2> QED
    BY <1>4, <2>1, <2>2, <2>3, <2>4, <2>5, <2>6 DEF HandlerStep
<1>5. ASSUME RowsKept(w), UNCHANGED handler PROVE Serial(w)'
  <2>1. \A g \in Handlers : Same(g)
    BY <1>5 DEF Same, handler
  <2>2. PICK h : h \notin Handlers
    BY NoSetContainsEverything
  <2> QED
    BY <1>5, <2>1, <2>2, SerialKept
<1>6. ASSUME NEW k \in Events, NEW s \in Sessions, Ignore(k, s) \/ Redeliver(k, s) PROVE Serial(w)'
  BY <1>5, <1>6, RowsQuiet DEF Ignore, Redeliver, Nothing, outside
<1>7. ASSUME NEW s \in Sessions, Pay(s) \/ CompleteUnpaid(s) \/ Expire(s) \/ Refund(s) PROVE Serial(w)'
  <2>1. PICK state \in StripeStates, k \in Events :
          /\ Becomes(s, state, k)
          /\ state # "none"
          /\ stripe[s] \in {"open", "paid"} /\ (stripe[s] = "paid" => state = "refunded")
          /\ state = "refunded" => k = "refunded"
    BY <1>7 DEF Pay, CompleteUnpaid, Expire, Refund, Open, StripeStates, Paid, Events
  <2>2. /\ \A c \in Sessions : stripe'[c] = IF c = s THEN state ELSE stripe[c]
        /\ events' = events \cup {<<k, s>>} /\ UNCHANGED <<rows, handler, late>>
    BY <2>1 DEF Becomes, TypeOK
  <2>3. RowsKept(w)
    BY <2>1, <2>2 DEF RowsKept, SessionsOf, Excused, Paid, rows
  <2> QED
    BY <1>5, <2>2, <2>3
<1>8. CASE UNCHANGED vars
  BY <1>5, <1>8, RowsQuiet DEF vars, outside
<1> QED
  BY <1>1, <1>2, <1>3, <1>4, <1>6, <1>7, <1>8 DEF Next, Webhook

SerialInv == \A w \in Widgets \ crossed : Serial(w)

LEMMA SerialInvStep ==
  ASSUME TypeOK, IdleInv, PaidInv, SerialInv, [Next]_vars PROVE SerialInv'
<1>1. crossed \subseteq crossed'
  <2>1. ASSUME NEW h \in Handlers, NEW s \in Sessions, CreateCheckout(h, s) \/ Reconcile(h, s)
        PROVE  crossed \subseteq crossed'
    BY <2>1 DEF CreateCheckout, Reconcile, Begin
  <2>2. ASSUME NEW h \in Handlers, HandlerStep(h) \/ Fail(h) PROVE crossed' = crossed
    BY <2>2 DEF HandlerStep, CreateSession, Verify, VerifyUnpaid, LoadWidget, Commit, Fail
  <2>3. ASSUME NEW k \in Events, NEW s \in Sessions, Webhook(k, s) \/ Redeliver(k, s)
        PROVE  crossed \subseteq crossed'
    BY <2>3 DEF Webhook, Ignore, Deliver, Begin, Redeliver
  <2>4. ASSUME NEW s \in Sessions, Pay(s) \/ CompleteUnpaid(s) \/ Expire(s) \/ Refund(s)
        PROVE  crossed' = crossed
    BY <2>4 DEF Pay, CompleteUnpaid, Expire, Refund, Becomes
  <2>5. CASE UNCHANGED vars
    BY <2>5 DEF vars
  <2> QED
    BY <2>1, <2>2, <2>3, <2>4, <2>5 DEF Next
<1>2. ASSUME NEW w \in Widgets \ crossed' PROVE Serial(w)'
  BY <1>1, <1>2, SerialStep DEF SerialInv
<1> QED
  BY <1>2 DEF SerialInv

(* Everything that is proved above holds at once.                            *)
LEMMA AllCorrect == Spec => [](PaidInv /\ SerialInv)
<1>1. Init => PaidInv
  BY DEF Init, PaidInv, PaidIsPaidFor, Backed, BackedBy
<1>2. Init => SerialInv
  <2> SUFFICES ASSUME Init, NEW w \in Widgets PROVE Serial(w)
    BY DEF SerialInv
  <2>1. \A h \in Handlers : ~For(h, w)
    BY DEF Init, For
  <2>2. \A s \in SessionsOf(w) : payment[s] = "none" /\ s \notin intent
    BY DEF Init, SessionsOf
  <2>3. entitlement[w] = "preview"
    BY DEF Init
  <2> QED
    BY <2>1, <2>2, <2>3 DEF Serial, Recorded, Agrees
<1> QED
  BY <1>1, <1>2, PaidStep, SerialInvStep, TypeCorrect, IdleCorrect, PTL DEF Spec

(* payments/service.py:301-378: the handlers keep the widget in step with    *)
(* its payments, one after the other: it is "paid" only with a confirmed     *)
(* payment, and a confirmed payment makes it "paid" unless one was refunded. *)
THEOREM RowsAgreeCorrect == Spec => []RowsAgree
<1>1. ASSUME SerialInv PROVE RowsAgree
  <2> SUFFICES ASSUME NEW w \in Widgets \ crossed
               PROVE  /\ entitlement[w] = "paid" => \E s \in SessionsOf(w) : payment[s] = "confirmed"
                      /\ \/ entitlement[w] = "paid"
                         \/ ~\E s \in SessionsOf(w) : payment[s] = "confirmed"
                         \/ \E s \in SessionsOf(w) : payment[s] = "refunded"
    BY DEF RowsAgree
  <2>1. Agrees(w)
    BY <1>1 DEF SerialInv, Serial
  <2> QED
    BY <2>1 DEF Agrees
<1> QED
  BY <1>1, AllCorrect, PTL

(* payments/service.py:484-513: a refund that has been handled takes the     *)
(* widget back, unless other money stands for it or a completed event came   *)
(* after it.                                                                 *)
THEOREM RefundHonouredCorrect == Spec => []RefundHonoured
<1>1. ASSUME SerialInv PROVE RefundHonoured
  <2> SUFFICES ASSUME NEW w \in Widgets \ crossed, entitlement[w] = "paid"
               PROVE  \E s \in SessionsOf(w) : \/ stripe[s] = "paid" \/ s \in late
                                                \/ <<"refunded", s>> \in events
    BY DEF RefundHonoured
  <2>1. PICK s \in SessionsOf(w) : payment[s] = "confirmed"
    BY <1>1 DEF SerialInv, Serial, Agrees
  <2>2. Recorded(s)
    BY <1>1 DEF SerialInv, Serial
  <2> QED
    BY <2>1, <2>2 DEF Recorded, Excused, Paid
<1> QED
  BY <1>1, AllCorrect, PTL
=============================================================================
