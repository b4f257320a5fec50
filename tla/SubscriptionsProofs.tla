------------------------ MODULE SubscriptionsProofs ------------------------
(* Theorems about Subscriptions, for every set of handlers, sessions and     *)
(* plans and every bound on changes, overlaps and faults, and about          *)
(* Allowances, which counts what such a subscription's plan allows.          *)
EXTENDS Billing, Sequences, FiniteSetTheorems, TLAPS

Creating(h) == pc[h] = "loaded" /\ job[h] = "create"

(* What the handlers know of Stripe is so: a webhook is about a session that *)
(* was paid, and a session that is being created is nobody else's.           *)
StripeInv ==
  /\ \A e \in events : stripe[e.on] \in Sold
  /\ \A h \in Handlers : ~Idle(h) => on[h] \in Sessions
  /\ \A h \in Handlers : ~Idle(h) /\ job[h] = "completed" => stripe[on[h]] \in Sold
  /\ \A h \in Handlers : Creating(h) => stripe[on[h]] = "none"
  /\ \A g, h \in Handlers : Creating(g) /\ Creating(h) /\ g # h => on[g] # on[h]

(* The row has a subscription once it entitles, and only a paid one.         *)
RowInv ==
  /\ row.sub # NoSession => stripe[row.sub] \in Sold
  /\ row.status \in Entitling => row.sub # NoSession
  /\ row.status = "free" => row.sub = NoSession

(* What a handler has seen in the row does not go away again: a row that is  *)
(* there stays, and so does its subscription.                                *)
SeenInv ==
  \A h \in Handlers :
    /\ seen[h].sub # NoSession => row.sub # NoSession
    /\ seen[h].status # "free" => row.status # "free"

(* What a handler is about to write.                                         *)
NewInv ==
  \A h \in Handlers :
    pc[h] = "ready" =>
      /\ new[h].sub # seen[h].sub =>
           /\ new[h].sub \in Sessions /\ stripe[new[h].sub] \in Sold
           /\ new[h].status \in Sold
      /\ new[h].status \in Entitling /\ new[h].status # seen[h].status
           => new[h].sub # NoSession
      /\ new[h].status = "free" => seen[h].status = "free"
      /\ job[h] = "create" =>
           new[h].status = "checkout_pending" /\ new[h].sub = seen[h].sub

IInv == TypeOK /\ StripeInv /\ RowInv /\ SeenInv /\ NewInv

----------------------------------------------------------------------------
(* What the steps are made of.                                               *)

LEMMA NoRowType == NoRow \in Rows /\ NoRow.status = "free" /\ NoRow.sub = NoSession
BY PlansAssumption DEF NoRow, Rows, Statuses, SomeSession

(* Each column of the merged row is the handler's if it has changed it, and  *)
(* the row's own otherwise.                                                  *)
LEMMA MergedRow ==
  ASSUME TypeOK, NEW h \in Handlers
  PROVE  /\ Merged(h) \in Rows
         /\ Merged(h).sub = IF new[h].sub = seen[h].sub THEN row.sub ELSE new[h].sub
         /\ Merged(h).status =
              IF new[h].status = seen[h].status THEN row.status ELSE new[h].status
<1>1. row \in Rows /\ new[h] \in Rows /\ seen[h] \in Rows
  BY DEF TypeOK
<1>2. DOMAIN row = {"plan", "status", "session", "sub"}
  BY <1>1 DEF Rows
<1>3. Merged(h) = [f \in {"plan", "status", "session", "sub"} |->
                     IF new[h][f] = seen[h][f] THEN row[f] ELSE new[h][f]]
  BY <1>2 DEF Merged
<1>4. Merged(h) = [plan    |-> IF new[h].plan = seen[h].plan THEN row.plan ELSE new[h].plan,
                   status  |-> IF new[h].status = seen[h].status
                               THEN row.status ELSE new[h].status,
                   session |-> IF new[h].session = seen[h].session
                               THEN row.session ELSE new[h].session,
                   sub     |-> IF new[h].sub = seen[h].sub THEN row.sub ELSE new[h].sub]
  BY <1>3
<1>. QED
  BY <1>1, <1>4 DEF Rows

LEMMA EndTypes ==
  ASSUME TypeOK, NEW h \in Handlers, End(h)
  PROVE  /\ pc' \in [Handlers -> PCs] /\ job' \in [Handlers -> Jobs]
         /\ event' \in [Handlers -> SUBSET Events] /\ on' \in [Handlers -> SomeSession]
         /\ seen' \in [Handlers -> Rows] /\ new' \in [Handlers -> Rows]
BY NoRowType DEF TypeOK, End, PCs, Jobs, SomeSession

LEMMA LoadTypes ==
  ASSUME TypeOK, NEW h \in Handlers, NEW work \in Jobs, NEW webhook \in SUBSET Events,
         NEW s \in SomeSession, Load(h, work, webhook, s)
  PROVE  /\ job' \in [Handlers -> Jobs]
         /\ event' \in [Handlers -> SUBSET Events] /\ on' \in [Handlers -> SomeSession]
         /\ seen' \in [Handlers -> Rows] /\ overlaps' \in 0 .. MaxOverlaps
BY BoundsAssumption DEF TypeOK, Load, Overlap

LEMMA AnsweredTypes ==
  ASSUME TypeOK, NEW e \in Events, Answered(e)
  PROVE  newest' \in [Sessions -> 0 .. MaxChanges] /\ stale' \in BOOLEAN
BY DEF TypeOK, Answered, Events

LEMMA ReadyTypes ==
  ASSUME TypeOK, NEW h \in Handlers, NEW result \in Rows, Ready(h, result)
  PROVE  pc' \in [Handlers -> PCs] /\ new' \in [Handlers -> Rows]
BY DEF TypeOK, Ready, PCs

(* One step keeps the types.                                                 *)
LEMMA TypeStep == ASSUME IInv, [Next]_vars PROVE TypeOK'
<1> USE DEF IInv, outside, handler, history
<1>0. TypeOK
  OBVIOUS
<1>1. ASSUME NEW h \in Handlers, NEW s \in Sessions, Create(h, s) PROVE TypeOK'
  <2>1. Load(h, "create", {}, s) /\ pc' = [pc EXCEPT ![h] = "loaded"]
    BY <1>1 DEF Create
  <2>2. "create" \in Jobs /\ "loaded" \in PCs /\ s \in SomeSession
    BY DEF Jobs, PCs, SomeSession
  <2>. QED
    BY <1>0, <1>1, <2>1, <2>2, LoadTypes DEF Create, TypeOK
<1>2. ASSUME NEW h \in Handlers, Opened(h) PROVE TypeOK'
  <2>1. on[h] \in Sessions
    BY <1>2 DEF Opened, StripeInv, Idle
  <2>2. [seen[h] EXCEPT !.plan = PlanOf[on[h]], !.status = "checkout_pending",
                        !.session = on[h]] \in Rows
    BY <2>1, PlanOfAssumption DEF TypeOK, Rows, Statuses, SomeSession
  <2>3. stripe' \in [Sessions -> StripeStates]
    BY <1>2, <2>1 DEF Opened, TypeOK, StripeStates
  <2>. QED
    BY <1>0, <1>2, <2>2, <2>3, ReadyTypes DEF Opened, TypeOK
<1>3. ASSUME NEW h \in Handlers, CreateCommit(h) PROVE TypeOK'
  <2>1. row' \in Rows
    BY <1>0, <1>3, MergedRow DEF CreateCommit, TypeOK
  <2>. QED
    BY <1>0, <1>3, <2>1, EndTypes DEF CreateCommit, TypeOK
<1>4. ASSUME NEW h \in Handlers, CreateRefused(h) \/ ReconcileMoved(h) PROVE TypeOK'
  BY <1>0, <1>4, EndTypes DEF CreateRefused, ReconcileMoved, TypeOK
<1>5. ASSUME NEW e \in events, Unknown(e) PROVE TypeOK'
  BY <1>0, <1>5, AnsweredTypes, BoundsAssumption DEF Unknown, Overlap, TypeOK
<1>6. ASSUME NEW h \in Handlers, NEW e \in events, Completed(h, e) PROVE TypeOK'
  <2>1. Load(h, "completed", {e}, e.on) /\ pc' = [pc EXCEPT ![h] = "loaded"]
    BY <1>6 DEF Completed
  <2>2. /\ "completed" \in Jobs /\ "loaded" \in PCs
        /\ {e} \in SUBSET Events /\ e.on \in SomeSession
    BY DEF Jobs, PCs, SomeSession, TypeOK, Events
  <2>. QED
    BY <1>0, <1>6, <2>1, <2>2, LoadTypes DEF Completed, TypeOK
<1>7. ASSUME NEW h \in Handlers, SoldNow(h) \in Rows, Ready(h, SoldNow(h)),
             UNCHANGED <<outside, events, row, job, event, on, seen, faults, history>>
      PROVE  TypeOK'
  BY <1>0, <1>7, ReadyTypes DEF TypeOK
<1>8. ASSUME NEW h \in Handlers, on[h] \in Sessions, stripe[on[h]] \in Sold
      PROVE  SoldNow(h) \in Rows
  BY <1>8 DEF SoldNow, TypeOK, Rows, Statuses, SomeSession
<1>9. ASSUME NEW h \in Handlers, CompletedAsk(h) PROVE TypeOK'
  <2>1. on[h] \in Sessions /\ stripe[on[h]] \in Sold
    BY <1>9 DEF CompletedAsk, StripeInv, Idle
  <2>. QED
    BY <1>7, <1>8, <1>9, <2>1 DEF CompletedAsk
<1>10. ASSUME NEW h \in Handlers, NEW e \in events, Changed(h, e) PROVE TypeOK'
  <2>1. Load(h, "changed", {e}, e.on)
    BY <1>10 DEF Changed
  <2>2. "changed" \in Jobs /\ {e} \in SUBSET Events /\ e.on \in SomeSession
    BY DEF Jobs, SomeSession, TypeOK, Events
  <2>3. [row EXCEPT !.status = e.status] \in Rows
    BY DEF TypeOK, Rows, Statuses, Events
  <2>. QED
    BY <1>0, <1>10, <2>1, <2>2, <2>3, LoadTypes, ReadyTypes DEF Changed, TypeOK
<1>11. ASSUME NEW h \in Handlers, WebhookCommit(h) PROVE TypeOK'
  <2>1. row' \in Rows
    BY <1>0, <1>11, MergedRow DEF WebhookCommit
  <2>2. PICK e \in event[h] : Answered(e)
    BY <1>11 DEF WebhookCommit
  <2>3. e \in Events
    BY <2>2 DEF TypeOK
  <2>4. events' \subseteq Events /\ faults' \in 0 .. MaxFaults
    BY <1>11, BoundsAssumption DEF WebhookCommit, Fault, TypeOK
  <2>. QED
    BY <1>0, <1>11, <2>1, <2>2, <2>3, <2>4, EndTypes, AnsweredTypes DEF WebhookCommit, TypeOK
<1>12. ASSUME NEW h \in Handlers, Reconcile(h) PROVE TypeOK'
  <2>1. Load(h, "reconcile", {}, row.session) /\ pc' = [pc EXCEPT ![h] = "loaded"]
    BY <1>12 DEF Reconcile
  <2>2. "reconcile" \in Jobs /\ "loaded" \in PCs /\ row.session \in SomeSession
    BY DEF Jobs, PCs, TypeOK, Rows
  <2>. QED
    BY <1>0, <1>12, <2>1, <2>2, LoadTypes DEF Reconcile, TypeOK
<1>13. ASSUME NEW h \in Handlers, ReconcilePaid(h) PROVE TypeOK'
  <2>1. on[h] \in Sessions /\ stripe[on[h]] \in Sold
    BY <1>13 DEF ReconcilePaid, StripeInv, Idle
  <2>. QED
    BY <1>7, <1>8, <1>13, <2>1 DEF ReconcilePaid
<1>14. ASSUME NEW h \in Handlers, ReconcileUnpaid(h) PROVE TypeOK'
  <2>1. (IF seen[h].status = "checkout_pending"
         THEN [seen[h] EXCEPT !.status = "canceled"] ELSE seen[h]) \in Rows
    BY DEF TypeOK, Rows, Statuses, Sold
  <2>. QED
    BY <1>0, <1>14, <2>1, ReadyTypes DEF ReconcileUnpaid, TypeOK
<1>15. ASSUME NEW h \in Handlers, ReconcileCommit(h) PROVE TypeOK'
  BY <1>0, <1>15, MergedRow, EndTypes DEF ReconcileCommit, TypeOK
<1>16. ASSUME NEW h \in Handlers, Fails(h) PROVE TypeOK'
  BY <1>0, <1>16, EndTypes, BoundsAssumption DEF Fails, Fault, TypeOK
<1>17. ASSUME NEW s \in Sessions, Pay(s) PROVE TypeOK'
  <2>1. [kind |-> "completed", on |-> s, status |-> "active", no |-> 0] \in Events
    BY BoundsAssumption DEF Events, Sold
  <2>2. stripe' \in [Sessions -> StripeStates]
    BY <1>17 DEF Pay, TypeOK, StripeStates, Sold
  <2>. QED
    BY <1>17, <2>1, <2>2 DEF Pay, TypeOK
<1>18. ASSUME NEW s \in Sessions, NEW told \in Sold, Change(s, told) PROVE TypeOK'
  <2>1. changes' \in 0 .. MaxChanges
    BY <1>18, BoundsAssumption DEF Change, TypeOK
  <2>2. [kind |-> "changed", on |-> s, status |-> told, no |-> changes'] \in Events
    BY <2>1 DEF Events
  <2>3. stripe' \in [Sessions -> StripeStates]
    BY <1>18 DEF Change, TypeOK, StripeStates
  <2>. QED
    BY <1>18, <2>1, <2>2, <2>3 DEF Change, TypeOK
<1>19. CASE UNCHANGED vars
  BY <1>19 DEF vars, TypeOK
<1>. QED
  BY <1>1, <1>2, <1>3, <1>4, <1>5, <1>6, <1>9, <1>10, <1>11, <1>12, <1>13, <1>14, <1>15,
     <1>16, <1>17, <1>18, <1>19
  DEF Next, Handle, Webhook, Stripe

----------------------------------------------------------------------------
(* The steps by their shape: what is left to show of each action is what it  *)
(* makes of the row.                                                         *)

(* A handler that ends, when the row loses nothing: the others keep what     *)
(* they have.                                                                *)
LEMMA EndKeeps ==
  ASSUME IInv, NEW h \in Handlers, End(h), UNCHANGED stripe, events' \subseteq events,
         row'.sub = NoSession => row.sub = NoSession,
         row'.status = "free" => row.status = "free"
  PROVE  StripeInv' /\ SeenInv' /\ NewInv'
<1> USE DEF IInv
<1>1. /\ pc' = [pc EXCEPT ![h] = "idle"]
      /\ job' = [job EXCEPT ![h] = "none"]
      /\ on' = [on EXCEPT ![h] = NoSession]
      /\ seen' = [seen EXCEPT ![h] = NoRow]
      /\ new' = [new EXCEPT ![h] = NoRow]
  BY DEF End
<1>2. pc \in [Handlers -> PCs] /\ job \in [Handlers -> Jobs] /\ on \in [Handlers -> SomeSession]
      /\ seen \in [Handlers -> Rows] /\ new \in [Handlers -> Rows]
  BY DEF TypeOK
<1>3. StripeInv'
  BY <1>1, <1>2 DEF StripeInv, Idle, Creating
<1>4. SeenInv'
  BY <1>1, <1>2, NoRowType DEF SeenInv
<1>5. NewInv'
  BY <1>1, <1>2 DEF NewInv
<1>. QED
  BY <1>3, <1>4, <1>5

(* A handler that loads the row, and is about a session that is its own to   *)
(* create or, for a completed checkout, sold.                                *)
LEMMA LoadKeeps ==
  ASSUME IInv, NEW h \in Handlers, NEW work \in Jobs, NEW webhook, NEW s \in Sessions,
         Load(h, work, webhook, s), pc' = [pc EXCEPT ![h] = "loaded"],
         UNCHANGED <<stripe, events, row, new>>,
         work = "completed" => stripe[s] \in Sold,
         work = "create" => stripe[s] = "none" /\ \A g \in Handlers : on[g] # s
  PROVE  StripeInv' /\ RowInv' /\ SeenInv' /\ NewInv'
<1> USE DEF IInv
<1>1. /\ job' = [job EXCEPT ![h] = work]
      /\ on' = [on EXCEPT ![h] = s]
      /\ seen' = [seen EXCEPT ![h] = row]
  BY DEF Load
<1>2. pc \in [Handlers -> PCs] /\ job \in [Handlers -> Jobs] /\ on \in [Handlers -> SomeSession]
      /\ seen \in [Handlers -> Rows]
  BY DEF TypeOK
<1>3. StripeInv'
  <2>1. \A g \in Handlers : Creating(g)' => IF g = h THEN work = "create" ELSE Creating(g)
    BY <1>1, <1>2 DEF Creating
  <2>. QED
    BY <1>1, <1>2, <2>1 DEF StripeInv, Idle, Creating
<1>4. RowInv' /\ SeenInv'
  BY <1>1, <1>2 DEF RowInv, SeenInv
<1>5. NewInv'
  BY <1>1, <1>2 DEF NewInv
<1>. QED
  BY <1>3, <1>4, <1>5

(* A handler that has made up its mind.                                      *)
LEMMA ReadyKeeps ==
  ASSUME IInv, NEW h \in Handlers, NEW result \in Rows, Ready(h, result),
         pc[h] = "loaded", UNCHANGED <<stripe, events, row, job, on, seen>>,
         result.sub # seen[h].sub =>
           result.sub \in Sessions /\ stripe[result.sub] \in Sold /\ result.status \in Sold,
         result.status \in Entitling /\ result.status # seen[h].status
           => result.sub # NoSession,
         result.status = "free" => seen[h].status = "free",
         job[h] # "create"
  PROVE  StripeInv' /\ RowInv' /\ SeenInv' /\ NewInv'
<1> USE DEF IInv
<1>1. pc' = [pc EXCEPT ![h] = "ready"] /\ new' = [new EXCEPT ![h] = result]
  BY DEF Ready
<1>2. pc \in [Handlers -> PCs] /\ new \in [Handlers -> Rows]
  BY DEF TypeOK
<1>3. StripeInv'
  BY <1>1, <1>2 DEF StripeInv, Idle, Creating
<1>4. RowInv' /\ SeenInv'
  BY DEF RowInv, SeenInv
<1>5. NewInv'
  BY <1>1, <1>2 DEF NewInv
<1>. QED
  BY <1>3, <1>4, <1>5

(* The subscription that a sold session has become.                          *)
LEMMA SoldNowRow ==
  ASSUME TypeOK, NEW h \in Handlers, on[h] \in Sessions, stripe[on[h]] \in Sold
  PROVE  /\ SoldNow(h) \in Rows
         /\ SoldNow(h).sub = on[h]
         /\ SoldNow(h).status = stripe[on[h]]
<1>1. seen[h] \in Rows
  BY DEF TypeOK
<1>. QED
  BY <1>1 DEF SoldNow, Rows, Statuses, SomeSession

(* The columns that a handler writes over the row keep the row's invariant,  *)
(* whatever has changed in the row since the handler has loaded it.          *)
LEMMA MergedKeeps ==
  ASSUME IInv, NEW h \in Handlers, pc[h] = "ready", row' = Merged(h), UNCHANGED stripe
  PROVE  /\ RowInv'
         /\ row'.sub = NoSession => row.sub = NoSession
         /\ row'.status = "free" => row.status = "free"
<1>1. /\ row'.sub = IF new[h].sub = seen[h].sub THEN row.sub ELSE new[h].sub
      /\ row'.status = IF new[h].status = seen[h].status THEN row.status ELSE new[h].status
  BY MergedRow DEF IInv
<1>2. /\ new[h].sub # seen[h].sub =>
           /\ new[h].sub \in Sessions /\ stripe[new[h].sub] \in Sold
           /\ new[h].status \in Sold
      /\ new[h].status \in Entitling /\ new[h].status # seen[h].status
           => new[h].sub # NoSession
      /\ new[h].status = "free" => seen[h].status = "free"
  BY DEF IInv, NewInv
<1>3. /\ seen[h].sub # NoSession => row.sub # NoSession
      /\ seen[h].status # "free" => row.status # "free"
  BY DEF IInv, SeenInv
<1>4. /\ row.sub # NoSession => stripe[row.sub] \in Sold
      /\ row.status \in Entitling => row.sub # NoSession
      /\ row.status = "free" => row.sub = NoSession
  BY DEF IInv, RowInv
<1>5. row'.sub # NoSession => stripe[row'.sub] \in Sold
  BY <1>1, <1>2, <1>4
<1>6. row'.sub = NoSession => row.sub = NoSession
  BY <1>1, <1>2, NoSessionAssumption
<1>7. row'.status \in Entitling => row'.sub # NoSession
  BY <1>1, <1>2, <1>3, <1>4, <1>6
<1>8. row'.status = "free" => row.status = "free" /\ row'.sub = NoSession
  BY <1>1, <1>2, <1>3, <1>4 DEF Sold
<1>. QED
  BY <1>5, <1>6, <1>7, <1>8 DEF RowInv

(* Stripe changes a session or a subscription, and sends a webhook.          *)
LEMMA StripeKeeps ==
  ASSUME IInv, NEW s \in Sessions, NEW e, NEW told \in Sold, stripe[s] # "none",
         stripe' = [stripe EXCEPT ![s] = told],
         e.on = s, events' = events \cup {e}, UNCHANGED <<row, handler>>
  PROVE  StripeInv' /\ RowInv' /\ SeenInv' /\ NewInv'
<1> USE DEF IInv, handler
<1>1. stripe \in [Sessions -> StripeStates] /\ events \subseteq Events
      /\ on \in [Handlers -> SomeSession] /\ row \in Rows
  BY DEF TypeOK
<1>2. \A t \in Sessions : stripe'[t] = IF t = s THEN told ELSE stripe[t]
  BY <1>1
<1>3. \A t \in Sessions : stripe[t] \in Sold => stripe'[t] \in Sold
  BY <1>2
<1>4. \A h \in Handlers : Creating(h) => on[h] \in Sessions /\ stripe[on[h]] = "none"
  BY DEF StripeInv, Creating, Idle
<1>5. \A h \in Handlers : Creating(h)' = Creating(h)
  BY DEF Creating
<1>6. StripeInv'
  <2>1. \A d \in events' : stripe'[d.on] \in Sold
    BY <1>1, <1>2, <1>3 DEF StripeInv, Events
  <2>2. \A h \in Handlers : Creating(h)' => stripe'[on[h]] = "none"
    BY <1>2, <1>4, <1>5
  <2>. QED
    BY <1>3, <1>5, <2>1, <2>2 DEF StripeInv, Idle
<1>7. RowInv'
  BY <1>1, <1>3, NoSessionAssumption DEF RowInv, Rows, SomeSession
<1>8. SeenInv' /\ NewInv'
  BY <1>3 DEF SeenInv, NewInv
<1>. QED
  BY <1>6, <1>7, <1>8

----------------------------------------------------------------------------
(* One step keeps the invariant.                                             *)
LEMMA InvStep == ASSUME IInv, [Next]_vars PROVE IInv'
<1> DEFINE Kept == StripeInv' /\ RowInv' /\ SeenInv' /\ NewInv'
<1> USE DEF IInv, outside, history
<1>1. ASSUME NEW h \in Handlers, NEW s \in Sessions, Create(h, s) PROVE Kept
  BY <1>1, LoadKeeps DEF Create, Jobs
<1>2. ASSUME NEW h \in Handlers, Opened(h) PROVE Kept
  <2>1. PICK s \in Sessions : s = on[h] /\ stripe[s] = "none"
    BY <1>2 DEF Opened, StripeInv, Idle, Creating
  <2>2. PICK result :
          result = [seen[h] EXCEPT !.plan = PlanOf[on[h]], !.status = "checkout_pending",
                                   !.session = on[h]]
    OBVIOUS
  <2>3. result \in Rows /\ result.status = "checkout_pending" /\ result.sub = seen[h].sub
    <3>1. seen[h] \in Rows
      BY DEF TypeOK
    <3>. QED
      BY <2>1, <2>2, <3>1, PlanOfAssumption DEF Rows, Statuses, SomeSession
  <2>4. /\ pc' = [pc EXCEPT ![h] = "ready"] /\ new' = [new EXCEPT ![h] = result]
        /\ stripe' = [stripe EXCEPT ![s] = "open"]
    BY <1>2, <2>1, <2>2 DEF Opened, Ready
  <2>5. pc[h] = "loaded" /\ job[h] = "create" /\ UNCHANGED <<events, row, job, on, seen>>
    BY <1>2 DEF Opened
  <2>6. /\ stripe \in [Sessions -> StripeStates] /\ pc \in [Handlers -> PCs]
        /\ new \in [Handlers -> Rows] /\ row \in Rows /\ events \subseteq Events
    BY DEF TypeOK
  <2>7. \A t \in Sessions : stripe[t] \in Sold => stripe'[t] \in Sold
    BY <2>1, <2>4, <2>6 DEF Sold
  <2>8. \A g \in Handlers : Creating(g)' => Creating(g) /\ g # h
    BY <2>4, <2>5, <2>6 DEF Creating, PCs
  <2>9. StripeInv'
    <3>1. \A g \in Handlers : Creating(g)' => on[g] # s /\ on[g] \in Sessions
      BY <2>1, <2>5, <2>8 DEF StripeInv, Creating, Idle
    <3>2. \A g \in Handlers : Creating(g)' => stripe'[on[g]] = "none"
      BY <2>4, <2>6, <2>8, <3>1 DEF StripeInv
    <3>3. \A d \in events : stripe'[d.on] \in Sold
      BY <2>6, <2>7 DEF StripeInv, Events
    <3>4. \A g \in Handlers : ~Idle(g)' => ~Idle(g)
      BY <2>4, <2>5, <2>6 DEF Idle
    <3>. QED
      BY <2>5, <2>7, <2>8, <3>2, <3>3, <3>4 DEF StripeInv
  <2>10. RowInv'
    BY <2>5, <2>6, <2>7, NoSessionAssumption DEF RowInv, Rows, SomeSession
  <2>11. SeenInv'
    BY <2>5 DEF SeenInv
  <2>12. NewInv'
    BY <2>3, <2>4, <2>5, <2>6, <2>7 DEF NewInv, Entitling, Sold
  <2>. QED
    BY <2>9, <2>10, <2>11, <2>12
<1>3. ASSUME NEW h \in Handlers, CreateCommit(h) PROVE Kept
  <2>1. /\ pc[h] = "ready" /\ job[h] = "create" /\ End(h)
        /\ UNCHANGED <<stripe, events>> /\ ~Duplicate(h)
    BY <1>3 DEF CreateCommit
  <2>2. new[h].status = "checkout_pending" /\ new[h].sub = seen[h].sub
    BY <2>1 DEF NewInv
  <2>3. CASE seen[h].status = "free"
    <3>1. row' = new[h] /\ row.sub = NoSession
      BY <1>3, <2>1, <2>3 DEF CreateCommit, Duplicate, RowInv
    <3>2. row'.sub = NoSession /\ row'.status = "checkout_pending"
      BY <2>2, <3>1 DEF SeenInv
    <3>3. RowInv'
      BY <3>2 DEF RowInv, Entitling
    <3>. QED
      BY <2>1, <3>1, <3>2, <3>3, EndKeeps
  <2>4. CASE seen[h].status # "free"
    BY <1>3, <2>1, <2>4, MergedKeeps, EndKeeps DEF CreateCommit
  <2>. QED
    BY <2>3, <2>4
<1>4. ASSUME NEW h \in Handlers, CreateRefused(h) \/ ReconcileMoved(h) \/ Fails(h) PROVE Kept
  <2>1. End(h) /\ UNCHANGED <<stripe, events, row>>
    BY <1>4 DEF CreateRefused, ReconcileMoved, Fails
  <2>2. RowInv'
    BY <2>1 DEF RowInv
  <2>. QED
    BY <2>1, <2>2, EndKeeps
<1>5. ASSUME NEW e \in events, Unknown(e) PROVE Kept
  BY <1>5 DEF Unknown, handler, StripeInv, RowInv, SeenInv, NewInv, Idle, Creating
<1>6. ASSUME NEW h \in Handlers, NEW e \in events, Completed(h, e) PROVE Kept
  <2>1. e.on \in Sessions /\ stripe[e.on] \in Sold
    BY DEF TypeOK, Events, StripeInv
  <2>. QED
    BY <1>6, <2>1, LoadKeeps DEF Completed, Jobs
<1>7. ASSUME NEW h \in Handlers, CompletedAsk(h) \/ ReconcilePaid(h) PROVE Kept
  <2>1. on[h] \in Sessions /\ stripe[on[h]] \in Sold
    BY <1>7 DEF CompletedAsk, ReconcilePaid, StripeInv, Idle
  <2>2. /\ pc[h] = "loaded" /\ job[h] # "create" /\ Ready(h, SoldNow(h))
        /\ UNCHANGED <<stripe, events, row, job, on, seen>>
    BY <1>7 DEF CompletedAsk, ReconcilePaid
  <2>. QED
    BY <2>1, <2>2, SoldNowRow, ReadyKeeps, NoSessionAssumption DEF Sold
<1>8. ASSUME NEW h \in Handlers, NEW e \in events, Changed(h, e) PROVE Kept
  <2>1. /\ Load(h, "changed", {e}, e.on) /\ Ready(h, [row EXCEPT !.status = e.status])
        /\ row.sub = e.on /\ Idle(h) /\ UNCHANGED <<stripe, events, row>>
    BY <1>8 DEF Changed, Load, Found
  <2>2. e.on \in Sessions /\ e.status \in Sold
    BY DEF TypeOK, Events
  <2>3. PICK result : result = [row EXCEPT !.status = e.status]
    OBVIOUS
  <2>4. result \in Rows /\ result.sub = row.sub /\ result.status = e.status
    <3>1. row \in Rows
      BY DEF TypeOK
    <3>. QED
      BY <2>2, <2>3, <3>1 DEF Rows, Statuses
  <2>5. /\ pc' = [pc EXCEPT ![h] = "ready"] /\ new' = [new EXCEPT ![h] = result]
        /\ job' = [job EXCEPT ![h] = "changed"] /\ on' = [on EXCEPT ![h] = e.on]
        /\ seen' = [seen EXCEPT ![h] = row]
    BY <2>1, <2>3 DEF Load, Ready
  <2>6. /\ pc \in [Handlers -> PCs] /\ job \in [Handlers -> Jobs] /\ new \in [Handlers -> Rows]
        /\ on \in [Handlers -> SomeSession] /\ seen \in [Handlers -> Rows]
    BY DEF TypeOK
  <2>7. StripeInv'
    <3>1. \A g \in Handlers : Creating(g)' => Creating(g) /\ g # h
      BY <2>5, <2>6 DEF Creating
    <3>. QED
      BY <2>1, <2>2, <2>5, <2>6, <3>1 DEF StripeInv, Idle
  <2>8. RowInv' /\ SeenInv'
    BY <2>1, <2>5, <2>6 DEF RowInv, SeenInv
  <2>9. NewInv'
    BY <2>1, <2>2, <2>5, <2>6, <2>4, NoSessionAssumption DEF NewInv, Sold
  <2>. QED
    BY <2>7, <2>8, <2>9
<1>9. ASSUME NEW h \in Handlers, WebhookCommit(h) \/ ReconcileCommit(h) PROVE Kept
  <2>1. /\ pc[h] = "ready" /\ row' = Merged(h) /\ End(h)
        /\ UNCHANGED stripe /\ events' \subseteq events
    BY <1>9 DEF WebhookCommit, ReconcileCommit
  <2>. QED
    BY <2>1, MergedKeeps, EndKeeps
<1>10. ASSUME NEW h \in Handlers, Reconcile(h) PROVE Kept
  <2>1. row.session \in Sessions
    BY <1>10 DEF Reconcile, TypeOK, Rows, SomeSession
  <2>. QED
    BY <1>10, <2>1, LoadKeeps DEF Reconcile, Jobs
<1>11. ASSUME NEW h \in Handlers, ReconcileUnpaid(h) PROVE Kept
  <2>1. PICK result : result = IF seen[h].status = "checkout_pending"
                              THEN [seen[h] EXCEPT !.status = "canceled"] ELSE seen[h]
    OBVIOUS
  <2>2. /\ result \in Rows /\ result.sub = seen[h].sub
        /\ result.status \in {"canceled", seen[h].status}
    <3>1. seen[h] \in Rows
      BY DEF TypeOK
    <3>. QED
      BY <2>1, <3>1 DEF Rows, Statuses, Sold
  <2>3. /\ pc[h] = "loaded" /\ job[h] # "create" /\ Ready(h, result)
        /\ UNCHANGED <<stripe, events, row, job, on, seen>>
    BY <1>11, <2>1 DEF ReconcileUnpaid
  <2>. QED
    BY <2>3, <2>2, ReadyKeeps DEF Entitling
<1>12. ASSUME NEW s \in Sessions, Pay(s) PROVE Kept
  <2>1. PICK e : e = [kind |-> "completed", on |-> s, status |-> "active", no |-> 0]
    OBVIOUS
  <2>. QED
    BY <1>12, <2>1, StripeKeeps DEF Pay, Sold
<1>13. ASSUME NEW s \in Sessions, NEW told \in Sold, Change(s, told) PROVE Kept
  <2>1. PICK e : e = [kind |-> "changed", on |-> s, status |-> told, no |-> changes']
    OBVIOUS
  <2>. QED
    BY <1>13, <2>1, StripeKeeps DEF Change, Entitling
<1>14. ASSUME UNCHANGED vars PROVE Kept
  <2>1. UNCHANGED <<stripe, events, row, pc, job, on, seen, new>>
    BY <1>14 DEF vars, handler
  <2>. QED
    BY <2>1 DEF StripeInv, RowInv, SeenInv, NewInv, Idle, Creating
<1>15. Kept
  BY <1>1, <1>2, <1>3, <1>4, <1>5, <1>6, <1>7, <1>8, <1>9, <1>10, <1>11, <1>12, <1>13, <1>14
  DEF Next, Handle, Webhook, Stripe
<1>. QED
  BY <1>15, TypeStep

LEMMA InvInit == Init => IInv
<1> SUFFICES ASSUME Init PROVE IInv
  OBVIOUS
<1>1. TypeOK
  <2>1. 0 \in 0 .. MaxChanges /\ 0 \in 0 .. MaxOverlaps /\ 0 \in 0 .. MaxFaults
    BY BoundsAssumption
  <2>. QED
    BY <2>1, NoRowType DEF Init, TypeOK, StripeStates, PCs, Jobs, SomeSession
<1>. QED
  BY <1>1, NoRowType
  DEF Init, IInv, StripeInv, RowInv, SeenInv, NewInv, Idle, Creating, Entitling

LEMMA Invariance == Spec => []IInv
BY InvInit, InvStep, PTL DEF Spec

(* The columns of the row and of what the handlers hold keep their types: no *)
(* status outside the CHECK constraint of subscriptions is ever written.     *)
THEOREM TypeCorrect == Spec => []TypeOK
<1>1. IInv => TypeOK
  BY DEF IInv
<1>. QED
  BY <1>1, Invariance, PTL

(* Whatever overlaps, fails or comes late, and however often a webhook is    *)
(* sent: a workspace is entitled only with a subscription that was paid.     *)
THEOREM EntitlementPaid == Spec => []EntitledOncePaid
<1>1. IInv => EntitledOncePaid
  BY DEF IInv, RowInv, TypeOK, Rows, SomeSession, EntitledOncePaid
<1>. QED
  BY <1>1, Invariance, PTL

----------------------------------------------------------------------------
(* RowAgrees: while no requests overlap, a handler knows the row as it is,   *)
(* and what the row says of the subscription is so, or the change it has     *)
(* missed is still to come.                                                  *)

(* The newest change of a subscription is known by a webhook that is still   *)
(* to be answered, or is newer than each of those.                           *)
ChangedOn(s) == {e \in events : e.kind = "changed" /\ e.on = s}
Current(s) ==
  \E e \in ChangedOn(s) :
    /\ e.status = stripe[s] /\ newest[s] <= e.no
    /\ \A d \in ChangedOn(s) : d.no <= e.no
Outrun(s) == \A d \in ChangedOn(s) : d.no < newest[s]

ChangesInv ==
  /\ \A s \in Sessions : Current(s) \/ Outrun(s)
  /\ \A s \in Sessions : newest[s] <= changes
  /\ \A e \in events : e.no <= changes
  /\ \A d, e \in events : d.kind = "changed" /\ e.kind = "changed" /\ d.no = e.no => d = e

(* So it is at Stripe, or a webhook will say how it is.                      *)
So(told, s) == stripe[s] = told \/ Current(s)

(* The row that sells the subscription of session `s`.                       *)
Sells(result, seenRow, s) ==
  /\ result = [seenRow EXCEPT !.sub = s, !.status = result.status]
  /\ stripe[s] \in Sold /\ So(result.status, s)

(* A handler that is alone knows the row, its own webhook, and its session;  *)
(* what it will write is the row with the columns that are its business.     *)
Knows(h) ==
  /\ seen[h] = row
  /\ job[h] \in {"create", "completed", "changed", "reconcile"}
  /\ job[h] = "create" =>
       /\ row.sub # on[h]
       /\ pc[h] = "ready" =>
            new[h] = [row EXCEPT !.plan = PlanOf[on[h]], !.status = "checkout_pending",
                                 !.session = on[h]]
  /\ job[h] = "completed" =>
       /\ row.session = on[h]
       /\ \E e \in events : event[h] = {e} /\ e.kind = "completed"
       /\ pc[h] = "ready" => Sells(new[h], row, on[h])
  /\ job[h] = "changed" =>
       /\ pc[h] = "ready"
       /\ \E e \in events : /\ event[h] = {e} /\ e.kind = "changed" /\ row.sub = e.on
                            /\ new[h] = [row EXCEPT !.status = e.status]
  /\ job[h] = "reconcile" =>
       /\ row.session = on[h]
       /\ pc[h] = "ready" =>
            \/ Sells(new[h], row, on[h])
            \/ row.sub # on[h] /\ new[h] = [row EXCEPT !.status = new[h].status]

AloneInv ==
  /\ \A g, h \in Handlers : ~Idle(g) /\ ~Idle(h) => g = h
  /\ \A h \in Handlers : ~Idle(h) => Knows(h)

PlanInv ==
  ~reopened =>
    /\ row.session # NoSession => row.plan = PlanOf[row.session]
    /\ row.sub # NoSession => row.sub = row.session

StatusInv == Settled /\ ~stale => So(row.status, row.sub)

AgreeInv == overlaps = 0 => ChangesInv /\ AloneInv /\ PlanInv /\ StatusInv

(* A handler that is alone writes the row as it wants it.                    *)
LEMMA MergedAlone ==
  ASSUME TypeOK, NEW h \in Handlers, seen[h] = row PROVE Merged(h) = new[h]
<1>1. row \in Rows /\ new[h] \in Rows
  BY DEF TypeOK
<1>2. DOMAIN row = {"plan", "status", "session", "sub"}
  BY <1>1 DEF Rows
<1>3. Merged(h) = [f \in {"plan", "status", "session", "sub"} |->
                     IF new[h][f] = row[f] THEN row[f] ELSE new[h][f]]
  BY <1>2 DEF Merged
<1>4. Merged(h) = [plan |-> new[h].plan, status |-> new[h].status,
                   session |-> new[h].session, sub |-> new[h].sub]
  BY <1>3
<1>. QED
  BY <1>1, <1>4 DEF Rows

(* Webhooks are about subscriptions that were sold.                          *)
LEMMA ChangedSold ==
  ASSUME IInv, NEW s, NEW e \in ChangedOn(s)
  PROVE  s \in Sessions /\ stripe[s] \in Sold /\ e \in events /\ e.no \in Nat /\ e.status \in Sold
BY DEF ChangedOn, IInv, StripeInv, TypeOK, Events

(* Nothing is heard of and nothing is answered.                              *)
LEMMA NothingNew ==
  ASSUME IInv, ChangesInv, UNCHANGED <<events, newest, changes>>,
         \A t \in Sessions : stripe[t] \in Sold => stripe'[t] = stripe[t]
  PROVE  /\ ChangesInv'
         /\ \A t \in Sessions : stripe[t] \in Sold =>
              /\ stripe'[t] = stripe[t]
              /\ \A told : So(told, t)' = So(told, t)
<1>1. ASSUME NEW t \in Sessions PROVE ChangedOn(t)' = ChangedOn(t)
  BY DEF ChangedOn
<1>2. ASSUME NEW t \in Sessions, stripe[t] \in Sold PROVE Current(t)' = Current(t)
  BY <1>1, <1>2 DEF Current
<1>3. ASSUME NEW t \in Sessions PROVE Outrun(t)' = Outrun(t)
  BY <1>1 DEF Outrun
<1>4. ASSUME NEW t \in Sessions, Current(t) PROVE stripe[t] \in Sold
  BY <1>4, ChangedSold DEF Current
<1>5. \A t \in Sessions : Current(t)' \/ Outrun(t)'
  BY <1>2, <1>3, <1>4 DEF ChangesInv
<1>6. ChangesInv'
  BY <1>5 DEF ChangesInv
<1>7. ASSUME NEW t \in Sessions, stripe[t] \in Sold, NEW told PROVE So(told, t)' = So(told, t)
  BY <1>2, <1>7 DEF So
<1>. QED
  BY <1>6, <1>7

(* A webhook of a change is answered: unless a newer one was before, the     *)
(* change is the last, or the last is still to come.                         *)
LEMMA ChangeAnswered ==
  ASSUME IInv, ChangesInv, NEW e \in events, e.kind = "changed", Answered(e),
         events' = events \/ events' = events \ {e}, UNCHANGED <<stripe, changes>>
  PROVE  /\ ChangesInv'
         /\ \A t \in Sessions \ {e.on} : Current(t) => Current(t)'
         /\ ~stale' => ~stale /\ So(e.status, e.on)'
<1> DEFINE s == e.on
<1>1. /\ newest' = [newest EXCEPT ![s] = IF e.no > newest[s] THEN e.no ELSE newest[s]]
      /\ stale' = (stale \/ e.no < newest[s])
  BY DEF Answered
<1>2. /\ newest \in [Sessions -> 0 .. MaxChanges] /\ changes \in 0 .. MaxChanges
      /\ events \subseteq Events /\ s \in Sessions
  BY DEF IInv, TypeOK, Events
<1>3. e \in ChangedOn(s) /\ e.no \in Nat
  BY <1>2 DEF ChangedOn, Events
<1>4. \A t \in Sessions : newest[t] \in Nat /\ newest'[t] \in Nat /\ (t # s => newest'[t] = newest[t])
  BY <1>1, <1>2, <1>3
<1>5. newest[s] <= newest'[s] /\ e.no <= newest'[s] /\ (newest'[s] = newest[s] \/ newest'[s] = e.no)
  BY <1>1, <1>2, <1>3
<1>6. ASSUME NEW t \in Sessions \ {s} PROVE ChangedOn(t)' = ChangedOn(t)
  BY DEF ChangedOn
<1>7. ASSUME NEW t \in Sessions \ {s}, Current(t) PROVE Current(t)'
  BY <1>4, <1>6, <1>7 DEF Current
<1>8. ASSUME NEW t \in Sessions \ {s}, Outrun(t) PROVE Outrun(t)'
  BY <1>4, <1>6, <1>8 DEF Outrun
<1>9. ChangedOn(s)' \subseteq ChangedOn(s) /\ ChangedOn(s) \subseteq ChangedOn(s)' \cup {e}
  BY DEF ChangedOn
<1>10. \A d \in ChangedOn(s) : d.no \in Nat
  BY ChangedSold
<1>11. (Current(s)' \/ Outrun(s)') /\ (~stale' => ~stale /\ So(e.status, s)')
  <2>1. CASE Outrun(s)
    <3>1. Outrun(s)'
      <4>1. ASSUME NEW d \in ChangedOn(s)' PROVE d.no < newest'[s]
        <5>1. d.no < newest[s] /\ d.no \in Nat
          BY <1>9, <1>10, <2>1, <4>1 DEF Outrun
        <5>. QED
          BY <1>2, <1>4, <1>5, <5>1
      <4>. QED
        BY <4>1 DEF Outrun
    <3>2. stale'
      BY <1>1, <1>3, <2>1 DEF Outrun
    <3>. QED
      BY <3>1, <3>2
  <2>2. CASE ~Outrun(s)
    <3>1. PICK w \in ChangedOn(s) :
            /\ w.status = stripe[s] /\ newest[s] <= w.no
            /\ \A d \in ChangedOn(s) : d.no <= w.no
      BY <1>2, <2>2 DEF ChangesInv, Current
    <3>2. w.no \in Nat /\ e.no <= w.no /\ newest'[s] <= w.no
      BY <1>3, <1>5, <1>10, <3>1
    <3>3. CASE w \in ChangedOn(s)'
      <4>1. Current(s)'
        BY <1>9, <3>1, <3>2, <3>3 DEF Current
      <4>. QED
        BY <1>1, <4>1 DEF So
    <3>4. CASE w \notin ChangedOn(s)'
      <4>1. w = e /\ events' = events \ {e}
        BY <1>9, <3>1, <3>4 DEF ChangedOn
      <4>2. Outrun(s)'
        <5>1. ASSUME NEW d \in ChangedOn(s)' PROVE d.no < newest'[s]
          <6>1. d \in ChangedOn(s) /\ d # e /\ d.no \in Nat
            BY <1>9, <1>10, <4>1, <5>1 DEF ChangedOn
          <6>2. d.no # e.no
            BY <1>3, <6>1 DEF ChangesInv, ChangedOn
          <6>3. d.no <= e.no
            BY <3>1, <4>1, <6>1
          <6>. QED
            BY <1>2, <1>3, <1>4, <1>5, <6>1, <6>2, <6>3
        <5>. QED
          BY <5>1 DEF Outrun
      <4>3. So(e.status, s)'
        BY <3>1, <4>1 DEF So
      <4>. QED
        BY <1>1, <4>2, <4>3
    <3>. QED
      BY <3>3, <3>4
  <2>. QED
    BY <2>1, <2>2
<1>12. \A t \in Sessions : Current(t)' \/ Outrun(t)'
  BY <1>7, <1>8, <1>11 DEF ChangesInv
<1>13. \A t \in Sessions : newest'[t] <= changes
  BY <1>1, <1>2, <1>3, <1>4 DEF ChangesInv
<1>14. ChangesInv'
  BY <1>12, <1>13 DEF ChangesInv
<1>. QED
  BY <1>7, <1>11, <1>14

(* A webhook of a checkout is answered: nothing of that is about changes.    *)
LEMMA CheckoutAnswered ==
  ASSUME IInv, ChangesInv, NEW e \in events, e.kind = "completed", Answered(e),
         events' = events \/ events' = events \ {e}, UNCHANGED <<stripe, changes>>
  PROVE  /\ ChangesInv'
         /\ \A t \in Sessions : \A told : So(told, t)' = So(told, t)
         /\ UNCHANGED stale
<1>1. UNCHANGED <<newest, stale>>
  BY DEF Answered
<1>2. ASSUME NEW t \in Sessions PROVE ChangedOn(t)' = ChangedOn(t)
  BY DEF ChangedOn
<1>3. ASSUME NEW t \in Sessions PROVE Current(t)' = Current(t) /\ Outrun(t)' = Outrun(t)
  BY <1>1, <1>2 DEF Current, Outrun
<1>4. ChangesInv'
  BY <1>1, <1>3 DEF ChangesInv
<1>. QED
  BY <1>1, <1>3, <1>4 DEF So

(* A checkout is paid: what was so is so, or its webhook is under way.       *)
LEMMA PaidNews ==
  ASSUME IInv, ChangesInv, NEW s \in Sessions, Pay(s)
  PROVE  /\ ChangesInv'
         /\ \A t \in Sessions : stripe[t] \in Sold =>
              stripe'[t] \in Sold /\ \A told : So(told, t) => So(told, t)'
<1>1. /\ stripe[s] = "open" /\ stripe' = [stripe EXCEPT ![s] = "active"]
      /\ events' = events \cup {[kind |-> "completed", on |-> s, status |-> "active", no |-> 0]}
      /\ UNCHANGED <<changes, newest>>
  BY DEF Pay, history
<1>2. stripe \in [Sessions -> StripeStates] /\ changes \in Nat
  BY DEF IInv, TypeOK
<1>3. \A t \in Sessions : stripe[t] \in Sold => stripe'[t] = stripe[t]
  BY <1>1, <1>2 DEF Sold
<1>4. ASSUME NEW t \in Sessions PROVE ChangedOn(t)' = ChangedOn(t)
  BY <1>1 DEF ChangedOn
<1>5. ASSUME NEW t \in Sessions, Current(t) PROVE stripe[t] \in Sold
  BY <1>5, ChangedSold DEF Current
<1>6. ASSUME NEW t \in Sessions, Current(t) PROVE Current(t)'
  BY <1>1, <1>3, <1>4, <1>5, <1>6 DEF Current
<1>7. ASSUME NEW t \in Sessions, Outrun(t) PROVE Outrun(t)'
  BY <1>1, <1>4, <1>7 DEF Outrun
<1>8. \A e \in events' : e.no <= changes
  BY <1>1, <1>2 DEF ChangesInv
<1>9. \A d, e \in events' : d.kind = "changed" /\ e.kind = "changed" /\ d.no = e.no => d = e
  BY <1>1 DEF ChangesInv
<1>10. ChangesInv'
  BY <1>1, <1>6, <1>7, <1>8, <1>9 DEF ChangesInv
<1>. QED
  BY <1>3, <1>6, <1>10 DEF So

(* A subscription changes.                                                   *)
LEMMA ChangeNews ==
  ASSUME IInv, ChangesInv, NEW s \in Sessions, NEW new1 \in Sold, Change(s, new1)
  PROVE  /\ ChangesInv'
         /\ \A t \in Sessions : stripe[t] \in Sold =>
              stripe'[t] \in Sold /\ \A told : So(told, t) => So(told, t)'
<1> DEFINE e == [kind |-> "changed", on |-> s, status |-> new1, no |-> changes + 1]
<1>1. /\ changes' = changes + 1 /\ stripe' = [stripe EXCEPT ![s] = new1]
      /\ events' = events \cup {e} /\ UNCHANGED newest
  BY DEF Change, history
<1>2. /\ stripe \in [Sessions -> StripeStates] /\ changes \in Nat /\ events \subseteq Events
      /\ newest \in [Sessions -> 0 .. MaxChanges]
  BY DEF IInv, TypeOK
<1>3. \A t \in Sessions : stripe'[t] = IF t = s THEN new1 ELSE stripe[t]
  BY <1>1, <1>2
<1>4. \A d \in events : d.no \in Nat /\ d.no <= changes
  BY <1>2 DEF Events, ChangesInv
<1>5. Current(s)'
  <2>1. e \in ChangedOn(s)'
    BY <1>1 DEF ChangedOn
  <2>2. \A d \in ChangedOn(s)' : d.no <= e.no
    BY <1>1, <1>2, <1>4 DEF ChangedOn
  <2>3. newest'[s] <= e.no
    BY <1>1, <1>2 DEF ChangesInv
  <2>4. e.status = stripe'[s]
    BY <1>3
  <2>. QED
    BY <2>1, <2>2, <2>3, <2>4 DEF Current
<1>6. ASSUME NEW t \in Sessions \ {s} PROVE ChangedOn(t)' = ChangedOn(t)
  BY <1>1 DEF ChangedOn
<1>7. ASSUME NEW t \in Sessions \ {s} PROVE Current(t)' = Current(t) /\ Outrun(t)' = Outrun(t)
  BY <1>1, <1>3, <1>6 DEF Current, Outrun
<1>8. \A t \in Sessions : Current(t)' \/ Outrun(t)'
  BY <1>5, <1>7 DEF ChangesInv
<1>9. \A t \in Sessions : newest'[t] <= changes'
  BY <1>1, <1>2 DEF ChangesInv
<1>10. \A d \in events' : d.no <= changes'
  BY <1>1, <1>2, <1>4
<1>11. \A d, f \in events' : d.kind = "changed" /\ f.kind = "changed" /\ d.no = f.no => d = f
  <2>1. \A d \in events : d.no # e.no
    BY <1>2, <1>4
  <2>. QED
    BY <1>1, <2>1 DEF ChangesInv
<1>12. ChangesInv'
  BY <1>8, <1>9, <1>10, <1>11 DEF ChangesInv
<1>13. ASSUME NEW t \in Sessions, NEW told, So(told, t) PROVE So(told, t)'
  BY <1>3, <1>5, <1>7, <1>13 DEF So
<1>. QED
  BY <1>3, <1>12, <1>13

(* A request begins while there is no other.                                 *)
LEMMA BeginsAlone ==
  ASSUME TypeOK, Overlap, overlaps' = 0 PROVE \A g \in Handlers : Idle(g)
BY DEF TypeOK, Overlap

(* The only request ends.                                                    *)
LEMMA EndsAlone ==
  ASSUME IInv, AloneInv, NEW h \in Handlers, ~Idle(h), End(h)
  PROVE  AloneInv' /\ \A g \in Handlers : Idle(g)'
<1>1. pc \in [Handlers -> PCs] /\ pc' = [pc EXCEPT ![h] = "idle"]
  BY DEF IInv, TypeOK, End
<1>2. \A g \in Handlers : Idle(g)'
  BY <1>1 DEF AloneInv, Idle
<1>. QED
  BY <1>2 DEF AloneInv

(* The only request is `h`, and it knows what it has to.                     *)
LEMMA StillAlone ==
  ASSUME IInv, NEW h \in Handlers, \A g \in Handlers \ {h} : Idle(g),
         \A g \in Handlers \ {h} : pc'[g] = pc[g], Knows(h)'
  PROVE  AloneInv'
BY DEF AloneInv, Idle

(* What the row says, when nothing is written.                               *)
LEMMA RowSame ==
  ASSUME IInv, PlanInv, StatusInv, UNCHANGED <<row, reopened>>, ~stale' => ~stale,
         \A t \in Sessions : stripe[t] \in Sold /\ t = row.sub =>
            \A told : So(told, t) => So(told, t)'
  PROVE  PlanInv' /\ StatusInv'
<1>1. PlanInv'
  BY DEF PlanInv
<1>2. PICK r : r = row
  OBVIOUS
<1>3. ASSUME Settled', ~stale' PROVE So(r.status, r.sub)'
  <2>1. r.sub \in Sessions /\ stripe[r.sub] \in Sold /\ So(r.status, r.sub)
    BY <1>2, <1>3 DEF Settled, StatusInv, IInv, RowInv, TypeOK, Rows, SomeSession
  <2>. QED
    BY <1>2, <2>1
<1>4. StatusInv'
  BY <1>2, <1>3 DEF StatusInv
<1>. QED
  BY <1>1, <1>4

(* What it says, when the columns of a checkout or of its own end are        *)
(* written: the session and the subscription are not one.                    *)
LEMMA RowUnsettled ==
  ASSUME row'.sub # row'.session PROVE StatusInv'
BY DEF StatusInv, Settled

(* What it says when a subscription is written that its session has become.  *)
LEMMA RowSold ==
  ASSUME IInv, PlanInv, UNCHANGED <<stripe, reopened>>, NEW s \in Sessions, NEW r, NEW told,
         row.session = s, r = [row EXCEPT !.sub = s, !.status = told],
         row' = r, So(told, s)'
  PROVE  PlanInv' /\ StatusInv'
<1>1. row \in Rows
  BY DEF IInv, TypeOK
<1>2. row'.sub = s /\ row'.status = told /\ row'.session = s /\ row'.plan = row.plan
  BY <1>1 DEF Rows
<1>. QED
  BY <1>2, NoSessionAssumption DEF PlanInv, StatusInv

(* AgreeInv where no requests have overlapped.                               *)
AgreeBody == ChangesInv /\ AloneInv /\ PlanInv /\ StatusInv

(* A request begins.                                                         *)
LEMMA CreateAgrees ==
  ASSUME IInv, AgreeBody, overlaps' = 0, NEW h \in Handlers, NEW s \in Sessions, Create(h, s)
  PROVE  AgreeBody'
<1>1. /\ job' = [job EXCEPT ![h] = "create"] /\ on' = [on EXCEPT ![h] = s]
      /\ seen' = [seen EXCEPT ![h] = row] /\ pc' = [pc EXCEPT ![h] = "loaded"] /\ Overlap
      /\ stripe[s] = "none" /\ UNCHANGED <<stripe, changes, events, row, new, newest, stale, reopened>>
  BY DEF Create, Load, outside
<1>2. /\ pc \in [Handlers -> PCs] /\ job \in [Handlers -> Jobs] /\ on \in [Handlers -> SomeSession]
      /\ seen \in [Handlers -> Rows] /\ TypeOK
  BY DEF IInv, TypeOK
<1>3. \A g \in Handlers : Idle(g)
  BY <1>1, <1>2, BeginsAlone
<1>4. row.sub # s
  BY <1>1, NoSessionAssumption DEF IInv, RowInv, Sold
<1>5. Knows(h)'
  BY <1>1, <1>2, <1>4 DEF Knows
<1>6. AloneInv'
  BY <1>1, <1>2, <1>3, <1>5, StillAlone
<1>7. ChangesInv' /\ \A t \in Sessions : stripe[t] \in Sold =>
        stripe'[t] = stripe[t] /\ \A told : So(told, t)' = So(told, t)
  BY <1>1, NothingNew DEF AgreeBody
<1>8. PlanInv' /\ StatusInv'
  BY <1>1, <1>7, RowSame DEF AgreeBody
<1>. QED
  BY <1>6, <1>7, <1>8 DEF AgreeBody

(* A webhook of a checkout begins to be handled.                             *)
LEMMA CompletedAgrees ==
  ASSUME IInv, AgreeBody, overlaps' = 0, NEW h \in Handlers, NEW e \in events, Completed(h, e)
  PROVE  AgreeBody'
<1>1. /\ job' = [job EXCEPT ![h] = "completed"] /\ on' = [on EXCEPT ![h] = e.on]
      /\ seen' = [seen EXCEPT ![h] = row] /\ pc' = [pc EXCEPT ![h] = "loaded"] /\ Overlap
      /\ event' = [event EXCEPT ![h] = {e}] /\ e.kind = "completed" /\ row.session = e.on
      /\ UNCHANGED <<stripe, changes, events, row, new, newest, stale, reopened>>
  BY DEF Completed, Load, outside, Found
<1>2. /\ pc \in [Handlers -> PCs] /\ job \in [Handlers -> Jobs] /\ on \in [Handlers -> SomeSession]
      /\ seen \in [Handlers -> Rows] /\ event \in [Handlers -> SUBSET Events] /\ TypeOK
  BY DEF IInv, TypeOK
<1>3. \A g \in Handlers : Idle(g)
  BY <1>1, <1>2, BeginsAlone
<1>4. Knows(h)'
  BY <1>1, <1>2 DEF Knows
<1>5. AloneInv'
  BY <1>1, <1>2, <1>3, <1>4, StillAlone
<1>6. ChangesInv' /\ \A t \in Sessions : stripe[t] \in Sold =>
        stripe'[t] = stripe[t] /\ \A told : So(told, t)' = So(told, t)
  BY <1>1, NothingNew DEF AgreeBody
<1>7. PlanInv' /\ StatusInv'
  BY <1>1, <1>6, RowSame DEF AgreeBody
<1>. QED
  BY <1>5, <1>6, <1>7 DEF AgreeBody

(* A webhook of a change begins to be handled.                               *)
LEMMA ChangedAgrees ==
  ASSUME IInv, AgreeBody, overlaps' = 0, NEW h \in Handlers, NEW e \in events, Changed(h, e)
  PROVE  AgreeBody'
<1>1. /\ job' = [job EXCEPT ![h] = "changed"] /\ on' = [on EXCEPT ![h] = e.on]
      /\ seen' = [seen EXCEPT ![h] = row] /\ pc' = [pc EXCEPT ![h] = "ready"] /\ Overlap
      /\ event' = [event EXCEPT ![h] = {e}] /\ e.kind = "changed" /\ row.sub = e.on
      /\ new' = [new EXCEPT ![h] = [row EXCEPT !.status = e.status]]
      /\ UNCHANGED <<stripe, changes, events, row, newest, stale, reopened>>
  BY DEF Changed, Load, Ready, outside, Found
<1>2. /\ pc \in [Handlers -> PCs] /\ job \in [Handlers -> Jobs] /\ on \in [Handlers -> SomeSession]
      /\ seen \in [Handlers -> Rows] /\ event \in [Handlers -> SUBSET Events]
      /\ new \in [Handlers -> Rows] /\ TypeOK
  BY DEF IInv, TypeOK
<1>3. \A g \in Handlers : Idle(g)
  BY <1>1, <1>2, BeginsAlone
<1>4. Knows(h)'
  BY <1>1, <1>2 DEF Knows
<1>5. AloneInv'
  BY <1>1, <1>2, <1>3, <1>4, StillAlone
<1>6. ChangesInv' /\ \A t \in Sessions : stripe[t] \in Sold =>
        stripe'[t] = stripe[t] /\ \A told : So(told, t)' = So(told, t)
  BY <1>1, NothingNew DEF AgreeBody
<1>7. PlanInv' /\ StatusInv'
  BY <1>1, <1>6, RowSame DEF AgreeBody
<1>. QED
  BY <1>5, <1>6, <1>7 DEF AgreeBody

(* The customer returns.                                                     *)
LEMMA ReconcileAgrees ==
  ASSUME IInv, AgreeBody, overlaps' = 0, NEW h \in Handlers, Reconcile(h)
  PROVE  AgreeBody'
<1>1. /\ job' = [job EXCEPT ![h] = "reconcile"] /\ on' = [on EXCEPT ![h] = row.session]
      /\ seen' = [seen EXCEPT ![h] = row] /\ pc' = [pc EXCEPT ![h] = "loaded"] /\ Overlap
      /\ UNCHANGED <<stripe, changes, events, row, new, newest, stale, reopened>>
  BY DEF Reconcile, Load, outside
<1>2. /\ pc \in [Handlers -> PCs] /\ job \in [Handlers -> Jobs] /\ on \in [Handlers -> SomeSession]
      /\ seen \in [Handlers -> Rows] /\ TypeOK
  BY DEF IInv, TypeOK
<1>3. \A g \in Handlers : Idle(g)
  BY <1>1, <1>2, BeginsAlone
<1>4. Knows(h)'
  BY <1>1, <1>2 DEF Knows
<1>5. AloneInv'
  BY <1>1, <1>2, <1>3, <1>4, StillAlone
<1>6. ChangesInv' /\ \A t \in Sessions : stripe[t] \in Sold =>
        stripe'[t] = stripe[t] /\ \A told : So(told, t)' = So(told, t)
  BY <1>1, NothingNew DEF AgreeBody
<1>7. PlanInv' /\ StatusInv'
  BY <1>1, <1>6, RowSame DEF AgreeBody
<1>. QED
  BY <1>5, <1>6, <1>7 DEF AgreeBody

(* Stripe opens the session: the row is written with it later.               *)
LEMMA OpenedAgrees ==
  ASSUME IInv, AgreeBody, NEW h \in Handlers, Opened(h) PROVE AgreeBody'
<1> DEFINE result == [seen[h] EXCEPT !.plan = PlanOf[on[h]], !.status = "checkout_pending",
                                     !.session = on[h]]
<1>1. /\ pc[h] = "loaded" /\ job[h] = "create" /\ stripe' = [stripe EXCEPT ![on[h]] = "open"]
      /\ pc' = [pc EXCEPT ![h] = "ready"] /\ new' = [new EXCEPT ![h] = result]
      /\ UNCHANGED <<changes, events, row, job, event, on, seen, newest, stale, reopened>>
  BY DEF Opened, Ready, history
<1>2. /\ pc \in [Handlers -> PCs] /\ new \in [Handlers -> Rows] /\ stripe \in [Sessions -> StripeStates]
      /\ seen[h] \in Rows
  BY DEF IInv, TypeOK
<1>3. on[h] \in Sessions /\ stripe[on[h]] = "none"
  BY <1>1 DEF IInv, StripeInv, Idle, Creating
<1>4. \A t \in Sessions : stripe[t] \in Sold => stripe'[t] = stripe[t]
  BY <1>1, <1>2, <1>3 DEF Sold
<1>5. ChangesInv' /\ \A t \in Sessions : stripe[t] \in Sold =>
        stripe'[t] = stripe[t] /\ \A told : So(told, t)' = So(told, t)
  BY <1>1, <1>4, NothingNew DEF AgreeBody
<1>6. PlanInv' /\ StatusInv'
  BY <1>1, <1>5, RowSame DEF AgreeBody
<1>7. ~Idle(h) /\ Knows(h) /\ \A g \in Handlers \ {h} : Idle(g)
  BY <1>1 DEF AgreeBody, AloneInv, Idle
<1>8. Knows(h)'
  BY <1>1, <1>2, <1>7 DEF Knows
<1>9. AloneInv'
  BY <1>1, <1>2, <1>7, <1>8, StillAlone
<1>. QED
  BY <1>5, <1>6, <1>9 DEF AgreeBody

(* A handler asks Stripe about a session that was paid, or was not.          *)
LEMMA AskedAgrees ==
  ASSUME IInv, AgreeBody, NEW h \in Handlers, CompletedAsk(h) \/ ReconcilePaid(h)
  PROVE  AgreeBody'
<1>1. /\ pc[h] = "loaded" /\ job[h] \in {"completed", "reconcile"}
      /\ pc' = [pc EXCEPT ![h] = "ready"] /\ new' = [new EXCEPT ![h] = SoldNow(h)]
      /\ UNCHANGED <<stripe, changes, events, row, job, event, on, seen, newest, stale, reopened>>
  BY DEF CompletedAsk, ReconcilePaid, Ready, history, outside
<1>2. /\ pc \in [Handlers -> PCs] /\ new \in [Handlers -> Rows] /\ seen[h] \in Rows /\ TypeOK
  BY DEF IInv, TypeOK
<1>3. on[h] \in Sessions /\ stripe[on[h]] \in Sold
  BY DEF CompletedAsk, ReconcilePaid, IInv, StripeInv, Idle
<1>4. ChangesInv' /\ \A t \in Sessions : stripe[t] \in Sold =>
        stripe'[t] = stripe[t] /\ \A told : So(told, t)' = So(told, t)
  BY <1>1, NothingNew DEF AgreeBody
<1>5. PlanInv' /\ StatusInv'
  BY <1>1, <1>4, RowSame DEF AgreeBody
<1>6. ~Idle(h) /\ Knows(h) /\ \A g \in Handlers \ {h} : Idle(g)
  BY <1>1 DEF AgreeBody, AloneInv, Idle
<1>7. PICK s, r, now : s = on[h] /\ r = row /\ now = SoldNow(h)
  OBVIOUS
<1>8. now = [r EXCEPT !.sub = s, !.status = stripe[s]] /\ now.status = stripe[s]
  BY <1>2, <1>3, <1>6, <1>7, SoldNowRow DEF SoldNow, Knows
<1>9. Sells(now, r, s)'
  <2>1. So(now.status, s)
    BY <1>8 DEF So
  <2>2. So(now.status, s)' /\ stripe'[s] \in Sold
    BY <1>3, <1>4, <1>7, <2>1
  <2>3. now = [r EXCEPT !.sub = s, !.status = now.status]
    BY <1>8
  <2>. QED
    BY <2>2, <2>3 DEF Sells
<1>10. Sells(new[h], row, on[h])'
  BY <1>1, <1>2, <1>7, <1>9
<1>11. Knows(h)'
  BY <1>1, <1>2, <1>6, <1>10 DEF Knows
<1>12. AloneInv'
  BY <1>1, <1>2, <1>6, <1>11, StillAlone
<1>. QED
  BY <1>4, <1>5, <1>12 DEF AgreeBody

(* The session that the customer returns from is not paid.                   *)
LEMMA UnpaidAgrees ==
  ASSUME IInv, AgreeBody, NEW h \in Handlers, ReconcileUnpaid(h) PROVE AgreeBody'
<1>1. PICK result : result = IF seen[h].status = "checkout_pending"
                             THEN [seen[h] EXCEPT !.status = "canceled"] ELSE seen[h]
  OBVIOUS
<1>2. /\ pc[h] = "loaded" /\ job[h] = "reconcile" /\ stripe[on[h]] \notin Sold
      /\ pc' = [pc EXCEPT ![h] = "ready"] /\ new' = [new EXCEPT ![h] = result]
      /\ UNCHANGED <<stripe, changes, events, row, job, event, on, seen, newest, stale, reopened>>
  BY <1>1 DEF ReconcileUnpaid, Ready, history, outside
<1>3. /\ pc \in [Handlers -> PCs] /\ new \in [Handlers -> Rows] /\ row \in Rows
  BY DEF IInv, TypeOK
<1>4. ChangesInv' /\ \A t \in Sessions : stripe[t] \in Sold =>
        stripe'[t] = stripe[t] /\ \A told : So(told, t)' = So(told, t)
  BY <1>2, NothingNew DEF AgreeBody
<1>5. PlanInv' /\ StatusInv'
  BY <1>2, <1>4, RowSame DEF AgreeBody
<1>6. ~Idle(h) /\ Knows(h) /\ \A g \in Handlers \ {h} : Idle(g)
  BY <1>2 DEF AgreeBody, AloneInv, Idle
<1>7. row.sub # on[h]
  BY <1>2, <1>6, NoSessionAssumption DEF IInv, RowInv, StripeInv
<1>8. result = [row EXCEPT !.status = result.status]
  BY <1>1, <1>3, <1>6 DEF Knows, Rows
<1>9. Knows(h)'
  BY <1>2, <1>3, <1>6, <1>7, <1>8 DEF Knows
<1>10. AloneInv'
  BY <1>2, <1>3, <1>6, <1>9, StillAlone
<1>. QED
  BY <1>4, <1>5, <1>10 DEF AgreeBody

(* A checkout writes the row: the session is no subscription yet.            *)
LEMMA CreateCommitAgrees ==
  ASSUME IInv, AgreeBody, NEW h \in Handlers, CreateCommit(h) PROVE AgreeBody'
<1>1. /\ pc[h] = "ready" /\ job[h] = "create" /\ End(h)
      /\ row' = IF seen[h].status = "free" THEN new[h] ELSE Merged(h)
      /\ reopened' = (reopened \/ row.sub # NoSession)
      /\ UNCHANGED <<stripe, changes, events, newest, stale>>
  BY DEF CreateCommit, outside
<1>2. ~Idle(h) /\ Knows(h) /\ TypeOK /\ row \in Rows /\ on[h] \in Sessions
  BY <1>1 DEF AgreeBody, AloneInv, Idle, IInv, TypeOK, StripeInv
<1>3. ChangesInv'
  BY <1>1, NothingNew DEF AgreeBody
<1>4. AloneInv'
  BY <1>1, <1>2, EndsAlone DEF AgreeBody
<1>5. /\ row.sub # on[h]
      /\ row' = [row EXCEPT !.plan = PlanOf[on[h]], !.status = "checkout_pending", !.session = on[h]]
  BY <1>1, <1>2, MergedAlone DEF Knows
<1>6. row'.sub = row.sub /\ row'.session = on[h] /\ row'.plan = PlanOf[on[h]]
  BY <1>2, <1>5 DEF Rows
<1>7. StatusInv'
  BY <1>5, <1>6, RowUnsettled
<1>8. PlanInv'
  BY <1>1, <1>6 DEF PlanInv
<1>. QED
  BY <1>3, <1>4, <1>7, <1>8 DEF AgreeBody

(* A handler gives up: nothing is written.                                   *)
LEMMA EndAgrees ==
  ASSUME IInv, AgreeBody, NEW h \in Handlers, ~Idle(h), End(h),
         UNCHANGED <<stripe, changes, events, row, newest, stale, reopened>>
  PROVE  AgreeBody'
<1>1. ChangesInv' /\ \A t \in Sessions : stripe[t] \in Sold =>
        stripe'[t] = stripe[t] /\ \A told : So(told, t)' = So(told, t)
  BY NothingNew DEF AgreeBody
<1>2. PlanInv' /\ StatusInv'
  BY <1>1, RowSame DEF AgreeBody
<1>3. AloneInv'
  BY EndsAlone DEF AgreeBody
<1>. QED
  BY <1>1, <1>2, <1>3 DEF AgreeBody

(* A webhook finds no row: it was of no subscription that the row has.       *)
LEMMA UnknownAgrees ==
  ASSUME IInv, AgreeBody, overlaps' = 0, NEW e \in events, Unknown(e) PROVE AgreeBody'
<1>1. /\ ~Found(e) /\ events' = events \ {e} /\ Answered(e) /\ Overlap
      /\ UNCHANGED <<stripe, changes, row, pc, reopened>>
  BY DEF Unknown, outside, handler
<1>2. TypeOK /\ e.kind \in {"completed", "changed"} /\ e.on \in Sessions /\ ChangesInv
  BY DEF IInv, TypeOK, Events, AgreeBody
<1>3. \A g \in Handlers : Idle(g)
  BY <1>1, <1>2, BeginsAlone
<1>4. AloneInv'
  BY <1>1, <1>3 DEF AloneInv, Idle
<1>5. CASE e.kind = "completed"
  <2>1. ChangesInv' /\ (\A t \in Sessions : \A told : So(told, t)' = So(told, t)) /\ UNCHANGED stale
    BY <1>1, <1>2, <1>5, CheckoutAnswered
  <2>2. PlanInv' /\ StatusInv'
    BY <1>1, <2>1, RowSame DEF AgreeBody
  <2>. QED
    BY <1>4, <2>1, <2>2 DEF AgreeBody
<1>6. CASE e.kind = "changed"
  <2>1. /\ ChangesInv'
        /\ ~stale' => ~stale
        /\ \A t \in Sessions \ {e.on} : Current(t) => Current(t)'
    BY <1>1, <1>2, <1>6, ChangeAnswered
  <2>2. row.sub # e.on
    BY <1>1, <1>6 DEF Found
  <2>3. ASSUME NEW t \in Sessions, t = row.sub, NEW told, So(told, t) PROVE So(told, t)'
    BY <1>1, <2>1, <2>2, <2>3 DEF So
  <2>4. PlanInv' /\ StatusInv'
    BY <1>1, <2>1, <2>3, RowSame DEF AgreeBody
  <2>. QED
    BY <1>4, <2>1, <2>4 DEF AgreeBody
<1>. QED
  BY <1>2, <1>5, <1>6

(* A webhook is answered and takes effect.                                   *)
LEMMA WebhookAgrees ==
  ASSUME IInv, AgreeBody, NEW h \in Handlers, WebhookCommit(h) PROVE AgreeBody'
<1>1. /\ pc[h] = "ready" /\ job[h] \in {"completed", "changed"} /\ End(h) /\ row' = Merged(h)
      /\ events' = events \ event[h] \/ events' = events
      /\ \E e \in event[h] : Answered(e)
      /\ UNCHANGED <<stripe, changes, reopened>>
  BY DEF WebhookCommit, outside
<1>2. ~Idle(h) /\ Knows(h) /\ TypeOK /\ row \in Rows /\ on[h] \in Sessions /\ ChangesInv
  BY <1>1 DEF AgreeBody, AloneInv, Idle, IInv, TypeOK, StripeInv
<1>3. AloneInv'
  BY <1>1, <1>2, EndsAlone DEF AgreeBody
<1>4. PICK e \in events : event[h] = {e} /\ Answered(e) /\ e.kind = job[h]
  <2>1. PICK e \in events : event[h] = {e} /\ e.kind = job[h]
    BY <1>1, <1>2 DEF Knows
  <2>2. PICK d \in event[h] : Answered(d)
    BY <1>1
  <2>3. d = e
    BY <2>1, <2>2
  <2>. QED
    BY <2>1, <2>2, <2>3
<1>5. events' = events \/ events' = events \ {e}
  BY <1>1, <1>4
<1>6. row' = new[h]
  BY <1>1, <1>2, MergedAlone DEF Knows
<1>7. CASE job[h] = "completed"
  <2>0. PICK s \in Sessions : s = on[h]
    BY <1>2
  <2>1. ChangesInv' /\ \A t \in Sessions : \A told : So(told, t)' = So(told, t)
    BY <1>1, <1>2, <1>4, <1>5, <1>7, CheckoutAnswered
  <2>2. PICK r : s = on[h] /\ r = new[h]
    BY <2>0
  <2>3. row.session = s /\ Sells(r, row, s)
    BY <1>1, <1>2, <1>7, <2>2 DEF Knows
  <2>4. r = [row EXCEPT !.sub = s, !.status = r.status] /\ So(r.status, s)'
    BY <2>1, <2>3 DEF Sells
  <2>5. row' = r
    BY <1>6, <2>2
  <2>6. PICK told : told = r.status
    OBVIOUS
  <2>7. PlanInv' /\ StatusInv'
    BY <1>1, <2>3, <2>4, <2>5, <2>6, RowSold DEF AgreeBody
  <2>. QED
    BY <1>3, <2>1, <2>7 DEF AgreeBody
<1>8. CASE job[h] = "changed"
  <2>1. ChangesInv' /\ (~stale' => So(e.status, e.on)')
    BY <1>1, <1>2, <1>4, <1>5, <1>8, ChangeAnswered
  <2>2. row.sub = e.on /\ new[h] = [row EXCEPT !.status = e.status]
    BY <1>2, <1>4, <1>8 DEF Knows
  <2>3. /\ row'.sub = e.on /\ row'.status = e.status /\ row'.session = row.session
        /\ row'.plan = row.plan
    BY <1>2, <1>6, <2>2 DEF Rows
  <2>4. PlanInv'
    BY <1>1, <2>2, <2>3 DEF PlanInv, AgreeBody
  <2>5. StatusInv'
    BY <2>1, <2>3 DEF StatusInv
  <2>. QED
    BY <1>3, <2>1, <2>4, <2>5 DEF AgreeBody
<1>. QED
  BY <1>1, <1>7, <1>8

(* The customer's return takes effect.                                       *)
LEMMA ReconcileCommitAgrees ==
  ASSUME IInv, AgreeBody, NEW h \in Handlers, ReconcileCommit(h) PROVE AgreeBody'
<1>1. /\ pc[h] = "ready" /\ job[h] = "reconcile" /\ End(h) /\ row' = Merged(h)
      /\ UNCHANGED <<stripe, changes, events, newest, stale, reopened>>
  BY DEF ReconcileCommit, outside, history
<1>2. ~Idle(h) /\ Knows(h) /\ TypeOK /\ row \in Rows /\ on[h] \in Sessions
  BY <1>1 DEF AgreeBody, AloneInv, Idle, IInv, TypeOK, StripeInv
<1>3. AloneInv'
  BY <1>1, <1>2, EndsAlone DEF AgreeBody
<1>4. ChangesInv' /\ \A t \in Sessions : stripe[t] \in Sold =>
        stripe'[t] = stripe[t] /\ \A told : So(told, t)' = So(told, t)
  BY <1>1, NothingNew DEF AgreeBody
<1>5. row' = new[h] /\ row.session = on[h]
  BY <1>1, <1>2, MergedAlone DEF Knows
<1>6. PlanInv' /\ StatusInv'
  <2>1. CASE Sells(new[h], row, on[h])
    <3>0. PICK s \in Sessions : s = on[h]
      BY <1>2
    <3>1. PICK r : s = on[h] /\ r = new[h]
      BY <3>0
    <3>2. r = [row EXCEPT !.sub = s, !.status = r.status] /\ So(r.status, s)' /\ row' = r
      BY <1>4, <1>5, <2>1, <3>1 DEF Sells
    <3>3. PICK told : told = r.status
      OBVIOUS
    <3>. QED
      BY <1>1, <1>5, <3>1, <3>2, <3>3, RowSold DEF AgreeBody
  <2>2. CASE row.sub # on[h] /\ new[h] = [row EXCEPT !.status = new[h].status]
    <3>1. row'.sub = row.sub /\ row'.session = row.session /\ row'.plan = row.plan
      BY <1>2, <1>5, <2>2 DEF Rows
    <3>2. StatusInv'
      BY <1>5, <2>2, <3>1, RowUnsettled
    <3>3. PlanInv'
      BY <1>1, <3>1 DEF PlanInv, AgreeBody
    <3>. QED
      BY <3>2, <3>3
  <2>. QED
    BY <1>1, <1>2, <2>1, <2>2 DEF Knows
<1>. QED
  BY <1>3, <1>4, <1>6 DEF AgreeBody

(* News at Stripe: what a handler has read there is so, or a webhook of what *)
(* has become of it is under way.                                            *)
LEMMA NewsAgree ==
  ASSUME IInv, AgreeBody, NEW s \in Sessions,
         Pay(s) \/ \E told \in Sold : Change(s, told)
  PROVE  AgreeBody'
<1>1. /\ ChangesInv'
      /\ \A t \in Sessions : stripe[t] \in Sold =>
           stripe'[t] \in Sold /\ \A told : So(told, t) => So(told, t)'
  BY PaidNews, ChangeNews DEF AgreeBody
<1>2. /\ events \subseteq events'
      /\ UNCHANGED <<row, pc, job, event, on, seen, new, stale, reopened>>
  BY DEF Pay, Change, handler, history
<1>3. PlanInv' /\ StatusInv'
  BY <1>1, <1>2, RowSame DEF AgreeBody
<1>4. ASSUME NEW h \in Handlers, ~Idle(h) PROVE Knows(h)'
  <2>1. Knows(h) /\ on[h] \in Sessions
    BY <1>4 DEF AgreeBody, AloneInv, IInv, StripeInv
  <2>2. ASSUME Sells(new[h], row, on[h]) PROVE Sells(new[h], row, on[h])'
    <3>1. PICK r, q, t : r = new[h] /\ q = row /\ t = on[h]
      OBVIOUS
    <3>2. Sells(r, q, t)'
      BY <1>1, <2>1, <2>2, <3>1 DEF Sells
    <3>. QED
      BY <1>2, <3>1, <3>2
  <2>. QED
    BY <1>2, <2>1, <2>2 DEF Knows
<1>5. AloneInv'
  BY <1>2, <1>4 DEF AgreeBody, AloneInv, Idle
<1>. QED
  BY <1>1, <1>3, <1>5 DEF AgreeBody

(* Every step keeps the agreement.                                           *)
LEMMA AgreeStep == ASSUME IInv, AgreeInv, [Next]_vars PROVE AgreeInv'
<1> SUFFICES ASSUME overlaps' = 0 PROVE AgreeBody'
  BY DEF AgreeInv, AgreeBody
<1>1. overlaps = 0
  <2>1. overlaps' = overlaps \/ overlaps' = overlaps + 1
    BY DEF Next, Handle, Webhook, Stripe, Create, Opened, CreateCommit, CreateRefused, Unknown,
       Completed, CompletedAsk, Changed, WebhookCommit, Reconcile, ReconcilePaid, ReconcileUnpaid,
       ReconcileMoved, ReconcileCommit, Fails, Pay, Change, Load, Overlap, history, vars
  <2>. QED
    BY <2>1 DEF IInv, TypeOK
<1>2. AgreeBody
  BY <1>1 DEF AgreeInv, AgreeBody
<1>3. ASSUME NEW h \in Handlers, CreateRefused(h) \/ ReconcileMoved(h) \/ Fails(h) PROVE AgreeBody'
  <2>1. ~Idle(h) /\ End(h) /\ UNCHANGED <<stripe, changes, events, row, newest, stale, reopened>>
    BY <1>3 DEF CreateRefused, ReconcileMoved, Fails, Idle, outside, history
  <2>. QED
    BY <1>2, <2>1, EndAgrees
<1>4. ASSUME UNCHANGED vars PROVE AgreeBody'
  <2>1. UNCHANGED <<stripe, changes, events, row, pc, job, event, on, seen, new, newest, stale, reopened>>
    BY <1>4 DEF vars, outside, handler, history
  <2>2. ASSUME NEW s PROVE Current(s)' = Current(s) /\ Outrun(s)' = Outrun(s)
    BY <2>1 DEF Current, Outrun, ChangedOn
  <2>3. ChangesInv'
    BY <1>2, <2>1, <2>2 DEF AgreeBody, ChangesInv
  <2>4. ASSUME NEW h PROVE Knows(h)' = Knows(h)
    BY <2>1 DEF Knows, Sells, So, Current, ChangedOn
  <2>5. AloneInv'
    BY <1>2, <2>1, <2>4 DEF AgreeBody, AloneInv, Idle
  <2>6. PlanInv' /\ StatusInv'
    BY <1>2, <2>1 DEF AgreeBody, PlanInv, StatusInv, Settled, So, Current, ChangedOn
  <2>. QED
    BY <2>3, <2>5, <2>6 DEF AgreeBody
<1>5. ASSUME NEW h \in Handlers, Handle(h) \/ Reconcile(h) \/ \E s \in Sessions : Create(h, s)
      PROVE  AgreeBody'
  BY <1>2, <1>3, <1>5, CreateAgrees, OpenedAgrees, CreateCommitAgrees, AskedAgrees, UnpaidAgrees,
     WebhookAgrees, ReconcileAgrees, ReconcileCommitAgrees DEF Handle
<1>6. ASSUME NEW e \in events, Webhook(e) PROVE AgreeBody'
  BY <1>2, <1>6, UnknownAgrees, CompletedAgrees, ChangedAgrees DEF Webhook
<1>7. ASSUME NEW s \in Sessions, Stripe(s) PROVE AgreeBody'
  BY <1>2, <1>7, NewsAgree DEF Stripe
<1>. QED
  BY <1>3, <1>4, <1>5, <1>6, <1>7 DEF Next

(* At first there is nothing to agree about.                                 *)
LEMMA AgreeInit == Init => AgreeInv
<1> SUFFICES ASSUME Init PROVE AgreeInv
  OBVIOUS
<1>1. events = {} /\ row = NoRow /\ \A h \in Handlers : Idle(h)
  BY DEF Init, Idle
<1>2. \A s \in Sessions : ChangedOn(s) = {}
  BY <1>1 DEF ChangedOn
<1>3. ChangesInv
  BY <1>1, <1>2 DEF ChangesInv, Outrun, Init
<1>4. AloneInv
  BY <1>1 DEF AloneInv
<1>5. row.session = NoSession /\ row.sub = NoSession
  BY <1>1 DEF NoRow
<1>6. PlanInv /\ StatusInv
  BY <1>5 DEF PlanInv, StatusInv, Settled
<1>. QED
  BY <1>3, <1>4, <1>6 DEF AgreeInv

(* RowAgrees (see Subscriptions): with every webhook answered, the row says   *)
(* of the subscription what Stripe says, and entitles to the plan that was    *)
(* paid; except after requests that overlapped or changes that overtook one   *)
(* another, and after a second checkout on top of a subscription.            *)
THEOREM AgreementHolds == Spec => []RowAgrees
<1>1. IInv /\ AgreeInv => RowAgrees
  <2> SUFFICES ASSUME IInv, AgreeInv PROVE RowAgrees
    OBVIOUS
  <2>1. StatusAgrees
    <3>1. ASSUME Quiet, NEW s PROVE ~Current(s)
      BY <3>1 DEF Quiet, Current, ChangedOn
    <3>. QED
      BY <3>1 DEF StatusAgrees, AgreeInv, StatusInv, So
  <2>2. PlanPaidFor
    BY DEF PlanPaidFor, AgreeInv, PlanInv, IInv, RowInv
  <2>. QED
    BY <2>1, <2>2 DEF RowAgrees
<1>2. IInv /\ AgreeInv /\ [Next]_vars => AgreeInv'
  BY AgreeStep
<1>. QED
  BY <1>1, <1>2, AgreeInit, Invariance, PTL DEF Spec

(***************************************************************************)
(* What a workspace may build and have live: Allowances                    *)
(***************************************************************************)

(* The builds a window was charged with, the requests that are about to       *)
(* charge it, and the tools, of those that were never bought, that hold a     *)
(* slot or are about to.                                                     *)
ChargedTo(records, window) == {i \in DOMAIN records : records[i].since = window}
Charging(doing, window) ==
  {h \in Presses : doing[h].at \in {"building", "metered"} /\ doing[h].since = window}
Holds(w, kept) == kept[w] \in {"active", "building"}
Asked(w, doing) == \E h \in Presses : doing[h].at # "idle" /\ doing[h].widget = w
Taken(kept, bought, doing) ==
  {w \in Widgets : bought[w] = "never" /\ (Holds(w, kept) \/ Asked(w, doing))}

(* What a request knows: its window, which opened before it was admitted, and *)
(* before its build is metered.                                              *)
Doing(r, now) ==
  \/ r.at = "idle"
  \/ /\ r.at \in {"building", "deploying", "metered"}
     /\ r.widget \in Widgets /\ r.since \in Int
     /\ r.since # Allow!NoWindow => r.since <= now
     /\ r.at = "metered" => r.time \in Nat /\ (r.since # Allow!NoWindow => r.since <= r.time)

(* The rows, and the best plan, which the one in force is not better than.   *)
Rows0 ==
  /\ clock \in Nat
  /\ sub \in [status : Allow!Statuses, plan : Plans, until : {Allow!NoEnd} \cup Nat]
  /\ status \in [Widgets -> {"analyzed", "building", "active", "failed"}]
  /\ grant \in [Widgets -> {"never", "granted", "withdrawn"}]
  /\ running \subseteq Widgets /\ \A w \in running : Holds(w, status)
  /\ usage \in Seq([at : Nat, since : Int])
  /\ \A i \in DOMAIN usage : usage[i].since # Allow!NoWindow => usage[i].since <= usage[i].at
  /\ best \in [builds : Nat, live : Nat]
  /\ DOMAIN req = Presses /\ \A h \in Presses : Doing(req[h], clock)
  /\ Allow!Entitled => BuildLimit[sub.plan] <= best.builds /\ LiveLimit[sub.plan] <= best.live

(* No window is, or is about to be, charged with too much, and no more tools  *)
(* hold, or are about to hold, a slot than there may be.                     *)
Windows(records, doing, most) ==
  \A window \in Int \ {Allow!NoWindow} :
    Cardinality(ChargedTo(records, window)) + Cardinality(Charging(doing, window))
      < most + Cardinality(Presses)
Slots(kept, bought, doing, most) ==
  Cardinality(Taken(kept, bought, doing)) < most + Cardinality(Presses)

AllowInv ==
  /\ Rows0
  /\ Windows(usage, req, best.builds)
  /\ Slots(status, grant, req, best.live)

(* The handlers and the tools are finitely many, and the limits are numbers.  *)
LEMMA Counted ==
  /\ Cardinality(Presses) \in Nat \ {0} /\ IsFiniteSet(Presses) /\ IsFiniteSet(Widgets)
  /\ BuildLimit \in [Plans -> Nat] /\ LiveLimit \in [Plans -> Nat] /\ Month \in Nat \ {0}
<1>1. /\ IsFiniteSet(Presses) /\ IsFiniteSet(Widgets) /\ Presses # {}
      /\ BuildLimit \in [Plans -> Nat] /\ LiveLimit \in [Plans -> Nat] /\ Month \in Nat \ {0}
  BY BillingAssumption
<1>. QED
  BY <1>1, FS_CardinalityType, FS_EmptySet

(* A part of a finite set is finite and counts no more.                       *)
LEMMA NoLarger ==
  ASSUME NEW T, IsFiniteSet(T), NEW S, S \subseteq T
  PROVE  IsFiniteSet(S) /\ Cardinality(S) \in Nat /\ Cardinality(T) \in Nat
         /\ Cardinality(S) <= Cardinality(T)
BY FS_Subset, FS_CardinalityType

(* A metering window has opened when a build is charged to it.               *)
LEMMA WindowIsOpen ==
  ASSUME clock \in Nat, sub.until \in {Allow!NoEnd} \cup Nat
  PROVE  Allow!PeriodStart \in Int /\ Allow!PeriodStart <= clock
<1>1. Month \in Nat \ {0}
  BY Counted
<1>2. (clock \div Month) * Month \in Int /\ (clock \div Month) * Month <= clock
  BY <1>1
<1>3. \A n \in Int : n % Month \in Nat
  BY <1>1
<1>4. CASE ~Allow!Entitled \/ sub.until = Allow!NoEnd
  BY <1>2, <1>4 DEF Allow!PeriodStart
<1>5. CASE Allow!Entitled /\ sub.until # Allow!NoEnd /\ sub.until - Month <= clock
  BY <1>1, <1>5 DEF Allow!PeriodStart
<1>6. CASE Allow!Entitled /\ sub.until # Allow!NoEnd /\ ~(sub.until - Month <= clock)
  <2>1. Allow!PeriodStart = clock - ((clock - sub.until) % Month)
    BY <1>6 DEF Allow!PeriodStart
  <2>2. clock - sub.until \in Int
    BY <1>6
  <2>3. (clock - sub.until) % Month \in Nat
    BY <1>3, <2>2
  <2>. QED
    BY <2>1, <2>3
<1>. QED
  BY <1>4, <1>5, <1>6

(* Nothing is charged and nothing is live at first.                         *)
LEMMA AllowInit == ASSUME Allow!Init PROVE AllowInv
<1>1. clock = 0 /\ running = {} /\ usage = <<>> /\ req = [h \in Presses |-> Allow!Idle]
      /\ status = [w \in Widgets |-> "analyzed"] /\ grant = [w \in Widgets |-> "never"]
  BY DEF Allow!Init
<1>2. PICK p \in Plans, s \in {"free", "active"}, u \in {Allow!NoEnd, Month} :
        sub = [status |-> s, plan |-> p, until |-> u]
  BY DEF Allow!Init
<1>3. best = IF sub.status = "free" THEN [builds |-> 0, live |-> 0]
             ELSE [builds |-> BuildLimit[sub.plan], live |-> LiveLimit[sub.plan]]
  BY DEF Allow!Init
<1>4. Rows0
  BY <1>1, <1>2, <1>3, Counted
     DEF Rows0, Doing, Holds, Allow!Statuses, Allow!Entitling, Allow!Entitled, Allow!Idle
<1>5. Cardinality({}) = 0
  BY FS_EmptySet
<1>6. best.builds \in Nat /\ best.live \in Nat
  BY <1>4 DEF Rows0
<1>7. Windows(usage, req, best.builds)
  <2>1. ASSUME NEW window PROVE ChargedTo(usage, window) = {} /\ Charging(req, window) = {}
    BY <1>1 DEF ChargedTo, Charging, Allow!Idle
  <2>. QED
    BY <2>1, <1>5, <1>6, Counted DEF Windows
<1>8. Slots(status, grant, req, best.live)
  <2>1. Taken(status, grant, req) = {}
    BY <1>1 DEF Taken, Holds, Asked, Allow!Idle
  <2>. QED
    BY <2>1, <1>5, <1>6, Counted DEF Slots
<1>. QED
  BY <1>4, <1>7, <1>8 DEF AllowInv

(* The records are finitely many, whatever of them is counted.               *)
LEMMA RecordsFinite == ASSUME NEW X, NEW records \in Seq(X) PROVE IsFiniteSet(DOMAIN records)
<1>1. DOMAIN records = 1..Len(records) /\ Len(records) \in Nat
  OBVIOUS
<1>. QED
  BY <1>1, FS_Interval

(* What a row of usage_records is.                                           *)
LEMMA RecordIs ==
  ASSUME NEW X, NEW records \in Seq(X), NEW i \in DOMAIN records PROVE records[i] \in X
OBVIOUS

(* The records of one window are finitely many.                              *)
LEMMA ChargesCounted ==
  ASSUME NEW X, NEW records \in Seq(X), NEW window
  PROVE  IsFiniteSet(ChargedTo(records, window)) /\ Cardinality(ChargedTo(records, window)) \in Nat
BY RecordsFinite, FS_Subset, FS_CardinalityType DEF ChargedTo

(* Two sets have together no more than each has.                             *)
LEMMA UnionCounts ==
  ASSUME NEW S, IsFiniteSet(S), NEW T, IsFiniteSet(T)
  PROVE  IsFiniteSet(S \cup T) /\ Cardinality(S \cup T) <= Cardinality(S) + Cardinality(T)
<1>1. /\ IsFiniteSet(S \cup T)
      /\ Cardinality(S \cup T) = Cardinality(S) + Cardinality(T) - Cardinality(S \cap T)
  BY FS_Union
<1>2. IsFiniteSet(S \cap T)
  BY FS_Subset
<1>. QED
  BY <1>1, <1>2, FS_CardinalityType

(* As many tools are asked for as there are handlers, at most.               *)
LEMMA AskedFew ==
  ASSUME NEW doing
  PROVE  LET asked == {doing[g].widget : g \in {k \in Presses : doing[k].at # "idle"}}
         IN IsFiniteSet(asked) /\ Cardinality(asked) \in Nat /\ Cardinality(asked) <= Cardinality(Presses)
<1> DEFINE busy == {k \in Presses : doing[k].at # "idle"}
           asked == {doing[g].widget : g \in busy}
           f == [g \in busy |-> doing[g].widget]
<1>1. IsFiniteSet(busy) /\ Cardinality(busy) <= Cardinality(Presses) /\ Cardinality(busy) \in Nat
  BY Counted, NoLarger
<1>2. f \in Surjection(busy, asked)
  BY DEF Surjection
<1>3. IsFiniteSet(asked) /\ Cardinality(asked) <= Cardinality(busy)
  BY <1>1, <1>2, FS_Surjection
<1>4. Cardinality(asked) \in Nat
  BY <1>3, FS_CardinalityType
<1>. QED
  BY <1>1, <1>3, <1>4, Counted

(* A request that is admitted to no plan's window and to no new slot, or      *)
(* that leaves a window or a slot, changes nothing for the worse.            *)
LEMMA WindowsKept ==
  ASSUME NEW records, NEW doing, NEW doing1, NEW most \in Nat,
         NEW most1 \in Nat, most <= most1, Windows(records, doing, most),
         \A window \in Int \ {Allow!NoWindow} : Charging(doing1, window) \subseteq Charging(doing, window),
         records \in Seq([at : Nat, since : Int])
  PROVE  Windows(records, doing1, most1)
<1> SUFFICES ASSUME NEW window \in Int \ {Allow!NoWindow}
             PROVE  Cardinality(ChargedTo(records, window)) + Cardinality(Charging(doing1, window))
                      < most1 + Cardinality(Presses)
  BY DEF Windows
<1>1. IsFiniteSet(ChargedTo(records, window)) /\ Cardinality(ChargedTo(records, window)) \in Nat
  BY ChargesCounted
<1>2. IsFiniteSet(Charging(doing, window))
  BY Counted, FS_Subset DEF Charging
<1>3. /\ Cardinality(Charging(doing1, window)) <= Cardinality(Charging(doing, window))
      /\ Cardinality(Charging(doing1, window)) \in Nat /\ Cardinality(Charging(doing, window)) \in Nat
  BY <1>2, NoLarger
<1>. QED
  BY <1>1, <1>3, Counted DEF Windows

(* Fewer tools hold a slot than may, and fewer of them still do.             *)
LEMMA SlotsKept ==
  ASSUME NEW S, NEW T, S \subseteq T, T \subseteq Widgets,
         NEW most \in Nat, NEW most1 \in Nat, most <= most1,
         Cardinality(T) < most + Cardinality(Presses)
  PROVE  Cardinality(S) < most1 + Cardinality(Presses)
<1>1. IsFiniteSet(T)
  BY Counted, FS_Subset
<1>. QED
  BY <1>1, Counted, NoLarger

(* The presses: what was read of the builds and the slots was below the       *)
(* limit, and of the other requests there is one less than there are          *)
(* handlers.                                                                 *)
LEMMA PressStep ==
  ASSUME AllowInv, NEW h \in Presses, NEW w \in Widgets,
         NEW what \in {"building", "deploying"}, Allow!Press(h, w, what)
  PROVE  AllowInv'
<1> DEFINE since == Allow!Charged(w)
           r == [at |-> what, widget |-> w, since |-> since]
<1>1. /\ req[h] = Allow!Idle /\ Allow!Admitted(w) /\ req' = [req EXCEPT ![h] = r]
      /\ UNCHANGED <<clock, sub, status, built, running, grant, usage, best>>
  BY DEF Allow!Press, Allow!tools
<1>2. /\ clock \in Nat /\ sub.until \in {Allow!NoEnd} \cup Nat /\ sub.plan \in Plans
      /\ best.builds \in Nat /\ best.live \in Nat
      /\ DOMAIN req = Presses /\ \A g \in Presses : Doing(req[g], clock)
      /\ usage \in Seq([at : Nat, since : Int])
  BY DEF AllowInv, Rows0
<1>3. since \in Int /\ (since # Allow!NoWindow => since <= clock)
  BY <1>2, WindowIsOpen DEF Allow!Charged, Allow!NoWindow
<1>4. since # Allow!NoWindow =>
        /\ grant[w] # "granted" /\ since = Allow!PeriodStart
        /\ Allow!Entitled /\ Allow!CanBuild
  BY <1>1 DEF Allow!Charged, Allow!Admitted
<1>5. grant[w] # "granted" =>
        /\ Allow!Entitled
        /\ Holds(w, status) \/ Allow!LiveTools < LiveLimit[sub.plan]
  BY <1>1 DEF Allow!Admitted, Allow!CanPublish, Allow!Occupies, Holds
<1> HIDE DEF since
<1>6. DOMAIN req' = Presses /\ req'[h] = r /\ \A g \in Presses \ {h} : req'[g] = req[g]
  BY <1>1, <1>2
<1>7. Rows0'
  <2>1. r.at # "metered" /\ r.at \in {"building", "deploying", "metered"}
    OBVIOUS
  <2>2. Doing(r, clock)
    BY <1>3, <2>1 DEF Doing
  <2>3. \A g \in Presses : Doing(req'[g], clock)
    BY <1>2, <1>6, <2>2
  <2>. QED
    BY <1>1, <1>6, <2>3 DEF AllowInv, Rows0, Allow!Entitled
<1>8. Windows(usage, req', best.builds)
  <2> SUFFICES ASSUME NEW window \in Int \ {Allow!NoWindow}
               PROVE  Cardinality(ChargedTo(usage, window)) + Cardinality(Charging(req', window))
                        < best.builds + Cardinality(Presses)
    BY DEF Windows
  <2>1. CASE window # since
    <3>1. Charging(req', window) = Charging(req, window)
      BY <1>1, <1>6, <2>1 DEF Charging, Allow!Idle
    <3>. QED
      BY <3>1 DEF AllowInv, Windows
  <2>2. CASE window = since
    <3>1. Allow!Entitled /\ Allow!CanBuild /\ since = Allow!PeriodStart
      BY <1>4, <2>2
    <3> DEFINE counted == {i \in DOMAIN usage : usage[i].at >= Allow!PeriodStart}
    <3>2. ChargedTo(usage, window) \subseteq counted
      BY <1>2, <1>3, <2>2, <3>1 DEF ChargedTo, AllowInv, Rows0
    <3>3. IsFiniteSet(counted)
      BY <1>2, RecordsFinite, FS_Subset
    <3>4. Allow!BuildsThisPeriod = Cardinality(counted)
      BY DEF Allow!BuildsThisPeriod, Allow!Cardinality, Cardinality
    <3> HIDE DEF counted
    <3>5. Cardinality(ChargedTo(usage, window)) <= Cardinality(counted)
          /\ Cardinality(ChargedTo(usage, window)) \in Nat /\ Cardinality(counted) \in Nat
      BY <3>2, <3>3, NoLarger
    <3>6. Cardinality(counted) < BuildLimit[sub.plan] /\ BuildLimit[sub.plan] <= best.builds
      BY <3>1, <3>4 DEF Allow!CanBuild, AllowInv, Rows0
    <3>7. Cardinality(Charging(req', window)) <= Cardinality(Presses)
          /\ Cardinality(Charging(req', window)) \in Nat
      BY Counted, NoLarger DEF Charging
    <3>8. BuildLimit[sub.plan] \in Nat
      BY <1>2, Counted
    <3>9. Cardinality(Presses) \in Nat
      BY Counted
    <3>. QED
      BY <1>2, <3>5, <3>6, <3>7, <3>8, <3>9
  <2>. QED
    BY <2>1, <2>2
<1>9. Slots(status, grant, req', best.live)
  <2> DEFINE held == {v \in Widgets : Allow!Occupies(v)}
             asked == {req'[g].widget : g \in {k \in Presses : req'[k].at # "idle"}}
  <2>1. CASE grant[w] # "never" \/ Holds(w, status)
    <3>1. Taken(status, grant, req') \subseteq Taken(status, grant, req)
      BY <1>6, <2>1 DEF Taken, Asked
    <3>2. Taken(status, grant, req) \subseteq Widgets
      BY DEF Taken
    <3>3. Cardinality(Taken(status, grant, req)) < best.live + Cardinality(Presses)
      BY DEF AllowInv, Slots
    <3>4. PICK S : S = Taken(status, grant, req')
      OBVIOUS
    <3>5. Cardinality(S) < best.live + Cardinality(Presses)
      <4>1. PICK most \in Nat : most = best.live
        BY <1>2
      <4>2. most <= most
        BY <4>1
      <4>. QED
        BY <3>1, <3>2, <3>3, <3>4, <4>1, <4>2, SlotsKept
    <3>. QED
      BY <3>4, <3>5 DEF Slots
  <2>2. CASE grant[w] = "never" /\ ~Holds(w, status)
    <3>1. Allow!Entitled /\ Allow!LiveTools < LiveLimit[sub.plan]
      BY <1>5, <2>2
    <3>2. Taken(status, grant, req') \subseteq held \cup asked
      BY DEF Taken, Asked, Holds, Allow!Occupies
    <3>3. IsFiniteSet(held) /\ Cardinality(held) \in Nat
      BY Counted, FS_Subset, FS_CardinalityType
    <3>4. IsFiniteSet(asked) /\ Cardinality(asked) \in Nat /\ Cardinality(asked) <= Cardinality(Presses)
      BY AskedFew
    <3>5. Allow!LiveTools = Cardinality(held)
      BY DEF Allow!LiveTools, Allow!Cardinality, Cardinality
    <3>6. LiveLimit[sub.plan] <= best.live /\ LiveLimit[sub.plan] \in Nat
      BY <1>2, <3>1, Counted DEF AllowInv, Rows0
    <3> HIDE DEF held, asked
    <3>7. IsFiniteSet(held \cup asked) /\ Cardinality(held \cup asked) <= Cardinality(held) + Cardinality(asked)
      BY <3>3, <3>4, UnionCounts
    <3>8. Cardinality(Taken(status, grant, req')) <= Cardinality(held \cup asked)
          /\ Cardinality(Taken(status, grant, req')) \in Nat /\ Cardinality(held \cup asked) \in Nat
      BY <3>2, <3>7, NoLarger
    <3>9. Cardinality(Presses) \in Nat
      BY Counted
    <3>10. Cardinality(Taken(status, grant, req')) < best.live + Cardinality(Presses)
      BY <1>2, <3>1, <3>3, <3>4, <3>5, <3>6, <3>7, <3>8, <3>9
    <3>. QED
      BY <3>10 DEF Slots
  <2>. QED
    BY <1>2, <2>1, <2>2 DEF AllowInv, Rows0
<1>. QED
  BY <1>1, <1>7, <1>8, <1>9 DEF AllowInv

(* Where the requests, the tools and the grants only leave, the counts stay.  *)
LEMMA CountsKept ==
  ASSUME AllowInv, UNCHANGED usage,
         best'.builds \in Nat, best'.live \in Nat,
         best.builds <= best'.builds, best.live <= best'.live,
         \A window \in Int \ {Allow!NoWindow} : Charging(req', window) \subseteq Charging(req, window),
         Taken(status', grant', req') \subseteq Taken(status, grant, req)
  PROVE  Windows(usage', req', best'.builds) /\ Slots(status', grant', req', best'.live)
<1>1. /\ usage \in Seq([at : Nat, since : Int]) /\ best.builds \in Nat /\ best.live \in Nat
      /\ Windows(usage, req, best.builds) /\ Slots(status, grant, req, best.live)
  BY DEF AllowInv, Rows0
<1>2. PICK most \in Nat, most1 \in Nat : most = best.builds /\ most1 = best'.builds
  BY <1>1
<1>3. PICK doing : doing = req'
  OBVIOUS
<1>4. PICK S, T : S = Taken(status', grant', req') /\ T = Taken(status, grant, req)
  OBVIOUS
<1>5. PICK live \in Nat, live1 \in Nat : live = best.live /\ live1 = best'.live
  BY <1>1
<1>6. Windows(usage, doing, most1)
  <2>1. most <= most1 /\ Windows(usage, req, most)
    BY <1>1, <1>2
  <2>2. \A window \in Int \ {Allow!NoWindow} : Charging(doing, window) \subseteq Charging(req, window)
    BY <1>3
  <2>. QED
    BY <1>1, <2>1, <2>2, WindowsKept
<1>7. Cardinality(S) < live1 + Cardinality(Presses)
  <2>1. S \subseteq T /\ live <= live1
    BY <1>4, <1>5
  <2>2. T \subseteq Widgets
    BY <1>4 DEF Taken
  <2>3. Cardinality(T) < live + Cardinality(Presses)
    BY <1>1, <1>4, <1>5 DEF Slots
  <2>. QED
    BY <2>1, <2>2, <2>3, SlotsKept
<1>8. Windows(usage', req', best'.builds)
  BY <1>2, <1>3, <1>6
<1>9. Slots(status', grant', req', best'.live)
  BY <1>4, <1>5, <1>7 DEF Slots
<1>. QED
  BY <1>8, <1>9

(* The build is queued and its metering noted: the window it was admitted to  *)
(* opened before the time that is noted.                                     *)
LEMMA MeterStep ==
  ASSUME AllowInv, NEW h \in Presses, Allow!Meter(h)
  PROVE  AllowInv'
<1> DEFINE r == [at |-> "metered", widget |-> req[h].widget, since |-> req[h].since, time |-> clock]
<1>1. /\ req[h].at = "building"
      /\ UNCHANGED <<clock, sub, status, built, running, grant, usage, best>>
  BY DEF Allow!Meter, Allow!tools
<1>2. clock \in Nat /\ DOMAIN req = Presses /\ \A g \in Presses : Doing(req[g], clock)
  BY DEF AllowInv, Rows0
<1>3. DOMAIN req' = Presses /\ req'[h] = r /\ \A g \in Presses \ {h} : req'[g] = req[g]
  BY <1>2 DEF Allow!Meter
<1>4. Doing(req[h], clock)
  BY <1>2
<1>5. Doing(r, clock)
  BY <1>1, <1>2, <1>4 DEF Doing
<1>6. \A g \in Presses : Doing(req'[g], clock)
  BY <1>2, <1>3, <1>5
<1>7. Rows0'
  BY <1>1, <1>3, <1>6 DEF AllowInv, Rows0, Allow!Entitled
<1>8. \A window \in Int \ {Allow!NoWindow} : Charging(req', window) \subseteq Charging(req, window)
  BY <1>1, <1>3 DEF Charging
<1>9. Taken(status', grant', req') \subseteq Taken(status, grant, req)
  BY <1>1, <1>3 DEF Taken, Asked
<1>10. best.builds \in Nat /\ best.live \in Nat
  BY DEF AllowInv, Rows0
<1>11. /\ best'.builds \in Nat /\ best'.live \in Nat
       /\ best.builds <= best'.builds /\ best.live <= best'.live /\ UNCHANGED usage
  BY <1>1, <1>10
<1>. QED
  BY <1>7, <1>8, <1>9, <1>11, CountsKept DEF AllowInv

(* The request ends: it charges nothing any more.                            *)
LEMMA RequestEnds ==
  ASSUME AllowInv, NEW h \in Presses, req' = [req EXCEPT ![h] = Allow!Idle]
  PROVE  /\ DOMAIN req' = Presses /\ req'[h] = Allow!Idle
         /\ \A g \in Presses \ {h} : req'[g] = req[g]
         /\ \A g \in Presses : Doing(req'[g], clock)
         /\ \A window : Charging(req', window) = Charging(req, window) \ {h}
<1>1. DOMAIN req = Presses /\ \A g \in Presses : Doing(req[g], clock)
  BY DEF AllowInv, Rows0
<1>2. DOMAIN req' = Presses /\ req'[h] = Allow!Idle /\ \A g \in Presses \ {h} : req'[g] = req[g]
  BY <1>1
<1>3. Doing(Allow!Idle, clock)
  BY DEF Doing, Allow!Idle
<1>4. \A g \in Presses : Doing(req'[g], clock)
  BY <1>1, <1>2, <1>3
<1>5. \A window : Charging(req', window) = Charging(req, window) \ {h}
  BY <1>2 DEF Charging, Allow!Idle
<1>. QED
  BY <1>2, <1>4, <1>5

(* A request is rolled back: its tool is asked for no more.                  *)
LEMMA AbandonStep ==
  ASSUME AllowInv, NEW h \in Presses, Allow!Abandon(h)
  PROVE  AllowInv'
<1>1. /\ req' = [req EXCEPT ![h] = Allow!Idle]
      /\ UNCHANGED <<clock, sub, status, built, running, grant, usage, best>>
  BY DEF Allow!Abandon, Allow!tools
<1>2. /\ DOMAIN req' = Presses /\ req'[h] = Allow!Idle
      /\ \A g \in Presses \ {h} : req'[g] = req[g]
      /\ \A g \in Presses : Doing(req'[g], clock)
      /\ \A window : Charging(req', window) = Charging(req, window) \ {h}
  BY <1>1, RequestEnds
<1>3. Rows0'
  BY <1>1, <1>2 DEF AllowInv, Rows0, Allow!Entitled
<1>4. \A window \in Int \ {Allow!NoWindow} : Charging(req', window) \subseteq Charging(req, window)
  BY <1>2
<1>5. Taken(status', grant', req') \subseteq Taken(status, grant, req)
  BY <1>1, <1>2 DEF Taken, Asked, Allow!Idle
<1>6. best.builds \in Nat /\ best.live \in Nat
  BY DEF AllowInv, Rows0
<1>7. /\ best'.builds \in Nat /\ best'.live \in Nat
      /\ best.builds <= best'.builds /\ best.live <= best'.live /\ UNCHANGED usage
  BY <1>1, <1>6
<1>. QED
  BY <1>3, <1>4, <1>5, <1>7, CountsKept DEF AllowInv

(* What is on disk goes live: the request held the slot already.             *)
LEMMA DeployStep ==
  ASSUME AllowInv, NEW h \in Presses, Allow!CommitDeploy(h)
  PROVE  AllowInv'
<1> DEFINE w == req[h].widget
<1>1. /\ req[h].at = "deploying" /\ req' = [req EXCEPT ![h] = Allow!Idle]
      /\ status' = [status EXCEPT ![w] = "active"]
      /\ UNCHANGED <<clock, sub, built, running, grant, usage, best>>
  BY DEF Allow!CommitDeploy
<1>2. /\ DOMAIN req' = Presses /\ req'[h] = Allow!Idle
      /\ \A g \in Presses \ {h} : req'[g] = req[g]
      /\ \A g \in Presses : Doing(req'[g], clock)
      /\ \A window : Charging(req', window) = Charging(req, window) \ {h}
  BY <1>1, RequestEnds
<1>3. /\ status \in [Widgets -> {"analyzed", "building", "active", "failed"}]
      /\ running \subseteq Widgets /\ \A v \in running : Holds(v, status)
      /\ best.builds \in Nat /\ best.live \in Nat
  BY DEF AllowInv, Rows0
<1>4. w \in Widgets
  BY <1>1 DEF AllowInv, Rows0, Doing
<1>5. /\ status' \in [Widgets -> {"analyzed", "building", "active", "failed"}]
      /\ status'[w] = "active" /\ \A v \in Widgets \ {w} : status'[v] = status[v]
  BY <1>1, <1>3, <1>4
<1>6. \A v \in running' : Holds(v, status')
  BY <1>1, <1>3, <1>5 DEF Holds
<1>7. Rows0'
  BY <1>1, <1>2, <1>5, <1>6 DEF AllowInv, Rows0, Allow!Entitled
<1>8. \A window \in Int \ {Allow!NoWindow} : Charging(req', window) \subseteq Charging(req, window)
  BY <1>2
<1>9. Taken(status', grant', req') \subseteq Taken(status, grant, req)
  BY <1>1, <1>2, <1>5 DEF Taken, Asked, Holds, Allow!Idle
<1>10. /\ best'.builds \in Nat /\ best'.live \in Nat
       /\ best.builds <= best'.builds /\ best.live <= best'.live /\ UNCHANGED usage
  BY <1>1, <1>3
<1>. QED
  BY <1>7, <1>8, <1>9, <1>10, CountsKept DEF AllowInv

(* The build is recorded and its tool takes the slot the request held: the    *)
(* window it is charged to gains a record and loses a request.               *)
LEMMA BuildStep ==
  ASSUME AllowInv, NEW h \in Presses, Allow!CommitBuild(h)
  PROVE  AllowInv'
<1> DEFINE w == req[h].widget
           r == [at |-> req[h].time, since |-> req[h].since]
<1>1. /\ req[h].at = "metered" /\ req' = [req EXCEPT ![h] = Allow!Idle]
      /\ usage' = Append(usage, r) /\ running' = running \cup {w}
      /\ status' = [status EXCEPT ![w] = "building"]
      /\ UNCHANGED <<clock, sub, built, grant, best>>
  BY DEF Allow!CommitBuild
<1>2. /\ DOMAIN req' = Presses /\ req'[h] = Allow!Idle
      /\ \A g \in Presses \ {h} : req'[g] = req[g]
      /\ \A g \in Presses : Doing(req'[g], clock)
      /\ \A window : Charging(req', window) = Charging(req, window) \ {h}
  BY <1>1, RequestEnds
<1>3. /\ status \in [Widgets -> {"analyzed", "building", "active", "failed"}]
      /\ running \subseteq Widgets /\ \A v \in running : Holds(v, status)
      /\ best.builds \in Nat /\ best.live \in Nat
      /\ usage \in Seq([at : Nat, since : Int])
      /\ \A i \in DOMAIN usage : usage[i].since # Allow!NoWindow => usage[i].since <= usage[i].at
  BY DEF AllowInv, Rows0
<1>4. /\ w \in Widgets /\ req[h].time \in Nat /\ req[h].since \in Int
      /\ req[h].since # Allow!NoWindow => req[h].since <= req[h].time
  BY <1>1 DEF AllowInv, Rows0, Doing
<1>5. /\ status' \in [Widgets -> {"analyzed", "building", "active", "failed"}]
      /\ status'[w] = "building" /\ \A v \in Widgets \ {w} : status'[v] = status[v]
  BY <1>1, <1>3, <1>4
<1>6. /\ running' \subseteq Widgets /\ \A v \in running' : Holds(v, status')
  BY <1>1, <1>3, <1>4, <1>5 DEF Holds
<1>7. r \in [at : Nat, since : Int]
  BY <1>4
<1>8. /\ usage' \in Seq([at : Nat, since : Int])
      /\ Len(usage') = Len(usage) + 1 /\ Len(usage) \in Nat
      /\ DOMAIN usage' = 1..(Len(usage) + 1) /\ DOMAIN usage = 1..Len(usage)
      /\ usage'[Len(usage) + 1] = r /\ \A i \in DOMAIN usage : usage'[i] = usage[i]
  <2> DEFINE T == [at : Nat, since : Int]
  <2>1. PICK u : u = usage'
    OBVIOUS
  <2>2. usage \in Seq(T) /\ r \in T /\ u = Append(usage, r)
    BY <1>1, <1>3, <1>7, <2>1
  <2> HIDE DEF T, r
  <2>3. /\ u \in Seq(T) /\ Len(u) = Len(usage) + 1 /\ Len(usage) \in Nat
        /\ DOMAIN u = 1..(Len(usage) + 1) /\ DOMAIN usage = 1..Len(usage)
        /\ u[Len(usage) + 1] = r /\ \A i \in DOMAIN usage : u[i] = usage[i]
    BY <2>2
  <2> QED
    BY <2>1, <2>3 DEF T, r
<1>9. \A i \in DOMAIN usage' : usage'[i].since # Allow!NoWindow => usage'[i].since <= usage'[i].at
  <2> SUFFICES ASSUME NEW i \in DOMAIN usage', usage'[i].since # Allow!NoWindow
               PROVE  usage'[i].since <= usage'[i].at
    OBVIOUS
  <2>1. CASE i = Len(usage) + 1
    BY <1>4, <1>8, <2>1
  <2>2. CASE i # Len(usage) + 1
    <3>1. i \in DOMAIN usage
      BY <1>8, <2>2
    <3>. QED
      BY <1>3, <1>8, <3>1
  <2>. QED
    BY <2>1, <2>2
<1>10. Rows0'
  BY <1>1, <1>2, <1>5, <1>6, <1>8, <1>9 DEF AllowInv, Rows0, Allow!Entitled
<1>11. Windows(usage', req', best.builds)
  <2> SUFFICES ASSUME NEW window \in Int \ {Allow!NoWindow}
               PROVE  Cardinality(ChargedTo(usage', window)) + Cardinality(Charging(req', window))
                        < best.builds + Cardinality(Presses)
    BY DEF Windows
  <2>1. PICK charged, more, asking, fewer :
          /\ charged = ChargedTo(usage, window) /\ more = ChargedTo(usage', window)
          /\ asking = Charging(req, window) /\ fewer = Charging(req', window)
    OBVIOUS
  <2>2. Cardinality(charged) + Cardinality(asking) < best.builds + Cardinality(Presses)
    BY <2>1 DEF AllowInv, Windows
  <2>3. IsFiniteSet(charged) /\ Cardinality(charged) \in Nat
    BY <1>3, <2>1, ChargesCounted
  <2>4. IsFiniteSet(asking) /\ Cardinality(asking) \in Nat
    BY <2>1, Counted, NoLarger DEF Charging
  <2>5. CASE req[h].since = window
    <3>1. more = charged \cup {Len(usage) + 1} /\ Len(usage) + 1 \notin charged
      BY <1>8, <2>1, <2>5 DEF ChargedTo
    <3>2. Cardinality(more) = Cardinality(charged) + 1
      BY <2>3, <3>1, FS_AddElement
    <3>3. h \in asking
      BY <1>1, <2>1, <2>5 DEF Charging
    <3>4. fewer = asking \ {h}
      BY <1>2, <2>1
    <3>5. Cardinality(fewer) = Cardinality(asking) - 1
      BY <2>4, <3>3, <3>4, FS_RemoveElement
    <3>6. Cardinality(Presses) \in Nat
      BY Counted
    <3>. QED
      BY <1>3, <2>1, <2>2, <2>3, <2>4, <3>2, <3>5, <3>6
  <2>6. CASE req[h].since # window
    <3>1. more = charged
      BY <1>8, <2>1, <2>6 DEF ChargedTo
    <3>2. fewer = asking
      BY <1>2, <2>1, <2>6 DEF Charging
    <3>. QED
      BY <2>1, <2>2, <3>1, <3>2
  <2>. QED
    BY <2>5, <2>6
<1>12. Slots(status', grant', req', best.live)
  <2>1. PICK S, T : S = Taken(status', grant', req') /\ T = Taken(status, grant, req)
    OBVIOUS
  <2>2. S \subseteq T
    BY <1>1, <1>2, <1>5, <2>1 DEF Taken, Asked, Holds, Allow!Idle
  <2>3. T \subseteq Widgets /\ Cardinality(T) < best.live + Cardinality(Presses)
    BY <2>1 DEF Taken, AllowInv, Slots
  <2>4. PICK most \in Nat : most = best.live
    BY <1>3
  <2>5. most <= most
    BY <2>4
  <2>6. Cardinality(S) < best.live + Cardinality(Presses)
    BY <2>2, <2>3, <2>4, <2>5, SlotsKept
  <2>. QED
    BY <2>1, <2>6 DEF Slots
<1>. QED
  BY <1>1, <1>10, <1>11, <1>12 DEF AllowInv

(* A build ends: its tool held a slot until now.                             *)
LEMMA EndStep ==
  ASSUME AllowInv, NEW w \in Widgets, Allow!EndBuild(w)
  PROVE  AllowInv'
<1>1. /\ w \in running /\ running' = running \ {w}
      /\ \E outcome \in {"active", "analyzed", "failed"} : status' = [status EXCEPT ![w] = outcome]
      /\ UNCHANGED <<clock, sub, grant, usage, req, best>>
  BY DEF Allow!EndBuild
<1>2. /\ status \in [Widgets -> {"analyzed", "building", "active", "failed"}]
      /\ running \subseteq Widgets /\ \A v \in running : Holds(v, status)
      /\ best.builds \in Nat /\ best.live \in Nat
  BY DEF AllowInv, Rows0
<1>3. /\ status' \in [Widgets -> {"analyzed", "building", "active", "failed"}]
      /\ \A v \in Widgets \ {w} : status'[v] = status[v]
  BY <1>1, <1>2
<1>4. running' \subseteq Widgets /\ \A v \in running' : Holds(v, status')
  BY <1>1, <1>2, <1>3 DEF Holds
<1>5. Rows0'
  BY <1>1, <1>3, <1>4 DEF AllowInv, Rows0, Allow!Entitled
<1>6. Holds(w, status)
  BY <1>1, <1>2
<1>7. Taken(status', grant', req') \subseteq Taken(status, grant, req)
  BY <1>1, <1>3, <1>6 DEF Taken, Holds, Asked
<1>8. \A window \in Int \ {Allow!NoWindow} : Charging(req', window) \subseteq Charging(req, window)
  BY <1>1
<1>9. /\ best'.builds \in Nat /\ best'.live \in Nat
      /\ best.builds <= best'.builds /\ best.live <= best'.live /\ UNCHANGED usage
  BY <1>1, <1>2
<1>. QED
  BY <1>5, <1>7, <1>8, <1>9, CountsKept DEF AllowInv

(* A tool that was bought is never again one that was not.                   *)
LEMMA GrantStep ==
  ASSUME AllowInv, NEW w \in Widgets, Allow!ChangeGrant(w)
  PROVE  AllowInv'
<1>1. /\ grant' = [grant EXCEPT ![w] = IF grant[w] = "granted" THEN "withdrawn" ELSE "granted"]
      /\ UNCHANGED <<clock, sub, status, built, running, usage, req, best>>
  BY DEF Allow!ChangeGrant, Allow!tools
<1>2. /\ grant \in [Widgets -> {"never", "granted", "withdrawn"}]
      /\ best.builds \in Nat /\ best.live \in Nat
  BY DEF AllowInv, Rows0
<1>3. /\ grant' \in [Widgets -> {"never", "granted", "withdrawn"}]
      /\ grant'[w] # "never" /\ \A v \in Widgets \ {w} : grant'[v] = grant[v]
  BY <1>1, <1>2
<1>4. Rows0'
  BY <1>1, <1>3 DEF AllowInv, Rows0, Allow!Entitled
<1>5. Taken(status', grant', req') \subseteq Taken(status, grant, req)
  BY <1>1, <1>3 DEF Taken
<1>6. \A window \in Int \ {Allow!NoWindow} : Charging(req', window) \subseteq Charging(req, window)
  BY <1>1
<1>7. /\ best'.builds \in Nat /\ best'.live \in Nat
      /\ best.builds <= best'.builds /\ best.live <= best'.live /\ UNCHANGED usage
  BY <1>1, <1>2
<1>. QED
  BY <1>4, <1>5, <1>6, <1>7, CountsKept DEF AllowInv

(* News of the subscription: the best plan is at least the new one.          *)
LEMMA PlanStep ==
  ASSUME AllowInv, NEW s \in {"active", "canceled"}, NEW p \in Plans,
         NEW until \in {Allow!NoEnd, clock + Month}, Allow!ChangeSubscription(s, p, until)
  PROVE  AllowInv'
<1>1. /\ sub' = [status |-> s, plan |-> p, until |-> until]
      /\ best' = IF s \in Allow!Entitling
                 THEN [builds |-> Allow!Larger(best.builds, BuildLimit[p]),
                       live |-> Allow!Larger(best.live, LiveLimit[p])]
                 ELSE best
      /\ UNCHANGED <<clock, status, built, running, grant, usage, req>>
  BY DEF Allow!ChangeSubscription, Allow!tools
<1>2. /\ clock \in Nat /\ best \in [builds : Nat, live : Nat]
      /\ BuildLimit[p] \in Nat /\ LiveLimit[p] \in Nat /\ Month \in Nat
  BY Counted DEF AllowInv, Rows0
<1>3. /\ best' \in [builds : Nat, live : Nat]
      /\ best.builds <= best'.builds /\ best.live <= best'.live
      /\ s \in Allow!Entitling => BuildLimit[p] <= best'.builds /\ LiveLimit[p] <= best'.live
  <2>1. CASE s \in Allow!Entitling
    BY <1>1, <1>2, <2>1 DEF Allow!Larger
  <2>2. CASE s \notin Allow!Entitling
    BY <1>1, <1>2, <2>2
  <2>. QED
    BY <2>1, <2>2
<1>4. sub' \in [status : Allow!Statuses, plan : Plans, until : {Allow!NoEnd} \cup Nat]
  BY <1>1, <1>2 DEF Allow!Statuses, Allow!Entitling
<1>5. Rows0'
  BY <1>1, <1>3, <1>4 DEF AllowInv, Rows0, Allow!Entitled
<1>6. /\ Taken(status', grant', req') \subseteq Taken(status, grant, req)
      /\ \A window \in Int \ {Allow!NoWindow} : Charging(req', window) \subseteq Charging(req, window)
      /\ best'.builds \in Nat /\ best'.live \in Nat /\ UNCHANGED usage
  BY <1>1, <1>3
<1>. QED
  BY <1>3, <1>5, <1>6, CountsKept DEF AllowInv

(* The period is renewed: the plan stays.                                    *)
LEMMA RenewStep == ASSUME AllowInv, Allow!Renew PROVE AllowInv'
<1>1. /\ sub.until # Allow!NoEnd /\ sub' = [sub EXCEPT !.until = sub.until + Month]
      /\ UNCHANGED <<clock, status, built, running, grant, usage, req, best>>
  BY DEF Allow!Renew, Allow!tools
<1>2. /\ sub \in [status : Allow!Statuses, plan : Plans, until : {Allow!NoEnd} \cup Nat] /\ Month \in Nat
  BY Counted DEF AllowInv, Rows0
<1>3. /\ sub' \in [status : Allow!Statuses, plan : Plans, until : {Allow!NoEnd} \cup Nat]
      /\ sub'.status = sub.status /\ sub'.plan = sub.plan
  BY <1>1, <1>2
<1>4. Rows0'
  BY <1>1, <1>3 DEF AllowInv, Rows0, Allow!Entitled
<1>. QED
  BY <1>1, <1>4 DEF AllowInv

(* Time passes: the windows that were open are.                             *)
LEMMA TickStep == ASSUME AllowInv, Allow!Tick PROVE AllowInv'
<1>1. /\ clock' = clock + 1
      /\ UNCHANGED <<sub, status, built, running, grant, usage, req, best>>
  BY DEF Allow!Tick, Allow!tools
<1>2. clock \in Nat /\ \A h \in Presses : Doing(req[h], clock)
  BY DEF AllowInv, Rows0
<1>3. \A h \in Presses : Doing(req[h], clock + 1)
  BY <1>2 DEF Doing
<1>4. Rows0'
  BY <1>1, <1>2, <1>3 DEF AllowInv, Rows0, Allow!Entitled
<1>. QED
  BY <1>1, <1>4 DEF AllowInv

(* Nothing happens.                                                         *)
LEMMA AllowIdle == ASSUME AllowInv, UNCHANGED Allow!vars PROVE AllowInv'
<1>1. UNCHANGED <<clock, sub, status, built, running, grant, usage, req, best>>
  BY DEF Allow!vars, Allow!tools
<1>. QED
  BY <1>1 DEF AllowInv, Rows0, Allow!Entitled

(* Every step keeps AllowInv.                                               *)
LEMMA AllowStep ==
  ASSUME AllowInv, [Allow!Next]_Allow!vars PROVE AllowInv'
<1>1. ASSUME NEW h \in Presses, NEW w \in Widgets, Allow!PressBuild(h, w) \/ Allow!PressDeploy(h, w)
      PROVE  AllowInv'
  BY <1>1, PressStep DEF Allow!PressBuild, Allow!PressDeploy
<1>. QED
  BY <1>1, MeterStep, BuildStep, DeployStep, AbandonStep, EndStep, GrantStep, PlanStep, RenewStep,
     TickStep, AllowIdle DEF Allow!Next

(* What was charged and what holds a slot is a part of what is counted.      *)
LEMMA AllowBounds ==
  ASSUME AllowInv PROVE Allow!OvershootBounded
<1>1. Windows(usage, req, best.builds) /\ Slots(status, grant, req, best.live)
  BY DEF AllowInv
<1>2. usage \in Seq([at : Nat, since : Int]) /\ best.builds \in Nat /\ best.live \in Nat
  BY DEF AllowInv, Rows0
<1>3. ASSUME NEW i \in DOMAIN usage PROVE usage[i].since \in Int
  <2>1. usage[i] \in [at : Nat, since : Int]
    BY <1>2, <1>3, RecordIs
  <2>. QED
    BY <2>1
<1>4. Cardinality(Presses) \in Nat
  BY Counted
<1>5. ASSUME NEW i \in DOMAIN usage, usage[i].since # Allow!NoWindow
      PROVE  Cardinality({j \in DOMAIN usage : usage[j].since = usage[i].since})
               < best.builds + Cardinality(Presses)
  <2>1. PICK window \in Int \ {Allow!NoWindow} : window = usage[i].since
    BY <1>5, <1>3
  <2>2. Cardinality(ChargedTo(usage, window)) + Cardinality(Charging(req, window))
          < best.builds + Cardinality(Presses)
    BY <1>1 DEF Windows
  <2>3. Cardinality(ChargedTo(usage, window)) \in Nat
    BY <1>2, ChargesCounted
  <2>4. Cardinality(Charging(req, window)) \in Nat
    <3>1. Charging(req, window) \subseteq Presses
      BY DEF Charging
    <3>. QED
      BY <3>1, Counted, NoLarger
  <2>5. PICK charged, asking : charged = Cardinality(ChargedTo(usage, window))
                               /\ asking = Cardinality(Charging(req, window))
    OBVIOUS
  <2>6. charged \in Nat /\ asking \in Nat
    BY <2>3, <2>4, <2>5
  <2>7. PICK most : most = best.builds + Cardinality(Presses)
    OBVIOUS
  <2>8. most \in Nat
    <3>1. best.builds \in Nat
      BY <1>2
    <3>. QED
      BY <1>4, <2>7, <3>1
  <2>9. charged + asking < most
    BY <2>2, <2>5, <2>7
  <2>10. charged < most
    BY <2>6, <2>8, <2>9
  <2>. QED
    BY <2>1, <2>5, <2>7, <2>10 DEF ChargedTo
<1>6. Allow!BuildsBounded
  BY <1>5 DEF Allow!BuildsBounded, Allow!Cardinality, Cardinality
<1>7. Cardinality({w \in Widgets : Allow!Occupies(w) /\ grant[w] = "never"})
        < best.live + Cardinality(Presses)
  <2>1. PICK S, T : /\ S = {w \in Widgets : Allow!Occupies(w) /\ grant[w] = "never"}
                    /\ T = Taken(status, grant, req)
    OBVIOUS
  <2>2. S \subseteq T /\ T \subseteq Widgets
    BY <2>1 DEF Taken, Holds, Allow!Occupies
  <2>3. Cardinality(T) < best.live + Cardinality(Presses)
    BY <1>1, <2>1 DEF Slots
  <2>4. PICK most \in Nat : most = best.live
    BY <1>2
  <2>5. most <= most
    BY <2>4
  <2>6. Cardinality(S) < best.live + Cardinality(Presses)
    BY <2>2, <2>3, <2>4, <2>5, SlotsKept
  <2>. QED
    BY <2>1, <2>6
<1>8. Allow!SlotsBounded
  BY <1>7 DEF Allow!SlotsBounded, Allow!Cardinality, Cardinality
<1>. QED
  BY <1>6, <1>8 DEF Allow!OvershootBounded

(* A behaviour of the workspace's billing is one of each of its two parts.   *)
THEOREM BillingParts == BillingSpec => Spec /\ Allow!Spec
<1>1. BillingInit => Init /\ Allow!Init
  BY DEF BillingInit
<1>2. UNCHANGED allowVars => UNCHANGED Allow!vars
  BY DEF allowVars, Allow!vars, Allow!tools
<1>3. [BillingNext]_<<vars, allowVars>> => [Next]_vars /\ [Allow!Next]_Allow!vars
  BY <1>2 DEF BillingNext
<1>. QED
  BY <1>1, <1>3, PTL DEF BillingSpec, Spec, Allow!Spec

(* OvershootBounded (see Allowances): however presses, renewals and changes  *)
(* of plan overlap, neither the builds that one window is charged with nor    *)
(* the live tools that were never bought exceed the best plan by more than    *)
(* the other requests in flight, although nothing locks what is counted.     *)
THEOREM OvershootHolds == BillingSpec => []OvershootBounded
<1>1. Allow!Init => AllowInv
  BY AllowInit
<1>2. AllowInv /\ [Allow!Next]_Allow!vars => AllowInv'
  BY AllowStep
<1>3. AllowInv => OvershootBounded
  BY AllowBounds DEF OvershootBounded
<1>. QED
  BY <1>1, <1>2, <1>3, BillingParts, PTL DEF Allow!Spec
=============================================================================
