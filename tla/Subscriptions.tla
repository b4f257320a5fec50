--------------------------- MODULE Subscriptions ---------------------------
(***************************************************************************)
(* The plan of one workspace (features/payments): its one row of            *)
(* subscriptions, the checkout sessions and subscriptions at Stripe, and    *)
(* the handlers that bring the two together: the checkout, the customer's   *)
(* return, and the webhooks.                                                *)
(*                                                                          *)
(* A handler loads the row, may ask Stripe, and commits the columns that    *)
(* differ from what it loaded, at READ COMMITTED and without a lock.        *)
(* Webhooks come at least once, in any order, and are sent again until they *)
(* are answered with success.                                               *)
(*                                                                          *)
(* A subscription at Stripe has the name of the session that sold it.       *)
(***************************************************************************)
EXTENDS Integers, FiniteSets

CONSTANTS
  Handlers,    \* bound on the requests that are handled at once
  Sessions,    \* checkout sessions that may be created
  Plans,
  PlanOf,      \* the plan that a session sells
  NoSession,
  MaxChanges,  \* bound on how often Stripe changes a subscription
  MaxOverlaps, \* bound on how often a request begins during another one
  MaxFaults    \* bound on errors of Stripe, lost commits and lost answers

ASSUME PlanOfAssumption == PlanOf \in [Sessions -> Plans]
ASSUME PlansAssumption == Plans # {}
ASSUME NoSessionAssumption == NoSession \notin Sessions
ASSUME BoundsAssumption == MaxChanges \in Nat /\ MaxOverlaps \in Nat /\ MaxFaults \in Nat

Sold == {"active", "past_due", "canceled"}       \* _subscription_status
StripeStates == Sold \cup {"none", "open"}
Statuses == {"free", "checkout_pending"} \cup Sold
Entitling == {"active", "past_due"}              \* ENTITLING_STATUSES
SomeSession == Sessions \cup {NoSession}

Rows == [plan : Plans, status : Statuses, session : SomeSession, sub : SomeSession]
Events == [kind : {"completed", "changed"}, on : Sessions, status : Sold, no : 0 .. MaxChanges]
PCs == {"idle", "loaded", "ready"}
Jobs == {"none", "create", "reconcile", "completed", "changed"}

VARIABLES
  stripe,    \* each session, and the subscription that it became
  changes,   \* how often Stripe has changed a subscription
  events,    \* the webhooks not answered yet
  row,       \* the row of subscriptions; status "free" while there is none
  pc,        \* where each handler is
  job,       \* what it does
  event,     \* the webhook it handles
  on,        \* the session it is about
  seen,      \* the row that it has loaded
  new,       \* the row as it will write it
  faults,
  overlaps,  \* requests that began during another one
  newest,    \* history: the newest change of each that was answered
  stale,     \* history: a change was answered after a newer one
  reopened   \* history: a checkout replaced the session of a subscription

outside == <<stripe, changes>>
handler == <<pc, job, event, on, seen, new>>
history == <<overlaps, newest, stale, reopened>>
vars == <<outside, events, row, handler, faults, history>>

TypeOK ==
  /\ stripe \in [Sessions -> StripeStates]
  /\ changes \in 0 .. MaxChanges
  /\ events \subseteq Events
  /\ row \in Rows
  /\ pc \in [Handlers -> PCs]
  /\ job \in [Handlers -> Jobs]
  /\ event \in [Handlers -> SUBSET Events]
  /\ on \in [Handlers -> SomeSession]
  /\ seen \in [Handlers -> Rows]
  /\ new \in [Handlers -> Rows]
  /\ faults \in 0 .. MaxFaults
  /\ newest \in [Sessions -> 0 .. MaxChanges]
  /\ overlaps \in 0 .. MaxOverlaps
  /\ stale \in BOOLEAN /\ reopened \in BOOLEAN

NoRow == [plan |-> CHOOSE p \in Plans : TRUE, status |-> "free",
          session |-> NoSession, sub |-> NoSession]

Init ==
  /\ stripe = [s \in Sessions |-> "none"]
  /\ changes = 0
  /\ events = {}
  /\ row = NoRow
  /\ pc = [h \in Handlers |-> "idle"]
  /\ job = [h \in Handlers |-> "none"]
  /\ event = [h \in Handlers |-> {}]
  /\ on = [h \in Handlers |-> NoSession]
  /\ seen = [h \in Handlers |-> NoRow]
  /\ new = [h \in Handlers |-> NoRow]
  /\ faults = 0
  /\ newest = [s \in Sessions |-> 0]
  /\ overlaps = 0
  /\ stale = FALSE /\ reopened = FALSE

----------------------------------------------------------------------------
(* What the steps are made of.                                              *)

Idle(h) == pc[h] = "idle"

\* The columns that `h` has changed, over the row as it is now.
Merged(h) ==
  [f \in DOMAIN row |-> IF new[h][f] = seen[h][f] THEN row[f] ELSE new[h][f]]

\* A request begins, perhaps while another one is being handled.
Overlap ==
  \/ (\A g \in Handlers : Idle(g)) /\ UNCHANGED overlaps
  \/ (\E g \in Handlers : ~Idle(g)) /\ overlaps < MaxOverlaps /\ overlaps' = overlaps + 1

\* Handler `h` begins a job and loads the row.
Load(h, work, webhook, s) ==
  /\ Idle(h)
  /\ job' = [job EXCEPT ![h] = work]
  /\ event' = [event EXCEPT ![h] = webhook]
  /\ on' = [on EXCEPT ![h] = s]
  /\ seen' = [seen EXCEPT ![h] = row]
  /\ Overlap

Ready(h, result) ==
  /\ pc' = [pc EXCEPT ![h] = "ready"]
  /\ new' = [new EXCEPT ![h] = result]

End(h) ==
  /\ pc' = [pc EXCEPT ![h] = "idle"]
  /\ job' = [job EXCEPT ![h] = "none"]
  /\ event' = [event EXCEPT ![h] = {}]
  /\ on' = [on EXCEPT ![h] = NoSession]
  /\ seen' = [seen EXCEPT ![h] = NoRow]
  /\ new' = [new EXCEPT ![h] = NoRow]

\* One more of the faults that happen on the way.
Fault == faults < MaxFaults /\ faults' = faults + 1

\* A change is answered, in its turn or after a newer one.
Answered(e) ==
  IF e.kind = "changed"
  THEN /\ newest' = [newest EXCEPT ![e.on] = IF e.no > @ THEN e.no ELSE @]
       /\ stale' = (stale \/ e.no < newest[e.on])
  ELSE UNCHANGED <<newest, stale>>

----------------------------------------------------------------------------
(* Stripe and the customer at Stripe's pages.                               *)

\* A session that expires is one that is never paid: no handler tells them apart.
Pay(s) ==
  /\ stripe[s] = "open"
  /\ stripe' = [stripe EXCEPT ![s] = "active"]
  /\ events' = events \cup {[kind |-> "completed", on |-> s, status |-> "active", no |-> 0]}
  /\ UNCHANGED <<changes, row, handler, faults, history>>

\* A charge fails or succeeds, or the subscription ends.
Change(s, status) ==
  /\ stripe[s] \in Entitling /\ status # stripe[s]
  /\ changes < MaxChanges
  /\ changes' = changes + 1
  /\ stripe' = [stripe EXCEPT ![s] = status]
  /\ events' = events \cup {[kind |-> "changed", on |-> s, status |-> status, no |-> changes']}
  /\ UNCHANGED <<row, handler, faults, history>>

----------------------------------------------------------------------------
(* create_subscription_checkout_session.                                    *)

Create(h, s) ==
  /\ row.status # "active"
  /\ stripe[s] = "none" /\ \A g \in Handlers : on[g] # s
  /\ Load(h, "create", {}, s)
  /\ pc' = [pc EXCEPT ![h] = "loaded"]
  /\ UNCHANGED <<outside, events, row, new, faults, newest, stale, reopened>>

\* stripe.checkout.Session.create
Opened(h) ==
  /\ pc[h] = "loaded" /\ job[h] = "create"
  /\ stripe' = [stripe EXCEPT ![on[h]] = "open"]
  /\ Ready(h, [seen[h] EXCEPT !.plan = PlanOf[on[h]], !.status = "checkout_pending",
                            !.session = on[h]])
  /\ UNCHANGED <<changes, events, row, job, event, on, seen, faults, history>>

\* user_id is unique: of two first checkouts, one is refused.
Duplicate(h) == seen[h].status = "free" /\ row.status # "free"

CreateCommit(h) ==
  /\ pc[h] = "ready" /\ job[h] = "create"
  /\ ~Duplicate(h)
  /\ row' = IF seen[h].status = "free" THEN new[h] ELSE Merged(h)
  /\ reopened' = (reopened \/ row.sub # NoSession)
  /\ End(h)
  /\ UNCHANGED <<outside, events, faults, overlaps, newest, stale>>

CreateRefused(h) ==
  /\ pc[h] = "ready" /\ job[h] = "create"
  /\ Duplicate(h)
  /\ End(h)
  /\ UNCHANGED <<outside, events, row, faults, history>>

----------------------------------------------------------------------------
(* handle_subscription_checkout_completed and handle_subscription_changed.  *)

\* The row that the webhook is about.
Found(e) == IF e.kind = "completed" THEN row.session = e.on ELSE row.sub = e.on

\* No such row: answered with success all the same.
Unknown(e) ==
  /\ e \in events
  /\ ~Found(e)
  /\ events' = events \ {e}
  /\ Answered(e)
  /\ Overlap
  /\ UNCHANGED <<outside, row, handler, faults, reopened>>

Completed(h, e) ==
  /\ e \in events /\ e.kind = "completed" /\ Found(e)
  /\ Load(h, "completed", {e}, e.on)
  /\ pc' = [pc EXCEPT ![h] = "loaded"]
  /\ UNCHANGED <<outside, events, row, new, faults, newest, stale, reopened>>

\* Mutant: a paid checkout is active, whatever the subscription is by now.
SoldActive(h) == [seen[h] EXCEPT !.sub = on[h], !.status = "active"]

\* The subscription that the session has become, as Stripe has it now.
SoldNow(h) == [seen[h] EXCEPT !.sub = on[h], !.status = stripe[on[h]]]

CompletedAsk(h) ==
  /\ pc[h] = "loaded" /\ job[h] = "completed"
  /\ Ready(h, SoldNow(h))
  /\ UNCHANGED <<outside, events, row, job, event, on, seen, faults, history>>

\* The payload is taken at its word.
Changed(h, e) ==
  /\ e \in events /\ e.kind = "changed" /\ Found(e)
  /\ Load(h, "changed", {e}, e.on)
  /\ Ready(h, [row EXCEPT !.status = e.status])
  /\ UNCHANGED <<outside, events, row, faults, newest, stale, reopened>>

\* Mutant: the webhook is answered, and its transaction is not committed.
WebhookDropped(h) ==
  /\ pc[h] = "ready" /\ job[h] \in {"completed", "changed"}
  /\ events' = events \ event[h] /\ UNCHANGED faults
  /\ End(h)
  /\ UNCHANGED <<outside, row, history>>

\* The answer may be lost, and the webhook comes again.
WebhookCommit(h) ==
  /\ pc[h] = "ready" /\ job[h] \in {"completed", "changed"}
  /\ row' = Merged(h)
  /\ \/ events' = events \ event[h] /\ UNCHANGED faults
     \/ Fault /\ UNCHANGED events
  /\ \E e \in event[h] : Answered(e)
  /\ End(h)
  /\ UNCHANGED <<outside, overlaps, reopened>>

----------------------------------------------------------------------------
(* reconcile_subscription_session.                                          *)

Reconcile(h) ==
  /\ row.session # NoSession /\ row.status # "active"
  /\ Load(h, "reconcile", {}, row.session)
  /\ pc' = [pc EXCEPT ![h] = "loaded"]
  /\ UNCHANGED <<outside, events, row, new, faults, newest, stale, reopened>>

\* Paid: the session's row is selected again, and keeps what was loaded.
ReconcilePaid(h) ==
  /\ pc[h] = "loaded" /\ job[h] = "reconcile"
  /\ stripe[on[h]] \in Sold
  /\ row.session = on[h]
  /\ Ready(h, SoldNow(h))
  /\ UNCHANGED <<outside, events, row, job, event, on, seen, faults, history>>

\* Mutant: who comes back from Stripe's page has paid.
ReconcileTrusting(h) ==
  /\ pc[h] = "loaded" /\ job[h] = "reconcile"
  /\ Ready(h, [seen[h] EXCEPT !.sub = on[h], !.status = "active"])
  /\ UNCHANGED <<outside, events, row, job, event, on, seen, faults, history>>

\* Not paid: a pending checkout was given up.
ReconcileUnpaid(h) ==
  /\ pc[h] = "loaded" /\ job[h] = "reconcile"
  /\ stripe[on[h]] \notin Sold
  /\ Ready(h, IF seen[h].status = "checkout_pending"
              THEN [seen[h] EXCEPT !.status = "canceled"] ELSE seen[h])
  /\ UNCHANGED <<outside, events, row, job, event, on, seen, faults, history>>

\* Paid, but the row holds another session by now.
ReconcileMoved(h) ==
  /\ pc[h] = "loaded" /\ job[h] = "reconcile"
  /\ stripe[on[h]] \in Sold
  /\ row.session # on[h]
  /\ End(h)
  /\ UNCHANGED <<outside, events, row, faults, history>>

ReconcileCommit(h) ==
  /\ pc[h] = "ready" /\ job[h] = "reconcile"
  /\ row' = Merged(h)
  /\ End(h)
  /\ UNCHANGED <<outside, events, faults, history>>

\* StripeError, or the commit fails: the transaction is rolled back, and the
\* webhook, if it is one, is not answered with success.
Fails(h) ==
  /\ ~Idle(h)
  /\ Fault
  /\ End(h)
  /\ UNCHANGED <<outside, events, row, history>>

----------------------------------------------------------------------------

Handle(h) ==
  \/ CreateCommit(h) \/ CreateRefused(h) \/ Opened(h)
  \/ CompletedAsk(h) \/ WebhookCommit(h)
  \/ ReconcilePaid(h) \/ ReconcileUnpaid(h) \/ ReconcileMoved(h) \/ ReconcileCommit(h)

Webhook(e) ==
  \/ Unknown(e)
  \/ \E h \in Handlers : Completed(h, e) \/ Changed(h, e)

Stripe(s) == Pay(s) \/ \E status \in Sold : Change(s, status)

Next ==
  \/ \E h \in Handlers : Handle(h) \/ Reconcile(h) \/ Fails(h) \/ \E s \in Sessions : Create(h, s)
  \/ \E e \in events : Webhook(e)
  \/ \E s \in Sessions : Stripe(s)

Spec == Init /\ [][Next]_vars

\* Requests are handled to their end, and Stripe sends an event until it is
\* answered with success.  Nobody has to pay, to return, or to subscribe.
Fairness ==
  /\ \A h \in Handlers : WF_vars(Handle(h))
  /\ SF_vars(\E e \in events : Webhook(e))

FairSpec == Spec /\ Fairness

----------------------------------------------------------------------------

Quiet == events = {} /\ \A h \in Handlers : Idle(h)

\* The row's last checkout is the one that sold its subscription.
Settled == row.sub # NoSession /\ row.session = row.sub

(* When every webhook has been answered, the row says of the subscription     *)
(* what Stripe says of it, however often the completed checkout and the        *)
(* changes were sent again, and in whatever order the two kinds came; except   *)
(* after handlers that overlapped, or changes that overtook one another: the   *)
(* handlers take no lock, and a payload is taken at its word.                 *)
StatusAgrees == Quiet /\ Settled /\ overlaps = 0 /\ ~stale => row.status = stripe[row.sub]

(* Whatever overlaps, fails or comes late: no workspace is entitled to a plan  *)
(* before it has paid for one.                                                *)
EntitledOncePaid ==
  row.status \in Entitling => row.sub \in Sessions /\ stripe[row.sub] \in Sold

(* A workspace is entitled to the plan that its subscription sold; except      *)
(* after overlapping handlers, and after a second checkout has replaced the    *)
(* plan of a subscription that Stripe still has: a later change of that one    *)
(* entitles the workspace to the plan it never paid.                          *)
PlanPaidFor == row.status \in Entitling /\ overlaps = 0 /\ ~reopened => row.plan = PlanOf[row.sub]

(* The row agrees with Stripe, in the status and in the plan, except for those *)
(* cases.                                                                      *)
RowAgrees == StatusAgrees /\ PlanPaidFor

(* The webhook of a paid checkout takes effect, however often its handler      *)
(* fails, once the row holds the session; unless another checkout takes its    *)
(* place there, or requests overlap.  A webhook that comes before the          *)
(* checkout's own transaction has committed, or after another checkout's,      *)
(* finds nothing and is answered with success.                                *)
PaidTakesEffect ==
  \A s \in Sessions :
    (row.session = s /\ \E e \in events : e.kind = "completed" /\ e.on = s)
      ~> (row.sub = s \/ row.session # s \/ overlaps > 0)
=============================================================================
