# Verification models of Magnitai

TLA+ models of the Magnitai backend (`magai-be/app`), the TLC runs that check
them and the theorems TLAPS proves about them. Paths below are relative to
`magai-be/app` unless they start with `src/`.

## 1. The system

Magnitai reads a business's website, proposes an interactive tool ("widget")
for it, generates and builds the tool with language models and Vite, publishes
it on Vercel, collects leads through it, delivers those leads, and repairs the
tool when the brand drifts or the deployment goes away. The processes are an API
(FastAPI, one database session per request, committed when the handler
has returned), Celery workers (prefork, one event loop per process), one Celery
beat, Postgres (READ COMMITTED), and Redis as broker, lock service, store of
revoked tokens and event stream.

| Component | State | Operations | Talks to | What is hard |
|---|---|---|---|---|
| Redis lock (`platform/security/locks.py`) | one key per lock, with owner token and TTL | acquire, release, expiry | build, heal and sweep tasks | TTL against task limits, dead holders, release after expiry |
| Build lifecycle (`features/widgets/routes.py`, `platform/pipeline/tasks.py`, `platform/celery_app.py`, `platform/http/app.py`) | `widgets.status`, the Celery message, the usage row, the widget lock | build, retry, run, skip, fail, retry, reset at start | broker, lock, database | message before commit, redelivery, time limits, write-back of stale rows |
| Tool design (`features/widgets/routes.py`, `features/widgets/service.py`) | a widget's type, look, logic, questions, owner's screen | first look, claim, analyze, build, retry, edit | build, heal | what is saved against what is built, overlapping writers of columns |
| Generation (`platform/pipeline/engine.py`, `builder.py`, `states/`) | a build directory, the shared template | architect, stitch, generate, compile, fall back, deploy | models, Vite, Vercel | retries with feedback, fallbacks, threads and processes on one directory |
| Publication (`features/widgets/service.py`, `platform/clients/deployment.py`) | `widget_deployments`, `widgets.deployment_url`, the provider's alias | record, redeploy, roll back | Vercel, build and heal | READ COMMITTED, lock order, alias moved before the commit |
| Self-heal (`platform/pipeline/tasks.py`, `platform/pipeline/heal.py`) | check stamps, failure counts, brand fingerprint | select batch, compare brand, fetch, regenerate, republish | build, publication, site | a second session inside an open transaction, starvation, backing off |
| Site analysis (`platform/pipeline/evidence.py`, `platform/security/url_guard.py`) | none of its own | crawl, parse, ground | generation, heal | a site that changes under the crawl |
| Lead capture (`features/leads/service.py`) | leads, `leads_count`, visitor sessions | submit, de-duplicate, cap, record milestones | outbox, plan | cap under concurrency, duplicate window, opposite lock orders |
| Leads desk (`features/leads/service.py`, `src/magai-fe/src/routes/dashboard/leads.tsx`) | lead statuses | list, page, filter, export | lead capture | pages of a list that changes |
| Lead outbox (`features/leads/delivery.py`, `features/leads/notify.py`) | `lead_deliveries` | enqueue, attempt, reschedule, sweep, retry by hand | email, webhook, integrations | crash between send and commit, two senders, bounded attempts |
| Integrations (`features/integrations`) | connections, their status and last error | connect, pause, scope, test, remove, deliver | outbox, outside systems | writers of one status that hold stale rows over a network call |
| Result screen (`features/widgets/outcomes.py`, `platform/pipeline/widget_runtime.py`) | decision, owner's bands, baked copy | derive, edit, fetch, adopt, score | build, public page | three copies of one configuration |
| Payments (`features/payments`) | payments, subscription, widget entitlement | checkout, webhook, reconcile, refund | Stripe | reordered and duplicated webhooks, races with reconcile |
| Billing (`features/billing`) | usage ledger | resolve plan, meter, quota | build, payments | period boundaries, check then act |
| Accounts (`features/users`, `features/auth/recovery.py`, `features/auth/mfa.py`) | mailed links, second factor, team, host names | ask, redeem, enroll, invite, accept, remove, attach | mail, Vercel | rows loaded before a slow call and written after it |
| Sessions (`features/auth`, `platform/security/revocation.py`, `platform/security/tokens.py`) | password, refresh tokens, revoked ids | sign in, refresh, log out | Redis | single use under concurrency, an unreachable store |
| Rate limiter (`platform/security/rate_limit.py`) | counters in Redis | hit | every endpoint | expiry lost between two commands |
| Build events (`platform/pipeline/events.py`) | Redis streams | publish, replay, tail | worker, browser | reconnects, trimming |
| Frontend (`src/magai-fe`) | tokens, cached queries | refresh de-duplication, paging | API | concurrent refresh |
| Settings, mail, logging, metrics | | | | constants and environment of the models |

How they interact. A request handler is one Postgres transaction; it commits
when the handler has returned (with the pinned FastAPI, after the response and
its background tasks), so a Celery message or a Stripe session it has made is
out before its rows are visible. SQLAlchemy writes the columns that changed
since the row was read, so two handlers of one row leave a mixture. Workers open
short sessions of their own. Redis locks keep builds and heals of one widget
apart; redeploys, rollbacks, webhooks, editors and the retry button take no lock
and rely on row locks and on columns that differ.

What makes each component correct:

* lock: one running holder; nobody frees a key that is not its own; a key is
  always freed;
* build: a widget in "building" has a task that will write its status; a
  message ends; what is metered is queued, and built if nothing is lost;
* design: one tool of each claimed concept; what the customer was told is saved
  stays; what is live is what the row says;
* generation: a model that is unavailable fails no build whose fallback passes the
  checks; the model is asked a
  bounded number of times; a template that is ready stays whole;
* publication: one current row, which the widget's URL points at and the
  permanent address serves; a rollback goes back;
* heal: no widget starves, a deployment that is down is dealt with, the looks
  follow the site and nothing else;
* lead capture: no more leads of a visitor than requests at one time, the cap,
  counters that agree with rows; a walk through the list misses none;
* outbox: every row settles; "delivered" is true; only the owner opens a
  settled row; connections: paused stays paused, the panel is true, a failed
  one recovers;
* result screen: a visitor is asked, scored and shown by one configuration;
* payments: "paid" only for money in the recorded amount; refunds are honoured;
  money is confirmed; the plan's row agrees with Stripe;
* billing: an overshoot is bounded by the requests in flight;
* accounts and sessions: what was used, revoked or removed does not come back.

## 2. The plan

Modules in order, the most important behaviour first. All but the last two are
here.

| # | Module | Composed in | Abstract specification | Theorems |
|---|---|---|---|---|
| 1 | `RedisLock` | | `Mutex` | types, exclusion, safe release, refinement |
| 2 | `BuildLifecycle` | uses the lock as `RedisLock` proves it | | types, the lock is held, nobody stranded, metering |
| 3 | `Publication` | | | types, demotions, URL, one current row, alias, rollback |
| 4 | `LeadOutbox` | `Delivery` | `Outbox` | types, delivered is true, attempts, refinement |
| 5 | `Checkout` | | | types, paid is paid for, rows agree, refunds |
| 6 | `HealSweep`, with `BrandWatch` for what it finds | `BrandWatch` in `Studio` | | looks follow the site |
| 7 | `Subscriptions`, `Allowances` | `Billing` | | types, entitled once paid, rows agree, overshoot |
| 8 | `LeadCapture`, `LeadDesk` | `Workspace` | | types, cap, repeats, counters, first dates, pages |
| 9 | `Sessions`, `Accounts` | `Workspace` | | links, team, factor, password, tokens, host names |
| 10 | `Generation`, `ToolDesign` | `Studio` | | types, outages, spending, template, live app, claims, work kept, live as recorded |
| 11 | `Connections` | `Delivery` | | paused stays paused, the panel is true |
| 11 | `ResultScreen` | `Workspace` | | scores and bands |
| 12 | a rate limiter | | | |
| 13 | build events | | | |

The last two would add little: nothing relies on a counter of requests or on a
progress bar. Every invariant that a run checks is stated by a theorem. What
remains worth doing: type correctness and the locking discipline of `HealSweep`
(its runs check liveness only), and the local runner of the development process
in `BuildLifecycle`.

## 3. The modules

A module `X` is the specification, `MCX` its instances for TLC, `X_name.cfg` a
run, and `XProofs` its theorems. Modules that are composed have their theorems
where the composition has them: `WorkspaceProofs` (LeadCapture, LeadDesk,
Accounts, Sessions, ResultScreen), `StudioProofs` (Generation, ToolDesign,
BrandWatch), `SubscriptionsProofs` (with Allowances) and `LeadOutboxProofs` (with
Connections). Definitions named in comments as "Mutant:" are
plausible bugs that a property finds; no specification uses them. Variables
named "history" record what happened; no guard of the program reads them.

**RedisLock** (`platform/security/locks.py`). `key` and `ttl` are the Redis key,
`pc` and `left` the tasks and the time Celery leaves them. `Acquire` is SET NX
EX, `Release` the compare-and-delete script, `ReleaseFailed` a release that does
not reach Redis, `Die` a lost or killed worker, `Interrupt` the soft time limit
meeting a loop that waits: the task ends and its coroutine stays in the block
("adrift"), to resume when a later task of the process runs the loop. Time is
what is left of it, so no clock needs a bound. `Mutex` is the lock its callers
believe in.

**BuildLifecycle** (`features/widgets/routes.py`, `platform/pipeline/tasks.py`).
A request and its Celery task share a name. `Check`, `Dispatch`, `BrokerDown`,
`Commit`, `CommitLost` are the build and retry endpoints. `BrokerDown` is any
exception of `apply_async`: the press is refused and rolled back, whether the
broker has not taken the message or has taken it and its answer was lost. `Start` to
`MarkFailedLost` the task, with the row it loads (`seen`) and the write-back of
changed attributes only; `WorkerLost`, `HardLimit`, `SoftLimit`, `AdriftSaves`,
`AdriftEnds` what Celery and a shared loop do to it; `Restart` the reset at API
start; `PublishLoad`/`PublishCommit` redeploy and rollback as writers of the
status; `Heal*` the sweep. All of these may happen in one behaviour; those after
which a widget can stay in "building" are remembered in `troubled`, and a
property says with it until when it holds.

**ToolDesign** (`features/widgets/routes.py`, `features/widgets/service.py`).
`FirstLook` gives a visitor two concepts in a signed token (`Look`);
`Claim`/`InsertClaim` look for the claim key and insert under its constraint;
`Analyze` makes a tool without a design. `PressBuild`, `PressRetry`,
`EditDecision`, `EditOutcome` read the row; `Send` and `Commit` are the message
and the commit, in that order for builds. `StartBuild`, `FinishBuild`,
`FailBuild` and `StartHeal`, `FinishHeal`, `FailHeal` are the two writers in the
worker. A design is three numbers, for its look, its sums and its flow.

**Generation** (`platform/pipeline/engine.py`, `builder.py`). Each build has a
stage (`at`), a process (`host`), an attempt and a sandbox. The Stitcher and the
code generation answer, fail or hang; code is accepted or rejected by the checks
and the compiler; a model that is unavailable gives way to the verified fallback
(`fallen`), which goes through the same checks and is rejected by one of them for
the designs in `Echoing`: `frozen_copy_in`, when copy the owner may edit is one of
the fallback's own literals. `template` and `staging` are the shared directories,
`lock` the lock of a process's threads. `Crash` loses a process, `Fault` is
anything else that raises, `CompileHangs` the compiler's time limit.

**BrandWatch** (`platform/pipeline/evidence.py`, `heal.py`,
`states/architect.py`). `Begin`, `Read`, `Miss` are the crawl, one request each,
with `Landing` following redirects and `Candidates` choosing pages from the links
in their order: a page that is linked twice is known by its first label alone
(`FirstLinks`), which decides whether it is read (`Wanted`) and when (`Sooner`).
`Compare`, `Same`, `Heal`, `HealFails`, `Abandon` what the finding leads to, with
`Ground` forcing the Architect's answer back onto what was found. `Edit` paints or
moves a page and `Relink` adds, removes, labels or reorders links; both change the
site between any two steps. It is the detail of the drift that `HealSweep` takes
as a choice.

**Studio** puts `ToolDesign`, `Generation` and `BrandWatch` together. They share
no column (`ToolDesign` knows a build by what it starts from and what it
records), so a behaviour of `Studio` is one of requests, of builds or of
comparisons, and interleaving them would only multiply states.

**Publication** (`features/widgets/service.py`). A publisher is a transaction
under READ COMMITTED: `ReadCurrent` takes the snapshot of its UPDATE, `Demote`
waits for row locks and re-reads what it waited for, `TakeRow` is the widget's
row, and `Promote` and `Deploy` move the provider's alias before the commit.
A publisher that fails between the two is "torn", and `left` remembers it until
another one succeeds.
Builds write the widget before the log, the others the log before the widget;
`BreakDeadlock` is Postgres aborting one of them.

**HealSweep** (`platform/pipeline/tasks.py`). Beat's `Tick` starts a sweep that
takes the widgets checked longest ago. A check is one transaction, `draft` until
it commits, which holds the widget's row from its first flush; `Regenerate` is
the generation that writes the same row in a session of its own and so waits for
the check that waits for it. `SoftLimit` ends such a sweep; `held` are the rows
of a coroutine left behind, until `Recycle`.

**Outbox, LeadOutbox** (`features/leads/delivery.py`). Senders are the background
tasks of a captured lead, of a press on retry, and the sweeps. `Select`,
`SweepLoad`/`TaskLoad`, `Attempt`, `Record` are run_deliveries; `Lose` is a batch
whose commit never happens; `Press`/`PressCommit` the owner's retry. `Outbox`
is the promise: a row is owed, settles, and only a press opens it again.

**Connections** (`features/integrations`, the launch settings, the readiness
panel). `Connect`/`Insert`, `Enable`, `Scope`, `Test`/`TestAnswered`,
`Disconnect` are the owner's, `ConfigureLaunch` and `TestDelivery` those of the
webhook; `Capture`/`CommitCapture` choose the connections of a lead;
`TakeRows`, `Deliver`, `EndBatch` are a batch of the outbox, which loads a
connection once and writes what changed at its end. `Rotate` changes a key at
the other side.

**Delivery** puts `LeadOutbox` and `Connections` together. A destination is to the
one what takes a lead or does not, and a row is to the other pending or gone; they
share no column, and a behaviour is one of either.

**LeadCapture** (`features/leads/service.py`, `features/widgets/service.py`).
`Submit` and `Track` begin a request, `Serve` is its next statement, `Lose` a
lost process or the victim of a deadlock. Row locks are `rowHolder` and
`visitHolder`; a submission takes the tool's row and then the session's, a
milestone the other way round. `ChangePlan` changes the cap.

**LeadDesk** (`features/leads/service.py`, the leads screen). `Submit` and
`Appear` are the beginning and the commit of a submission, so a lead may become
visible behind others that are newer; `Move` changes a status; `Open`, `Count`
and `Turn` walk through pages, total first and rows second; `Export` takes all
up to a limit.

**Accounts** (`features/users`, `features/auth`). Each request loads a row in
one action and commits in another, with the mail server or the provider between
them: `AskLink`/`MailLink`, `Redeem`; `Enroll`, `Confirm`, `Disable`,
`CommitFactor`, `SpendCode`; `Invite`/`MailInvite`, `Accept`/`Join`,
`Revoke`/`Revoked`, `Remove`/`Removed`; `AddHost`, `Attach`, `InsertHost`,
`VerifyHost`, `Answer`, `SaveHost`, `RemoveHost`, `Detach`, `DeleteHost`.

**Sessions** (`features/auth/routes.py`, `platform/security`). `SignUp`, `LogIn`,
`Google`, `Reset`, `Change` and `Delete` read the account and `Save` commits the
changed columns; `Refresh`/`Rotate` and `LogOut` use a token. `denied` is the
list in Redis, `cooling` the processes that have stopped asking it for a while.

**ResultScreen** (`features/widgets/outcomes.py`,
`platform/pipeline/widget_runtime.py`, `fallback_widget.py`). `Derived` makes
bands of a decision's results and `Repaired` closes their gaps; `Build` bakes
them in; `PutDecision` and `PutOutcomes` are the editors; `OpenPage`, `Fetch`,
`Adopt`, `Answer`, `Continue`, `Finish` the page of one visitor, which may take
over what is in force at any moment.

**Workspace** puts `LeadCapture`, `Accounts`, `Sessions`, `ResultScreen` and
`LeadDesk` together. No column is written by two of them, so a behaviour stays
with the one it begins with.

**Checkout** (`features/payments`). A handler is one transaction: it loads the
payment (`Begin`), may ask Stripe (`Verify`), writes the payment and loads the
widget (`LoadWidget`), and commits what differs from what it loaded. `stripe`,
`exact` and `events` are Stripe: sessions, whether the amount paid is the
recorded one, and webhooks not yet answered with success. `crossed` and `late`
are history: widgets that two handlers were busy with at once, and sessions
confirmed after their refund had been handled.

**Subscriptions** (`features/payments`). The one row of a workspace's plan, two
checkouts at Stripe, the customer's return (`Reconcile`) and the webhooks, any
of which may fail, repeat, overlap or come out of order.

**Allowances** (`features/billing/entitlements.py`). `PressBuild` and
`PressDeploy` read the subscription, the builds of its period and the live
tools; `Meter`, `CommitBuild` and `CommitDeploy` act on what was read, with
nothing locked in between. Periods end, plans change, grants come and go.

**Billing** puts `Subscriptions` and `Allowances` together. `Allowances` lets the
subscription's row change in any way that Stripe's news may, so that it holds for
the rows that `Subscriptions` writes, and the two need no state in common.

## 4. The runs

| Run | Result | What it shows |
|---|---|---|
| `lock_widget` | holds | three tasks, TTL 1800 s, limits 900 and 1080 s in units of 180 s: `Mutex` implemented, keys freed |
| `build_builds` | holds | two requests over every event of the environment: nobody stranded until a `troubled` event, what is metered is queued and not passed over, the lock held by whom it should be, "building" resolves |
| `publication_overlapping` | holds | two builds, a redeploy, a rollback in every overlap: URL, alias, rollback, no waiting for ever |
| `outbox_senders` | holds | a request, a press and a sweep on one row, with one lost batch: `Outbox` implemented, rows settle |
| `checkout_webhooks` | holds | one session, two handlers, repeated and reordered webhooks, two faults |
| `heal_sweeps` | holds | two widgets and a batch of one: nobody starves, a deployment that is down is dealt with |
| `subscriptions_plan` | holds | two checkouts of different plans, two handlers, two changes at Stripe, one overlap, one fault |
| `billing_presses` | holds | three tools, two presses at a time, a period that ends: how far the limits are overshot |
| `workspace_visitors` | holds | the five parts of a workspace, two requests at a time each |
| `studio_tools` | holds | claims and builds of two tools; builds that lose their model; checks of a site whose pages and links change |
| `delivery_connections` | holds | one provider, one webhook, the owner and the outbox at once |
| `workspace_derived` | violated | a decision the schema accepts has a derived screen that does not validate |

Why the bounds are enough.

* Lock: three tasks are a holder, a contender and one adrift. Build: two
  requests per widget are the pair that can race (one of them writes before it
  dispatches); a third finds one of the same states. `MaxLosses` and `MaxFaults`
  bound how often the environment fails; without them a liveness property would
  only say that faults must stop.
* Publication: two builds, a redeploy and a rollback contain every pair of lock
  orders, and a rollback after a rebuild needs two builds.
* Outbox: a row interacts with its senders and not with other rows except
  through a shared batch, and the safety half is proved for any number. Two
  attempts as the maximum are a first and a last one. Checkout: one session has
  every order of its webhooks; several per widget are in the theorems.
* Heal: two widgets and `BatchSize` 1 make each wait for the other; two failures
  (`MaxFailures`) are the first one and the one that gives up; one rebranding
  and one fault.
* Subscriptions: two sessions are the one that sold the plan and the one that
  replaces it; two changes are an order to get wrong.
* Billing: three tools exceed the limits of both plans; a period of two ticks
  ends inside the run; three presses with two at a time are one more than can
  overlap. Presses and tools are symmetric. The checkout beside them is as small
  as one can be, since `subscriptions_plan` is about it.
* Studio: two builds, two processes, three attempts (the code's own maximum),
  one fault; one first look, three requests, two mishaps, two tools; a site of a
  home page and two others, of which one is read beside the home page, each
  painted in one of two colours or in none, one edit, which repaints, moves or
  relinks, and three menus: two pages in either order, and one of them twice,
  first under a label that leads nowhere. Requests, tools, types and colours are
  symmetric.
* Workspace: cap 1 on a tool's leads with a plan that allows three or none,
  three requests, which are one more than are served at a time, one plan change,
  one lost process; two people, two tools, two recovery codes, four requests;
  scores 0 to 2, so that two answers have a mean between whole numbers,
  and one or two results with each of seven ranges (missing, meeting, overlapping,
  with gaps, reversed); two processes, two
  passwords, three requests and one outage of Redis; three leads, pages of one,
  an export of two, one day's change and one move.
* Connections: one provider, the keys before and after a rotation, two
  identities (a connection and the one made after its removal), two webhook
  addresses, one lead, one sender, three changes. The outbox beside them has one
  row, since `outbox_senders` is about it.

Deadlock is looked for in `lock_widget` only: every other system here may rest,
since no owner is obliged to press and no visitor to come. Waiting for ever is
what the liveness properties exclude (`PublishersEnd`, `NoStarvation`,
`BuildingResolves`, `LockAlwaysFreed`).

## 5. Fairness

* RedisLock: time passes and Celery kills a task whose time is up.
* BuildLifecycle: a handler that has dispatched ends, a live worker goes on
  (`TaskStep`), Redis expires keys. No fault, no press and no resumption of a
  coroutine is forced.
* Publication: a transaction that can go on does (`Step`, which includes the
  deadlock detector); failing is never forced.
* LeadOutbox: beat starts sweeps and a sweep that is alive goes on; time passes.
  Nothing is asked of requests or their background tasks.
* Checkout and Subscriptions: a handler ends or fails; Stripe sends an event
  until it is answered with success, which is strong fairness of `Webhook`
  because each failure puts the event off; in Checkout an unpaid session
  expires. Nothing is asked of the customer.
* HealSweep: beat ticks, a sweep that can go on does, the soft time limit
  strikes one that hangs, and a process with an abandoned coroutine is recycled
  (`worker_max_tasks_per_child`). Nothing is asked of sites or deployments.
* Connections: a request that captures a lead commits; a batch goes on; a
  connection that has rows due again and again is taken again and again (strong
  fairness, because retries come and go). That leads keep coming and the other
  side accepts are premises of `Recovers`, not fairness.
* Workspace, Studio, Billing: none. Their properties are safety properties.
  Fairness in `Delivery` is that of Connections, which asks nothing before a step
  of Connections, and so does not stop a behaviour of the outbox.

## 6. What is proved

All theorems hold for every value of the constants under the named assumptions
of each module.

* **RedisLock.** With `LockTTL > TaskLimit`, `HolderOwnsKey` (a running task in
  the block owns a key that outlives it) is inductive and gives `LiveExclusion`
  and the refinement of `Mutex`; `LiveExclusion` alone is not inductive, because
  it says nothing of the key. `ReleaseCorrect` needs no condition on the times.
* **BuildLifecycle.** `LockProtects` is inductive over all events. It is about
  tasks that workers still run: a coroutine left adrift is in the block too, and
  it may replace the workspace while another is there (section 7).
  `NeverStranded` needs `CalmInv`: until something of `troubled` has happened
  there is one unfinished request at a time, the key belongs to a task in the
  block, messages follow the handler's commit, and a task that saves has loaded
  the status it replaces. `MeteringCorrect` follows from
  `MessageInv` (a message exists from its dispatch on and is never unsent) and, for
  the half that says the build is not passed over, from `CalmInv`: a calm press
  finds the key free. The converse, that what is queued is metered, is false
  (section 7).
* **Publication.** `DemotionsHold` is inductive with the types. `UrlFollows` and
  `OneCurrentInTurn` need `PublicationInv`: each publisher's row carries its
  name, without rollbacks every row builds what it names, and in turn the
  publisher under way is alone with a current set of one row.
  `AliasIsUrl` needs `Aliased`: whoever has moved the alias is served by it until
  the widget's row says so too; while nobody has, it serves the widget's URL, or
  the build of the publisher that was torn since the last success (`left`), whose
  choice no later step can change;
  `AliasIsUrl` itself is not inductive, because a publisher moves the alias
  first. `RollbackGoesBack` is an action property and needs `BackInv`: a
  publisher's stamp is above those that began before it (`Stamps`), the rows that
  are not current are older than the one that is (`Older`), and neither the newest
  of them nor what a rollback has chosen is the build under the URL (`GoingBack`).
* **LeadOutbox.** `DeliveredIsReceived` follows from what a batch holds before it
  is recorded; the refinement of `Outbox` from "whatever is in hand exists";
  `TriesBounded` from `Alone`, `Current` and `Accounted`: at most one party has a
  row in hand, what it has loaded is what the row says, and each attempt is
  counted, waits in a batch, or was lost with one.
* **Checkout.** `PaidIsPaidFor` from `PaidInv`: whatever is confirmed, or planned
  to be, was paid exactly; it holds for all overlaps because a handler that
  writes "paid" over a newer status still has exact money behind it. `RowsAgree`
  and `RefundHonoured` from `Serial`: at most one handler is busy with the
  widget, it knows the rows as they are, its plan fits them, every payment is
  recorded in step with Stripe, and widget and payments agree.
* **Subscriptions.** `EntitledOncePaid` from `StripeInv`, `RowInv`, `SeenInv` and
  `NewInv`: Stripe, the row, what each handler has read and what it is about to
  write name an entitlement only where there is a subscription that was paid for.
  `RowInv` alone is not inductive, because a handler writes what it planned from
  a row it read before.
  `RowAgrees` from `AgreeInv`, which holds until two requests overlap: the newest
  event of a subscription that is still to come says what Stripe says, unless a
  newer one was answered (`ChangesInv`); one handler is busy at most, and has read
  the row as it is (`AloneInv`); and the row has the plan that its session sold
  and the status that Stripe has, or will be told it (`PlanInv`, `StatusInv`).
* **Allowances.** `OvershootBounded` from `AllowInv`. What is counted is not what
  the property counts: `Windows` adds to the builds charged to a window the
  requests that are about to charge it, and `Slots` to the tools that hold a slot
  those that are asked for, and both stay below the best plan plus the number of
  requests at a time. A press checks the first part only, so its admission is
  where the bound of the other requests comes in.
* **Connections.** `PausedStaysPaused` from `LeftAlone`: the connection's row is
  paused, every request that has read it has read it so and makes nothing else of
  it, and no submission, row or batch is about it; the property alone is not
  inductive, because a commit writes what was made of an older row. `PanelTrue`
  from `HookInv`: the secret is the one made for the address, in the row and in
  every request, and until two overlap each request has read the webhook as it is.
* **LeadCapture.** `CapKept` from `CapInv` (a submission that has its slot is
  held to a cap that was in force, and keeps the others out until its lead is
  counted) together with `TypeOK` and `StampInv`; `FunnelAgrees` adds `MarkInv`
  (whoever is about to record a milestone has its session's row, and the
  milestone is not there yet) and `FunnelInv`; `RepeatsBounded` adds `RepeatInv`
  (what a submission has found when it looked stays so) and `BurstInv` (for every
  lead there are as many handlers that are not busy with a submission that could
  not see it as there are leads that could not see it): a commit moves one
  submission from the first count to the second, and one that looks later sees the
  lead. `FirstDateHolds` says
  that the first time of a milestone is never replaced.
* **LeadDesk.** `PagesMissNone` from `DeskInv`: of the leads that were in the list
  all the time, each that is not seen yet has at least as many leads ahead of it
  in the order of the list as the walk has gone past. So a lead that comes, or
  leaves, is a fact about how many are ahead of another.
* **Accounts.** `MailInv` (two unused links of one purpose are the same, and a
  request that is mailing one knows all that came before it), `FactorInv` (while
  no two requests overlapped, one that changes the factor has read it as it is),
  `MemberInv` (who was removed is out and has no way in: no open invitation, no
  acceptance under way) and `HostInv` (unless a request was lost or overlapped,
  table and provider differ only while a request is between the two).
* **Sessions.** `AccountInv` (whatever a request is about to write to the account
  either sets the password or keeps that of the row it read) and `TokenInv` (of a
  session nothing doubtful has happened to, one token at most is left, Redis knows
  of the others, and one request at most is exchanging it).
* **ResultScreen.** `ScoreTrue` from `ScreenInv` (the row, the app and the overlay
  hold only screens that were validated, and a page has asked the questions in
  their turn) and from what the pure functions do: every whole score lands in a
  band of a valid screen, or beyond all of them (`Lands`); sorting rearranges and
  orders (`SortedFacts`); and what `Derived` computes is a screen (`DerivedType`).
  Its loops are recursive functions over positions. The library's induction is out
  of the provers' reach, so their types are proved by a least counterexample
  (`LeastNat`, `Carried`, `Recursion`), from the well-foundedness of finite sets.
* **Workspace** and **Studio**, **Billing** and **Delivery**. A behaviour is one of
  each part (`Parts`, `StudioParts`, `BillingParts`, `DeliveryParts`), since a step
  of one leaves the variables of the others alone; so what is proved of a part is
  proved of the whole.
* **Generation.** `FlowInv` says what each stage of a build implies of its code,
  sandbox, attempt and calls, and gives with `TypeOK` `OutageSurvived`,
  `SpendBounded` and `LiveCorrect`, that what is live is one app that passed and
  nothing left of another. `ReadyInOneProcess` adds `LockInv` (whoever installs
  has its process's lock) and `TemplateInv` (in one process, an installation is
  complete before it is renamed).
* **ToolDesign.** `ClaimedOnce`, `WorkKept` and `LiveAsRecorded` from `ToolInv`: of
  a tool that no lost commit or overlap has disturbed, each request has read the
  row as it is, each message builds what the row says or what a request will still
  write, and the row says what was agreed and is served (`InOrder`).
* **BrandWatch.** `LooksFollow` from `WatchInv`: while the site keeps still, but
  for the order of links whose labels agree, what a crawl has found together with
  the pages still to read is all that the crawl will find (`Whole`), and a record
  that is sure is the evidence of the site as it is; and from what `Ground` does
  to an answer that has colours of its own.

The assumptions are on the constants, and each is checked by the run of its
module: `WorkspaceAssumption` (weights are not negative, the decisions and screens
that may be saved are sequences of the shape their schemas give, leads have
numbers), `StudioAssumption` (pages name colours and link to finitely many
others), `BillingAssumption` (finitely many presses and tools, limits are
numbers), `DeliveryAssumption`, and the named ones of the other modules.

Some theorems state what no run lists, because it is a step on the way or its
TLC run would only repeat another: the `TypeCorrect` of each module, `Parts`,
`StudioParts`, `BillingParts`, `DeliveryParts`, `HolderCorrect`,
`ExclusionCorrect`, `ReleaseCorrect`, `DemotionsCorrect`, `OneCurrentCorrect`,
`DeliveredCorrect`, `TriesCorrect`, `RowsAgreeCorrect`, `FirstDateHolds` and
`LiveCorrect`.

Only model-checked: the liveness properties (`LockAlwaysFreed`,
`BuildingResolves`, `PublishersEnd`, `EverySettles`, `PaidIsConfirmed`,
`PaidTakesEffect`, `NoStarvation`, `DownIsDealtWith`, `Recovers`), since liveness
under fairness and ENABLED are beyond the prover; so nothing is proved of
`HealSweep`, whose properties are of that kind. What `Derived`, `Deduped` or
`Sum` compute for sequences of any length is proved no further than the types and
orders above; their values are TLC's, and `DerivedValidates` is refuted by a run.

## 7. Where code and text disagree

One has a run of its own, `workspace_derived`: `outcomes.py:232` says that a
derived configuration always validates; two results that both reach the top score
are accepted by the schema of a decision and give bands that overlap. The build
then fails after its model was paid.

The properties of the passing runs name the others as their exceptions, or they
lie outside what is modelled. By component:

* **Lock and builds.** `routes.py:208` wants no build queued that is never
  metered. The message goes out before the commit, which may be lost, and any
  exception of `apply_async` counts as "not queued" (`routes.py:376`), the lost
  answer of a broker that took the message included (`BrokerDown`); the press is
  rolled back and its build runs. `locks.py:3` promises that two workers never
  build one widget at once; the soft time limit interrupts `run_until_complete`,
  not the coroutine, which resumes during a later task with an expired key
  (`tasks.py:91`, `AdriftSaves`). `tasks.py:344` skips a redelivered build because
  of its dead worker's key. `app.py:51` speaks of builds of a previous process;
  its UPDATE also resets builds of live workers. The lock is released before a
  failure is recorded (`tasks.py:244`).
* **Publication.** `service.py:532` says exactly one row is current; under READ
  COMMITTED an overlapping UPDATE does not see the other's insert. A rollback
  that overlaps writes a stale URL back (`service.py:600`).
* **Heal.** A heal that found drift updates the widget in one session and waits
  for the generation that updates it in another (`tasks.py:520`, `engine.py:145`),
  so a check that should repair waits for itself until its time limit and no
  failure is counted, against the backing off of `src/README.md:190`. A failed
  regeneration has committed the new fingerprint, so the next comparison finds no
  drift and clears the failure count. A heal publishes a whole new design but
  records only its looks. A customer's own colours are replaced at the next change
  of the site. "A widget never displays a colour, font or logo that is not the
  site's" (`architect.py:69`) is false when nothing was found (styles of other
  files are not read; a logo of the Architect's stays when the evidence has none)
  and for colours the customer chose. A page that answers now and then changes the
  fingerprint; the accent colour is never compared; the parser loses the text of
  elements without end tags.
* **Design and generation.** `fallback_widget.py:4` says that losing a provider must
  not make a complete design unpublishable; the fallback is held to
  `frozen_copy_in` as the model's code is (`builder.py:690`), and has literals of
  16 characters and more of its own (`fallback_widget.py:165`). A design that has
  one of them among its copy (`Echoing`) cannot be published while the model is
  lost. Questions saved for a tool without a calculation
  are lost at the next build or retry. A retry builds the first direction
  (`_blueprint_at(widget, 0)`). `put_decision` checks a status that may have
  changed when it commits. Two processes may install the template at once
  (`builder.py:362`, `:401`), since the lock is one process's.
* **Outbox and connections.** `delivery.py:13` and `models.py:85` bound attempts;
  those of a batch that is lost before its one commit are not counted, and
  overlapping batches may send a row twice. Readiness knows a "disconnected"
  status that no row can have. A test under way while the owner pauses writes
  over the pause. Deleting a connection fails a batch that has loaded it, or the
  submission of a lead that has chosen it. "Connected" is set when a key is
  pasted, without a delivery (`providers.py:3`). `test_widget_delivery` writes
  back the launch settings it read. `delivered_count` loses updates.
  `test_integration` lets a `ProviderError` through.
* **Result screen.** A fractional weighted score between two bands is shown the
  lowest of all (`outcomes.py:143`), while `outcomes.py:127` has every score in
  exactly one band. The engine bakes the derived screen, not the owner's; the
  runtime configuration answers 404 while a tool is building or has failed; an
  app may mix a baked decision with a live screen (`payload.decision ||
  live.decisionSpec`). Names that give one slug share a result key; long copy
  makes a derived configuration invalid.
* **Leads.** `leads/service.py:154` says that a resubmission is not a second person
  and names the button pressed twice. The duplicate is looked for before the slot
  is claimed, and nothing makes a lead unique: presses that overlap are a lead
  and a slot each. `RepeatsBounded` says how many they can be.
  `export_workspace_leads` stops at `MAX_EXPORT_ROWS` where its
  docstring says every lead, and a malformed widget id or status exports all. A
  page's total and rows are two statements, so a lead that arrives between them
  hides the last one; leads that leave a filter while the owner pages are
  skipped over. `contacted_at` may be stamped twice. A lead without a session is
  shown another's timeline (`timeline.py:64`, `:197`). `start_rate` may exceed
  100 % (`service.py:680`, `:722`).
* **Payments and billing.** `payments/service.py:295` calls the handler
  idempotent; a completed event after the refund confirms the payment again. A
  Stripe session whose payment row was lost is paid in vain
  (`payments/service.py:66`). The window of a subscription without news from
  Stripe rolls back only (`entitlements.py:82`). Redeploying a live tool is
  refused when builds are spent, though the docstring of `can_publish` says
  always; granted tools count among the live ones, though `entitlements.py:104`
  gives them a slot of their own; the builds of the free plan cannot be used,
  since a subscription is required.
* **Accounts and sessions.** Overlapping requests can leave two live links, bring
  recovery codes back, or a secret nobody confirmed. An owner with members may
  accept an invitation (`users/models.py:33`), and deleting an owner deletes the
  members' accounts (`users/models.py:43`). `purge_expired_tokens` has no caller
  outside tests. A sign-in that renews a hash may write an old password back; a
  process that lost Redis accepts revoked tokens for a while; a new password
  leaves sessions alive; the frontend signs out with the token it has at hand,
  and one that was exchanged already revokes nothing (`auth/routes.py:244`).
* **Build events.** A reader that returns sees the events of the build before;
  the local stream ends after 100 events and may miss a wake-up for 30 s.

## 8. Abstractions and what is left out

* BuildLifecycle: the soft limit strikes in the block; a coroutine adrift loads
  the widget after it resumes; a lock released late by one is `KeyExpires`; the
  heal's row locks are left to HealSweep; `process_lock` and the local runner
  are left out.
* ToolDesign: a deployment and its recording are one step; redelivered messages
  and the workspace's brand kit are left out; updates hold no row locks.
* Generation: the removal of a directory is one step, a copy is part of the
  deployment, and the Architect's own fallback is left out.
* BrandWatch: a page is the colours of its styles, in order; fonts go the way of
  colours and are left out with the logo and the colours that are never
  compared; all pages have the same links, a link's path and label are the rank
  that they give it, and equal ranks sort by page.
* Publication: the UPDATE of the log takes all its row locks in one step once
  none is held by another; a publisher inserts one row. Local hosting is left
  out.
* HealSweep: a batch longer than one widget goes the same way for each; what
  happens at the provider is one step.
* LeadOutbox: an instance has one lead; the batch limit of 200, its order and
  the wording are left out; both orders of the handler's commit and its
  background task are admitted, since they differ between FastAPI versions;
  waits for row locks at flush are `Lose` when they end badly. Sweeps may
  overlap: their lock lives 600 s and their task up to 1080 s.
* Connections: a removal is one step; the owner's mail, the counters and the
  outbox's backoff and lost processes are left out (the latter are LeadOutbox's).
* LeadCapture: a lead or request carries what it could see when it looked
  (`knew`), for the proofs; a request ends when its transaction does; the answers
  of a lead are left out, and what it owes is LeadOutbox's.
* LeadDesk: the run orders by one column; search, tags, notes, the stamp of the
  first contact and the timeline are left out.
* Accounts: a link or an invitation that expires is one that is not used; mail
  arrives or is not followed. Profile, brand and notification settings and API
  keys are left out: one endpoint writes each.
* Sessions: access tokens, and more than one Google identity, are left out; the
  second factor is Accounts'.
* ResultScreen: limits are whole numbers from 0 to `Top`; a cached answer is a
  late `Adopt`; pages without questions, names of keys and lengths of texts are
  left out.
* Checkout: partial refunds (`fully_refunded`, which change nothing) and
  "complimentary" widgets are left out; a customer pays after the handler that
  made the session has ended; the event of an asynchronous payment method is one
  the code ignores; overlapping handlers may leave a widget that disagrees with
  its payment, which is why `RowsAgree` speaks of widgets outside `crossed`.
* Allowances: builds and subscriptions are actions of the environment; the
  display of usage and prices is left out.

Not modelled:

* The rate limiter: one counter per key and window; its lost expiry is repeated
  by the next hit, and no other component reads it.
* Build events: a replay for a progress bar. What of it fails a build is a fault
  of Generation.
* The analyzer's and Architect's prompts, the text and prices a crawl collects,
  the guard of addresses, the formats of the providers: input and output without
  state of their own.
* Settings, logging, mail and metrics: constants and environment.
* The frontend but for the paging of leads: it renders queries, and its refresh
  in flight is within one browser tab.
