--------------------------- MODULE BuildLifecycle ---------------------------
(***************************************************************************)
(* The life of one widget's builds: the API endpoints that queue a build    *)
(* (features/widgets/routes.py), the Celery task that runs it               *)
(* (platform/pipeline/tasks.py), the redelivery, retry and time-limit       *)
(* rules of platform/celery_app.py, the reset at API start                  *)
(* (platform/http/app.py), the publications that take no lock (redeploy and *)
(* rollback), and the heal sweep, which takes the same lock as a build.     *)
(*                                                                          *)
(* A request dispatches at most one Celery message, so a request and its    *)
(* task share one name.  The widget lock is kept as its owner; that a live  *)
(* owner keeps it is RedisLock's theorem HolderCorrect.                     *)
(*                                                                          *)
(* What goes wrong around the code is an action too.  The events after      *)
(* which a widget may be left in "building" for good are remembered in      *)
(* `troubled`, so that a property says exactly until when it holds.         *)
(***************************************************************************)
EXTENDS Integers, FiniteSets

CONSTANTS
  Requests,    \* the presses of Build and Retry
  SkipDeploy,  \* those that ask for a build without publishing
  Flushing,    \* those whose handler writes the widget before it dispatches
  Free,        \* the lock key does not exist
  Leaked,      \* the key of a holder that will not release it
  Healer,      \* the heal sweep holds the key
  MaxLosses    \* bound on the workers lost and the coroutines interrupted

ASSUME RequestsAssumption == SkipDeploy \subseteq Requests /\ Flushing \subseteq Requests
ASSUME OwnersAssumption ==
  /\ {Free, Leaked, Healer} \cap Requests = {}
  /\ Free # Leaked /\ Leaked # Healer /\ Healer # Free
ASSUME MaxLossesAssumption == MaxLosses \in Nat

VARIABLES
  status,   \* widgets.status
  live,     \* widgets.deployment_url is not NULL
  saved,    \* the workspace holds a build
  lock,     \* the owner of the key widget:{id}
  heal,     \* where the sweep is with this widget
  api,      \* where each request handler is
  task,     \* where each Celery task is
  retries,  \* self.request.retries of each task
  seen,     \* the row each task loaded before it saves its result
  adrift,   \* the tasks whose interrupted coroutine may still resume
  pub,      \* the status a redeploy or rollback loaded, or "none"
  losses,   \* workers lost and coroutines interrupted so far
  troubled  \* history: something happened that may strand a widget

widget == <<status, live, saved>>
worker == <<task, retries, seen, adrift, losses, troubled>>
vars == <<widget, lock, heal, api, worker, pub>>

Statuses == {"analyzed", "building", "active", "failed"}
ApiPCs == {"idle", "checked", "dispatched", "accepted", "refused", "lost"}
TaskPCs == {"none", "queued", "running", "building", "saving", "published", "failing", "skipped", "done"}
HealPCs == {"idle", "picked", "holding", "healing"}
Rows == [status : Statuses, live : BOOLEAN]
NoRow == [status |-> "analyzed", live |-> FALSE]

TypeOK ==
  /\ status \in Statuses /\ live \in BOOLEAN /\ saved \in BOOLEAN
  /\ lock \in Requests \cup {Free, Leaked, Healer}
  /\ heal \in HealPCs
  /\ api \in [Requests -> ApiPCs]
  /\ task \in [Requests -> TaskPCs]
  /\ retries \in [Requests -> 0 .. 1]
  /\ seen \in [Requests -> Rows]
  /\ adrift \subseteq Requests
  /\ pub \in Statuses \cup {"none"}
  /\ losses \in 0 .. MaxLosses /\ troubled \in BOOLEAN

Init ==
  /\ status = "analyzed" /\ live = FALSE /\ saved = FALSE
  /\ lock = Free
  /\ heal = "idle"
  /\ api = [r \in Requests |-> "idle"]
  /\ task = [r \in Requests |-> "none"]
  /\ retries = [r \in Requests |-> 0]
  /\ seen = [r \in Requests |-> NoRow]
  /\ adrift = {}
  /\ pub = "none"
  /\ losses = 0 /\ troubled = FALSE

----------------------------------------------------------------------------
(* What the steps are made of.                                              *)

Api(r, place) == api' = [api EXCEPT ![r] = place]
Task(t, place) == task' = [task EXCEPT ![t] = place]

\* The task's coroutine is inside `async with distributed_lock(...)`.
InBlock(t) == task[t] \in {"building", "saving", "published"}

\* The task has not ended.
Unfinished(t) == task[t] \notin {"none", "skipped", "done"}

\* A press is being handled, or its build goes on.
Busy(r) == api[r] \in {"checked", "dispatched"} \/ Unfinished(r)

\* The handler of `r` is between its first flush and its commit, and so it
\* holds the widget's row in the database.
RowHeld == \E r \in Flushing : api[r] = "dispatched"

\* SQLAlchemy writes an attribute only when it differs from what was loaded.
WriteBack(loaded, assigned, current) == IF assigned = loaded THEN current ELSE assigned

\* The owner is gone and leaves its key to expire.
KeyLeaked(t) == IF lock = t THEN Leaked ELSE lock

\* Something happens that may leave a widget in "building" for good.
Trouble == troubled' = TRUE
TroubleIf(condition) == troubled' = (troubled \/ condition)

\* The owner leaves the block: the key goes, unless Redis cannot be reached.
LeaveBlock(owner) ==
  \/ lock' = (IF lock = owner THEN Free ELSE lock) /\ UNCHANGED troubled
  \/ lock = owner /\ lock' = Leaked /\ Trouble

----------------------------------------------------------------------------
(* The API: build_endpoint and retry_build_endpoint.                        *)

\* The widget is loaded and its status allows a build.
Check(r) ==
  /\ api[r] = "idle"
  /\ status \in {"analyzed", "failed"}
  /\ TroubleIf(\E u \in Requests : Busy(u))
  /\ Api(r, "checked")
  /\ UNCHANGED <<widget, lock, heal, task, retries, seen, adrift, losses, pub>>

\* The message is published before the handler's transaction commits.
Dispatch(r) ==
  /\ api[r] = "checked"
  /\ r \in Flushing => ~RowHeld
  /\ Api(r, "dispatched")
  /\ Task(r, "queued")
  /\ UNCHANGED <<widget, lock, heal, retries, seen, adrift, losses, troubled, pub>>

\* Mutant: the error is logged and passed over.
BrokerErrorIgnored(r) ==
  /\ api[r] = "checked"
  /\ Api(r, "dispatched")
  /\ UNCHANGED <<widget, lock, heal, worker, pub>>

\* apply_async raises: 503, and the transaction is rolled back.  Any exception
\* does, so the broker may have the message and only its answer be lost.
BrokerDown(r) ==
  /\ api[r] = "checked"
  /\ r \in Flushing => ~RowHeld
  /\ Api(r, "refused")
  /\ UNCHANGED task \/ Task(r, "queued")
  /\ UNCHANGED <<widget, lock, heal, retries, seen, adrift, losses, troubled, pub>>

\* The usage row and status = "building" become visible together.
Commit(r) ==
  /\ api[r] = "dispatched"
  /\ r \notin Flushing => ~RowHeld
  /\ status' = "building"
  /\ Api(r, "accepted")
  /\ UNCHANGED <<live, saved, lock, heal, worker, pub>>

\* The handler's transaction is rolled back; the message is already out.
CommitLost(r) ==
  /\ api[r] = "dispatched"
  /\ Api(r, "lost")
  /\ UNCHANGED <<widget, lock, heal, worker, pub>>

\* lifespan: an API process starts and resets every widget in "building".
Restart ==
  /\ status = "building"
  /\ ~RowHeld
  /\ status' = "analyzed"
  /\ UNCHANGED <<live, saved, lock, heal, api, worker, pub>>

\* deploy_endpoint and rollback_endpoint: no status check and no lock.
PublishLoad ==
  /\ pub = "none" /\ saved
  /\ pub' = status
  /\ UNCHANGED <<widget, lock, heal, api, worker>>

PublishCommit ==
  /\ pub # "none"
  /\ ~RowHeld
  /\ status' = WriteBack(pub, "active", status)
  /\ live' = TRUE
  /\ pub' = "none"
  /\ UNCHANGED <<saved, lock, heal, api, worker>>

PublishRefused ==
  /\ pub # "none"
  /\ pub' = "none"
  /\ UNCHANGED <<widget, lock, heal, api, worker>>

----------------------------------------------------------------------------
(* The task: build_widget_task around _run_build_pipeline.                  *)

\* A worker takes the message from the queue.
Start(t) ==
  /\ task[t] = "queued"
  /\ TroubleIf(api[t] = "dispatched")      \* the worker is faster than the commit
  /\ Task(t, "running")
  /\ UNCHANGED <<widget, lock, heal, api, retries, seen, adrift, losses, pub>>

\* Mutant: a build and a heal take different keys.
AcquireBesideHeal(t) ==
  /\ task[t] = "running"
  /\ lock \in {Free, Healer}
  /\ lock' = t
  /\ Task(t, "building")
  /\ UNCHANGED <<widget, heal, api, retries, seen, adrift, losses, troubled, pub>>

Acquire(t) ==
  /\ task[t] = "running"
  /\ lock = Free
  /\ lock' = t
  /\ Task(t, "building")
  /\ UNCHANGED <<widget, heal, api, retries, seen, adrift, losses, troubled, pub>>

\* LockNotAcquired: the task returns, and it is acknowledged.
Skip(t) ==
  /\ task[t] = "running"
  /\ TroubleIf(lock = Free)                \* Redis cannot be reached
  /\ Task(t, "skipped")
  /\ UNCHANGED <<widget, lock, heal, api, retries, seen, adrift, losses, pub>>

\* The pipeline has run, each of its progress writes has passed the row, the
\* session has loaded the widget, and the workspace has been replaced.
Load(t) ==
  /\ task[t] = "building"
  /\ ~RowHeld
  /\ seen' = [seen EXCEPT ![t] = [status |-> status, live |-> live]]
  /\ saved' = TRUE
  /\ Task(t, "saving")
  /\ UNCHANGED <<status, live, lock, heal, api, retries, adrift, losses, troubled, pub>>

\* The widget's columns after the result of `t` has been written over a row
\* that was loaded as `row`.
Result(t, row) ==
  IF t \in SkipDeploy
  THEN /\ status' = WriteBack(row.status, "analyzed", status)
       /\ live' = WriteBack(row.live, FALSE, live)
  ELSE /\ status' = WriteBack(row.status, "active", status)
       /\ live' = TRUE                      \* every deployment has a new URL

\* Mutant: the commit is forgotten.
SaveNothing(t) ==
  /\ task[t] = "saving"
  /\ ~RowHeld
  /\ seen' = [seen EXCEPT ![t] = NoRow]
  /\ Task(t, "published")
  /\ UNCHANGED <<widget, lock, heal, api, retries, adrift, losses, troubled, pub>>

\* _update_widget_after_build commits.
Save(t) ==
  /\ task[t] = "saving"
  /\ ~RowHeld
  /\ Result(t, seen[t])
  /\ seen' = [seen EXCEPT ![t] = NoRow]
  /\ Task(t, "published")
  /\ UNCHANGED <<saved, lock, heal, api, retries, adrift, losses, troubled, pub>>

\* The block is left, the message acknowledged.
Finish(t) ==
  /\ task[t] = "published"
  /\ Task(t, "done")
  /\ LeaveBlock(t)
  /\ UNCHANGED <<widget, heal, api, retries, seen, adrift, losses, pub>>

\* An exception leaves the block, or comes before it.
Raise(t) ==
  /\ task[t] \in {"running", "building", "saving"}
  /\ Task(t, "failing")
  /\ LeaveBlock(t)
  /\ seen' = [seen EXCEPT ![t] = NoRow]
  /\ UNCHANGED <<widget, heal, api, retries, adrift, losses, pub>>

\* self.retry: the message is published again, the first one acknowledged.
Retry(t) ==
  /\ task[t] = "failing"
  /\ retries[t] = 0
  /\ retries' = [retries EXCEPT ![t] = 1]
  /\ Task(t, "queued")
  /\ UNCHANGED <<widget, lock, heal, api, seen, adrift, losses, troubled, pub>>

\* The retry cannot be published, and Celery rejects the message for good.
RetryLost(t) ==
  /\ task[t] = "failing"
  /\ retries[t] = 0
  /\ Task(t, "done")
  /\ Trouble
  /\ UNCHANGED <<widget, lock, heal, api, retries, seen, adrift, losses, pub>>

\* Mutant: the task returns without recording the failure.
GiveUp(t) ==
  /\ task[t] = "failing"
  /\ Task(t, "done")
  /\ UNCHANGED <<widget, lock, heal, api, retries, seen, adrift, losses, troubled, pub>>

\* The error is not retryable (any error may be) or no retry is left.
MarkFailed(t) ==
  /\ task[t] = "failing"
  /\ ~RowHeld
  /\ status' = "failed"
  /\ Task(t, "done")
  /\ UNCHANGED <<live, saved, lock, heal, api, retries, seen, adrift, losses, troubled, pub>>

\* _update_build_progress swallows what goes wrong with the database.
MarkFailedLost(t) ==
  /\ task[t] = "failing"
  /\ Task(t, "done")
  /\ Trouble
  /\ UNCHANGED <<widget, lock, heal, api, retries, seen, adrift, losses, pub>>

----------------------------------------------------------------------------
(* What Celery and Redis do to the task.                                    *)

\* The worker process dies before the acknowledgement: task_acks_late and
\* task_reject_on_worker_lost put the message back.  The key stays.
WorkerLost(t) ==
  /\ losses < MaxLosses
  /\ Unfinished(t) /\ task[t] # "queued"
  /\ losses' = losses + 1
  /\ lock' = KeyLeaked(t)
  /\ seen' = [seen EXCEPT ![t] = NoRow]
  /\ Task(t, "queued")
  /\ Trouble
  /\ UNCHANGED <<widget, heal, api, retries, adrift, pub>>

\* task_time_limit: the process is killed and the message acknowledged.
HardLimit(t) ==
  /\ Unfinished(t) /\ task[t] # "queued"
  /\ lock' = KeyLeaked(t)
  /\ seen' = [seen EXCEPT ![t] = NoRow]
  /\ Task(t, "done")
  /\ Trouble
  /\ UNCHANGED <<widget, heal, api, retries, adrift, losses, pub>>

\* task_soft_time_limit interrupts the event loop while the pipeline awaits.
\* build_widget_task handles the exception; the coroutine is not cancelled: it
\* keeps the key, and resumes when the process next runs its loop (_get_loop).
\* An interrupt inside the coroutine is Raise.
SoftLimit(t) ==
  /\ losses < MaxLosses
  /\ task[t] = "building"
  /\ losses' = losses + 1
  /\ lock' = KeyLeaked(t)
  /\ adrift' = adrift \cup {t}
  /\ Task(t, "failing")
  /\ Trouble
  /\ UNCHANGED <<widget, heal, api, retries, seen, pub>>

\* The resumed coroutine loads the widget and writes its result.  That it then
\* releases its key is KeyExpires.
AdriftSaves(t) ==
  /\ t \in adrift
  /\ ~RowHeld
  /\ Result(t, [status |-> status, live |-> live])
  /\ saved' = TRUE
  /\ adrift' = adrift \ {t}
  /\ UNCHANGED <<lock, heal, api, task, retries, seen, losses, troubled, pub>>

\* It raises into nowhere, or its process ends.
AdriftEnds(t) ==
  /\ t \in adrift
  /\ adrift' = adrift \ {t}
  /\ UNCHANGED <<widget, lock, heal, api, task, retries, seen, losses, troubled, pub>>

\* self_heal_lock_ttl_seconds run out on a key nobody will release.
KeyExpires ==
  /\ lock = Leaked
  /\ lock' = Free
  /\ UNCHANGED <<widget, heal, api, worker, pub>>

----------------------------------------------------------------------------
(* The heal sweep: _select_widgets_to_heal, then _heal_one_widget.          *)

\* The sweep selects its batch once; this widget's turn may come much later,
\* and a build that meets its key is skipped.
HealPick ==
  /\ heal = "idle" /\ status = "active"
  /\ heal' = "picked"
  /\ Trouble
  /\ UNCHANGED <<widget, lock, api, task, retries, seen, adrift, losses, pub>>

HealAcquire ==
  /\ heal = "picked"
  /\ lock = Free
  /\ lock' = Healer
  /\ heal' = "holding"
  /\ UNCHANGED <<widget, api, worker, pub>>

HealSkip ==
  /\ heal = "picked"
  /\ TroubleIf(lock = Free)
  /\ heal' = "idle"
  /\ UNCHANGED <<widget, lock, api, task, retries, seen, adrift, losses, pub>>

\* The widget is loaded under the lock, and left alone unless still active.
HealLoad ==
  /\ heal = "holding"
  /\ status = "active"
  /\ heal' = "healing"
  /\ UNCHANGED <<widget, lock, api, worker, pub>>

\* The block is left.  A heal that republished has loaded "active" and assigns
\* "active": the status is not among the columns it writes.
HealEnd ==
  /\ \/ heal = "holding" /\ status # "active" /\ UNCHANGED live
     \/ heal = "healing" /\ ~RowHeld /\ live' \in {live, TRUE}
  /\ heal' = "idle"
  /\ LeaveBlock(Healer)
  /\ UNCHANGED <<status, saved, api, task, retries, seen, adrift, losses, pub>>

\* The worker is lost, or killed by a time limit, during the heal.
HealDies ==
  /\ heal \in {"holding", "healing"}
  /\ heal' = "idle"
  /\ lock' = KeyLeaked(Healer)
  /\ UNCHANGED <<widget, api, worker, pub>>

----------------------------------------------------------------------------

ApiStep(r) == Check(r) \/ Dispatch(r) \/ BrokerDown(r) \/ Commit(r) \/ CommitLost(r)

\* What a worker that is alive does next.
TaskStep(t) ==
  \/ Start(t)
  \/ Acquire(t)
  \/ Skip(t)
  \/ Load(t)
  \/ Save(t)
  \/ Finish(t)
  \/ Raise(t)
  \/ Retry(t)
  \/ RetryLost(t)
  \/ MarkFailed(t)
  \/ MarkFailedLost(t)

Disruption(t) ==
  \/ WorkerLost(t)
  \/ HardLimit(t)
  \/ SoftLimit(t)
  \/ AdriftSaves(t)
  \/ AdriftEnds(t)

HealStep == HealPick \/ HealAcquire \/ HealSkip \/ HealLoad \/ HealEnd \/ HealDies

PublishStep == PublishLoad \/ PublishCommit \/ PublishRefused

Next ==
  \/ \E r \in Requests : ApiStep(r) \/ TaskStep(r) \/ Disruption(r)
  \/ HealStep
  \/ PublishStep
  \/ Restart
  \/ KeyExpires

Spec == Init /\ [][Next]_vars

\* A handler that has dispatched ends, a worker that is alive goes on, and
\* Redis expires keys.  Nothing forces an owner to press, a fault to happen,
\* or a coroutine that is adrift to resume.
Fairness ==
  /\ \A r \in Requests : WF_vars(Commit(r) \/ CommitLost(r)) /\ WF_vars(TaskStep(r))
  /\ WF_vars(KeyExpires)

FairSpec == Spec /\ Fairness

----------------------------------------------------------------------------

(* tasks.py:70, "The one lock that both building and healing a widget must    *)
(* hold": a task that runs the block owns the key, and so does a heal,         *)
(* whatever is lost, killed, retried or redelivered; a build and a heal that   *)
(* their workers still run are never both in the block.  A coroutine that a    *)
(* time limit has left adrift is not among them: it owns nothing once its key  *)
(* has expired, and may resume and write while another is in the block.        *)
LockProtects ==
  /\ \A t \in Requests : InBlock(t) => lock = t
  /\ heal \in {"holding", "healing"} => lock = Healer

\* The task will still write the widget's status, or publish itself again.
Working(t) == task[t] \in {"queued", "running", "building", "saving", "failing"}

(* A widget that says "building" has a task that will still write its status. *)
(* Read with RowHeld, the retry and the write-back of unchanged attributes,   *)
(* it says that no order of the handler's commit, the task's load and the     *)
(* task's commit leaves the widget in "building" with nobody working on it,   *)
(* over a refused broker, a lost commit, restarts of the API, redeploys and   *)
(* rollbacks; overlapping requests, a worker that is faster than the commit,  *)
(* a heal, and lost workers, locks, retries and databases are the exceptions. *)
NeverStranded ==
  ~troubled /\ status = "building" => \E t \in Requests : Working(t)

(* Once in "building", a widget leaves it: the owner is never left in front   *)
(* of a progress bar that nothing moves, with the exceptions of NeverStranded. *)
BuildingResolves == status = "building" /\ ~troubled ~> status # "building" \/ troubled

(* routes.py:207, "metering a build that was never queued would charge a       *)
(* customer for nothing": a press whose usage row is committed has sent its    *)
(* message, and the build it paid for is not passed over because the key is    *)
(* held by another one.  The order of dispatch and commit gives the first; the *)
(* second says that no order of releases, failures, retries, refused and lost  *)
(* answers leaves a key behind for a press that comes when the one before has  *)
(* ended, until one of the exceptions of NeverStranded.                        *)
MeteredBuildsRun ==
  \A r \in Requests :
    api[r] = "accepted" =>
      /\ task[r] # "none"
      /\ task[r] = "skipped" => troubled
=============================================================================
