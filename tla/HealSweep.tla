----------------------------- MODULE HealSweep -----------------------------
(***************************************************************************)
(* The scheduled sweep that keeps published widgets in repair               *)
(* (platform/pipeline/tasks.py, platform/pipeline/heal.py): beat starts it, *)
(* it picks the widgets that are most overdue, and for each one compares    *)
(* the brand of the source site and fetches the deployment.                 *)
(*                                                                          *)
(* A check is one database transaction, whose values are `draft` until it   *)
(* commits.  From its first flush the transaction holds the widget's row,   *)
(* and the regeneration of a widget writes its progress to that same row in *)
(* a session of its own (platform/pipeline/engine.py).                      *)
(*                                                                          *)
(* Time is beat's: one Tick is self_heal_interval_minutes.  A sweep and the *)
(* keys of its locks end well within one interval.                          *)
(***************************************************************************)
EXTENDS Integers, Sequences, FiniteSets, SequencesExt

CONSTANTS
  Widgets,
  BatchSize,     \* self_heal_batch_size
  MaxFailures,   \* self_heal_max_failures
  MaxRebrands,   \* bound on how often a source site changes its brand
  MaxFaults      \* bound on lost workers, failed statements and redeliveries

ASSUME WidgetsAssumption == IsFiniteSet(Widgets)
ASSUME BoundsAssumption ==
  BatchSize \in Nat \ {0} /\ MaxFailures \in Nat \ {0} /\ MaxRebrands \in Nat /\ MaxFaults \in Nat

VARIABLES
  active,    \* the widgets whose status is "active"
  order,     \* the active widgets, the one checked longest ago first
  age,       \* beat's ticks since last_heal_check_at; 2 is overdue or NULL
  brandDue,  \* those whose last_brand_check_at is older than its interval
  fails,     \* heal_failure_count
  built,     \* the brand the widget was built from (brand_tokens)
  print,     \* the brand it was last compared with (source_brand_fingerprint)
  site,      \* the brand of the source site
  reach,     \* the widgets whose deployment serves
  held,      \* the rows held by the open transaction of an abandoned sweep
  keys,      \* the widget locks that somebody else holds, or nobody will free
  pc,        \* where the sweep is
  todo,      \* what is left of its batch
  draft,     \* the transaction on Head(todo)
  faults     \* faults so far

rows == <<active, order, age, brandDue, fails, built, print>>
world == <<site, reach>>
vars == <<rows, world, held, keys, pc, todo, draft, faults>>

Brands == 0 .. MaxRebrands
PCs == {"idle", "due", "next", "stamp", "brand", "generating", "health", "republishing", "commit"}
NoDraft == [fails |-> 0, built |-> 0, print |-> 0, checked |-> FALSE]

TypeOK ==
  /\ active \subseteq Widgets /\ brandDue \subseteq Widgets /\ reach \subseteq Widgets
  /\ held \subseteq Widgets /\ keys \subseteq Widgets
  /\ order \in Seq(active) /\ Len(order) = Cardinality(active) /\ ToSet(order) = active
  /\ age \in [Widgets -> 0 .. 2]
  /\ fails \in [Widgets -> 0 .. MaxFailures + 1]
  /\ built \in [Widgets -> Brands] /\ print \in [Widgets -> Brands] /\ site \in [Widgets -> Brands]
  /\ pc \in PCs
  /\ todo \in Seq(active) /\ Len(todo) <= BatchSize
  /\ draft \in [fails : 0 .. MaxFailures + 1, built : Brands, print : Brands, checked : BOOLEAN]
  /\ faults \in 0 .. MaxFaults

Init ==
  /\ active = {} /\ order = <<>>
  /\ age = [w \in Widgets |-> 2]
  /\ brandDue = Widgets
  /\ fails = [w \in Widgets |-> 0]
  /\ built = [w \in Widgets |-> 0] /\ print = built /\ site = built
  /\ reach = {} /\ held = {} /\ keys = {}
  /\ pc = "idle" /\ todo = <<>> /\ draft = NoDraft
  /\ faults = 0

----------------------------------------------------------------------------
(* What the steps are made of.                                              *)

At(place) == pc = place
Widget == Head(todo)

\* The places at which the sweep is inside a widget's lock and session.
InBlock == pc \in PCs \ {"idle", "due", "next"}

\* The transaction on the widget has written to its row and not ended.
HoldsRow == pc \in {"generating", "republishing"}

\* A write to the row of `w` from outside the sweep's transaction goes through.
RowFree(w) == w \notin held /\ ~(HoldsRow /\ Widget = w)

Least(a, b) == IF a < b THEN a ELSE b

\* Mutant: the newest check comes first.
DueNewest ==
  LET overdue(w) == fails[w] < MaxFailures /\ age[w] = 2
  IN SelectSeq(Reverse(order), overdue)

\* _select_widgets_to_heal: active, not given up, and older than the cutoff.
\* A stamp is made after the tick that led to it, so at the next tick it is
\* still younger than the interval.
Due ==
  LET overdue(w) == fails[w] < MaxFailures /\ age[w] = 2
  IN SelectSeq(order, overdue)

Batch == SubSeq(Due, 1, Least(BatchSize, Len(Due)))

\* The widget's block is left and the next widget is its successor's.
NextWidget ==
  /\ pc' = "next"
  /\ todo' = Tail(todo)
  /\ draft' = NoDraft

Move(place) == pc' = place /\ UNCHANGED todo

----------------------------------------------------------------------------
(* The world around the sweep.                                              *)

\* An interval has passed, and beat queues the next sweep.  The keys that were
\* left behind have expired.
Tick ==
  /\ At("idle")
  /\ pc' = "due"
  /\ age' = [w \in Widgets |-> Least(2, age[w] + 1)]
  /\ \E old \in SUBSET (Widgets \ brandDue) : brandDue' = brandDue \cup old
  /\ keys' = {}
  /\ UNCHANGED <<active, order, fails, built, print, world, held, todo, draft, faults>>

\* A build publishes a widget for the first time: _update_widget_after_build.
Publish(w) ==
  /\ w \notin active
  /\ active' = active \cup {w}
  /\ order' = <<w>> \o order                 \* NULLs come first
  /\ built' = [built EXCEPT ![w] = site[w]]
  /\ print' = [print EXCEPT ![w] = site[w]]
  /\ reach' = reach \cup {w}
  /\ UNCHANGED <<age, brandDue, fails, site, held, keys, pc, todo, draft, faults>>

\* The owner redeploys the widget (deploy_existing_widget).
Redeploy(w) ==
  /\ w \in active \ reach
  /\ RowFree(w)
  /\ reach' = reach \cup {w}
  /\ UNCHANGED <<rows, site, held, keys, pc, todo, draft, faults>>

Rebrand(w) ==
  /\ w \in active
  /\ site[w] < MaxRebrands
  /\ site' = [site EXCEPT ![w] = @ + 1]
  /\ UNCHANGED <<rows, reach, held, keys, pc, todo, draft, faults>>

\* The deployment is deleted, protected, or its domain lapses.
GoesDown(w) ==
  /\ w \in reach
  /\ reach' = reach \ {w}
  /\ UNCHANGED <<rows, site, held, keys, pc, todo, draft, faults>>

\* worker_max_tasks_per_child: the process of an abandoned sweep is replaced,
\* its connection closes, and Postgres rolls the transaction back.
Recycle(w) ==
  /\ w \in held
  /\ held' = held \ {w}
  /\ UNCHANGED <<rows, world, keys, pc, todo, draft, faults>>

\* The message of the widget's build is delivered again.  The task builds from
\* the same brief, in the widget's lock, and is done before the next interval.
BuildAgain(w) ==
  /\ w \in active /\ w \notin keys
  /\ ~(InBlock /\ Widget = w)
  /\ faults < MaxFaults
  /\ faults' = faults + 1
  /\ keys' = keys \cup {w}
  /\ UNCHANGED <<rows, world, held, pc, todo, draft>>

----------------------------------------------------------------------------
(* _run_self_heal_sweep and _heal_one_widget.                               *)

Begin ==
  /\ At("due")
  /\ pc' = "next"
  /\ todo' = Batch
  /\ UNCHANGED <<rows, world, held, keys, draft, faults>>

End ==
  /\ At("next") /\ todo = <<>>
  /\ pc' = "idle"
  /\ UNCHANGED <<rows, world, held, keys, todo, draft, faults>>

\* The lock is taken and the widget loaded.
Enter ==
  /\ At("next") /\ todo # <<>>
  /\ Widget \notin keys
  /\ draft' = [fails |-> fails[Widget], built |-> built[Widget], print |-> print[Widget],
               checked |-> FALSE]
  /\ Move("stamp")
  /\ UNCHANGED <<rows, world, held, keys, faults>>

\* LockNotAcquired.
Skip ==
  /\ At("next") /\ todo # <<>>
  /\ Widget \in keys
  /\ NextWidget
  /\ UNCHANGED <<rows, world, held, keys, faults>>

\* Mutant: the time of the check is left to the commit at its end.
StampLater ==
  /\ At("stamp")
  /\ Move("brand")
  /\ UNCHANGED <<rows, world, held, keys, draft, faults>>

\* last_heal_check_at is committed before anything is checked.
Stamp ==
  /\ At("stamp")
  /\ RowFree(Widget)
  /\ age' = [age EXCEPT ![Widget] = 0]
  /\ order' = Append(Remove(order, Widget), Widget)
  /\ Move("brand")
  /\ UNCHANGED <<active, brandDue, fails, built, print, world, held, keys, draft, faults>>

\* The brand was compared within brand_check_interval_minutes.
BrandNotDue ==
  /\ At("brand") /\ Widget \notin brandDue
  /\ Move("health")
  /\ UNCHANGED <<rows, world, held, keys, draft, faults>>

\* check_brand_drift raises: the site is away, or the model is.
BrandError ==
  /\ At("brand") /\ Widget \in brandDue
  /\ draft' = [draft EXCEPT !.fails = @ + 1]
  /\ Move("health")
  /\ UNCHANGED <<rows, world, held, keys, faults>>

\* The fingerprint is the one the widget was last compared with, or nothing
\* that is rendered has changed.
NoDrift == print[Widget] = site[Widget] \/ built[Widget] = site[Widget]

BrandSame ==
  /\ At("brand") /\ Widget \in brandDue
  /\ NoDrift
  /\ draft' = [draft EXCEPT !.fails = 0, !.print = site[Widget], !.checked = TRUE]
  /\ Move("health")
  /\ UNCHANGED <<rows, world, held, keys, faults>>

\* The fingerprint and the time of the check are assigned, and flushed with the
\* heal event: from here on the transaction holds the row.
BrandDrift ==
  /\ At("brand") /\ Widget \in brandDue
  /\ ~NoDrift
  /\ RowFree(Widget)
  /\ draft' = [draft EXCEPT !.print = site[Widget], !.checked = TRUE]
  /\ Move("generating")
  /\ UNCHANGED <<rows, world, held, keys, faults>>

\* generate_and_deploy: its first progress write waits for the row this very
\* task holds.  It goes on only when the database ends that wait with an error,
\* which _update_build_progress swallows.
Regenerate ==
  /\ At("generating")
  /\ draft' = [draft EXCEPT !.fails = 0, !.built = draft.print]
  /\ reach' = reach \cup {Widget}
  /\ Move("health")
  /\ UNCHANGED <<rows, site, held, keys, faults>>

RegenerateFailed ==
  /\ At("generating")
  /\ draft' = [draft EXCEPT !.fails = @ + 1]
  /\ Move("health")
  /\ UNCHANGED <<rows, world, held, keys, faults>>

\* The deployment serves, or the check itself raises.
Healthy ==
  /\ At("health")
  /\ Widget \in reach
  /\ Move("commit")
  /\ UNCHANGED <<rows, world, held, keys, draft, faults>>

\* Mutant: a widget that could not be reached is looked at again next time.
UnreachableLater ==
  /\ At("health")
  /\ Widget \notin reach
  /\ Move("commit")
  /\ UNCHANGED <<rows, world, held, keys, draft, faults>>

\* check_deploy_health is false: the heal event is flushed.
Unreachable ==
  /\ At("health")
  /\ Widget \notin reach
  /\ RowFree(Widget)
  /\ Move("republishing")
  /\ UNCHANGED <<rows, world, held, keys, draft, faults>>

Republish ==
  /\ At("republishing")
  /\ reach' = reach \cup {Widget}
  /\ draft' = [draft EXCEPT !.fails = 0]
  /\ Move("commit")
  /\ UNCHANGED <<rows, site, held, keys, faults>>

RepublishFailed ==
  /\ At("republishing")
  /\ draft' = [draft EXCEPT !.fails = @ + 1]
  /\ Move("commit")
  /\ UNCHANGED <<rows, world, held, keys, faults>>

Commit ==
  /\ At("commit")
  /\ Widget \notin held
  /\ fails' = [fails EXCEPT ![Widget] = draft.fails]
  /\ built' = [built EXCEPT ![Widget] = draft.built]
  /\ print' = [print EXCEPT ![Widget] = draft.print]
  /\ brandDue' = IF draft.checked THEN brandDue \ {Widget} ELSE brandDue
  /\ NextWidget
  /\ UNCHANGED <<active, order, age, world, held, keys, faults>>

----------------------------------------------------------------------------
(* What ends a check before its commit.                                     *)

\* A statement fails: the exception leaves the widget's block, its transaction
\* is rolled back, and the sweep goes on to the next widget.
Abort ==
  /\ InBlock
  /\ faults < MaxFaults
  /\ faults' = faults + 1
  /\ NextWidget
  /\ UNCHANGED <<rows, world, held, keys>>

\* The worker is lost.  The message is redelivered and finds the sweep's lock.
Lost ==
  /\ InBlock
  /\ faults < MaxFaults
  /\ faults' = faults + 1
  /\ keys' = keys \cup {Widget}
  /\ pc' = "idle" /\ todo' = <<>> /\ draft' = NoDraft
  /\ UNCHANGED <<rows, world, held>>

\* The sweep waits for a row: the one that it holds itself, or one that an
\* abandoned sweep holds.
Waits ==
  \/ At("generating")
  \/ pc \in {"stamp", "commit"} /\ Widget \in held

\* task_soft_time_limit ends the task, not the coroutine: a transaction that
\* holds the row stays open.
SoftLimit ==
  /\ Waits
  /\ held' = IF HoldsRow THEN held \cup {Widget} ELSE held
  /\ keys' = keys \cup {Widget}
  /\ pc' = "idle" /\ todo' = <<>> /\ draft' = NoDraft
  /\ UNCHANGED <<rows, world, faults>>

----------------------------------------------------------------------------

SweepStep ==
  \/ Begin \/ Enter \/ Skip \/ Stamp
  \/ BrandNotDue \/ BrandError \/ BrandSame \/ BrandDrift
  \/ Healthy \/ Unreachable \/ Republish \/ RepublishFailed
  \/ Commit \/ End

Environment(w) == Publish(w) \/ Redeploy(w) \/ Rebrand(w) \/ GoesDown(w) \/ Recycle(w)
                  \/ BuildAgain(w)

Next ==
  \/ Tick
  \/ SweepStep
  \/ Regenerate \/ RegenerateFailed
  \/ Abort \/ Lost \/ SoftLimit
  \/ \E w \in Widgets : Environment(w)

Spec == Init /\ [][Next]_vars

\* Beat ticks, a sweep that can go on does, Celery's soft limit ends one that
\* cannot, and processes are recycled.  Nothing makes a site change, a
\* deployment go away, or the database end a wait.
Fairness ==
  /\ WF_vars(Tick) /\ WF_vars(SweepStep) /\ WF_vars(SoftLimit)
  /\ \A w \in Widgets : WF_vars(Recycle(w))

FairSpec == Spec /\ Fairness

----------------------------------------------------------------------------

GivenUp(w) == fails[w] >= MaxFailures

(* tasks.py:662, "so no widget can be starved": every published widget is     *)
(* checked again and again until it is given up, although the batch is        *)
(* smaller than the number of widgets, workers are lost, and sweeps hang in   *)
(* the middle of a batch on a row that they, or their predecessors, hold.     *)
NoStarvation == \A w \in Widgets : []<>(w \notin active \/ age[w] = 0 \/ GivenUp(w))

(* README.md:185, "The live URL is fetched and, if unreachable, the last      *)
(* known-good build is republished": while the brand of its site stays what   *)
(* the widget was built from, a deployment that has gone away comes back, is  *)
(* published again, or the widget is given up.  A drift in the way hangs each *)
(* check before it comes to the deployment.                                   *)
DownIsDealtWith ==
  \A w \in Widgets :
    [](built[w] = site[w]) =>
      []<>(w \notin active \/ w \in reach \/ GivenUp(w) \/ (pc = "republishing" /\ Widget = w))

=============================================================================
