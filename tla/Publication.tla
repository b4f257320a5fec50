---------------------------- MODULE Publication ----------------------------
(***************************************************************************)
(* What one widget serves: the log widget_deployments with its is_current   *)
(* flags, the widget's deployment_url, and the provider's permanent alias.  *)
(* Three kinds of publishers write them (features/widgets/service.py,       *)
(* platform/clients/deployment.py):                                         *)
(*                                                                          *)
(*   Builders    builds, which deploy first, then load and write the widget *)
(*               before the log; the widget lock lets one run at a time     *)
(*   Redeploys   POST /deploy: load, deploy, then the log and the widget    *)
(*   Rollbacks   POST /rollback: load, choose the previous row, move the    *)
(*               alias, then the log and the widget                         *)
(*                                                                          *)
(* Each publisher is one transaction under READ COMMITTED.  Its UPDATE of   *)
(* the log sees the rows that were committed when it started, waits for the *)
(* rows another transaction has updated, and then looks at their new        *)
(* versions.  A publisher inserts one row, so the row carries its name.     *)
(***************************************************************************)
EXTENDS Integers, FiniteSets

CONSTANTS
  Builders, Redeploys, Rollbacks,   \* the publishers
  First,        \* the row, and the build, that the widget starts with
  None          \* nobody holds the widget's row

Publishers == Builders \cup Redeploys \cup Rollbacks
Rows == Publishers \cup {First}
Builds == Builders \cup Redeploys \cup {First}

PCs == {"idle", "deployed", "loaded", "chosen", "moved", "flushed", "reading", "demoted",
        "done", "aborted", "torn"}

\* The places of a publisher that has already moved the alias.
Moved == {"deployed", "moved", "flushed", "reading", "demoted"}

ASSUME KindsAssumption ==
  /\ Builders \cap Redeploys = {}
  /\ Builders \cap Rollbacks = {}
  /\ Redeploys \cap Rollbacks = {}
ASSUME FiniteAssumption == IsFiniteSet(Publishers)
ASSUME NamesAssumption == First \notin Publishers /\ None \notin Publishers

VARIABLES
  rows,      \* the committed rows of the log
  current,   \* those of them with is_current
  build,     \* the build each row, committed or to come, points at
  stamp,     \* created_at: the order in which the transactions began
  url,       \* the build in widgets.deployment_url
  alias,     \* the build the permanent hostname serves
  rowOwner,  \* the transaction that holds the widget's row
  pc,        \* where each publisher is
  loaded,    \* the deployment_url each has loaded
  target,    \* the current rows each one's UPDATE has found
  demoted,   \* the rows each one has updated and not yet committed
  overlapped,\* whether a publisher has ever begun while another was under way
  left       \* the publisher that was torn after the last one that succeeded

log == <<rows, current, build, stamp>>
vars == <<log, url, alias, rowOwner, pc, loaded, target, demoted, overlapped,
          left>>

TypeOK ==
  /\ rows \subseteq Rows /\ current \subseteq rows
  /\ build \in [Rows -> Builds]
  /\ stamp \in [Rows -> Nat]
  /\ url \in Builds /\ alias \in Builds
  /\ rowOwner \in Publishers \cup {None}
  /\ pc \in [Publishers -> PCs]
  /\ loaded \in [Publishers -> Builds]
  /\ target \in [Publishers -> SUBSET Rows]
  /\ demoted \in [Publishers -> SUBSET Rows]
  /\ overlapped \in BOOLEAN
  /\ left \in Publishers \cup {None}

Init ==
  /\ rows = {First} /\ current = {First}
  /\ build = [r \in Rows |-> IF r \in Builds THEN r ELSE First]
  /\ stamp = [r \in Rows |-> 0]
  /\ url = First /\ alias = First
  /\ rowOwner = None
  /\ pc = [p \in Publishers |-> "idle"]
  /\ loaded = [p \in Publishers |-> First]
  /\ target = [p \in Publishers |-> {}]
  /\ demoted = [p \in Publishers |-> {}]
  /\ overlapped = FALSE
  /\ left = None

----------------------------------------------------------------------------

Ended(p) == pc[p] \in {"done", "aborted", "torn"}
UnderWay(p) == pc[p] # "idle" /\ ~Ended(p)
Goto(p, place) == pc' = [pc EXCEPT ![p] = place]

\* The widget lock (RedisLock) admits one builder at a time.
MayBegin(p) ==
  /\ pc[p] = "idle"
  /\ p \in Builders => \A q \in Builders : ~UnderWay(q)

\* A publisher that begins takes note of the others.
Begin(p) ==
  /\ MayBegin(p)
  /\ overlapped' = (overlapped \/ \E q \in Publishers : UnderWay(q))

\* deploy_directory: the new deployment takes the alias, whatever follows.
Deploy(p) ==
  /\ \/ p \in Builders /\ Begin(p) /\ Goto(p, "deployed")
     \/ p \in Redeploys /\ pc[p] = "loaded" /\ Goto(p, "moved") /\ UNCHANGED overlapped
  /\ alias' = p
  /\ UNCHANGED <<left, log, url, rowOwner, loaded, target, demoted>>

\* The transaction begins and loads the widget.
Load(p) ==
  /\ \/ p \in Builders /\ pc[p] = "deployed" /\ Goto(p, "moved") /\ UNCHANGED overlapped
     \/ p \notin Builders /\ Begin(p) /\ Goto(p, "loaded")
  /\ stamp' = [stamp EXCEPT ![p] =
                 1 + Cardinality({q \in Publishers \ {p} : stamp[q] > 0})]
  /\ loaded' = [loaded EXCEPT ![p] = url]
  /\ UNCHANGED <<left, rows, current, build, url, alias, rowOwner, target, demoted>>

\* Mutant: the newest row, the one that is being served included.
ChooseNewest(p) ==
  /\ p \in Rollbacks /\ pc[p] = "loaded"
  /\ \E r \in rows :
       /\ \A s \in rows : stamp[s] <= stamp[r]
       /\ build' = [build EXCEPT ![p] = build[r]]
  /\ Goto(p, "chosen")
  /\ UNCHANGED <<left, rows, current, stamp, url, alias, rowOwner, loaded, target, demoted, overlapped>>

\* rollback_widget: the newest committed row that is not current.
Choose(p) ==
  /\ p \in Rollbacks /\ pc[p] = "loaded"
  /\ \E r \in rows \ current :
       /\ \A s \in rows \ current : stamp[s] <= stamp[r]
       /\ build' = [build EXCEPT ![p] = build[r]]
  /\ Goto(p, "chosen")
  /\ UNCHANGED <<left, rows, current, stamp, url, alias, rowOwner, loaded, target, demoted, overlapped>>

\* WidgetBuildMissing: no row to go back to.
NothingToChoose(p) ==
  /\ p \in Rollbacks /\ pc[p] = "loaded"
  /\ rows = current
  /\ Goto(p, "aborted")
  /\ UNCHANGED <<left, log, url, alias, rowOwner, loaded, target, demoted, overlapped>>

\* Mutant: the rollback changes the database and nothing else.
PromoteNothing(p) ==
  /\ p \in Rollbacks /\ pc[p] = "chosen"
  /\ Goto(p, "moved")
  /\ UNCHANGED <<left, log, url, alias, rowOwner, loaded, target, demoted, overlapped>>

\* promote_deployment: the alias is moved to the older build.
Promote(p) ==
  /\ p \in Rollbacks /\ pc[p] = "chosen"
  /\ alias' = build[p]
  /\ Goto(p, "moved")
  /\ UNCHANGED <<left, log, url, rowOwner, loaded, target, demoted, overlapped>>

\* The UPDATE of the widget is flushed, and takes its row: before the log in a
\* build, whose attributes are already assigned, after it in the others.
TakeRow(p) ==
  /\ rowOwner = None
  /\ \/ p \in Builders /\ pc[p] = "moved" /\ Goto(p, "flushed")
     \/ p \notin Builders /\ pc[p] = "demoted" /\ UNCHANGED pc
  /\ rowOwner' = p
  /\ UNCHANGED <<left, log, url, alias, loaded, target, demoted, overlapped>>

\* record_deployment's UPDATE starts: it sees what is committed now.
ReadCurrent(p) ==
  /\ pc[p] = IF p \in Builders THEN "flushed" ELSE "moved"
  /\ target' = [target EXCEPT ![p] = current]
  /\ Goto(p, "reading")
  /\ UNCHANGED <<left, log, url, alias, rowOwner, loaded, demoted, overlapped>>

\* The row locks `p` would wait for.
Blocked(p, q) == q # p /\ target[p] \cap demoted[q] # {}

\* The UPDATE ends: of the rows it has found it demotes those still current.
Demote(p) ==
  /\ pc[p] = "reading"
  /\ \A q \in Publishers : ~Blocked(p, q)
  /\ demoted' = [demoted EXCEPT ![p] = target[p] \cap current]
  /\ target' = [target EXCEPT ![p] = {}]
  /\ Goto(p, "demoted")
  /\ UNCHANGED <<left, log, url, alias, rowOwner, loaded, overlapped>>

\* Mutant: the widget is left as it is.
CommitLogOnly(p) ==
  /\ pc[p] = "demoted"
  /\ rowOwner = p
  /\ rows' = rows \cup {p}
  /\ current' = (current \ demoted[p]) \cup {p}
  /\ rowOwner' = None
  /\ demoted' = [demoted EXCEPT ![p] = {}]
  /\ Goto(p, "done")
  /\ left' = None
  /\ UNCHANGED <<build, stamp, url, alias, loaded, target, overlapped>>

\* The demoted rows, the new row and the widget are committed.  The widget's
\* URL is written only when it differs from the one that was loaded.
Commit(p) ==
  /\ pc[p] = "demoted"
  /\ rowOwner = p
  /\ rows' = rows \cup {p}
  /\ current' = (current \ demoted[p]) \cup {p}
  /\ url' = IF build[p] = loaded[p] THEN url ELSE build[p]
  /\ rowOwner' = None
  /\ demoted' = [demoted EXCEPT ![p] = {}]
  /\ Goto(p, "done")
  /\ left' = None
  /\ UNCHANGED <<build, stamp, alias, loaded, target, overlapped>>

\* Mutant: the session is left open.
AbortWithoutRollback(p) ==
  /\ Goto(p, "aborted")
  /\ UNCHANGED <<left, log, url, alias, rowOwner, loaded, target, demoted, overlapped>>

\* The transaction is rolled back and its locks are given up.  An alias that
\* has moved stays where it is.
Abort(p) ==
  /\ rowOwner' = IF rowOwner = p THEN None ELSE rowOwner
  /\ demoted' = [demoted EXCEPT ![p] = {}]
  /\ target' = [target EXCEPT ![p] = {}]
  /\ Goto(p, IF pc[p] \in Moved THEN "torn" ELSE "aborted")
  /\ left' = IF pc[p] \in Moved THEN p ELSE left
  /\ UNCHANGED <<log, url, alias, loaded, overlapped>>

\* The provider refuses, the process dies, the database goes away.
Fail(p) == UnderWay(p) /\ Abort(p)

\* `p` can go on only when `q` ends.
WaitsFor(p, q) ==
  \/ pc[p] = "reading" /\ Blocked(p, q)
  \/ /\ rowOwner = q /\ q # p
     /\ \/ p \in Builders /\ pc[p] = "moved"
        \/ p \notin Builders /\ pc[p] = "demoted"

\* Postgres finds two transactions that wait for each other and aborts one.
BreakDeadlock(p) ==
  /\ \E q \in Publishers : WaitsFor(p, q) /\ WaitsFor(q, p)
  /\ Abort(p)

Step(p) ==
  \/ Deploy(p)
  \/ Load(p)
  \/ Choose(p)
  \/ NothingToChoose(p)
  \/ Promote(p)
  \/ TakeRow(p)
  \/ ReadCurrent(p)
  \/ Demote(p)
  \/ Commit(p)
  \/ BreakDeadlock(p)

Next == \E p \in Publishers : Step(p) \/ Fail(p)

Spec == Init /\ [][Next]_vars

\* A transaction that can go on does, and Postgres breaks deadlocks.
FairSpec == Spec /\ \A p \in Publishers : WF_vars(UnderWay(p) /\ Step(p))

----------------------------------------------------------------------------

AtRest == \A p \in Publishers : ~UnderWay(p)
InTurn == ~overlapped

(* service.py:532, "exactly one row is current".                              *)
OneCurrent == Cardinality(current) = 1

(* It holds as long as no publication has begun while another was under way,  *)
(* of whatever kinds they are, in whatever order they come and wherever they  *)
(* fail.                                                                      *)
OneCurrentInTurn == InTurn => OneCurrent

(* models.py:239, "is_current marks the deployment the widget's               *)
(* deployment_url points at".                                                 *)
UrlIsCurrent == \E r \in current : build[r] = url

(* The URL in the widget is the build of a row that is current, whatever      *)
(* overlaps with the publication that wrote it, as long as no rollback is     *)
(* among what overlaps.                                                       *)
UrlFollows ==
  InTurn \/ (\A k \in Rollbacks : pc[k] = "idle") => UrlIsCurrent

(* Row locks keep demotions apart: the rows a transaction has updated and not *)
(* yet committed are current, and no other transaction has updated them.  So  *)
(* a commit never demotes a row that was demoted before it.                   *)
DemotionsHold ==
  /\ \A p \in Publishers : demoted[p] \subseteq current
  /\ \A p, q \in Publishers : p # q => demoted[p] \cap demoted[q] = {}

(* service.py:593, "a rollback that updated our database but left the         *)
(* customer's website serving the broken build would be a lie": publications  *)
(* that take turns leave the permanent address on the build that the widget's *)
(* URL names.  One that fails between moving the alias and its commit leaves  *)
(* the address on its own build, and the next one that succeeds, of whatever  *)
(* kind, brings the two together again.                                       *)
AliasIsUrl ==
  InTurn /\ AtRest => alias = IF left = None THEN url ELSE build[left]

(* A rollback that succeeds leaves the widget with another build than the one *)
(* it served when the rollback began, and with one it has served before.      *)
RollbackGoesBack ==
  [][\A p \in Rollbacks :
       InTurn /\ pc[p] = "demoted" /\ pc'[p] = "done" =>
         /\ url' # loaded[p]
         /\ \E r \in rows : build[r] = url']_vars

(* Two publishers that wait for each other do not wait for ever: every        *)
(* publication that has begun comes to an end.                                *)
PublishersEnd == \A p \in Publishers : UnderWay(p) ~> Ended(p)
=============================================================================
