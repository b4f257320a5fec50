------------------------ MODULE BuildLifecycleProofs ------------------------
(* Theorems about BuildLifecycle, for every set of requests, every division  *)
(* of them into SkipDeploy and Flushing, and every bound on lost workers.    *)
EXTENDS BuildLifecycle, TLAPS

USE RequestsAssumption, OwnersAssumption, MaxLossesAssumption

(* The history keeps its type.                                               *)
LEMMA TroubleTyped == ASSUME troubled \in BOOLEAN, [Next]_vars PROVE troubled' \in BOOLEAN
<1> USE DEF worker, widget, Trouble, TroubleIf, LeaveBlock
<1>1. ASSUME NEW r \in Requests, ApiStep(r) PROVE troubled' \in BOOLEAN
  BY <1>1 DEF ApiStep, Check, Dispatch, BrokerDown, Commit, CommitLost
<1>2. ASSUME NEW t \in Requests, TaskStep(t) PROVE troubled' \in BOOLEAN
  BY <1>2 DEF TaskStep, Start, Acquire, Skip, Load, Save, Finish, Raise, Retry, RetryLost,
              MarkFailed, MarkFailedLost
<1>3. ASSUME NEW t \in Requests, Disruption(t) PROVE troubled' \in BOOLEAN
  BY <1>3 DEF Disruption, WorkerLost, HardLimit, SoftLimit, AdriftSaves, AdriftEnds
<1>4. CASE HealStep
  BY <1>4 DEF HealStep, HealPick, HealAcquire, HealSkip, HealLoad, HealEnd, HealDies
<1>5. CASE PublishStep
  BY <1>5 DEF PublishStep, PublishLoad, PublishCommit, PublishRefused
<1>6. CASE Restart \/ KeyExpires \/ UNCHANGED vars
  BY <1>6 DEF Restart, KeyExpires, vars
<1> QED
  BY <1>1, <1>2, <1>3, <1>4, <1>5, <1>6 DEF Next

(* The variables keep their types.                                           *)
LEMMA TypeStep == ASSUME TypeOK, [Next]_vars PROVE TypeOK'
<1> USE DEF TypeOK, Statuses, ApiPCs, TaskPCs, HealPCs, Api, Task,
           widget, worker, LeaveBlock, KeyLeaked, WriteBack
<1>0. NoRow \in Rows /\ troubled' \in BOOLEAN
  BY TroubleTyped DEF NoRow, Rows
<1>1. ASSUME NEW r \in Requests, ApiStep(r) PROVE TypeOK'
  <2>1. CASE Check(r)
    <3>1. api' \in [Requests -> ApiPCs]
      BY <2>1 DEF Check
    <3> QED
      BY <2>1, <1>0, <3>1 DEF Check
  <2>2. CASE Dispatch(r)
    BY <2>2, <1>0 DEF Dispatch
  <2>3. CASE BrokerDown(r) \/ Commit(r) \/ CommitLost(r)
    BY <2>3, <1>0 DEF BrokerDown, Commit, CommitLost
  <2> QED
    BY <1>1, <2>1, <2>2, <2>3 DEF ApiStep
<1>2. ASSUME NEW t \in Requests, TaskStep(t) PROVE TypeOK'
  <2>1. CASE Start(t) \/ Acquire(t) \/ Skip(t)
    BY <2>1, <1>0 DEF Start, Acquire, Skip
  <2>2. CASE Load(t)
    <3>1. [status |-> status, live |-> live] \in Rows
      BY DEF Rows
    <3> QED
      BY <2>2, <1>0, <3>1 DEF Load
  <2>3. CASE Save(t)
    <3>1. seen[t].status \in Statuses /\ seen[t].live \in BOOLEAN
      BY DEF Rows
    <3>2. status' \in Statuses /\ live' \in BOOLEAN
      BY <2>3, <3>1 DEF Save, Result
    <3> QED
      BY <2>3, <3>2, <1>0 DEF Save
  <2>4. CASE Finish(t) \/ Raise(t)
    BY <2>4, <1>0 DEF Finish, Raise
  <2>5. CASE Retry(t) \/ RetryLost(t) \/ MarkFailed(t) \/ MarkFailedLost(t)
    BY <2>5, <1>0 DEF Retry, RetryLost, MarkFailed, MarkFailedLost
  <2> QED
    BY <1>2, <2>1, <2>2, <2>3, <2>4, <2>5 DEF TaskStep
<1>3. ASSUME NEW t \in Requests, Disruption(t) PROVE TypeOK'
  <2>1. CASE WorkerLost(t)
    BY <2>1, <1>0 DEF WorkerLost
  <2>2. CASE HardLimit(t) \/ SoftLimit(t) \/ AdriftEnds(t)
    BY <2>2, <1>0 DEF HardLimit, SoftLimit, AdriftEnds
  <2>3. CASE AdriftSaves(t)
    <3>1. status' \in Statuses /\ live' \in BOOLEAN
      BY <2>3 DEF AdriftSaves, Result
    <3> QED
      BY <2>3, <3>1, <1>0 DEF AdriftSaves
  <2> QED
    BY <1>3, <2>1, <2>2, <2>3 DEF Disruption
<1>4. CASE HealStep
  BY <1>0, <1>4 DEF HealStep, HealPick, HealAcquire, HealSkip, HealLoad, HealEnd, HealDies
<1>5. CASE PublishStep
  BY <1>5 DEF PublishStep, PublishLoad, PublishCommit, PublishRefused
<1>6. CASE Restart \/ KeyExpires
  BY <1>6 DEF Restart, KeyExpires
<1>7. CASE UNCHANGED vars
  BY <1>7 DEF vars
<1> QED
  BY <1>1, <1>2, <1>3, <1>4, <1>5, <1>6, <1>7 DEF Next

THEOREM TypeCorrect == Spec => []TypeOK
<1>1. Init => TypeOK
  <2>1. NoRow \in Rows
    BY DEF NoRow, Rows, Statuses
  <2> SUFFICES ASSUME Init PROVE TypeOK
    OBVIOUS
  <2>2. seen \in [Requests -> Rows]
    BY <2>1 DEF Init
  <2>3. api \in [Requests -> ApiPCs] /\ task \in [Requests -> TaskPCs]
    BY DEF Init, ApiPCs, TaskPCs
  <2>4. retries \in [Requests -> 0 .. 1] /\ losses \in 0 .. MaxLosses
    BY DEF Init
  <2> QED
    BY <2>2, <2>3, <2>4 DEF Init, TypeOK, Statuses, HealPCs
<1> QED
  BY <1>1, TypeStep, PTL DEF Spec

(* Every step keeps the key with the task or the heal that is in the block.  *)
LEMMA LockStep == ASSUME TypeOK, LockProtects, [Next]_vars PROVE LockProtects'
<1> USE DEF TypeOK, LockProtects, InBlock, Api, Task, widget, worker, LeaveBlock, KeyLeaked, Trouble, TroubleIf
<1>1. ASSUME NEW r \in Requests, ApiStep(r) PROVE LockProtects'
  <2>1. CASE Dispatch(r)
    BY <2>1 DEF Dispatch
  <2>2. CASE Check(r) \/ BrokerDown(r) \/ Commit(r) \/ CommitLost(r)
    BY <2>2 DEF Check, BrokerDown, Commit, CommitLost
  <2> QED
    BY <1>1, <2>1, <2>2 DEF ApiStep
<1>2. ASSUME NEW t \in Requests, TaskStep(t) PROVE LockProtects'
  <2>1. CASE Acquire(t)
    BY <2>1 DEF Acquire
  <2>2. CASE Start(t) \/ Skip(t) \/ Load(t) \/ Save(t)
    BY <2>2 DEF Start, Skip, Load, Save
  <2>3. CASE Finish(t) \/ Raise(t)
    BY <2>3 DEF Finish, Raise
  <2>4. CASE Retry(t) \/ RetryLost(t) \/ MarkFailed(t) \/ MarkFailedLost(t)
    BY <2>4 DEF Retry, RetryLost, MarkFailed, MarkFailedLost
  <2> QED
    BY <1>2, <2>1, <2>2, <2>3, <2>4 DEF TaskStep
<1>3. ASSUME NEW t \in Requests, Disruption(t) PROVE LockProtects'
  BY <1>3 DEF Disruption, WorkerLost, HardLimit, SoftLimit, AdriftSaves, AdriftEnds
<1>4. CASE HealStep
  BY <1>4 DEF HealStep, HealPick, HealAcquire, HealSkip, HealLoad, HealEnd, HealDies
<1>5. CASE PublishStep
  BY <1>5 DEF PublishStep, PublishLoad, PublishCommit, PublishRefused
<1>6. CASE Restart \/ KeyExpires
  BY <1>6 DEF Restart, KeyExpires
<1>7. CASE UNCHANGED vars
  BY <1>7 DEF vars
<1> QED
  BY <1>1, <1>2, <1>3, <1>4, <1>5, <1>6, <1>7 DEF Next

(* tasks.py:70: a build whose worker still runs it in the block owns the     *)
(* widget's key, and so does a heal, so these two are never in it together,  *)
(* whatever is lost, killed, retried or redelivered.                         *)
THEOREM LockCorrect == Spec => []LockProtects
<1>1. Init => LockProtects
  BY DEF Init, LockProtects, InBlock
<1> QED
  BY <1>1, LockStep, TypeCorrect, PTL DEF Spec

(* The strengthening of NeverStranded.  Until `troubled` the system is        *)
(* sequential: one request at a time is unfinished, the key belongs to a task *)
(* that is in the block, a message is taken after its handler's commit, and a *)
(* task that is saving has loaded the status that it replaces.                *)
OneAtATime == \A r, u \in Requests : Busy(r) /\ Busy(u) => r = u
KeyInUse == lock # Free => \E t \in Requests : InBlock(t) /\ lock = t
QueueFollowsApi ==
  \A r \in Requests :
    /\ api[r] = "dispatched" => task[r] = "queued"
    /\ api[r] \in {"idle", "checked"} => task[r] = "none"
    /\ task[r] # "skipped"
LoadedWhileBuilding ==
  \A t \in Requests : status = "building" /\ task[t] = "saving" => seen[t].status = "building"

Calm ==
  /\ OneAtATime
  /\ KeyInUse
  /\ QueueFollowsApi
  /\ LoadedWhileBuilding
  /\ heal = "idle" /\ adrift = {}
  /\ status = "building" => \E t \in Requests : Working(t)

CalmInv == troubled \/ Calm

(* No step takes back that something has happened.                            *)
LEMMA TroubleStays == ASSUME [Next]_vars, troubled PROVE troubled'
<1> USE DEF worker, widget, Trouble, TroubleIf, LeaveBlock
<1>1. ASSUME NEW r \in Requests, ApiStep(r) PROVE troubled'
  BY <1>1 DEF ApiStep, Check, Dispatch, BrokerDown, Commit, CommitLost
<1>2. ASSUME NEW t \in Requests, TaskStep(t) PROVE troubled'
  BY <1>2 DEF TaskStep, Start, Acquire, Skip, Load, Save, Finish, Raise, Retry, RetryLost,
              MarkFailed, MarkFailedLost
<1>3. ASSUME NEW t \in Requests, Disruption(t) PROVE troubled'
  BY <1>3 DEF Disruption, WorkerLost, HardLimit, SoftLimit, AdriftSaves, AdriftEnds
<1>4. CASE HealStep
  BY <1>4 DEF HealStep, HealPick, HealAcquire, HealSkip, HealLoad, HealEnd, HealDies
<1>5. CASE PublishStep
  BY <1>5 DEF PublishStep, PublishLoad, PublishCommit, PublishRefused
<1>6. CASE Restart \/ KeyExpires \/ UNCHANGED vars
  BY <1>6 DEF Restart, KeyExpires, vars
<1> QED
  BY <1>1, <1>2, <1>3, <1>4, <1>5, <1>6 DEF Next

(* A step after which nothing has happened yet leaves one build after the     *)
(* other: it is none of the steps that set `troubled`, and each of the rest   *)
(* keeps the parts of Calm.                                                   *)
LEMMA CalmStep == ASSUME TypeOK, CalmInv, [Next]_vars PROVE CalmInv'
<1> SUFFICES ASSUME ~troubled' PROVE Calm'
  BY DEF CalmInv
<1>1. ~troubled /\ Calm
  BY TroubleStays DEF CalmInv
<1> USE <1>1 DEF Calm, OneAtATime, Busy, Unfinished, KeyInUse, QueueFollowsApi,
            LoadedWhileBuilding, Working, InBlock, TypeOK, Api, Task, widget, worker,
            Trouble, TroubleIf, LeaveBlock
<1>2. ASSUME NEW r \in Requests, Check(r) PROVE Calm'
  BY <1>2 DEF Check
<1>3. ASSUME NEW r \in Requests, Dispatch(r) PROVE Calm'
  BY <1>3 DEF Dispatch
<1>4. ASSUME NEW r \in Requests, BrokerDown(r) PROVE Calm'
  BY <1>4 DEF BrokerDown
<1>5. ASSUME NEW r \in Requests, Commit(r) PROVE Calm'
  BY <1>5 DEF Commit
<1>6. ASSUME NEW r \in Requests, CommitLost(r) PROVE Calm'
  BY <1>6 DEF CommitLost
<1>7. ASSUME NEW t \in Requests, Start(t) PROVE Calm'
  BY <1>7 DEF Start
<1>8. ASSUME NEW t \in Requests, Acquire(t) PROVE Calm'
  BY <1>8 DEF Acquire
<1>9. ASSUME NEW t \in Requests PROVE ~Skip(t)
  BY DEF Skip
<1>10. ASSUME NEW t \in Requests, Load(t) PROVE Calm'
  BY <1>10 DEF Load
<1>11. ASSUME NEW t \in Requests, Save(t) PROVE Calm'
  BY <1>11 DEF Save, Result, WriteBack
<1>12. ASSUME NEW t \in Requests, Finish(t) PROVE Calm'
  BY <1>12 DEF Finish
<1>13. ASSUME NEW t \in Requests, Raise(t) PROVE Calm'
  BY <1>13 DEF Raise
<1>14. ASSUME NEW t \in Requests, Retry(t) PROVE Calm'
  BY <1>14 DEF Retry
<1>15. ASSUME NEW t \in Requests, MarkFailed(t) PROVE Calm'
  BY <1>15 DEF MarkFailed
<1>16. ASSUME NEW t \in Requests PROVE ~RetryLost(t) /\ ~MarkFailedLost(t)
  BY DEF RetryLost, MarkFailedLost
<1>17. ASSUME NEW t \in Requests PROVE ~Disruption(t)
  BY DEF Disruption, WorkerLost, HardLimit, SoftLimit, AdriftSaves, AdriftEnds
<1>18. ~HealStep
  BY DEF HealStep, HealPick, HealAcquire, HealSkip, HealLoad, HealEnd, HealDies
<1>19. CASE PublishStep
  BY <1>19 DEF PublishStep, PublishLoad, PublishCommit, PublishRefused, WriteBack
<1>20. CASE Restart
  BY <1>20 DEF Restart
<1>21. CASE KeyExpires
  BY <1>21 DEF KeyExpires
<1>22. CASE UNCHANGED vars
  BY <1>22 DEF vars
<1> QED
  BY <1>2, <1>3, <1>4, <1>5, <1>6, <1>7, <1>8, <1>9, <1>10, <1>11, <1>12, <1>13, <1>14, <1>15,
     <1>16, <1>17, <1>18, <1>19, <1>20, <1>21, <1>22 DEF Next, ApiStep, TaskStep

(* Read with tasks.py:348 and routes.py:805: whatever the order of commits,   *)
(* failures, retries, publications and resets, a widget in "building" has a   *)
(* task that will still write its status, until something happens that        *)
(* `troubled` remembers.                                                      *)
THEOREM NeverStrandedCorrect == Spec => []NeverStranded
<1>1. Init => CalmInv
  BY DEF Init, CalmInv, Calm, OneAtATime, Busy, Unfinished, KeyInUse, QueueFollowsApi,
         LoadedWhileBuilding
<1>2. TypeOK /\ CalmInv /\ [Next]_vars => CalmInv'
  BY CalmStep
<1>3. CalmInv => NeverStranded
  BY DEF CalmInv, Calm, NeverStranded
<1> QED
  BY <1>1, <1>2, <1>3, TypeCorrect, PTL DEF Spec

(* Half of MeteredBuildsRun: a message exists from its dispatch on, and       *)
(* whatever becomes of it, it is never unsent.                                *)
MessageInv ==
  \A r \in Requests : api[r] \in {"dispatched", "accepted"} => task[r] # "none"

LEMMA MessageStep == ASSUME TypeOK, MessageInv, [Next]_vars PROVE MessageInv'
<1> USE DEF TypeOK, MessageInv, Api, Task, Unfinished, InBlock, widget, worker
<1>1. ASSUME NEW r \in Requests, ApiStep(r) PROVE MessageInv'
  BY <1>1 DEF ApiStep, Check, Dispatch, BrokerDown, Commit, CommitLost
<1>2. ASSUME NEW t \in Requests, TaskStep(t) PROVE MessageInv'
  BY <1>2 DEF TaskStep, Start, Acquire, Skip, Load, Save, Finish, Raise, Retry, RetryLost,
              MarkFailed, MarkFailedLost
<1>3. ASSUME NEW t \in Requests, Disruption(t) PROVE MessageInv'
  BY <1>3 DEF Disruption, WorkerLost, HardLimit, SoftLimit, AdriftSaves, AdriftEnds
<1>4. CASE HealStep
  BY <1>4 DEF HealStep, HealPick, HealAcquire, HealSkip, HealLoad, HealEnd, HealDies
<1>5. CASE PublishStep
  BY <1>5 DEF PublishStep, PublishLoad, PublishCommit, PublishRefused
<1>6. CASE Restart \/ KeyExpires \/ UNCHANGED vars
  BY <1>6 DEF Restart, KeyExpires, vars
<1> QED
  BY <1>1, <1>2, <1>3, <1>4, <1>5, <1>6 DEF Next

(* routes.py:207: over refused brokers, lost answers and commits, lost        *)
(* workers, retries and redeliveries too, a build that is metered was queued; *)
(* and as long as nothing has happened that `troubled` remembers, its task    *)
(* is not turned away from the block, for Calm leaves no key to turn it away. *)
THEOREM MeteringCorrect == Spec => []MeteredBuildsRun
<1>1. Init => MessageInv /\ CalmInv
  BY DEF Init, MessageInv, CalmInv, Calm, OneAtATime, Busy, Unfinished, KeyInUse,
         QueueFollowsApi, LoadedWhileBuilding
<1>2. TypeOK /\ MessageInv /\ [Next]_vars => MessageInv'
  BY MessageStep
<1>3. TypeOK /\ CalmInv /\ [Next]_vars => CalmInv'
  BY CalmStep
<1>4. MessageInv /\ CalmInv => MeteredBuildsRun
  BY DEF MessageInv, CalmInv, Calm, QueueFollowsApi, MeteredBuildsRun
<1> QED
  BY <1>1, <1>2, <1>3, <1>4, TypeCorrect, PTL DEF Spec
=============================================================================
