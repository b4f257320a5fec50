-------------------------- MODULE RedisLockProofs --------------------------
(* Theorems about RedisLock, for every set of tasks and every pair of times. *)
EXTENDS RedisLock, TLAPS

(* The variables keep their types: the key names a task or nothing, neither  *)
(* time is negative.  platform/security/locks.py.                            *)
THEOREM TypeCorrect == Spec => []TypeOK
<1> USE NoTokenAssumption, LockTTLAssumption, TaskLimitAssumption DEF TypeOK, PCs, Goto
<1>1. Init => TypeOK
  BY DEF Init
<1>2. TypeOK /\ [Next]_vars => TypeOK'
  <2> SUFFICES ASSUME TypeOK, [Next]_vars PROVE TypeOK'
    OBVIOUS
  <2>1. CASE Tick
    BY <2>1 DEF Tick, Elapse
  <2>2. ASSUME NEW t \in Tasks, Start(t) PROVE TypeOK'
    BY <2>2 DEF Start
  <2>3. ASSUME NEW t \in Tasks, Acquire(t) PROVE TypeOK'
    BY <2>3 DEF Acquire
  <2>4. ASSUME NEW t \in Tasks, NotAcquired(t) PROVE TypeOK'
    BY <2>4 DEF NotAcquired
  <2>5. ASSUME NEW t \in Tasks, Release(t) PROVE TypeOK'
    BY <2>5 DEF Release
  <2>6. ASSUME NEW t \in Tasks, ReleaseFailed(t) PROVE TypeOK'
    BY <2>6 DEF ReleaseFailed
  <2>7. ASSUME NEW t \in Tasks, Interrupt(t) PROVE TypeOK'
    BY <2>7 DEF Interrupt
  <2>8. ASSUME NEW t \in Tasks, Die(t) PROVE TypeOK'
    BY <2>8 DEF Die
  <2>9. CASE UNCHANGED vars
    BY <2>9 DEF vars
  <2> QED
    BY <2>1, <2>2, <2>3, <2>4, <2>5, <2>6, <2>7, <2>8, <2>9 DEF Next, TaskStep
<1> QED
  BY <1>1, <1>2, PTL DEF Spec

(* One step of the argument: a running task in the block owns the key and    *)
(* the key outlives the task, provided the lock's time to live exceeds the   *)
(* time Celery lets a task run.                                              *)
LEMMA HolderOwnsKeyStep ==
  ASSUME LockTTL > TaskLimit, TypeOK, TypeOK', HolderOwnsKey, [Next]_vars
  PROVE  HolderOwnsKey'
<1> USE NoTokenAssumption, LockTTLAssumption, TaskLimitAssumption
    DEF TypeOK, PCs, Goto, HolderOwnsKey, LiveInside
<1>1. CASE Tick
  <2>1. \A t \in LiveInside : key' = t
    BY <1>1 DEF Tick, Running
  <2>2. \A t \in LiveInside : ttl' > left'[t]
    BY <1>1 DEF Tick, Running, Elapse
  <2> QED
    BY <1>1, <2>1, <2>2 DEF Tick
<1>2. ASSUME NEW t \in Tasks, Start(t) PROVE HolderOwnsKey'
  BY <1>2 DEF Start
<1>3. ASSUME NEW t \in Tasks, Acquire(t) PROVE HolderOwnsKey'
  <2>1. \A u \in LiveInside' : u = t
    BY <1>3 DEF Acquire
  <2>2. key' = t /\ ttl' > left'[t]
    BY <1>3 DEF Acquire
  <2> QED
    BY <2>1, <2>2
<1>4. ASSUME NEW t \in Tasks, NotAcquired(t) PROVE HolderOwnsKey'
  BY <1>4 DEF NotAcquired
<1>5. ASSUME NEW t \in Tasks, Release(t) PROVE HolderOwnsKey'
  <2>1. \A u \in LiveInside' : u \in LiveInside /\ u # t
    BY <1>5 DEF Release
  <2>2. key = t => LiveInside' = {}
    BY <2>1
  <2>3. key # t => key' = key
    BY <1>5 DEF Release
  <2> QED
    BY <1>5, <2>1, <2>2, <2>3 DEF Release
<1>6. ASSUME NEW t \in Tasks, ReleaseFailed(t) PROVE HolderOwnsKey'
  BY <1>6 DEF ReleaseFailed
<1>7. ASSUME NEW t \in Tasks, Interrupt(t) PROVE HolderOwnsKey'
  BY <1>7 DEF Interrupt
<1>8. ASSUME NEW t \in Tasks, Die(t) PROVE HolderOwnsKey'
  BY <1>8 DEF Die
<1>9. CASE UNCHANGED vars
  BY <1>9 DEF vars
<1> QED
  BY <1>1, <1>2, <1>3, <1>4, <1>5, <1>6, <1>7, <1>8, <1>9 DEF Next, TaskStep

(* A running task in the block owns the key, at every moment of every        *)
(* behaviour, also of those with coroutines adrift.                          *)
THEOREM HolderCorrect ==
  ASSUME LockTTL > TaskLimit
  PROVE  Spec => []HolderOwnsKey
<1>1. Init => HolderOwnsKey
  BY DEF Init, HolderOwnsKey, LiveInside
<1>2. TypeOK /\ TypeOK' /\ HolderOwnsKey /\ [Next]_vars => HolderOwnsKey'
  BY HolderOwnsKeyStep
<1> QED
  BY <1>1, <1>2, TypeCorrect, PTL DEF Spec

(* locks.py:3: the body of `async with distributed_lock(...)` is never       *)
(* executed by two running tasks at once, when LockTTL exceeds TaskLimit.    *)
(* That is the case of the widget lock (1800 s) and of the heal-sweep lock   *)
(* (3600 s) against task_time_limit (1080 s); it is not the case of the      *)
(* lead-delivery lock (600 s).                                               *)
THEOREM ExclusionCorrect ==
  ASSUME LockTTL > TaskLimit
  PROVE  Spec => []LiveExclusion
<1>1. HolderOwnsKey => LiveExclusion
  BY DEF HolderOwnsKey, LiveExclusion
<1> QED
  BY <1>1, HolderCorrect, PTL

(* The compare-and-delete script never removes the key of another task, for  *)
(* every pair of times: also when the lock expired under its holder.         *)
THEOREM ReleaseCorrect == Spec => ReleaseIsSafe
<1> DEFINE Safe == \A t \in Tasks :
                     t \in Inside /\ t \notin Inside' /\ key \notin {t, NoToken} => key' = key
<1>1. TypeOK /\ [Next]_vars => [Safe]_vars
  <2> SUFFICES ASSUME TypeOK, [Next]_vars,
                      NEW t \in Tasks, t \in Inside, t \notin Inside', key \notin {t, NoToken}
               PROVE  key' = key
    OBVIOUS
  <2> USE DEF TypeOK, Inside, InBlock, Goto
  <2>1. CASE Tick
    BY <2>1 DEF Tick
  <2>2. ASSUME NEW u \in Tasks, TaskStep(u) PROVE key' = key
    <3>1. u = t
      BY <2>2 DEF TaskStep, Start, Acquire, NotAcquired, Release, ReleaseFailed, Interrupt, Die
    <3> QED
      BY <2>2, <3>1 DEF TaskStep, Start, Acquire, NotAcquired, Release, ReleaseFailed, Interrupt, Die
  <2>3. CASE UNCHANGED vars
    BY <2>3 DEF vars
  <2> QED
    BY <2>1, <2>2, <2>3 DEF Next
<1> QED
  BY <1>1, TypeCorrect, PTL DEF Spec, ReleaseIsSafe

(* Under the same condition the Redis lock implements the abstract Mutex:    *)
(* Acquire enters it, Release, ReleaseFailed, Interrupt and Die leave it,    *)
(* and every other step leaves it alone.                                     *)
THEOREM RefinementCorrect ==
  ASSUME LockTTL > TaskLimit
  PROVE  Spec => ImplementsMutex
<1> USE DEF LiveInside, InBlock, Goto, TypeOK, PCs
<1>1. Init => Lock!Init
  BY DEF Init, Lock!Init
<1>2. TypeOK /\ HolderOwnsKey /\ [Next]_vars => [Lock!Next]_LiveInside
  <2> SUFFICES ASSUME TypeOK, HolderOwnsKey, [Next]_vars, LiveInside' # LiveInside
               PROVE  Lock!Next
    OBVIOUS
  <2>1. CASE Tick
    BY <2>1 DEF Tick
  <2>2. ASSUME NEW t \in Tasks, Start(t) PROVE FALSE
    BY <2>2 DEF Start
  <2>3. ASSUME NEW t \in Tasks, NotAcquired(t) PROVE FALSE
    BY <2>3 DEF NotAcquired
  <2>4. ASSUME NEW t \in Tasks, Acquire(t) PROVE Lock!Enter(t)
    <3>1. LiveInside = {}
      BY <2>4, NoTokenAssumption DEF Acquire, HolderOwnsKey
    <3>2. LiveInside' = {t}
      BY <2>4, <3>1 DEF Acquire
    <3> QED
      BY <3>1, <3>2 DEF Lock!Enter
  <2>5. ASSUME NEW t \in Tasks, Release(t) \/ ReleaseFailed(t) \/ Interrupt(t) \/ Die(t)
        PROVE  Lock!Exit(t)
    <3>1. pc' = [pc EXCEPT ![t] = "idle"] \/ pc' = [pc EXCEPT ![t] = "adrift"]
      BY <2>5 DEF Release, ReleaseFailed, Interrupt, Die
    <3>2. LiveInside' = LiveInside \ {t}
      BY <3>1
    <3> QED
      BY <3>2 DEF Lock!Exit
  <2>6. CASE UNCHANGED vars
    BY <2>6 DEF vars
  <2> QED
    BY <2>1, <2>2, <2>3, <2>4, <2>5, <2>6 DEF Next, TaskStep, Lock!Next
<1> QED
  BY <1>1, <1>2, TypeCorrect, HolderCorrect, PTL DEF Spec, ImplementsMutex, Lock!Spec
=============================================================================
