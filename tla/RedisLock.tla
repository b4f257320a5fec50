----------------------------- MODULE RedisLock -----------------------------
(***************************************************************************)
(* platform/security/locks.py: one key taken with SET NX EX, held under a  *)
(* token, released by a compare-and-delete script, and expired by Redis.   *)
(*                                                                         *)
(* The holders are Celery tasks.  Celery kills a task that has run for     *)
(* task_time_limit seconds (platform/celery_app.py), so a task holds the   *)
(* lock for at most TaskLimit units of time; Redis forgets the key after   *)
(* LockTTL units.  Time is kept as the units still to run, so the model    *)
(* needs no clock and no bound on it.                                      *)
(*                                                                         *)
(* At task_soft_time_limit Celery only interrupts the task.  When the      *)
(* interrupt finds the event loop waiting, the task ends but its coroutine *)
(* does not: it stays suspended in the block, and resumes when a later     *)
(* task of the same process runs the loop they share (tasks.py, _get_loop).*)
(*                                                                         *)
(* A token is the identity of the task: a task takes the lock only when    *)
(* the key is absent, so its fresh uuid can never meet an older one of its *)
(* own.                                                                    *)
(***************************************************************************)
EXTENDS Integers

CONSTANTS
  Tasks,      \* the task slots of the worker processes
  NoToken,    \* the key does not exist
  LockTTL,    \* ttl_seconds, in units of time
  TaskLimit,  \* task_time_limit, in the same units
  SoftLimit   \* task_soft_time_limit, in the same units

ASSUME NoTokenAssumption == NoToken \notin Tasks
ASSUME LockTTLAssumption == LockTTL \in Nat \ {0}
ASSUME TaskLimitAssumption == TaskLimit \in Nat \ {0}
ASSUME SoftLimitAssumption == SoftLimit \in 0 .. TaskLimit

VARIABLES
  key,    \* the value stored under the lock's name
  ttl,    \* units until Redis expires it
  pc,     \* where each task is
  left    \* units until Celery kills it

vars == <<key, ttl, pc, left>>

\* "waiting" is a task that has not reached the lock yet, "adrift" a coroutine
\* suspended in the block that no task runs any more.
PCs == {"idle", "waiting", "inside", "adrift"}

TypeOK ==
  /\ key \in Tasks \cup {NoToken}
  /\ ttl \in 0 .. LockTTL
  /\ pc \in [Tasks -> PCs]
  /\ left \in [Tasks -> 0 .. TaskLimit]

Running(t) == pc[t] \in {"waiting", "inside"}
InBlock(t) == pc[t] \in {"inside", "adrift"}

Init ==
  /\ key = NoToken
  /\ ttl = 0
  /\ pc = [t \in Tasks |-> "idle"]
  /\ left = [t \in Tasks |-> 0]

----------------------------------------------------------------------------

Goto(t, place) == pc' = [pc EXCEPT ![t] = place]

Start(t) ==
  /\ pc[t] = "idle"
  /\ Goto(t, "waiting")
  /\ left' = [left EXCEPT ![t] = TaskLimit]
  /\ UNCHANGED <<key, ttl>>

\* Mutant: SET NX without EX.
AcquireWithoutEX(t) ==
  /\ pc[t] = "waiting"
  /\ key = NoToken
  /\ key' = t
  /\ Goto(t, "inside")
  /\ UNCHANGED <<ttl, left>>

\* SET NX EX: one atomic step that needs the key to be absent.
Acquire(t) ==
  /\ pc[t] = "waiting"
  /\ key = NoToken
  /\ key' = t
  /\ ttl' = LockTTL
  /\ Goto(t, "inside")
  /\ UNCHANGED left

\* LockNotAcquired: somebody holds the key, or Redis cannot be reached and so
\* exclusivity cannot be guaranteed.  Either way the task gives up.
NotAcquired(t) ==
  /\ pc[t] = "waiting"
  /\ Goto(t, "idle")
  /\ UNCHANGED <<key, ttl, left>>

\* Mutant: a plain DEL, whoever owns the key now.
ReleaseWithoutCompare(t) ==
  /\ InBlock(t)
  /\ key' = NoToken
  /\ Goto(t, "idle")
  /\ UNCHANGED <<ttl, left>>

\* The script deletes the key only while it still carries this task's token.
Release(t) ==
  /\ InBlock(t)
  /\ key' = IF key = t THEN NoToken ELSE key
  /\ Goto(t, "idle")
  /\ UNCHANGED <<ttl, left>>

\* Redis is unreachable when the block ends: the failure is logged and the key
\* is left to its time to live.
ReleaseFailed(t) ==
  /\ InBlock(t)
  /\ Goto(t, "idle")
  /\ UNCHANGED <<key, ttl, left>>

\* The soft time limit interrupts the event loop.
Interrupt(t) ==
  /\ pc[t] = "inside"
  /\ left[t] <= TaskLimit - SoftLimit
  /\ Goto(t, "adrift")
  /\ UNCHANGED <<key, ttl, left>>

\* The worker process is lost, or killed by the hard time limit.
Die(t) ==
  /\ pc[t] # "idle"
  /\ Goto(t, "idle")
  /\ UNCHANGED <<key, ttl, left>>

\* What is left of a time to live after one unit of time.
Elapse(units) == IF units > 0 THEN units - 1 ELSE 0

\* Time passes only while no running task has used up its limit.
Tick ==
  /\ \A t \in Tasks : Running(t) => left[t] > 0
  /\ left' = [t \in Tasks |-> IF Running(t) THEN left[t] - 1 ELSE left[t]]
  /\ ttl' = Elapse(ttl)
  /\ key' = IF ttl = 1 THEN NoToken ELSE key     \* a key set without EX has no ttl to run out
  /\ UNCHANGED pc

TaskStep(t) ==
  \/ Start(t)
  \/ Acquire(t)
  \/ NotAcquired(t)
  \/ Release(t)
  \/ ReleaseFailed(t)
  \/ Interrupt(t)
  \/ Die(t)

Next == Tick \/ \E t \in Tasks : TaskStep(t)

Spec == Init /\ [][Next]_vars

\* Celery's supervisor really kills a task whose time is up, and time passes.
HardKill(t) == Running(t) /\ left[t] = 0 /\ Die(t)

Fairness ==
  /\ WF_vars(Tick)
  /\ \A t \in Tasks : WF_vars(HardKill(t))

FairSpec == Spec /\ Fairness

----------------------------------------------------------------------------

Inside == {t \in Tasks : InBlock(t)}
LiveInside == {t \in Tasks : pc[t] = "inside"}

(* The same of the tasks that are alive: whatever becomes of other tasks, and *)
(* of the coroutines they leave behind, two running tasks are never both in   *)
(* the block.                                                                 *)
LiveExclusion == \A t, u \in LiveInside : t = u

(* The strengthening that makes LiveExclusion inductive when the key outlives *)
(* the task: a running task in the block owns the key, and the key has more   *)
(* time left than the task.                                                   *)
HolderOwnsKey == \A t \in LiveInside : key = t /\ ttl > left[t]

(* locks.py:10, "a holder that has already timed out cannot delete a          *)
(* different holder's lock": when a task leaves the block, a key that carries *)
(* another task's token is still there afterwards.                            *)
ReleaseIsSafe ==
  [][\A t \in Tasks :
       t \in Inside /\ t \notin Inside' /\ key \notin {t, NoToken} => key' = key]_vars

(* locks.py:12, "locks always expire, so a worker that dies mid-heal cannot   *)
(* deadlock the widget": a key that exists is eventually gone, whatever       *)
(* becomes of the task that set it.                                           *)
LockAlwaysFreed == \A t \in Tasks : key = t ~> key # t

Lock == INSTANCE Mutex WITH inside <- LiveInside

(* The Redis lock implements the lock its callers think they hold: a coroutine *)
(* that goes adrift leaves the abstract lock, and whatever it does later       *)
(* neither enters it nor throws out its holder.                                *)
ImplementsMutex == Lock!Spec
=============================================================================
