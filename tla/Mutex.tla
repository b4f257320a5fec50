------------------------------- MODULE Mutex -------------------------------
(***************************************************************************)
(* What platform/security/locks.py promises to its callers: the body of    *)
(* `async with distributed_lock(name)` is executed by at most one task at  *)
(* a time.  Nothing is said of Redis, tokens, or time to live.             *)
(***************************************************************************)

CONSTANT Tasks      \* the Celery tasks that may want the lock

VARIABLE inside     \* the tasks that are executing the guarded block

Init == inside = {}

Enter(t) ==
  /\ inside = {}
  /\ inside' = {t}

\* The block is left by returning, by an exception, or because the process died.
Exit(t) ==
  /\ t \in inside
  /\ inside' = inside \ {t}

Next == \E t \in Tasks : Enter(t) \/ Exit(t)

Spec == Init /\ [][Next]_inside
=============================================================================
