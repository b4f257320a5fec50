----------------------------- MODULE LeadOutbox -----------------------------
(***************************************************************************)
(* The lead outbox (features/leads/delivery.py): the rows written with each *)
(* lead, the senders that attempt them, and the owner who asks for a row    *)
(* again.  Three kinds of senders run run_deliveries:                       *)
(*                                                                          *)
(*   Leads    the background task of the request that captured the lead     *)
(*   Presses  the background task of a press on "retry"                     *)
(*   Sweeps   the Celery task that runs every minute                        *)
(*                                                                          *)
(* A request and its background task share one name.  The task runs after   *)
(* the handler; whether the handler's transaction commits before it or      *)
(* after it is up to the version of FastAPI, so both orders are admitted.   *)
(* Two sweeps may overlap, because their lock expires (600 s) before Celery *)
(* ends the task (1080 s), and an interrupted one may go on (RedisLock).    *)
(*                                                                          *)
(* A sender loads its rows, attempts one after the other, and commits what  *)
(* has become of all of them at the end.  Time is what it means to a row:   *)
(* fresh until UNATTEMPTED_GRACE is over, and a next attempt that is later  *)
(* until it is due.                                                         *)
(***************************************************************************)
EXTENDS Integers, FiniteSets

CONSTANTS
  Leads, Presses, Sweeps,   \* the senders
  Rows,         \* the rows of lead_deliveries that may come to be
  LeadOf,       \* lead_id
  Emails,       \* the rows of the owner_email channel
  MaxAttempts,  \* MAX_DELIVERY_ATTEMPTS
  MaxLosses     \* bound on the number of batches that are lost

Requests == Leads \cup Presses
Senders == Requests \cup Sweeps

Settled == {"delivered", "failed", "skipped"}
Statuses == Settled \cup {"absent", "pending"}
Times == {"none", "later", "due"}
Outcomes == {"delivered", "refused", "skipped"}
ApiPCs == {"idle", "answered", "committed", "rolled_back"}
SenderPCs == {"idle", "picked", "sending", "done"}

ASSUME SendersAssumption ==
  /\ Leads \cap Presses = {} /\ Leads \cap Sweeps = {} /\ Presses \cap Sweeps = {}
ASSUME RowsAssumption == LeadOf \in [Rows -> Leads] /\ Emails \subseteq Rows
ASSUME MaxAttemptsAssumption == MaxAttempts \in Nat \ {0}
ASSUME MaxLossesAssumption == MaxLosses \in Nat

VARIABLES
  status,      \* lead_deliveries.status, "absent" before the row is committed
  attempts,    \* lead_deliveries.attempts
  next,        \* lead_deliveries.next_attempt_at: null, later than now, or not
  fresh,       \* the rows created less than UNATTEMPTED_GRACE ago
  api,         \* where each request's handler is
  asked,       \* the row each press has loaded, and its columns
  pc,          \* where each sender is
  picked,      \* the rows in each sender's batch
  seen,        \* the columns each sender has loaded of each row
  result,      \* what has become of each row of a batch, still to be recorded
  received,    \* the rows whose destination has got the lead
  tries,       \* attempts made of each row since it was opened, until it raced
  unrecorded,  \* those among them whose batch was lost
  losses,      \* batches lost so far
  raced        \* the rows two parties have ever had in hand at once

row == <<status, attempts, next, fresh>>
sender == <<pc, picked, seen, result>>
ghost == <<received, tries, unrecorded>>
vars == <<row, api, asked, sender, ghost, losses, raced>>

Columns == [attempts : Nat, next : Times]
Unloaded == [attempts |-> 0, next |-> "none"]
Asked == [status : Statuses, attempts : Nat, next : Times]
NotAsked == [status |-> "absent", attempts |-> 0, next |-> "none"]
Reopened == [status |-> "pending", attempts |-> 0, next |-> "none"]

TypeOK ==
  /\ status \in [Rows -> Statuses]
  /\ attempts \in [Rows -> Nat]
  /\ next \in [Rows -> Times]
  /\ fresh \subseteq Rows
  /\ api \in [Requests -> ApiPCs]
  /\ asked \in [Presses -> [Rows -> Asked]]
  /\ pc \in [Senders -> SenderPCs]
  /\ picked \in [Senders -> SUBSET Rows]
  /\ seen \in [Senders -> [Rows -> Columns]]
  /\ result \in [Senders -> [Rows -> Outcomes \cup {"none"}]]
  /\ received \subseteq Rows
  /\ tries \in [Rows -> Nat] /\ unrecorded \in [Rows -> Nat]
  /\ losses \in 0 .. MaxLosses
  /\ raced \subseteq Rows

NoColumns == [d \in Rows |-> Unloaded]
NoResults == [d \in Rows |-> "none"]

Init ==
  /\ status = [d \in Rows |-> "absent"]
  /\ attempts = [d \in Rows |-> 0]
  /\ next = [d \in Rows |-> "none"]
  /\ fresh = {}
  /\ api = [r \in Requests |-> "idle"]
  /\ asked = [p \in Presses |-> [d \in Rows |-> NotAsked]]
  /\ pc = [s \in Senders |-> "idle"]
  /\ picked = [s \in Senders |-> {}]
  /\ seen = [s \in Senders |-> NoColumns]
  /\ result = [s \in Senders |-> NoResults]
  /\ received = {}
  /\ tries = [d \in Rows |-> 0]
  /\ unrecorded = [d \in Rows |-> 0]
  /\ losses = 0
  /\ raced = {}

----------------------------------------------------------------------------

Api(r, place) == api' = [api EXCEPT ![r] = place]
Goto(s, place) == pc' = [pc EXCEPT ![s] = place]

Pending == {d \in Rows : status[d] = "pending"}
RowsOf(l) == {d \in Rows : LeadOf[d] = l}

\* The rows of a press that is under way (asked for, not committed yet).
Pressed(p) == {d \in Rows : asked[p][d] # NotAsked}

\* Somebody has row `d` in hand: a sender in its batch, or a press.
InHand(d) ==
  \/ \E s \in Senders : d \in picked[s]
  \/ \E p \in Presses : api[p] = "answered" /\ d \in Pressed(p)

Take(rows) == raced' = raced \cup {d \in rows : InHand(d)}

\* SQLAlchemy writes an attribute only when it differs from what was loaded.
WriteBack(loaded, assigned, current) == IF assigned = loaded THEN current ELSE assigned

----------------------------------------------------------------------------
(* The API: submit_lead_endpoint and retry_lead_delivery.                   *)

\* The handler ends.  The lead and its rows are flushed, not committed.
Capture(l) ==
  /\ l \in Leads /\ api[l] = "idle"
  /\ Api(l, "answered")
  /\ UNCHANGED <<row, asked, sender, ghost, losses, raced>>

\* The lead and its rows are committed together.
CaptureCommit(l) ==
  /\ l \in Leads /\ api[l] = "answered"
  /\ status' = [d \in Rows |-> IF d \in RowsOf(l) THEN "pending" ELSE status[d]]
  /\ fresh' = fresh \cup RowsOf(l)
  /\ Api(l, "committed")
  /\ UNCHANGED <<attempts, next, asked, sender, ghost, losses, raced>>

\* The owner presses "retry": the handler loads the row, whatever its status.
Press(p, d) ==
  /\ p \in Presses /\ api[p] = "idle"
  /\ status[d] # "absent"
  /\ asked' = [asked EXCEPT ![p][d] =
                 [status |-> status[d], attempts |-> attempts[d], next |-> next[d]]]
  /\ Api(p, "answered")
  /\ Take({d})
  /\ UNCHANGED <<row, sender, ghost, losses>>

\* retry_delivery: pending, no attempts, no next attempt.
PressCommit(p, d) ==
  /\ p \in Presses /\ api[p] = "answered" /\ d \in Pressed(p)
  /\ status' = [status EXCEPT ![d] = WriteBack(asked[p][d].status, "pending", @)]
  /\ attempts' = [attempts EXCEPT ![d] = WriteBack(asked[p][d].attempts, 0, @)]
  /\ next' = [next EXCEPT ![d] = WriteBack(asked[p][d].next, "none", @)]
  /\ tries' = [tries EXCEPT ![d] = 0]
  /\ unrecorded' = [unrecorded EXCEPT ![d] = 0]
  /\ asked' = [asked EXCEPT ![p][d] = Reopened]
  /\ Api(p, "committed")
  /\ UNCHANGED <<fresh, sender, received, losses, raced>>

\* The commit fails, or the process ends before it.
RollBack(r) ==
  /\ api[r] = "answered"
  /\ Api(r, "rolled_back")
  /\ UNCHANGED <<row, asked, sender, ghost, losses, raced>>

----------------------------------------------------------------------------
(* The senders: sweep_due_deliveries and run_deliveries.                    *)

\* Mutant: a row that was never attempted is not swept.
DueWhenScheduled(d) == status[d] = "pending" /\ next[d] = "due"

\* A failed attempt whose backoff is over, or a row that was never attempted
\* and is no longer left to the request's own task.
Due(d) ==
  /\ status[d] = "pending"
  /\ next[d] = "due" \/ (next[d] = "none" /\ d \notin fresh)

\* The sweep reads the ids that are due, in a session of its own.
Select(s) ==
  /\ s \in Sweeps /\ pc[s] = "idle"
  /\ {d \in Rows : Due(d)} # {}
  /\ picked' = [picked EXCEPT ![s] = {d \in Rows : Due(d)}]
  /\ Goto(s, "picked")
  /\ Take({d \in Rows : Due(d)})
  /\ UNCHANGED <<row, api, asked, seen, result, ghost, losses>>

\* Those of the rows it was asked for that are pending are loaded.
Load(s, batch) ==
  /\ picked' = [picked EXCEPT ![s] = batch]
  /\ seen' = [seen EXCEPT ![s] =
                [d \in Rows |-> IF d \in batch
                                THEN [attempts |-> attempts[d], next |-> next[d]]
                                ELSE Unloaded]]
  /\ UNCHANGED <<row, api, asked, result, ghost, losses>>

SweepLoad(s) ==
  /\ s \in Sweeps /\ pc[s] = "picked"
  /\ Load(s, picked[s] \cap Pending)
  /\ Goto(s, IF picked[s] \cap Pending = {} THEN "idle" ELSE "sending")
  /\ UNCHANGED raced

\* The request's own task: before the handler's commit it may find nothing.
TaskLoad(r) ==
  /\ r \in Requests /\ pc[r] = "idle"
  /\ api[r] \in {"answered", "committed"}
  /\ LET batch == Pending \cap IF r \in Leads THEN RowsOf(r) ELSE Pressed(r)
     IN  /\ Load(r, batch)
         /\ Goto(r, IF batch = {} THEN "done" ELSE "sending")
         /\ Take(batch)

\* _attempt: the destination takes the lead, refuses it, or takes it and the
\* answer is lost; an owner who does not want the email is skipped.
Attempt(s, d, outcome) ==
  /\ pc[s] = "sending" /\ d \in picked[s] /\ result[s][d] = "none"
  /\ outcome = "skipped" => d \in Emails
  /\ result' = [result EXCEPT ![s][d] = outcome]
  /\ tries' = [tries EXCEPT ![d] = IF outcome = "skipped" \/ d \in raced THEN @ ELSE @ + 1]
  /\ \/ outcome # "skipped" /\ received' = received \cup {d}
     \/ outcome # "delivered" /\ UNCHANGED received
  /\ UNCHANGED <<row, api, asked, pc, picked, seen, unrecorded, losses, raced>>

\* What _mark_delivered, _schedule_retry and a skip make of a loaded row.
LastAttempt(s, d) == seen[s][d].attempts + 1 >= MaxAttempts

StatusAfter(s, d) ==
  CASE result[s][d] \in {"delivered", "skipped"} -> result[s][d]
    [] result[s][d] = "refused" /\ LastAttempt(s, d) -> "failed"
    [] OTHER -> status[d]          \* "pending" is what was loaded

AttemptsAfter(s, d) ==
  IF result[s][d] = "skipped" THEN attempts[d] ELSE seen[s][d].attempts + 1

NextAfter(s, d) ==
  IF result[s][d] = "refused" /\ ~LastAttempt(s, d) THEN "later"
  ELSE WriteBack(seen[s][d].next, "none", next[d])

SetDown(s) ==
  /\ picked' = [picked EXCEPT ![s] = {}]
  /\ seen' = [seen EXCEPT ![s] = NoColumns]
  /\ result' = [result EXCEPT ![s] = NoResults]
  /\ Goto(s, IF s \in Sweeps THEN "idle" ELSE "done")

\* Mutant: every column of the loaded rows is written back.
RecordWhole(s) ==
  /\ pc[s] = "sending" /\ \A d \in picked[s] : result[s][d] # "none"
  /\ status' = [d \in Rows |->
       IF d \in picked[s] /\ result[s][d] = "refused" /\ ~LastAttempt(s, d) THEN "pending"
       ELSE IF d \in picked[s] THEN StatusAfter(s, d) ELSE status[d]]
  /\ attempts' = [d \in Rows |-> IF d \in picked[s] THEN AttemptsAfter(s, d) ELSE attempts[d]]
  /\ next' = [d \in Rows |-> IF d \in picked[s] THEN NextAfter(s, d) ELSE next[d]]
  /\ SetDown(s)
  /\ UNCHANGED <<fresh, api, asked, ghost, losses, raced>>

\* The one commit at the end of run_deliveries.
Record(s) ==
  /\ pc[s] = "sending" /\ \A d \in picked[s] : result[s][d] # "none"
  /\ status' = [d \in Rows |-> IF d \in picked[s] THEN StatusAfter(s, d) ELSE status[d]]
  /\ attempts' = [d \in Rows |-> IF d \in picked[s] THEN AttemptsAfter(s, d) ELSE attempts[d]]
  /\ next' = [d \in Rows |-> IF d \in picked[s] THEN NextAfter(s, d) ELSE next[d]]
  /\ SetDown(s)
  /\ UNCHANGED <<fresh, api, asked, ghost, losses, raced>>

\* The process dies, a time limit strikes, or the commit fails: what the batch
\* has sent is sent, and nothing of it is recorded.
Lose(s) ==
  /\ pc[s] = "sending"
  /\ losses < MaxLosses
  /\ losses' = losses + 1
  /\ unrecorded' = [d \in Rows |-> IF d \notin raced /\ result[s][d] \in {"delivered", "refused"}
                                   THEN unrecorded[d] + 1 ELSE unrecorded[d]]
  /\ SetDown(s)
  /\ UNCHANGED <<row, api, asked, received, tries, raced>>

----------------------------------------------------------------------------
(* Time.                                                                    *)

GraceOver(d) ==
  /\ d \in fresh
  /\ fresh' = fresh \ {d}
  /\ UNCHANGED <<status, attempts, next, api, asked, sender, ghost, losses, raced>>

BackoffOver(d) ==
  /\ next[d] = "later"
  /\ next' = [next EXCEPT ![d] = "due"]
  /\ UNCHANGED <<status, attempts, fresh, api, asked, sender, ghost, losses, raced>>

----------------------------------------------------------------------------

ApiStep(r) ==
  \/ Capture(r)
  \/ CaptureCommit(r)
  \/ \E d \in Rows : Press(r, d)
  \/ \E d \in Rows : PressCommit(r, d)
  \/ RollBack(r)

SenderStep(s) ==
  \/ Select(s)
  \/ SweepLoad(s)
  \/ \E d \in Rows, outcome \in Outcomes : Attempt(s, d, outcome)
  \/ Record(s)

Next ==
  \/ \E r \in Requests : ApiStep(r) \/ TaskLoad(r)
  \/ \E s \in Senders : SenderStep(s) \/ Lose(s)
  \/ \E d \in Rows : GraceOver(d) \/ BackoffOver(d)

Spec == Init /\ [][Next]_vars

\* Beat starts a sweep every minute, a sweep goes on until it ends or is lost,
\* and time passes.  Nothing is asked of the API or of its background tasks.
FairSpec ==
  /\ Spec
  /\ \A s \in Sweeps : WF_vars(SenderStep(s))
  /\ \A d \in Rows : WF_vars(GraceOver(d)) /\ WF_vars(BackoffOver(d))

----------------------------------------------------------------------------

(* What holds: every attempt beyond the maximum is one whose batch was lost,  *)
(* unless two parties have had the row in hand at once.                       *)
TriesBounded == \A d \in Rows \ raced : tries[d] <= MaxAttempts + unrecorded[d]

\* An attempt that has been made and not yet recorded or lost.
Unsettled(s, d) == result[s][d] \in {"delivered", "refused"}

(* The strengthening that makes TriesBounded inductive: no attempt is         *)
(* forgotten.  Each is counted in the row, waits in the one batch that has    *)
(* the row in hand, or was lost with a batch; and what that batch has loaded  *)
(* of the row is still what the row says.                                     *)
Accounted ==
  \A d \in Rows \ raced :
    /\ status[d] = "pending" => attempts[d] < MaxAttempts
    /\ attempts[d] <= MaxAttempts
    /\ tries[d] = attempts[d] + unrecorded[d]
                    + IF \E s \in Senders : Unsettled(s, d) THEN 1 ELSE 0

(* A row that says "delivered" was taken by its destination, whatever was     *)
(* lost, repeated or recorded late.                                           *)
DeliveredIsReceived == \A d \in Rows : status[d] = "delivered" => d \in received

(* What Outbox calls owed, settled and pressed.                                *)
Contract == INSTANCE Outbox WITH owed <- Pending,
                                 settled <- {d \in Rows : status[d] \in Settled},
                                 pressed <- {p \in Presses : api[p] = "committed"}

(* delivery.py:11: a lead and all that it owes come into being together, a row *)
(* that is settled stays settled whatever a slower sender records after it,   *)
(* and only a press of the owner opens it, once.                              *)
ImplementsOutbox == Contract!Spec

(* delivery.py:225, "Deliver everything still owed": a row that is owed is    *)
(* settled in the end, also when its background task found nothing, its       *)
(* sender died, or its destination always refuses.                            *)
EverySettles == \A d \in Rows : status[d] = "pending" ~> status[d] \in Settled
=============================================================================
