----------------------------- MODULE LeadCapture -----------------------------
(***************************************************************************)
(* What one published tool records of its visitors: leads under a cap      *)
(* (leads/service.py, submit_lead) and milestones of visitor sessions      *)
(* (widgets/service.py, record_interaction).  Every request is one         *)
(* transaction of PostgreSQL at READ COMMITTED: a statement reads what is  *)
(* committed, an UPDATE waits for whoever holds the row and keeps the row  *)
(* until its own commit.  Two rows are contended: the tool's, which holds  *)
(* the counters, and the session's.  A submission takes the tool's row and *)
(* then the session's, a milestone the session's and then the tool's, so   *)
(* the two can wait for each other; the database ends one of them.         *)
(*                                                                         *)
(* The deliveries a submission owes are written in the same transaction    *)
(* and belong to module LeadOutbox.  The plan changes under the feet of    *)
(* the submissions: module Subscriptions says how.                         *)
(***************************************************************************)
EXTENDS Integers, Sequences, FiniteSets

CONSTANTS
    Handlers,     \* requests the API serves at one time
    Visits,       \* [email, session]: who submits, from which browser session
    NoSession,    \* the session of a tool that was built before sessions
    Events,       \* the milestones tools report, a subset of AllEvents
    Plans,        \* the plans a workspace can be on
    LeadLimit,    \* lead_limit_per_tool of each plan, 0 without one
    WidgetCap,    \* lead_cap: what a one-off launch bought
    Window,       \* DUPLICATE_WINDOW in ticks of the clock
    MaxClock, MaxRequests, MaxChanges, MaxFaults    \* bounds of the model

AllEvents == {"started", "completed", "result_viewed", "cta_clicked"}
Sessions == {v.session : v \in Visits} \ {NoSession}
Emails == {v.email : v \in Visits}
Free == "nobody"

ASSUME LeadCaptureAssumption ==
    /\ Handlers # {} /\ IsFiniteSet(Handlers) /\ Free \notin Handlers
    /\ IsFiniteSet(Sessions)
    /\ Events \subseteq AllEvents
    /\ LeadLimit \in [Plans -> Nat]
    /\ WidgetCap \in Nat /\ Window \in Nat
    /\ {MaxClock, MaxRequests, MaxChanges, MaxFaults} \subseteq Nat

VARIABLES
    clock,        \* the time, in ticks
    plan,         \* the plan the subscription row entitles to now
    active,       \* widget.status = "active"
    counts,       \* the tool's counters: leads and one per counted milestone
    leads,        \* the rows of leads, in the order of their commits
    visitor,      \* widget_interactions: NoRow or the milestones' times
    rowHolder,    \* the transaction that has updated the tool's row
    visitHolder,  \* per session, the transaction that has written its row
    req,          \* what each handler is doing
    best,         \* history: the largest cap in force so far
    budget        \* requests, changes and faults the environment has used

world == <<clock, plan, active, best>>
tables == <<counts, leads, visitor>>
locks == <<rowHolder, visitHolder>>
vars == <<clock, plan, active, counts, leads, visitor, rowHolder,
          visitHolder, req, best, budget>>

NoRow == <<>>
Never == -1
Idle == [at |-> "idle"]

\* The counter a milestone adds to; "result_viewed" only has a time.
Counted == {"started", "completed", "cta_clicked"}

\* What record_interaction inserts: a session with no milestone yet.
EmptyRow == [e \in Events \cup {"lead_submitted"} |-> Never]

Larger(a, b) == IF a > b THEN a ELSE b

\* What a handler knows at each place of its request.  `knew` is history: the
\* leads that were committed when the submission looked for a duplicate.
Times == 0..MaxClock
Requests ==
    {Idle}
    \cup [at : {"looked", "claimed"}, visit : Visits, knew : Nat, asked : Times]
    \cup [at : {"capped"}, visit : Visits, knew : Nat, asked : Times, cap : Nat]
    \cup [at : {"filed"}, visit : Visits, knew : Nat, asked : Times,
          stamped : Times, stamps : BOOLEAN]
    \cup [at : {"tracking"}, session : Sessions, event : Events]
    \cup [at : {"counting", "marked"}, session : Sessions, event : Events, marked : Times]

\* What is recorded of a lead and of a session.
Leads == [email : Emails, session : Sessions \cup {NoSession}, knew : Nat, asked : Times]
VisitorRows == [Events \cup {"lead_submitted"} -> {Never} \cup Times]

\* The cap is the better of what was bought and what the plan grants.
EffectiveCap(p) == Larger(WidgetCap, LeadLimit[p])

Init ==
    /\ clock = 0
    /\ plan \in Plans
    /\ active = FALSE
    /\ counts = [c \in {"leads"} \cup (Counted \cap Events) |-> 0]
    /\ leads = <<>>
    /\ visitor = [s \in Sessions |-> NoRow]
    /\ rowHolder = Free
    /\ visitHolder = [s \in Sessions |-> Free]
    /\ req = [h \in Handlers |-> Idle]
    /\ best = EffectiveCap(plan)
    /\ budget = [requests |-> 0, changes |-> 0, faults |-> 0]

Spend(what) == budget' = [budget EXCEPT ![what] = @ + 1]

\* A transaction ends: its rows are free again and its handler is idle.
Finish(h) ==
    /\ rowHolder' = IF rowHolder = h THEN Free ELSE rowHolder
    /\ visitHolder' = [s \in Sessions |->
                          IF visitHolder[s] = h THEN Free ELSE visitHolder[s]]
    /\ req' = [req EXCEPT ![h] = Idle]

-----------------------------------------------------------------------------
(* A submission *)

\* Mutant: only lately counts, whatever the session.
DuplicateLately(visit) ==
    \E i \in DOMAIN leads : /\ leads[i].email = visit.email
                            /\ leads[i].asked >= clock - Window

\* A repeat: the same address from the same session, or lately from anywhere.
\* created_at is CURRENT_TIMESTAMP, when the transaction of the lead began.
Duplicate(visit) ==
    \E i \in DOMAIN leads :
        /\ leads[i].email = visit.email
        /\ \/ visit.session # NoSession /\ leads[i].session = visit.session
           \/ leads[i].asked >= clock - Window

\* The tool is read and a duplicate looked for.  A repeat is answered with the
\* lead it repeats; a tool that is not live is not found.
Submit(h, visit) ==
    /\ req[h] = Idle
    /\ budget.requests < MaxRequests
    /\ Spend("requests")
    /\ req' = IF active /\ ~Duplicate(visit)
              THEN [req EXCEPT ![h] = [at |-> "looked", visit |-> visit,
                                       knew |-> Len(leads), asked |-> clock]]
              ELSE req
    /\ UNCHANGED <<world, tables, locks>>

\* The plan is read, and with it the cap this submission will be held to.
ReadCap(h) ==
    /\ req[h].at = "looked"
    /\ req' = [req EXCEPT ![h] = [at |-> "capped", visit |-> @.visit,
                                  knew |-> @.knew, asked |-> @.asked,
                                  cap |-> EffectiveCap(plan)]]
    /\ UNCHANGED <<world, tables, locks, budget>>

\* Mutant: one slot too many.
ClaimSucceedsAtCap(h) == active /\ counts["leads"] <= req[h].cap

\* What the WHERE of the claim asks of the row as it is when the row is free.
ClaimSucceeds(h) == active /\ counts["leads"] < req[h].cap

\* One slot is claimed with a conditional UPDATE, or the cap is reached.
Claim(h) ==
    /\ req[h].at = "capped"
    /\ rowHolder = Free
    /\ IF ClaimSucceeds(h)
       THEN /\ rowHolder' = h
            /\ req' = [req EXCEPT ![h] = [at |-> "claimed", visit |-> @.visit,
                                          knew |-> @.knew, asked |-> @.asked]]
            /\ UNCHANGED visitHolder
       ELSE Finish(h)
    /\ UNCHANGED <<world, tables, budget>>

\* The session's row is there and has no submission yet: it is to be stamped.
Stamps(h) ==
    LET s == req[h].visit.session IN
    /\ s # NoSession
    /\ visitor[s] # NoRow
    /\ visitor[s]["lead_submitted"] = Never

\* The lead is flushed, and with it the stamp on the session's row, which
\* waits for whoever has that row.
File(h) ==
    /\ req[h].at = "claimed"
    /\ LET s == req[h].visit.session IN
       IF Stamps(h)
       THEN /\ visitHolder[s] = Free
            /\ visitHolder' = [visitHolder EXCEPT ![s] = h]
       ELSE UNCHANGED visitHolder
    /\ req' = [req EXCEPT ![h] = [at |-> "filed", visit |-> @.visit,
                                  knew |-> @.knew, asked |-> @.asked,
                                  stamped |-> clock, stamps |-> Stamps(h)]]
    /\ UNCHANGED <<world, tables, rowHolder, budget>>

\* The lead, the slot it takes and the stamp are committed together.
CommitLead(h) ==
    /\ req[h].at = "filed"
    /\ LET r == req[h] IN
       /\ counts' = [counts EXCEPT !["leads"] = @ + 1]
       /\ leads' = Append(leads, [email |-> r.visit.email,
                                  session |-> r.visit.session,
                                  knew |-> r.knew, asked |-> r.asked])
       /\ visitor' = IF r.stamps
                     THEN [visitor EXCEPT
                              ![r.visit.session]["lead_submitted"] = r.stamped]
                     ELSE visitor
    /\ Finish(h)
    /\ UNCHANGED <<world, budget>>

-----------------------------------------------------------------------------
(* A milestone *)

\* The tool is read; one that is not live records nothing.
Track(h, s, e) ==
    /\ req[h] = Idle
    /\ budget.requests < MaxRequests
    /\ Spend("requests")
    /\ req' = IF active
              THEN [req EXCEPT ![h] = [at |-> "tracking", session |-> s,
                                       event |-> e]]
              ELSE req
    /\ UNCHANGED <<world, tables, locks>>

\* Mutant: no look at whether the milestone has a time.
NeverReported(h) == FALSE

\* The milestone is already on the session's row: only the first one counts.
Reported(h) ==
    /\ visitor[req[h].session] # NoRow
    /\ visitor[req[h].session][req[h].event] # Never

\* A repeat of a milestone finds nothing to update.
TrackAgain(h) ==
    /\ req[h].at = "tracking"
    /\ Reported(h)
    /\ Finish(h)
    /\ UNCHANGED <<world, tables, budget>>

\* The session's row is inserted unless it is there, and stamped where it has
\* no time yet; both wait for whoever is writing that row.
Mark(h) ==
    /\ req[h].at = "tracking"
    /\ ~Reported(h)
    /\ visitHolder[req[h].session] = Free
    /\ visitHolder' = [visitHolder EXCEPT ![req[h].session] = h]
    /\ req' = [req EXCEPT ![h] =
                  [at |-> IF @.event \in Counted THEN "counting" ELSE "marked",
                   session |-> @.session, event |-> @.event,
                   marked |-> clock]]
    /\ UNCHANGED <<world, tables, rowHolder, budget>>

\* The tool's counter is raised by the milestone that was the first.
Count(h) ==
    /\ req[h].at = "counting"
    /\ rowHolder = Free
    /\ rowHolder' = h
    /\ req' = [req EXCEPT ![h].at = "marked"]
    /\ UNCHANGED <<world, tables, visitHolder, budget>>

\* The stamp and the count are committed together.
CommitMark(h) ==
    /\ req[h].at = "marked"
    /\ LET r == req[h]
           row == IF visitor[r.session] = NoRow THEN EmptyRow
                                                ELSE visitor[r.session] IN
       /\ visitor' = [visitor EXCEPT
                         ![r.session] = [row EXCEPT ![r.event] = r.marked]]
       /\ counts' = IF r.event \in Counted
                    THEN [counts EXCEPT ![r.event] = @ + 1] ELSE counts
    /\ Finish(h)
    /\ UNCHANGED <<world, leads, budget>>

-----------------------------------------------------------------------------
(* What happens around the requests *)

\* A transaction that waits for a row, and the one that has it.
WaitsFor(h, k) ==
    \/ /\ req[h].at \in {"capped", "counting"}
       /\ rowHolder = k
    \/ /\ req[h].at = "claimed"
       /\ Stamps(h)
       /\ visitHolder[req[h].visit.session] = k
    \/ /\ req[h].at = "tracking"
       /\ ~Reported(h)
       /\ visitHolder[req[h].session] = k

\* PostgreSQL finds two transactions that wait for each other and ends one.
EndDeadlock(h) ==
    /\ \E k \in Handlers \ {h} : WaitsFor(h, k) /\ WaitsFor(k, h)
    /\ Finish(h)
    /\ UNCHANGED <<world, tables, budget>>

\* The process that serves a request is lost; its transaction is rolled back.
Lose(h) ==
    /\ req[h] # Idle
    /\ budget.faults < MaxFaults
    /\ Spend("faults")
    /\ Finish(h)
    /\ UNCHANGED <<world, tables>>

\* The subscription row changes: bought, switched, lapsed or canceled.
ChangePlan(p) ==
    /\ p # plan
    /\ budget.changes < MaxChanges
    /\ Spend("changes")
    /\ plan' = p
    /\ best' = Larger(best, EffectiveCap(p))
    /\ UNCHANGED <<clock, active, tables, locks, req>>

\* The first deployment of the tool makes it live, and it stays live.
Publish ==
    /\ ~active
    /\ rowHolder = Free
    /\ active' = TRUE
    /\ UNCHANGED <<clock, plan, best, tables, locks, req, budget>>

Tick ==
    /\ clock < MaxClock
    /\ clock' = clock + 1
    /\ UNCHANGED <<plan, active, best, tables, locks, req, budget>>

Serve(h) ==
    \/ ReadCap(h) \/ Claim(h) \/ File(h) \/ CommitLead(h)
    \/ TrackAgain(h) \/ Mark(h) \/ Count(h) \/ CommitMark(h)
    \/ EndDeadlock(h)

Next ==
    \/ \E h \in Handlers :
          \/ \E visit \in Visits : Submit(h, visit)
          \/ \E s \in Sessions, e \in Events : Track(h, s, e)
          \/ Serve(h)
          \/ Lose(h)
    \/ \E p \in Plans : ChangePlan(p)
    \/ Publish
    \/ Tick

Spec == Init /\ [][Next]_vars
-----------------------------------------------------------------------------
(* Properties *)

\* The state has the shape the schema and the code give it.
TypeOK ==
    /\ clock \in 0..MaxClock
    /\ plan \in Plans /\ active \in BOOLEAN
    /\ counts \in [{"leads"} \cup (Counted \cap Events) -> Nat]
    /\ leads \in Seq(Leads)
    /\ visitor \in [Sessions -> {NoRow} \cup VisitorRows]
    /\ rowHolder \in Handlers \cup {Free}
    /\ visitHolder \in [Sessions -> Handlers \cup {Free}]
    /\ req \in [Handlers -> Requests]
    /\ best \in Nat

\* Lead `b` is another one of the visitor of lead `a`, by either sign that the
\* code takes for one: the session, or the address within the window.
Resubmits(b, a) ==
    /\ b.email = a.email
    /\ \/ a.session # NoSession /\ b.session = a.session
       \/ b.asked - a.asked <= Window

\* "The two most ordinary things a visitor does at this exact moment - pressing
\* the button twice because nothing visibly happened, or reloading after a slow
\* response" (leads/service.py:156) file a bounded number of leads: from each
\* lead on, those of one visitor are no more than the requests that are served
\* at one time, however often the visitor presses, in whatever order the
\* overlapping submissions get the row, and whatever the clock and the plan do.
RepeatsBounded ==
    \A i \in DOMAIN leads :
        Cardinality({j \in i..Len(leads) : Resubmits(leads[j], leads[i])})
            <= Cardinality(Handlers)

\* The tool never holds more leads than the largest cap its workspace was ever
\* entitled to, however many submissions race for the last slot and whatever
\* plan changes they overlap.
CapKept == Len(leads) <= best

\* The counters on the tool's row say what the rows say: one lead each, and
\* one of each counted milestone per session that reported it, through
\* repeats, races, lost processes and the transactions a deadlock ended.
FunnelAgrees ==
    /\ counts["leads"] = Len(leads)
    /\ \A e \in Counted \cap Events :
          counts[e] = Cardinality({s \in Sessions : /\ visitor[s] # NoRow
                                                    /\ visitor[s][e] # Never})

\* The first submission of a session dates it: the stamp is read and written
\* by separate statements, and the claim before them keeps a second
\* submission of the session out until the first is committed.
FirstSubmissionKept ==
    [][\A s \in Sessions :
          (visitor[s] # NoRow /\ visitor[s]["lead_submitted"] # Never)
          => visitor'[s] # NoRow
             /\ visitor'[s]["lead_submitted"] = visitor[s]["lead_submitted"]]_vars
=============================================================================
