------------------------------ MODULE Allowances ------------------------------
(***************************************************************************)
(* What a workspace may build and have live (billing/entitlements.py and   *)
(* the endpoints of widgets/routes.py that ask it).  A press of Build,     *)
(* Retry or Deploy reads the subscription, the builds of its period and    *)
(* the live tools, then collects evidence or deploys, and only then meters *)
(* and commits, in one transaction that locks nothing: presses that        *)
(* overlap read the same last slot.  Meanwhile the period ends and is      *)
(* renewed, the plan changes, tools are bought and refunded.               *)
(*                                                                         *)
(* The limits are in force (require_payment_to_build and                   *)
(* enforce_plan_limits).  A month is Month ticks long.  How a build goes   *)
(* is the business of BuildLifecycle, how the subscription's row comes     *)
(* about that of Subscriptions; both are actions of the environment here.  *)
(***************************************************************************)
EXTENDS Integers, Sequences, FiniteSets

CONSTANTS
    Handlers,     \* requests the API serves at one time
    Widgets,      \* the tools of the workspace
    Plans,        \* the plans that are sold
    BuildLimit,   \* monthly_build_limit of each plan
    LiveLimit,    \* live_tool_limit of each plan
    Month,        \* ticks of the clock in a month
    MaxClock, MaxRequests, MaxChanges    \* bounds of the model

VARIABLES
    clock,      \* the time, in ticks
    sub,        \* the subscription's row: its status, plan and period end
    status,     \* widget.status
    grant,      \* what is known of widget.entitlement_status
    built,      \* tools whose artifacts are on disk
    running,    \* tools with a build under way
    usage,      \* the rows of usage_records, in the order of their commits
    req,        \* what each handler is doing
    best,       \* history: the largest limits the workspace ever had
    budget      \* presses and changes so far

tools == <<status, built, running>>
vars == <<clock, sub, tools, grant, usage, req, best, budget>>

NoEnd == -1       \* current_period_end is null
NoWindow == -2    \* the press was admitted because the tool was bought
Idle == [at |-> "idle"]

Entitling == {"active", "past_due"}
Statuses == Entitling \cup {"free", "canceled"}

Larger(a, b) == IF a > b THEN a ELSE b

Init ==
    /\ clock = 0
    /\ \E p \in Plans, s \in {"free", "active"}, u \in {NoEnd, Month} :
          /\ sub = [status |-> s, plan |-> p, until |-> u]
          /\ s = "free" => u = NoEnd
    /\ status = [w \in Widgets |-> "analyzed"]
    /\ grant = [w \in Widgets |-> "never"]
    /\ built = {}
    /\ running = {}
    /\ usage = <<>>
    /\ req = [h \in Handlers |-> Idle]
    /\ best = IF sub.status = "free" THEN [builds |-> 0, live |-> 0]
              ELSE [builds |-> BuildLimit[sub.plan], live |-> LiveLimit[sub.plan]]
    /\ budget = [requests |-> 0, changes |-> 0]

Spend(what) == budget' = [budget EXCEPT ![what] = @ + 1]

-----------------------------------------------------------------------------
(* Entitlements *)

Entitled == sub.status \in Entitling

\* Where the metering window opened: a month before the period's end, and as
\* many months before it as it takes not to be in the future; without a
\* period, at the beginning of the calendar month.
PeriodStart ==
    IF ~Entitled \/ sub.until = NoEnd THEN (clock \div Month) * Month
    ELSE IF sub.until - Month <= clock THEN sub.until - Month
    ELSE clock - ((clock - sub.until) % Month)

BuildsThisPeriod ==
    Cardinality({i \in DOMAIN usage : usage[i].at >= PeriodStart})

\* A tool that is live or being built holds a slot of the plan.
Occupies(w) == status[w] \in {"active", "building"}

LiveTools == Cardinality({w \in Widgets : Occupies(w)})

\* Mutant: the last build of the period can be spent again.
CanBuildAgain == BuildsThisPeriod <= BuildLimit[sub.plan]

CanBuild == BuildsThisPeriod < BuildLimit[sub.plan]

\* A tool that holds a slot may always be published again.
CanPublish(w) ==
    \/ grant[w] = "granted"
    \/ Occupies(w)
    \/ LiveTools < LiveLimit[sub.plan]

\* A tool bought outright needs no plan; any other needs a subscription, a
\* build left and a slot.  Answers the window it is charged to.
Admitted(w) ==
    \/ grant[w] = "granted"
    \/ Entitled /\ CanBuild /\ CanPublish(w)

Charged(w) == IF grant[w] = "granted" THEN NoWindow ELSE PeriodStart
-----------------------------------------------------------------------------
(* Presses *)

Press(h, w, what) ==
    /\ req[h] = Idle
    /\ budget.requests < MaxRequests
    /\ Admitted(w)
    /\ req' = [req EXCEPT ![h] = [at |-> what, widget |-> w,
                                  since |-> Charged(w)]]
    /\ Spend("requests")
    /\ UNCHANGED <<clock, sub, tools, grant, usage, best>>

\* Build is for a tool that was analyzed or whose build failed, Retry for the
\* latter only; Build collects evidence from the website before it goes on.
PressBuild(h, w) ==
    /\ status[w] \in {"analyzed", "failed"}
    /\ Press(h, w, "building")

PressDeploy(h, w) == Press(h, w, "deploying")

\* The task is queued and the build metered, with the time of the metering.
Meter(h) ==
    /\ req[h].at = "building"
    /\ req' = [req EXCEPT ![h] = [at |-> "metered", widget |-> @.widget,
                                  since |-> @.since, time |-> clock]]
    /\ UNCHANGED <<clock, sub, tools, grant, usage, best, budget>>

\* The usage record and the widget's new status are committed together.
CommitBuild(h) ==
    /\ req[h].at = "metered"
    /\ LET r == req[h] IN
       /\ usage' = Append(usage, [at |-> r.time, since |-> r.since])
       /\ status' = [status EXCEPT ![r.widget] = "building"]
       /\ running' = running \cup {r.widget}
    /\ req' = [req EXCEPT ![h] = Idle]
    /\ UNCHANGED <<clock, sub, grant, built, best, budget>>

\* What is on disk is deployed, without a build and unmetered.
CommitDeploy(h) ==
    /\ req[h].at = "deploying"
    /\ req[h].widget \in built
    /\ status' = [status EXCEPT ![req[h].widget] = "active"]
    /\ req' = [req EXCEPT ![h] = Idle]
    /\ UNCHANGED <<clock, sub, grant, built, running, usage, best, budget>>

\* No evidence, nothing on disk, a refused deployment or a lost process: the
\* transaction is rolled back.
Abandon(h) ==
    /\ req[h] # Idle
    /\ req' = [req EXCEPT ![h] = Idle]
    /\ UNCHANGED <<clock, sub, tools, grant, usage, best, budget>>
-----------------------------------------------------------------------------
(* What happens around the presses *)

\* A build ends: published, built without publishing, or failed.
EndBuild(w) ==
    /\ w \in running
    /\ running' = running \ {w}
    /\ \/ /\ \E outcome \in {"active", "analyzed"} :
                status' = [status EXCEPT ![w] = outcome]
          /\ built' = built \cup {w}
       \/ /\ status' = [status EXCEPT ![w] = "failed"]
          /\ UNCHANGED built
    /\ UNCHANGED <<clock, sub, grant, usage, req, best, budget>>

\* The one-off price of a tool is paid, and may be refunded.
ChangeGrant(w) ==
    /\ budget.changes < MaxChanges
    /\ Spend("changes")
    /\ grant' = [grant EXCEPT ![w] =
                    IF @ = "granted" THEN "withdrawn" ELSE "granted"]
    /\ UNCHANGED <<clock, sub, tools, usage, req, best>>

\* News of the subscription ("past_due" differs from "active" in nothing that
\* is read here, so one of them stands for both): the period it tells of is
\* the one that runs now, or none where the payload has no current_period_end.
ChangeSubscription(s, p, until) ==
    /\ budget.changes < MaxChanges
    /\ Spend("changes")
    /\ sub' = [status |-> s, plan |-> p, until |-> until]
    /\ best' = IF s \in Entitling
               THEN [builds |-> Larger(best.builds, BuildLimit[p]),
                     live |-> Larger(best.live, LiveLimit[p])]
               ELSE best
    /\ UNCHANGED <<clock, tools, grant, usage, req>>

\* Stripe renews, and sooner or later its event says so.
Renew ==
    /\ Entitled
    /\ sub.until # NoEnd /\ sub.until <= clock
    /\ sub' = [sub EXCEPT !.until = @ + Month]
    /\ UNCHANGED <<clock, tools, grant, usage, req, best, budget>>

Tick ==
    /\ clock < MaxClock
    /\ clock' = clock + 1
    /\ UNCHANGED <<sub, tools, grant, usage, req, best, budget>>

Next ==
    \/ \E h \in Handlers :
          \/ \E w \in Widgets : \/ PressBuild(h, w) \/ PressDeploy(h, w)
          \/ Meter(h) \/ CommitBuild(h) \/ CommitDeploy(h)
          \/ Abandon(h)
    \/ \E w \in Widgets : EndBuild(w) \/ ChangeGrant(w)
    \/ \E s \in {"active", "canceled"}, p \in Plans,
          until \in {NoEnd, clock + Month} : ChangeSubscription(s, p, until)
    \/ Renew
    \/ Tick

Spec == Init /\ [][Next]_vars
-----------------------------------------------------------------------------
(* Properties *)

\* The state has the shape the schema and the code give it.
TypeOK ==
    /\ clock \in 0..MaxClock
    /\ sub \in [status : Statuses, plan : Plans, until : {NoEnd} \cup Nat]
    /\ status \in [Widgets -> {"analyzed", "building", "active", "failed"}]
    /\ grant \in [Widgets -> {"never", "granted", "withdrawn"}]
    /\ built \subseteq Widgets /\ running \subseteq Widgets
    /\ usage \in Seq([at : 0..MaxClock, since : Int])
    /\ best \in [builds : Nat, live : Nat]

\* The quota is checked before the evidence is collected and metered after it
\* (widgets/routes.py:774 and :802).  However presses, renewals and changes of
\* plan overlap, one metering window is never charged with more builds than
\* the best plan allows plus one for each other request in flight.
BuildsBounded ==
    \A i \in DOMAIN usage :
        usage[i].since # NoWindow =>
            Cardinality({j \in DOMAIN usage : usage[j].since = usage[i].since})
                < best.builds + Cardinality(Handlers)

\* The live tools that were never bought on their own exceed the plan's slots
\* by no more than the other requests in flight, through builds that fail or
\* publish late, redeployments without a build and refunds of other tools.
SlotsBounded ==
    Cardinality({w \in Widgets : Occupies(w) /\ grant[w] = "never"})
        < best.live + Cardinality(Handlers)

\* Neither allowance is overshot by more than the requests in flight, although
\* nothing locks what they count.
OvershootBounded == BuildsBounded /\ SlotsBounded
=============================================================================
