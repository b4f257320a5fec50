--------------------------- MODULE WorkspaceProofs ---------------------------
(* Theorems about the tool of a workspace: LeadCapture, Accounts, Sessions,  *)
(* LeadDesk, ResultScreen and their composition, for every set of handlers,  *)
(* visits, people, tools, passwords, codes, processes, leads, decisions and  *)
(* screens, every cap, and every bound of the models.                        *)
EXTENDS Workspace, FiniteSetTheorems, WellFoundedInduction, TLAPS

-----------------------------------------------------------------------------
(* LeadCapture                                                               *)

(* A submission that has its slot is held to a cap that was in force, and    *)
(* keeps every other submission out until its lead is counted.               *)
CapInv ==
    /\ counts["leads"] = Len(leads)
    /\ Len(leads) <= best
    /\ EffectiveCap(plan) <= best
    /\ \A h \in Handlers :
          /\ req[h].at = "capped" => req[h].cap <= best
          /\ req[h].at \in {"claimed", "filed"} => rowHolder = h /\ Len(leads) < best

(* A submission that is to date its session finds it undated.                *)
StampInv ==
    \A h \in Handlers :
        req[h].at = "filed" /\ req[h].stamps = TRUE =>
            /\ req[h].visit.session \in Sessions
            /\ visitor[req[h].visit.session] # NoRow
            /\ visitor[req[h].visit.session]["lead_submitted"] = Never

IInv == TypeOK /\ CapInv /\ StampInv

-----------------------------------------------------------------------------
(* What a request holds, by the place where it is.                           *)
LEMMA RequestShape ==
    ASSUME NEW r \in Requests
    PROVE  /\ r.at \in {"idle", "looked", "capped", "claimed", "filed",
                        "tracking", "counting", "marked"}
           /\ r.at = "idle" => r = Idle
           /\ r.at \in {"looked", "capped", "claimed", "filed"}
                => r.visit \in Visits /\ r.knew \in Nat /\ r.asked \in Times
           /\ r.at = "capped" => r.cap \in Nat
           /\ r.at = "filed" => r.stamped \in Times /\ r.stamps \in BOOLEAN
           /\ r.at \in {"tracking", "counting", "marked"}
                => r.session \in Sessions /\ r.event \in Events
           /\ r.at \in {"counting", "marked"} => r.marked \in Times
           /\ r.at = "counting" => [r EXCEPT !.at = "marked"] \in Requests
BY DEF Requests, Idle

LEMMA CapType == \A p \in Plans : EffectiveCap(p) \in Nat /\ EffectiveCap(p) >= WidgetCap
BY LeadCaptureAssumption DEF EffectiveCap, Larger

(* A request that is over has let go of the rows, and the others keep theirs.*)
LEMMA FinishTypes ==
    ASSUME TypeOK, NEW h \in Handlers, Finish(h)
    PROVE  /\ rowHolder' \in Handlers \cup {Free}
           /\ visitHolder' \in [Sessions -> Handlers \cup {Free}]
           /\ req' \in [Handlers -> Requests]
           /\ req' = [req EXCEPT ![h] = Idle]
           /\ \A k \in Handlers \ {h} : rowHolder = k => rowHolder' = k
<1>1. Idle \in Requests
    BY DEF Requests
<1>. QED
    BY <1>1 DEF TypeOK, Finish

(* A request that goes on to its next place.                                 *)
LEMMA StepTypes ==
    ASSUME TypeOK, NEW h \in Handlers, NEW r \in Requests, req' = [req EXCEPT ![h] = r]
    PROVE  req' \in [Handlers -> Requests]
BY DEF TypeOK

LEMMA EmptyRowType ==
    /\ EmptyRow \in VisitorRows
    /\ EmptyRow["lead_submitted"] = Never
BY DEF EmptyRow, VisitorRows, Never

(* A row of a session is not the absence of one.                             *)
LEMMA RowIsThere == \A v \in VisitorRows : v # NoRow
<1>1. SUFFICES ASSUME NEW v \in VisitorRows, v = NoRow PROVE FALSE
    OBVIOUS
<1>2. DOMAIN v = Events \cup {"lead_submitted"}
    BY DEF VisitorRows
<1>3. DOMAIN NoRow = {}
    BY DEF NoRow
<1>. QED
    BY <1>1, <1>2, <1>3

(* One step keeps the types.                                                 *)
LEMMA TypeStep == ASSUME IInv, [Next]_vars PROVE TypeOK'
<1> USE DEF IInv, world, tables, locks
<1>0. TypeOK
    OBVIOUS
<1>1. ASSUME NEW h \in Handlers, NEW visit \in Visits, Submit(h, visit) PROVE TypeOK'
    <2>1. [at |-> "looked", visit |-> visit, knew |-> Len(leads), asked |-> clock] \in Requests
        BY DEF Requests, TypeOK, Times
    <2>. QED
        BY <1>1, <2>1 DEF Submit, TypeOK
<1>2. ASSUME NEW h \in Handlers, ReadCap(h) PROVE TypeOK'
    <2>1. [at |-> "capped", visit |-> req[h].visit, knew |-> req[h].knew,
           asked |-> req[h].asked, cap |-> EffectiveCap(plan)] \in Requests
        BY <1>2, RequestShape, CapType DEF ReadCap, TypeOK, Requests
    <2>. QED
        BY <1>2, <2>1 DEF ReadCap, TypeOK
<1>3. ASSUME NEW h \in Handlers, Claim(h) PROVE TypeOK'
    <2>1. CASE ClaimSucceeds(h)
        <3>1. [at |-> "claimed", visit |-> req[h].visit, knew |-> req[h].knew,
               asked |-> req[h].asked] \in Requests
            BY <1>3, RequestShape DEF Claim, TypeOK, Requests
        <3>. QED
            BY <1>3, <2>1, <3>1 DEF Claim, TypeOK
    <2>2. CASE ~ClaimSucceeds(h)
        BY <1>0, <1>3, <2>2, FinishTypes DEF Claim, TypeOK
    <2>. QED
        BY <2>1, <2>2
<1>4. ASSUME NEW h \in Handlers, File(h) PROVE TypeOK'
    <2>1. Stamps(h) \in BOOLEAN
        BY DEF Stamps
    <2>2. [at |-> "filed", visit |-> req[h].visit, knew |-> req[h].knew, asked |-> req[h].asked,
           stamped |-> clock, stamps |-> Stamps(h)] \in Requests
        BY <1>4, <2>1, RequestShape DEF File, TypeOK, Requests, Times
    <2>3. visitHolder' \in [Sessions -> Handlers \cup {Free}]
        BY <1>4 DEF File, TypeOK
    <2>. QED
        BY <1>4, <2>2, <2>3 DEF File, TypeOK
<1>5. ASSUME NEW h \in Handlers, CommitLead(h) PROVE TypeOK'
    <2>1. PICK r \in Requests : r = req[h] /\ r.at = "filed"
        BY <1>5 DEF CommitLead, TypeOK
    <2>2. r.visit \in Visits /\ r.knew \in Nat /\ r.asked \in Times /\ r.stamped \in Times
        BY <2>1, RequestShape
    <2>3. [email |-> r.visit.email, session |-> r.visit.session,
           knew |-> r.knew, asked |-> r.asked] \in Leads
        BY <2>2 DEF Leads, Emails, Sessions
    <2>4. leads' \in Seq(Leads)
        BY <1>5, <2>1, <2>3 DEF CommitLead, TypeOK
    <2>5. counts' \in [{"leads"} \cup (Counted \cap Events) -> Nat]
        BY <1>5 DEF CommitLead, TypeOK
    <2>6. visitor' \in [Sessions -> {NoRow} \cup VisitorRows]
        <3>1. CASE r.stamps = TRUE
            <4>1. /\ r.visit.session \in Sessions
                  /\ visitor[r.visit.session] \in VisitorRows
                BY <2>1, <3>1 DEF StampInv, TypeOK
            <4>2. visitor' = [visitor EXCEPT ![r.visit.session]["lead_submitted"] = r.stamped]
                BY <1>5, <2>1, <3>1 DEF CommitLead
            <4>3. [visitor[r.visit.session] EXCEPT !["lead_submitted"] = r.stamped] \in VisitorRows
                BY <2>2, <4>1 DEF VisitorRows
            <4>. QED
                BY <4>1, <4>2, <4>3 DEF TypeOK
        <3>2. CASE r.stamps = FALSE
            BY <1>5, <2>1, <3>2 DEF CommitLead, TypeOK
        <3>. QED
            BY <2>1, <3>1, <3>2, RequestShape
    <2>7. Finish(h) /\ UNCHANGED <<world, budget>>
        BY <1>5 DEF CommitLead
    <2>. QED
        BY <1>0, <2>4, <2>5, <2>6, <2>7, FinishTypes DEF TypeOK
<1>6. ASSUME NEW h \in Handlers, NEW s \in Sessions, NEW e \in Events, Track(h, s, e) PROVE TypeOK'
    <2>1. [at |-> "tracking", session |-> s, event |-> e] \in Requests
        BY DEF Requests
    <2>. QED
        BY <1>6, <2>1 DEF Track, TypeOK
<1>7. ASSUME NEW h \in Handlers, TrackAgain(h) \/ EndDeadlock(h) \/ Lose(h) PROVE TypeOK'
    <2>1. Finish(h) /\ UNCHANGED <<world, tables>>
        BY <1>7 DEF TrackAgain, EndDeadlock, Lose
    <2>. QED
        BY <1>0, <2>1, FinishTypes DEF TypeOK
<1>8. ASSUME NEW h \in Handlers, Mark(h) PROVE TypeOK'
    <2>1. PICK r \in Requests : r = req[h] /\ r.at = "tracking"
        BY <1>8 DEF Mark, TypeOK
    <2>2. [at |-> IF r.event \in Counted THEN "counting" ELSE "marked",
           session |-> r.session, event |-> r.event, marked |-> clock] \in Requests
        BY <2>1, RequestShape DEF Requests, TypeOK, Times
    <2>3. visitHolder' \in [Sessions -> Handlers \cup {Free}]
        BY <1>8 DEF Mark, TypeOK
    <2>. QED
        BY <1>8, <2>1, <2>2, <2>3 DEF Mark, TypeOK
<1>9. ASSUME NEW h \in Handlers, Count(h) PROVE TypeOK'
    <2>1. [req[h] EXCEPT !.at = "marked"] \in Requests
        BY <1>9, RequestShape DEF Count, TypeOK
    <2>. QED
        BY <1>9, <2>1 DEF Count, TypeOK
<1>10. ASSUME NEW h \in Handlers, CommitMark(h) PROVE TypeOK'
    <2>1. PICK r \in Requests : r = req[h] /\ r.at = "marked"
        BY <1>10 DEF CommitMark, TypeOK
    <2>2. r.session \in Sessions /\ r.event \in Events /\ r.marked \in Times
        BY <2>1, RequestShape
    <2>3. PICK v \in VisitorRows : v = IF visitor[r.session] = NoRow THEN EmptyRow
                                      ELSE visitor[r.session]
        BY <2>2, EmptyRowType DEF TypeOK
    <2>4. [v EXCEPT ![r.event] = r.marked] \in VisitorRows
        BY <2>2 DEF VisitorRows
    <2>5. visitor' \in [Sessions -> {NoRow} \cup VisitorRows]
        BY <1>10, <2>1, <2>2, <2>3, <2>4 DEF CommitMark, TypeOK
    <2>6. counts' \in [{"leads"} \cup (Counted \cap Events) -> Nat]
        BY <1>10, <2>1, <2>2 DEF CommitMark, TypeOK
    <2>7. Finish(h) /\ UNCHANGED <<world, leads, budget>>
        BY <1>10 DEF CommitMark
    <2>. QED
        BY <1>0, <2>5, <2>6, <2>7, FinishTypes DEF TypeOK
<1>11. ASSUME NEW p \in Plans, ChangePlan(p) PROVE TypeOK'
    BY <1>11, CapType DEF ChangePlan, TypeOK, Larger
<1>12. CASE Publish
    BY <1>12 DEF Publish, TypeOK
<1>13. CASE Tick
    BY <1>13, LeadCaptureAssumption DEF Tick, TypeOK, Times
<1>14. CASE UNCHANGED vars
    BY <1>14 DEF vars, TypeOK
<1>. QED
    BY <1>1, <1>2, <1>3, <1>4, <1>5, <1>6, <1>7, <1>8, <1>9, <1>10, <1>11, <1>12, <1>13, <1>14
    DEF Next, Serve

-----------------------------------------------------------------------------
(* The cap                                                                   *)

(* One step keeps the claims within the cap.                                 *)
LEMMA CapStep == ASSUME IInv, [Next]_vars PROVE CapInv'
<1> USE DEF IInv, world, tables, locks
<1>0. /\ TypeOK
      /\ Len(leads) \in Nat /\ best \in Nat /\ req \in [Handlers -> Requests]
      /\ counts \in [{"leads"} \cup (Counted \cap Events) -> Nat]
    BY DEF TypeOK
<1>1. ASSUME NEW h \in Handlers, Finish(h), UNCHANGED <<plan, best, leads>>,
             counts'["leads"] = counts["leads"]
      PROVE  CapInv'
    <2>1. /\ req' = [req EXCEPT ![h] = Idle]
          /\ \A k \in Handlers \ {h} : rowHolder = k => rowHolder' = k
        BY <1>0, <1>1, FinishTypes
    <2>. QED
        BY <1>0, <1>1, <2>1 DEF CapInv, Idle
<1>2. ASSUME NEW h \in Handlers, NEW r, req' = [req EXCEPT ![h] = r],
             UNCHANGED <<plan, best, counts, leads, rowHolder>>,
             r.at = "capped" => r.cap <= best,
             r.at \in {"claimed", "filed"} => req[h].at \in {"claimed", "filed"}
      PROVE  CapInv'
    BY <1>0, <1>2 DEF CapInv
<1>3. ASSUME NEW h \in Handlers, NEW visit \in Visits, Submit(h, visit) PROVE CapInv'
    <2>1. CASE req' = req
        BY <1>3, <2>1 DEF Submit, CapInv
    <2>2. CASE req' # req
        BY <1>2, <1>3, <2>2 DEF Submit
    <2>. QED
        BY <2>1, <2>2
<1>4. ASSUME NEW h \in Handlers, ReadCap(h) PROVE CapInv'
    <2>1. EffectiveCap(plan) <= best
        BY DEF CapInv
    <2>. QED
        BY <1>2, <1>4, <2>1 DEF ReadCap
<1>5. ASSUME NEW h \in Handlers, Claim(h) PROVE CapInv'
    <2>1. CASE ClaimSucceeds(h)
        <3>1. Len(leads) < best
            <4>1. req[h].at = "capped" /\ counts["leads"] < req[h].cap
                BY <1>5, <2>1 DEF Claim, ClaimSucceeds
            <4>2. req[h].cap \in Nat
                BY <1>0, <4>1, RequestShape
            <4>. QED
                BY <1>0, <4>1, <4>2 DEF CapInv
        <3>2. \A k \in Handlers : req[k].at \notin {"claimed", "filed"}
            BY <1>5, LeadCaptureAssumption DEF Claim, CapInv
        <3>3. PICK r : r = [at |-> "claimed", visit |-> req[h].visit, knew |-> req[h].knew,
                            asked |-> req[h].asked]
            OBVIOUS
        <3>4. req' = [req EXCEPT ![h] = r] /\ r.at = "claimed"
            BY <1>5, <2>1, <3>3 DEF Claim
        <3>5. rowHolder' = h /\ UNCHANGED <<plan, best, leads, counts>>
            BY <1>5, <2>1 DEF Claim
        <3>. QED
            BY <1>0, <3>1, <3>2, <3>4, <3>5 DEF CapInv
    <2>2. CASE ~ClaimSucceeds(h)
        BY <1>1, <1>5, <2>2 DEF Claim
    <2>. QED
        BY <2>1, <2>2
<1>6. ASSUME NEW h \in Handlers, File(h) PROVE CapInv'
    BY <1>2, <1>6 DEF File
<1>7. ASSUME NEW h \in Handlers, CommitLead(h) PROVE CapInv'
    <2>1. rowHolder = h /\ Len(leads) < best
        BY <1>7 DEF CommitLead, CapInv
    <2>2. \A k \in Handlers \ {h} : req[k].at \notin {"claimed", "filed"}
        BY <2>1 DEF CapInv
    <2>3. Len(leads') = Len(leads) + 1
        BY <1>7 DEF CommitLead, TypeOK
    <2>4. counts'["leads"] = counts["leads"] + 1
        BY <1>0, <1>7 DEF CommitLead
    <2>5. req' = [req EXCEPT ![h] = Idle]
        BY <1>7 DEF CommitLead, Finish
    <2>. QED
        BY <1>0, <1>7, <2>1, <2>2, <2>3, <2>4, <2>5 DEF CommitLead, CapInv, Idle
<1>8. ASSUME NEW h \in Handlers, NEW s \in Sessions, NEW e \in Events, Track(h, s, e) PROVE CapInv'
    <2>1. CASE req' = req
        BY <1>8, <2>1 DEF Track, CapInv
    <2>2. CASE req' # req
        BY <1>2, <1>8, <2>2 DEF Track
    <2>. QED
        BY <2>1, <2>2
<1>9. ASSUME NEW h \in Handlers, TrackAgain(h) \/ EndDeadlock(h) \/ Lose(h) PROVE CapInv'
    BY <1>1, <1>9 DEF TrackAgain, EndDeadlock, Lose
<1>10. ASSUME NEW h \in Handlers, Mark(h) PROVE CapInv'
    <2>1. PICK r : r = [at |-> IF req[h].event \in Counted THEN "counting" ELSE "marked",
                        session |-> req[h].session, event |-> req[h].event, marked |-> clock]
        OBVIOUS
    <2>2. req' = [req EXCEPT ![h] = r] /\ r.at \in {"counting", "marked"}
        BY <1>10, <2>1 DEF Mark
    <2>. QED
        BY <1>2, <1>10, <2>2 DEF Mark
<1>11. ASSUME NEW h \in Handlers, Count(h) PROVE CapInv'
    <2>1. \A k \in Handlers : req[k].at \notin {"claimed", "filed"}
        BY <1>11, LeadCaptureAssumption DEF Count, CapInv
    <2>2. PICK r : req' = [req EXCEPT ![h] = r] /\ r.at = "marked"
        <3>1. [req[h] EXCEPT !.at = "marked"].at = "marked"
            BY <1>0, <1>11 DEF Count, Requests, Idle
        <3>. QED
            BY <1>11, <3>1 DEF Count
    <2>. QED
        BY <1>0, <1>11, <2>1, <2>2 DEF Count, CapInv
<1>12. ASSUME NEW h \in Handlers, CommitMark(h) PROVE CapInv'
    <2>1. Finish(h) /\ UNCHANGED <<world, leads>>
        BY <1>12 DEF CommitMark
    <2>2. "leads" \notin Counted
        BY DEF Counted
    <2>3. counts'["leads"] = counts["leads"]
        BY <1>0, <1>12, <2>2 DEF CommitMark
    <2>. QED
        BY <1>1, <2>1, <2>3
<1>13. ASSUME NEW p \in Plans, ChangePlan(p) PROVE CapInv'
    <2>1. best' \in Nat /\ best' >= best /\ EffectiveCap(p) <= best'
        BY <1>0, <1>13, CapType DEF ChangePlan, Larger
    <2>2. \A h \in Handlers : req[h].at = "capped" => req[h].cap \in Nat
        BY <1>0, RequestShape
    <2>3. plan' = p /\ UNCHANGED <<counts, leads, req, rowHolder>>
        BY <1>13 DEF ChangePlan
    <2>4. EffectiveCap(plan') <= best'
        BY <2>1, <2>3
    <2>. QED
        BY <1>0, <2>1, <2>2, <2>3, <2>4 DEF CapInv
<1>14. CASE Publish
    BY <1>14 DEF Publish, CapInv
<1>15. CASE Tick
    BY <1>15 DEF Tick, CapInv
<1>16. CASE UNCHANGED vars
    BY <1>16 DEF vars, CapInv
<1>. QED
    BY <1>3, <1>4, <1>5, <1>6, <1>7, <1>8, <1>9, <1>10, <1>11, <1>12, <1>13, <1>14, <1>15, <1>16
    DEF Next, Serve

-----------------------------------------------------------------------------
(* The stamp                                                                 *)

(* A session that is dated keeps its date, and a session that a submission   *)
(* is to date stays undated until that submission is committed.              *)
DatesKept ==
    \A s \in Sessions :
        (visitor[s] # NoRow /\ visitor[s]["lead_submitted"] # Never)
        => visitor'[s] # NoRow
           /\ visitor'[s]["lead_submitted"] = visitor[s]["lead_submitted"]

LEMMA StampStep == ASSUME IInv, [Next]_vars PROVE StampInv' /\ DatesKept
<1> USE DEF IInv, world, tables, locks
<1>0. /\ TypeOK /\ req \in [Handlers -> Requests]
      /\ visitor \in [Sessions -> {NoRow} \cup VisitorRows]
    BY DEF TypeOK
<1>1. ASSUME NEW h \in Handlers, NEW r, req' = [req EXCEPT ![h] = r], r.at # "filed",
             UNCHANGED visitor
      PROVE  StampInv' /\ DatesKept
    BY <1>0, <1>1 DEF StampInv, DatesKept
<1>2. ASSUME UNCHANGED <<req, visitor>> PROVE StampInv' /\ DatesKept
    BY <1>2 DEF StampInv, DatesKept
<1>3. ASSUME NEW h \in Handlers, NEW visit \in Visits, Submit(h, visit)
      PROVE  StampInv' /\ DatesKept
    <2>1. CASE req' = req
        BY <1>2, <1>3, <2>1 DEF Submit
    <2>2. CASE req' # req
        <3>1. PICK r : r = [at |-> "looked", visit |-> visit, knew |-> Len(leads),
                            asked |-> clock]
            OBVIOUS
        <3>2. req' = [req EXCEPT ![h] = r] /\ r.at # "filed" /\ UNCHANGED visitor
            BY <1>3, <2>2, <3>1 DEF Submit
        <3>. QED
            BY <1>1, <3>2
    <2>. QED
        BY <2>1, <2>2
<1>4. ASSUME NEW h \in Handlers, ReadCap(h) PROVE StampInv' /\ DatesKept
    <2>1. PICK r : r = [at |-> "capped", visit |-> req[h].visit, knew |-> req[h].knew,
                        asked |-> req[h].asked, cap |-> EffectiveCap(plan)]
        OBVIOUS
    <2>2. req' = [req EXCEPT ![h] = r] /\ r.at # "filed" /\ UNCHANGED visitor
        BY <1>4, <2>1 DEF ReadCap
    <2>. QED
        BY <1>1, <2>2
<1>5. ASSUME NEW h \in Handlers, Claim(h) PROVE StampInv' /\ DatesKept
    <2>1. CASE ClaimSucceeds(h)
        BY <1>1, <1>5, <2>1 DEF Claim
    <2>2. CASE ~ClaimSucceeds(h)
        BY <1>1, <1>5, <2>2 DEF Claim, Finish, Idle
    <2>. QED
        BY <2>1, <2>2
<1>6. ASSUME NEW h \in Handlers, File(h) PROVE StampInv' /\ DatesKept
    <2>1. PICK r : r = [at |-> "filed", visit |-> req[h].visit, knew |-> req[h].knew,
                        asked |-> req[h].asked, stamped |-> clock, stamps |-> Stamps(h)]
        OBVIOUS
    <2>2. req' = [req EXCEPT ![h] = r] /\ UNCHANGED visitor
        BY <1>6, <2>1 DEF File
    <2>3. req[h].visit \in Visits
        BY <1>0, <1>6, RequestShape DEF File
    <2>4. r.stamps = TRUE => /\ r.visit.session \in Sessions
                            /\ visitor[r.visit.session] # NoRow
                            /\ visitor[r.visit.session]["lead_submitted"] = Never
        BY <2>1, <2>3 DEF Stamps, Sessions
    <2>. QED
        BY <1>0, <2>2, <2>4 DEF StampInv, DatesKept
<1>7. ASSUME NEW h \in Handlers, CommitLead(h) PROVE StampInv' /\ DatesKept
    <2>1. PICK r \in Requests : r = req[h] /\ r.at = "filed"
        BY <1>0, <1>7 DEF CommitLead
    <2>2. \A k \in Handlers \ {h} : req[k].at # "filed"
        BY <2>1 DEF CapInv
    <2>3. req' = [req EXCEPT ![h] = Idle]
        BY <1>7 DEF CommitLead, Finish
    <2>4. StampInv'
        BY <1>0, <2>2, <2>3 DEF StampInv, Idle
    <2>5. DatesKept
        <3>1. CASE r.stamps = TRUE
            <4>1. /\ r.visit.session \in Sessions
                  /\ visitor[r.visit.session]["lead_submitted"] = Never
                BY <2>1, <3>1 DEF StampInv
            <4>2. visitor' = [visitor EXCEPT ![r.visit.session]["lead_submitted"] = r.stamped]
                BY <1>7, <2>1, <3>1 DEF CommitLead
            <4>. QED
                BY <1>0, <4>1, <4>2 DEF DatesKept
        <3>2. CASE r.stamps = FALSE
            BY <1>7, <2>1, <3>2 DEF CommitLead, DatesKept
        <3>. QED
            BY <2>1, <3>1, <3>2, RequestShape
    <2>. QED
        BY <2>4, <2>5
<1>8. ASSUME NEW h \in Handlers, NEW s \in Sessions, NEW e \in Events, Track(h, s, e)
      PROVE  StampInv' /\ DatesKept
    <2>1. CASE req' = req
        BY <1>2, <1>8, <2>1 DEF Track
    <2>2. CASE req' # req
        <3>1. PICK r : r = [at |-> "tracking", session |-> s, event |-> e]
            OBVIOUS
        <3>2. req' = [req EXCEPT ![h] = r] /\ r.at # "filed" /\ UNCHANGED visitor
            BY <1>8, <2>2, <3>1 DEF Track
        <3>. QED
            BY <1>1, <3>2
    <2>. QED
        BY <2>1, <2>2
<1>9. ASSUME NEW h \in Handlers, TrackAgain(h) \/ EndDeadlock(h) \/ Lose(h)
      PROVE  StampInv' /\ DatesKept
    BY <1>1, <1>9 DEF TrackAgain, EndDeadlock, Lose, Finish, Idle
<1>10. ASSUME NEW h \in Handlers, Mark(h) PROVE StampInv' /\ DatesKept
    <2>1. PICK r : r = [at |-> IF req[h].event \in Counted THEN "counting" ELSE "marked",
                        session |-> req[h].session, event |-> req[h].event, marked |-> clock]
        OBVIOUS
    <2>2. req' = [req EXCEPT ![h] = r] /\ r.at # "filed" /\ UNCHANGED visitor
        BY <1>10, <2>1 DEF Mark
    <2>. QED
        BY <1>1, <2>2
<1>11. ASSUME NEW h \in Handlers, Count(h) PROVE StampInv' /\ DatesKept
    <2>1. PICK r : r = [req[h] EXCEPT !.at = "marked"]
        OBVIOUS
    <2>2. r.at # "filed"
        BY <1>0, <1>11, <2>1 DEF Count, Requests, Idle
    <2>3. req' = [req EXCEPT ![h] = r] /\ UNCHANGED visitor
        BY <1>11, <2>1 DEF Count
    <2>. QED
        BY <1>1, <2>2, <2>3
<1>12. ASSUME NEW h \in Handlers, CommitMark(h) PROVE StampInv' /\ DatesKept
    <2>1. PICK r \in Requests : r = req[h] /\ r.at = "marked"
        BY <1>0, <1>12 DEF CommitMark
    <2>2. r.session \in Sessions /\ r.event \in Events /\ r.event # "lead_submitted"
        BY <2>1, RequestShape, LeadCaptureAssumption DEF AllEvents
    <2>3. PICK v \in VisitorRows : v = IF visitor[r.session] = NoRow THEN EmptyRow
                                      ELSE visitor[r.session]
        BY <1>0, <2>2, EmptyRowType
    <2>4. PICK u : u = [v EXCEPT ![r.event] = r.marked]
        OBVIOUS
    <2>5. u \in VisitorRows /\ u["lead_submitted"] = v["lead_submitted"]
        BY <2>1, <2>2, <2>4, RequestShape DEF VisitorRows
    <2>6. visitor' = [visitor EXCEPT ![r.session] = u] /\ req' = [req EXCEPT ![h] = Idle]
        BY <1>12, <2>1, <2>3, <2>4 DEF CommitMark, Finish
    <2>7. visitor'[r.session] # NoRow
        BY <1>0, <2>2, <2>5, <2>6, RowIsThere
    <2>8. /\ v["lead_submitted"] = Never \/ v = visitor[r.session]
          /\ visitor[r.session] # NoRow => v = visitor[r.session]
        BY <2>3, EmptyRowType
    <2>9. StampInv'
        BY <1>0, <2>2, <2>5, <2>6, <2>7, <2>8 DEF StampInv, Idle
    <2>10. DatesKept
        BY <1>0, <2>2, <2>5, <2>6, <2>7, <2>8 DEF DatesKept
    <2>. QED
        BY <2>9, <2>10
<1>13. ASSUME (\E p \in Plans : ChangePlan(p)) \/ Publish \/ Tick \/ UNCHANGED vars
       PROVE  StampInv' /\ DatesKept
    BY <1>2, <1>13 DEF ChangePlan, Publish, Tick, vars
<1>. QED
    BY <1>3, <1>4, <1>5, <1>6, <1>7, <1>8, <1>9, <1>10, <1>11, <1>12, <1>13 DEF Next, Serve

-----------------------------------------------------------------------------
(* The funnel                                                                *)

(* Whoever is about to record a milestone has its session's row, and the     *)
(* milestone is not there yet.                                               *)
MarkInv ==
    \A h \in Handlers :
        req[h].at \in {"counting", "marked"} =>
            /\ visitHolder[req[h].session] = h
            /\ visitor[req[h].session] # NoRow
                 => visitor[req[h].session][req[h].event] = Never

(* The sessions that have reported milestone `e`.                            *)
Reporters(e) == {s \in Sessions : visitor[s] # NoRow /\ visitor[s][e] # Never}

FunnelInv == \A e \in Counted \cap Events : counts[e] = Cardinality(Reporters(e))

(* One step keeps the rows of those who are about to record a milestone.     *)
LEMMA MarkStep == ASSUME IInv, MarkInv, [Next]_vars PROVE MarkInv'
<1> USE DEF IInv, world, tables, locks
<1>0. /\ TypeOK /\ req \in [Handlers -> Requests]
      /\ visitor \in [Sessions -> {NoRow} \cup VisitorRows]
      /\ visitHolder \in [Sessions -> Handlers \cup {Free}]
      /\ Free \notin Handlers
    BY LeadCaptureAssumption DEF TypeOK
<1>1. ASSUME NEW h \in Handlers, NEW r, req' = [req EXCEPT ![h] = r],
             r.at \notin {"counting", "marked"}, UNCHANGED <<visitor, visitHolder>>
      PROVE  MarkInv'
    BY <1>0, <1>1 DEF MarkInv
<1>2. ASSUME UNCHANGED <<req, visitor, visitHolder>> PROVE MarkInv'
    BY <1>2 DEF MarkInv
<1>3. \A k \in Handlers : req[k].at \in {"counting", "marked"} =>
                            req[k].session \in Sessions /\ req[k].event \in Events
    BY <1>0, RequestShape
<1>4. ASSUME NEW h \in Handlers, Finish(h), UNCHANGED visitor PROVE MarkInv'
    BY <1>0, <1>3, <1>4 DEF Finish, MarkInv, Idle
<1>5. ASSUME NEW h \in Handlers, NEW visit \in Visits, Submit(h, visit) PROVE MarkInv'
    <2>1. PICK r : r = [at |-> "looked", visit |-> visit, knew |-> Len(leads), asked |-> clock]
        OBVIOUS
    <2>2. (req' = [req EXCEPT ![h] = r] \/ req' = req) /\ r.at = "looked"
          /\ UNCHANGED <<visitor, visitHolder>>
        BY <1>5, <2>1 DEF Submit
    <2>. QED
        BY <1>1, <1>2, <2>2
<1>6. ASSUME NEW h \in Handlers, ReadCap(h) PROVE MarkInv'
    <2>1. PICK r : r = [at |-> "capped", visit |-> req[h].visit, knew |-> req[h].knew,
                        asked |-> req[h].asked, cap |-> EffectiveCap(plan)]
        OBVIOUS
    <2>2. req' = [req EXCEPT ![h] = r] /\ r.at = "capped" /\ UNCHANGED <<visitor, visitHolder>>
        BY <1>6, <2>1 DEF ReadCap
    <2>. QED
        BY <1>1, <2>2
<1>7. ASSUME NEW h \in Handlers, Claim(h) PROVE MarkInv'
    <2>1. CASE ClaimSucceeds(h)
        <3>1. PICK r : r = [at |-> "claimed", visit |-> req[h].visit, knew |-> req[h].knew,
                            asked |-> req[h].asked]
            OBVIOUS
        <3>2. req' = [req EXCEPT ![h] = r] /\ r.at = "claimed" /\ UNCHANGED <<visitor, visitHolder>>
            BY <1>7, <2>1, <3>1 DEF Claim
        <3>. QED
            BY <1>1, <3>2
    <2>2. CASE ~ClaimSucceeds(h)
        BY <1>4, <1>7, <2>2 DEF Claim
    <2>. QED
        BY <2>1, <2>2
<1>8. ASSUME NEW h \in Handlers, File(h) PROVE MarkInv'
    <2>1. PICK r : r = [at |-> "filed", visit |-> req[h].visit, knew |-> req[h].knew,
                        asked |-> req[h].asked, stamped |-> clock, stamps |-> Stamps(h)]
        OBVIOUS
    <2>2. req' = [req EXCEPT ![h] = r] /\ r.at = "filed" /\ UNCHANGED visitor
        BY <1>8, <2>1 DEF File
    <2>3. \A s \in Sessions : visitHolder[s] # Free => visitHolder'[s] = visitHolder[s]
        BY <1>0, <1>8 DEF File
    <2>. QED
        BY <1>0, <1>3, <2>2, <2>3 DEF MarkInv
<1>9. ASSUME NEW h \in Handlers, CommitLead(h) PROVE MarkInv'
    <2>1. req' = [req EXCEPT ![h] = Idle]
        BY <1>9 DEF CommitLead, Finish
    <2>2. \A s \in Sessions, k \in Handlers \ {h} : visitHolder[s] = k => visitHolder'[s] = k
        BY <1>0, <1>9 DEF CommitLead, Finish
    <2>3. \A s \in Sessions, e \in Events :
              /\ visitor'[s] # NoRow => visitor[s] # NoRow
              /\ visitor[s] # NoRow => visitor'[s][e] = visitor[s][e]
        <3>1. \A e \in Events : e # "lead_submitted"
            BY LeadCaptureAssumption DEF AllEvents
        <3>2. PICK r \in Requests : r = req[h] /\ r.at = "filed"
            BY <1>0, <1>9 DEF CommitLead
        <3>3. CASE r.stamps = TRUE
            <4>1. /\ r.visit.session \in Sessions
                  /\ visitor[r.visit.session] \in VisitorRows
                BY <1>0, <3>2, <3>3 DEF StampInv
            <4>2. visitor' = [visitor EXCEPT ![r.visit.session]["lead_submitted"] = r.stamped]
                BY <1>9, <3>2, <3>3 DEF CommitLead
            <4>3. visitor[r.visit.session] # NoRow
                BY <4>1, RowIsThere
            <4>. QED
                BY <1>0, <3>1, <4>1, <4>2, <4>3 DEF VisitorRows
        <3>4. CASE r.stamps = FALSE
            BY <1>9, <3>2, <3>4 DEF CommitLead
        <3>. QED
            BY <3>2, <3>3, <3>4, RequestShape
    <2>. QED
        BY <1>0, <1>3, <2>1, <2>2, <2>3 DEF MarkInv, Idle
<1>10. ASSUME NEW h \in Handlers, NEW s \in Sessions, NEW e \in Events, Track(h, s, e)
       PROVE  MarkInv'
    <2>1. PICK r : r = [at |-> "tracking", session |-> s, event |-> e]
        OBVIOUS
    <2>2. (req' = [req EXCEPT ![h] = r] \/ req' = req) /\ r.at = "tracking"
          /\ UNCHANGED <<visitor, visitHolder>>
        BY <1>10, <2>1 DEF Track
    <2>. QED
        BY <1>1, <1>2, <2>2
<1>11. ASSUME NEW h \in Handlers, TrackAgain(h) \/ EndDeadlock(h) \/ Lose(h) PROVE MarkInv'
    BY <1>4, <1>11 DEF TrackAgain, EndDeadlock, Lose
<1>12. ASSUME NEW h \in Handlers, Mark(h) PROVE MarkInv'
    <2>1. PICK r : r = [at |-> IF req[h].event \in Counted THEN "counting" ELSE "marked",
                        session |-> req[h].session, event |-> req[h].event, marked |-> clock]
        OBVIOUS
    <2>2. /\ req' = [req EXCEPT ![h] = r] /\ UNCHANGED visitor
          /\ visitHolder[r.session] = Free /\ visitHolder' = [visitHolder EXCEPT ![r.session] = h]
          /\ visitor[r.session] # NoRow => visitor[r.session][r.event] = Never
        BY <1>12, <2>1 DEF Mark, Reported
    <2>3. r.session \in Sessions
        BY <1>0, <1>12, <2>1, RequestShape DEF Mark
    <2>. QED
        BY <1>0, <1>3, <2>2, <2>3 DEF MarkInv
<1>13. ASSUME NEW h \in Handlers, Count(h) PROVE MarkInv'
    <2>1. PICK r : r = [req[h] EXCEPT !.at = "marked"]
        OBVIOUS
    <2>2. r.at = "marked" /\ r.session = req[h].session /\ r.event = req[h].event
        BY <1>0, <1>13, <2>1 DEF Count, Requests, Idle
    <2>3. req' = [req EXCEPT ![h] = r] /\ UNCHANGED <<visitor, visitHolder>>
        BY <1>13, <2>1 DEF Count
    <2>4. req[h].at = "counting"
        BY <1>13 DEF Count
    <2>. QED
        BY <1>0, <2>2, <2>3, <2>4 DEF MarkInv
<1>14. ASSUME NEW h \in Handlers, CommitMark(h) PROVE MarkInv'
    <2>1. PICK s \in Sessions : s = req[h].session /\ req[h].at = "marked"
        BY <1>3, <1>14 DEF CommitMark
    <2>2. req' = [req EXCEPT ![h] = Idle]
        BY <1>14 DEF CommitMark, Finish
    <2>3. \A t \in Sessions, k \in Handlers \ {h} : visitHolder[t] = k => visitHolder'[t] = k
        BY <1>0, <1>14 DEF CommitMark, Finish
    <2>4. \A t \in Sessions \ {s} : visitor'[t] = visitor[t]
        BY <1>0, <1>14, <2>1 DEF CommitMark
    <2>5. \A k \in Handlers \ {h} : req[k].at \in {"counting", "marked"} => req[k].session # s
        BY <2>1 DEF MarkInv
    <2>. QED
        BY <1>0, <1>3, <2>2, <2>3, <2>4, <2>5 DEF MarkInv, Idle
<1>15. ASSUME (\E p \in Plans : ChangePlan(p)) \/ Publish \/ Tick \/ UNCHANGED vars
       PROVE  MarkInv'
    BY <1>2, <1>15 DEF ChangePlan, Publish, Tick, vars
<1>. QED
    BY <1>5, <1>6, <1>7, <1>8, <1>9, <1>10, <1>11, <1>12, <1>13, <1>14, <1>15 DEF Next, Serve

(* One step keeps the counters of the milestones.                            *)
LEMMA FunnelStep == ASSUME IInv, MarkInv, FunnelInv, [Next]_vars PROVE FunnelInv'
<1> USE DEF IInv, world, tables, locks
<1>0. /\ TypeOK /\ req \in [Handlers -> Requests]
      /\ visitor \in [Sessions -> {NoRow} \cup VisitorRows]
      /\ counts \in [{"leads"} \cup (Counted \cap Events) -> Nat]
    BY DEF TypeOK
<1>1. ASSUME \A e \in Counted \cap Events : counts'[e] = counts[e],
             \A e \in Counted \cap Events : Reporters(e)' = Reporters(e)
      PROVE  FunnelInv'
    BY <1>1 DEF FunnelInv
<1>2. ASSUME UNCHANGED <<counts, visitor>> PROVE FunnelInv'
    BY <1>2 DEF FunnelInv, Reporters
<1>3. ASSUME NEW h \in Handlers, CommitLead(h) PROVE FunnelInv'
    <2>1. \A e \in Counted \cap Events : e # "leads" /\ e # "lead_submitted"
        BY DEF Counted
    <2>2. \A e \in Counted \cap Events : counts'[e] = counts[e]
        BY <1>0, <1>3, <2>1 DEF CommitLead
    <2>3. \A e \in Counted \cap Events : Reporters(e)' = Reporters(e)
        <3>1. PICK r \in Requests : r = req[h] /\ r.at = "filed"
            BY <1>0, <1>3 DEF CommitLead
        <3>2. CASE r.stamps = TRUE
            <4>1. /\ r.visit.session \in Sessions
                  /\ visitor[r.visit.session] \in VisitorRows
                BY <1>0, <3>1, <3>2 DEF StampInv
            <4>2. PICK u : u = [visitor[r.visit.session] EXCEPT !["lead_submitted"] = r.stamped]
                OBVIOUS
            <4>3. visitor' = [visitor EXCEPT ![r.visit.session] = u]
                BY <1>3, <3>1, <3>2, <4>2 DEF CommitLead
            <4>4. u \in VisitorRows /\ \A e \in Counted \cap Events :
                                          u[e] = visitor[r.visit.session][e]
                BY <2>1, <3>1, <4>1, <4>2, RequestShape DEF VisitorRows
            <4>5. u # NoRow /\ visitor[r.visit.session] # NoRow
                BY <4>1, <4>4, RowIsThere
            <4>. QED
                BY <1>0, <4>1, <4>3, <4>4, <4>5 DEF Reporters
        <3>3. CASE r.stamps = FALSE
            BY <1>3, <3>1, <3>3 DEF CommitLead, Reporters
        <3>. QED
            BY <3>1, <3>2, <3>3, RequestShape
    <2>. QED
        BY <1>1, <2>2, <2>3
<1>4. ASSUME NEW h \in Handlers, CommitMark(h) PROVE FunnelInv'
    <2>1. PICK r \in Requests : r = req[h] /\ r.at = "marked"
        BY <1>0, <1>4 DEF CommitMark
    <2>2. PICK s \in Sessions : s = r.session
        BY <2>1, RequestShape
    <2>3. r.event \in Events /\ r.marked # Never
        <3>1. r.event \in Events /\ r.marked \in 0..MaxClock
            BY <2>1, RequestShape DEF Times
        <3>2. \A t \in 0..MaxClock : t # Never
            BY DEF Never
        <3>. QED
            BY <3>1, <3>2
    <2>4. visitor[s] # NoRow => visitor[s][r.event] = Never
        BY <2>1, <2>2 DEF MarkInv
    <2>5. PICK v \in VisitorRows : v = IF visitor[s] = NoRow THEN EmptyRow ELSE visitor[s]
        BY <1>0, <2>2, EmptyRowType
    <2>6. PICK u : u = [v EXCEPT ![r.event] = r.marked]
        OBVIOUS
    <2>7. /\ u \in VisitorRows /\ u[r.event] = r.marked
          /\ \A e \in Events \ {r.event} : u[e] = v[e]
        BY <2>1, <2>3, <2>6, RequestShape DEF VisitorRows
    <2>8. visitor' = [visitor EXCEPT ![s] = u]
        BY <1>4, <2>1, <2>2, <2>5, <2>6 DEF CommitMark
    <2>9. \A e \in Events : EmptyRow[e] = Never
        BY DEF EmptyRow
    <2>10. visitor'[s] = u /\ u # NoRow /\ \A t \in Sessions \ {s} : visitor'[t] = visitor[t]
        BY <1>0, <2>7, <2>8, RowIsThere
    <2>11. \A e \in Events \ {r.event} : Reporters(e)' = Reporters(e)
        BY <2>5, <2>7, <2>9, <2>10 DEF Reporters
    <2>12. Reporters(r.event)' = Reporters(r.event) \cup {s} /\ s \notin Reporters(r.event)
        BY <2>3, <2>4, <2>7, <2>10 DEF Reporters
    <2>13. \A e \in (Counted \cap Events) \ {r.event} : counts'[e] = counts[e]
        BY <1>0, <1>4, <2>1 DEF CommitMark
    <2>14. CASE r.event \in Counted
        <3>1. counts'[r.event] = counts[r.event] + 1
            BY <1>0, <1>4, <2>1, <2>3, <2>14 DEF CommitMark
        <3>2. IsFiniteSet(Reporters(r.event))
            BY FS_Subset, LeadCaptureAssumption DEF Reporters
        <3>3. Cardinality(Reporters(r.event)') = Cardinality(Reporters(r.event)) + 1
            BY <2>12, <3>2, FS_AddElement
        <3>4. counts[r.event] = Cardinality(Reporters(r.event))
            BY <2>3, <2>14 DEF FunnelInv
        <3>5. counts'[r.event] = Cardinality(Reporters(r.event)')
            BY <3>1, <3>3, <3>4
        <3>6. \A e \in (Counted \cap Events) \ {r.event} : counts'[e] = Cardinality(Reporters(e)')
            BY <2>11, <2>13 DEF FunnelInv
        <3>7. \A e \in Counted \cap Events : counts'[e] = Cardinality(Reporters(e)')
            <4>1. TAKE e \in Counted \cap Events
            <4>2. CASE e = r.event
                BY <3>5, <4>2
            <4>3. CASE e # r.event
                BY <3>6, <4>3
            <4>. QED
                BY <4>2, <4>3
        <3>. QED
            BY <3>7 DEF FunnelInv
    <2>15. CASE r.event \notin Counted
        BY <1>1, <2>11, <2>13, <2>15
    <2>. QED
        BY <2>14, <2>15
<1>5. ASSUME NEW h \in Handlers, TrackAgain(h) \/ EndDeadlock(h) \/ Lose(h) PROVE FunnelInv'
    BY <1>2, <1>5 DEF TrackAgain, EndDeadlock, Lose
<1>6. ASSUME NEW h \in Handlers, ReadCap(h) \/ Claim(h) \/ File(h) \/ Mark(h) \/ Count(h)
      PROVE  FunnelInv'
    BY <1>2, <1>6 DEF ReadCap, Claim, File, Mark, Count
<1>7. ASSUME NEW h \in Handlers,
             \/ \E visit \in Visits : Submit(h, visit)
             \/ \E s \in Sessions, e \in Events : Track(h, s, e)
      PROVE  FunnelInv'
    BY <1>2, <1>7 DEF Submit, Track
<1>8. ASSUME (\E p \in Plans : ChangePlan(p)) \/ Publish \/ Tick \/ UNCHANGED vars
      PROVE  FunnelInv'
    BY <1>2, <1>8 DEF ChangePlan, Publish, Tick, vars
<1>. QED
    BY <1>3, <1>4, <1>5, <1>6, <1>7, <1>8 DEF Next, Serve

-----------------------------------------------------------------------------
(* The repeats                                                               *)

(* A submission of `visit` begun at `when` does not repeat the lead `l`.     *)
Apart(l, visit, when) ==
    l.email = visit.email =>
        /\ l.session = NoSession \/ l.session # visit.session
        /\ when - l.asked > Window

(* What a submission has found when it looked stays so, however many leads   *)
(* are committed after it looked.                                            *)
RepeatInv ==
    /\ \A h \in Handlers :
          req[h].at \in {"looked", "capped", "claimed", "filed"} =>
              /\ req[h].knew <= Len(leads)
              /\ \A i \in 1..req[h].knew : Apart(leads[i], req[h].visit, req[h].asked)
    /\ \A j \in 1..Len(leads) :
          /\ leads[j].knew <= Len(leads)
          /\ \A i \in 1..leads[j].knew : Apart(leads[i], leads[j], leads[j].asked)

(* What is recorded of a lead.                                               *)
LEMMA LeadShape ==
    ASSUME leads \in Seq(Leads), NEW j \in 1..Len(leads)
    PROVE  leads[j] \in Leads /\ leads[j].knew \in Nat /\ leads[j].asked \in Times
<1>1. leads[j] \in Leads
    OBVIOUS
<1>. QED
    BY <1>1 DEF Leads

LEMMA RepeatStep == ASSUME IInv, RepeatInv, [Next]_vars PROVE RepeatInv'
<1> USE DEF IInv, world, tables, locks
<1>0. /\ TypeOK /\ req \in [Handlers -> Requests] /\ leads \in Seq(Leads)
      /\ Len(leads) \in Nat
    BY DEF TypeOK
<1>1. ASSUME NEW h \in Handlers, NEW r, req' = [req EXCEPT ![h] = r], UNCHANGED leads,
             r.at \in {"looked", "capped", "claimed", "filed"} =>
                 /\ r.knew <= Len(leads)
                 /\ \A i \in 1..r.knew : Apart(leads[i], r.visit, r.asked)
      PROVE  RepeatInv'
    BY <1>0, <1>1 DEF RepeatInv
<1>2. ASSUME UNCHANGED <<req, leads>> PROVE RepeatInv'
    BY <1>2 DEF RepeatInv
<1>3. ASSUME NEW h \in Handlers, Finish(h), UNCHANGED leads PROVE RepeatInv'
    BY <1>1, <1>3 DEF Finish, Idle
<1>4. ASSUME NEW h \in Handlers, NEW visit \in Visits, Submit(h, visit) PROVE RepeatInv'
    <2>1. CASE active /\ ~Duplicate(visit)
        <3>1. PICK r : r = [at |-> "looked", visit |-> visit, knew |-> Len(leads),
                            asked |-> clock]
            OBVIOUS
        <3>2. req' = [req EXCEPT ![h] = r] /\ UNCHANGED leads
            BY <1>4, <2>1, <3>1 DEF Submit
        <3>3. ASSUME NEW i \in 1..Len(leads) PROVE Apart(leads[i], visit, clock)
            <4>1. leads[i].asked \in Int /\ clock \in Int
                BY <1>0, LeadShape DEF TypeOK, Times
            <4>3. Window \in Nat
                BY LeadCaptureAssumption
            <4>2. leads[i].email = visit.email =>
                      /\ visit.session = NoSession \/ leads[i].session # visit.session
                      /\ ~(leads[i].asked >= clock - Window)
                BY <1>0, <2>1 DEF Duplicate
            <4>. QED
                BY <4>1, <4>2, <4>3 DEF Apart
        <3>. QED
            <4>1. r.knew <= Len(leads) /\ \A i \in 1..r.knew : Apart(leads[i], r.visit, r.asked)
                BY <1>0, <3>1, <3>3
            <4>. QED
                BY <1>1, <3>2, <4>1
    <2>2. CASE ~(active /\ ~Duplicate(visit))
        BY <1>2, <1>4, <2>2 DEF Submit
    <2>. QED
        BY <2>1, <2>2
<1>5. ASSUME NEW h \in Handlers, ReadCap(h) PROVE RepeatInv'
    <2>1. PICK r : r = [at |-> "capped", visit |-> req[h].visit, knew |-> req[h].knew,
                        asked |-> req[h].asked, cap |-> EffectiveCap(plan)]
        OBVIOUS
    <2>2. req' = [req EXCEPT ![h] = r] /\ req[h].at = "looked" /\ UNCHANGED leads
        BY <1>5, <2>1 DEF ReadCap
    <2>. QED
        BY <1>1, <2>1, <2>2 DEF RepeatInv
<1>6. ASSUME NEW h \in Handlers, Claim(h) PROVE RepeatInv'
    <2>1. CASE ClaimSucceeds(h)
        <3>1. PICK r : r = [at |-> "claimed", visit |-> req[h].visit, knew |-> req[h].knew,
                            asked |-> req[h].asked]
            OBVIOUS
        <3>2. req' = [req EXCEPT ![h] = r] /\ req[h].at = "capped" /\ UNCHANGED leads
            BY <1>6, <2>1, <3>1 DEF Claim
        <3>. QED
            BY <1>1, <3>1, <3>2 DEF RepeatInv
    <2>2. CASE ~ClaimSucceeds(h)
        BY <1>3, <1>6, <2>2 DEF Claim
    <2>. QED
        BY <2>1, <2>2
<1>7. ASSUME NEW h \in Handlers, File(h) PROVE RepeatInv'
    <2>1. PICK r : r = [at |-> "filed", visit |-> req[h].visit, knew |-> req[h].knew,
                        asked |-> req[h].asked, stamped |-> clock, stamps |-> Stamps(h)]
        OBVIOUS
    <2>2. req' = [req EXCEPT ![h] = r] /\ req[h].at = "claimed" /\ UNCHANGED leads
        BY <1>7, <2>1 DEF File
    <2>. QED
        BY <1>1, <2>1, <2>2 DEF RepeatInv
<1>8. ASSUME NEW h \in Handlers, CommitLead(h) PROVE RepeatInv'
    <2>1. PICK r \in Requests : r = req[h] /\ r.at = "filed"
        BY <1>0, <1>8 DEF CommitLead
    <2>2. PICK l : l = [email |-> r.visit.email, session |-> r.visit.session,
                        knew |-> r.knew, asked |-> r.asked]
        OBVIOUS
    <2>3. leads' = Append(leads, l) /\ req' = [req EXCEPT ![h] = Idle]
        BY <1>8, <2>1, <2>2 DEF CommitLead, Finish
    <2>4. l \in Leads /\ r.knew \in Nat
        BY <2>1, <2>2, RequestShape DEF Leads, Emails, Sessions
    <2>5. /\ Len(leads') = Len(leads) + 1 /\ leads'[Len(leads) + 1] = l
          /\ \A i \in 1..Len(leads) : leads'[i] = leads[i]
        BY <1>0, <2>3, <2>4
    <2>6. /\ r.knew <= Len(leads)
          /\ \A i \in 1..r.knew : Apart(leads[i], l, l.asked)
        BY <2>1, <2>2 DEF RepeatInv, Apart
    <2>7. ASSUME NEW k \in Handlers, req'[k].at \in {"looked", "capped", "claimed", "filed"}
          PROVE  /\ req'[k].knew <= Len(leads')
                 /\ \A i \in 1..req'[k].knew : Apart(leads'[i], req'[k].visit, req'[k].asked)
        <3>1. req'[k] = req[k] /\ req[k].knew \in Nat
            BY <1>0, <2>3, <2>7, RequestShape DEF Idle
        <3>2. /\ req[k].knew <= Len(leads)
              /\ \A i \in 1..req[k].knew : Apart(leads[i], req[k].visit, req[k].asked)
            BY <2>7, <3>1 DEF RepeatInv
        <3>. QED
            BY <1>0, <2>5, <3>1, <3>2
    <2>8. ASSUME NEW j \in 1..Len(leads')
          PROVE  /\ leads'[j].knew <= Len(leads')
                 /\ \A i \in 1..leads'[j].knew : Apart(leads'[i], leads'[j], leads'[j].asked)
        <3>1. CASE j = Len(leads) + 1
            BY <1>0, <2>2, <2>4, <2>5, <2>6, <3>1
        <3>2. CASE j # Len(leads) + 1
            <4>1. j \in 1..Len(leads) /\ leads'[j] = leads[j]
                BY <1>0, <2>5, <3>2
            <4>2. leads[j].knew \in Nat
                BY <1>0, <4>1, LeadShape
            <4>3. /\ leads[j].knew <= Len(leads)
                  /\ \A i \in 1..leads[j].knew : Apart(leads[i], leads[j], leads[j].asked)
                BY <4>1 DEF RepeatInv
            <4>. QED
                BY <1>0, <2>5, <4>1, <4>2, <4>3
        <3>. QED
            BY <3>1, <3>2
    <2>. QED
        BY <2>7, <2>8 DEF RepeatInv, Apart
<1>9. ASSUME NEW h \in Handlers, NEW s \in Sessions, NEW e \in Events, Track(h, s, e)
      PROVE  RepeatInv'
    <2>1. PICK r : r = [at |-> "tracking", session |-> s, event |-> e]
        OBVIOUS
    <2>2. (req' = [req EXCEPT ![h] = r] \/ req' = req) /\ r.at = "tracking" /\ UNCHANGED leads
        BY <1>9, <2>1 DEF Track
    <2>. QED
        BY <1>1, <1>2, <2>2
<1>10. ASSUME NEW h \in Handlers,
              TrackAgain(h) \/ EndDeadlock(h) \/ Lose(h) \/ CommitMark(h)
       PROVE  RepeatInv'
    BY <1>3, <1>10 DEF TrackAgain, EndDeadlock, Lose, CommitMark
<1>11. ASSUME NEW h \in Handlers, Mark(h) PROVE RepeatInv'
    <2>1. PICK r : r = [at |-> IF req[h].event \in Counted THEN "counting" ELSE "marked",
                        session |-> req[h].session, event |-> req[h].event, marked |-> clock]
        OBVIOUS
    <2>2. req' = [req EXCEPT ![h] = r] /\ r.at \in {"counting", "marked"} /\ UNCHANGED leads
        BY <1>11, <2>1 DEF Mark
    <2>. QED
        BY <1>1, <2>2
<1>12. ASSUME NEW h \in Handlers, Count(h) PROVE RepeatInv'
    <2>1. PICK r : r = [req[h] EXCEPT !.at = "marked"]
        OBVIOUS
    <2>2. r.at = "marked"
        BY <1>0, <1>12, <2>1 DEF Count, Requests, Idle
    <2>3. req' = [req EXCEPT ![h] = r] /\ UNCHANGED leads
        BY <1>12, <2>1 DEF Count
    <2>. QED
        BY <1>1, <2>2, <2>3
<1>13. ASSUME (\E p \in Plans : ChangePlan(p)) \/ Publish \/ Tick \/ UNCHANGED vars
       PROVE  RepeatInv'
    BY <1>2, <1>13 DEF ChangePlan, Publish, Tick, vars
<1>. QED
    BY <1>4, <1>5, <1>6, <1>7, <1>8, <1>9, <1>10, <1>11, <1>12, <1>13 DEF Next, Serve

(* The submissions under way that could not see lead `i` when they looked,   *)
(* and the leads of those that have been committed since.                    *)
Submitting(h) == req[h].at \in {"looked", "capped", "claimed", "filed"}
Unaware(i) == {h \in Handlers : Submitting(h) /\ req[h].knew < i}
Late(i) == {j \in i..Len(leads) : leads[j].knew < i}

(* For every lead there are as many handlers free of such a submission as    *)
(* there are late leads: each of them has come from a handler of its own.    *)
BurstInv ==
    \A i \in 1..Len(leads) :
        /\ IsFiniteSet(Late(i))
        /\ Cardinality(Late(i)) <= Cardinality(Handlers \ Unaware(i))

LEMMA FiniteHandlers ==
    ASSUME NEW S \in SUBSET Handlers
    PROVE  IsFiniteSet(S) /\ Cardinality(S) \in Nat /\ Cardinality(S) <= Cardinality(Handlers)
BY LeadCaptureAssumption, FS_Subset, FS_CardinalityType

LEMMA BurstStep == ASSUME IInv, RepeatInv, BurstInv, [Next]_vars PROVE BurstInv'
<1> USE DEF IInv, world, tables, locks
<1>0. /\ TypeOK /\ req \in [Handlers -> Requests] /\ leads \in Seq(Leads)
      /\ Len(leads) \in Nat
    BY DEF TypeOK
<1>1. ASSUME UNCHANGED leads, \A i \in 1..Len(leads) : Unaware(i)' \subseteq Unaware(i)
      PROVE  BurstInv'
    <2>1. SUFFICES ASSUME NEW i \in 1..Len(leads)
                   PROVE  /\ IsFiniteSet(Late(i)')
                          /\ Cardinality(Late(i)') <= Cardinality(Handlers \ Unaware(i)')
        BY <1>1 DEF BurstInv
    <2>2. Late(i)' = Late(i)
        BY <1>1 DEF Late
    <2>3. Handlers \ Unaware(i) \subseteq Handlers \ Unaware(i)'
        BY <1>1
    <2>4. /\ IsFiniteSet(Handlers \ Unaware(i)')
          /\ Cardinality(Handlers \ Unaware(i)) \in Nat
          /\ Cardinality(Handlers \ Unaware(i)') \in Nat
        BY FiniteHandlers
    <2>5. Cardinality(Handlers \ Unaware(i)) <= Cardinality(Handlers \ Unaware(i)')
        BY <2>3, <2>4, FS_Subset
    <2>6. IsFiniteSet(Late(i)) /\ Cardinality(Late(i)) \in Nat
        BY FS_CardinalityType DEF BurstInv
    <2>. QED
        BY <2>2, <2>4, <2>5, <2>6 DEF BurstInv
<1>2. ASSUME NEW h \in Handlers, NEW r, req' = [req EXCEPT ![h] = r], UNCHANGED leads,
             r.at \in {"looked", "capped", "claimed", "filed"} =>
                 \/ r.knew = Len(leads)
                 \/ Submitting(h) /\ r.knew = req[h].knew
      PROVE  BurstInv'
    <2>1. ASSUME NEW i \in 1..Len(leads), NEW k \in Unaware(i)' PROVE k \in Unaware(i)
        <3>1. k \in Handlers /\ Submitting(k)' /\ req'[k].knew < i
            BY <2>1 DEF Unaware
        <3>2. CASE k = h
            <4>1. req'[k] = r
                BY <1>0, <1>2, <3>2
            <4>. QED
                BY <1>0, <1>2, <3>1, <3>2, <4>1 DEF Unaware, Submitting
        <3>3. CASE k # h
            BY <1>0, <1>2, <3>1, <3>3 DEF Unaware, Submitting
        <3>. QED
            BY <3>2, <3>3
    <2>. QED
        BY <1>1, <1>2, <2>1
<1>3. ASSUME UNCHANGED <<req, leads>> PROVE BurstInv'
    BY <1>1, <1>3 DEF Unaware, Submitting
<1>4. ASSUME NEW h \in Handlers, Finish(h), UNCHANGED leads PROVE BurstInv'
    BY <1>2, <1>4 DEF Finish, Idle
<1>5. ASSUME NEW h \in Handlers, NEW visit \in Visits, Submit(h, visit) PROVE BurstInv'
    <2>1. PICK r : r = [at |-> "looked", visit |-> visit, knew |-> Len(leads), asked |-> clock]
        OBVIOUS
    <2>2. (req' = [req EXCEPT ![h] = r] \/ req' = req) /\ UNCHANGED leads
        BY <1>5, <2>1 DEF Submit
    <2>. QED
        BY <1>2, <1>3, <2>1, <2>2
<1>6. ASSUME NEW h \in Handlers, ReadCap(h) PROVE BurstInv'
    <2>1. PICK r : r = [at |-> "capped", visit |-> req[h].visit, knew |-> req[h].knew,
                        asked |-> req[h].asked, cap |-> EffectiveCap(plan)]
        OBVIOUS
    <2>2. req' = [req EXCEPT ![h] = r] /\ req[h].at = "looked" /\ UNCHANGED leads
        BY <1>6, <2>1 DEF ReadCap
    <2>. QED
        BY <1>2, <2>1, <2>2 DEF Submitting
<1>7. ASSUME NEW h \in Handlers, Claim(h) PROVE BurstInv'
    <2>1. CASE ClaimSucceeds(h)
        <3>1. PICK r : r = [at |-> "claimed", visit |-> req[h].visit, knew |-> req[h].knew,
                            asked |-> req[h].asked]
            OBVIOUS
        <3>2. req' = [req EXCEPT ![h] = r] /\ req[h].at = "capped" /\ UNCHANGED leads
            BY <1>7, <2>1, <3>1 DEF Claim
        <3>. QED
            BY <1>2, <3>1, <3>2 DEF Submitting
    <2>2. CASE ~ClaimSucceeds(h)
        BY <1>4, <1>7, <2>2 DEF Claim
    <2>. QED
        BY <2>1, <2>2
<1>8. ASSUME NEW h \in Handlers, File(h) PROVE BurstInv'
    <2>1. PICK r : r = [at |-> "filed", visit |-> req[h].visit, knew |-> req[h].knew,
                        asked |-> req[h].asked, stamped |-> clock, stamps |-> Stamps(h)]
        OBVIOUS
    <2>2. req' = [req EXCEPT ![h] = r] /\ req[h].at = "claimed" /\ UNCHANGED leads
        BY <1>8, <2>1 DEF File
    <2>. QED
        BY <1>2, <2>1, <2>2 DEF Submitting
<1>9. ASSUME NEW h \in Handlers, CommitLead(h) PROVE BurstInv'
    <2>1. PICK l : l = [email |-> req[h].visit.email, session |-> req[h].visit.session,
                        knew |-> req[h].knew, asked |-> req[h].asked]
        OBVIOUS
    <2>2. leads' = Append(leads, l) /\ req' = [req EXCEPT ![h] = Idle] /\ req[h].at = "filed"
        BY <1>9, <2>1 DEF CommitLead, Finish
    <2>3. l \in Leads /\ l.knew \in Nat /\ l.knew <= Len(leads)
        <3>1. PICK r \in Requests : r = req[h]
            BY <1>0
        <3>. QED
            BY <2>1, <2>2, <3>1, RequestShape DEF Leads, Emails, Sessions, RepeatInv
    <2>4. /\ Len(leads') = Len(leads) + 1 /\ leads'[Len(leads) + 1] = l
          /\ \A i \in 1..Len(leads) : leads'[i] = leads[i]
        BY <1>0, <2>2, <2>3
    <2>5. \A k \in Handlers : Submitting(k)' <=> k # h /\ Submitting(k)
        BY <1>0, <2>2 DEF Submitting, Idle
    <2>6. \A k \in Handlers \ {h} : req'[k] = req[k]
        BY <1>0, <2>2
    <2>7. \A i \in Int : Unaware(i)' = Unaware(i) \ {h}
        BY <2>5, <2>6 DEF Unaware
    <2>8. SUFFICES ASSUME NEW i \in 1..Len(leads')
                   PROVE  /\ IsFiniteSet(Late(i)')
                          /\ Cardinality(Late(i)') <= Cardinality(Handlers \ Unaware(i)')
        BY DEF BurstInv
    <2>9. CASE i = Len(leads) + 1
        <3>1. Late(i)' = {i}
            BY <1>0, <2>3, <2>4, <2>9 DEF Late
        <3>2. h \in Handlers \ Unaware(i)'
            BY <2>7
        <3>3. IsFiniteSet(Handlers \ Unaware(i)') /\ Cardinality(Handlers \ Unaware(i)') \in Nat
            BY FiniteHandlers
        <3>4. Cardinality(Handlers \ Unaware(i)') # 0
            BY <3>2, <3>3, FS_EmptySet
        <3>5. IsFiniteSet({i}) /\ Cardinality({i}) = 1
            BY FS_Singleton
        <3>. QED
            BY <3>1, <3>3, <3>4, <3>5
    <2>10. CASE i # Len(leads) + 1
        <3>1. i \in 1..Len(leads) /\ i \in Int
            BY <1>0, <2>4, <2>8, <2>10
        <3>2. PICK n : n = Len(leads) + 1
            OBVIOUS
        <3>3. /\ IsFiniteSet(Late(i)) /\ Cardinality(Late(i)) \in Nat
              /\ Cardinality(Late(i)) <= Cardinality(Handlers \ Unaware(i))
            BY <3>1, FS_CardinalityType DEF BurstInv
        <3>4. /\ IsFiniteSet(Handlers \ Unaware(i))
              /\ Cardinality(Handlers \ Unaware(i)) \in Nat
            BY FiniteHandlers
        <3>5. \A j \in i..Len(leads) : leads[j].knew < i <=> leads'[j].knew < i
            BY <2>4, <3>1
        <3>6. CASE l.knew < i
            <4>1. Late(i)' = Late(i) \cup {n} /\ n \notin Late(i)
                BY <1>0, <2>4, <3>1, <3>2, <3>5, <3>6 DEF Late
            <4>2. h \in Unaware(i)
                BY <2>1, <2>2, <3>6 DEF Unaware, Submitting
            <4>3. /\ Handlers \ Unaware(i)' = (Handlers \ Unaware(i)) \cup {h}
                  /\ h \notin Handlers \ Unaware(i)
                BY <2>7, <3>1, <4>2
            <4>4. IsFiniteSet(Late(i)') /\ Cardinality(Late(i)') = Cardinality(Late(i)) + 1
                BY <3>3, <4>1, FS_AddElement
            <4>5. Cardinality(Handlers \ Unaware(i)') = Cardinality(Handlers \ Unaware(i)) + 1
                BY <3>4, <4>3, FS_AddElement
            <4>. QED
                BY <3>3, <3>4, <4>4, <4>5
        <3>7. CASE ~(l.knew < i)
            <4>1. Late(i)' = Late(i)
                BY <1>0, <2>4, <3>1, <3>5, <3>7 DEF Late
            <4>2. h \notin Unaware(i)
                BY <2>1, <3>7 DEF Unaware
            <4>3. Handlers \ Unaware(i)' = Handlers \ Unaware(i)
                BY <2>7, <3>1, <4>2
            <4>. QED
                BY <3>3, <4>1, <4>3
        <3>. QED
            BY <3>6, <3>7
    <2>. QED
        BY <2>9, <2>10
<1>10. ASSUME NEW h \in Handlers, NEW s \in Sessions, NEW e \in Events, Track(h, s, e)
       PROVE  BurstInv'
    <2>1. PICK r : r = [at |-> "tracking", session |-> s, event |-> e]
        OBVIOUS
    <2>2. (req' = [req EXCEPT ![h] = r] \/ req' = req) /\ r.at = "tracking" /\ UNCHANGED leads
        BY <1>10, <2>1 DEF Track
    <2>. QED
        BY <1>2, <1>3, <2>2
<1>11. ASSUME NEW h \in Handlers,
              TrackAgain(h) \/ EndDeadlock(h) \/ Lose(h) \/ CommitMark(h)
       PROVE  BurstInv'
    BY <1>4, <1>11 DEF TrackAgain, EndDeadlock, Lose, CommitMark
<1>12. ASSUME NEW h \in Handlers, Mark(h) PROVE BurstInv'
    <2>1. PICK r : r = [at |-> IF req[h].event \in Counted THEN "counting" ELSE "marked",
                        session |-> req[h].session, event |-> req[h].event, marked |-> clock]
        OBVIOUS
    <2>2. req' = [req EXCEPT ![h] = r] /\ r.at \in {"counting", "marked"} /\ UNCHANGED leads
        BY <1>12, <2>1 DEF Mark
    <2>. QED
        BY <1>2, <2>2
<1>13. ASSUME NEW h \in Handlers, Count(h) PROVE BurstInv'
    <2>1. PICK r : r = [req[h] EXCEPT !.at = "marked"]
        OBVIOUS
    <2>2. r.at = "marked"
        BY <1>0, <1>13, <2>1 DEF Count, Requests, Idle
    <2>3. req' = [req EXCEPT ![h] = r] /\ UNCHANGED leads
        BY <1>13, <2>1 DEF Count
    <2>. QED
        BY <1>2, <2>2, <2>3
<1>14. ASSUME (\E p \in Plans : ChangePlan(p)) \/ Publish \/ Tick \/ UNCHANGED vars
       PROVE  BurstInv'
    BY <1>3, <1>14 DEF ChangePlan, Publish, Tick, vars
<1>. QED
    BY <1>5, <1>6, <1>7, <1>8, <1>9, <1>10, <1>11, <1>12, <1>13, <1>14 DEF Next, Serve

-----------------------------------------------------------------------------
(* The theorems                                                              *)

LEMMA InvInit == Init => IInv /\ MarkInv /\ FunnelInv /\ RepeatInv /\ BurstInv
<1> SUFFICES ASSUME Init PROVE IInv /\ MarkInv /\ FunnelInv /\ RepeatInv /\ BurstInv
    OBVIOUS
<1>1. EffectiveCap(plan) \in Nat /\ best = EffectiveCap(plan)
    BY CapType DEF Init
<1>2. TypeOK
    <2>1. clock \in 0..MaxClock /\ plan \in Plans /\ active \in BOOLEAN
        <3>1. MaxClock \in Nat /\ clock = 0
            BY LeadCaptureAssumption DEF Init
        <3>2. clock \in 0..MaxClock
            BY <3>1
        <3>. QED
            BY <3>2 DEF Init
    <2>2. counts \in [{"leads"} \cup (Counted \cap Events) -> Nat] /\ leads \in Seq(Leads)
        BY DEF Init
    <2>3. visitor \in [Sessions -> {NoRow} \cup VisitorRows]
        BY DEF Init
    <2>4. /\ rowHolder \in Handlers \cup {Free}
          /\ visitHolder \in [Sessions -> Handlers \cup {Free}]
        BY DEF Init
    <2>5. req \in [Handlers -> Requests]
        BY DEF Init, Requests
    <2>. QED
        BY <1>1, <2>1, <2>2, <2>3, <2>4, <2>5 DEF TypeOK
<1>3. CapInv
    BY <1>1 DEF Init, CapInv, Idle
<1>4. StampInv
    BY DEF Init, StampInv, Idle
<1>5. MarkInv
    BY DEF Init, MarkInv, Idle
<1>6. FunnelInv
    <2>1. \A e \in Events : Reporters(e) = {}
        BY DEF Init, Reporters
    <2>2. Cardinality({}) = 0
        BY FS_EmptySet
    <2>3. \A e \in Counted \cap Events : counts[e] = 0
        BY DEF Init
    <2>. QED
        BY <2>1, <2>2, <2>3 DEF FunnelInv
<1>7. RepeatInv
    BY DEF Init, RepeatInv, Idle
<1>8. BurstInv
    BY DEF Init, BurstInv
<1>. QED
    BY <1>2, <1>3, <1>4, <1>5, <1>6, <1>7, <1>8 DEF IInv

LEMMA Invariance == Spec => [](IInv /\ MarkInv /\ FunnelInv /\ RepeatInv /\ BurstInv)
<1>1. IInv /\ MarkInv /\ FunnelInv /\ RepeatInv /\ BurstInv /\ [Next]_vars
        => (IInv /\ MarkInv /\ FunnelInv /\ RepeatInv /\ BurstInv)'
    BY TypeStep, CapStep, StampStep, MarkStep, FunnelStep, RepeatStep, BurstStep DEF IInv
<1>. QED
    BY <1>1, InvInit, PTL DEF Spec

(* Counters, leads, sessions' rows and requests keep their types.            *)
THEOREM TypeCorrect == Spec => []TypeOK
<1>1. IInv => TypeOK
    BY DEF IInv
<1>. QED
    BY <1>1, Invariance, PTL

(* The cap of the tool holds for every number of submissions at once, every  *)
(* table of plans and every change of plan between the reading of the cap    *)
(* and the claim of the slot.                                                *)
THEOREM CapHolds == Spec => []CapKept
<1>1. IInv => CapKept
    BY DEF IInv, CapInv, CapKept
<1>. QED
    BY <1>1, Invariance, PTL

(* However often a visitor presses and reloads, the leads are no more than   *)
(* the requests served at one time: each came from a submission that had     *)
(* looked for a duplicate before the first of them was committed, and no     *)
(* handler has had two of those.                                             *)
THEOREM RepeatsHold == Spec => []RepeatsBounded
<1>1. ASSUME IInv, RepeatInv, BurstInv PROVE RepeatsBounded
    <2>0. leads \in Seq(Leads) /\ DOMAIN leads = 1..Len(leads) /\ Len(leads) \in Nat
        <3>1. leads \in Seq(Leads)
            BY <1>1 DEF IInv, TypeOK
        <3>. QED
            BY <3>1
    <2>1. SUFFICES ASSUME NEW i \in 1..Len(leads)
                   PROVE  Cardinality({j \in i..Len(leads) : Resubmits(leads[j], leads[i])})
                              <= Cardinality(Handlers)
        BY <2>0 DEF RepeatsBounded
    <2>2. ASSUME NEW j \in i..Len(leads), Resubmits(leads[j], leads[i]) PROVE j \in Late(i)
        <3>1. j \in 1..Len(leads) /\ i \in 1..Len(leads)
            BY <2>0
        <3>2. leads[j].knew \in Nat
            BY <2>0, <3>1, LeadShape
        <3>3. SUFFICES ASSUME i <= leads[j].knew PROVE FALSE
            BY <2>0, <3>1, <3>2 DEF Late
        <3>4. i \in 1..leads[j].knew
            BY <2>0, <3>2, <3>3
        <3>5. Apart(leads[i], leads[j], leads[j].asked)
            BY <1>1, <3>1, <3>4 DEF RepeatInv
        <3>6. leads[i].asked \in Int /\ leads[j].asked \in Int /\ Window \in Int
            BY <2>0, <3>1, LeadShape, LeadCaptureAssumption DEF Times
        <3>. QED
            BY <2>2, <3>5, <3>6 DEF Apart, Resubmits
    <2>3. {j \in i..Len(leads) : Resubmits(leads[j], leads[i])} \subseteq Late(i)
        BY <2>2
    <2>4. /\ IsFiniteSet(Late(i))
          /\ Cardinality(Late(i)) <= Cardinality(Handlers \ Unaware(i))
        BY <1>1 DEF BurstInv
    <2>5. /\ Cardinality(Handlers \ Unaware(i)) \in Nat /\ Cardinality(Handlers) \in Nat
          /\ Cardinality(Handlers \ Unaware(i)) <= Cardinality(Handlers)
        BY FiniteHandlers
    <2>6. PICK S : S = {j \in i..Len(leads) : Resubmits(leads[j], leads[i])}
        OBVIOUS
    <2>7. /\ Cardinality(S) \in Nat /\ Cardinality(Late(i)) \in Nat
          /\ Cardinality(S) <= Cardinality(Late(i))
        BY <2>3, <2>4, <2>6, FS_Subset, FS_CardinalityType
    <2>. QED
        BY <2>4, <2>5, <2>6, <2>7
<1>. QED
    BY <1>1, Invariance, PTL

(* The counters of the tool agree with the rows of leads and sessions.       *)
THEOREM FunnelHolds == Spec => []FunnelAgrees
<1>1. IInv /\ FunnelInv => FunnelAgrees
    BY DEF IInv, CapInv, FunnelInv, Reporters, FunnelAgrees
<1>. QED
    BY <1>1, Invariance, PTL

(* The first submission dates its session for good, although the stamp is    *)
(* read by one statement and written by another.                             *)
THEOREM FirstDateHolds == Spec => FirstSubmissionKept
<1>1. IInv /\ [Next]_vars => DatesKept
    BY StampStep
<1>2. DatesKept <=> \A s \in Sessions :
          (visitor[s] # NoRow /\ visitor[s]["lead_submitted"] # Never)
          => visitor'[s] # NoRow
             /\ visitor'[s]["lead_submitted"] = visitor[s]["lead_submitted"]
    BY DEF DatesKept
<1>. QED
    BY <1>1, <1>2, Invariance, PTL DEF Spec, FirstSubmissionKept

-----------------------------------------------------------------------------
(* Accounts: the mailed links                                                *)

(* A finite set whose elements are all one has one at most.                  *)
LEMMA AtMostOne ==
    ASSUME NEW S, IsFiniteSet(S), \A x, y \in S : x = y
    PROVE  Cardinality(S) <= 1
<1>1. CASE S = {}
    BY <1>1, FS_EmptySet
<1>2. CASE S # {}
    <2>1. PICK x \in S : TRUE
        BY <1>2
    <2>2. S = {x}
        BY <2>1
    <2>. QED
        BY <2>2, FS_Singleton
<1>. QED
    BY <1>1, <1>2

(* The cardinality an instance speaks of is the one of FiniteSets.           *)
LEMMA SameCardinality == \A S : Team!Cardinality(S) = Cardinality(S)
BY DEF Team!Cardinality, Cardinality

(* The rows the team keeps.                                                 *)
LinkRows == [purpose : Team!Purposes, used : BOOLEAN]
InviteRows == [by : People, to : People, role : {"admin", "member"},
               accepted : BOOLEAN, revoked : BOOLEAN]
Persons == [ws : People \cup {Team!None}, role : {"owner", "admin", "member"}]

(* The mailed links.  Of a purpose for which no two were made at one time,   *)
(* one is unused at most; a link that is being mailed knows of those that    *)
(* were there before it.                                                     *)
MailInv ==
    /\ DOMAIN work = Handlers
    /\ links \in Seq(LinkRows)
    /\ \A h \in Handlers : work[h].at = "mailing" =>
          /\ work[h].purpose \in Team!Purposes
          /\ work[h].seen \in 0..Len(links)
    /\ \A purpose \in Team!Purposes \ crossed : \A i, j \in DOMAIN links :
          /\ links[i].purpose = purpose /\ ~links[i].used
          /\ links[j].purpose = purpose /\ ~links[j].used
          => i = j

(* No link has been mailed at first.                                        *)
LEMMA MailInit == Team!Init => MailInv
BY DEF Team!Init, MailInv, Team!Resting

(* A request that is not about links does not disturb them.                  *)
LEMMA MailIdle ==
    ASSUME MailInv, NEW h \in Handlers, NEW w, w.at # "mailing",
           work' = [work EXCEPT ![h] = w], UNCHANGED <<links, crossed>>
    PROVE  MailInv'
BY DEF MailInv

(* Every step keeps the links in order: mailing one uses up those before it.*)
LEMMA MailStep == ASSUME MailInv, [Team!Next]_(Team!vars) PROVE MailInv'
<1> USE DEF Team!mail, Team!second, Team!team, Team!host, Team!Does, Team!Begin, Team!End,
            Team!Resting
<1>1. ASSUME NEW h \in Handlers, NEW purpose \in Team!Purposes, Team!AskLink(h, purpose)
      PROVE  MailInv'
    BY <1>1 DEF Team!AskLink, MailInv
<1>2. ASSUME NEW h \in Handlers, Team!MailLink(h)
      PROVE  MailInv'
    <2> DEFINE w == work[h]
               old == Team!Superseded(w)
               Kept == [i \in DOMAIN links |-> [links[i] EXCEPT !.used = @ \/ i \in old]]
    <2>1. /\ w.purpose \in Team!Purposes /\ w.seen \in 0..Len(links)
          /\ links' = Append(Kept, Team!NewLink(w.purpose))
          /\ crossed' = IF \E i \in (w.seen + 1)..Len(links) : links[i].purpose = w.purpose
                        THEN crossed \cup {w.purpose} ELSE crossed
          /\ work' = [work EXCEPT ![h] = [at |-> "idle"]]
        BY <1>2 DEF Team!MailLink, MailInv
    <2>2. /\ DOMAIN links = 1..Len(links) /\ Len(links) \in Nat
          /\ \A i \in DOMAIN links : links[i] \in LinkRows
        BY DEF MailInv
    <2>3. /\ Kept \in Seq(LinkRows) /\ Len(Kept) = Len(links)
          /\ \A i \in DOMAIN links :
                /\ Kept[i].purpose = links[i].purpose
                /\ Kept[i].used <=> links[i].used \/ i \in old
        <3>1. \A i \in DOMAIN links : [links[i] EXCEPT !.used = @ \/ i \in old] \in LinkRows
            BY <2>2 DEF LinkRows
        <3>2. Kept \in [1..Len(links) -> LinkRows]
            BY <2>2, <3>1
        <3>3. Kept \in Seq(LinkRows) /\ Len(Kept) = Len(links)
            BY <2>2, <3>2
        <3>4. ASSUME NEW i \in DOMAIN links
              PROVE  /\ Kept[i].purpose = links[i].purpose
                     /\ Kept[i].used <=> links[i].used \/ i \in old
            <4>1. Kept[i] = [links[i] EXCEPT !.used = @ \/ i \in old]
                OBVIOUS
            <4>. HIDE DEF Kept, old
            <4>. QED
                BY <2>2, <3>4, <4>1 DEF LinkRows
        <3>. QED
            BY <3>3, <3>4
    <2>4. /\ Team!NewLink(w.purpose) \in LinkRows
          /\ Team!NewLink(w.purpose).purpose = w.purpose
        BY <2>1 DEF Team!NewLink, LinkRows
    <2>5. /\ links' \in Seq(LinkRows) /\ Len(links') = Len(links) + 1
          /\ DOMAIN links' = 1..(Len(links) + 1)
          /\ \A i \in 1..Len(links) : links'[i] = Kept[i]
          /\ links'[Len(links) + 1] = Team!NewLink(w.purpose)
        BY <2>1, <2>2, <2>3, <2>4
    <2>a. old = {i \in 1..w.seen : links[i].purpose = w.purpose /\ ~links[i].used}
        BY DEF Team!Superseded
    <2> HIDE DEF w, old, Kept
    <2>6. ASSUME NEW purpose \in Team!Purposes \ crossed',
                 NEW i \in DOMAIN links', NEW j \in DOMAIN links',
                 links'[i].purpose = purpose, ~links'[i].used,
                 links'[j].purpose = purpose, ~links'[j].used
          PROVE  i = j
        <3>1. CASE purpose = w.purpose
            <4>1. \A k \in 1..Len(links) :
                     links[k].purpose = purpose => k <= w.seen
                BY <2>1, <2>2, <2>6, <3>1
            <4>2. \A k \in 1..Len(links) :
                     links[k].purpose = purpose => Kept[k].used
                BY <2>1, <2>2, <2>3, <2>a, <3>1, <4>1
            <4>. QED
                BY <2>2, <2>3, <2>5, <2>6, <4>2
        <3>2. CASE purpose # w.purpose
            <4>1. purpose \in Team!Purposes \ crossed
                BY <2>1, <2>6
            <4>2. i \in 1..Len(links) /\ j \in 1..Len(links)
                BY <2>2, <2>4, <2>5, <2>6, <3>2
            <4>3. /\ links[i].purpose = purpose /\ ~links[i].used
                  /\ links[j].purpose = purpose /\ ~links[j].used
                BY <2>2, <2>3, <2>5, <2>6, <4>2
            <4>. QED
                BY <2>2, <4>1, <4>2, <4>3 DEF MailInv
        <3>. QED
            BY <3>1, <3>2
    <2>7. \A g \in Handlers : work'[g].at = "mailing" =>
             /\ work'[g].purpose \in Team!Purposes
             /\ work'[g].seen \in 0..Len(links')
        BY <2>1, <2>2, <2>5 DEF MailInv
    <2>. QED
        BY <2>1, <2>5, <2>6, <2>7 DEF MailInv
<1>3. ASSUME NEW h \in Handlers, NEW i \in DOMAIN links, Team!Redeem(h, i)
      PROVE  MailInv'
    <2>1. /\ links' = [links EXCEPT ![i].used = TRUE] /\ crossed' = crossed
          /\ work' = [work EXCEPT ![h] = [at |-> "idle"]]
        BY <1>3 DEF Team!Redeem
    <2>2. \A k \in DOMAIN links : links[k] \in LinkRows
        BY DEF MailInv
    <2>5. [links[i] EXCEPT !.used = TRUE] \in LinkRows
        BY <2>2 DEF LinkRows
    <2>3. links' \in Seq(LinkRows) /\ Len(links') = Len(links) /\ DOMAIN links' = DOMAIN links
        BY <2>1, <2>5 DEF MailInv
    <2>4. \A k \in DOMAIN links : links'[k].purpose = links[k].purpose
                                  /\ (~links'[k].used => ~links[k].used)
        BY <2>1, <2>2 DEF LinkRows
    <2>. QED
        BY <2>1, <2>3, <2>4 DEF MailInv
<1>4. ASSUME NEW h \in Handlers,
             \/ Team!Enroll(h) \/ Team!Confirm(h) \/ Team!Disable(h) \/ Team!CommitFactor(h)
             \/ \E c \in Codes : Team!SpendCode(h, c)
      PROVE  MailInv'
    BY <1>4, MailIdle
       DEF Team!Enroll, Team!Confirm, Team!Disable, Team!CommitFactor, Team!SpendCode,
           Team!AskFactor
<1>5. ASSUME NEW h \in Handlers,
             \/ \E o, p \in People, role \in {"admin", "member"} : Team!Invite(h, o, p, role)
             \/ Team!MailInvite(h) \/ Team!Join(h) \/ Team!Revoked(h) \/ Team!Removed(h)
             \/ \E i \in DOMAIN invites : Team!Accept(h, i) \/ Team!Revoke(h, i)
             \/ \E o, p \in People : Team!Remove(h, o, p)
      PROVE  MailInv'
    BY <1>5, MailIdle
       DEF Team!Invite, Team!MailInvite, Team!Join, Team!Revoked, Team!Removed, Team!Accept,
           Team!Revoke, Team!Remove
<1>6. ASSUME NEW h \in Handlers,
             \/ \E t \in Tools : Team!AddHost(h, t)
             \/ Team!VerifyHost(h) \/ Team!RemoveHost(h)
             \/ Team!InsertHost(h) \/ Team!SaveHost(h) \/ Team!DeleteHost(h)
             \/ Team!Refuse(h) \/ Team!Abandon(h)
      PROVE  MailInv'
    BY <1>6, MailIdle
       DEF Team!AddHost, Team!VerifyHost, Team!RemoveHost, Team!OnRow,
           Team!InsertHost, Team!SaveHost, Team!DeleteHost,
           Team!Refuse, Team!GivesUp, Team!Abandon
<1>8. ASSUME NEW h \in Handlers, Team!Attach(h) PROVE MailInv'
    <2>1. PICK status \in {"verified", "pending"} :
              work' = [work EXCEPT ![h] = [at |-> "inserting", tool |-> work[h].tool,
                                           status |-> status]]
        BY <1>8 DEF Team!Attach
    <2>. QED
        BY <1>8, <2>1, MailIdle DEF Team!Attach
<1>9. ASSUME NEW h \in Handlers, Team!Answer(h) PROVE MailInv'
    <2>1. PICK status \in {"verified", "pending", "error"} :
              work' = [work EXCEPT ![h] = [at |-> "saving", id |-> work[h].id,
                                           status |-> status]]
        BY <1>9 DEF Team!Answer
    <2>. QED
        BY <1>9, <2>1, MailIdle DEF Team!Answer
<1>10. ASSUME NEW h \in Handlers, Team!Detach(h) PROVE MailInv'
    BY <1>10, MailIdle DEF Team!Detach
<1>7. CASE UNCHANGED Team!vars
    BY <1>7 DEF Team!vars, MailInv
<1>. QED
    BY <1>1, <1>2, <1>3, <1>4, <1>5, <1>6, <1>7, <1>8, <1>9, <1>10 DEF Team!Next

(* The links stay in order.                                                 *)
LEMMA MailHolds == Team!Spec => []MailInv
BY MailInit, MailStep, PTL DEF Team!Spec

(* Of the links of a purpose one works at most, unless two were asked for at*)
(* a time (auth/recovery.py).                                               *)
LEMMA LinkWorks == Team!Spec => []Team!OneLinkWorks
<1>1. ASSUME MailInv, NEW purpose \in Team!Purposes \ crossed
      PROVE  Cardinality({i \in DOMAIN links : links[i].purpose = purpose /\ ~links[i].used}) <= 1
    <2> DEFINE Open == {i \in DOMAIN links : links[i].purpose = purpose /\ ~links[i].used}
    <2>1. DOMAIN links = 1..Len(links) /\ Len(links) \in Nat
        BY <1>1 DEF MailInv
    <2>2. IsFiniteSet(1..Len(links)) /\ Open \in SUBSET (1..Len(links))
        BY <2>1, FS_Interval
    <2>3. IsFiniteSet(Open)
        BY <2>2, FS_Subset
    <2>4. \A x, y \in Open : x = y
        BY <1>1 DEF MailInv
    <2>. QED
        BY <2>3, <2>4, AtMostOne
<1>2. MailInv => Team!OneLinkWorks
    BY <1>1, SameCardinality DEF Team!OneLinkWorks
<1>. QED
    BY <1>2, MailHolds, PTL

-----------------------------------------------------------------------------
(* Accounts: the second factor                                               *)

(* The columns of the second factor.                                        *)
Factors == [on : BOOLEAN, secret : Nat, codes : SUBSET Codes]

(* What a request about the second factor changes, by its kind.              *)
FactorChange(w) ==
    /\ w.saw \in Factors /\ w.new \in Factors
    /\ \/ w.kind = "enroll" /\ ~w.new.on /\ w.new.codes = w.saw.codes
       \/ w.kind = "confirm" /\ w.new.on /\ w.new.secret = w.saw.secret
       \/ w.kind = "disable" /\ ~w.new.on /\ w.new.codes = {}
       \/ /\ w.kind \in Codes
          /\ w.new = [w.saw EXCEPT !.codes = @ \ {w.kind}]

(* While no two overlapped, a request about the factor has seen it as it is. *)
FactorInv ==
    /\ DOMAIN work = Handlers
    /\ requests \in Nat
    /\ factor \in Factors
    /\ blurred \in BOOLEAN
    /\ \A h \in Handlers : work[h].at = "factor" => FactorChange(work[h])
    /\ ~blurred =>
          /\ factor.on => factor.secret = confirmed
          /\ factor.codes \cap spent = {}
          /\ \A h \in Handlers : work[h].at = "factor" => work[h].saw = factor

(* There is no factor at first.                                             *)
LEMMA FactorInit == Team!Init => FactorInv
<1>1. Team!NoFactor \in Factors /\ ~Team!NoFactor.on /\ Team!NoFactor.codes = {}
    BY DEF Factors, Team!NoFactor
<1>2. SUFFICES ASSUME Team!Init PROVE FactorInv
    OBVIOUS
<1>3. factor = Team!NoFactor /\ spent = {} /\ blurred = FALSE /\ requests = 0
    BY <1>2 DEF Team!Init
<1>4. DOMAIN work = Handlers /\ \A h \in Handlers : work[h].at = "idle"
    BY <1>2 DEF Team!Init, Team!Resting
<1>. QED
    BY <1>1, <1>3, <1>4 DEF FactorInv

(* A request that is not about the factor does not disturb it.              *)
LEMMA FactorIdle ==
    ASSUME FactorInv, NEW h \in Handlers, NEW w, w.at # "factor",
           work' = [work EXCEPT ![h] = w], requests' \in Nat, UNCHANGED Team!second
    PROVE  FactorInv'
BY DEF FactorInv, Team!second

(* A request about the factor begins.                                        *)
LEMMA FactorAsked ==
    ASSUME FactorInv, NEW h \in Handlers, NEW kind, NEW new \in Factors,
           Team!AskFactor(h, kind, new),
           FactorChange([at |-> "factor", kind |-> kind, saw |-> factor, new |-> new])
    PROVE  FactorInv'
<1>1. /\ work' = [work EXCEPT ![h] = [at |-> "factor", kind |-> kind, saw |-> factor, new |-> new]]
      /\ requests' = requests + 1
      /\ UNCHANGED <<factor, confirmed, spent, blurred>>
    BY DEF Team!AskFactor, Team!Begin, Team!Does, Team!second
<1>. QED
    BY <1>1 DEF FactorInv

(* Every step leaves the factor as it was read, or as the request made it.  *)
LEMMA FactorStep == ASSUME FactorInv, [Team!Next]_(Team!vars) PROVE FactorInv'
<1> USE DEF Team!mail, Team!team, Team!host, Team!Does, Team!Begin, Team!End, Team!Resting
<1>1. ASSUME NEW h \in Handlers, Team!Enroll(h) PROVE FactorInv'
    <2> DEFINE new == [factor EXCEPT !.secret = requests + 1]
    <2>1. ~factor.on /\ Team!AskFactor(h, "enroll", new)
        BY <1>1 DEF Team!Enroll
    <2>2. new \in Factors /\ ~new.on /\ new.codes = factor.codes
        BY <2>1 DEF FactorInv, Factors
    <2>3. FactorChange([at |-> "factor", kind |-> "enroll", saw |-> factor, new |-> new])
        BY <2>2 DEF FactorChange, FactorInv
    <2>. QED
        BY <2>1, <2>2, <2>3, FactorAsked
<1>2. ASSUME NEW h \in Handlers, Team!Confirm(h) PROVE FactorInv'
    <2> DEFINE new == [factor EXCEPT !.on = TRUE, !.codes = Codes]
    <2>1. Team!AskFactor(h, "confirm", new)
        BY <1>2 DEF Team!Confirm
    <2>2. new \in Factors /\ new.on /\ new.secret = factor.secret
        BY <2>1 DEF FactorInv, Factors
    <2>3. FactorChange([at |-> "factor", kind |-> "confirm", saw |-> factor, new |-> new])
        BY <2>2 DEF FactorChange, FactorInv
    <2>. QED
        BY <2>1, <2>2, <2>3, FactorAsked
<1>3. ASSUME NEW h \in Handlers, Team!Disable(h) PROVE FactorInv'
    <2>1. Team!AskFactor(h, "disable", Team!NoFactor)
        BY <1>3 DEF Team!Disable
    <2>2. Team!NoFactor \in Factors /\ ~Team!NoFactor.on /\ Team!NoFactor.codes = {}
        BY DEF Team!NoFactor, Factors
    <2>3. FactorChange([at |-> "factor", kind |-> "disable", saw |-> factor, new |-> Team!NoFactor])
        BY <2>2 DEF FactorChange, FactorInv
    <2>. QED
        BY <2>1, <2>2, <2>3, FactorAsked
<1>4. ASSUME NEW h \in Handlers, NEW c \in Codes, Team!SpendCode(h, c) PROVE FactorInv'
    <2> DEFINE new == [factor EXCEPT !.codes = Team!Remaining(c)]
    <2>1. Team!AskFactor(h, c, new)
        BY <1>4 DEF Team!SpendCode
    <2>2. new \in Factors /\ new = [factor EXCEPT !.codes = @ \ {c}]
        BY DEF FactorInv, Factors, Team!Remaining
    <2>3. FactorChange([at |-> "factor", kind |-> c, saw |-> factor, new |-> new])
        BY <2>2 DEF FactorChange, FactorInv
    <2>. QED
        BY <2>1, <2>2, <2>3, FactorAsked
<1>5. ASSUME NEW h \in Handlers, Team!CommitFactor(h) PROVE FactorInv'
    <2> DEFINE w == work[h]
    <2>1. /\ work[h].at = "factor" /\ FactorChange(w)
          /\ factor' = [k \in DOMAIN factor |-> IF w.new[k] # w.saw[k] THEN w.new[k] ELSE factor[k]]
          /\ confirmed' = IF w.kind = "confirm" THEN w.saw.secret ELSE confirmed
          /\ spent' = IF w.kind \in Codes THEN spent \cup {w.kind}
                      ELSE IF w.kind = "confirm" THEN {} ELSE spent
          /\ blurred' = (blurred \/ Team!Others(h, {"factor"}))
          /\ work' = [work EXCEPT ![h] = [at |-> "idle"]] /\ requests' = requests
        BY <1>5 DEF Team!CommitFactor, FactorInv
    <2>2. factor' \in Factors /\ blurred' \in BOOLEAN
        <3>1. factor \in Factors /\ w.new \in Factors /\ blurred \in BOOLEAN
            BY <2>1 DEF FactorChange, FactorInv
        <3>. HIDE DEF w
        <3>2. factor' = [k \in {"on", "secret", "codes"} |->
                            IF w.new[k] # w.saw[k] THEN w.new[k] ELSE factor[k]]
            BY <2>1, <3>1 DEF Factors
        <3>3. factor' = [on |-> IF w.new.on # w.saw.on THEN w.new.on ELSE factor.on,
                         secret |-> IF w.new.secret # w.saw.secret THEN w.new.secret
                                    ELSE factor.secret,
                         codes |-> IF w.new.codes # w.saw.codes THEN w.new.codes
                                   ELSE factor.codes]
            BY <3>2
        <3>. QED
            BY <2>1, <3>1, <3>3 DEF Factors, Team!Others
    <2>3. \A g \in Handlers : work'[g].at = "factor" => g # h /\ work'[g] = work[g]
        BY <2>1 DEF FactorInv
    <2>4. ASSUME ~blurred'
          PROVE  /\ factor'.on => factor'.secret = confirmed'
                 /\ factor'.codes \cap spent' = {}
                 /\ \A g \in Handlers : work'[g].at = "factor" => work'[g].saw = factor'
        <3>1. ~blurred /\ ~Team!Others(h, {"factor"})
            BY <2>1, <2>4
        <3>2. w.saw = factor /\ w.new \in Factors
            BY <2>1, <3>1 DEF FactorInv, FactorChange
        <3>3. factor' = w.new
            BY <2>1, <3>2 DEF Factors, FactorInv
        <3>4. \A g \in Handlers : work'[g].at # "factor"
            BY <2>3, <3>1 DEF Team!Others
        <3>5. /\ factor.on => factor.secret = confirmed
              /\ factor.codes \cap spent = {}
            BY <3>1 DEF FactorInv
        <3>6. CASE w.kind = "enroll"
            BY <2>1, <3>2, <3>3, <3>4, <3>5, <3>6, WorkspaceAssumption DEF FactorChange
        <3>7. CASE w.kind = "confirm"
            BY <2>1, <3>2, <3>3, <3>4, <3>5, <3>7, WorkspaceAssumption DEF FactorChange
        <3>8. CASE w.kind = "disable"
            BY <2>1, <3>2, <3>3, <3>4, <3>5, <3>8, WorkspaceAssumption DEF FactorChange
        <3>9. CASE w.kind \in Codes
            <4>1. w.new = [factor EXCEPT !.codes = @ \ {w.kind}]
                BY <2>1, <3>2, <3>9, WorkspaceAssumption DEF FactorChange
            <4>2. /\ factor'.on = factor.on /\ factor'.secret = factor.secret
                  /\ factor'.codes = factor.codes \ {w.kind}
                BY <3>3, <4>1 DEF FactorInv, Factors
            <4>3. confirmed' = confirmed /\ spent' = spent \cup {w.kind}
                BY <2>1, <3>9, WorkspaceAssumption
            <4>. QED
                BY <3>4, <3>5, <4>2, <4>3
        <3>. QED
            BY <2>1, <3>6, <3>7, <3>8, <3>9 DEF FactorChange
    <2>. QED
        BY <2>1, <2>2, <2>3, <2>4 DEF FactorInv
<1>6. ASSUME NEW h \in Handlers,
             \/ \E purpose \in Team!Purposes : Team!AskLink(h, purpose)
             \/ Team!MailLink(h)
             \/ \E i \in DOMAIN links : Team!Redeem(h, i)
      PROVE  FactorInv'
    BY <1>6, FactorIdle DEF Team!AskLink, Team!MailLink, Team!Redeem, FactorInv
<1>7. ASSUME NEW h \in Handlers,
             \/ \E o, p \in People, role \in {"admin", "member"} : Team!Invite(h, o, p, role)
             \/ Team!MailInvite(h) \/ Team!Join(h) \/ Team!Revoked(h) \/ Team!Removed(h)
             \/ \E i \in DOMAIN invites : Team!Accept(h, i) \/ Team!Revoke(h, i)
             \/ \E o, p \in People : Team!Remove(h, o, p)
      PROVE  FactorInv'
    BY <1>7, FactorIdle
       DEF Team!Invite, Team!MailInvite, Team!Join, Team!Revoked, Team!Removed, Team!Accept,
           Team!Revoke, Team!Remove, FactorInv
<1>8. ASSUME NEW h \in Handlers,
             \/ \E t \in Tools : Team!AddHost(h, t)
             \/ Team!VerifyHost(h) \/ Team!RemoveHost(h) \/ Team!Detach(h)
             \/ Team!InsertHost(h) \/ Team!SaveHost(h) \/ Team!DeleteHost(h)
             \/ Team!Refuse(h) \/ Team!Abandon(h)
      PROVE  FactorInv'
    BY <1>8, FactorIdle
       DEF Team!AddHost, Team!VerifyHost, Team!RemoveHost, Team!OnRow, Team!Detach,
           Team!InsertHost, Team!SaveHost, Team!DeleteHost,
           Team!Refuse, Team!GivesUp, Team!Abandon, FactorInv
<1>9. ASSUME NEW h \in Handlers, Team!Attach(h) PROVE FactorInv'
    <2>1. PICK status \in {"verified", "pending"} :
              work' = [work EXCEPT ![h] = [at |-> "inserting", tool |-> work[h].tool,
                                           status |-> status]]
        BY <1>9 DEF Team!Attach
    <2>. QED
        BY <1>9, <2>1, FactorIdle DEF Team!Attach, FactorInv
<1>10. ASSUME NEW h \in Handlers, Team!Answer(h) PROVE FactorInv'
    <2>1. PICK status \in {"verified", "pending", "error"} :
              work' = [work EXCEPT ![h] = [at |-> "saving", id |-> work[h].id,
                                           status |-> status]]
        BY <1>10 DEF Team!Answer
    <2>. QED
        BY <1>10, <2>1, FactorIdle DEF Team!Answer, FactorInv
<1>11. CASE UNCHANGED Team!vars
    BY <1>11 DEF Team!vars, Team!second, FactorInv
<1>. QED
    BY <1>1, <1>2, <1>3, <1>4, <1>5, <1>6, <1>7, <1>8, <1>9, <1>10, <1>11 DEF Team!Next

(* The requests see the factor as it is.                                    *)
LEMMA FactorHolds == Team!Spec => []FactorInv
BY FactorInit, FactorStep, PTL DEF Team!Spec

(* The factor is the one its owner confirmed, and a spent code is gone, unless*)
(* requests about it overlapped (auth/service.py).                          *)
LEMMA FactorIsKept == Team!Spec => []Team!FactorKept
<1>1. FactorInv => Team!FactorKept
    BY DEF FactorInv, Team!FactorKept
<1>. QED
    BY <1>1, FactorHolds, PTL

-----------------------------------------------------------------------------
(* Accounts: the team                                                        *)

(* Nothing is left by which p could come to the workspace of o.              *)
NoWayIn(o, p) ==
    /\ \A i \in DOMAIN invites :
          invites[i].by = o /\ invites[i].to = p => invites[i].revoked \/ i \in joined
    /\ \A g \in Handlers :
          /\ work[g].at = "inviting" => work[g].by # o \/ work[g].to # p
          /\ work[g].at = "accepting" =>
                invites[work[g].invite].by # o \/ invites[work[g].invite].to # p

(* What a request about the team knows, by the place where it is.            *)
TeamRequest(w) ==
    /\ w.at = "inviting" =>
          w.by \in People /\ w.to \in People /\ w.role \in {"admin", "member"} /\ w.seen \in Nat
    /\ w.at \in {"accepting", "revoking"} => w.invite \in DOMAIN invites
    /\ w.at = "removing" => w.by \in People /\ w.who \in People

(* Who was removed is out of the workspace, and has no way in.              *)
MemberInv ==
    /\ DOMAIN work = Handlers
    /\ \A h \in Handlers : TeamRequest(work[h])
    /\ invites \in Seq(InviteRows)
    /\ \A i \in joined : i \in DOMAIN invites /\ invites[i].accepted
    /\ person \in [People -> Persons]
    /\ \A p \in People : person[p].ws = Team!None => person[p].role = "owner"
    /\ out \subseteq People \X People
    /\ \A o, p \in People : <<o, p>> \in out => person[p].ws # o /\ NoWayIn(o, p)

(* Everybody is an owner at first, and nobody is invited.                   *)
LEMMA MemberInit == Team!Init => MemberInv
<1>1. SUFFICES ASSUME Team!Init PROVE MemberInv
    OBVIOUS
<1>2. /\ DOMAIN work = Handlers /\ \A h \in Handlers : work[h].at = "idle"
      /\ invites = <<>> /\ joined = {} /\ out = {}
      /\ person = [p \in People |-> [ws |-> Team!None, role |-> "owner"]]
    BY <1>1 DEF Team!Init, Team!Resting, Team!OwnWorkspace
<1>3. person \in [People -> Persons]
    BY <1>2 DEF Persons
<1>4. \A h \in Handlers : TeamRequest(work[h])
    BY <1>2 DEF TeamRequest
<1>. QED
    BY <1>2, <1>3, <1>4 DEF MemberInv

(* A request that is not about the team, or has none of its places, does not *)
(* disturb it.                                                               *)
LEMMA MemberIdle ==
    ASSUME MemberInv, NEW h \in Handlers, NEW w,
           w.at \notin {"inviting", "accepting", "revoking", "removing"},
           work' = [work EXCEPT ![h] = w], UNCHANGED Team!team
    PROVE  MemberInv'
BY DEF MemberInv, Team!team, TeamRequest, NoWayIn

(* The invitations are changed, none is added, and none that was revoked or  *)
(* accepted is so no more.                                                   *)
LEMMA InvitesMarked ==
    ASSUME MemberInv, NEW h \in Handlers, work' = [work EXCEPT ![h] = [at |-> "idle"]],
           UNCHANGED <<person, joined, out>>,
           invites' \in Seq(InviteRows), DOMAIN invites' = DOMAIN invites,
           \A i \in DOMAIN invites :
              /\ invites'[i].by = invites[i].by /\ invites'[i].to = invites[i].to
              /\ invites[i].accepted => invites'[i].accepted
              /\ invites[i].revoked => invites'[i].revoked
    PROVE  MemberInv'
<1>1. \A g \in Handlers : TeamRequest(work[g])'
    BY DEF MemberInv, TeamRequest
<1>2. \A o, p \in People : NoWayIn(o, p) => NoWayIn(o, p)'
    <2>1. \A g \in Handlers : work'[g].at # "idle" => work'[g] = work[g]
        BY DEF MemberInv
    <2>2. \A g \in Handlers : work[g].at = "accepting" => work[g].invite \in DOMAIN invites
        BY DEF MemberInv, TeamRequest
    <2>. QED
        BY <2>1, <2>2 DEF NoWayIn
<1>. QED
    BY <1>1, <1>2 DEF MemberInv

(* An invitation is a row.                                                  *)
LEMMA InvitesAreRows ==
    ASSUME MemberInv
    PROVE  /\ DOMAIN invites = 1..Len(invites) /\ Len(invites) \in Nat
           /\ \A i \in DOMAIN invites : invites[i] \in InviteRows
BY DEF MemberInv

(* Every step leaves those who were removed out, or invites them anew.      *)
LEMMA MemberStep == ASSUME MemberInv, [Team!Next]_(Team!vars) PROVE MemberInv'
<1> USE DEF Team!mail, Team!second, Team!host, Team!Does, Team!Begin, Team!End, Team!Resting
<1>1. ASSUME NEW h \in Handlers, NEW o \in People, NEW p \in People,
             NEW role \in {"admin", "member"}, Team!Invite(h, o, p, role)
      PROVE  MemberInv'
    <2>1. /\ work' = [work EXCEPT ![h] = [at |-> "inviting", by |-> o, to |-> p, role |-> role,
                                          seen |-> Len(invites)]]
          /\ out' = out \ {<<o, p>>}
          /\ UNCHANGED <<person, invites, joined>>
        BY <1>1 DEF Team!Invite
    <2>2. \A g \in Handlers : TeamRequest(work[g])'
        BY <2>1, InvitesAreRows DEF MemberInv, TeamRequest
    <2>3. ASSUME NEW q \in People, NEW r \in People, <<q, r>> \in out'
          PROVE  person'[r].ws # q /\ NoWayIn(q, r)'
        <3>1. <<q, r>> \in out /\ (q # o \/ r # p)
            BY <2>1, <2>3
        <3>2. person[r].ws # q /\ NoWayIn(q, r)
            BY <3>1 DEF MemberInv
        <3>. QED
            BY <2>1, <3>1, <3>2 DEF NoWayIn, MemberInv
    <2>. QED
        BY <2>1, <2>2, <2>3 DEF MemberInv
<1>2. ASSUME NEW h \in Handlers, Team!MailInvite(h) PROVE MemberInv'
    <2> DEFINE w == work[h]
               old == {i \in 1..w.seen : /\ invites[i].by = w.by /\ invites[i].to = w.to
                                         /\ Team!Pending(invites[i])}
               Kept == [i \in DOMAIN invites |->
                           [invites[i] EXCEPT !.revoked = @ \/ i \in old]]
               new == Team!NewInvite(w.by, w.to, w.role)
    <2>1. /\ w.at = "inviting"
          /\ invites' = Append(Kept, new)
          /\ work' = [work EXCEPT ![h] = [at |-> "idle"]]
          /\ UNCHANGED <<person, joined, out>>
        BY <1>2 DEF Team!MailInvite
    <2>2. /\ w.by \in People /\ w.to \in People /\ w.role \in {"admin", "member"}
          /\ TeamRequest(w)
        BY <2>1 DEF MemberInv, TeamRequest
    <2>3. new \in InviteRows /\ new.by = w.by /\ new.to = w.to
        BY <2>2 DEF Team!NewInvite, InviteRows
    <2>4. /\ \A i \in DOMAIN invites : Kept[i] \in InviteRows
          /\ \A i \in DOMAIN invites :
                /\ Kept[i].by = invites[i].by /\ Kept[i].to = invites[i].to
                /\ Kept[i].accepted = invites[i].accepted
                /\ invites[i].revoked => Kept[i].revoked
        <3>1. ASSUME NEW i \in DOMAIN invites
              PROVE  /\ Kept[i] \in InviteRows
                     /\ Kept[i].by = invites[i].by /\ Kept[i].to = invites[i].to
                     /\ Kept[i].accepted = invites[i].accepted
                     /\ invites[i].revoked => Kept[i].revoked
            <4>1. Kept[i] = [invites[i] EXCEPT !.revoked = @ \/ i \in old]
                OBVIOUS
            <4>2. invites[i] \in InviteRows
                BY InvitesAreRows
            <4>. HIDE DEF Kept, old
            <4>. QED
                BY <4>1, <4>2 DEF InviteRows
        <3>. QED
            BY <3>1
    <2>5. /\ invites' \in Seq(InviteRows)
          /\ DOMAIN invites' = 1..(Len(invites) + 1)
          /\ \A i \in 1..Len(invites) : invites'[i] = Kept[i]
          /\ invites'[Len(invites) + 1] = new
        <3>1. Kept \in [1..Len(invites) -> InviteRows]
            BY <2>4, InvitesAreRows
        <3>2. Kept \in Seq(InviteRows) /\ Len(Kept) = Len(invites)
            BY <3>1, InvitesAreRows
        <3>. HIDE DEF Kept, new
        <3>. QED
            BY <2>1, <2>3, <3>2, InvitesAreRows
    <2> HIDE DEF w, old, Kept, new
    <2>6. \A g \in Handlers : work'[g].at # "idle" => g # h /\ work'[g] = work[g]
        BY <2>1 DEF MemberInv
    <2>7. \A g \in Handlers : TeamRequest(work[g])'
        <3>1. \A g \in Handlers : work'[g].at \in {"accepting", "revoking"}
                  => work'[g].invite \in DOMAIN invites'
            BY <2>5, <2>6, InvitesAreRows DEF MemberInv, TeamRequest
        <3>. QED
            BY <2>6, <3>1 DEF MemberInv, TeamRequest
    <2>8. ASSUME NEW o \in People, NEW p \in People, <<o, p>> \in out
          PROVE  person[p].ws # o /\ NoWayIn(o, p)'
        <3>1. person[p].ws # o /\ NoWayIn(o, p)
            BY <2>8 DEF MemberInv
        <3>2. w.by # o \/ w.to # p
            BY <2>1, <3>1 DEF NoWayIn, w
        <3>3. \A i \in DOMAIN invites' :
                 invites'[i].by = o /\ invites'[i].to = p => invites'[i].revoked \/ i \in joined'
            BY <2>1, <2>3, <2>4, <2>5, <3>1, <3>2, InvitesAreRows DEF NoWayIn
        <3>4. \A g \in Handlers :
                 /\ work'[g].at = "inviting" => work'[g].by # o \/ work'[g].to # p
                 /\ work'[g].at = "accepting" =>
                       invites'[work'[g].invite].by # o \/ invites'[work'[g].invite].to # p
            <4>1. \A g \in Handlers : work[g].at = "accepting" => work[g].invite \in 1..Len(invites)
                BY InvitesAreRows DEF MemberInv, TeamRequest
            <4>. QED
                BY <2>4, <2>5, <2>6, <3>1, <4>1, InvitesAreRows DEF NoWayIn
        <3>. QED
            BY <3>1, <3>3, <3>4 DEF NoWayIn
    <2>9. \A i \in joined' : i \in DOMAIN invites' /\ invites'[i].accepted
        BY <2>1, <2>4, <2>5, InvitesAreRows DEF MemberInv
    <2>. QED
        BY <2>1, <2>5, <2>7, <2>8, <2>9 DEF MemberInv
<1>3. ASSUME NEW h \in Handlers, NEW i \in DOMAIN invites, Team!Accept(h, i) PROVE MemberInv'
    <2>1. /\ ~invites[i].accepted /\ ~invites[i].revoked
          /\ work' = [work EXCEPT ![h] = [at |-> "accepting", invite |-> i]]
          /\ UNCHANGED <<person, invites, joined, out>>
        BY <1>3 DEF Team!Accept, Team!Pending, Team!team
    <2>2. \A g \in Handlers : TeamRequest(work[g])'
        BY <2>1 DEF MemberInv, TeamRequest
    <2>3. ASSUME NEW o \in People, NEW p \in People, <<o, p>> \in out
          PROVE  NoWayIn(o, p)'
        <3>1. NoWayIn(o, p) /\ (invites[i].by # o \/ invites[i].to # p)
            BY <2>1, <2>3 DEF MemberInv, NoWayIn
        <3>. QED
            BY <2>1, <3>1 DEF NoWayIn, MemberInv
    <2>. QED
        BY <2>1, <2>2, <2>3 DEF MemberInv
<1>4. ASSUME NEW h \in Handlers, Team!Join(h) PROVE MemberInv'
    <2> DEFINE i == work[h].invite
               v == invites[i]
    <2>1. /\ work[h].at = "accepting"
          /\ person' = [person EXCEPT ![v.to] = [ws |-> v.by, role |-> v.role]]
          /\ invites' = [invites EXCEPT ![i] = [v EXCEPT !.accepted = TRUE]]
          /\ joined' = joined \cup {i} /\ out' = out
          /\ work' = [work EXCEPT ![h] = [at |-> "idle"]]
        BY <1>4 DEF Team!Join, Team!Accepted
    <2>2. i \in DOMAIN invites /\ v \in InviteRows
        BY <2>1, InvitesAreRows DEF MemberInv, TeamRequest
    <2>3. [v EXCEPT !.accepted = TRUE] \in InviteRows
        BY <2>2 DEF InviteRows
    <2>4. invites' \in Seq(InviteRows) /\ DOMAIN invites' = DOMAIN invites
        BY <2>1, <2>2, <2>3 DEF MemberInv
    <2>5. /\ invites'[i] = [v EXCEPT !.accepted = TRUE]
          /\ invites'[i].by = v.by /\ invites'[i].to = v.to /\ invites'[i].accepted
          /\ \A j \in DOMAIN invites \ {i} : invites'[j] = invites[j]
        BY <2>1, <2>2 DEF MemberInv, InviteRows
    <2>a. \A j \in DOMAIN invites : invites'[j].by = invites[j].by /\ invites'[j].to = invites[j].to
        BY <2>5
    <2>6. /\ v.to \in People /\ v.by \in People
          /\ [ws |-> v.by, role |-> v.role] \in Persons
          /\ v.by # Team!None
        BY <2>2, WorkspaceAssumption DEF InviteRows, Persons
    <2>7. /\ person' \in [People -> Persons]
          /\ \A p \in People : person'[p].ws = Team!None => person'[p].role = "owner"
        BY <2>1, <2>6 DEF MemberInv
    <2> HIDE DEF i, v
    <2>8. \A g \in Handlers : work'[g].at # "idle" => work'[g] = work[g]
        BY <2>1 DEF MemberInv
    <2>9. \A g \in Handlers : TeamRequest(work[g])'
        BY <2>4, <2>8 DEF MemberInv, TeamRequest
    <2>10. ASSUME NEW o \in People, NEW p \in People, <<o, p>> \in out
           PROVE  person'[p].ws # o /\ NoWayIn(o, p)'
        <3>1. person[p].ws # o /\ NoWayIn(o, p)
            BY <2>10 DEF MemberInv
        <3>2. v.by # o \/ v.to # p
            BY <2>1, <3>1 DEF NoWayIn, i, v
        <3>3. person'[p].ws # o
            BY <2>1, <2>6, <3>1, <3>2 DEF MemberInv
        <3>4. \A j \in DOMAIN invites' :
                 invites'[j].by = o /\ invites'[j].to = p => invites'[j].revoked \/ j \in joined'
            BY <2>1, <2>4, <2>5, <3>1 DEF NoWayIn
        <3>5. \A g \in Handlers : work[g].at = "accepting" => work[g].invite \in DOMAIN invites
            BY DEF MemberInv, TeamRequest
        <3>6. \A g \in Handlers :
                 /\ work'[g].at = "inviting" => work'[g].by # o \/ work'[g].to # p
                 /\ work'[g].at = "accepting" =>
                       invites'[work'[g].invite].by # o \/ invites'[work'[g].invite].to # p
            BY <2>8, <2>a, <3>1, <3>5 DEF NoWayIn
        <3>. QED
            BY <3>3, <3>4, <3>6 DEF NoWayIn
    <2>11. \A j \in joined' : j \in DOMAIN invites' /\ invites'[j].accepted
        BY <2>1, <2>2, <2>4, <2>5 DEF MemberInv
    <2>. QED
        BY <2>1, <2>4, <2>7, <2>9, <2>10, <2>11 DEF MemberInv
<1>5. ASSUME NEW h \in Handlers, NEW i \in DOMAIN invites, Team!Revoke(h, i) PROVE MemberInv'
    <2>1. /\ work' = [work EXCEPT ![h] = [at |-> "revoking", invite |-> i]]
          /\ UNCHANGED <<person, invites, joined, out>>
        BY <1>5 DEF Team!Revoke, Team!team
    <2>. QED
        BY <2>1 DEF MemberInv, TeamRequest, NoWayIn
<1>6. ASSUME NEW h \in Handlers, Team!Revoked(h) PROVE MemberInv'
    <2> DEFINE i == work[h].invite
    <2>1. /\ work[h].at = "revoking"
          /\ invites' = [invites EXCEPT ![i].revoked = TRUE]
          /\ work' = [work EXCEPT ![h] = [at |-> "idle"]]
          /\ UNCHANGED <<person, joined, out>>
        BY <1>6 DEF Team!Revoked
    <2>2. i \in DOMAIN invites /\ invites[i] \in InviteRows
        BY <2>1, InvitesAreRows DEF MemberInv, TeamRequest
    <2>3. [invites[i] EXCEPT !.revoked = TRUE] \in InviteRows
        BY <2>2 DEF InviteRows
    <2>4. invites' \in Seq(InviteRows) /\ DOMAIN invites' = DOMAIN invites
        BY <2>1, <2>2, <2>3 DEF MemberInv
    <2>5. \A j \in DOMAIN invites :
             /\ invites'[j].by = invites[j].by /\ invites'[j].to = invites[j].to
             /\ invites[j].accepted => invites'[j].accepted
             /\ invites[j].revoked => invites'[j].revoked
        BY <2>1, <2>2, InvitesAreRows DEF InviteRows
    <2>. QED
        BY <2>1, <2>4, <2>5, InvitesMarked
<1>7. ASSUME NEW h \in Handlers, NEW o \in People, NEW p \in People, Team!Remove(h, o, p)
      PROVE  MemberInv'
    <2>1. /\ work' = [work EXCEPT ![h] = [at |-> "removing", by |-> o, who |-> p]]
          /\ UNCHANGED <<person, invites, joined, out>>
        BY <1>7 DEF Team!Remove, Team!team
    <2>. QED
        BY <2>1 DEF MemberInv, TeamRequest, NoWayIn
<1>8. ASSUME NEW h \in Handlers, Team!Removed(h) PROVE MemberInv'
    <2> DEFINE w == work[h]
    <2>1. /\ w.at = "removing"
          /\ person' = [person EXCEPT ![w.who] = Team!OwnWorkspace]
          /\ out' = IF Team!Settled(h, w.by, w.who) THEN out \cup {<<w.by, w.who>>} ELSE out
          /\ work' = [work EXCEPT ![h] = [at |-> "idle"]]
          /\ UNCHANGED <<invites, joined>>
        BY <1>8 DEF Team!Removed
    <2>2. w.by \in People /\ w.who \in People
        BY <2>1 DEF MemberInv, TeamRequest
    <2> HIDE DEF w
    <2>3. /\ Team!OwnWorkspace \in Persons /\ Team!OwnWorkspace.ws = Team!None
          /\ Team!OwnWorkspace.role = "owner"
        BY DEF Team!OwnWorkspace, Persons
    <2>4. /\ person' \in [People -> Persons]
          /\ \A p \in People : person'[p].ws = Team!None => person'[p].role = "owner"
          /\ \A p \in People : person'[p].ws \in {person[p].ws, Team!None}
          /\ person'[w.who].ws = Team!None
        BY <2>1, <2>2, <2>3 DEF MemberInv
    <2>5. \A g \in Handlers : TeamRequest(work[g])'
        BY <2>1 DEF MemberInv, TeamRequest
    <2>6. \A g \in Handlers : work'[g].at # "idle" => g # h /\ work'[g] = work[g]
        BY <2>1 DEF MemberInv
    <2>7. ASSUME NEW o \in People, NEW p \in People, <<o, p>> \in out'
          PROVE  person'[p].ws # o /\ NoWayIn(o, p)'
        <3>1. o # Team!None
            BY WorkspaceAssumption
        <3>2. CASE <<o, p>> \in out
            BY <2>1, <2>4, <2>6, <3>1, <3>2 DEF MemberInv, NoWayIn
        <3>3. CASE <<o, p>> \notin out
            <4>1. o = w.by /\ p = w.who /\ Team!Settled(h, o, p)
                BY <2>1, <2>7, <3>3
            <4>2. NoWayIn(o, p)'
                BY <2>1, <2>6, <4>1 DEF Team!Settled, NoWayIn
            <4>. QED
                BY <2>4, <3>1, <4>1, <4>2
        <3>. QED
            BY <3>2, <3>3
    <2>8. out' \subseteq People \X People
        BY <2>1, <2>2 DEF MemberInv
    <2>. QED
        BY <2>1, <2>4, <2>5, <2>7, <2>8 DEF MemberInv
<1>9. ASSUME NEW h \in Handlers,
             \/ \E purpose \in Team!Purposes : Team!AskLink(h, purpose)
             \/ Team!MailLink(h)
             \/ \E i \in DOMAIN links : Team!Redeem(h, i)
             \/ Team!Enroll(h) \/ Team!Confirm(h) \/ Team!Disable(h) \/ Team!CommitFactor(h)
             \/ \E c \in Codes : Team!SpendCode(h, c)
      PROVE  MemberInv'
    BY <1>9, MemberIdle
       DEF Team!AskLink, Team!MailLink, Team!Redeem, Team!Enroll, Team!Confirm, Team!Disable,
           Team!CommitFactor, Team!SpendCode, Team!AskFactor
<1>10. ASSUME NEW h \in Handlers,
             \/ \E t \in Tools : Team!AddHost(h, t)
             \/ Team!VerifyHost(h) \/ Team!RemoveHost(h) \/ Team!Detach(h)
             \/ Team!InsertHost(h) \/ Team!SaveHost(h) \/ Team!DeleteHost(h)
             \/ Team!Refuse(h) \/ Team!Abandon(h)
      PROVE  MemberInv'
    BY <1>10, MemberIdle
       DEF Team!AddHost, Team!VerifyHost, Team!RemoveHost, Team!OnRow, Team!Detach,
           Team!InsertHost, Team!SaveHost, Team!DeleteHost,
           Team!Refuse, Team!GivesUp, Team!Abandon
<1>11. ASSUME NEW h \in Handlers, Team!Attach(h) PROVE MemberInv'
    <2>1. PICK status \in {"verified", "pending"} :
              work' = [work EXCEPT ![h] = [at |-> "inserting", tool |-> work[h].tool,
                                           status |-> status]]
        BY <1>11 DEF Team!Attach
    <2>. QED
        BY <1>11, <2>1, MemberIdle DEF Team!Attach
<1>12. ASSUME NEW h \in Handlers, Team!Answer(h) PROVE MemberInv'
    <2>1. PICK status \in {"verified", "pending", "error"} :
              work' = [work EXCEPT ![h] = [at |-> "saving", id |-> work[h].id,
                                           status |-> status]]
        BY <1>12 DEF Team!Answer
    <2>. QED
        BY <1>12, <2>1, MemberIdle DEF Team!Answer
<1>13. CASE UNCHANGED Team!vars
    BY <1>13 DEF Team!vars, Team!team, MemberInv, TeamRequest, NoWayIn
<1>. QED
    BY <1>1, <1>2, <1>3, <1>4, <1>5, <1>6, <1>7, <1>8, <1>9, <1>10, <1>11, <1>12, <1>13
       DEF Team!Next

(* Those who were removed have no way in.                                   *)
LEMMA MemberHolds == Team!Spec => []MemberInv
BY MemberInit, MemberStep, PTL DEF Team!Spec

(* Who was removed from a team stays out, and owns a workspace of his own   *)
(* (users/service.py, team).                                                *)
LEMMA RemovedOut == Team!Spec => []Team!RemovedStaysOut
<1>1. ASSUME MemberInv PROVE Team!RemovedStaysOut
    <2>1. ASSUME NEW pair \in out
          PROVE  /\ person[pair[2]].ws # pair[1]
                 /\ person[pair[2]].ws = Team!None => person[pair[2]].role = "owner"
        <3>1. PICK o \in People, p \in People : pair = <<o, p>>
            BY <1>1, <2>1 DEF MemberInv
        <3>. QED
            BY <1>1, <2>1, <3>1 DEF MemberInv
    <2>. QED
        BY <2>1 DEF Team!RemovedStaysOut
<1>. QED
    BY <1>1, MemberHolds, PTL

-----------------------------------------------------------------------------
(* Accounts: the host name                                                   *)

(* The columns of the host name.                                            *)
HostStatus == {"verified", "pending", "error"}
HostRows == [id : Nat, tool : Tools, status : HostStatus]

(* What a request about the host name knows, by the place where it is.       *)
HostRequest(w) ==
    /\ w.at \in {"attaching", "inserting", "detaching"} => w.tool \in Tools
    /\ w.at \in {"inserting", "saving"} => w.status \in HostStatus

(* While no two overlapped and none was lost, those under way have seen the  *)
(* row as it is, and the provider is ahead of it only by one of them.        *)
InStep ==
    /\ \A h \in Handlers :
          /\ work[h].at \in {"attaching", "inserting"} => row = Team!NoRow
          /\ work[h].at = "inserting" => attached = work[h].tool
          /\ work[h].at \in {"asking", "saving", "detaching", "deleting"} =>
                row # Team!NoRow /\ row.id = work[h].id
          /\ work[h].at = "detaching" => row.tool = work[h].tool
          /\ work[h].at = "deleting" => attached = Team!None
    /\ Team!Agrees \/ \E h \in Handlers : work[h].at \in {"inserting", "deleting"}

(* The row and the provider, and how far apart they are.                    *)
HostInv ==
    /\ DOMAIN work = Handlers
    /\ requests \in Nat
    /\ row \in HostRows \cup {Team!NoRow}
    /\ attached \in Tools \cup {Team!None}
    /\ troubled \in BOOLEAN
    /\ \A h \in Handlers : HostRequest(work[h])
    /\ ~troubled => InStep

(* The row that is not there is no row.                                     *)
LEMMA HostRowThere == Team!NoRow \notin HostRows
<1>1. SUFFICES ASSUME NEW r \in HostRows, r = Team!NoRow PROVE FALSE
    OBVIOUS
<1>2. DOMAIN r = {"id", "tool", "status"}
    BY DEF HostRows
<1>3. DOMAIN Team!NoRow = {"id"}
    BY DEF Team!NoRow
<1>. QED
    BY <1>1, <1>2, <1>3

(* Nobody has the host name at first.                                       *)
LEMMA HostInit == Team!Init => HostInv
<1>1. SUFFICES ASSUME Team!Init PROVE HostInv
    OBVIOUS
<1>2. /\ DOMAIN work = Handlers /\ \A h \in Handlers : work[h].at = "idle"
      /\ row = Team!NoRow /\ attached = Team!None /\ troubled = FALSE /\ requests = 0
    BY <1>1 DEF Team!Init, Team!Resting
<1>. QED
    BY <1>2 DEF HostInv, HostRequest, InStep, Team!Agrees

(* A request that is not about the host name does not disturb it.            *)
LEMMA HostIdle ==
    ASSUME HostInv, NEW h \in Handlers, NEW w,
           w.at \notin Team!HostStages, work[h].at \notin Team!HostStages,
           work' = [work EXCEPT ![h] = w], requests' \in Nat, UNCHANGED Team!host
    PROVE  HostInv'
<1>1. /\ UNCHANGED <<row, attached, troubled>>
      /\ \A g \in Handlers :
            work'[g].at \in Team!HostStages => g # h /\ work'[g] = work[g]
      /\ \A g \in Handlers : g # h => work'[g] = work[g]
    BY DEF HostInv, Team!host
<1>2. \A g \in Handlers : HostRequest(work[g])'
    BY <1>1 DEF HostInv, HostRequest, Team!HostStages
<1>3. Team!Agrees' = Team!Agrees
    BY <1>1 DEF Team!Agrees
<1>4. InStep => InStep'
    <2>1. ASSUME NEW g \in Handlers, work[g].at \in {"inserting", "deleting"}
          PROVE  work'[g].at \in {"inserting", "deleting"}
        BY <1>1, <2>1 DEF Team!HostStages
    <2>. QED
        BY <1>1, <1>3, <2>1 DEF InStep, Team!HostStages
<1>. QED
    BY <1>1, <1>2, <1>4 DEF HostInv

(* A commit leaves the two in step if it brings them together, and nobody    *)
(* else is at the host name.                                                 *)
LEMMA HostCommit ==
    ASSUME HostInv, NEW h \in Handlers, Team!Mend(h), Team!End(h),
           row' \in HostRows \cup {Team!NoRow}, attached' = attached,
           ~troubled /\ ~Team!Others(h, Team!HostStages) => Team!Agrees'
    PROVE  HostInv'
<1>1. /\ work' = [work EXCEPT ![h] = [at |-> "idle"]] /\ requests' = requests
      /\ troubled' = (Team!Others(h, Team!HostStages) \/ (troubled /\ ~Team!Agrees'))
    BY DEF Team!Mend, Team!End, Team!Does, Team!Resting
<1>2. \A g \in Handlers : work'[g].at # "idle" => g # h /\ work'[g] = work[g]
    BY <1>1 DEF HostInv
<1>3. \A g \in Handlers : HostRequest(work[g])'
    BY <1>2 DEF HostInv, HostRequest
<1>4. ASSUME ~troubled' PROVE InStep'
    <2>1. ~Team!Others(h, Team!HostStages) /\ Team!Agrees'
        BY <1>1, <1>4
    <2>2. \A g \in Handlers : work'[g].at \notin Team!HostStages
        BY <1>2, <2>1 DEF Team!Others, Team!HostStages
    <2>. QED
        BY <2>1, <2>2 DEF InStep, Team!HostStages
<1>5. troubled' \in BOOLEAN
    BY <1>1
<1>. QED
    BY <1>1, <1>3, <1>4, <1>5 DEF HostInv

(* Every step leaves the row and the provider one request apart at most.    *)
LEMMA HostStep == ASSUME HostInv, [Team!Next]_(Team!vars) PROVE HostInv'
<1> USE DEF Team!mail, Team!second, Team!team, Team!Does, Team!Begin, Team!Resting
<1>1. ASSUME NEW h \in Handlers, NEW t \in Tools, Team!AddHost(h, t) PROVE HostInv'
    <2>1. /\ row = Team!NoRow /\ work[h].at = "idle"
          /\ work' = [work EXCEPT ![h] = [at |-> "attaching", tool |-> t]]
          /\ requests' = requests + 1 /\ UNCHANGED <<row, attached, troubled>>
        BY <1>1 DEF Team!AddHost, Team!host
    <2>2. \A g \in Handlers : HostRequest(work[g])'
        BY <2>1 DEF HostInv, HostRequest
    <2>3. InStep => InStep'
        BY <2>1 DEF HostInv, InStep, Team!Agrees
    <2>. QED
        BY <2>1, <2>2, <2>3 DEF HostInv
<1>2. ASSUME NEW h \in Handlers, NEW stage \in {"asking", "detaching"}, Team!OnRow(h, stage)
      PROVE  HostInv'
    <2>1. /\ row # Team!NoRow /\ work[h].at = "idle"
          /\ work' = [work EXCEPT ![h] = [at |-> stage, id |-> row.id, tool |-> row.tool]]
          /\ requests' = requests + 1 /\ UNCHANGED <<row, attached, troubled>>
        BY <1>2 DEF Team!OnRow, Team!host
    <2>2. row.tool \in Tools
        BY <2>1 DEF HostInv, HostRows
    <2>3. \A g \in Handlers : HostRequest(work[g])'
        BY <2>1, <2>2 DEF HostInv, HostRequest
    <2>4. InStep => InStep'
        BY <2>1 DEF HostInv, InStep, Team!Agrees
    <2>. QED
        BY <2>1, <2>3, <2>4 DEF HostInv
<1>3. ASSUME NEW h \in Handlers, Team!Attach(h) PROVE HostInv'
    <2>1. PICK status \in {"verified", "pending"} :
              work' = [work EXCEPT ![h] = [at |-> "inserting", tool |-> work[h].tool,
                                           status |-> status]]
        BY <1>3 DEF Team!Attach
    <2>2. /\ work[h].at = "attaching" /\ attached \in {Team!None, work[h].tool}
          /\ attached' = work[h].tool
          /\ UNCHANGED <<row, troubled, requests>>
        BY <1>3 DEF Team!Attach
    <2>3. work[h].tool \in Tools
        BY <2>2 DEF HostInv, HostRequest
    <2>4. \A g \in Handlers : HostRequest(work[g])'
        BY <2>1, <2>3 DEF HostInv, HostRequest, HostStatus
    <2>5. ASSUME InStep PROVE InStep'
        <3>1. row = Team!NoRow
            BY <2>2, <2>5 DEF InStep
        <3>2. ASSUME NEW g \in Handlers, work[g].at = "inserting"
              PROVE  work[g].tool = work[h].tool
            BY <2>2, <2>5, <3>2, WorkspaceAssumption DEF InStep, HostInv, HostRequest
        <3>3. work'[h].at = "inserting"
            BY <2>1 DEF HostInv
        <3>. QED
            BY <2>1, <2>2, <2>5, <3>1, <3>2, <3>3 DEF InStep, HostInv
    <2>. QED
        BY <2>1, <2>2, <2>3, <2>4, <2>5 DEF HostInv
<1>4. ASSUME NEW h \in Handlers, Team!InsertHost(h) PROVE HostInv'
    <2>1. /\ work[h].at = "inserting" /\ attached' = attached
          /\ row' = IF row = Team!NoRow THEN Team!NewHost(work[h].tool, work[h].status) ELSE row
          /\ Team!Mend(h) /\ Team!End(h)
        BY <1>4 DEF Team!InsertHost
    <2>2. /\ Team!NewHost(work[h].tool, work[h].status) \in HostRows
          /\ Team!NewHost(work[h].tool, work[h].status).tool = work[h].tool
        BY <2>1 DEF HostInv, HostRequest, Team!NewHost, HostRows
    <2>3. ASSUME ~troubled PROVE Team!Agrees'
        <3>1. row = Team!NoRow /\ attached = work[h].tool
            BY <2>1, <2>3 DEF HostInv, InStep
        <3>. QED
            BY <2>1, <2>2, <3>1, HostRowThere DEF Team!Agrees
    <2>. QED
        BY <2>1, <2>2, <2>3, HostCommit DEF HostInv
<1>5. ASSUME NEW h \in Handlers, Team!Answer(h) PROVE HostInv'
    <2>1. PICK status \in {"verified", "pending", "error"} :
              work' = [work EXCEPT ![h] = [at |-> "saving", id |-> work[h].id,
                                           status |-> status]]
        BY <1>5 DEF Team!Answer
    <2>2. work[h].at = "asking" /\ UNCHANGED <<row, attached, troubled, requests>>
        BY <1>5 DEF Team!Answer, Team!host
    <2>3. \A g \in Handlers : HostRequest(work[g])'
        BY <2>1 DEF HostInv, HostRequest, HostStatus
    <2>4. InStep => InStep'
        BY <2>1, <2>2 DEF InStep, HostInv, Team!Agrees
    <2>. QED
        BY <2>1, <2>2, <2>3, <2>4 DEF HostInv
<1>6. ASSUME NEW h \in Handlers, Team!SaveHost(h) PROVE HostInv'
    <2>1. /\ work[h].at = "saving" /\ attached' = attached
          /\ row' = IF row.id = work[h].id THEN [row EXCEPT !.status = work[h].status] ELSE row
          /\ Team!Mend(h) /\ Team!End(h)
        BY <1>6 DEF Team!SaveHost
    <2>2. work[h].status \in HostStatus
        BY <2>1 DEF HostInv, HostRequest
    <2>3. /\ row = Team!NoRow => row' = row
          /\ row # Team!NoRow => row' \in HostRows /\ row'.tool = row.tool
        <3>1. CASE row = Team!NoRow
            BY <2>1, <3>1 DEF Team!NoRow
        <3>2. CASE row # Team!NoRow
            <4>1. row \in HostRows
                BY <3>2 DEF HostInv
            <4>. QED
                BY <2>1, <2>2, <3>2, <4>1 DEF HostRows
        <3>. QED
            BY <3>1, <3>2
    <2>4. ASSUME ~troubled, ~Team!Others(h, Team!HostStages) PROVE Team!Agrees'
        <3>1. InStep
            BY <2>4 DEF HostInv
        <3>2. \A g \in Handlers : work[g].at \notin {"inserting", "deleting"}
            BY <2>1, <2>4 DEF Team!Others, Team!HostStages
        <3>3. Team!Agrees /\ row # Team!NoRow
            BY <2>1, <3>1, <3>2 DEF InStep
        <3>. QED
            BY <2>1, <2>3, <3>3, HostRowThere DEF Team!Agrees
    <2>5. row' \in HostRows \cup {Team!NoRow}
        BY <2>3
    <2>. QED
        BY <2>1, <2>4, <2>5, HostCommit
<1>7. ASSUME NEW h \in Handlers, Team!Detach(h) PROVE HostInv'
    <2>1. /\ work[h].at = "detaching"
          /\ attached' = IF attached = work[h].tool THEN Team!None ELSE attached
          /\ work' = [work EXCEPT ![h] = [at |-> "deleting", id |-> work[h].id]]
          /\ UNCHANGED <<row, troubled, requests>>
        BY <1>7 DEF Team!Detach
    <2>2. \A g \in Handlers : HostRequest(work[g])'
        BY <2>1 DEF HostInv, HostRequest
    <2>3. ASSUME InStep PROVE InStep'
        <3>1. row # Team!NoRow /\ row.id = work[h].id /\ row.tool = work[h].tool
            BY <2>1, <2>3 DEF InStep
        <3>2. attached \in {row.tool, Team!None}
            BY <2>3, <3>1 DEF InStep, Team!Agrees
        <3>3. attached' = Team!None
            BY <2>1, <3>1, <3>2
        <3>4. work'[h].at = "deleting" /\ work'[h].id = work[h].id
            BY <2>1 DEF HostInv
        <3>5. \A g \in Handlers : g # h => work'[g] = work[g]
            BY <2>1 DEF HostInv
        <3>. QED
            BY <2>1, <2>3, <3>1, <3>3, <3>4, <3>5 DEF InStep
    <2>4. attached' \in Tools \cup {Team!None}
        BY <2>1 DEF HostInv
    <2>. QED
        BY <2>1, <2>2, <2>3, <2>4 DEF HostInv
<1>8. ASSUME NEW h \in Handlers, Team!DeleteHost(h) PROVE HostInv'
    <2>1. /\ work[h].at = "deleting" /\ attached' = attached
          /\ row' = IF row.id = work[h].id THEN Team!NoRow ELSE row
          /\ Team!Mend(h) /\ Team!End(h)
        BY <1>8 DEF Team!DeleteHost
    <2>2. ASSUME ~troubled PROVE Team!Agrees'
        <3>1. row.id = work[h].id /\ attached = Team!None
            BY <2>1, <2>2 DEF HostInv, InStep
        <3>. QED
            BY <2>1, <3>1 DEF Team!Agrees
    <2>3. row' \in HostRows \cup {Team!NoRow}
        BY <2>1 DEF HostInv
    <2>. QED
        BY <2>1, <2>2, <2>3, HostCommit
<1>9. ASSUME NEW h \in Handlers, Team!Refuse(h) PROVE HostInv'
    <2>1. /\ work[h].at \in {"attaching", "detaching"}
          /\ work' = [work EXCEPT ![h] = [at |-> "idle"]]
          /\ UNCHANGED <<row, attached, troubled, requests>>
        BY <1>9 DEF Team!Refuse, Team!GivesUp, Team!host
    <2>2. \A g \in Handlers : HostRequest(work[g])'
        BY <2>1 DEF HostInv, HostRequest
    <2>3. InStep => InStep'
        BY <2>1 DEF InStep, HostInv, Team!Agrees
    <2>. QED
        BY <2>1, <2>2, <2>3 DEF HostInv
<1>10. ASSUME NEW h \in Handlers, Team!Abandon(h) PROVE HostInv'
    <2>1. /\ work' = [work EXCEPT ![h] = [at |-> "idle"]]
          /\ troubled' = (troubled \/ (work[h].at \in {"inserting", "deleting"} /\ ~Team!Agrees))
          /\ UNCHANGED <<row, attached, requests>>
        BY <1>10 DEF Team!Abandon, Team!End
    <2>2. \A g \in Handlers : HostRequest(work[g])'
        BY <2>1 DEF HostInv, HostRequest
    <2>3. ASSUME InStep, ~troubled' PROVE InStep'
        <3>1. \A g \in Handlers : work'[g].at # "idle" => g # h /\ work'[g] = work[g]
            BY <2>1 DEF HostInv
        <3>2. Team!Agrees' = Team!Agrees
            BY <2>1 DEF Team!Agrees
        <3>3. Team!Agrees \/ \E g \in Handlers \ {h} : work[g].at \in {"inserting", "deleting"}
            BY <2>1, <2>3 DEF InStep
        <3>4. Team!Agrees' \/ \E g \in Handlers : work'[g].at \in {"inserting", "deleting"}
            BY <2>1, <3>2, <3>3 DEF HostInv
        <3>. QED
            BY <2>1, <2>3, <3>1, <3>4 DEF InStep
    <2>4. troubled' \in BOOLEAN /\ (~troubled' => ~troubled)
        BY <2>1 DEF HostInv
    <2>. QED
        BY <2>1, <2>2, <2>3, <2>4 DEF HostInv
<1>11. ASSUME NEW h \in Handlers,
             \/ \E purpose \in Team!Purposes : Team!AskLink(h, purpose)
             \/ Team!MailLink(h)
             \/ \E i \in DOMAIN links : Team!Redeem(h, i)
             \/ Team!Enroll(h) \/ Team!Confirm(h) \/ Team!Disable(h) \/ Team!CommitFactor(h)
             \/ \E c \in Codes : Team!SpendCode(h, c)
      PROVE  HostInv'
    BY <1>11, HostIdle
       DEF Team!AskLink, Team!MailLink, Team!Redeem, Team!Enroll, Team!Confirm, Team!Disable,
           Team!CommitFactor, Team!SpendCode, Team!AskFactor, Team!End, Team!HostStages, HostInv
<1>12. ASSUME NEW h \in Handlers,
             \/ \E o, p \in People, role \in {"admin", "member"} : Team!Invite(h, o, p, role)
             \/ Team!MailInvite(h) \/ Team!Join(h) \/ Team!Revoked(h) \/ Team!Removed(h)
             \/ \E i \in DOMAIN invites : Team!Accept(h, i) \/ Team!Revoke(h, i)
             \/ \E o, p \in People : Team!Remove(h, o, p)
      PROVE  HostInv'
    BY <1>12, HostIdle
       DEF Team!Invite, Team!MailInvite, Team!Join, Team!Revoked, Team!Removed, Team!Accept,
           Team!Revoke, Team!Remove, Team!End, Team!HostStages, HostInv
<1>13. CASE UNCHANGED Team!vars
    BY <1>13 DEF Team!vars, Team!host, HostInv, HostRequest, InStep, Team!Agrees
<1>. QED
    BY <1>1, <1>2, <1>3, <1>4, <1>5, <1>6, <1>7, <1>8, <1>9, <1>10, <1>11, <1>12, <1>13
       DEF Team!Next, Team!VerifyHost, Team!RemoveHost

(* The row and the provider are one request apart at most.                  *)
LEMMA HostHolds == Team!Spec => []HostInv
BY HostInit, HostStep, PTL DEF Team!Spec

(* The row and the provider agree once no request is under way, unless      *)
(* requests overlapped or one was lost (hosting domains).                   *)
LEMMA HostsInStep == Team!Spec => []Team!HostsAgree
<1>1. HostInv => Team!HostsAgree
    BY DEF HostInv, InStep, Team!HostsAgree, Team!HostStages
<1>. QED
    BY <1>1, HostHolds, PTL

-----------------------------------------------------------------------------
(* Sessions: the account and its tokens                                      *)

(* The columns of an account.                                               *)
Hashes == [of : Passwords \cup {Auth!Random}, weak : BOOLEAN, salt : Nat]
UserRows == [id : Int \ {0}, hash : Hashes, google : BOOLEAN]
MaybeRows == UserRows \cup {Auth!NoAccount}

(* What a request about to commit has made of the row that it read.          *)
AccountChange(w, n) ==
    /\ w.saw \in MaybeRows /\ w.new \in MaybeRows
    /\ w.signs \in BOOLEAN /\ w.sets \in BOOLEAN
    /\ w.new # Auth!NoAccount => w.new.hash.salt <= n
    /\ w.saw = Auth!NoAccount => w.new # Auth!NoAccount /\ w.sets
    /\ w.new = Auth!NoAccount => ~w.sets
    /\ w.saw # Auth!NoAccount /\ w.new # Auth!NoAccount =>
          /\ w.new.id = w.saw.id
          /\ IF w.sets THEN w.new.hash # w.saw.hash ELSE w.new.hash.of = w.saw.hash.of

(* The row, and what the requests about to commit will make of it.          *)
AccountInv ==
    /\ DOMAIN doing = Handlers
    /\ asked \in Nat
    /\ account \in MaybeRows
    /\ account # Auth!NoAccount => account.hash.salt <= asked
    /\ mixed \in BOOLEAN
    /\ \A h \in Handlers : doing[h].at = "saving" => AccountChange(doing[h], asked)
    /\ account # Auth!NoAccount /\ ~mixed => account.hash.of = chosen

(* The row that is not there is no row, and has an identifier of its own.   *)
LEMMA UserRowThere ==
    /\ Auth!NoAccount \notin UserRows /\ Auth!NoAccount.id = 0
    /\ \A r \in MaybeRows : r.id \in Int /\ (r.id = 0 <=> r = Auth!NoAccount)
BY DEF UserRows, MaybeRows, Auth!NoAccount

(* The password of an account is known at first.                            *)
LEMMA AccountInit == Auth!Init => AccountInv
<1>1. SUFFICES ASSUME Auth!Init PROVE AccountInv
    OBVIOUS
<1>2. /\ DOMAIN doing = Handlers /\ \A h \in Handlers : doing[h].at = "idle"
      /\ asked = 0 /\ mixed = FALSE
    BY <1>1 DEF Auth!Init, Auth!Resting
<1>3. CASE account = Auth!NoAccount
    BY <1>2, <1>3 DEF AccountInv, MaybeRows
<1>4. CASE account # Auth!NoAccount
    <2>1. PICK p \in Passwords :
              account = [id |-> -1, hash |-> [of |-> p, weak |-> TRUE, salt |-> 0], google |-> FALSE]
        BY <1>1, <1>4 DEF Auth!Init
    <2>2. account \in UserRows /\ account.hash.salt = 0
        <3>1. [of |-> p, weak |-> TRUE, salt |-> 0] \in Hashes
            BY DEF Hashes
        <3>. QED
            BY <2>1, <3>1 DEF UserRows
    <2>3. chosen = account.hash.of
        BY <1>1, <1>4 DEF Auth!Init
    <2>. QED
        <3>1. account.hash.salt <= asked
            BY <1>2, <2>2
        <3>. QED
            BY <1>2, <2>2, <2>3, <3>1 DEF AccountInv, MaybeRows
<1>. QED
    BY <1>3, <1>4

(* A request that is not about to commit the row does not disturb it.        *)
LEMMA AccountIdle ==
    ASSUME AccountInv, NEW h \in Handlers, NEW w, w.at # "saving",
           doing' = [doing EXCEPT ![h] = w], asked' \in Nat, asked' >= asked, UNCHANGED Auth!row
    PROVE  AccountInv'
<1>1. UNCHANGED <<account, chosen, mixed>>
    BY DEF Auth!row
<1>2. \A g \in Handlers : doing'[g].at = "saving" => doing'[g] = doing[g]
    BY DEF AccountInv
<1>3. \A r \in UserRows : r.hash.salt \in Nat
    BY DEF UserRows, Hashes
<1>4. ASSUME NEW g \in Handlers, AccountChange(doing[g], asked), doing'[g] = doing[g]
      PROVE  AccountChange(doing'[g], asked')
    BY <1>3, <1>4 DEF AccountChange, AccountInv, MaybeRows
<1>5. account # Auth!NoAccount => account.hash.salt <= asked'
    BY <1>3 DEF AccountInv, MaybeRows
<1>. QED
    BY <1>1, <1>2, <1>4, <1>5 DEF AccountInv

(* A request has read the row, and is about to commit what it made of it.    *)
LEMMA AccountRead ==
    ASSUME AccountInv, NEW h \in Handlers, NEW new \in MaybeRows,
           NEW signs \in BOOLEAN, NEW sets \in BOOLEAN, Auth!Write(h, new, signs, sets),
           new # Auth!NoAccount => new.hash.salt <= asked + 1,
           account = Auth!NoAccount => new # Auth!NoAccount /\ sets,
           new = Auth!NoAccount => ~sets,
           account # Auth!NoAccount /\ new # Auth!NoAccount =>
              /\ new.id = account.id
              /\ IF sets THEN new.hash # account.hash ELSE new.hash.of = account.hash.of
    PROVE  AccountInv'
<1> DEFINE w == [at |-> "saving", saw |-> account, new |-> new, signs |-> signs, sets |-> sets]
<1>1. /\ doing' = [doing EXCEPT ![h] = w] /\ asked' = asked + 1
      /\ UNCHANGED <<account, chosen, mixed>>
    BY DEF Auth!Write, Auth!Begin, Auth!row
<1>2. \A r \in UserRows : r.hash.salt \in Nat
    BY DEF UserRows, Hashes
<1>3. AccountChange(w, asked')
    BY <1>1 DEF AccountChange, AccountInv
<1>4. ASSUME NEW g \in Handlers, AccountChange(doing[g], asked), doing'[g] = doing[g]
      PROVE  AccountChange(doing'[g], asked')
    BY <1>1, <1>2, <1>4 DEF AccountChange, AccountInv, MaybeRows
<1>5. account # Auth!NoAccount => account.hash.salt <= asked'
    BY <1>1, <1>2 DEF AccountInv, MaybeRows
<1> HIDE DEF w
<1>6. doing'[h] = w /\ \A g \in Handlers : g # h => doing'[g] = doing[g]
    BY <1>1 DEF AccountInv
<1>8. w.at = "saving"
    BY DEF w
<1>7. \A g \in Handlers : doing'[g].at = "saving" => AccountChange(doing'[g], asked')
    BY <1>3, <1>4, <1>6 DEF AccountInv
<1>. QED
    BY <1>1, <1>5, <1>7 DEF AccountInv

(* A hash that is made has a salt that no other has.                        *)
LEMMA HashMade ==
    ASSUME AccountInv, NEW p \in Passwords \cup {Auth!Random}
    PROVE  /\ Auth!Hash(p) \in Hashes /\ Auth!Hash(p).of = p /\ Auth!Hash(p).salt = asked + 1
           /\ \A byGoogle \in BOOLEAN :
                 /\ Auth!Fresh(p, byGoogle) \in UserRows
                 /\ Auth!Fresh(p, byGoogle).hash = Auth!Hash(p)
           /\ account # Auth!NoAccount =>
                 /\ [account EXCEPT !.hash = Auth!Hash(p)] \in UserRows
                 /\ [account EXCEPT !.hash = Auth!Hash(p)].id = account.id
                 /\ [account EXCEPT !.hash = Auth!Hash(p)].hash = Auth!Hash(p)
                 /\ Auth!Hash(p) # account.hash
<1>1. Auth!Hash(p) \in Hashes /\ Auth!Hash(p).of = p /\ Auth!Hash(p).salt = asked + 1
    BY DEF AccountInv, Auth!Hash, Hashes
<1>2. \A byGoogle \in BOOLEAN :
         /\ Auth!Fresh(p, byGoogle) \in UserRows
         /\ Auth!Fresh(p, byGoogle).hash = Auth!Hash(p)
    BY <1>1 DEF AccountInv, Auth!Fresh, UserRows
<1>3. ASSUME account # Auth!NoAccount
      PROVE  /\ [account EXCEPT !.hash = Auth!Hash(p)] \in UserRows
             /\ [account EXCEPT !.hash = Auth!Hash(p)].id = account.id
             /\ [account EXCEPT !.hash = Auth!Hash(p)].hash = Auth!Hash(p)
             /\ Auth!Hash(p) # account.hash
    <2>1. account \in UserRows /\ account.hash.salt <= asked /\ asked \in Nat
        BY <1>3 DEF AccountInv, MaybeRows
    <2>2. account.hash.salt \in Nat
        BY <2>1 DEF UserRows, Hashes
    <2>. QED
        BY <1>1, <2>1, <2>2 DEF UserRows
<1>. QED
    BY <1>1, <1>2, <1>3

(* Every step leaves the row with the password that was set last, or mixes two.*)
LEMMA AccountStep == ASSUME AccountInv, [Auth!Next]_(Auth!vars) PROVE AccountInv'
<1>0. /\ asked \in Nat /\ account \in MaybeRows
      /\ account # Auth!NoAccount => account \in UserRows
      /\ \A r \in UserRows : r \in MaybeRows /\ r # Auth!NoAccount /\ r.hash.salt \in Nat
    BY UserRowThere DEF AccountInv, MaybeRows, UserRows, Hashes
<1>1. ASSUME NEW h \in Handlers, Auth!Google(h) PROVE AccountInv'
    <2>1. CASE account = Auth!NoAccount
        <3> DEFINE new == Auth!Fresh(Auth!Random, TRUE)
        <3>1. new \in UserRows /\ new.hash.salt <= asked + 1
            <4>1. /\ new \in UserRows /\ new.hash = Auth!Hash(Auth!Random)
                  /\ Auth!Hash(Auth!Random).salt = asked + 1
                BY HashMade
            <4>2. asked + 1 <= asked + 1
                BY <1>0
            <4>. QED
                BY <4>1, <4>2
        <3>2. Auth!Write(h, new, TRUE, TRUE)
            BY <1>1, <2>1 DEF Auth!Google
        <3> HIDE DEF new
        <3>. QED
            BY <1>0, <2>1, <3>1, <3>2, AccountRead
    <2>2. CASE account # Auth!NoAccount
        <3> DEFINE new == [account EXCEPT !.google = TRUE]
        <3>1. new \in UserRows /\ new.id = account.id /\ new.hash = account.hash
            BY <1>0, <2>2 DEF UserRows
        <3>2. Auth!Write(h, new, TRUE, FALSE)
            BY <1>1, <2>2 DEF Auth!Google
        <3>3. new.hash.salt <= asked + 1
            BY <1>0, <2>2, <3>1 DEF AccountInv
        <3> HIDE DEF new
        <3>. QED
            BY <1>0, <2>2, <3>1, <3>2, <3>3, AccountRead
    <2>. QED
        BY <2>1, <2>2
<1>2. ASSUME NEW h \in Handlers, NEW p \in Passwords, Auth!SignUp(h, p) PROVE AccountInv'
    <2> DEFINE new == Auth!Fresh(p, FALSE)
    <2>1. new \in UserRows /\ new.hash.salt <= asked + 1
        <3>1. new \in UserRows /\ new.hash = Auth!Hash(p) /\ Auth!Hash(p).salt = asked + 1
            BY HashMade
        <3>2. asked + 1 <= asked + 1
            BY <1>0
        <3>. QED
            BY <3>1, <3>2
    <2>2. account = Auth!NoAccount /\ Auth!Write(h, new, TRUE, TRUE)
        BY <1>2 DEF Auth!SignUp
    <2> HIDE DEF new
    <2>. QED
        BY <1>0, <2>1, <2>2, AccountRead
<1>3. ASSUME NEW h \in Handlers, NEW p \in Passwords, Auth!LogIn(h, p) PROVE AccountInv'
    <2>1. account # Auth!NoAccount /\ account.hash.of = p
        BY <1>3 DEF Auth!LogIn, Auth!Verified
    <2>2. CASE account.hash.weak
        <3> DEFINE new == [account EXCEPT !.hash = Auth!Hash(p)]
        <3>1. Auth!Write(h, new, TRUE, FALSE)
            BY <1>3, <2>2 DEF Auth!LogIn
        <3>2. /\ new \in UserRows /\ new.id = account.id
              /\ new.hash.of = p /\ new.hash.salt <= asked + 1
            BY <1>0, <2>1, HashMade
        <3> HIDE DEF new
        <3>. QED
            BY <1>0, <2>1, <3>1, <3>2, AccountRead
    <2>3. CASE ~account.hash.weak
        <3>1. Auth!Write(h, account, TRUE, FALSE)
            BY <1>3, <2>3 DEF Auth!LogIn
        <3>2. account.hash.salt <= asked + 1
            BY <1>0, <2>1 DEF AccountInv
        <3>. QED
            BY <1>0, <2>1, <3>1, <3>2, AccountRead
    <2>. QED
        BY <2>2, <2>3
<1>4. ASSUME NEW h \in Handlers, NEW p \in Passwords, Auth!Reset(h, p) PROVE AccountInv'
    <2> DEFINE new == [account EXCEPT !.hash = Auth!Hash(p)]
    <2>1. account # Auth!NoAccount /\ Auth!Write(h, new, TRUE, TRUE)
        BY <1>4 DEF Auth!Reset
    <2>2. /\ new \in UserRows /\ new.id = account.id
          /\ new.hash # account.hash /\ new.hash.salt <= asked + 1
        BY <1>0, <2>1, HashMade
    <2> HIDE DEF new
    <2>. QED
        BY <1>0, <2>1, <2>2, AccountRead
<1>5. ASSUME NEW h \in Handlers, NEW p \in Passwords, Auth!Delete(h, p) PROVE AccountInv'
    <2>1. account # Auth!NoAccount /\ Auth!Write(h, Auth!NoAccount, FALSE, FALSE)
        BY <1>5 DEF Auth!Delete, Auth!Verified
    <2>. QED
        BY <2>1, AccountRead DEF MaybeRows
<1>6. ASSUME NEW h \in Handlers, NEW p \in Passwords, NEW old \in Passwords,
             Auth!Change(h, old, p)
      PROVE  AccountInv'
    <2> DEFINE new == [account EXCEPT !.hash = Auth!Hash(p)]
    <2>1. account # Auth!NoAccount /\ Auth!Write(h, new, FALSE, TRUE)
        BY <1>6 DEF Auth!Change, Auth!Verified
    <2>2. /\ new \in UserRows /\ new.id = account.id
          /\ new.hash # account.hash /\ new.hash.salt <= asked + 1
        BY <1>0, <2>1, HashMade
    <2> HIDE DEF new
    <2>. QED
        BY <1>0, <2>1, <2>2, AccountRead
<1>7. ASSUME NEW h \in Handlers, Auth!Save(h) PROVE AccountInv'
    <2> DEFINE w == doing[h]
    <2>1. /\ w.at = "saving" /\ doing' = [doing EXCEPT ![h] = [at |-> "idle"]]
          /\ asked' = asked
        BY <1>7 DEF Auth!Save, Auth!End, Auth!Resting
    <2>2. AccountChange(w, asked)
        BY <2>1 DEF AccountInv
    <2>3. CASE account.id # w.saw.id
        <3>1. UNCHANGED Auth!row
            BY <1>7, <2>3 DEF Auth!Save
        <3>2. asked' \in Nat /\ asked' >= asked
            BY <1>0, <2>1
        <3>. QED
            BY <2>1, <3>1, <3>2, AccountIdle
    <2>4. CASE account.id = w.saw.id
        <3>1. /\ account' = Auth!Merged(w)
              /\ chosen' = IF w.sets THEN w.new.hash.of ELSE chosen
              /\ mixed' = (mixed \/ (account # w.saw /\ account'.id = account.id
                                       /\ account'.hash # account.hash))
            BY <1>7, <2>4 DEF Auth!Save
        <3> HIDE DEF w
        <3>2. /\ w.saw \in MaybeRows /\ w.new \in MaybeRows
              /\ w.saw = Auth!NoAccount <=> account = Auth!NoAccount
            BY <1>0, <2>2, <2>4, UserRowThere DEF AccountChange
        <3>3. /\ account' \in MaybeRows
              /\ account' # Auth!NoAccount => account'.hash.salt <= asked
              /\ account' # Auth!NoAccount /\ ~mixed' => account'.hash.of = chosen'
            <4>1. CASE w.new = Auth!NoAccount
                BY <3>1, <3>2, <4>1 DEF Auth!Merged
            <4>2. CASE w.new # Auth!NoAccount /\ w.saw = Auth!NoAccount
                BY <2>2, <3>1, <3>2, <4>2 DEF Auth!Merged, AccountChange
            <4>3. CASE w.new # Auth!NoAccount /\ w.saw # Auth!NoAccount
                <5>1. w.new \in UserRows /\ w.saw \in UserRows /\ account \in UserRows
                    BY <3>2, <4>3, <1>0 DEF MaybeRows
                <5>2. account' = [c \in DOMAIN account |->
                                     IF w.new[c] # w.saw[c] THEN w.new[c] ELSE account[c]]
                    BY <3>1, <4>3 DEF Auth!Merged
                <5>3. DOMAIN account = {"id", "hash", "google"}
                    BY <5>1 DEF UserRows
                <5>4. account' = [id |-> IF w.new.id # w.saw.id THEN w.new.id ELSE account.id,
                                  hash |-> IF w.new.hash # w.saw.hash THEN w.new.hash
                                           ELSE account.hash,
                                  google |-> IF w.new.google # w.saw.google THEN w.new.google
                                             ELSE account.google]
                    BY <5>2, <5>3
                <5>5. /\ account'.id = account.id
                      /\ account'.hash = IF w.new.hash # w.saw.hash THEN w.new.hash
                                         ELSE account.hash
                    BY <2>2, <4>3, <5>4 DEF AccountChange
                <5>6. account' \in UserRows
                    BY <5>1, <5>4 DEF UserRows
                <5>7. account'.hash.salt <= asked
                    BY <2>2, <3>2, <4>3, <5>5 DEF AccountChange, AccountInv
                <5>8. ASSUME ~mixed' PROVE account'.hash.of = chosen'
                    <6>1. ~mixed /\ (account = w.saw \/ account'.hash = account.hash)
                        BY <3>1, <5>5, <5>8
                    <6>2. account.hash.of = chosen
                        BY <3>2, <4>3, <6>1 DEF AccountInv
                    <6>. QED
                        BY <2>2, <3>1, <4>3, <5>5, <6>1, <6>2 DEF AccountChange
                <5>. QED
                    BY <5>6, <5>7, <5>8 DEF MaybeRows
            <4>. QED
                BY <4>1, <4>2, <4>3
        <3>4. mixed' \in BOOLEAN
            BY <3>1 DEF AccountInv
        <3>5. \A g \in Handlers : doing'[g].at = "saving" => AccountChange(doing'[g], asked')
            BY <2>1 DEF AccountInv, AccountChange
        <3>. QED
            BY <2>1, <3>3, <3>4, <3>5 DEF AccountInv
    <2>. QED
        BY <2>3, <2>4
<1>8. ASSUME NEW h \in Handlers, Auth!Rotate(h) PROVE AccountInv'
    <2>1. doing' = [doing EXCEPT ![h] = [at |-> "idle"]] /\ asked' = asked /\ UNCHANGED Auth!row
        BY <1>8 DEF Auth!Rotate, Auth!End, Auth!Resting
    <2>2. asked' \in Nat /\ asked' >= asked
        BY <1>0, <2>1
    <2>. QED
        BY <2>1, <2>2, AccountIdle
<1>9. ASSUME NEW h \in Handlers, NEW p \in Processes, NEW t \in DOMAIN tokens,
             Auth!Refresh(h, p, t) \/ Auth!LogOut(h, p, t)
      PROVE  AccountInv'
    BY <1>0, <1>9, AccountIdle DEF Auth!Refresh, Auth!LogOut, Auth!Begin, Auth!Resting
<1>10. CASE UNCHANGED <<Auth!row, doing, asked>>
    BY <1>10 DEF Auth!row, AccountInv, AccountChange
<1>11. ASSUME \/ Auth!RedisLost \/ Auth!RedisBack \/ \E p \in Processes : Auth!AskAgain(p)
       PROVE  AccountInv'
    BY <1>10, <1>11 DEF Auth!RedisLost, Auth!RedisBack, Auth!AskAgain
<1>12. CASE UNCHANGED Auth!vars
    BY <1>10, <1>12 DEF Auth!vars
<1>. QED
    BY <1>1, <1>2, <1>3, <1>4, <1>5, <1>6, <1>7, <1>8, <1>9, <1>11, <1>12 DEF Auth!Next

(* The row has the password that was set last.                              *)
LEMMA AccountHolds == Auth!Spec => []AccountInv
BY AccountInit, AccountStep, PTL DEF Auth!Spec

(* The password is the one its owner has set last, unless a request saved one*)
(* over another that it had not read (auth/routes.py).                      *)
LEMMA PasswordIsKept == Auth!Spec => []Auth!PasswordKept
<1>1. AccountInv => Auth!PasswordKept
    BY DEF AccountInv, Auth!PasswordKept
<1>. QED
    BY <1>1, AccountHolds, PTL

-----------------------------------------------------------------------------
TokenRows == [of : Int, root : Nat]

(* Handler h is exchanging a token.                                         *)
Rotating(h) == doing[h].at = "rotating"

(* Of the session that began with token r, one token at most is left, Redis  *)
(* knows of the others, and one request at most is exchanging it.            *)
SessionKept(r) ==
    /\ \A u, v \in DOMAIN tokens :
          tokens[u].root = r /\ tokens[v].root = r /\ u \notin gone /\ v \notin gone => u = v
    /\ \A u \in DOMAIN tokens : tokens[u].root = r /\ u \in gone => u \in denied
    /\ \A h \in Handlers :
          Rotating(h) /\ tokens[doing[h].token].root = r => doing[h].token \notin gone
    /\ \A h, k \in Handlers :
          /\ Rotating(h) /\ tokens[doing[h].token].root = r
          /\ Rotating(k) /\ tokens[doing[k].token].root = r
          => h = k

(* No token of the session that began with token r is doubtful.             *)
Undoubted(r) == \A u \in DOMAIN tokens : tokens[u].root = r => u \notin doubtful

(* The tokens there are, and those that are being exchanged.                *)
TokenTypes ==
    /\ DOMAIN doing = Handlers
    /\ tokens \in Seq(TokenRows)
    /\ \A t \in DOMAIN tokens : tokens[t].root \in 1..Len(tokens)
    /\ gone \subseteq DOMAIN tokens
    /\ \A h \in Handlers : Rotating(h) => doing[h].token \in DOMAIN tokens

(* The sessions of which nothing is doubtful are kept in order.             *)
TokenInv == TokenTypes /\ \A r \in Nat : Undoubted(r) => SessionKept(r)

(* There are no tokens at first.                                            *)
LEMMA TokenInit == Auth!Init => TokenInv
<1>1. SUFFICES ASSUME Auth!Init PROVE TokenInv
    OBVIOUS
<1>2. /\ DOMAIN doing = Handlers /\ \A h \in Handlers : doing[h].at = "idle"
      /\ tokens = <<>> /\ gone = {}
    BY <1>1 DEF Auth!Init, Auth!Resting
<1>. QED
    BY <1>2 DEF TokenInv, TokenTypes, SessionKept, Rotating

(* The tokens are rows.                                                     *)
LEMMA TokenSeq ==
    ASSUME TokenTypes
    PROVE  /\ DOMAIN tokens = 1..Len(tokens) /\ Len(tokens) \in Nat
           /\ \A t \in DOMAIN tokens : tokens[t] \in TokenRows /\ tokens[t].root \in Nat
<1>1. tokens \in Seq(TokenRows)
    BY DEF TokenTypes
<1>2. \A t \in DOMAIN tokens : tokens[t] \in TokenRows
    BY <1>1
<1>. QED
    BY <1>1, <1>2 DEF TokenRows

(* A request that is not about to exchange a token does not disturb any.     *)
LEMMA TokenIdle ==
    ASSUME TokenInv, \A h \in Handlers : Rotating(h)' => Rotating(h) /\ doing'[h] = doing[h],
           DOMAIN doing' = Handlers, UNCHANGED <<tokens, gone, doubtful, denied>>
    PROVE  TokenInv'
<1>1. \A r \in Nat : SessionKept(r) => SessionKept(r)'
    BY DEF SessionKept
<1>. QED
    BY <1>1 DEF TokenInv, TokenTypes, Undoubted

(* A token is issued, at the end of its session or as the first of one.      *)
LEMMA TokenIssued ==
    ASSUME TokenTypes, NEW to \in Int, NEW root \in 1..(Len(tokens) + 1),
           tokens' = Append(tokens, Auth!Issued(to, root))
    PROVE  /\ tokens' \in Seq(TokenRows)
           /\ DOMAIN tokens' = 1..(Len(tokens) + 1) /\ Len(tokens') = Len(tokens) + 1
           /\ \A t \in DOMAIN tokens : t \in DOMAIN tokens' /\ tokens'[t] = tokens[t]
           /\ tokens'[Len(tokens) + 1].root = root
           /\ \A t \in DOMAIN tokens' : tokens'[t].root \in 1..Len(tokens')
<1>1. Auth!Issued(to, root) \in TokenRows /\ Auth!Issued(to, root).root = root
    BY TokenSeq DEF Auth!Issued, TokenRows
<1>2. tokens \in Seq(TokenRows) /\ \A t \in 1..Len(tokens) : tokens[t].root \in 1..Len(tokens)
    BY TokenSeq DEF TokenTypes
<1>3. /\ tokens' \in Seq(TokenRows)
      /\ DOMAIN tokens' = 1..(Len(tokens) + 1) /\ Len(tokens') = Len(tokens) + 1
      /\ \A t \in 1..Len(tokens) : tokens'[t] = tokens[t]
      /\ tokens'[Len(tokens) + 1] = Auth!Issued(to, root)
    BY <1>1, <1>2
<1>. QED
    BY <1>1, <1>2, <1>3, TokenSeq

(* Every step keeps the sessions in order, whoever exchanges or signs out.  *)
LEMMA TokenStep ==
    ASSUME TokenInv, AccountInv, AccountInv', [Auth!Next]_(Auth!vars) PROVE TokenInv'
<1>0. TokenTypes /\ DOMAIN doing = Handlers
    BY DEF TokenInv, TokenTypes
<1>1. ASSUME NEW h \in Handlers, NEW w, w.at # "rotating",
             doing' = [doing EXCEPT ![h] = w], UNCHANGED <<tokens, gone, doubtful, denied>>
      PROVE  TokenInv'
    BY <1>0, <1>1, TokenIdle DEF Rotating
<1>2. ASSUME NEW h \in Handlers, NEW new, NEW signs, NEW sets, Auth!Write(h, new, signs, sets)
      PROVE  TokenInv'
    BY <1>1, <1>2 DEF Auth!Write, Auth!Begin, Auth!store, Auth!history
<1>3. ASSUME NEW h \in Handlers,
             \/ Auth!Google(h)
             \/ \E p \in Passwords :
                   \/ Auth!SignUp(h, p) \/ Auth!LogIn(h, p) \/ Auth!Reset(h, p) \/ Auth!Delete(h, p)
                   \/ \E old \in Passwords : Auth!Change(h, old, p)
      PROVE  TokenInv'
    BY <1>2, <1>3 DEF Auth!Google, Auth!SignUp, Auth!LogIn, Auth!Reset, Auth!Delete, Auth!Change
<1>4. ASSUME NEW h \in Handlers, Auth!Save(h) PROVE TokenInv'
    <2>1. /\ doing' = [doing EXCEPT ![h] = [at |-> "idle"]]
          /\ UNCHANGED <<gone, doubtful, denied>>
        BY <1>4 DEF Auth!Save, Auth!End, Auth!Resting, Auth!store, Auth!history
    <2>2. CASE tokens' = tokens
        BY <1>1, <2>1, <2>2
    <2>3. CASE tokens' # tokens
        <3>1. tokens' = Append(tokens, Auth!Issued(account'.id, Len(tokens) + 1))
            BY <1>4, <2>3 DEF Auth!Save
        <3>2. account'.id \in Int /\ Len(tokens) + 1 \in 1..(Len(tokens) + 1)
            BY <1>0, TokenSeq, UserRowThere DEF AccountInv
        <3>3. /\ tokens' \in Seq(TokenRows)
              /\ DOMAIN tokens' = 1..(Len(tokens) + 1) /\ Len(tokens') = Len(tokens) + 1
              /\ \A t \in DOMAIN tokens : t \in DOMAIN tokens' /\ tokens'[t] = tokens[t]
              /\ tokens'[Len(tokens) + 1].root = Len(tokens) + 1
              /\ \A t \in DOMAIN tokens' : tokens'[t].root \in 1..Len(tokens')
            BY <1>0, <3>1, <3>2, TokenIssued
        <3>4. \A g \in Handlers : Rotating(g)' =>
                 /\ Rotating(g) /\ doing'[g] = doing[g]
                 /\ doing[g].token \in DOMAIN tokens
            BY <1>0, <2>1 DEF Rotating, TokenTypes
        <3>5. ASSUME NEW r \in Nat, Undoubted(r)' PROVE SessionKept(r)'
            <4>1. CASE r = Len(tokens) + 1
                <5>1. \A t \in DOMAIN tokens : tokens[t].root # r
                    BY <1>0, <4>1, TokenSeq DEF TokenTypes
                <5>2. \A t \in DOMAIN tokens' : tokens'[t].root = r => t = r
                    BY <1>0, <3>3, <4>1, <5>1, TokenSeq
                <5>3. r \notin gone
                    BY <1>0, <4>1, TokenSeq DEF TokenTypes
                <5>4. \A g \in Handlers : Rotating(g)' => tokens'[doing'[g].token].root # r
                    BY <3>3, <3>4, <5>1
                <5>. QED
                    BY <2>1, <5>2, <5>3, <5>4 DEF SessionKept
            <4>2. CASE r # Len(tokens) + 1
                <5>1. \A t \in DOMAIN tokens' : tokens'[t].root = r
                         => t \in DOMAIN tokens /\ tokens'[t] = tokens[t]
                    BY <1>0, <3>3, <4>2, TokenSeq
                <5>2. SessionKept(r)
                    BY <2>1, <3>3, <3>5 DEF TokenInv, Undoubted
                <5>. QED
                    BY <2>1, <3>3, <3>4, <5>1, <5>2 DEF SessionKept
            <4>. QED
                BY <4>1, <4>2
        <3>6. gone \subseteq DOMAIN tokens'
            BY <1>0, <3>3 DEF TokenTypes
        <3>. QED
            BY <1>0, <2>1, <3>3, <3>4, <3>5, <3>6 DEF TokenInv, TokenTypes
    <2>. QED
        BY <2>2, <2>3
<1>5. ASSUME NEW h \in Handlers, NEW p \in Processes, NEW t \in DOMAIN tokens,
             Auth!Refresh(h, p, t)
      PROVE  TokenInv'
    <2>1. /\ Auth!Reaches(p) => t \notin denied
          /\ doing' = [doing EXCEPT ![h] = [at |-> "rotating", token |-> t, by |-> p]]
          /\ doing[h].at = "idle"
          /\ doubtful' = IF Auth!Reaches(p) /\ Auth!Presented(t) = {} THEN doubtful
                         ELSE doubtful \cup {t}
          /\ UNCHANGED <<tokens, gone, denied>>
        BY <1>5 DEF Auth!Refresh, Auth!Begin, Auth!Resting
    <2>2. /\ doing'[h].at = "rotating" /\ doing'[h].token = t
          /\ \A g \in Handlers : g # h => doing'[g] = doing[g]
        BY <1>0, <2>1
    <2>3. ASSUME NEW r \in Nat, Undoubted(r)' PROVE SessionKept(r)'
        <3>1. Undoubted(r) /\ SessionKept(r)
            BY <2>1, <2>3 DEF TokenInv, Undoubted
        <3>2. CASE tokens[t].root # r
            BY <2>1, <2>2, <3>1, <3>2 DEF SessionKept, Rotating
        <3>3. CASE tokens[t].root = r
            <4>1. t \notin doubtful'
                BY <2>1, <2>3, <3>3 DEF Undoubted
            <4>2. Auth!Presented(t) = {} /\ t \notin denied
                BY <2>1, <4>1
            <4>3. t \notin gone
                BY <3>1, <3>3, <4>2 DEF SessionKept
            <4>4. \A g \in Handlers : Rotating(g) => doing[g].token \in DOMAIN tokens
                BY <1>0 DEF TokenTypes
            <4>5. \A g \in Handlers : Rotating(g) => tokens[doing[g].token].root # r
                BY <3>1, <3>3, <4>2, <4>3, <4>4 DEF SessionKept, Auth!Presented, Rotating
            <4>. QED
                BY <2>1, <2>2, <3>1, <4>3, <4>5 DEF SessionKept, Rotating
        <3>. QED
            BY <3>2, <3>3
    <2>. QED
        BY <1>0, <2>1, <2>2, <2>3 DEF TokenInv, TokenTypes, Rotating
<1>6. ASSUME NEW h \in Handlers, Auth!Rotate(h) PROVE TokenInv'
    <2> DEFINE w == doing[h]
               t == w.token
               n == Len(tokens) + 1
    <2>1. /\ Rotating(h)
          /\ denied' = IF redis /\ w.by \notin cooling THEN denied \cup {t} ELSE denied
          /\ tokens' = Append(tokens, Auth!Issued(tokens[t].of, tokens[t].root))
          /\ gone' = gone \cup {t}
          /\ doubtful' = IF Auth!Reaches(w.by) THEN doubtful ELSE doubtful \cup {t}
          /\ doing' = [doing EXCEPT ![h] = [at |-> "idle"]]
        BY <1>6 DEF Auth!Rotate, Auth!Revoke, Auth!End, Auth!Resting, Rotating
    <2>2. t \in DOMAIN tokens
        BY <1>0, <2>1 DEF TokenTypes
    <2>3. tokens[t].of \in Int /\ tokens[t].root \in 1..n
        BY <1>0, <2>2, TokenSeq DEF TokenTypes, TokenRows
    <2> HIDE DEF w, t
    <2>4. /\ tokens' \in Seq(TokenRows)
          /\ DOMAIN tokens' = 1..n /\ Len(tokens') = n
          /\ \A u \in DOMAIN tokens : u \in DOMAIN tokens' /\ tokens'[u] = tokens[u]
          /\ tokens'[n].root = tokens[t].root
          /\ \A u \in DOMAIN tokens' : tokens'[u].root \in 1..Len(tokens')
        BY <1>0, <2>1, <2>3, TokenIssued
    <2>5. /\ \A u \in DOMAIN tokens' : u \in DOMAIN tokens \/ u = n
          /\ n \notin DOMAIN tokens /\ n \notin gone'
        BY <1>0, <2>1, <2>2, <2>4, TokenSeq DEF TokenTypes
    <2>6. \A g \in Handlers : Rotating(g)' =>
             /\ g # h /\ Rotating(g) /\ doing'[g] = doing[g]
             /\ doing[g].token \in DOMAIN tokens
        BY <1>0, <2>1 DEF Rotating, TokenTypes
    <2>7. ASSUME NEW r \in Nat, Undoubted(r)' PROVE SessionKept(r)'
        <3>1. Undoubted(r) /\ SessionKept(r)
            BY <2>1, <2>4, <2>7 DEF TokenInv, Undoubted
        <3>2. CASE tokens[t].root # r
            <4>1. \A u \in DOMAIN tokens' : tokens'[u].root = r
                     => u \in DOMAIN tokens /\ tokens[u].root = r /\ u # t
                BY <2>4, <2>5, <3>2
            <4>2. \A g \in Handlers : Rotating(g)' /\ tokens'[doing'[g].token].root = r
                     => Rotating(g) /\ doing'[g] = doing[g] /\ tokens[doing[g].token].root = r
                        /\ doing[g].token # t
                BY <2>4, <2>6, <3>2
            <4>3. \A u \in DOMAIN tokens' : tokens'[u].root = r
                     => (u \in gone' <=> u \in gone) /\ (u \in denied => u \in denied')
                BY <2>1, <4>1
            <4>4. \A u, v \in DOMAIN tokens' :
                     tokens'[u].root = r /\ tokens'[v].root = r /\ u \notin gone' /\ v \notin gone'
                     => u = v
                BY <3>1, <4>1, <4>3 DEF SessionKept
            <4>5. \A u \in DOMAIN tokens' : tokens'[u].root = r /\ u \in gone' => u \in denied'
                BY <3>1, <4>1, <4>3 DEF SessionKept
            <4>6. ASSUME NEW g \in Handlers, Rotating(g)', tokens'[doing'[g].token].root = r
                  PROVE  doing'[g].token \notin gone'
                <5>1. /\ Rotating(g) /\ doing'[g] = doing[g] /\ doing[g].token # t
                      /\ tokens[doing[g].token].root = r
                    BY <4>2, <4>6
                <5>2. doing[g].token \notin gone
                    BY <3>1, <5>1 DEF SessionKept
                <5>. QED
                    BY <2>1, <5>1, <5>2
            <4>7. \A g, k \in Handlers :
                     /\ Rotating(g)' /\ tokens'[doing'[g].token].root = r
                     /\ Rotating(k)' /\ tokens'[doing'[k].token].root = r
                     => g = k
                BY <3>1, <4>2 DEF SessionKept
            <4>. QED
                BY <4>4, <4>5, <4>6, <4>7 DEF SessionKept
        <3>3. CASE tokens[t].root = r
            <4>1. t \notin doubtful'
                BY <2>2, <2>4, <2>7, <3>3 DEF Undoubted
            <4>2. denied' = denied \cup {t}
                BY <2>1, <4>1 DEF Auth!Reaches
            <4>3. t \notin gone
                BY <2>1, <3>1, <3>3 DEF SessionKept, t, w
            <4>4. \A u \in DOMAIN tokens' : tokens'[u].root = r /\ u \notin gone' => u = n
                BY <2>1, <2>2, <2>4, <2>5, <3>1, <3>3, <4>3 DEF SessionKept
            <4>5. \A u \in DOMAIN tokens' : tokens'[u].root = r /\ u \in gone' => u \in denied'
                BY <2>1, <2>4, <2>5, <3>1, <4>2 DEF SessionKept
            <4>6. \A g \in Handlers : Rotating(g)' => tokens'[doing'[g].token].root # r
                BY <2>1, <2>4, <2>6, <3>1, <3>3 DEF SessionKept, t, w
            <4>. QED
                BY <4>4, <4>5, <4>6 DEF SessionKept
        <3>. QED
            BY <3>2, <3>3
    <2>8. gone' \subseteq DOMAIN tokens'
        BY <1>0, <2>1, <2>2, <2>4 DEF TokenTypes
    <2>9. DOMAIN doing' = Handlers
        BY <1>0, <2>1
    <2>. QED
        BY <2>4, <2>6, <2>7, <2>8, <2>9 DEF TokenInv, TokenTypes
<1>7. ASSUME NEW h \in Handlers, NEW p \in Processes, NEW t \in DOMAIN tokens,
             Auth!LogOut(h, p, t)
      PROVE  TokenInv'
    <2>1. /\ doing' = [doing EXCEPT ![h] = [at |-> "idle"]]
          /\ denied' = IF redis /\ p \notin cooling THEN denied \cup {t} ELSE denied
          /\ gone' = gone \cup {t}
          /\ doubtful' = IF Auth!Reaches(p) /\ Auth!Presented(t) = {} THEN doubtful
                         ELSE doubtful \cup {t}
          /\ tokens' = tokens
        BY <1>7 DEF Auth!LogOut, Auth!Begin, Auth!Revoke, Auth!Resting
    <2>2. \A g \in Handlers : Rotating(g)' =>
             /\ Rotating(g) /\ doing'[g] = doing[g]
             /\ doing[g].token \in DOMAIN tokens
        BY <1>0, <2>1 DEF Rotating, TokenTypes
    <2>3. ASSUME NEW r \in Nat, Undoubted(r)' PROVE SessionKept(r)'
        <3>1. Undoubted(r) /\ SessionKept(r)
            BY <2>1, <2>3 DEF TokenInv, Undoubted
        <3>2. CASE tokens[t].root # r
            BY <2>1, <2>2, <3>1, <3>2 DEF SessionKept
        <3>3. CASE tokens[t].root = r
            <4>1. t \notin doubtful'
                BY <2>1, <2>3, <3>3 DEF Undoubted
            <4>2. denied' = denied \cup {t} /\ Auth!Presented(t) = {}
                BY <2>1, <4>1 DEF Auth!Reaches
            <4>3. \A g \in Handlers : Rotating(g) => doing[g].token # t
                BY <4>2 DEF Auth!Presented, Rotating
            <4>. QED
                BY <2>1, <2>2, <3>1, <4>2, <4>3 DEF SessionKept
        <3>. QED
            BY <3>2, <3>3
    <2>. QED
        BY <1>0, <2>1, <2>2, <2>3 DEF TokenInv, TokenTypes
<1>8. CASE UNCHANGED <<tokens, gone, doubtful, denied, doing>>
    BY <1>0, <1>8, TokenIdle DEF Rotating
<1>9. ASSUME \/ Auth!RedisLost \/ Auth!RedisBack \/ \E p \in Processes : Auth!AskAgain(p)
      PROVE  TokenInv'
    BY <1>8, <1>9 DEF Auth!RedisLost, Auth!RedisBack, Auth!AskAgain, Auth!history
<1>10. CASE UNCHANGED Auth!vars
    BY <1>8, <1>10 DEF Auth!vars, Auth!store, Auth!history
<1>. QED
    BY <1>3, <1>4, <1>5, <1>6, <1>7, <1>9, <1>10 DEF Auth!Next

(* The sessions of which nothing is doubtful stay in order.                 *)
LEMMA TokenHolds == Auth!Spec => []TokenInv
BY TokenInit, TokenStep, AccountHolds, PTL DEF Auth!Spec

(* So for the instance of Sessions.                                         *)
LEMMA SameCardinalityAuth == \A S : Auth!Cardinality(S) = Cardinality(S)
BY DEF Auth!Cardinality, Cardinality

(* A session has one token at most that still works (auth/routes.py:232).   *)
LEMMA OneToken == Auth!Spec => []Auth!OneTokenEach
<1>1. ASSUME TokenInv, NEW t \in DOMAIN tokens, Auth!Session(t) \cap doubtful = {}
      PROVE  Cardinality(Auth!Session(t) \ gone) <= 1
    <2> DEFINE Left == Auth!Session(t) \ gone
    <2>1. /\ DOMAIN tokens = 1..Len(tokens) /\ Len(tokens) \in Nat
          /\ tokens[t].root \in Nat
        BY <1>1, TokenSeq DEF TokenInv
    <2>2. IsFiniteSet(1..Len(tokens)) /\ Left \in SUBSET (1..Len(tokens))
        BY <2>1, FS_Interval DEF Auth!Session
    <2>3. IsFiniteSet(Left)
        BY <2>2, FS_Subset
    <2>4. SessionKept(tokens[t].root)
        BY <1>1, <2>1 DEF TokenInv, Undoubted, Auth!Session
    <2>5. \A x, y \in Left : x = y
        BY <2>4 DEF SessionKept, Auth!Session
    <2>. QED
        BY <2>3, <2>5, AtMostOne
<1>2. TokenInv => Auth!OneTokenEach
    BY <1>1, SameCardinalityAuth DEF Auth!OneTokenEach
<1>. QED
    BY <1>2, TokenHolds, PTL

-----------------------------------------------------------------------------
(* Numbers                                                                   *)

(* A set of numbers has a least one.  (The library's induction is not within *)
(* reach of the provers; its well-founded sets of finite sets are.)          *)
LEMMA LeastNat ==
    ASSUME NEW S \in SUBSET Nat, S # {}
    PROVE  \E n \in S : \A m \in S : n <= m
<1> DEFINE Upto(k) == {x \in S : x <= k}
           Family == {Upto(k) : k \in S}
<1>0. \A m \in S : m \in Nat
    OBVIOUS
<1>1. PICK a \in S : TRUE
    OBVIOUS
<1>2. ASSUME NEW n \in S PROVE IsFiniteSet(Upto(n))
    <2>1. 0 \in Int /\ n \in Int
        BY <1>2
    <2>2. IsFiniteSet(0..n)
        BY <2>1, FS_Interval
    <2>3. \A x \in Upto(n) : x \in 0..n
        BY <1>0, <2>1
    <2>. HIDE DEF Upto
    <2>. QED
        BY <2>2, <2>3, FS_Subset
<1>3. Family \subseteq FiniteSubsetsOf(S) /\ Family # {}
    BY <1>1, <1>2 DEF FiniteSubsetsOf
<1>4. IsWellFoundedOn(StrictSubsetOrdering(S), FiniteSubsetsOf(S))
    BY FS_StrictSubsetOrderingWellFounded
<1>5. \A n \in S : Upto(n) \in Family
    OBVIOUS
<1>6. \A X \in Family : \E n \in S : X = Upto(n)
    OBVIOUS
<1>. HIDE DEF Family
<1>7. PICK X \in Family : \A Y \in Family : <<Y, X>> \notin StrictSubsetOrdering(S)
    BY <1>3, <1>4, WFMin
<1>8. PICK n \in S : X = Upto(n)
    BY <1>6
<1>9. ASSUME NEW m \in S, m < n PROVE FALSE
    <2>1. Upto(m) \subseteq Upto(n) /\ Upto(m) # Upto(n)
        <3>1. n \in Upto(n) /\ n \notin Upto(m)
            BY <1>8, <1>9
        <3>2. \A x \in Upto(m) : x \in Upto(n)
            BY <1>0, <1>8, <1>9
        <3>. QED
            BY <3>1, <3>2
    <2>2. Upto(m) \in SUBSET S /\ Upto(n) \in SUBSET S
        OBVIOUS
    <2>. HIDE DEF Upto
    <2>3. <<Upto(m), Upto(n)>> \in StrictSubsetOrdering(S)
        BY <2>1, <2>2 DEF StrictSubsetOrdering
    <2>. QED
        BY <1>5, <1>7, <1>8, <2>3
<1>. QED
    BY <1>9

-----------------------------------------------------------------------------
(* LeadDesk: the list of leads                                               *)

(* The rows of leads, and the lists an owner may go through.                 *)
DeskRows == [status : Desk!Statuses, created : Nat, score : Int]
Walks == [at : {"turning", "counted", "through"}, sort : Columns \cup {"created_at"},
          descending : BOOLEAN, status : Desk!Statuses \cup {Desk!Anything},
          offset : Nat, limit : {PageSize, MaxExport}]

(* What the list of leads is read from, and how far it has been read.        *)
DeskTypes ==
    /\ lead \in [Ids -> DeskRows \cup {Desk!NoLead}]
    /\ late \subseteq Ids /\ day \in Nat
    /\ walk \in Walks \cup {Desk!Shut}
    /\ total \in Nat /\ seen \subseteq Ids

(* The leads in the list, and those that come before one of them.            *)
InWalk == Desk!Listed(walk.status)
Ahead(i) == {j \in InWalk : Desk!Before(j, i)}

(* Those that were in the list all the time and have not been seen have as   *)
(* many before them as have been skipped, so they are yet to come.           *)
DeskKept ==
    walk # Desk!Shut /\ ~slipped =>
        /\ due \subseteq InWalk
        /\ walk.at # "through" =>
              /\ \A i \in due \ seen : walk.offset <= Cardinality(Ahead(i))
              /\ walk.limit # PageSize => walk.offset = 0
        /\ walk.at = "counted" => total = Cardinality(InWalk)
        /\ Desk!PagesMissNone

DeskInv == DeskTypes /\ DeskKept

(* The cardinality an instance speaks of is the one of FiniteSets.           *)
LEMMA SameCardinalityDesk == \A S : Desk!Cardinality(S) = Cardinality(S)
BY DEF Desk!Cardinality, Cardinality

(* Nobody has opened the list at first.                                      *)
LEMMA DeskInit == Desk!Init => DeskInv
BY DEF Desk!Init, DeskInv, DeskTypes, DeskKept

(* The leads in a list are finitely many rows.                               *)
LEMMA ListedRows ==
    ASSUME DeskTypes, NEW status
    PROVE  /\ IsFiniteSet(Desk!Listed(status))
           /\ \A i \in Desk!Listed(status) : i \in Ids /\ i \in Int /\ lead[i] \in DeskRows
<1>1. \A i \in Desk!Listed(status) : i \in Ids /\ i \in Int /\ lead[i] \in DeskRows
    BY WorkspaceAssumption DEF DeskTypes, Desk!Listed, Desk!Visible
<1>2. Desk!Listed(status) \in SUBSET Ids
    BY <1>1
<1>. QED
    BY <1>1, <1>2, FS_Subset, WorkspaceAssumption

(* The order of the list is one: the id decides between equals.              *)
LEMMA InOrder ==
    ASSUME DeskTypes, walk \in Walks
    PROVE  /\ \A i \in InWalk : ~Desk!Before(i, i)
           /\ \A i, j, k \in InWalk : Desk!Before(i, j) /\ Desk!Before(j, k) => Desk!Before(i, k)
<1>1. \A i \in InWalk : i \in Int /\ Desk!Key(i) \in Int
    BY ListedRows DEF InWalk, Desk!Key, DeskRows
<1>2. walk.descending \in BOOLEAN
    BY DEF Walks
<1>. QED
    BY <1>1, <1>2 DEF Desk!Before

(* As many are before a lead as can be counted.                              *)
LEMMA AheadType ==
    ASSUME DeskTypes, NEW i
    PROVE  IsFiniteSet(Ahead(i)) /\ Cardinality(Ahead(i)) \in Nat
<1>1. IsFiniteSet(InWalk) /\ Ahead(i) \in SUBSET InWalk
    BY ListedRows DEF InWalk, Ahead
<1>. QED
    BY <1>1, FS_Subset, FS_CardinalityType

(* A page is cut from the list in its order, each lead in it once.           *)
LEMMA DeskSorted ==
    ASSUME DeskTypes, walk \in Walks, NEW s \in Desk!Orders
    PROVE  LET n == Cardinality(InWalk) IN
           /\ n \in Nat /\ s \in [1..n -> InWalk] /\ s \in Seq(InWalk) /\ Len(s) = n
           /\ \A k, l \in 1..n : k # l => s[k] # s[l]
           /\ \A i \in InWalk : \E k \in 1..n : s[k] = i
           /\ \A k, l \in 1..n : k < l => Desk!Before(s[k], s[l])
<1> DEFINE n == Cardinality(InWalk)
<1>1. IsFiniteSet(InWalk) /\ n \in Nat
    BY ListedRows, FS_CardinalityType DEF InWalk
<1>2. s \in [1..n -> InWalk] /\ \A k, l \in 1..n : k # l => s[k] # s[l]
    BY SameCardinalityDesk DEF Desk!Orders, Desk!SetToSeqs, InWalk
<1>. HIDE DEF n
<1>3. s \in Seq(InWalk) /\ Len(s) = n
    BY <1>1, <1>2
<1>4. \A i \in InWalk : \E k \in 1..n : s[k] = i
    <2>1. s \in Injection(1..n, InWalk)
        BY <1>2 DEF Injection, IsInjective
    <2>2. Cardinality(1..n) = n
        <3>1. 1 \in Int /\ n \in Int
            BY <1>1
        <3>2. Cardinality(1..n) = IF 1 > n THEN 0 ELSE n - 1 + 1
            BY <3>1, FS_Interval
        <3>. QED
            BY <1>1, <3>2
    <2>3. s \in Surjection(1..n, InWalk)
        BY <1>1, <2>1, <2>2, FS_Injection DEF n
    <2>. QED
        BY <2>3 DEF Surjection
<1>5. \A k \in 1..(n - 1) : Desk!Before(s[k], s[k + 1])
    BY <1>3 DEF Desk!Orders
<1>6. ASSUME NEW k \in 1..n, NEW l \in 1..n, k < l, ~Desk!Before(s[k], s[l]) PROVE FALSE
    <2> DEFINE Wrong == {m \in Nat : m \in 1..n /\ k < m /\ ~Desk!Before(s[k], s[m])}
    <2>1. l \in Wrong /\ Wrong \in SUBSET Nat
        BY <1>1, <1>6
    <2>2. PICK m \in Wrong : \A x \in Wrong : m <= x
        <3>. HIDE DEF Wrong
        <3>. QED
            BY <2>1, LeastNat
    <2>3. m \in 1..n /\ k < m /\ ~Desk!Before(s[k], s[m]) /\ m - 1 \in 1..(n - 1) /\ k \in 1..n
        BY <1>1, <1>6, <2>2
    <2>4. Desk!Before(s[m - 1], s[m])
        BY <1>5, <2>3
    <2>5. k < m - 1 /\ m - 1 \in 1..n
        BY <1>1, <2>3, <2>4
    <2>6. Desk!Before(s[k], s[m - 1])
        BY <1>1, <2>2, <2>3, <2>5
    <2>7. s[k] \in InWalk /\ s[m] \in InWalk /\ s[m - 1] \in InWalk
        BY <1>2, <2>3, <2>5
    <2>. QED
        BY <2>3, <2>4, <2>6, <2>7, InOrder
<1>. QED
    BY <1>1, <1>2, <1>3, <1>4, <1>6 DEF n

(* The place of a lead is one more than the number of those before it.       *)
LEMMA AheadOf ==
    ASSUME DeskTypes, walk \in Walks, NEW s \in Desk!Orders, NEW k \in 1..Cardinality(InWalk)
    PROVE  Cardinality(Ahead(s[k])) = k - 1
<1> DEFINE n == Cardinality(InWalk)
<1>. HIDE DEF n
<1>1. /\ n \in Nat /\ s \in [1..n -> InWalk] /\ k \in 1..n
      /\ \A x, y \in 1..n : x # y => s[x] # s[y]
      /\ \A i \in InWalk : \E x \in 1..n : s[x] = i
      /\ \A x, y \in 1..n : x < y => Desk!Before(s[x], s[y])
    BY DeskSorted DEF n
<1>2. \A x \in 1..n : Desk!Before(s[x], s[k]) <=> x < k
    <2>1. \A x \in 1..n : s[x] \in InWalk
        BY <1>1
    <2>2. ASSUME NEW x \in 1..n, Desk!Before(s[x], s[k]), ~(x < k) PROVE FALSE
        <3>1. x = k \/ Desk!Before(s[k], s[x])
            BY <1>1, <2>2
        <3>. QED
            BY <1>1, <2>1, <2>2, <3>1, InOrder
    <2>. QED
        BY <1>1, <2>2
<1>3. k - 1 \in Nat /\ 1..(k - 1) \subseteq 1..n
    BY <1>1
<1> DEFINE f == [x \in 1..(k - 1) |-> s[x]]
<1>4. f \in Bijection(1..(k - 1), Ahead(s[k]))
    <2>1. \A x \in 1..(k - 1) : f[x] = s[x] /\ x \in 1..n /\ f[x] \in Ahead(s[k])
        BY <1>1, <1>2, <1>3 DEF Ahead
    <2>2. \A i \in Ahead(s[k]) : \E x \in 1..(k - 1) : f[x] = i
        BY <1>1, <1>2 DEF Ahead
    <2>3. f \in [1..(k - 1) -> Ahead(s[k])]
        BY <2>1
    <2>. HIDE DEF f
    <2>4. \A x, y \in 1..(k - 1) : f[x] = f[y] => x = y
        BY <1>1, <2>1
    <2>. QED
        BY <2>2, <2>3, <2>4 DEF Bijection, Injection, Surjection, IsInjective
<1>5. ExistsBijection(1..(k - 1), Ahead(s[k]))
    BY <1>4 DEF ExistsBijection
<1>. QED
    BY <1>3, <1>5, FS_CountingElements

(* ... and finitely many after a step.                                       *)
LEMMA ListedRowsNext ==
    ASSUME DeskTypes'
    PROVE  IsFiniteSet(InWalk')
<1>1. InWalk' \in SUBSET Ids
    BY DEF InWalk, Desk!Listed, Desk!Visible
<1>. QED
    BY <1>1, FS_Subset, WorkspaceAssumption

(* A page is the rows from one place to another.                             *)
LEMMA PageOf ==
    ASSUME NEW S, NEW s \in Seq(S), NEW a \in Nat, NEW b \in Nat, b <= Len(s)
    PROVE  Desk!ToSet(SubSeq(s, a + 1, b)) = {s[k] : k \in (a + 1)..b}
<1> DEFINE t == SubSeq(s, a + 1, b)
<1>1. /\ DOMAIN t = 1..(b - a)
      /\ \A k \in 1..(b - a) : t[k] = s[a + k]
    OBVIOUS
<1>. HIDE DEF t
<1>2. \A k \in (a + 1)..b : k - a \in 1..(b - a) /\ t[k - a] = s[k]
    BY <1>1
<1>3. \A k \in 1..(b - a) : a + k \in (a + 1)..b
    OBVIOUS
<1>4. Desk!ToSet(t) = {s[k] : k \in (a + 1)..b}
    <2>1. \A x \in Desk!ToSet(t) : \E k \in (a + 1)..b : x = s[k]
        BY <1>1, <1>3 DEF Desk!ToSet
    <2>2. \A k \in (a + 1)..b : s[k] \in Desk!ToSet(t)
        BY <1>1, <1>2 DEF Desk!ToSet
    <2>. QED
        BY <2>1, <2>2
<1>. QED
    BY <1>4 DEF t

(* While none leaves the list and none changes its key, as many or more are  *)
(* ahead of a lead as were before, so a page is not turned too early for it. *)
LEMMA StaysOpen ==
    ASSUME DeskInv, DeskTypes', UNCHANGED <<walk, total, seen>>,
           due' \subseteq due, slipped => slipped',
           walk # Desk!Shut /\ ~slipped' =>
               /\ InWalk \subseteq InWalk'
               /\ walk.at = "counted" => InWalk' = InWalk
               /\ \A i \in InWalk : Desk!Key(i)' = Desk!Key(i)
    PROVE  DeskKept'
<1>. SUFFICES ASSUME walk # Desk!Shut, ~slipped' PROVE DeskKept'
    BY DEF DeskKept
<1>1. DeskTypes /\ DeskKept /\ walk \in Walks /\ ~slipped
    BY DEF DeskInv, DeskTypes
<1>2. /\ due \subseteq InWalk
      /\ walk.at # "through" =>
            /\ \A i \in due \ seen : walk.offset <= Cardinality(Ahead(i))
            /\ walk.limit # PageSize => walk.offset = 0
      /\ walk.at = "counted" => total = Cardinality(InWalk)
      /\ Desk!PagesMissNone
    BY <1>1 DEF DeskKept
<1>3. ASSUME NEW i \in due' \ seen', walk.at # "through"
      PROVE  walk.offset <= Cardinality(Ahead(i)')
    <2>1. i \in due \ seen /\ i \in InWalk
        BY <1>2, <1>3
    <2>2. Ahead(i) \subseteq Ahead(i)'
        BY <2>1 DEF Ahead, Desk!Before
    <2>3. IsFiniteSet(Ahead(i)') /\ Cardinality(Ahead(i)') \in Nat
        <3>1. IsFiniteSet(InWalk') /\ Ahead(i)' \in SUBSET InWalk'
            BY ListedRowsNext DEF Ahead
        <3>. QED
            BY <3>1, FS_Subset, FS_CardinalityType
    <2>4. Cardinality(Ahead(i)) <= Cardinality(Ahead(i)') /\ Cardinality(Ahead(i)) \in Nat
        <3>1. Ahead(i) \in SUBSET Ahead(i)'
            BY <2>2
        <3>2. Cardinality(Ahead(i)) <= Cardinality(Ahead(i)')
            BY <2>3, <3>1, FS_Subset
        <3>. QED
            BY <1>1, <3>2, AheadType
    <2>5. walk.offset \in Nat /\ walk.offset <= Cardinality(Ahead(i))
        BY <1>1, <1>2, <1>3, <2>1 DEF Walks
    <2>. QED
        BY <2>3, <2>4, <2>5
<1>4. due' \subseteq InWalk'
    BY <1>2
<1>5. walk.at = "counted" => total' = Cardinality(InWalk')
    BY <1>2
<1>6. Desk!PagesMissNone'
    BY <1>1, <1>2 DEF Desk!PagesMissNone
<1>. QED
    BY <1>2, <1>3, <1>4, <1>5, <1>6 DEF DeskKept

(* Every step keeps the types.                                               *)
LEMMA DeskTypesStep == ASSUME DeskTypes, [Desk!Next]_(Desk!vars) PROVE DeskTypes'
<1>. USE DEF DeskTypes
<1>1. ASSUME Desk!Pass PROVE DeskTypes'
    BY <1>1 DEF Desk!Pass, Desk!screen
<1>2. ASSUME NEW i \in Ids, Desk!Submit(i) PROVE DeskTypes'
    <2>1. \A s \in Scores : Desk!NewLead(s) \in DeskRows
        BY WorkspaceAssumption DEF Desk!NewLead, DeskRows, Desk!Statuses
    <2>. QED
        BY <1>2, <2>1 DEF Desk!Submit, Desk!screen
<1>3. ASSUME NEW i \in Ids, Desk!Appear(i) PROVE DeskTypes'
    BY <1>3 DEF Desk!Appear
<1>4. ASSUME NEW i \in Ids, Desk!Move(i) PROVE DeskTypes'
    <2>1. lead[i] \in DeskRows
        BY <1>4 DEF Desk!Move, Desk!Visible
    <2>2. \A to \in Desk!Statuses : [lead[i] EXCEPT !.status = to] \in DeskRows
        BY <2>1 DEF DeskRows
    <2>3. PICK to \in Desk!Statuses : lead' = [lead EXCEPT ![i].status = to]
        BY <1>4 DEF Desk!Move
    <2>4. lead' \in [Ids -> DeskRows \cup {Desk!NoLead}]
        BY <2>1, <2>2, <2>3
    <2>. QED
        BY <1>4, <2>4 DEF Desk!Move
<1>5. ASSUME Desk!Open \/ Desk!Export PROVE DeskTypes'
    <2>1. PICK sort \in Columns \cup {"created_at"}, descending \in BOOLEAN,
               status \in Desk!Statuses \cup {Desk!Anything}, limit \in {PageSize, MaxExport} :
            walk' = [at |-> "turning", sort |-> sort, descending |-> descending,
                     status |-> status, offset |-> 0, limit |-> limit]
        BY <1>5 DEF Desk!Open, Desk!Export
    <2>2. walk' \in Walks
        BY <2>1 DEF Walks
    <2>. QED
        BY <1>5, <2>2 DEF Desk!Open, Desk!Export, Desk!table
<1>6. ASSUME Desk!Count PROVE DeskTypes'
    <2>1. total' \in Nat
        <3>1. IsFiniteSet(Desk!Listed(walk.status))
            BY ListedRows
        <3>. QED
            BY <1>6, <3>1, SameCardinalityDesk, FS_CardinalityType DEF Desk!Count
    <2>2. walk' \in Walks
        BY <1>6 DEF Desk!Count, Walks, Desk!Shut
    <2>. QED
        BY <1>6, <2>1, <2>2 DEF Desk!Count, Desk!table
<1>7. ASSUME Desk!Turn PROVE DeskTypes'
    <2>1. walk \in Walks
        BY <1>7 DEF Desk!Turn, Desk!Shut
    <2>2. walk' \in Walks
        <3>1. walk.offset + walk.limit \in Nat
            BY <2>1, WorkspaceAssumption DEF Walks
        <3>2. PICK at \in {"turning", "through"} :
                walk' = [walk EXCEPT !.offset = walk.offset + walk.limit, !.at = at]
            BY <1>7 DEF Desk!Turn
        <3>. QED
            BY <2>1, <3>1, <3>2 DEF Walks
    <2>3. ASSUME NEW s \in Desk!Orders, NEW a \in Nat, NEW b \in Nat, b <= Len(s)
          PROVE  Desk!ToSet(SubSeq(s, a + 1, b)) \subseteq Ids
        <3>1. s \in Seq(InWalk) /\ InWalk \subseteq Ids
            BY <2>1, <2>3, DeskSorted, ListedRows DEF InWalk
        <3>. HIDE DEF DeskTypes
        <3>2. \A k \in 1..Len(s) : s[k] \in InWalk
            BY <3>1
        <3>. QED
            BY <2>3, <3>1, <3>2, PageOf
    <2> DEFINE to == walk.offset + walk.limit
    <2>4. to \in Nat /\ walk.offset \in Nat
        BY <2>1, WorkspaceAssumption DEF Walks
    <2>5. PICK s \in Desk!Orders :
            seen' = seen \cup Desk!ToSet(SubSeq(s, walk.offset + 1,
                                                IF Len(s) < to THEN Len(s) ELSE to))
        BY <1>7 DEF Desk!Turn
    <2>6. Len(s) \in Nat
        BY <2>1, DeskSorted
    <2>. HIDE DEF to
    <2>7. (IF Len(s) < to THEN Len(s) ELSE to) \in Nat /\ (IF Len(s) < to THEN Len(s) ELSE to) <= Len(s)
        BY <2>4, <2>6
    <2>8. seen' \subseteq Ids
        BY <2>3, <2>4, <2>5, <2>7
    <2>. QED
        BY <1>7, <2>2, <2>8 DEF Desk!Turn, Desk!table
<1>8. CASE UNCHANGED Desk!vars
    BY <1>8 DEF Desk!vars, Desk!table, Desk!screen
<1>. QED
    BY <1>1, <1>2, <1>3, <1>4, <1>5, <1>6, <1>7, <1>8 DEF Desk!Next

(* Turning a page misses none.                                               *)
LEMMA TurnStep == ASSUME DeskInv, DeskTypes', Desk!Turn PROVE DeskKept'
<1>. SUFFICES ASSUME ~slipped PROVE DeskKept'
    BY DEF DeskKept, Desk!Turn
<1>1. /\ walk.at = "counted" /\ walk \in Walks /\ walk # Desk!Shut /\ DeskTypes /\ DeskKept
      /\ UNCHANGED <<Desk!table, due, slipped>>
    BY DEF Desk!Turn, DeskInv, DeskTypes, Desk!Shut
<1> DEFINE to == walk.offset + walk.limit
           n == Cardinality(InWalk)
           last == IF n < to THEN n ELSE to
<1>2. /\ due \subseteq InWalk
      /\ \A i \in due \ seen : walk.offset <= Cardinality(Ahead(i))
      /\ walk.limit # PageSize => walk.offset = 0
      /\ total = n
    BY <1>1 DEF DeskKept
<1>3. /\ walk.offset \in Nat /\ walk.limit \in Nat /\ to \in Nat
      /\ walk.limit \in {PageSize, MaxExport}
    BY <1>1, WorkspaceAssumption DEF Walks
<1>4. PICK s \in Desk!Orders :
        seen' = seen \cup Desk!ToSet(SubSeq(s, walk.offset + 1,
                                            IF Len(s) < to THEN Len(s) ELSE to))
    BY DEF Desk!Turn
<1>5. walk' = [walk EXCEPT !.offset = to,
                 !.at = IF to < total /\ walk.limit = PageSize THEN "turning" ELSE "through"]
    BY DEF Desk!Turn
<1>6. /\ n \in Nat /\ s \in [1..n -> InWalk] /\ s \in Seq(InWalk) /\ Len(s) = n
      /\ \A k, l \in 1..n : k # l => s[k] # s[l]
      /\ \A i \in InWalk : \E k \in 1..n : s[k] = i
    BY <1>1, DeskSorted
<1>7. /\ walk'.offset = to /\ walk'.limit = walk.limit /\ walk'.status = walk.status
      /\ walk'.sort = walk.sort /\ walk'.descending = walk.descending
      /\ walk'.at = IF to < n /\ walk.limit = PageSize THEN "turning" ELSE "through"
    BY <1>1, <1>2, <1>5 DEF Walks
<1>8. InWalk' = InWalk /\ \A i : Ahead(i)' = Ahead(i)
    BY <1>1, <1>7 DEF InWalk, Ahead, Desk!Listed, Desk!Visible, Desk!InList, Desk!table,
       Desk!Before, Desk!Key
<1>9. \A k \in 1..n : Cardinality(Ahead(s[k])) = k - 1
    BY <1>1, AheadOf
<1>. HIDE DEF to, n
<1>10. last \in Nat /\ last <= n /\ last <= to /\ (last = n \/ last = to)
    BY <1>3, <1>6
<1>11. seen' = seen \cup {s[k] : k \in (walk.offset + 1)..last}
    <2>1. Desk!ToSet(SubSeq(s, walk.offset + 1, last)) = {s[k] : k \in (walk.offset + 1)..last}
        <3>. HIDE DEF last
        <3>1. last \in Nat /\ last <= Len(s) /\ walk.offset \in Nat /\ s \in Seq(InWalk)
            BY <1>3, <1>6, <1>10
        <3>. QED
            BY <3>1, PageOf
    <2>. QED
        BY <1>4, <1>6, <2>1
<1>. HIDE DEF last
<1>12. ASSUME NEW i \in due \ seen'
       PROVE  to < n /\ to <= Cardinality(Ahead(i))
    <2>1. i \in InWalk /\ i \in due \ seen
        BY <1>2, <1>11, <1>12
    <2>2. PICK k \in 1..n : s[k] = i
        BY <1>6, <2>1
    <2>3. walk.offset <= k - 1 /\ Cardinality(Ahead(i)) = k - 1
        BY <1>2, <1>9, <2>1, <2>2
    <2>4. k \notin (walk.offset + 1)..last
        BY <1>11, <1>12, <2>2
    <2>. QED
        BY <1>3, <1>6, <1>10, <2>2, <2>3, <2>4
<1>13. ASSUME walk.limit # PageSize, Cardinality(seen') < MaxExport
       PROVE  ~(to < n)
    <2>1. walk.offset = 0 /\ walk.limit = MaxExport /\ to = MaxExport
        BY <1>2, <1>3, <1>13 DEF to
    <2>2. SUFFICES ASSUME to < n PROVE FALSE
        OBVIOUS
    <2>3. last = to
        BY <1>10, <2>2, <1>3, <1>6
    <2>4. \A k \in 1..to : s[k] \in seen' /\ k \in 1..n
        BY <1>3, <1>6, <1>11, <2>1, <2>2, <2>3
    <2> DEFINE f == [k \in 1..to |-> s[k]]
    <2>5. f \in Injection(1..to, seen')
        <3>1. f \in [1..to -> seen']
            BY <2>4
        <3>2. \A k, l \in 1..to : f[k] = f[l] => k = l
            BY <1>6, <2>4
        <3>. QED
            BY <3>1, <3>2 DEF Injection, IsInjective
    <2>6. IsFiniteSet(seen')
        <3>1. seen' \in SUBSET Ids
            BY DEF DeskTypes
        <3>. QED
            BY <3>1, FS_Subset, WorkspaceAssumption
    <2>. HIDE DEF f
    <2>7. Cardinality(1..to) <= Cardinality(seen')
        BY <2>5, <2>6, FS_Injection
    <2>8. Cardinality(1..to) = to
        <3>1. 1 \in Int /\ to \in Int
            BY <1>3
        <3>2. Cardinality(1..to) = IF 1 > to THEN 0 ELSE to - 1 + 1
            BY <3>1, FS_Interval
        <3>. QED
            BY <1>3, <3>2
    <2>9. Cardinality(seen') \in Nat
        BY <2>6, FS_CardinalityType
    <2>. QED
        BY <1>3, <1>13, <2>1, <2>7, <2>8, <2>9
<1>14. due' \subseteq InWalk'
    BY <1>1, <1>2, <1>8
<1>15. ASSUME walk'.at # "through"
       PROVE  /\ \A i \in (due \ seen)' : walk'.offset <= Cardinality(Ahead(i)')
              /\ walk'.limit # PageSize => walk'.offset = 0
    BY <1>1, <1>7, <1>8, <1>12, <1>15
<1>16. walk'.at # "counted"
    BY <1>7
<1>17. Desk!PagesMissNone'
    <2>1. SUFFICES ASSUME walk'.at = "through", walk'.limit = MaxExport => Cardinality(seen') < MaxExport
                   PROVE  due' \subseteq seen'
        BY SameCardinalityDesk DEF Desk!PagesMissNone
    <2>2. ~(to < n)
        <3>1. CASE walk.limit = PageSize
            BY <1>7, <2>1, <3>1
        <3>2. CASE walk.limit # PageSize
            BY <1>3, <1>7, <1>13, <2>1, <3>2
        <3>. QED
            BY <3>1, <3>2
    <2>. QED
        BY <1>1, <1>12, <2>2
<1>. QED
    BY <1>14, <1>15, <1>16, <1>17 DEF DeskKept

(* Every step leaves those that have not been seen yet to come.              *)
LEMMA DeskStep == ASSUME DeskInv, [Desk!Next]_(Desk!vars) PROVE DeskInv'
<1>1. DeskTypes /\ DeskTypes'
    BY DeskTypesStep DEF DeskInv
<1>2. ASSUME Desk!Pass PROVE DeskKept'
    BY <1>1, <1>2, StaysOpen
    DEF Desk!Pass, Desk!screen, InWalk, Desk!Listed, Desk!Visible, Desk!InList, Desk!Key
<1>3. ASSUME NEW i \in Ids, Desk!Submit(i) PROVE DeskKept'
    <2>1. \A j \in Desk!Visible : lead'[j] = lead[j]
        BY <1>1, <1>3 DEF Desk!Submit, Desk!Visible, DeskTypes
    <2>2. Desk!Visible' = Desk!Visible
        BY <1>1, <1>3 DEF Desk!Submit, Desk!Visible, DeskTypes
    <2>3. UNCHANGED <<walk, total, seen, due, slipped>>
        BY <1>3 DEF Desk!Submit, Desk!screen
    <2>. QED
        BY <1>1, <2>1, <2>2, <2>3, StaysOpen DEF InWalk, Desk!Listed, Desk!InList, Desk!Key
<1>4. ASSUME NEW i \in Ids, Desk!Appear(i) PROVE DeskKept'
    <2>1. /\ UNCHANGED <<lead, walk, total, seen, due>>
          /\ slipped' = (slipped \/ (walk.at = "counted" /\ Desk!InList(i, walk.status)))
          /\ Desk!Visible \subseteq Desk!Visible' /\ Desk!Visible' \subseteq Desk!Visible \cup {i}
        BY <1>4 DEF Desk!Appear, Desk!Visible
    <2>2. \A j, status : Desk!InList(j, status)' = Desk!InList(j, status)
        BY <2>1 DEF Desk!InList
    <2>3. \A j : Desk!Key(j)' = Desk!Key(j)
        BY <2>1 DEF Desk!Key
    <2>. QED
        BY <1>1, <2>1, <2>2, <2>3, StaysOpen DEF InWalk, Desk!Listed
<1>5. ASSUME NEW i \in Ids, Desk!Move(i) PROVE DeskKept'
    <2>1. PICK to \in Desk!Statuses \ {lead[i].status} :
            /\ lead' = [lead EXCEPT ![i].status = to]
            /\ IF walk # Desk!Shut /\ walk.status # Desk!Anything
               THEN /\ slipped' = (slipped \/ to # walk.status \/ walk.at = "counted")
                    /\ due' = due \ {i}
               ELSE UNCHANGED <<slipped, due>>
        BY <1>5 DEF Desk!Move
    <2>2. i \in Desk!Visible /\ UNCHANGED <<late, walk, total, seen>>
        BY <1>5 DEF Desk!Move
    <2>3. lead[i] \in DeskRows
        BY <1>1, <2>2 DEF DeskTypes, Desk!Visible
    <2>4. /\ lead'[i].status = to /\ lead'[i].created = lead[i].created
          /\ lead'[i].score = lead[i].score /\ lead'[i] # Desk!NoLead
          /\ \A j \in Ids \ {i} : lead'[j] = lead[j]
        BY <1>1, <2>1, <2>3 DEF DeskTypes, DeskRows, Desk!NoLead, Desk!Statuses
    <2>5. Desk!Visible' = Desk!Visible /\ Desk!Visible \subseteq Ids
        BY <2>2, <2>4 DEF Desk!Visible
    <2>6. \A j \in Ids : Desk!Key(j)' = Desk!Key(j)
        BY <2>2, <2>4 DEF Desk!Key
    <2>7. CASE walk.status = Desk!Anything
        <3>1. UNCHANGED <<slipped, due>> /\ InWalk' = InWalk
            BY <2>1, <2>2, <2>5, <2>7 DEF InWalk, Desk!Listed, Desk!InList
        <3>. QED
            BY <1>1, <2>2, <2>5, <2>6, <3>1, StaysOpen DEF InWalk, Desk!Listed
    <2>8. CASE walk.status # Desk!Anything
        <3>1. walk # Desk!Shut =>
                /\ slipped' = (slipped \/ to # walk.status \/ walk.at = "counted")
                /\ due' = due \ {i}
            BY <2>1, <2>8
        <3>2. to = walk.status => InWalk \subseteq InWalk'
            BY <2>2, <2>4, <2>5, <2>8 DEF InWalk, Desk!Listed, Desk!InList
        <3>3. due' \subseteq due /\ (slipped => slipped')
            BY <2>1
        <3>4. walk # Desk!Shut /\ ~slipped' =>
                /\ InWalk \subseteq InWalk'
                /\ walk.at = "counted" => InWalk' = InWalk
            BY <3>1, <3>2
        <3>5. \A j \in InWalk : Desk!Key(j)' = Desk!Key(j)
            BY <2>5, <2>6 DEF InWalk, Desk!Listed
        <3>. QED
            BY <1>1, <2>2, <3>3, <3>4, <3>5, StaysOpen
    <2>. QED
        BY <2>7, <2>8
<1>6. ASSUME Desk!Open \/ Desk!Export PROVE DeskKept'
    <2>1. PICK status : /\ walk'.status = status /\ due' = Desk!Listed(status)
                        /\ walk'.offset = 0 /\ walk'.at = "turning"
        BY <1>6 DEF Desk!Open, Desk!Export
    <2>2. UNCHANGED Desk!table
        BY <1>6 DEF Desk!Open, Desk!Export
    <2>3. due' = InWalk'
        BY <2>1, <2>2 DEF InWalk, Desk!Listed, Desk!Visible, Desk!InList, Desk!table
    <2>4. \A i : Cardinality(Ahead(i)') \in Nat
        <3>. TAKE i
        <3>1. IsFiniteSet(InWalk') /\ Ahead(i)' \in SUBSET InWalk'
            BY <1>1, ListedRowsNext DEF Ahead
        <3>. QED
            BY <3>1, FS_Subset, FS_CardinalityType
    <2>. QED
        BY <2>1, <2>3, <2>4 DEF DeskKept, Desk!PagesMissNone
<1>7. ASSUME Desk!Count PROVE DeskKept'
    <2>1. walk \in Walks /\ walk.at = "turning" /\ walk # Desk!Shut
        BY <1>1, <1>7 DEF Desk!Count, DeskTypes, Desk!Shut
    <2>2. /\ walk'.at = "counted" /\ walk'.status = walk.status /\ walk'.offset = walk.offset
          /\ walk'.limit = walk.limit /\ walk'.sort = walk.sort
          /\ walk'.descending = walk.descending
        BY <1>7, <2>1 DEF Desk!Count, Walks
    <2>3. UNCHANGED <<Desk!table, seen, due, slipped>> /\ total' = Cardinality(InWalk)
        BY <1>7, SameCardinalityDesk DEF Desk!Count, InWalk
    <2>4. InWalk' = InWalk /\ \A i : Ahead(i)' = Ahead(i)
        BY <2>2, <2>3 DEF InWalk, Ahead, Desk!Listed, Desk!Visible, Desk!InList, Desk!table,
           Desk!Before, Desk!Key
    <2>. QED
        BY <2>1, <2>2, <2>3, <2>4 DEF DeskInv, DeskKept, Desk!PagesMissNone
<1>8. ASSUME Desk!Turn PROVE DeskKept'
    BY <1>1, <1>8, TurnStep
<1>9. ASSUME UNCHANGED Desk!vars PROVE DeskKept'
    <2>1. UNCHANGED <<lead, late, walk, total, seen, due, slipped>>
        BY <1>9 DEF Desk!vars, Desk!table, Desk!screen
    <2>2. InWalk' = InWalk /\ \A j : Desk!Key(j)' = Desk!Key(j)
        BY <2>1 DEF InWalk, Desk!Listed, Desk!Visible, Desk!InList, Desk!Key
    <2>. QED
        BY <1>1, <2>1, <2>2, StaysOpen
<1>. QED
    BY <1>1, <1>2, <1>3, <1>4, <1>5, <1>6, <1>7, <1>8, <1>9 DEF Desk!Next, DeskInv

(* Who goes through the leads has seen each that was there all the time      *)
(* (leads/service.py).                                                       *)
LEMMA NoneMissed == Desk!Spec => []Desk!PagesMissNone
<1>1. DeskInv => Desk!PagesMissNone
    BY DEF DeskInv, DeskKept, Desk!PagesMissNone, Desk!Shut
<1>. QED
    BY <1>1, DeskInit, DeskStep, PTL DEF Desk!Spec

-----------------------------------------------------------------------------
(* ResultScreen: lists and loops                                             *)

(* The cardinality an instance speaks of is the one of FiniteSets.           *)
LEMMA SameCardinalityScreen == \A S : Screen!Cardinality(S) = Cardinality(S)
BY DEF Screen!Cardinality, Cardinality

(* The places of a list of n.                                                *)
Span(n) == 1..n

(* There are n of them.                                                      *)
LEMMA SpanSize == \A n \in Nat : IsFiniteSet(Span(n)) /\ Cardinality(Span(n)) = n
<1>. TAKE n \in Nat
<1>1. 1 \in Int /\ n \in Int
    OBVIOUS
<1>2. IsFiniteSet(1..n) /\ Cardinality(1..n) = IF 1 > n THEN 0 ELSE n - 1 + 1
    BY <1>1, FS_Interval
<1>3. (IF 1 > n THEN 0 ELSE n - 1 + 1) = n
    OBVIOUS
<1>. QED
    BY <1>2, <1>3 DEF Span

(* What Python's sorted() returns: each of the list once, and in order.      *)
LEMMA SortedFacts ==
    ASSUME NEW S, NEW n \in Nat, NEW s \in [Span(n) -> S], NEW key \in [Span(n) -> Int]
    PROVE  \E p \in [Span(n) -> Span(n)] :
              /\ \A i \in Span(n) : \E k \in Span(n) : p[k] = i
              /\ \A k \in Span(n) : Screen!Sorted(s, key)[k] = s[p[k]]
              /\ \A k, l \in Span(n) : k < l => key[p[k]] <= key[p[l]]
              /\ Screen!Sorted(s, key) \in [Span(n) -> S]
<1> DEFINE C == [i \in Span(n) |-> Cardinality(Screen!NotAfter(i, key))]
           Before(j, i) == key[j] < key[i] \/ (key[j] = key[i] /\ j <= i)
<1>1. \A i \in Span(n) : i \in Int /\ key[i] \in Int
    BY DEF Span
<1>2. \A i \in Span(n) : Screen!NotAfter(i, key) = {j \in Span(n) : Before(j, i)}
    BY DEF Screen!NotAfter
<1>3. \A i \in Span(n) : /\ Screen!NotAfter(i, key) \in SUBSET Span(n)
                         /\ i \in Screen!NotAfter(i, key)
    BY <1>1, <1>2
<1>4. \A i \in Span(n) : /\ IsFiniteSet(Screen!NotAfter(i, key))
                         /\ C[i] \in Nat /\ C[i] <= n /\ C[i] # 0
    <2>. TAKE i \in Span(n)
    <2>1. IsFiniteSet(Screen!NotAfter(i, key)) /\ Cardinality(Screen!NotAfter(i, key)) <= n
        BY <1>3, SpanSize, FS_Subset
    <2>2. Cardinality(Screen!NotAfter(i, key)) \in Nat
        BY <2>1, FS_CardinalityType
    <2>3. Cardinality(Screen!NotAfter(i, key)) # 0
        BY <1>3, <2>1, FS_EmptySet
    <2>. QED
        BY <2>1, <2>2, <2>3
<1>5. ASSUME NEW i \in Span(n), NEW j \in Span(n), i # j, Before(j, i)
      PROVE  C[j] < C[i]
    <2>1. Screen!NotAfter(j, key) \subseteq Screen!NotAfter(i, key)
        BY <1>1, <1>2, <1>5
    <2>2. i \notin Screen!NotAfter(j, key)
        BY <1>1, <1>2, <1>5
    <2>3. Screen!NotAfter(j, key) # Screen!NotAfter(i, key)
        BY <1>3, <2>2
    <2>4. /\ Cardinality(Screen!NotAfter(j, key)) <= Cardinality(Screen!NotAfter(i, key))
          /\ Cardinality(Screen!NotAfter(j, key)) # Cardinality(Screen!NotAfter(i, key))
        <3>1. Screen!NotAfter(j, key) \in SUBSET Screen!NotAfter(i, key)
            BY <2>1
        <3>. QED
            BY <1>4, <2>3, <3>1, FS_Subset
    <2>. QED
        BY <1>4, <2>4
<1>6. \A i, j \in Span(n) : i # j => Before(j, i) \/ Before(i, j)
    BY <1>1
<1>7. C \in Injection(Span(n), Span(n))
    <2>1. C \in [Span(n) -> Span(n)]
        BY <1>4 DEF Span
    <2>2. \A i, j \in Span(n) : C[i] = C[j] => i = j
        BY <1>4, <1>5, <1>6
    <2>. HIDE DEF C
    <2>. QED
        BY <2>1, <2>2 DEF Injection, IsInjective
<1>. HIDE DEF C
<1>8. C \in Surjection(Span(n), Span(n))
    BY <1>7, SpanSize, FS_Injection
<1>9. \A k \in Span(n) : \E i \in Span(n) : C[i] = k
    BY <1>8 DEF Surjection
<1>10. \A i, j \in Span(n) : C[i] = C[j] => i = j
    BY <1>7 DEF Injection, IsInjective
<1> DEFINE At(k) == CHOOSE i \in DOMAIN s : Screen!Cardinality(Screen!NotAfter(i, key)) = k
           p == [k \in Span(n) |-> At(k)]
<1>11. \A k \in Span(n) : p[k] \in Span(n) /\ C[p[k]] = k
    <2>. TAKE k \in Span(n)
    <2>1. \E i \in DOMAIN s : Screen!Cardinality(Screen!NotAfter(i, key)) = k
        BY <1>9, SameCardinalityScreen DEF C
    <2>2. At(k) \in DOMAIN s /\ Screen!Cardinality(Screen!NotAfter(At(k), key)) = k
        BY <2>1
    <2>. HIDE DEF At
    <2>. QED
        BY <2>2, SameCardinalityScreen DEF C
<1>12. Screen!Sorted(s, key) = [k \in Span(n) |-> s[p[k]]]
    <2>1. DOMAIN s = Span(n)
        OBVIOUS
    <2>2. \A k \in Span(n) : p[k] = At(k)
        OBVIOUS
    <2>3. Screen!Sorted(s, key) = [k \in Span(n) |-> s[At(k)]]
        BY <2>1 DEF Screen!Sorted
    <2>. HIDE DEF p, At
    <2>. QED
        BY <2>2, <2>3
<1>. HIDE DEF p
<1>13. p \in [Span(n) -> Span(n)]
    BY <1>11 DEF p
<1>14. \A i \in Span(n) : \E k \in Span(n) : p[k] = i
    <2>. TAKE i \in Span(n)
    <2>1. C[i] \in Span(n)
        BY <1>7 DEF Injection
    <2>2. p[C[i]] = i
        BY <1>10, <1>11, <2>1
    <2>. QED
        BY <2>1, <2>2
<1>15. ASSUME NEW k \in Span(n), NEW l \in Span(n), k < l PROVE key[p[k]] <= key[p[l]]
    <2>1. p[k] # p[l] /\ p[k] \in Span(n) /\ p[l] \in Span(n)
        BY <1>11, <1>15 DEF Span
    <2>2. ~Before(p[l], p[k])
        BY <1>5, <1>11, <1>15, <2>1 DEF Span
    <2>. QED
        BY <1>1, <2>1, <2>2
<1>. QED
    BY <1>12, <1>13, <1>14, <1>15

(* The bands of a screen, and the scores of visitors.                        *)
BandRows == [key : Int, min : Int, max : Int]
Values == [total : Int, weight : Nat \ {0}]

(* A score without a remainder is a whole number.                            *)
LEMMA WholeValue ==
    ASSUME NEW v \in Values, v.total % v.weight = 0
    PROVE  \E w \in Int : \A m \in Int : /\ Screen!AtMost(v, m) <=> w <= m
                                         /\ Screen!AtLeast(v, m) <=> m <= w
<1>1. v.total \in Int /\ v.weight \in Nat \ {0}
    BY DEF Values
<1> DEFINE t == v.total
           u == v.weight
<1>2. t \in Int /\ u \in Nat \ {0} /\ t % u = 0
    BY <1>1
<1>. HIDE DEF t, u
<1>3. PICK w \in Int : t = w * u
    BY <1>2, SMT
<1>4. \A m \in Int : (w * u <= m * u <=> w <= m) /\ (w * u >= m * u <=> m <= w)
    BY <1>2, SMT
<1>5. \A m \in Int : /\ Screen!AtMost(v, m) <=> t <= m * u
                     /\ Screen!AtLeast(v, m) <=> t >= m * u
    BY DEF Screen!AtMost, Screen!AtLeast, t, u
<1>. QED
    BY <1>3, <1>4, <1>5

(* A score is in its band, or nearest to it beyond all of them.              *)
Landed(band, v, bands) ==
    \/ Screen!Within(band, v)
    \/ \A i \in DOMAIN bands : ~Screen!AtMost(v, bands[i].max) /\ bands[i].max <= band.max
    \/ \A i \in DOMAIN bands : ~Screen!AtLeast(v, bands[i].min) /\ bands[i].min >= band.min

(* bandFor finds the band of a whole score in every screen that is valid,    *)
(* since nothing lies between two of its bands.                              *)
LEMMA Lands ==
    ASSUME NEW n \in Nat \ {0}, NEW bands \in [Span(n) -> BandRows], Screen!ValidScreen(bands),
           NEW v \in Values, v.total % v.weight = 0
    PROVE  Landed(Screen!BandFor(bands, v), v, bands)
<1> DEFINE key == Screen!Lowest(bands)
           o == Screen!Sorted(bands, key)
<1>1. key = [i \in Span(n) |-> bands[i].min] /\ key \in [Span(n) -> Int]
    BY DEF Screen!Lowest, BandRows
<1>. HIDE DEF key
<1>0. n \in Nat /\ bands \in [Span(n) -> BandRows]
    OBVIOUS
<1>14. BandRows = BandRows /\ o = Screen!Sorted(bands, key)
    OBVIOUS
<1>. HIDE DEF o
<1>15. \E p \in [Span(n) -> Span(n)] :
        /\ \A i \in Span(n) : \E k \in Span(n) : p[k] = i
        /\ \A k \in Span(n) : Screen!Sorted(bands, key)[k] = bands[p[k]]
        /\ \A k, l \in Span(n) : k < l => key[p[k]] <= key[p[l]]
        /\ Screen!Sorted(bands, key) \in [Span(n) -> BandRows]
    <2>1. n \in Nat
        OBVIOUS
    <2>2. bands \in [Span(n) -> BandRows]
        OBVIOUS
    <2>3. key \in [Span(n) -> Int]
        BY <1>1
    <2>. QED
        BY <2>1, <2>2, <2>3, SortedFacts, Zenon
<1>2. PICK p \in [Span(n) -> Span(n)] :
        /\ \A i \in Span(n) : \E k \in Span(n) : p[k] = i
        /\ \A k \in Span(n) : o[k] = bands[p[k]]
        /\ \A k, l \in Span(n) : k < l => key[p[k]] <= key[p[l]]
        /\ o \in [Span(n) -> BandRows]
    BY <1>14, <1>15
<1>3. \A k \in Span(n) : /\ bands[k].min <= bands[k].max
                         /\ k > 1 => o[k].min = o[k - 1].max + 1
    BY DEF Screen!ValidScreen, key, o
<1>4. /\ \A k \in Span(n) : /\ k \in Nat /\ o[k].min \in Int /\ o[k].max \in Int
                            /\ o[k].min <= o[k].max
                            /\ k > 1 => k - 1 \in Span(n) /\ o[k].min = o[k - 1].max + 1
      /\ \A k, l \in Span(n) : k < l => o[k].min <= o[l].min
    <2>1. \A k \in Span(n) : o[k] = bands[p[k]] /\ p[k] \in Span(n) /\ key[p[k]] = o[k].min
        BY <1>1, <1>2
    <2>2. \A k \in Span(n) : o[k].min \in Int /\ o[k].max \in Int /\ o[k].min <= o[k].max
        BY <1>2, <1>3, <2>1 DEF BandRows
    <2>3. \A k \in Span(n) : k \in Nat /\ (k > 1 => k - 1 \in Span(n))
        BY DEF Span
    <2>4. \A k, l \in Span(n) : k < l => o[k].min <= o[l].min
        BY <1>2, <2>1
    <2>5. ASSUME NEW k \in Span(n), k > 1
          PROVE  k - 1 \in Span(n) /\ o[k].min = o[k - 1].max + 1
        BY <1>3, <2>3, <2>5
    <2>. QED
        BY <2>2, <2>3, <2>4, <2>5
<1>5. \A i \in Span(n) : \E k \in Span(n) : bands[i] = o[k]
    BY <1>2
<1>6. 1 \in Span(n) /\ n \in Span(n) /\ Len(o) = n /\ DOMAIN o = Span(n)
    BY <1>2 DEF Span
<1>7. PICK w \in Int : \A m \in Int : /\ Screen!AtMost(v, m) <=> w <= m
                                      /\ Screen!AtLeast(v, m) <=> m <= w
    BY WholeValue
<1> DEFINE holding == {i \in Span(n) : Screen!Within(o[i], v)}
           band == IF holding # {} THEN o[CHOOSE i \in holding : \A j \in holding : i <= j]
                   ELSE IF ~Screen!AtMost(v, o[n].max) THEN o[n] ELSE o[1]
<1>8. Screen!BandFor(bands, v) = band
    BY <1>6 DEF Screen!BandFor, o, key
<1>9. \A k \in Span(n) : k \in holding <=> o[k].min <= w /\ w <= o[k].max
    BY <1>4, <1>7 DEF Screen!Within
<1>10. ASSUME holding # {} PROVE Screen!Within(band, v)
    <2>1. holding \in SUBSET Nat
        BY <1>4
    <2>2. \E i \in holding : \A j \in holding : i <= j
        <3>. HIDE DEF holding
        <3>. QED
            BY <1>10, <2>1, LeastNat
    <2> DEFINE first == CHOOSE i \in holding : \A j \in holding : i <= j
    <2>3. first \in holding
        <3>. HIDE DEF holding
        <3>. QED
            BY <2>2
    <2>4. band = o[first]
        BY <1>10
    <2>. HIDE DEF first
    <2>. QED
        BY <2>3, <2>4
<1>11. ASSUME holding = {}, ~Screen!AtMost(v, o[n].max)
       PROVE  \A k \in Span(n) : ~Screen!AtMost(v, o[k].max) /\ o[k].max <= o[n].max
    <2>1. ASSUME NEW k \in Span(n) PROVE o[k].max <= o[n].max
        <3>1. CASE k = n
            BY <1>4, <3>1
        <3>2. CASE k # n
            <4>1. k + 1 \in Span(n) /\ k + 1 > 1 /\ (k + 1) - 1 = k /\ k + 1 <= n
                BY <2>1, <3>2 DEF Span
            <4>2. o[k + 1].min = o[k].max + 1 /\ o[k + 1].min \in Int
                BY <1>4, <4>1
            <4>3. o[k + 1].min <= o[n].min
                <5>1. CASE k + 1 = n
                    BY <4>2, <5>1
                <5>2. CASE k + 1 # n
                    BY <1>4, <1>6, <2>1, <4>1, <5>2
                <5>. QED
                    BY <5>1, <5>2
            <4>. QED
                BY <1>4, <1>6, <2>1, <4>2, <4>3
        <3>. QED
            BY <3>1, <3>2
    <2>2. o[n].max < w
        BY <1>4, <1>6, <1>7, <1>11
    <2>3. ASSUME NEW k \in Span(n) PROVE ~Screen!AtMost(v, o[k].max)
        <3>1. o[k].max \in Int /\ o[n].max \in Int /\ o[k].max <= o[n].max
            BY <1>4, <1>6, <2>1, <2>3
        <3>. QED
            BY <1>7, <2>2, <3>1
    <2>. QED
        BY <2>1, <2>3
<1>12. ASSUME holding = {}, Screen!AtMost(v, o[n].max)
       PROVE  \A k \in Span(n) : ~Screen!AtLeast(v, o[k].min) /\ o[k].min >= o[1].min
    <2>1. w < o[1].min
        <3> DEFINE X == {k \in Nat : k \in Span(n) /\ w <= o[k].max}
        <3>1. n \in X
            BY <1>4, <1>6, <1>7, <1>12
        <3>2. PICK k \in X : \A l \in X : k <= l
            <4>1. X \in SUBSET Nat
                OBVIOUS
            <4>. HIDE DEF X
            <4>. QED
                BY <3>1, <4>1, LeastNat
        <3>3. k \in Span(n) /\ w <= o[k].max /\ k \in Nat
            BY <3>2
        <3>4. w < o[k].min
            BY <1>4, <1>9, <1>12, <3>3
        <3>5. k = 1
            <4>1. SUFFICES ASSUME k > 1 PROVE FALSE
                BY <3>3 DEF Span
            <4>2. k - 1 \in Span(n) /\ k - 1 \in Nat /\ o[k].min = o[k - 1].max + 1
                BY <1>4, <3>3, <4>1
            <4>3. k - 1 \in X
                BY <1>4, <3>4, <4>2
            <4>. QED
                BY <3>2, <3>3, <4>3
        <3>. QED
            BY <3>4, <3>5
    <2>2. \A k \in Span(n) : o[1].min <= o[k].min
        <3>1. \A k \in Span(n) : k = 1 \/ 1 < k
            BY DEF Span
        <3>. QED
            BY <1>4, <1>6, <3>1
    <2>3. \A k \in Span(n) : ~Screen!AtLeast(v, o[k].min)
        BY <1>4, <1>6, <1>7, <2>1, <2>2
    <2>. QED
        BY <1>4, <1>6, <2>2, <2>3
<1>13. DOMAIN bands = Span(n)
    OBVIOUS
<1>. QED
    BY <1>5, <1>8, <1>10, <1>11, <1>12, <1>13 DEF Landed

(* What holds at first and is carried on from one to the next holds of all.  *)
LEMMA Carried ==
    ASSUME NEW a \in Nat, NEW b \in Nat, NEW S, NEW f,
           f[a] \in S, \A i \in (a + 1)..b : f[i - 1] \in S => f[i] \in S
    PROVE  \A i \in a..b : f[i] \in S
<1> DEFINE X == {m \in Nat : m \in a..b /\ f[m] \notin S}
<1>1. SUFFICES ASSUME X # {} PROVE FALSE
    OBVIOUS
<1>2. PICK m \in X : \A l \in X : m <= l
    <2>1. X \in SUBSET Nat
        OBVIOUS
    <2>. HIDE DEF X
    <2>. QED
        BY <1>1, <2>1, LeastNat
<1>3. m \in Nat /\ m \in a..b /\ f[m] \notin S /\ m # a
    BY <1>2
<1>4. m - 1 \in Nat /\ m - 1 \in a..b /\ m \in (a + 1)..b
    BY <1>3
<1>5. m - 1 \notin X
    BY <1>2, <1>3, <1>4
<1>. QED
    BY <1>3, <1>4, <1>5

(* What is worked out in a loop from a to b.                                 *)
Runs(f, a, b, base, G) ==
    \A i \in a..b : f[i] = IF i = a THEN base ELSE G[i][f[i - 1]]

Steps(a, b, S) == [(a + 1)..b -> [S -> S]]

(* Such a loop has an outcome.                                               *)
LEMMA Recursion ==
    ASSUME NEW a \in Nat, NEW b \in Nat, NEW S, NEW base \in S,
           NEW G \in Steps(a, b, S)
    PROVE  \E f \in [a..b -> S] : Runs(f, a, b, base, G)
<1> DEFINE Upto(f, m) == \A i \in a..m : f[i] = IF i = a THEN base ELSE G[i][f[i - 1]]
           X == {m \in Nat : m <= b /\ ~ \E f \in [a..m -> S] : Upto(f, m)}
<1>1. SUFFICES ASSUME X # {} PROVE FALSE
    <2>1. b \in Nat /\ b <= b /\ b \notin X
        BY <1>1
    <2>. QED
        BY <2>1 DEF Runs
<1>2. PICK m \in X : \A l \in X : m <= l
    <2>1. X \in SUBSET Nat
        OBVIOUS
    <2>. HIDE DEF X
    <2>. QED
        BY <1>1, <2>1, LeastNat
<1>0. \A i \in (a + 1)..b : G[i] \in [S -> S]
    BY DEF Steps
<1>3. m \in Nat /\ m <= b /\ ~ \E f \in [a..m -> S] : Upto(f, m)
    BY <1>2
<1>4. CASE m <= a
    <2> DEFINE f == [i \in a..m |-> base]
    <2>1. f \in [a..m -> S] /\ Upto(f, m)
        BY <1>3, <1>4
    <2>. QED
        BY <1>3, <2>1
<1>5. CASE m > a
    <2>1. m - 1 \in Nat /\ m - 1 <= b /\ m - 1 \notin X
        <3>1. m - 1 \in Nat /\ m - 1 <= b /\ ~(m <= m - 1)
            BY <1>3, <1>5
        <3>. HIDE DEF X
        <3>. QED
            BY <1>2, <3>1
    <2>2. PICK f \in [a..(m - 1) -> S] : Upto(f, m - 1)
        BY <2>1
    <2> DEFINE g == [i \in a..m |-> IF i = m THEN G[m][f[m - 1]] ELSE f[i]]
    <2>3. f[m - 1] \in S /\ G[m][f[m - 1]] \in S
        <3>1. m \in (a + 1)..b /\ m - 1 \in a..(m - 1)
            BY <1>3, <1>5
        <3>. QED
            BY <1>0, <2>2, <3>1
    <2>4. g \in [a..m -> S]
        BY <1>3, <2>2, <2>3
    <2>5. ASSUME NEW i \in a..m PROVE g[i] = IF i = a THEN base ELSE G[i][g[i - 1]]
        <3>1. CASE i = m
            BY <1>3, <1>5, <2>2, <3>1
        <3>2. CASE i # m
            <4>1. i \in a..(m - 1) /\ g[i] = f[i]
                BY <1>3, <2>5, <3>2
            <4>2. i # a => i - 1 \in a..m /\ i - 1 # m /\ g[i - 1] = f[i - 1]
                BY <1>3, <2>5, <3>2
            <4>3. f[i] = IF i = a THEN base ELSE G[i][f[i - 1]]
                BY <2>2, <4>1
            <4>. HIDE DEF g
            <4>. QED
                BY <4>1, <4>2, <4>3
        <3>. QED
            BY <3>1, <3>2
    <2>. HIDE DEF g
    <2>6. Upto(g, m)
        BY <2>5
    <2>. QED
        BY <1>3, <2>4, <2>6
<1>. QED
    BY <1>3, <1>4, <1>5

(* The sum over the questions is a number, and a natural one of weights.     *)
LEMMA SumType ==
    ASSUME NEW d, NEW worth, d.asks \in Seq(DOMAIN Weight),
           NEW S, S = Int \/ S = Nat, \A q \in DOMAIN worth : worth[q] \in S
    PROVE  Screen!Sum(d, worth) \in S
<1> DEFINE n == Len(d.asks)
           add == [i \in 1..n |-> IF d.asks[i] \in DOMAIN worth THEN worth[d.asks[i]] ELSE 0]
           Step(f) == [i \in 0..n |-> IF i = 0 THEN 0 ELSE f[i - 1] +
                         (IF d.asks[i] \in DOMAIN worth THEN worth[d.asks[i]] ELSE 0)]
           upTo == CHOOSE f : f = Step(f)
<1>1. n \in Nat /\ 0 \in S /\ 0 \in Nat
    OBVIOUS
<1>2. \A i \in 1..n : add[i] \in S
    BY <1>1
<1>. HIDE DEF n
<1>3. \E f : f = Step(f)
    <2> DEFINE G == [i \in (0 + 1)..n |-> [x \in S |-> x + add[i]]]
    <2>1. G \in [(0 + 1)..n -> [S -> S]]
        <3>1. \A i \in (0 + 1)..n : \A x \in S : x + add[i] \in S
            <4>. HIDE DEF add
            <4>. QED
                BY <1>1, <1>2
        <3>. HIDE DEF add
        <3>. QED
            BY <3>1
    <2>2. PICK f \in [0..n -> S] :
             \A i \in 0..n : f[i] = IF i = 0 THEN 0 ELSE G[i][f[i - 1]]
        <3>1. 0 \in Nat /\ n \in Nat /\ 0 \in S
            BY <1>1
        <3>2. G \in Steps(0, n, S)
            BY <2>1 DEF Steps
        <3>. HIDE DEF G
        <3>3. \E f \in [0..n -> S] : Runs(f, 0, n, 0, G)
            BY <3>1, <3>2, Recursion
        <3>. QED
            BY <3>3 DEF Runs
    <2>3. ASSUME NEW i \in 0..n, i # 0
          PROVE  f[i] = f[i - 1] + (IF d.asks[i] \in DOMAIN worth THEN worth[d.asks[i]] ELSE 0)
        <3>1. i \in (0 + 1)..n /\ i \in 1..n /\ i - 1 \in 0..n
            BY <1>1, <2>3
        <3>2. f[i] = G[i][f[i - 1]] /\ f[i - 1] \in S
            <4>. HIDE DEF G
            <4>. QED
                BY <2>2, <2>3, <3>1
        <3>3. G[i] = [x \in S |-> x + add[i]]
            BY <3>1
        <3>4. f[i] = f[i - 1] + add[i]
            BY <3>2, <3>3
        <3>. QED
            BY <3>1, <3>4
    <2>4. f = Step(f)
        BY <2>2, <2>3
    <2>. QED
        BY <2>4
<1>4. upTo = Step(upTo)
    <2>. HIDE DEF Step
    <2>. QED
        BY <1>3
<1>5. Screen!Sum(d, worth) = upTo[n]
    BY DEF Screen!Sum, n
<1>. HIDE DEF upTo
<1>6. upTo[0] \in S
    BY <1>1, <1>4
<1>7. \A i \in (0 + 1)..n : upTo[i - 1] \in S => upTo[i] \in S
    <2>. TAKE i \in (0 + 1)..n
    <2>1. i \in 0..n /\ i # 0 /\ i \in 1..n
        BY <1>1
    <2>2. upTo[i] = upTo[i - 1] + add[i]
        BY <1>4, <2>1
    <2>3. add[i] \in S
        BY <1>2, <2>1
    <2>. HIDE DEF add
    <2>. QED
        BY <2>2, <2>3
<1>8. \A i \in 0..n : upTo[i] \in S
    BY <1>1, <1>6, <1>7, Carried
<1>. QED
    BY <1>1, <1>5, <1>8

(* Screens, those that are valid, and the decisions there may be.            *)
Rows == UNION {[Span(n) -> BandRows] : n \in Nat \ {0}}
Drawn == {b \in Rows : Screen!ValidScreen(b)}
Designs ==
    [asks : Seq(DOMAIN Weight), results : Seq([min : Int, max : Int]) \ {<<>>},
     kind : {"weighted_score", "linear_estimate"}, clamped : BOOLEAN]

(* Bands that are snapped together are bands.                                *)
LEMMA RepairedType ==
    ASSUME NEW n \in Nat \ {0}, NEW bands \in [Span(n) -> BandRows]
    PROVE  Screen!Repaired(bands) \in [Span(n) -> BandRows]
<1> DEFINE key == Screen!Lowest(bands)
           o == Screen!Sorted(bands, key)
           Snap(f) == [i \in 1..Len(bands) |->
                         IF i = 1 THEN 0
                         ELSE Screen!Smaller(Top, Screen!Larger(f[i - 1], o[i - 1].max) + 1)]
           cursor == CHOOSE f : f = Snap(f)
<1>1. key \in [Span(n) -> Int]
    BY DEF Screen!Lowest, BandRows
<1>2. o \in [Span(n) -> BandRows]
    <2>1. n \in Nat /\ bands \in [Span(n) -> BandRows]
        OBVIOUS
    <2>. HIDE DEF key
    <2>2. \E p \in [Span(n) -> Span(n)] :
             /\ \A i \in Span(n) : \E k \in Span(n) : p[k] = i
             /\ \A k \in Span(n) : Screen!Sorted(bands, key)[k] = bands[p[k]]
             /\ \A k, l \in Span(n) : k < l => key[p[k]] <= key[p[l]]
             /\ Screen!Sorted(bands, key) \in [Span(n) -> BandRows]
        BY <1>1, <2>1, SortedFacts, Zenon
    <2>. QED
        BY <2>2
<1>3. Len(bands) = n /\ n \in Nat /\ 1..n = Span(n)
    BY DEF Span
<1>4. Screen!Repaired(bands) =
         [i \in 1..n |-> [o[i] EXCEPT !.min = cursor[i],
                                      !.max = IF i = n THEN Top ELSE Screen!Larger(cursor[i], @)]]
    BY <1>3 DEF Screen!Repaired
<1>. HIDE DEF o
<1>5. \A x \in Int : \A i \in (1 + 1)..n :
         Screen!Smaller(Top, Screen!Larger(x, o[i - 1].max) + 1) \in Int
    <2>. TAKE x \in Int
    <2>. TAKE i \in (1 + 1)..n
    <2>1. i - 1 \in Span(n)
        BY <1>3
    <2>2. o[i - 1].max \in Int
        BY <1>2, <2>1 DEF BandRows
    <2>. QED
        BY <2>2, WorkspaceAssumption DEF Screen!Smaller, Screen!Larger
<1>6. \E f : f = Snap(f)
    <2> DEFINE G == [i \in (1 + 1)..n |-> [x \in Int |->
                        Screen!Smaller(Top, Screen!Larger(x, o[i - 1].max) + 1)]]
    <2>1. G \in Steps(1, n, Int)
        BY <1>5 DEF Steps
    <2>2. PICK f \in [1..n -> Int] : Runs(f, 1, n, 0, G)
        <3>1. 1 \in Nat /\ n \in Nat /\ 0 \in Int
            BY <1>3
        <3>. HIDE DEF G
        <3>2. \E f \in [1..n -> Int] : Runs(f, 1, n, 0, G)
            BY <2>1, <3>1, Recursion
        <3>. QED
            BY <3>2
    <2>3. ASSUME NEW i \in 1..n, i # 1
          PROVE  f[i] = Screen!Smaller(Top, Screen!Larger(f[i - 1], o[i - 1].max) + 1)
        <3>1. i \in (1 + 1)..n /\ i - 1 \in 1..n
            BY <1>3, <2>3
        <3>2. f[i] = G[i][f[i - 1]] /\ f[i - 1] \in Int
            <4>. HIDE DEF G
            <4>. QED
                BY <2>2, <2>3, <3>1 DEF Runs
        <3>. QED
            BY <3>1, <3>2
    <2>. HIDE DEF G
    <2>4. 1 \in 1..n => f[1] = 0
        BY <2>2 DEF Runs
    <2>5. f = [i \in 1..n |-> IF i = 1 THEN 0
               ELSE Screen!Smaller(Top, Screen!Larger(f[i - 1], o[i - 1].max) + 1)]
        BY <2>2, <2>3, <2>4
    <2>. QED
        BY <1>3, <2>5
<1>7. cursor = Snap(cursor)
    <2>. HIDE DEF Snap
    <2>. QED
        BY <1>6
<1>. HIDE DEF cursor
<1>8. \A i \in 1..n : cursor[i] \in Int
    <2>1. cursor[1] \in Int
        BY <1>3, <1>7 DEF Span
    <2>2. \A i \in (1 + 1)..n : cursor[i - 1] \in Int => cursor[i] \in Int
        <3>. TAKE i \in (1 + 1)..n
        <3>1. i \in 1..n /\ i # 1
            BY <1>3
        <3>2. cursor[i] = Screen!Smaller(Top, Screen!Larger(cursor[i - 1], o[i - 1].max) + 1)
            BY <1>3, <1>7, <3>1
        <3>. QED
            BY <1>5, <3>2
    <2>3. 1 \in Nat /\ n \in Nat
        BY <1>3
    <2>. QED
        BY <2>1, <2>2, <2>3, Carried
<1>9. ASSUME NEW i \in 1..n
      PROVE  [o[i] EXCEPT !.min = cursor[i],
                          !.max = IF i = n THEN Top ELSE Screen!Larger(cursor[i], @)] \in BandRows
    <2>1. o[i] \in BandRows /\ cursor[i] \in Int
        BY <1>2, <1>3, <1>8, <1>9
    <2>2. Top \in Int /\ Screen!Larger(cursor[i], o[i].max) \in Int
        BY <2>1, WorkspaceAssumption DEF BandRows, Screen!Larger
    <2>. QED
        BY <2>1, <2>2 DEF BandRows
<1> DEFINE Snapped(i) == [o[i] EXCEPT !.min = cursor[i],
                           !.max = IF i = n THEN Top ELSE Screen!Larger(cursor[i], @)]
<1>10. Screen!Repaired(bands) = [i \in Span(n) |-> Snapped(i)]
    BY <1>3, <1>4
<1>11. \A i \in Span(n) : Snapped(i) \in BandRows
    BY <1>3, <1>9
<1>. HIDE DEF Snapped
<1>. QED
    BY <1>10, <1>11

(* What is derived from a decision is a screen.                              *)
LEMMA DerivedType ==
    ASSUME NEW d \in Designs \cup {Screen!NoDecision} PROVE Screen!Derived(d) \in Rows
<1>1. CASE d = Screen!NoDecision
    <2> DEFINE whole == <<[key |-> 0, min |-> 0, max |-> Top]>>
    <2>1. [key |-> 0, min |-> 0, max |-> Top] \in BandRows
        BY WorkspaceAssumption DEF BandRows
    <2>2. whole \in [Span(1) -> BandRows]
        BY <2>1 DEF Span
    <2>3. Screen!Derived(d) = whole
        BY <1>1 DEF Screen!Derived
    <2>4. 1 \in Nat \ {0}
        OBVIOUS
    <2>. HIDE DEF whole
    <2>. QED
        BY <2>2, <2>3, <2>4 DEF Rows
<1>2. CASE d # Screen!NoDecision
    <2> DEFINE n == Len(d.results)
               r == d.results
               key == Screen!HighestFirst(r)
               s == Screen!Sorted(r, key)
               bands == [i \in DOMAIN s |-> Screen!BandOf(s[i], i)]
    <2>1. d \in Designs
        BY <1>2
    <2>2. r \in Seq([min : Int, max : Int]) /\ r # <<>>
        BY <2>1 DEF Designs
    <2>3. n \in Nat \ {0} /\ n \in Nat /\ r \in [Span(n) -> [min : Int, max : Int]]
        <3> DEFINE T == [min : Int, max : Int]
        <3>1. r \in Seq(T) /\ r # <<>>
            BY <2>2
        <3>. HIDE DEF T, r
        <3>2. Len(r) \in Nat /\ Len(r) # 0 /\ r \in [1..Len(r) -> T]
            BY <3>1
        <3>. QED
            BY <3>2 DEF Span, T, r
    <2>. HIDE DEF n, r
    <2>4. key \in [Span(n) -> Int]
        <3>1. \A i \in Span(n) : -Screen!Larger(r[i].min, 0) \in Int
            BY <2>3 DEF Screen!Larger
        <3>. QED
            BY <2>3, <3>1 DEF Screen!HighestFirst
    <2>. HIDE DEF key
    <2>5. s \in [Span(n) -> [min : Int, max : Int]]
        <3> DEFINE T == [min : Int, max : Int]
        <3>1. r \in [Span(n) -> T]
            BY <2>3
        <3>. HIDE DEF T
        <3>2. \E p \in [Span(n) -> Span(n)] :
                 /\ \A i \in Span(n) : \E k \in Span(n) : p[k] = i
                 /\ \A k \in Span(n) : Screen!Sorted(r, key)[k] = r[p[k]]
                 /\ \A k, l \in Span(n) : k < l => key[p[k]] <= key[p[l]]
                 /\ Screen!Sorted(r, key) \in [Span(n) -> T]
            BY <2>3, <2>4, <3>1, SortedFacts, Zenon
        <3>3. s \in [Span(n) -> T]
            BY <3>2
        <3>. HIDE DEF s
        <3>. QED
            BY <3>3 DEF T
    <2>6. Screen!Derived(d) = Screen!Repaired(bands)
        BY <1>2 DEF Screen!Derived, r, key
    <2>. HIDE DEF s
    <2>7. bands \in [Span(n) -> BandRows]
        <3>1. ASSUME NEW i \in Span(n) PROVE Screen!BandOf(s[i], i) \in BandRows
            <4>1. i \in Int /\ s[i].min \in Int /\ s[i].max \in Int /\ Top \in Int
                BY <2>5, <3>1, WorkspaceAssumption DEF Span
            <4>. QED
                BY <4>1 DEF Screen!BandOf, BandRows, Screen!Smaller, Screen!Larger
        <3>2. DOMAIN s = Span(n)
            BY <2>5
        <3>. QED
            BY <3>1, <3>2
    <2>. HIDE DEF bands
    <2>8. Screen!Repaired(bands) \in [Span(n) -> BandRows]
        BY <2>3, <2>7, RepairedType
    <2>. QED
        BY <2>3, <2>6, <2>8 DEF Rows
<1>. QED
    BY <1>1, <1>2

(* The answers a page may hold.                                              *)
Answered == UNION {[D -> Int] : D \in SUBSET DOMAIN Weight}

(* The score is a total over a weight that is not zero.                      *)
LEMMA ValueType ==
    ASSUME NEW d \in Designs \cup {Screen!NoDecision}, NEW answers \in Answered
    PROVE  Screen!Value(d, answers) \in Values
<1> DEFINE weighted == [q \in DOMAIN answers |-> Weight[q] * answers[q]]
           weight == [q \in DOMAIN answers |-> Weight[q]]
           a == Screen!Sum(d, weighted)
           w == Screen!Sum(d, weight)
<1>1. d.asks \in Seq(DOMAIN Weight)
    <2>1. CASE d \in Designs
        BY <2>1 DEF Designs
    <2>2. CASE d = Screen!NoDecision
        BY <2>2 DEF Screen!NoDecision
    <2>. QED
        BY <2>1, <2>2
<1>2. \A q \in DOMAIN answers : Weight[q] \in Nat /\ answers[q] \in Int
    BY WorkspaceAssumption DEF Answered
<1>3. a \in Int
    <2>1. \A q \in DOMAIN weighted : weighted[q] \in Int
        BY <1>2
    <2>. HIDE DEF weighted
    <2>. QED
        BY <1>1, <2>1, SumType
<1>4. w \in Nat
    <2>1. \A q \in DOMAIN weight : weight[q] \in Nat
        BY <1>2
    <2>. HIDE DEF weight
    <2>. QED
        BY <1>1, <2>1, SumType
<1>5. Screen!Value(d, answers) =
         CASE d = Screen!NoDecision -> Screen!Zero
           [] d.kind = "weighted_score" ->
                 IF w = 0 THEN Screen!Zero ELSE [total |-> a, weight |-> w]
           [] OTHER -> IF d.clamped /\ ~Screen!AtMost([total |-> a, weight |-> 1], Top)
                       THEN [total |-> Top, weight |-> 1] ELSE [total |-> a, weight |-> 1]
    BY DEF Screen!Value
<1>. HIDE DEF a, w
<1>6. /\ Screen!Zero \in Values
      /\ [total |-> a, weight |-> 1] \in Values /\ [total |-> Top, weight |-> 1] \in Values
      /\ w # 0 => [total |-> a, weight |-> w] \in Values
    BY <1>3, <1>4, WorkspaceAssumption DEF Values, Screen!Zero
<1>7. CASE d = Screen!NoDecision
    BY <1>5, <1>6, <1>7
<1>8. CASE d # Screen!NoDecision /\ d.kind = "weighted_score"
    BY <1>5, <1>6, <1>8
<1>9. CASE d # Screen!NoDecision /\ d.kind # "weighted_score"
    BY <1>5, <1>6, <1>9
<1>. QED
    BY <1>7, <1>8, <1>9

(* What may be in force, and a page that is being answered.                  *)
AllDesigns == Designs \cup {Screen!NoDecision}
Apps == [decision : AllDesigns, bands : Drawn]
Questions ==
    [at : {"questions"}, live : Apps, overlay : Apps \cup {Screen!NoApp}, fetched : BOOLEAN,
     step : Nat \ {0}, answers : Answered, late : BOOLEAN]

(* Until what is in force arrives late, the questions before the current one *)
(* are answered, and no others are but it.                                   *)
AskedInTurn(p) ==
    LET asks == p.live.decision.asks IN
    ~p.late => /\ p.step <= Len(asks) + 1
               /\ \A i \in DOMAIN asks : i < p.step => asks[i] \in DOMAIN p.answers
               /\ \A q \in DOMAIN p.answers :
                     \E i \in DOMAIN asks : i <= p.step /\ asks[i] = q

(* A page with its result.                                                   *)
Shown(p) ==
    /\ p.fetched = TRUE /\ p.overlay = Screen!NoApp /\ p.at = "result"
    /\ p.value.total % p.value.weight = 0 => Landed(p.band, p.value, p.bands)
    /\ ~p.late => DOMAIN p.answers = {p.decision.asks[i] : i \in DOMAIN p.decision.asks}

(* The row, the app and the page hold what is valid only.                    *)
RowKept ==
    /\ tool.decision \in AllDesigns
    /\ tool.screen \in Drawn \cup {Screen!NoScreen}

AppKept == app \in Apps \cup {Screen!NoApp}

PageKept ==
    \/ page = Screen!Closed
    \/ page \in Questions /\ AskedInTurn(page)
    \/ Shown(page)

ScreenInv == DOMAIN tool = {"status", "decision", "screen"} /\ RowKept /\ AppKept /\ PageKept

(* What is saved is of the kinds above.                                      *)
LEMMA Inputs ==
    /\ Decisions \cup Edits \subseteq Designs
    /\ \A b \in Screens : Screen!ValidScreen(b) => b \in Drawn
<1>1. Decisions \cup Edits \subseteq Designs
    BY WorkspaceAssumption DEF Designs
<1>2. ASSUME NEW b \in Screens PROVE b \in Rows
    <2>1. b \in Seq(BandRows) /\ b # <<>>
        BY WorkspaceAssumption DEF BandRows
    <2>2. Len(b) \in Nat \ {0} /\ b \in [Span(Len(b)) -> BandRows]
        <3>1. Len(b) \in Nat /\ Len(b) # 0 /\ b \in [1..Len(b) -> BandRows]
            BY <2>1
        <3>. QED
            BY <3>1 DEF Span
    <2>. QED
        BY <2>2 DEF Rows
<1>. QED
    BY <1>1, <1>2 DEF Drawn

(* What is fetched is valid.                                                 *)
LEMMA EffectiveDrawn ==
    ASSUME RowKept, Screen!ValidScreen(Screen!Effective) PROVE Screen!Effective \in Drawn
<1>1. CASE tool.screen # Screen!NoScreen
    BY <1>1 DEF RowKept, Screen!Effective
<1>2. CASE tool.screen = Screen!NoScreen
    <2>1. tool.decision \in Designs \cup {Screen!NoDecision}
        BY DEF RowKept, AllDesigns
    <2>2. Screen!Derived(tool.decision) \in Rows
        BY <2>1, DerivedType
    <2>3. Screen!Effective = Screen!Derived(tool.decision)
        BY <1>2 DEF Screen!Effective
    <2>. QED
        BY <2>2, <2>3 DEF Drawn
<1>. QED
    BY <1>1, <1>2

(* Every step keeps the row.                                                 *)
LEMMA RowStep ==
    ASSUME ScreenInv, Screen!Next
    PROVE  DOMAIN tool' = {"status", "decision", "screen"} /\ RowKept'
<1>1. CASE UNCHANGED tool
    BY <1>1 DEF ScreenInv, RowKept
<1>2. ASSUME NEW d \in AllDesigns, NEW st, tool' = [tool EXCEPT !.status = st, !.decision = d]
      PROVE  DOMAIN tool' = {"status", "decision", "screen"} /\ RowKept'
    BY <1>2 DEF ScreenInv, RowKept
<1>3. tool.decision \in AllDesigns
    BY DEF ScreenInv, RowKept
<1>4. CASE Screen!Build \/ Screen!BuildFails
    BY <1>4 DEF ScreenInv, RowKept, Screen!Build, Screen!BuildFails
<1>5. ASSUME NEW d \in Edits \cup {Screen!NoDecision, tool.decision}, Screen!Rebuild(d)
      PROVE  DOMAIN tool' = {"status", "decision", "screen"} /\ RowKept'
    <2>1. d \in AllDesigns
        BY <1>3, Inputs DEF AllDesigns
    <2>. QED
        BY <1>2, <1>5, <2>1 DEF Screen!Rebuild
<1>6. ASSUME NEW d \in Edits, Screen!PutDecision(d)
      PROVE  DOMAIN tool' = {"status", "decision", "screen"} /\ RowKept'
    <2>1. d \in AllDesigns
        BY Inputs DEF AllDesigns
    <2>. QED
        BY <1>6, <2>1 DEF Screen!PutDecision, ScreenInv, RowKept
<1>7. ASSUME NEW b \in Screens \cup {Screen!NoScreen}, Screen!PutOutcomes(b)
      PROVE  DOMAIN tool' = {"status", "decision", "screen"} /\ RowKept'
    <2>1. b \in Drawn \cup {Screen!NoScreen}
        BY <1>7, Inputs DEF Screen!PutOutcomes
    <2>. QED
        BY <1>7, <2>1 DEF Screen!PutOutcomes, ScreenInv, RowKept
<1>. QED
    BY <1>1, <1>4, <1>5, <1>6, <1>7
    DEF Screen!Next, Screen!OpenPage, Screen!Fetch, Screen!Adopt, Screen!Answer,
        Screen!Continue, Screen!Finish, Screen!Leave

(* Every step keeps the app: a build bakes in what is valid only.            *)
LEMMA AppStep ==
    ASSUME ScreenInv, Screen!Next PROVE AppKept'
<1>1. CASE UNCHANGED app
    BY <1>1 DEF ScreenInv, AppKept
<1>2. CASE Screen!Build /\ ~UNCHANGED app
    <2>1. /\ Screen!ValidScreen(Screen!Derived(tool.decision))
          /\ app' = Screen!Baked(tool.decision)
        BY <1>2 DEF Screen!Build
    <2>2. tool.decision \in Designs \cup {Screen!NoDecision}
        BY DEF ScreenInv, RowKept, AllDesigns
    <2>3. Screen!Derived(tool.decision) \in Drawn
        BY <2>1, <2>2, DerivedType DEF Drawn
    <2>. QED
        BY <2>1, <2>2, <2>3 DEF AppKept, Apps, AllDesigns, Screen!Baked
<1>. QED
    BY <1>1, <1>2
    DEF Screen!Next, Screen!BuildFails, Screen!Rebuild, Screen!PutDecision, Screen!PutOutcomes,
        Screen!OpenPage, Screen!Fetch, Screen!Adopt, Screen!Answer,
        Screen!Continue, Screen!Finish, Screen!Leave

(* The current question is one of those there are.                           *)
LEMMA Turn ==
    ASSUME NEW p \in Questions, p.live.decision.asks # <<>>
    PROVE  LET asks == p.live.decision.asks
               k == Screen!Smaller(p.step, Len(asks))
           IN /\ asks \in Seq(DOMAIN Weight) /\ Len(asks) \in Nat /\ DOMAIN asks = 1..Len(asks)
              /\ k \in DOMAIN asks /\ k <= p.step /\ k <= Len(asks)
              /\ p.step \in Nat /\ (p.step >= Len(asks) => k = Len(asks))
              /\ (p.step < Len(asks) => k = p.step)
<1> DEFINE asks == p.live.decision.asks
<1>1. asks \in Seq(DOMAIN Weight)
    <2>1. p.live.decision \in Designs \cup {Screen!NoDecision}
        BY DEF Questions, Apps, AllDesigns
    <2>2. CASE p.live.decision \in Designs
        BY <2>2 DEF Designs
    <2>3. CASE p.live.decision = Screen!NoDecision
        BY <2>3 DEF Screen!NoDecision
    <2>. QED
        BY <2>1, <2>2, <2>3
<1>2. p.step \in Nat /\ p.step # 0
    BY DEF Questions
<1>3. asks # <<>>
    OBVIOUS
<1>. HIDE DEF asks
<1>4. Len(asks) \in Nat /\ Len(asks) # 0 /\ DOMAIN asks = 1..Len(asks)
    BY <1>1, <1>3
<1>5. LET k == Screen!Smaller(p.step, Len(asks))
      IN /\ asks \in Seq(DOMAIN Weight) /\ Len(asks) \in Nat /\ DOMAIN asks = 1..Len(asks)
         /\ k \in DOMAIN asks /\ k <= p.step /\ k <= Len(asks)
         /\ p.step \in Nat /\ (p.step >= Len(asks) => k = Len(asks))
         /\ (p.step < Len(asks) => k = p.step)
    BY <1>1, <1>2, <1>4 DEF Screen!Smaller
<1>. QED
    BY <1>5 DEF asks

(* Every step keeps the page: the questions are answered in turn.            *)
LEMMA PageStep ==
    ASSUME ScreenInv, Screen!Next PROVE PageKept'
<1>1. CASE UNCHANGED page
    BY <1>1 DEF ScreenInv, PageKept, AskedInTurn, Shown
<1>2. CASE Screen!OpenPage
    <2>1. app \in Apps
        BY <1>2 DEF Screen!OpenPage, ScreenInv, AppKept
    <2>2. Screen!NoAnswers \in Answered /\ DOMAIN Screen!NoAnswers = {}
        BY DEF Answered, Screen!NoAnswers
    <2>3. page' = [at |-> "questions", live |-> app, overlay |-> Screen!NoApp, fetched |-> FALSE,
                   step |-> 1, answers |-> Screen!NoAnswers, late |-> FALSE]
        BY <1>2 DEF Screen!OpenPage
    <2>4. page' \in Questions
        BY <2>1, <2>2, <2>3 DEF Questions
    <2>5. AskedInTurn(page')
        <3> DEFINE asks == page'.live.decision.asks
        <3>1. page'.step = 1 /\ DOMAIN page'.answers = {}
            BY <2>2, <2>3
        <3>2. asks \in Seq(DOMAIN Weight)
            <4>1. app.decision \in Designs \cup {Screen!NoDecision} /\ asks = app.decision.asks
                BY <2>1, <2>3 DEF Apps, AllDesigns
            <4>2. CASE app.decision \in Designs
                BY <4>1, <4>2 DEF Designs
            <4>3. CASE app.decision = Screen!NoDecision
                BY <4>1, <4>3 DEF Screen!NoDecision
            <4>. QED
                BY <4>1, <4>2, <4>3
        <3>. HIDE DEF asks
        <3>3. Len(asks) \in Nat /\ DOMAIN asks = 1..Len(asks)
            BY <3>2
        <3>. QED
            BY <3>1, <3>3 DEF AskedInTurn, asks
    <2>. QED
        BY <2>4, <2>5 DEF PageKept, AskedInTurn
<1>3. CASE Screen!Leave
    BY <1>3 DEF Screen!Leave, PageKept, Screen!Closed
<1>4. ASSUME page.at = "questions" PROVE page \in Questions /\ AskedInTurn(page)
    BY <1>4 DEF ScreenInv, PageKept, Shown, Screen!Closed
<1>5. CASE Screen!Fetch
    <2>1. page \in Questions /\ AskedInTurn(page)
        BY <1>5 DEF Screen!Fetch, ScreenInv, PageKept, Shown
    <2> DEFINE fetched == IF tool.status = "active" /\ Screen!ValidScreen(Screen!Effective)
                          THEN [decision |-> tool.decision, bands |-> Screen!Effective]
                          ELSE Screen!NoApp
    <2>2. fetched \in Apps \cup {Screen!NoApp}
        <3>1. RowKept /\ tool.decision \in AllDesigns
            BY DEF ScreenInv, RowKept
        <3>2. Screen!ValidScreen(Screen!Effective) => Screen!Effective \in Drawn
            BY <3>1, EffectiveDrawn
        <3>. QED
            BY <3>1, <3>2 DEF Apps
    <2>3. page' = [page EXCEPT !.fetched = TRUE, !.overlay = fetched]
        BY <1>5 DEF Screen!Fetch
    <2>. HIDE DEF fetched
    <2>4. page' \in Questions
        BY <2>1, <2>2, <2>3 DEF Questions
    <2>5. /\ page'.live = page.live /\ page'.step = page.step
          /\ page'.answers = page.answers /\ page'.late = page.late
        BY <2>1, <2>3 DEF Questions
    <2>6. AskedInTurn(page')
        BY <2>1, <2>5 DEF AskedInTurn
    <2>. QED
        BY <2>4, <2>6 DEF PageKept, AskedInTurn
<1>6. CASE Screen!Adopt
    <2>1. page \in Questions /\ AskedInTurn(page)
        BY <1>6 DEF Screen!Adopt, ScreenInv, PageKept, Shown
    <2>2. page.overlay \in Apps /\ page.live \in Apps /\ page.late \in BOOLEAN
        BY <1>6, <2>1 DEF Screen!Adopt, Questions
    <2> DEFINE live == [decision |-> IF page.overlay.decision = Screen!NoDecision
                                     THEN page.live.decision ELSE page.overlay.decision,
                        bands |-> page.overlay.bands]
               over == page.late \/ page.answers # Screen!NoAnswers
    <2>3. live \in Apps /\ over \in BOOLEAN
        BY <2>2 DEF Apps
    <2>4. page' = [page EXCEPT !.live = live, !.overlay = Screen!NoApp, !.late = over]
        BY <1>6 DEF Screen!Adopt
    <2>5. ~over => /\ ~page.late /\ DOMAIN page.answers = {}
                   /\ page.step = 1
        <3>1. SUFFICES ASSUME ~over PROVE ~page.late /\ DOMAIN page.answers = {} /\ page.step = 1
            OBVIOUS
        <3>2. ~page.late /\ DOMAIN page.answers = {}
            BY <3>1 DEF Screen!NoAnswers
        <3>3. page.step \in Nat \ {0}
            BY <2>1 DEF Questions
        <3>4. CASE page.live.decision.asks = <<>>
            BY <2>1, <3>2, <3>3, <3>4 DEF AskedInTurn
        <3>5. CASE page.live.decision.asks # <<>>
            <4> DEFINE asks == page.live.decision.asks
            <4>1. Len(asks) \in Nat /\ DOMAIN asks = 1..Len(asks) /\ 1 \in DOMAIN asks
                BY <2>1, <3>5, Turn
            <4>2. 1 < page.step => asks[1] \in DOMAIN page.answers
                BY <2>1, <3>2, <4>1 DEF AskedInTurn
            <4>. QED
                BY <3>2, <3>3, <4>2
        <3>. QED
            BY <3>4, <3>5
    <2>. HIDE DEF live, over
    <2>6. page' \in Questions
        BY <2>1, <2>3, <2>4 DEF Questions
    <2>7. /\ page'.live = live /\ page'.step = page.step
          /\ page'.answers = page.answers /\ page'.late = over
        BY <2>1, <2>4 DEF Questions
    <2>8. Len(live.decision.asks) \in Nat /\ DOMAIN live.decision.asks = 1..Len(live.decision.asks)
        <3>1. live.decision \in Designs \cup {Screen!NoDecision}
            BY <2>3 DEF Apps, AllDesigns
        <3>2. live.decision.asks \in Seq(DOMAIN Weight)
            <4>1. CASE live.decision \in Designs
                BY <4>1 DEF Designs
            <4>2. CASE live.decision = Screen!NoDecision
                BY <4>2 DEF Screen!NoDecision
            <4>. QED
                BY <3>1, <4>1, <4>2
        <3>. QED
            BY <3>2
    <2>9. AskedInTurn(page')
        BY <2>5, <2>7, <2>8 DEF AskedInTurn
    <2>. QED
        BY <2>6, <2>9 DEF PageKept, AskedInTurn
<1> DEFINE asks == page.live.decision.asks
           k == Screen!Smaller(page.step, Len(asks))
<1>7. ASSUME page.at = "questions", asks # <<>>
      PROVE  /\ page \in Questions /\ AskedInTurn(page)
             /\ asks \in Seq(DOMAIN Weight) /\ Len(asks) \in Nat /\ DOMAIN asks = 1..Len(asks)
             /\ k \in DOMAIN asks /\ k <= page.step /\ k <= Len(asks)
             /\ page.step \in Nat /\ (page.step >= Len(asks) => k = Len(asks))
             /\ (page.step < Len(asks) => k = page.step)
    BY <1>4, <1>7, Turn
<1>8. ASSUME NEW score \in 0..Top, Screen!Answer(score) PROVE PageKept'
    <2>0. page.at = "questions" /\ asks # <<>>
        BY <1>8 DEF Screen!Answer, Screen!Asked
    <2>1. /\ page \in Questions /\ AskedInTurn(page)
          /\ asks \in Seq(DOMAIN Weight) /\ k \in DOMAIN asks /\ k <= page.step
        BY <1>7, <2>0
    <2> DEFINE q == asks[k]
               more == [a \in DOMAIN page.answers \cup {q} |->
                           IF a = q THEN score ELSE page.answers[a]]
    <2>2. page' = [page EXCEPT !.answers = more]
        BY <1>8 DEF Screen!Answer, Screen!Asked, Screen!CurrentStep
    <2>3. q \in DOMAIN Weight /\ page.answers \in Answered /\ score \in Int
        <3>. HIDE DEF k
        <3>. QED
            BY <1>8, <2>1 DEF Questions
    <2>4. more \in Answered /\ DOMAIN more = DOMAIN page.answers \cup {q}
        <3>. HIDE DEF q
        <3>1. PICK D \in SUBSET DOMAIN Weight : page.answers \in [D -> Int]
            BY <2>3 DEF Answered
        <3>2. D \cup {q} \in SUBSET DOMAIN Weight /\ DOMAIN page.answers = D
            BY <2>3, <3>1
        <3>3. more \in [D \cup {q} -> Int]
            <4>1. \A a \in D \cup {q} : (IF a = q THEN score ELSE page.answers[a]) \in Int
                BY <2>3, <3>1
            <4>. QED
                BY <3>2, <4>1
        <3>. HIDE DEF more
        <3>. QED
            BY <3>2, <3>3 DEF Answered
    <2>. HIDE DEF more
    <2>5. page' \in Questions
        BY <2>1, <2>2, <2>4 DEF Questions
    <2>6. /\ page'.live = page.live /\ page'.step = page.step
          /\ page'.answers = more /\ page'.late = page.late
        BY <2>1, <2>2 DEF Questions
    <2>. HIDE DEF k
    <2>7. AskedInTurn(page')
        BY <2>1, <2>4, <2>6 DEF AskedInTurn
    <2>. QED
        BY <2>5, <2>7 DEF PageKept, AskedInTurn
<1>9. CASE Screen!Continue
    <2>0. page.at = "questions" /\ asks # <<>> /\ ~(page.step >= Len(asks))
          /\ asks[k] \in DOMAIN page.answers
          /\ page' = [page EXCEPT !.step = page.step + 1]
        BY <1>9 DEF Screen!Continue, Screen!Asked, Screen!AtLastStep, Screen!CurrentStep
    <2>1. /\ page \in Questions /\ AskedInTurn(page)
          /\ Len(asks) \in Nat /\ DOMAIN asks = 1..Len(asks)
          /\ page.step \in Nat /\ k = page.step
        BY <1>7, <2>0
    <2>2. page' \in Questions
        BY <2>0, <2>1 DEF Questions
    <2>3. /\ page'.live = page.live /\ page'.step = page.step + 1
          /\ page'.answers = page.answers /\ page'.late = page.late
        BY <2>0, <2>1 DEF Questions
    <2>4. AskedInTurn(page')
        <3>1. SUFFICES ASSUME ~page.late
              PROVE  /\ page.step + 1 <= Len(asks) + 1
                     /\ \A i \in DOMAIN asks : i < page.step + 1 => asks[i] \in DOMAIN page.answers
                     /\ \A q \in DOMAIN page.answers :
                           \E i \in DOMAIN asks : i <= page.step + 1 /\ asks[i] = q
            BY <2>3 DEF AskedInTurn
        <3>2. /\ \A i \in DOMAIN asks : i < page.step => asks[i] \in DOMAIN page.answers
              /\ \A q \in DOMAIN page.answers :
                           \E i \in DOMAIN asks : i <= page.step /\ asks[i] = q
            BY <2>1, <3>1 DEF AskedInTurn
        <3>. HIDE DEF asks, k
        <3>. QED
            BY <2>0, <2>1, <3>2
    <2>. QED
        BY <2>2, <2>4 DEF PageKept, AskedInTurn
<1>10. CASE Screen!Finish
    <2> DEFINE d == page.live.decision
               v == Screen!Value(d, page.answers)
               b == page.live.bands
               band == Screen!BandFor(b, v)
    <2>0. page.at = "questions" /\ asks # <<>> /\ page.step >= Len(asks)
          /\ asks[k] \in DOMAIN page.answers
          /\ page' = [at |-> "result", decision |-> d, answers |-> page.answers,
                      value |-> v, bands |-> b, band |-> band, late |-> page.late,
                      overlay |-> Screen!NoApp, fetched |-> TRUE]
        BY <1>10 DEF Screen!Finish, Screen!Asked, Screen!AtLastStep, Screen!CurrentStep
    <2>1. /\ page \in Questions /\ AskedInTurn(page)
          /\ Len(asks) \in Nat /\ DOMAIN asks = 1..Len(asks)
          /\ page.step \in Nat /\ k = Len(asks)
        BY <1>7, <2>0
    <2>2. d \in Designs \cup {Screen!NoDecision} /\ b \in Drawn /\ page.answers \in Answered
        BY <2>1 DEF Questions, Apps, AllDesigns
    <2>3. v \in Values
        BY <2>2, ValueType
    <2>4. v.total % v.weight = 0 => Landed(band, v, b)
        <3>1. PICK n \in Nat \ {0} : b \in [Span(n) -> BandRows]
            BY <2>2 DEF Drawn, Rows
        <3>2. Screen!ValidScreen(b)
            BY <2>2 DEF Drawn
        <3>. HIDE DEF b, v
        <3>. QED
            BY <2>3, <3>1, <3>2, Lands
    <2>5. ~page.late => DOMAIN page.answers = {d.asks[i] : i \in DOMAIN d.asks}
        <3>1. SUFFICES ASSUME ~page.late PROVE DOMAIN page.answers = {asks[i] : i \in DOMAIN asks}
            OBVIOUS
        <3>2. /\ \A i \in DOMAIN asks : i < page.step => asks[i] \in DOMAIN page.answers
              /\ \A q \in DOMAIN page.answers : \E i \in DOMAIN asks : asks[i] = q
            BY <2>1, <3>1 DEF AskedInTurn
        <3>. HIDE DEF asks, k
        <3>3. \A i \in DOMAIN asks : asks[i] \in DOMAIN page.answers
            BY <2>0, <2>1, <3>2
        <3>. QED
            BY <3>2, <3>3
    <2>. HIDE DEF d, v, b, band
    <2>6. Shown(page')
        BY <2>0, <2>4, <2>5 DEF Shown
    <2>. QED
        BY <2>6 DEF PageKept, Shown
<1>. QED
    BY <1>1, <1>2, <1>3, <1>5, <1>6, <1>8, <1>9, <1>10
    DEF Screen!Next, Screen!Build, Screen!BuildFails, Screen!Rebuild, Screen!PutDecision,
        Screen!PutOutcomes, Screen!Change

(* The score counts the questions asked, and lands in its band               *)
(* (outcomes.py, fallback_widget.py).                                        *)
LEMMA ScreenTrue == Screen!Spec => [](Screen!ScoredAsAsked /\ Screen!WholeScoresLand)
<1>1. Screen!Init => ScreenInv
    <2>1. SUFFICES ASSUME Screen!Init PROVE ScreenInv
        OBVIOUS
    <2>2. PICK d \in Decisions \cup {Screen!NoDecision} :
             tool = [status |-> "building", decision |-> d, screen |-> Screen!NoScreen]
        BY <2>1 DEF Screen!Init
    <2>3. d \in AllDesigns
        BY Inputs DEF AllDesigns
    <2>. QED
        BY <2>1, <2>2, <2>3 DEF Screen!Init, ScreenInv, RowKept, AppKept, PageKept
<1>2. ScreenInv /\ [Screen!Next]_Screen!vars => ScreenInv'
    <2>1. SUFFICES ASSUME ScreenInv, [Screen!Next]_Screen!vars PROVE ScreenInv'
        OBVIOUS
    <2>2. CASE Screen!Next
        BY <2>1, <2>2, RowStep, AppStep, PageStep DEF ScreenInv
    <2>3. CASE UNCHANGED Screen!vars
        BY <2>1, <2>3 DEF Screen!vars, ScreenInv, RowKept, AppKept, PageKept, AskedInTurn, Shown
    <2>. QED
        BY <2>1, <2>2, <2>3
<1>3. ScreenInv => Screen!ScoredAsAsked /\ Screen!WholeScoresLand
    <2>1. SUFFICES ASSUME ScreenInv, page.at = "result"
          PROVE  Screen!ScoredAsAsked /\ Screen!WholeScoresLand
        BY DEF Screen!ScoredAsAsked, Screen!WholeScoresLand
    <2>2. Shown(page)
        BY <2>1 DEF ScreenInv, PageKept, Questions, Screen!Closed
    <2>3. Screen!ScoredAsAsked
        BY <2>2 DEF Shown, Screen!ScoredAsAsked
    <2>4. Screen!WholeScoresLand
        <3>1. SUFFICES ASSUME page.value.total % page.value.weight = 0
              PROVE  Screen!WholeScoresLand
            BY DEF Screen!WholeScoresLand
        <3>2. Landed(page.band, page.value, page.bands)
            BY <2>2, <3>1 DEF Shown
        <3>. QED
            BY <3>2 DEF Landed, Screen!WholeScoresLand
    <2>. QED
        BY <2>3, <2>4
<1>. QED
    BY <1>1, <1>2, <1>3, PTL DEF Screen!Spec

-----------------------------------------------------------------------------
(* The composition                                                           *)

(* A behaviour of the workspace is one of each of its parts: they share no   *)
(* variable, so a step of one of them is a stutter of the others.            *)
THEOREM Parts ==
    WorkspaceSpec => Spec /\ Team!Spec /\ Screen!Spec /\ Auth!Spec /\ Desk!Spec
<1>1. WorkspaceInit => Init /\ Team!Init /\ Screen!Init /\ Auth!Init /\ Desk!Init
    BY DEF WorkspaceInit
<1>2. UNCHANGED teamVars => UNCHANGED Team!vars
    BY DEF teamVars, Team!vars, Team!mail, Team!second, Team!team, Team!host
<1>3. UNCHANGED screenVars => UNCHANGED Screen!vars
    BY DEF screenVars, Screen!vars
<1>4. UNCHANGED authVars => UNCHANGED Auth!vars
    BY DEF authVars, Auth!vars, Auth!row, Auth!store, Auth!history
<1>5. UNCHANGED deskVars => UNCHANGED Desk!vars
    BY DEF deskVars, Desk!vars, Desk!table, Desk!screen
<1>6. [WorkspaceNext]_<<vars, teamVars, screenVars, authVars, deskVars>>
         => /\ [Next]_vars /\ [Team!Next]_(Team!vars) /\ [Screen!Next]_(Screen!vars)
            /\ [Auth!Next]_(Auth!vars) /\ [Desk!Next]_(Desk!vars)
    BY <1>2, <1>3, <1>4, <1>5 DEF WorkspaceNext
<1>. QED
    BY <1>1, <1>6, PTL DEF WorkspaceSpec, Spec, Team!Spec, Screen!Spec, Auth!Spec, Desk!Spec

(* Of a workspace, what was revoked stays revoked: a mailed link that another *)
(* has replaced, and a member who was removed and has no invitation left.    *)
THEOREM WorkspaceRevokes == WorkspaceSpec => []RevokedStaysRevoked
<1>1. Team!OneLinkWorks /\ Team!RemovedStaysOut => RevokedStaysRevoked
    BY DEF RevokedStaysRevoked
<1>. QED
    BY <1>1, Parts, LinkWorks, RemovedOut, PTL

(* Of a workspace, the second factor is the one its owner confirmed, and the *)
(* password the one its owner set last, whatever sign-ins make of its hash.  *)
THEOREM WorkspaceCredentials == WorkspaceSpec => []CredentialsKept
<1>1. Team!FactorKept /\ Auth!PasswordKept => CredentialsKept
    BY DEF CredentialsKept
<1>. QED
    BY <1>1, Parts, FactorIsKept, PasswordIsKept, PTL

(* A session of the workspace has one refresh token at most that was neither *)
(* exchanged nor signed out, for any number of processes and outages.        *)
THEOREM WorkspaceTokens == WorkspaceSpec => []OneTokenEach
<1>1. Auth!OneTokenEach => OneTokenEach
    BY DEF OneTokenEach
<1>. QED
    BY <1>1, Parts, OneToken, PTL

(* The table and the provider agree on who has the host name, for any number *)
(* of handlers that add, verify and remove it.                               *)
THEOREM WorkspaceHosts == WorkspaceSpec => []HostsAgree
<1>1. Team!HostsAgree => HostsAgree
    BY DEF HostsAgree
<1>. QED
    BY <1>1, Parts, HostsInStep, PTL

(* Who goes through the leads of a workspace has seen each that was in the   *)
(* list all the time, for every length of the pages and every set of leads.  *)
THEOREM WorkspacePages == WorkspaceSpec => []PagesMissNone
<1>1. Desk!PagesMissNone => PagesMissNone
    BY DEF PagesMissNone
<1>. QED
    BY <1>1, Parts, NoneMissed, PTL

(* The result a visitor of the workspace is shown is the one the answers lead *)
(* to, for all decisions, weights and screens that may be saved.             *)
THEOREM WorkspaceScores == WorkspaceSpec => []ScoreTrue
<1>1. Screen!ScoredAsAsked /\ Screen!WholeScoresLand => ScoreTrue
    BY DEF ScoreTrue
<1>. QED
    BY <1>1, Parts, ScreenTrue, PTL

(* What is proved of LeadCapture holds of the workspace that has it.         *)
THEOREM WorkspaceLeads ==
    WorkspaceSpec => [](CapKept /\ RepeatsBounded /\ FunnelAgrees) /\ FirstSubmissionKept
BY Parts, CapHolds, RepeatsHold, FunnelHolds, FirstDateHolds, PTL
=============================================================================
