------------------------------- MODULE LeadDesk -------------------------------
(***************************************************************************)
(* How an owner goes through the leads of a workspace (leads/routes.py,    *)
(* leads/service.py, the leads screen of the dashboard): page after page   *)
(* of a list in some order, perhaps of one status only, or as one export,  *)
(* while visitors leave their details and leads are moved along the        *)
(* pipeline.  A page and the total it is shown with are two statements,    *)
(* and each sees what is committed when it runs.                           *)
(*                                                                         *)
(* A lead is created at the time its transaction begins, and seen when it  *)
(* commits; how it is admitted is the business of LeadCapture.  Its id is  *)
(* a random number.                                                        *)
(***************************************************************************)
EXTENDS Integers, Sequences, FiniteSets, SequencesExt

CONSTANTS
    Ids,           \* the ids of leads, numbers
    Columns,       \* the columns a list is sorted by: "created_at", "score"
    Scores,        \* the scores of leads
    PageSize,      \* the leads of a page
    MaxExport,     \* MAX_EXPORT_ROWS
    MaxDay, MaxMoves    \* bounds of the model

VARIABLES
    lead,      \* the rows of leads
    late,      \* leads whose transaction has not committed
    day,       \* the time
    moves,     \* moves along the pipeline so far
    walk,      \* the list the owner goes through
    total,     \* the total of the page that is being read
    seen,      \* the leads that were on its pages
    due,       \* history: those that were in the list all the time
    slipped    \* history: a lead has left the list, or has entered it between
               \* the total and the rows of a page

table == <<lead, late, day, moves>>
screen == <<walk, total, seen, due, slipped>>
vars == <<table, screen>>

NoLead == [status |-> "none"]
Shut == [at |-> "shut"]
Statuses == {"new", "contacted"}
Anything == "any status"

Visible == {i \in Ids : lead[i] # NoLead} \ late

\* The leads a list of one status holds, or of all.
InList(i, status) == status = Anything \/ lead[i].status = status
Listed(status) == {i \in Visible : InList(i, status)}

Init ==
    /\ lead = [i \in Ids |-> NoLead]
    /\ late = {} /\ day = 0
    /\ moves = 0
    /\ walk = Shut
    /\ total = 0 /\ seen = {} /\ due = {} /\ slipped = FALSE

-----------------------------------------------------------------------------
(* Visitors *)

Pass ==
    /\ day < MaxDay
    /\ day' = day + 1
    /\ UNCHANGED <<lead, late, moves, screen>>

NewLead(score) == [status |-> "new", created |-> day, score |-> score]

\* A submission begins.
Submit(i) ==
    /\ lead[i] = NoLead
    /\ \E s \in Scores : lead' = [lead EXCEPT ![i] = NewLead(s)]
    /\ late' = late \cup {i}
    /\ UNCHANGED <<day, moves, screen>>

\* It commits, and the lead can be seen.
Appear(i) ==
    /\ i \in late
    /\ late' = late \ {i}
    /\ slipped' = (slipped \/ (walk.at = "counted" /\ InList(i, walk.status)))
    /\ UNCHANGED <<lead, day, moves, walk, total, seen, due>>

-----------------------------------------------------------------------------
(* The list *)

Key(i) == IF walk.sort = "score" THEN lead[i].score ELSE lead[i].created

\* Mutant: no tiebreak, so that equal leads come in any order.
BeforeByKey(i, j) == IF walk.descending THEN Key(i) >= Key(j) ELSE Key(i) <= Key(j)

\* The order of the list: its column, and the id between equals.
Before(i, j) ==
    \/ Key(i) # Key(j) /\ (walk.descending <=> Key(i) > Key(j))
    \/ Key(i) = Key(j) /\ i > j

Orders == {s \in SetToSeqs(Listed(walk.status)) :
              \A n \in 1..(Len(s) - 1) : Before(s[n], s[n + 1])}

\* The owner opens the list, or presses Export.
Open ==
    /\ walk = Shut
    /\ \E sort \in Columns, descending \in BOOLEAN,
          status \in Statuses \cup {Anything} :
          /\ walk' = [at |-> "turning", sort |-> sort, descending |-> descending,
                      status |-> status, offset |-> 0, limit |-> PageSize]
          /\ due' = Listed(status)
    /\ UNCHANGED <<table, total, seen, slipped>>

Export ==
    /\ walk = Shut
    /\ \E status \in Statuses \cup {Anything} :
          /\ walk' = [at |-> "turning", sort |-> "created_at", descending |-> TRUE,
                      status |-> status, offset |-> 0, limit |-> MaxExport]
          /\ due' = Listed(status)
    /\ UNCHANGED <<table, total, seen, slipped>>

\* The first statement of a request for a page: the total.
Count ==
    /\ walk.at = "turning"
    /\ total' = Cardinality(Listed(walk.status))
    /\ walk' = [walk EXCEPT !.at = "counted"]
    /\ UNCHANGED <<table, seen, due, slipped>>

\* The second: the rows.  There is a next page if the total says so, and an
\* export has one only.
Turn ==
    /\ walk.at = "counted"
    /\ LET to == walk.offset + walk.limit
       IN /\ \E s \in Orders :
                seen' = seen \cup ToSet(SubSeq(s, walk.offset + 1,
                                               IF Len(s) < to THEN Len(s) ELSE to))
          /\ walk' = [walk EXCEPT !.offset = to,
                          !.at = IF to < total /\ walk.limit = PageSize THEN "turning"
                                 ELSE "through"]
    /\ total' = 0
    /\ UNCHANGED <<table, due, slipped>>

-----------------------------------------------------------------------------
(* The pipeline *)

\* A lead is given another status.  (A request that finds it as asked writes
\* nothing, so what it has read meanwhile does not matter.)
Move(i) ==
    /\ i \in Visible
    /\ moves < MaxMoves
    /\ moves' = moves + 1
    /\ \E to \in Statuses \ {lead[i].status} :
          /\ lead' = [lead EXCEPT ![i].status = to]
          /\ IF walk # Shut /\ walk.status # Anything
             THEN /\ slipped' = (slipped \/ to # walk.status \/ walk.at = "counted")
                  /\ due' = due \ {i}
             ELSE UNCHANGED <<slipped, due>>
    /\ UNCHANGED <<late, day, walk, total, seen>>

Next ==
    \/ Pass
    \/ \E i \in Ids : Submit(i) \/ Appear(i) \/ Move(i)
    \/ Open \/ Export \/ Count \/ Turn

Spec == Init /\ [][Next]_vars
-----------------------------------------------------------------------------
(* Properties *)

\* "Two leads captured in the same second can swap places between pages, so one
\* is shown twice and one never" (leads/service.py:276) does not happen: who
\* goes through a list, whatever arrives meanwhile, has seen every lead that was
\* in it from beginning to end, unless one has left it on the way or has come
\* between a page's total and its rows, or an export has reached its limit.
PagesMissNone ==
    walk.at = "through" /\ ~slipped /\ (walk.limit = MaxExport => Cardinality(seen) < MaxExport)
        => due \subseteq seen
=============================================================================
