----------------------------- MODULE ResultScreen -----------------------------
(***************************************************************************)
(* What a visitor of a live tool is asked and shown.  A tool's row holds   *)
(* its decision (the questions, how they are scored, the results the       *)
(* Architect wrote) and, once its owner has edited it, a result screen: a  *)
(* list of bands of the score.  A build bakes the decision and a screen    *)
(* derived from it into the app; the app then fetches what is in force     *)
(* from the row, and takes it over while the visitor is answering.         *)
(*                                                                         *)
(* Scores run from 0 to Top, 100 in the code.  The score of a visitor is a *)
(* fraction; the limits of results and bands are whole numbers.  The app   *)
(* is the verified one of fallback_widget.py, whose flow every generated   *)
(* app is asked for.                                                       *)
(***************************************************************************)
EXTENDS Integers, Sequences, FiniteSets

CONSTANTS
    Top,        \* the highest score of a screen
    Weight,     \* of each question
    Decisions,  \* the designs the Architect may answer with
    Edits,      \* the decisions an owner may save in the editor
    Screens,    \* the screens an owner may save: sequences of bands
    MaxChanges, \* what the owner and the builds do to the row
    MaxVisits   \* pages that are opened

VARIABLES
    tool,       \* the row: its status, its decision and the owner's screen
    app,        \* what the last build has baked in
    page,       \* the page of one visitor
    changes, visits

vars == <<tool, app, page, changes, visits>>

Open == -1       \* no limit on a side of a result's range
NoScreen == <<>>
NoDecision == [asks |-> <<>>]
NoApp == [decision |-> NoDecision, bands |-> NoScreen]
Closed == [at |-> "closed"]

Smaller(a, b) == IF a < b THEN a ELSE b
Larger(a, b) == IF a > b THEN a ELSE b

\* Python's sorted(): each takes the place that as many as are before it leave;
\* those with equal keys keep their order.
NotAfter(i, key) == {j \in DOMAIN key : key[j] < key[i] \/ (key[j] = key[i] /\ j <= i)}

Sorted(s, key) ==
    [k \in DOMAIN s |-> s[CHOOSE i \in DOMAIN s : Cardinality(NotAfter(i, key)) = k]]
-----------------------------------------------------------------------------
(* The decision and its screen *)

Lowest(ranges) == [i \in DOMAIN ranges |-> ranges[i].min]

\* Results may leave scores out, and may be open on either side, but two that
\* follow each other do not overlap.
ValidDecision(d) ==
    LET ordered == Sorted(d.results, Lowest(d.results)) IN
    /\ \A r \in {ordered[i] : i \in DOMAIN ordered} :
          r.min = Open \/ r.max = Open \/ r.min <= r.max
    /\ \A i \in 2..Len(ordered) :
          \/ ordered[i - 1].max = Open \/ ordered[i].min = Open
          \/ ordered[i - 1].max <= ordered[i].min

HighestFirst(results) == [i \in DOMAIN results |-> -Larger(results[i].min, 0)]

\* Mutant: scores between two bands are not looked for.
ValidScreenWithGaps(bands) ==
    LET ordered == Sorted(bands, Lowest(bands)) IN
    \A i \in DOMAIN bands :
        /\ bands[i].min <= bands[i].max
        /\ i > 1 => ordered[i].min > ordered[i - 1].max

\* No two bands overlap, and nothing lies between two that follow each other.
ValidScreen(bands) ==
    LET ordered == Sorted(bands, Lowest(bands)) IN
    \A i \in DOMAIN bands :
        /\ bands[i].min <= bands[i].max
        /\ i > 1 => ordered[i].min = ordered[i - 1].max + 1

\* One band for each result, clamped to the scores there are.
BandOf(r, key) ==
    [key |-> key,
     min |-> Smaller(Top, Larger(r.min, 0)),
     max |-> IF r.max = Open THEN Top ELSE Smaller(Top, r.max)]

\* Bands are snapped together: each begins one above the end of the one before
\* it, and the last one ends at the top.
Repaired(bands) ==
    LET ordered == Sorted(bands, Lowest(bands))
        cursor[i \in 1..Len(bands)] ==
            IF i = 1 THEN 0
            ELSE Smaller(Top, Larger(cursor[i - 1], ordered[i - 1].max) + 1)
    IN [i \in 1..Len(bands) |->
          [ordered[i] EXCEPT
              !.min = cursor[i],
              !.max = IF i = Len(bands) THEN Top ELSE Larger(cursor[i], @)]]

\* The screen the owner finds in the editor the first time, and the one that is
\* baked in; without a decision it is one band.
Derived(d) ==
    IF d = NoDecision
    THEN <<[key |-> 0, min |-> 0, max |-> Top]>>
    ELSE LET results == Sorted(d.results, HighestFirst(d.results))
         IN Repaired([i \in DOMAIN results |-> BandOf(results[i], i)])

\* What is in force: the owner's screen, or else the derived one.
Effective == IF tool.screen # NoScreen THEN tool.screen ELSE Derived(tool.decision)
-----------------------------------------------------------------------------
(* The visitor's score *)

\* A score is a total over a weight.
AtLeast(v, n) == v.total >= n * v.weight
AtMost(v, n) == v.total <= n * v.weight
Within(b, v) == AtLeast(v, b.min) /\ AtMost(v, b.max)
Zero == [total |-> 0, weight |-> 1]

\* The sum over the questions, where those not answered do not count.
Sum(d, worth) ==
    LET upTo[i \in 0..Len(d.asks)] ==
            IF i = 0 THEN 0
            ELSE upTo[i - 1] + (IF d.asks[i] \in DOMAIN worth THEN worth[d.asks[i]] ELSE 0)
    IN upTo[Len(d.asks)]

\* calculateDecision: a weighted mean of the answers, or a linear estimate,
\* which may be clamped to the scores there are.
Value(d, answers) ==
    LET weighted == [q \in DOMAIN answers |-> Weight[q] * answers[q]]
        weight == [q \in DOMAIN answers |-> Weight[q]]
        mean == [total |-> Sum(d, weighted), weight |-> Sum(d, weight)]
        estimate == [total |-> Sum(d, weighted), weight |-> 1]
    IN CASE d = NoDecision -> Zero
         [] d.kind = "weighted_score" -> IF mean.weight = 0 THEN Zero ELSE mean
         [] OTHER -> IF d.clamped /\ ~AtMost(estimate, Top)
                     THEN [total |-> Top, weight |-> 1] ELSE estimate

\* bandFor: the first band the score lies in; beyond the last one the last one,
\* and the first one otherwise.
BandFor(bands, v) ==
    LET ordered == Sorted(bands, Lowest(bands))
        holding == {i \in DOMAIN ordered : Within(ordered[i], v)}
        last == ordered[Len(ordered)]
    IN IF holding # {} THEN ordered[CHOOSE i \in holding : \A j \in holding : i <= j]
       ELSE IF ~AtMost(v, last.max) THEN last ELSE ordered[1]
-----------------------------------------------------------------------------
(* The row and the builds *)

\* The Architect has answered, and the first build is on its way.
Init ==
    /\ \E d \in {d \in Decisions : ValidDecision(d)} \cup {NoDecision} :
          tool = [status |-> "building", decision |-> d, screen |-> NoScreen]
    /\ app = NoApp
    /\ page = Closed
    /\ changes = 0 /\ visits = 0

Change == changes < MaxChanges /\ changes' = changes + 1 /\ UNCHANGED <<page, visits>>

Baked(d) == [decision |-> d, bands |-> Derived(d)]

\* A build bakes in the decision and the screen derived from it; one that
\* cannot be derived ends the build.
Build ==
    /\ tool.status = "building"
    /\ IF ValidScreen(Derived(tool.decision))
       THEN /\ app' = Baked(tool.decision)
            /\ tool' = [tool EXCEPT !.status = "active"]
       ELSE /\ tool' = [tool EXCEPT !.status = "failed"]
            /\ UNCHANGED app
    /\ UNCHANGED <<page, changes, visits>>

\* A build may fail of something else.
BuildFails ==
    /\ tool.status = "building"
    /\ tool' = [tool EXCEPT !.status = "failed"]
    /\ Change
    /\ UNCHANGED app

\* Build is pressed again, with the design there is or with another one.
Rebuild(d) ==
    /\ tool.status # "building"
    /\ d # NoDecision => ValidDecision(d)
    /\ tool' = [tool EXCEPT !.status = "building", !.decision = d]
    /\ Change
    /\ UNCHANGED app

\* The owner saves the questions, which no build may be reading.
PutDecision(d) ==
    /\ tool.status # "building"
    /\ ValidDecision(d)
    /\ tool' = [tool EXCEPT !.decision = d]
    /\ Change
    /\ UNCHANGED app

\* The owner saves a screen, or goes back to the derived one.
PutOutcomes(bands) ==
    /\ bands = NoScreen \/ ValidScreen(bands)
    /\ tool' = [tool EXCEPT !.screen = bands]
    /\ Change
    /\ UNCHANGED app
-----------------------------------------------------------------------------
(* The page of a visitor *)

NoAnswers == [q \in {} |-> 0]

\* The page is complete with what was baked in.
OpenPage ==
    /\ app # NoApp
    /\ visits < MaxVisits
    /\ visits' = visits + 1
    /\ page' = [at |-> "questions", live |-> app, overlay |-> NoApp, fetched |-> FALSE,
                step |-> 1, answers |-> NoAnswers, late |-> FALSE]
    /\ UNCHANGED <<tool, app, changes>>

\* What is in force is fetched, if the tool is live and its screen can be told.
Fetch ==
    /\ page # Closed /\ ~page.fetched
    /\ page' = [page EXCEPT
          !.fetched = TRUE,
          !.overlay = IF tool.status = "active" /\ ValidScreen(Effective)
                      THEN [decision |-> tool.decision, bands |-> Effective]
                      ELSE NoApp]
    /\ UNCHANGED <<tool, app, changes, visits>>

\* ... and taken over whenever it arrives.
Adopt ==
    /\ page # Closed /\ page.overlay # NoApp
    /\ page' = [page EXCEPT
          !.live = [decision |-> IF page.overlay.decision = NoDecision
                                 THEN page.live.decision ELSE page.overlay.decision,
                    bands |-> page.overlay.bands],
          !.overlay = NoApp,
          !.late = @ \/ page.answers # NoAnswers]
    /\ UNCHANGED <<tool, app, changes, visits>>

Asked == page.live.decision.asks
CurrentStep == Smaller(page.step, Len(Asked))

\* The current question is answered, or answered again.
Answer(score) ==
    /\ page.at = "questions" /\ Asked # <<>>
    /\ LET q == Asked[CurrentStep] IN
       page' = [page EXCEPT !.answers =
                   [a \in DOMAIN @ \cup {q} |-> IF a = q THEN score ELSE @[a]]]
    /\ UNCHANGED <<tool, app, changes, visits>>

\* Mutant: the last step is told by the questions that were baked in.
AtLastStepAsBuilt == page.step >= Len(app.decision.asks)

AtLastStep == page.step >= Len(Asked)

\* The next question, once this one is answered.
Continue ==
    /\ page.at = "questions" /\ Asked # <<>>
    /\ ~AtLastStep
    /\ Asked[CurrentStep] \in DOMAIN page.answers
    /\ page' = [page EXCEPT !.step = @ + 1]
    /\ UNCHANGED <<tool, app, changes, visits>>

\* The last one: the score and its band are worked out from what is in force
\* on the page at that moment, and stay.  (A page without questions is all
\* result from the first, which is left out.)
Finish ==
    /\ page.at = "questions" /\ Asked # <<>>
    /\ AtLastStep
    /\ Asked[CurrentStep] \in DOMAIN page.answers
    /\ LET d == page.live.decision
           v == Value(d, page.answers) IN
       page' = [at |-> "result", decision |-> d, answers |-> page.answers,
                value |-> v, bands |-> page.live.bands,
                band |-> BandFor(page.live.bands, v), late |-> page.late,
                overlay |-> NoApp, fetched |-> TRUE]
    /\ UNCHANGED <<tool, app, changes, visits>>

Leave ==
    /\ page # Closed
    /\ page' = Closed
    /\ UNCHANGED <<tool, app, changes, visits>>

Next ==
    \/ Build \/ BuildFails
    \/ \E d \in Edits \cup {NoDecision, tool.decision} : Rebuild(d)
    \/ \E d \in Edits : PutDecision(d)
    \/ \E bands \in Screens \cup {NoScreen} : PutOutcomes(bands)
    \/ OpenPage \/ Fetch \/ Adopt \/ Continue \/ Finish \/ Leave
    \/ \E score \in 0..Top : Answer(score)

Spec == Init /\ [][Next]_vars
-----------------------------------------------------------------------------
(* Properties *)

\* A whole score is shown the band it lies in, whatever ranges the Architect
\* wrote and however the owner has cut them since; one beyond all of them, as an
\* estimate can be, is shown the nearest (outcomes.py:143).  A mean between two
\* whole numbers may lie between two bands, and is shown the lowest of all.
WholeScoresLand ==
    LET v == page.value
        band == page.band
        bands == {page.bands[i] : i \in DOMAIN page.bands}
    IN page.at = "result" /\ v.total % v.weight = 0 =>
          \/ Within(band, v)
          \/ \A b \in bands : ~AtMost(v, b.max) /\ b.max <= band.max
          \/ \A b \in bands : ~AtLeast(v, b.min) /\ b.min >= band.min

\* Unless what is in force arrived while the visitor was answering, the score
\* counts all the questions of the decision it is worked out by, and no others
\* were asked (widget_runtime.py:239).
ScoredAsAsked ==
    (page.at = "result" /\ ~page.late) =>
        DOMAIN page.answers = {page.decision.asks[i] : i \in DOMAIN page.decision.asks}

\* "So a derived configuration always validates" (outcomes.py:232), for every
\* decision the editor or the Architect may save.
DerivedValidates == ValidScreen(Derived(tool.decision))
=============================================================================
