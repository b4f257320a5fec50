------------------------------ MODULE ToolDesign ------------------------------
(***************************************************************************)
(* From a first look at a website to a live tool (widgets/routes.py and    *)
(* widgets/service.py): what the customer chose, tuned, edited and         *)
(* approved, where it is kept, and what is built of it.                    *)
(*                                                                         *)
(* A visitor's first look is two concepts, which the browser keeps in a    *)
(* signed session; claiming one of them, or analyzing a site as a          *)
(* customer, makes a tool.  Build and Retry send a message with the design *)
(* and commit the row afterwards; the worker, the heal sweep and the       *)
(* owner's editors write the same row.  A handler writes the columns it    *)
(* has changed since it read them, so what two of them leave behind may be *)
(* a mixture.                                                              *)
(*                                                                         *)
(* A design is known by numbers: one for its look (brand_tokens and        *)
(* visual_language), one for its sums (calculation, claims and copy) and   *)
(* one for its flow (decision).  Quota, locks and redelivered messages are *)
(* modelled by Allowances and BuildLifecycle, what is published where by   *)
(* Publication.                                                            *)
(***************************************************************************)
EXTENDS Integers, Sequences, FiniteSets

CONSTANTS
    Tools,        \* the rows of widgets that may come to be
    Handlers,     \* requests the API serves at one time
    Types,        \* the types of tool
    MaxLooks,     \* bound on the first looks given to visitors
    MaxRequests,  \* bound on the requests that change a tool
    MaxFaults     \* bound on commits lost, builds failed and brands changed

VARIABLES
    looks,      \* the first looks there are: two concepts in each
    made,       \* the tools there are: how each came about
    row,        \* the columns of each that change afterwards
    live,       \* what each tool's address serves
    queue,      \* build messages
    running,    \* the build or heal that holds each tool's lock
    req,        \* what each handler is doing
    agreed,     \* history: what the customer was told is saved
    disturbed,  \* history: tools with a commit lost, or read before another
    healed,     \* history: tools rebuilt for a new brand
    last,       \* the number of the last design
    budget      \* requests and faults so far

history == <<agreed, disturbed, healed>>
vars == <<looks, made, row, live, queue, running, req, history, last, budget>>

Idle == [at |-> "idle"]
Free == [job |-> "none"]
NoType == "pending"        \* no direction chosen yet
NoDesign == [look |-> 0, sums |-> 0, flow |-> 0]
NoLive == [type |-> NoType, look |-> 0, sums |-> 0]
NoKey == <<>>
NoMessage == [kind |-> "none"]

Design(n) == [look |-> n, sums |-> n, flow |-> n]
Logic(d) == [sums |-> d.sums, flow |-> d.flow]

\* A new row: no result screen of the owner's, and the design of the concept
\* that was claimed, or none.
NewRow(type, d) ==
    [status |-> "analyzed", type |-> type, look |-> d.look,
     logic |-> Logic(d), outcome |-> 0]

Absent == NewRow(NoType, NoDesign)

Init ==
    /\ looks = <<>>
    /\ made = [t \in {} |-> [key |-> NoKey, first |-> NoType]]
    /\ row = [t \in Tools |-> Absent]
    /\ live = [t \in Tools |-> NoLive]
    /\ queue = {}
    /\ running = [t \in Tools |-> Free]
    /\ req = [h \in Handlers |-> Idle]
    /\ agreed = [t \in Tools |-> [logic |-> Logic(NoDesign), outcome |-> 0]]
    /\ disturbed = {}
    /\ healed = {}
    /\ last = 0
    /\ budget = [requests |-> 0, faults |-> 0]

Exists(t) == t \in DOMAIN made
Spend(what) == budget' = [budget EXCEPT ![what] = @ + 1]
CanAsk(h) == req[h] = Idle /\ budget.requests < MaxRequests
CanFail == budget.faults < MaxFaults

Go(h, r) == req' = [req EXCEPT ![h] = r]
-----------------------------------------------------------------------------
(* A tool is made *)

\* What the signed session keeps of a first look.
Look(types) == [i \in 1..2 |-> [type |-> types[i], design |-> Design(last + i)]]

\* A visitor's site is read, and two directions for it designed, by the model
\* or grounded in the site alone.  Nothing is stored.
FirstLook(types) ==
    /\ Len(looks) < MaxLooks
    /\ looks' = Append(looks, Look(types))
    /\ last' = last + 2
    /\ UNCHANGED <<made, row, live, queue, running, req, history, budget>>

ClaimKeys == (1..Len(looks)) \X (1..2)
ClaimedAs(key) == {t \in DOMAIN made : made[t].key = key}

\* The new customer's browser claims a concept, and claims it again when it is
\* refreshed or gives up waiting.  The key is that of session and concept.
Claim(h, key) ==
    /\ CanAsk(h)
    /\ Spend("requests")
    /\ Go(h, IF ClaimedAs(key) # {} THEN Idle
             ELSE [at |-> "claiming", key |-> key])
    /\ UNCHANGED <<looks, made, row, live, queue, running, history, last>>

Make(t, key, first, new) ==
    /\ ~Exists(t)
    /\ made' = [u \in DOMAIN made \cup {t} |->
                   IF u = t THEN [key |-> key, first |-> first] ELSE made[u]]
    /\ row' = [row EXCEPT ![t] = new]
    /\ agreed' = [agreed EXCEPT ![t].logic = new.logic]

MakeClaimed(t, key) ==
    LET look == looks[key[1]]  concept == look[key[2]] IN
    Make(t, key, look[1].type, NewRow(concept.type, concept.design))

\* Mutant: nothing but the look-up stands between two claims.
InsertClaimTwice(h, t) ==
    /\ req[h].at = "claiming"
    /\ MakeClaimed(t, req[h].key)
    /\ Go(h, Idle)
    /\ UNCHANGED <<looks, live, queue, running, disturbed, healed, last, budget>>

\* The tool is inserted with the concept's design, unless another request has
\* inserted it since the look-up: then the constraint refuses it.
InsertClaim(h, t) ==
    /\ req[h].at = "claiming"
    /\ IF ClaimedAs(req[h].key) = {} THEN MakeClaimed(t, req[h].key)
       ELSE UNCHANGED <<made, row, agreed>>
    /\ Go(h, Idle)
    /\ UNCHANGED <<looks, live, queue, running, disturbed, healed, last, budget>>

\* A customer has a site analyzed: directions to choose from, by the model or
\* grounded in the site alone, and no design yet.
Analyze(t, first) ==
    /\ budget.requests < MaxRequests
    /\ Spend("requests")
    /\ Make(t, NoKey, first, NewRow(NoType, NoDesign))
    /\ UNCHANGED <<looks, live, queue, running, req, disturbed, healed, last>>
-----------------------------------------------------------------------------
(* The owner's requests: read the row, and commit what has changed *)

UnderWay(h, t) == req[h].at \in {"sending", "answered"} /\ req[h].tool = t

\* Tool t gets row new while a request of another relies on what it changes.
Disturbing(t, new, others) ==
    disturbed' = disturbed \cup
        {u \in {t} : \E h \in others :
            UnderWay(h, t) /\ \E c \in req[h].reads : new[c] # row[t][c]}

\* A request that has read tool t, relies on some of its columns and made new
\* of the row; the message, if it sends one, goes out before the commit.
Ask(h, t, reads, new, message) ==
    /\ Go(h, [at |-> IF message = NoMessage THEN "answered" ELSE "sending",
              tool |-> t, reads |-> reads, saw |-> row[t], new |-> new,
              message |-> message])
    /\ Spend("requests")
    /\ UNCHANGED <<looks, made, row, live, queue, running, history>>

Message(t, type, d, kind) ==
    [tool |-> t, type |-> type, design |-> d, kind |-> kind]

DesignColumns == {"status", "type", "look", "logic"}

\* The design a build is about to run with, in the columns that keep it.
WithDesign(r, d) ==
    IF d = NoDesign THEN r ELSE [r EXCEPT !.look = d.look, !.logic = Logic(d)]

\* Build: a direction is chosen by its index or by its type, and comes with
\* the tuned design or with none.
PressBuild(h, t, type, tuned) ==
    /\ CanAsk(h) /\ Exists(t)
    /\ row[t].status \in {"analyzed", "failed"}
    /\ LET d == IF tuned THEN Design(last + 1) ELSE NoDesign IN
       /\ Ask(h, t, DesignColumns,
              [WithDesign(row[t], d) EXCEPT !.status = "building", !.type = type],
              Message(t, type, d, "build"))
       /\ last' = IF tuned THEN last + 1 ELSE last

\* The design the columns make up, or none if they do not make one.
Reassembled(r) ==
    IF r.type = NoType \/ r.look = 0 \/ r.logic.sums = 0 THEN NoDesign
    ELSE [look |-> r.look, sums |-> r.logic.sums, flow |-> r.logic.flow]

\* Mutant: Retry builds what the model proposed.
PressRetryAfresh(h, t) ==
    /\ CanAsk(h) /\ Exists(t)
    /\ row[t].status = "failed"
    /\ Ask(h, t, DesignColumns, [row[t] EXCEPT !.status = "building"],
           Message(t, made[t].first, NoDesign, "retry"))
    /\ UNCHANGED last

\* Retry: the design that was approved, with the first of the directions.
PressRetry(h, t) ==
    /\ CanAsk(h) /\ Exists(t)
    /\ row[t].status = "failed"
    /\ Ask(h, t, DesignColumns, [row[t] EXCEPT !.status = "building"],
           Message(t, made[t].first, Reassembled(row[t]), "retry"))
    /\ UNCHANGED last

\* The question editor replaces the flow in a copy of the whole column, and is
\* closed while a build is under way.
EditDecision(h, t) ==
    /\ CanAsk(h) /\ Exists(t)
    /\ row[t].status # "building"
    /\ Ask(h, t, {"status", "logic"},
           [row[t] EXCEPT !.logic.flow = last + 1], NoMessage)
    /\ last' = last + 1

\* The result screen is replaced, or reset to what was designed.
EditOutcome(h, t) ==
    /\ CanAsk(h) /\ Exists(t)
    /\ \E n \in {0, last + 1} :
          /\ Ask(h, t, {"outcome"}, [row[t] EXCEPT !.outcome = n], NoMessage)
          /\ last' = IF n = 0 THEN last ELSE n

\* The message is published; without a broker the request fails.
Send(h) ==
    /\ req[h].at = "sending"
    /\ Go(h, [req[h] EXCEPT !.at = "answered"])
    /\ queue' = queue \cup {req[h].message}
    /\ UNCHANGED <<looks, made, row, live, running, history, last, budget>>

\* What is left of the row when a request writes the columns it has changed.
Written(t, saw, new) ==
    [c \in DOMAIN new |-> IF new[c] # saw[c] THEN new[c] ELSE row[t][c]]

\* What the customer was told is saved: the design of a Build, the flow of the
\* question editor, the owner's result screen.
Told(r) ==
    LET t == r.tool  m == r.message IN
    [logic |-> IF m # NoMessage
               THEN IF m.kind = "build" /\ m.design # NoDesign
                    THEN Logic(m.design) ELSE agreed[t].logic
               ELSE IF r.new.logic # r.saw.logic THEN r.new.logic
                    ELSE agreed[t].logic,
     outcome |-> IF r.new.outcome # r.saw.outcome THEN r.new.outcome
                 ELSE agreed[t].outcome]

\* The commit, which follows the answer.
Commit(h) ==
    /\ req[h].at = "answered"
    /\ LET t == req[h].tool
           new == Written(t, req[h].saw, req[h].new) IN
       /\ row' = [row EXCEPT ![t] = new]
       /\ agreed' = [agreed EXCEPT ![t] = Told(req[h])]
       /\ Disturbing(t, new, Handlers \ {h})
    /\ Go(h, Idle)
    /\ UNCHANGED <<looks, made, live, queue, running, healed, last, budget>>

\* The broker is down, or the commit is lost after the answer.
Lose(h) ==
    /\ req[h].at \in {"sending", "answered"}
    /\ CanFail /\ Spend("faults")
    /\ disturbed' = IF req[h].at = "sending" THEN disturbed
                    ELSE disturbed \cup {req[h].tool}
    /\ Go(h, Idle)
    /\ UNCHANGED <<looks, made, row, live, queue, running, agreed, healed, last>>
-----------------------------------------------------------------------------
(* Builds and heals, one at a time for each tool *)

\* A worker takes the message and the tool's lock, or drops the message.
StartBuild(m) ==
    /\ m \in queue
    /\ queue' = queue \ {m}
    /\ running' = IF running[m.tool] # Free THEN running
                  ELSE [running EXCEPT ![m.tool] =
                           [job |-> "build", message |-> m]]
    /\ UNCHANGED <<looks, made, row, live, req, history, last, budget>>

\* The design of the message, or a new one of the model's.
Architected(m) == IF m.design # NoDesign THEN m.design ELSE Design(last + 1)

\* Mutant: the row keeps the look it had before the build.
BuiltUnrecorded(r, d) ==
    [WithDesign(r, d) EXCEPT !.status = "active", !.look = r.look]

\* What a build that is published leaves in the row.
BuiltRow(r, d) == [WithDesign(r, d) EXCEPT !.status = "active"]

\* A design of the model's replaces what was saved when the customer pressed
\* Build without one, and on Retry when there was none: questions saved for a
\* tool that has no calculation yet go with it.
FinishBuild(t) ==
    /\ running[t].job = "build"
    /\ LET m == running[t].message
           d == Architected(m)
           new == BuiltRow(row[t], d) IN
       /\ row' = [row EXCEPT ![t] = new]
       /\ Disturbing(t, new, Handlers)
       /\ live' = [live EXCEPT ![t] =
                      [type |-> m.type, look |-> d.look, sums |-> d.sums]]
       /\ agreed' = IF m.design = NoDesign
                       /\ (m.kind = "build" \/ agreed[t].logic.sums = 0)
                    THEN [agreed EXCEPT ![t].logic = Logic(d)]
                    ELSE agreed
       /\ last' = IF m.design = NoDesign THEN last + 1 ELSE last
    /\ running' = [running EXCEPT ![t] = Free]
    /\ healed' = healed \ {t}
    /\ UNCHANGED <<looks, made, queue, req, budget>>

FailBuild(t) ==
    /\ running[t].job = "build"
    /\ CanFail /\ Spend("faults")
    /\ LET new == [row[t] EXCEPT !.status = "failed"] IN
       /\ row' = [row EXCEPT ![t] = new]
       /\ Disturbing(t, new, Handlers)
    /\ running' = [running EXCEPT ![t] = Free]
    /\ UNCHANGED <<looks, made, live, queue, req, agreed, healed, last>>

\* The site's brand has changed, and the sweep designs the tool anew.
StartHeal(t) ==
    /\ Exists(t) /\ row[t].status = "active"
    /\ running[t] = Free
    /\ CanFail /\ Spend("faults")
    /\ running' = [running EXCEPT ![t] = [job |-> "heal", saw |-> row[t]]]
    /\ UNCHANGED <<looks, made, row, live, queue, req, history, last>>

\* Of the new design the row gets the look only.
HealedRow(t, d) == [row[t] EXCEPT !.look = d.look]

\* A regeneration that fails leaves the tool as it was.
FailHeal(t) ==
    /\ running[t].job = "heal"
    /\ running' = [running EXCEPT ![t] = Free]
    /\ UNCHANGED <<looks, made, row, live, queue, req, history, last, budget>>

\* The new design is published whole.
FinishHeal(t) ==
    /\ running[t].job = "heal"
    /\ LET d == Design(last + 1)
           new == HealedRow(t, d) IN
       /\ row' = [row EXCEPT ![t] = new]
       /\ Disturbing(t, new, Handlers)
       /\ live' = [live EXCEPT ![t] = [type |-> running[t].saw.type,
                                       look |-> d.look, sums |-> d.sums]]
    /\ last' = last + 1
    /\ running' = [running EXCEPT ![t] = Free]
    /\ healed' = healed \cup {t}
    /\ UNCHANGED <<looks, made, queue, req, agreed, budget>>

Next ==
    \/ \E types \in [1..2 -> Types] : FirstLook(types)
    \/ \E h \in Handlers :
          \/ \E key \in ClaimKeys : Claim(h, key)
          \/ \E t \in Tools :
                \/ InsertClaim(h, t)
                \/ \E type \in Types, tuned \in BOOLEAN :
                      PressBuild(h, t, type, tuned)
                \/ PressRetry(h, t)
                \/ EditDecision(h, t)
                \/ EditOutcome(h, t)
          \/ Send(h) \/ Commit(h) \/ Lose(h)
    \/ \E t \in Tools :
          \/ \E type \in Types : Analyze(t, type)
          \/ FinishBuild(t) \/ FailBuild(t)
          \/ StartHeal(t) \/ FinishHeal(t) \/ FailHeal(t)
    \/ \E m \in queue : StartBuild(m)

Spec == Init /\ [][Next]_vars
-----------------------------------------------------------------------------
(* Properties *)

Logics == [sums : Nat, flow : Nat]
Rows == [status : {"analyzed", "building", "active", "failed"},
         type : Types \cup {NoType}, look : Nat, logic : Logics, outcome : Nat]

\* The state has the shape the schema and the code give it.
TypeOK ==
    /\ DOMAIN made \subseteq Tools
    /\ \A t \in DOMAIN made : made[t].key \in {NoKey} \cup ClaimKeys /\ made[t].first \in Types
    /\ row \in [Tools -> Rows]
    /\ agreed \in [Tools -> [logic : Logics, outcome : Nat]]
    /\ disturbed \subseteq Tools /\ healed \subseteq Tools
    /\ last \in Nat

\* However often and at however many times a first look is claimed - a second
\* click, a refresh, a timeout - there is one tool of each concept
\* (widgets/service.py:426, "Idempotent on claim_key").
ClaimedOnce ==
    \A t, u \in DOMAIN made :
        made[t].key = made[u].key /\ made[t].key # NoKey => t = u

\* Nothing is being asked of tool t, no commit on it was lost, and none changed
\* what another request had read and relied on.
Settled(t) ==
    /\ t \notin disturbed
    /\ \A h \in Handlers : ~UnderWay(h, t)

\* The calculation, the questions and the result screen are those the customer
\* was last told are saved, through builds that fail and are pressed or
\* retried, brands that change under the sweep, and edits of different columns
\* at one time; except where a commit was lost or two requests overlapped
\* (widgets/service.py:169, "a failure costs a retry rather than the work").
WorkKept ==
    \A t \in {u \in DOMAIN made : Settled(u)} :
        row[t].logic = agreed[t].logic /\ row[t].outcome = agreed[t].outcome

\* What a live tool serves is what its row says: the look of the last build or
\* heal, the sums of the row unless a heal has replaced them, and the type of
\* the row unless a retry has built the first direction instead.
LiveAsRecorded ==
    \A t \in {u \in DOMAIN made : Settled(u)} :
        row[t].status = "active" =>
            /\ live[t].look = row[t].look
            /\ live[t].sums = row[t].logic.sums \/ t \in healed
            /\ live[t].type \in {row[t].type, made[t].first}

=============================================================================
