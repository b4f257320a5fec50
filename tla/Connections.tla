------------------------------ MODULE Connections ------------------------------
(***************************************************************************)
(* Where captured leads go (features/integrations, the launch settings of  *)
(* widgets/service.py, and the readiness panel): the connections of a      *)
(* workspace to outside systems and the webhook of one of its tools.       *)
(*                                                                         *)
(* The owner connects, pauses, scopes, tests and removes connections while *)
(* visitors submit leads and the outbox delivers them.  Everyone reads a   *)
(* row, may wait for the network, and then writes the columns it has       *)
(* changed.  Attempts, backoff and lost processes are those of LeadOutbox, *)
(* and here a failed delivery is tried again or given up at any time.      *)
(***************************************************************************)
EXTENDS Integers

CONSTANTS
    Ids,        \* identities of rows of integrations
    Providers,  \* the outside systems
    Keys,       \* credentials the owner may paste
    Urls,       \* webhook addresses the owner may enter
    Leads,      \* submissions under way at one time
    Handlers,   \* requests of the owner's at one time
    Senders,    \* outbox batches at one time
    MaxChanges  \* bound on what the owner and the outside systems do

VARIABLES
    conn,     \* the rows of integrations
    accepts,  \* the key each provider takes, if it takes any
    hook,     \* the tool's webhook and its last test
    req,      \* what each handler is doing
    lead,     \* submissions: the connections chosen for each
    rows,     \* the outbox: deliveries to connections that are pending
    job,      \* what each batch is doing
    paused,   \* history: connections paused with nothing on its way to them
    mixed,    \* history: the webhook was saved and tested at one time
    changes   \* what the owner and the outside systems have done so far

vars == <<conn, accepts, hook, req, lead, rows, job, paused, mixed,
          changes>>
queues == <<lead, rows, job>>

Idle == [at |-> "idle"]
NoKey == "none"
NoUrl == "none"
Untested == [status |-> "untested", of |-> NoUrl]
NoHook == [url |-> NoUrl, secret |-> NoUrl, launch |-> Untested]

Statuses == {"connected", "error", "disabled"}

\* At first there is at most one connection, in whatever state it is.
Init ==
    /\ \E known \in SUBSET {CHOOSE i \in Ids : TRUE} :
          conn \in [known -> [provider : Providers, status : Statuses,
                              key : Keys, covers : BOOLEAN]]
    /\ accepts \in [Providers -> Keys]
    /\ hook = NoHook
    /\ req = [h \in Handlers |-> Idle]
    /\ lead = [l \in Leads |-> Idle]
    /\ rows = {}
    /\ job = [s \in Senders |-> Idle]
    /\ paused = {}
    /\ mixed = FALSE
    /\ changes = 0

Live == DOMAIN conn
Of(p) == {i \in Live : conn[i].provider = p}
Change == changes < MaxChanges /\ changes' = changes + 1
Go(h, r) == req' = [req EXCEPT ![h] = r]

\* A row as it is after one who read it as saw, and made new of it, has
\* written the columns that differ.
Written(current, saw, new) ==
    [c \in DOMAIN new |-> IF new[c] # saw[c] THEN new[c] ELSE current[c]]

Busy(h, i) == req[h].at \in {"asked", "testing"} /\ req[h].id = i

\* Nothing is on its way to connection i, or being done about it.
Quiet(i, others) ==
    /\ \A h \in others : ~Busy(h, i)
    /\ \A l \in Leads : lead[l].at = "captured" => i \notin lead[l].to
    /\ \A r \in rows : r.id # i
    /\ \A s \in Senders : job[s].at = "sending" => job[s].id # i

\* An identity no one has a copy of.
Fresh(i) == i \notin Live /\ Quiet(i, Handlers)
-----------------------------------------------------------------------------
(* The owner's requests about connections *)

NewConnection(p, key, covers) ==
    [provider |-> p, status |-> "connected", key |-> key, covers |-> covers]

Ask(h, i, new) ==
    Go(h, [at |-> "asked", id |-> i, saw |-> conn[i], new |-> new])

\* A credential is pasted, for a new connection or over the old one's.
Connect(h, p, key, covers) ==
    /\ req[h] = Idle /\ Change
    /\ IF Of(p) = {}
       THEN /\ Go(h, [at |-> "connecting", provider |-> p,
                      key |-> key, covers |-> covers])
            /\ UNCHANGED paused
       ELSE \E i \in Of(p) :
            /\ Ask(h, i, NewConnection(p, key, covers))
            /\ paused' = paused \ {i}
    /\ UNCHANGED <<conn, accepts, hook, queues, mixed>>

Add(i, r) ==
    conn' = [j \in Live \cup {i} |->
                IF j = i THEN NewConnection(r.provider, r.key, r.covers) ELSE conn[j]]

\* The constraint refuses a second connection to one provider.
Insert(h, i) ==
    /\ req[h].at = "connecting" /\ Fresh(i)
    /\ IF Of(req[h].provider) = {} THEN Add(i, req[h]) ELSE UNCHANGED conn
    /\ Go(h, Idle)
    /\ UNCHANGED <<accepts, hook, queues, paused, mixed, changes>>

\* A connection is paused or resumed, or its scope is changed.
Enable(h, i, enabled) ==
    /\ req[h] = Idle /\ i \in Live /\ Change
    /\ Ask(h, i, [conn[i] EXCEPT !.status =
                     IF enabled THEN "connected" ELSE "disabled"])
    /\ paused' = paused \ {i}
    /\ UNCHANGED <<conn, accepts, hook, queues, mixed>>

Scope(h, i, covers) ==
    /\ req[h] = Idle /\ i \in Live /\ Change
    /\ Ask(h, i, [conn[i] EXCEPT !.covers = covers])
    /\ UNCHANGED <<conn, accepts, hook, queues, paused, mixed>>

\* A test event is sent through the connection as it was read.
Test(h, i) ==
    /\ req[h] = Idle /\ i \in Live /\ Change
    /\ Go(h, [at |-> "testing", id |-> i, saw |-> conn[i]])
    /\ UNCHANGED <<conn, accepts, hook, queues, paused, mixed>>

Accepted(c) == accepts[c.provider] = c.key

\* Mutant: a test that fails marks the connection whatever its state.
MarkedByTest(c) == [c EXCEPT !.status = IF Accepted(c) THEN @ ELSE "error"]

Tested(c) ==
    [c EXCEPT !.status =
        IF ~Accepted(c) /\ @ = "connected" THEN "error"
        ELSE IF Accepted(c) /\ @ = "error" THEN "connected" ELSE @]

TestAnswered(h) ==
    /\ req[h].at = "testing"
    /\ Go(h, [at |-> "asked", id |-> req[h].id, saw |-> req[h].saw,
              new |-> Tested(req[h].saw)])
    /\ UNCHANGED <<conn, accepts, hook, queues, paused, mixed, changes>>

\* The commit: of nothing, if the row has been removed since it was read.
Commit(h) ==
    /\ req[h].at = "asked"
    /\ LET i == req[h].id  saw == req[h].saw  new == req[h].new IN
       IF i \in Live
       THEN /\ conn' = [conn EXCEPT ![i] = Written(@, saw, new)]
            /\ paused' = IF conn'[i].status = "disabled" /\ new.status = "disabled"
                            /\ Quiet(i, Handlers \ {h})
                         THEN paused \cup {i} ELSE paused
       ELSE UNCHANGED <<conn, paused>>
    /\ Go(h, Idle)
    /\ UNCHANGED <<accepts, hook, queues, mixed, changes>>

\* A connection is removed, and the deliveries it is owed with it.
Disconnect(i) ==
    /\ i \in Live /\ Change
    /\ conn' = [j \in Live \ {i} |-> conn[j]]
    /\ rows' = {r \in rows : r.id # i}
    /\ paused' = paused \ {i}
    /\ UNCHANGED <<accepts, hook, req, lead, job, mixed>>

\* A request fails and leaves nothing behind.
Abandon(h) ==
    /\ req[h] # Idle
    /\ Go(h, Idle)
    /\ UNCHANGED <<conn, accepts, hook, queues, paused, mixed, changes>>
-----------------------------------------------------------------------------
(* The owner's requests about the webhook *)

AskHook(h, at, new) ==
    /\ Go(h, [at |-> at, saw |-> hook, new |-> new])
    /\ UNCHANGED <<conn, accepts, hook, queues, paused, mixed>>

\* The signing secret is named for the address it was made for.
SecretFor(url) ==
    IF url = NoUrl THEN NoUrl
    ELSE IF url # hook.url \/ hook.secret = NoUrl THEN url
    ELSE hook.secret

\* Mutant: the launch settings are updated, and keep the last test.
ConfigureLaunchOver(h, url) ==
    /\ req[h] = Idle /\ Change
    /\ AskHook(h, "saving", [hook EXCEPT !.url = url, !.secret = SecretFor(url)])

\* The launch settings are saved anew, without a test.
ConfigureLaunch(h, url) ==
    /\ req[h] = Idle /\ Change
    /\ AskHook(h, "saving", [url |-> url, secret |-> SecretFor(url),
                             launch |-> Untested])

\* A signed test event is sent to the address as it was read.
TestDelivery(h) ==
    /\ req[h] = Idle /\ Change
    /\ hook.url # NoUrl /\ hook.secret # NoUrl
    /\ \E status \in {"connected", "failed"} :
          AskHook(h, "pinging",
                  [hook EXCEPT !.launch = [status |-> status, of |-> hook.url]])

CommitHook(h) ==
    /\ req[h].at \in {"saving", "pinging"}
    /\ hook' = IF req[h].at = "pinging"
               THEN [hook EXCEPT !.launch = req[h].new.launch]
               ELSE Written(hook, req[h].saw, req[h].new)
    /\ LET overlaps == \E g \in Handlers \ {h} : req[g].at \in {"saving", "pinging"}
       IN mixed' = (overlaps \/ (mixed /\ hook'.launch # Untested))
    /\ Go(h, Idle)
    /\ UNCHANGED <<conn, accepts, queues, paused, changes>>

\* A key is rotated, or the outside system is down for a while.
Rotate(p) ==
    /\ Change
    /\ \E k \in Keys \cup {NoKey} : k # accepts[p] /\ accepts' = [accepts EXCEPT ![p] = k]
    /\ UNCHANGED <<conn, hook, req, queues, paused, mixed>>
-----------------------------------------------------------------------------
(* Leads and their deliveries *)

\* Mutant: a connection in error is left out.
OwedUnlessInError == {i \in Live : conn[i].status = "connected" /\ conn[i].covers}

\* The connections a lead that is captured now is owed to.
Owed == {i \in Live : conn[i].status \in {"connected", "error"} /\ conn[i].covers}

Capture(l) ==
    /\ lead[l] = Idle
    /\ \A r \in rows : r.lead # l
    /\ lead' = [lead EXCEPT ![l] = [at |-> "captured", to |-> Owed]]
    /\ UNCHANGED <<conn, accepts, hook, req, rows, job, paused, mixed, changes>>

\* The lead and its deliveries are committed; with a delivery to a connection
\* that is gone the submission is refused.
CommitCapture(l) ==
    /\ lead[l].at = "captured"
    /\ rows' = IF lead[l].to \subseteq Live
               THEN rows \cup {[lead |-> l, id |-> i] : i \in lead[l].to} ELSE rows
    /\ lead' = [lead EXCEPT ![l] = Idle]
    /\ UNCHANGED <<conn, accepts, hook, req, job, paused, mixed, changes>>

\* A batch takes what is owed to connection i, and reads the connection once.
TakeRows(s, i) ==
    /\ job[s] = Idle
    /\ LET due == {r \in rows : r.id = i} IN
       /\ due # {}
       /\ job' = [job EXCEPT ![s] = [at |-> "sending", id |-> i, left |-> due,
                                     done |-> {}, saw |-> conn[i], new |-> conn[i]]]
    /\ UNCHANGED <<conn, accepts, hook, req, lead, rows, paused, mixed, changes>>

Delivered(c) ==
    [c EXCEPT !.status = IF ~Accepted(c) THEN "error"
                         ELSE IF @ = "error" THEN "connected" ELSE @]

\* One lead is sent.  If the connection does not take it, it stays owed, or
\* that was the last attempt.
Deliver(s, r) ==
    /\ job[s].at = "sending" /\ r \in job[s].left
    /\ \E over \in (IF Accepted(job[s].new) THEN {TRUE} ELSE BOOLEAN) :
          job' = [job EXCEPT ![s].left = @ \ {r},
                             ![s].done = IF over THEN @ \cup {r} ELSE @,
                             ![s].new = Delivered(@)]
    /\ UNCHANGED <<conn, accepts, hook, req, lead, rows, paused, mixed, changes>>

\* The batch commits, unless the connection was removed under it: then all it
\* has recorded is lost.
EndBatch(s) ==
    /\ job[s].at = "sending" /\ job[s].left = {}
    /\ LET i == job[s].id IN
       IF i \in Live
       THEN /\ conn' = [conn EXCEPT ![i] = Written(@, job[s].saw, job[s].new)]
            /\ rows' = rows \ job[s].done
       ELSE UNCHANGED <<conn, rows>>
    /\ job' = [job EXCEPT ![s] = Idle]
    /\ UNCHANGED <<accepts, hook, req, lead, paused, mixed, changes>>

Next ==
    \/ \E h \in Handlers :
          \/ \E p \in Providers, key \in Keys, covers \in BOOLEAN :
                Connect(h, p, key, covers)
          \/ \E i \in Ids :
                \/ Insert(h, i) \/ Test(h, i)
                \/ \E on \in BOOLEAN : Enable(h, i, on) \/ Scope(h, i, on)
          \/ TestAnswered(h) \/ Commit(h) \/ Abandon(h)
          \/ \E url \in Urls \cup {NoUrl} : ConfigureLaunch(h, url)
          \/ TestDelivery(h) \/ CommitHook(h)
    \/ \E i \in Ids : Disconnect(i)
    \/ \E p \in Providers : Rotate(p)
    \/ \E l \in Leads : Capture(l) \/ CommitCapture(l)
    \/ \E s \in Senders :
          \/ \E i \in Ids : TakeRows(s, i)
          \/ \E r \in rows : Deliver(s, r)
          \/ EndBatch(s)

\* Submissions and batches that have begun come to an end, and the outbox is
\* swept for every connection that is owed something.
Fairness ==
    /\ \A l \in Leads : WF_vars(CommitCapture(l))
    /\ \A s \in Senders :
          WF_vars((\E r \in rows : Deliver(s, r)) \/ EndBatch(s))
    /\ \A i \in Ids : SF_vars(\E s \in Senders : TakeRows(s, i))

Spec == Init /\ [][Next]_vars /\ Fairness
-----------------------------------------------------------------------------
(* Properties *)

\* A connection that was paused with nothing on its way to it stays paused, and
\* is owed nothing, until the owner resumes or connects it again: neither tests
\* nor leads undo what the owner decided.
PausedStaysPaused ==
    \A i \in paused :
        /\ conn[i].status = "disabled"
        /\ \A l \in Leads : lead[l].at = "captured" => i \notin lead[l].to
        /\ \A r \in rows : r.id # i

\* What the panel says of "Leads reach you".
Ready ==
    \/ hook.url # NoUrl
    \/ \E i \in Live : conn[i].status = "connected" /\ conn[i].covers

\* When the panel says that captured leads are delivered, a lead captured then
\* is owed to a connection, or to the webhook and signed with the secret made
\* for its address.  (An owner who takes mail of every lead is always reached.)
ReadyMeansDelivered ==
    Ready => Owed # {} \/ (hook.url # NoUrl /\ hook.secret = hook.url)

\* A webhook that is said to be connected is one whose address took a test
\* event, unless it was saved while the test was under way.
ConnectedWasTested ==
    hook.launch.status = "connected" /\ ~mixed => hook.launch.of = hook.url

\* The owner may believe both: that leads are delivered, and that the webhook
\* was tested.
PanelTrue == ReadyMeansDelivered /\ ConnectedWasTested

Works(p) ==
    \E i \in Of(p) : Accepted(conn[i]) /\ conn[i].covers /\ conn[i].status # "disabled"
Connected(p) == \E i \in Of(p) : conn[i].status = "connected"

\* A connection that failed mends itself: once the other side takes what it is
\* sent, and leads keep coming in, it is connected again
\* (integrations/service.py:239, "a single bad afternoon at a CRM").
Recovers ==
    \A p \in Providers :
        <>[]Works(p) /\ []<><<\E l \in Leads : Capture(l)>>_vars => []<>Connected(p)

=============================================================================
