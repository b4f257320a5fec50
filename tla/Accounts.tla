-------------------------------- MODULE Accounts --------------------------------
(***************************************************************************)
(* The people of the service and what they may do with their accounts      *)
(* (features/users and features/auth): the links mailed to an account, its *)
(* second factor, the team of a workspace with its invitations, and a host *)
(* name given to a tool.                                                   *)
(*                                                                         *)
(* Every request loads a row, decides on what it has read, may wait for a  *)
(* mail server, for the provider of host names or for hashes to be made,   *)
(* and commits; requests overlap, and a commit may be lost after the       *)
(* provider has done its part.  Who a request comes from is decided before *)
(* it reaches these handlers, and links and invitations may expire at any  *)
(* time: then they are not used.                                           *)
(***************************************************************************)
EXTENDS Integers, Sequences, FiniteSets

CONSTANTS
    People,      \* the accounts; each begins as the owner of a workspace
    Tools,       \* the deployed tools of one of them
    Codes,       \* the recovery codes that are made at a time
    Handlers,    \* requests at one time
    MaxRequests  \* bound on the requests

VARIABLES
    links,     \* the links mailed to one account, in the order of their commits
    verified,  \* whether its address has been verified
    factor,    \* its second factor
    person,    \* the workspace and the role of each account
    invites,   \* the invitations, in the order of their commits
    row,       \* the row of custom_domains for one host name
    attached,  \* the project that the provider has given it to
    work,      \* what each handler is doing
    requests,  \* the requests so far
    crossed,   \* history: purposes for which two links were made at one time
    confirmed, \* history: the secret the owner has confirmed
    spent,     \* history: the recovery codes that were accepted
    blurred,   \* history: two requests about the second factor overlapped
    joined,    \* history: the invitations that were accepted
    out,       \* history: those removed from a team with nothing to come back by
    troubled   \* history: requests about the host name overlapped or were lost

mail == <<links, verified, crossed>>
second == <<factor, confirmed, spent, blurred>>
team == <<person, invites, joined, out>>
host == <<row, attached, troubled>>
vars == <<mail, second, team, host, work, requests>>

Resting == [at |-> "idle"]
None == "none"
Purposes == {"verify_email", "reset_password"}
NoFactor == [on |-> FALSE, secret |-> 0, codes |-> {}]
OwnWorkspace == [ws |-> None, role |-> "owner"]
NoRow == [id |-> 0]

Init ==
    /\ links = <<>> /\ verified = FALSE /\ crossed = {}
    /\ factor = NoFactor /\ confirmed = 0 /\ spent = {} /\ blurred = FALSE
    /\ person = [p \in People |-> OwnWorkspace]
    /\ invites = <<>> /\ joined = {} /\ out = {}
    /\ row = NoRow /\ attached = None /\ troubled = FALSE
    /\ work = [h \in Handlers |-> Resting]
    /\ requests = 0

Does(h, w) == work' = [work EXCEPT ![h] = w]

\* A request is loaded: w is what it knows and is about to do.
Begin(h, w) ==
    /\ work[h] = Resting
    /\ requests < MaxRequests /\ requests' = requests + 1
    /\ Does(h, w)

\* The request of h ends.
End(h) == Does(h, Resting) /\ UNCHANGED requests

Others(h, stages) == \E g \in Handlers \ {h} : work[g].at \in stages
-----------------------------------------------------------------------------
(* Links to verify an address or to set a new password *)

AskLink(h, purpose) ==
    /\ purpose = "verify_email" => ~verified
    /\ Begin(h, [at |-> "mailing", purpose |-> purpose, seen |-> Len(links)])
    /\ UNCHANGED <<mail, second, team, host>>

\* Mutant: a new link leaves the earlier ones alone.
SupersededNone(w) == {}

\* The links of the same purpose that were there, and unused.
Superseded(w) ==
    {i \in 1..w.seen : links[i].purpose = w.purpose /\ ~links[i].used}

NewLink(purpose) == [purpose |-> purpose, used |-> FALSE]

\* The link is committed: from now on the mail that was sent works, and those
\* before it do not.
MailLink(h) ==
    /\ work[h].at = "mailing"
    /\ LET w == work[h]
           old == Superseded(w)
       IN /\ links' = Append([i \in DOMAIN links |->
                                 [links[i] EXCEPT !.used = @ \/ i \in old]],
                             NewLink(w.purpose))
          /\ crossed' = IF \E i \in (w.seen + 1)..Len(links) : links[i].purpose = w.purpose
                        THEN crossed \cup {w.purpose} ELSE crossed
    /\ End(h)
    /\ UNCHANGED <<verified, second, team, host>>

\* A link is followed: its claim is one conditional UPDATE, and whoever has
\* it proves to read the mail of the account.
Redeem(h, i) ==
    /\ ~links[i].used
    /\ Begin(h, Resting)
    /\ links' = [links EXCEPT ![i].used = TRUE]
    /\ verified' = TRUE
    /\ UNCHANGED <<crossed, second, team, host>>
-----------------------------------------------------------------------------
(* The second factor *)

AskFactor(h, kind, new) ==
    /\ Begin(h, [at |-> "factor", kind |-> kind, saw |-> factor, new |-> new])
    /\ UNCHANGED <<mail, second, team, host>>

\* A secret is shown, and waits to be confirmed by a code.
Enroll(h) ==
    /\ ~factor.on
    /\ AskFactor(h, "enroll", [factor EXCEPT !.secret = requests + 1])

Confirm(h) ==
    /\ ~factor.on /\ factor.secret # 0
    /\ AskFactor(h, "confirm", [factor EXCEPT !.on = TRUE, !.codes = Codes])

Disable(h) == factor.on /\ AskFactor(h, "disable", NoFactor)

\* Mutant: the list of codes is changed in place, which is not saved.
Without(c) == factor.codes

Remaining(c) == factor.codes \ {c}

\* Someone signs in with a recovery code.
SpendCode(h, c) ==
    /\ factor.on /\ c \in factor.codes
    /\ AskFactor(h, c, [factor EXCEPT !.codes = Remaining(c)])

\* The columns that were changed are written.
CommitFactor(h) ==
    /\ work[h].at = "factor"
    /\ LET w == work[h] IN
       /\ factor' = [k \in DOMAIN factor |->
                        IF w.new[k] # w.saw[k] THEN w.new[k] ELSE factor[k]]
       /\ confirmed' = IF w.kind = "confirm" THEN w.saw.secret ELSE confirmed
       /\ spent' = IF w.kind \in Codes THEN spent \cup {w.kind}
                   ELSE IF w.kind = "confirm" THEN {} ELSE spent
    /\ blurred' = (blurred \/ Others(h, {"factor"}))
    /\ End(h)
    /\ UNCHANGED <<mail, team, host>>
-----------------------------------------------------------------------------
(* The team *)

IsOwner(p) == person[p] = OwnWorkspace
Pending(v) == ~v.accepted /\ ~v.revoked

\* Nothing is left by which p could come to the workspace of o.
Settled(h, o, p) ==
    /\ \A i \in DOMAIN invites :
          invites[i].by = o /\ invites[i].to = p => invites[i].revoked \/ i \in joined
    /\ \A g \in Handlers \ {h} :
          /\ work[g].at = "inviting" => work[g].by # o \/ work[g].to # p
          /\ work[g].at = "accepting" =>
                invites[work[g].invite].by # o \/ invites[work[g].invite].to # p

Invite(h, o, p, role) ==
    /\ o # p /\ IsOwner(o) /\ person[p].ws # o
    /\ Begin(h, [at |-> "inviting", by |-> o, to |-> p, role |-> role,
                 seen |-> Len(invites)])
    /\ out' = out \ {<<o, p>>}
    /\ UNCHANGED <<mail, second, person, invites, joined, host>>

\* The invitation is committed, and those that waited before it are revoked.
NewInvite(by, to, role) ==
    [by |-> by, to |-> to, role |-> role, accepted |-> FALSE, revoked |-> FALSE]

MailInvite(h) ==
    /\ work[h].at = "inviting"
    /\ LET w == work[h]
           old == {i \in 1..w.seen : /\ invites[i].by = w.by /\ invites[i].to = w.to
                                     /\ Pending(invites[i])}
       IN invites' = Append([i \in DOMAIN invites |->
                                [invites[i] EXCEPT !.revoked = @ \/ i \in old]],
                            NewInvite(w.by, w.to, w.role))
    /\ End(h)
    /\ UNCHANGED <<mail, second, person, joined, out, host>>

Accept(h, i) ==
    /\ Pending(invites[i])
    /\ person[invites[i].to].ws \in {None, invites[i].by}
    /\ Begin(h, [at |-> "accepting", invite |-> i])
    /\ UNCHANGED <<mail, second, team, host>>

\* Mutant: an invitation that was accepted may be accepted again.
StillOpen(v) == v

Accepted(v) == [v EXCEPT !.accepted = TRUE]

\* An acceptance is committed, whatever has become of the invitation.
Join(h) ==
    /\ work[h].at = "accepting"
    /\ LET i == work[h].invite  v == invites[i] IN
       /\ person' = [person EXCEPT ![v.to] = [ws |-> v.by, role |-> v.role]]
       /\ invites' = [invites EXCEPT ![i] = Accepted(v)]
       /\ joined' = joined \cup {i}
    /\ End(h)
    /\ UNCHANGED <<mail, second, out, host>>

Revoke(h, i) ==
    /\ IsOwner(invites[i].by) /\ ~invites[i].accepted
    /\ Begin(h, [at |-> "revoking", invite |-> i])
    /\ UNCHANGED <<mail, second, team, host>>

Revoked(h) ==
    /\ work[h].at = "revoking"
    /\ invites' = [invites EXCEPT ![work[h].invite].revoked = TRUE]
    /\ End(h)
    /\ UNCHANGED <<mail, second, person, joined, out, host>>

Remove(h, o, p) ==
    /\ IsOwner(o) /\ person[p].ws = o
    /\ Begin(h, [at |-> "removing", by |-> o, who |-> p])
    /\ UNCHANGED <<mail, second, team, host>>

\* The member has a workspace of their own again, in whatever team they are.
Removed(h) ==
    /\ work[h].at = "removing"
    /\ LET w == work[h] IN
       /\ person' = [person EXCEPT ![w.who] = OwnWorkspace]
       /\ out' = IF Settled(h, w.by, w.who) THEN out \cup {<<w.by, w.who>>} ELSE out
    /\ End(h)
    /\ UNCHANGED <<mail, second, invites, joined, host>>
-----------------------------------------------------------------------------
(* A host name *)

HostStages == {"attaching", "inserting", "asking", "saving", "detaching", "deleting"}

Agrees == attached = IF row = NoRow THEN None ELSE row.tool

\* Requests that overlap may leave the row and the provider apart, and so may
\* a commit that is lost, until they are brought together again.
Mend(h) ==
    troubled' = (Others(h, HostStages) \/ (troubled /\ ~Agrees'))

AddHost(h, tool) ==
    /\ row = NoRow
    /\ Begin(h, [at |-> "attaching", tool |-> tool])
    /\ UNCHANGED <<mail, second, team, host>>

\* The provider gives a name to one project.  What it says of one that the
\* project already has is its own affair.
Attach(h) ==
    /\ work[h].at = "attaching" /\ attached \in {None, work[h].tool}
    /\ attached' = work[h].tool
    /\ \E status \in {"verified", "pending"} :
          Does(h, [at |-> "inserting", tool |-> work[h].tool, status |-> status])
    /\ UNCHANGED <<mail, second, team, row, troubled, requests>>

NewHost(tool, status) == [id |-> requests, tool |-> tool, status |-> status]

\* The constraint refuses a second row of the name.
InsertHost(h) ==
    /\ work[h].at = "inserting"
    /\ row' = IF row = NoRow THEN NewHost(work[h].tool, work[h].status) ELSE row
    /\ UNCHANGED <<mail, second, team, attached>>
    /\ Mend(h)
    /\ End(h)

OnRow(h, stage) ==
    /\ row # NoRow
    /\ Begin(h, [at |-> stage, id |-> row.id, tool |-> row.tool])
    /\ UNCHANGED <<mail, second, team, host>>

VerifyHost(h) == OnRow(h, "asking")
RemoveHost(h) == OnRow(h, "detaching")

\* The provider looks at the name again; one it does not have is an error.
Answer(h) ==
    /\ work[h].at = "asking"
    /\ \E status \in (IF attached = work[h].tool THEN {"verified", "pending", "error"}
                      ELSE {"error"}) :
          Does(h, [at |-> "saving", id |-> work[h].id, status |-> status])
    /\ UNCHANGED <<mail, second, team, host, requests>>

SaveHost(h) ==
    /\ work[h].at = "saving"
    /\ row' = IF row.id = work[h].id
              THEN [row EXCEPT !.status = work[h].status] ELSE row
    /\ UNCHANGED <<mail, second, team, attached>>
    /\ Mend(h)
    /\ End(h)

\* The name is taken from the project; that it was gone already is no error.
Detach(h) ==
    /\ work[h].at = "detaching"
    /\ attached' = IF attached = work[h].tool THEN None ELSE attached
    /\ Does(h, [at |-> "deleting", id |-> work[h].id])
    /\ UNCHANGED <<mail, second, team, row, troubled, requests>>

DeleteHost(h) ==
    /\ work[h].at = "deleting"
    /\ row' = IF row.id = work[h].id THEN NoRow ELSE row
    /\ UNCHANGED <<mail, second, team, attached>>
    /\ Mend(h)
    /\ End(h)

\* Mutant: a refusal of the provider is ignored.
CarriesOn(w) == [w EXCEPT !.at = IF @ = "detaching" THEN "deleting" ELSE "idle"]

GivesUp(w) == Resting

\* The provider cannot be reached, or refuses.
Refuse(h) ==
    /\ work[h].at \in {"attaching", "detaching"}
    /\ Does(h, GivesUp(work[h]))
    /\ UNCHANGED <<mail, second, team, host, requests>>

\* A request is lost before its commit.
Abandon(h) ==
    /\ work[h] # Resting
    /\ troubled' = (troubled \/ (work[h].at \in {"inserting", "deleting"} /\ ~Agrees))
    /\ End(h)
    /\ UNCHANGED <<mail, second, team, row, attached>>

Next ==
    \E h \in Handlers :
        \/ \E purpose \in Purposes : AskLink(h, purpose)
        \/ MailLink(h)
        \/ \E i \in DOMAIN links : Redeem(h, i)
        \/ Enroll(h) \/ Confirm(h) \/ Disable(h) \/ CommitFactor(h)
        \/ \E c \in Codes : SpendCode(h, c)
        \/ \E o, p \in People, role \in {"admin", "member"} : Invite(h, o, p, role)
        \/ MailInvite(h) \/ Join(h) \/ Revoked(h) \/ Removed(h)
        \/ \E i \in DOMAIN invites : Accept(h, i) \/ Revoke(h, i)
        \/ \E o, p \in People : Remove(h, o, p)
        \/ \E tool \in Tools : AddHost(h, tool)
        \/ VerifyHost(h) \/ RemoveHost(h)
        \/ Attach(h) \/ InsertHost(h) \/ Answer(h) \/ SaveHost(h)
        \/ Detach(h) \/ DeleteHost(h) \/ Refuse(h) \/ Abandon(h)

Spec == Init /\ [][Next]_vars
-----------------------------------------------------------------------------
(* Properties *)

\* "Single outstanding token per purpose" (auth/recovery.py:52), through lost
\* requests and links that are followed, unless two were asked for at a time.
OneLinkWorks ==
    \A purpose \in Purposes \ crossed :
        Cardinality({i \in DOMAIN links : links[i].purpose = purpose /\ ~links[i].used}) <= 1

\* The second factor is the one its owner has confirmed, and a recovery code
\* that was accepted is gone, unless requests about it overlapped.
FactorKept ==
    ~blurred => /\ factor.on => factor.secret = confirmed
                /\ factor.codes \cap spent = {}

\* Who was removed from a team, with no invitation left and no acceptance under
\* way, does not come back without a new one, and is an owner again.
RemovedStaysOut ==
    \A pair \in out :
        /\ person[pair[2]].ws # pair[1]
        /\ person[pair[2]].ws = None => person[pair[2]].role = "owner"

\* The table and the provider agree on who has the name once no request is
\* under way, unless requests overlapped or one was lost in the middle.
HostsAgree ==
    (~troubled /\ \A h \in Handlers : work[h].at \notin HostStages) => Agrees
=============================================================================
