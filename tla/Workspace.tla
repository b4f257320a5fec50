------------------------------ MODULE Workspace ------------------------------
(***************************************************************************)
(* A tool of a workspace and the people it belongs to.  One server answers *)
(* the visitors who submit leads to the tool (LeadCapture), those who keep *)
(* the workspace's accounts, its team and the tool's host name (Accounts), *)
(* those who sign in and stay signed in (Sessions), the pages that ask     *)
(* which questions and results are in force (ResultScreen), and the owner  *)
(* who goes through the leads (LeadDesk).  The five share no column that   *)
(* two of them write: a behaviour begins with what one of them is about    *)
(* and stays with it.                                                      *)
(***************************************************************************)
EXTENDS LeadCapture

CONSTANTS People, Tools, Codes, MaxTeamRequests,
          Top, Weight, Decisions, Edits, Screens, MaxSaves, MaxVisits,
          Processes, Passwords, MaxAsked, MaxOutages,
          Ids, Columns, Scores, PageSize, MaxExport, MaxDay, MaxMoves

VARIABLES links, verified, factor, person, invites, row, attached, work,
          requests, crossed, confirmed, spent, blurred, joined, out, troubled,
          tool, app, page, changes, visits,
          account, tokens, denied, redis, cooling, doing, asked, outages,
          chosen, mixed, gone, doubtful,
          lead, late, day, moves, walk, total, seen, due, slipped

Team == INSTANCE Accounts WITH MaxRequests <- MaxTeamRequests

\* No account, no tool and no recovery code is called like something else; a
\* design and a screen have one result or band at least, and weights are not
\* negative; the ids and the scores of leads are numbers, and there are finitely
\* many leads.
ASSUME WorkspaceAssumption ==
    /\ Team!None \notin People \cup Tools
    /\ Codes \cap {"enroll", "confirm", "disable"} = {}
    /\ Top \in Nat
    /\ \A q \in DOMAIN Weight : Weight[q] \in Nat
    /\ Decisions \cup Edits \subseteq
          [asks : Seq(DOMAIN Weight), results : Seq([min : Int, max : Int]) \ {<<>>},
           kind : {"weighted_score", "linear_estimate"}, clamped : BOOLEAN]
    /\ Screens \subseteq Seq([key : Int, min : Int, max : Int]) \ {<<>>}
    /\ IsFiniteSet(Ids) /\ Ids \cup Scores \subseteq Int
    /\ {PageSize, MaxExport} \subseteq Nat

teamVars == <<links, verified, factor, person, invites, row, attached, work,
              requests, crossed, confirmed, spent, blurred, joined, out, troubled>>

Screen == INSTANCE ResultScreen WITH MaxChanges <- MaxSaves

screenVars == <<tool, app, page, changes, visits>>

Auth == INSTANCE Sessions

authVars == <<account, tokens, denied, redis, cooling, doing, asked, outages,
              chosen, mixed, gone, doubtful>>

Desk == INSTANCE LeadDesk

deskVars == <<lead, late, day, moves, walk, total, seen, due, slipped>>

\* Nobody has visited the tool, and its plan is one of those it may have.
NoVisits ==
    /\ plan = CHOOSE p \in Plans : TRUE
    /\ clock = 0 /\ ~active
    /\ budget = [requests |-> 0, changes |-> 0, faults |-> 0]

NoRequests == requests = 0

\* The tool is building, and has no questions.
NoPages ==
    /\ tool = [status |-> "building", decision |-> Screen!NoDecision,
               screen |-> Screen!NoScreen]
    /\ app = Screen!NoApp
    /\ changes = 0

\* Nobody has an account, and Redis answers.
NoSessions == account = Auth!NoAccount /\ asked = 0 /\ outages = 0

\* There are no leads to go through.
NoDesk == (\A i \in Ids : lead[i] = Desk!NoLead) /\ day = 0 /\ walk = Desk!Shut

WorkspaceInit ==
    /\ Init /\ Team!Init /\ Screen!Init /\ Auth!Init /\ Desk!Init
    /\ \/ NoVisits /\ NoPages
       \/ NoVisits /\ NoSessions
       \/ NoPages /\ NoSessions

WorkspaceNext ==
    \/ NoRequests /\ NoPages /\ NoSessions /\ NoDesk /\ Next
       /\ UNCHANGED <<teamVars, screenVars, authVars, deskVars>>
    \/ NoVisits /\ NoPages /\ NoSessions /\ NoDesk /\ Team!Next
       /\ UNCHANGED <<vars, screenVars, authVars, deskVars>>
    \/ NoVisits /\ NoRequests /\ NoSessions /\ NoDesk /\ Screen!Next
       /\ UNCHANGED <<vars, teamVars, authVars, deskVars>>
    \/ NoVisits /\ NoRequests /\ NoPages /\ NoDesk /\ Auth!Next
       /\ UNCHANGED <<vars, teamVars, screenVars, deskVars>>
    \/ NoVisits /\ NoRequests /\ NoPages /\ NoSessions /\ Desk!Next
       /\ UNCHANGED <<vars, teamVars, screenVars, authVars>>

WorkspaceSpec ==
    WorkspaceInit /\ [][WorkspaceNext]_<<vars, teamVars, screenVars, authVars, deskVars>>
-----------------------------------------------------------------------------
(* Properties: those of LeadCapture, and these of the other four *)

\* What was revoked stays revoked: a link that another has replaced ("single
\* outstanding token per purpose", auth/recovery.py:52), through lost requests
\* and links that are followed, unless two were asked for at a time; and who
\* was removed from a team, with no invitation left and no acceptance under way,
\* does not come back without a new one, and is an owner again.
RevokedStaysRevoked == Team!OneLinkWorks /\ Team!RemovedStaysOut

\* The second factor is the one its owner has confirmed, and a recovery code
\* that was accepted is gone, unless requests about it overlapped; and the
\* password is the one its owner has set last, unless a request saved one over
\* another that it had not read.
CredentialsKept == Team!FactorKept /\ Auth!PasswordKept

\* "The presented token is single-use" (auth/routes.py:232): a session has one
\* token at most that was neither exchanged nor signed out, unless Redis could
\* not be asked or told, or two requests presented one at a time.
OneTokenEach == Auth!OneTokenEach

\* The table and the provider agree on who has the host name once no request
\* is under way, unless requests overlapped or one was lost in the middle.
HostsAgree == Team!HostsAgree

\* The result a visitor is shown is the one the answers lead to: the score
\* counts the questions that were asked and no others, unless what is in force
\* arrived while the visitor was answering, and a whole score is shown the band
\* it lies in, or the nearest if it is beyond all of them, whatever the
\* Architect wrote and the owner has cut since.
ScoreTrue == Screen!ScoredAsAsked /\ Screen!WholeScoresLand

\* Who goes through the leads, page by page or in one export, has seen each that
\* was in the list all the time, unless one has left it meanwhile, one has come
\* between a page's total and its rows, or the export is full.
PagesMissNone == Desk!PagesMissNone

\* "So a derived configuration always validates" (widgets/outcomes.py:232).
DerivedValidates == Screen!DerivedValidates
=============================================================================
