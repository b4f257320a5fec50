-------------------------------- MODULE Studio --------------------------------
(***************************************************************************)
(* How a tool comes to be and keeps its looks: what its owner is offered,  *)
(* chooses and edits (ToolDesign), how a worker turns a design into an app *)
(* (Generation), and how the site it was designed for is watched           *)
(* (BrandWatch).  ToolDesign knows a build or a heal by what it starts     *)
(* from and what it records, so the three share no state: a behaviour is   *)
(* one of requests, of builds, or of checks.                               *)
(***************************************************************************)
EXTENDS Generation, Sequences

CONSTANTS Tools, Handlers, Types, MaxLooks, MaxRequests, MaxMishaps,
          Inner, Palettes, Menus, Moved, MaxPages, MaxHops, MaxColours, MaxEdits

VARIABLES looks, made, row, address, queue, running, req, agreed, disturbed,
          healed, last, budget,
          site, nav, stage, todo, found, print, look, fresh, settled, sure,
          steady, edits

Tool == INSTANCE ToolDesign WITH live <- address, MaxFaults <- MaxMishaps

toolVars == <<looks, made, row, address, queue, running, req, agreed, disturbed,
              healed, last, budget>>

Watch == INSTANCE BrandWatch

\* No type of tool is called like the one that is still to be chosen; a page
\* names its colours one after the other, and its links; a check may read at
\* least the home page.
ASSUME StudioAssumption ==
    /\ Tool!NoType \notin Types
    /\ \A p \in Palettes : p \in Seq(Watch!Colours)
    /\ MaxColours \in Nat
    /\ Inner \subseteq Nat \ {Watch!Home}
    /\ Menus # {} /\ Menus \subseteq Seq(Watch!Links)
    /\ MaxPages \in Nat \ {0}

watchVars == <<site, nav, stage, todo, found, print, look, fresh, settled, sure,
               steady, edits>>


NoBuilds ==
    /\ host = CHOOSE placed \in [Builds -> Processes] : TRUE
    /\ \A b \in Builds : at[b] = "idle"
NoTools == looks = <<>> /\ made = [t \in {} |-> 0]

\* A site without colours, and a tool without looks.
NoWatch ==
    /\ \A p \in Watch!Pages : site[p] = [palette |-> <<>>, to |-> p]
    /\ nav = CHOOSE menu \in Menus : TRUE
    /\ look = Watch!NoLook /\ print = Watch!NoPrint
    /\ edits = 0 /\ stage = "idle"

StudioInit ==
    /\ Init /\ Tool!Init /\ Watch!Init
    /\ NoBuilds \/ NoWatch

StudioNext ==
    \/ NoTools /\ NoWatch /\ Next /\ UNCHANGED <<toolVars, watchVars>>
    \/ NoBuilds /\ NoWatch /\ Tool!Next /\ UNCHANGED <<vars, watchVars>>
    \/ NoBuilds /\ NoTools /\ Watch!Next /\ UNCHANGED <<vars, toolVars>>

StudioSpec == StudioInit /\ [][StudioNext]_<<vars, toolVars, watchVars>>
-----------------------------------------------------------------------------
(* Properties: those of Generation, and these of the other two *)

\* However often a first look is claimed, there is one tool of each concept.
ClaimedOnce == Tool!ClaimedOnce

\* A tool's row holds what the customer was last told is saved, unless a commit
\* was lost or requests overlapped.
WorkKept == Tool!WorkKept

\* What a live tool serves is what its row says, but for the sums a heal has
\* replaced and the direction a retry has gone back to.
LiveAsRecorded == Tool!LiveAsRecorded

\* A tool's looks follow its site: once compared with what was found there last,
\* it has no colour that was not found, unless nothing was; and follow nothing
\* else: it is not designed anew because of the order of the site's links, where
\* the labels under which a page is linked agree.
LooksFollow == Watch!TrueToSite /\ Watch!CalmSiteLeftAlone
=============================================================================
