----------------------------- MODULE StudioProofs -----------------------------
(* Theorems about Studio and its parts, for every set of builds, processes,  *)
(* tools, handlers, types of tool and pages, and every bound on what goes    *)
(* wrong: what a build spends and puts live (Generation), what a tool's row  *)
(* holds (ToolDesign), and what its looks follow (BrandWatch).               *)
EXTENDS Studio, FiniteSetTheorems, SequenceTheorems, WellFoundedInduction, TLAPS

(***************************************************************************)
(* The builds: Generation                                                  *)
(***************************************************************************)

USE GenerationAssumption, FreeAssumption

(* A build that has not asked the model for code, and one that holds the     *)
(* lock of the template.                                                     *)
Unasked == {"idle", "designing", "stitching", "generating"}
Locked == {"clearing", "installing", "unpacking", "installed"}

\* A build may fail in this state.
Excused(b) ==
  \/ faulted[b]
  \/ code[b] = "none"
  \/ attempt[b] = MaxAttempts /\ code[b] \in {"invalid", "broken"}
  \/ code[b] = Fallback /\ b \in Echoing

(* What the stages of a build know of each other: nothing is spent before the *)
(* model is asked, a build with nobody to go back to carries the fallback, an *)
(* attempt that is repeated was not the last, and what is compiled is alone   *)
(* in its sandbox.                                                            *)
FlowOf(b) ==
  /\ at[b] \in Unasked =>
       code[b] = "none" /\ ~fallen[b] /\ calls[b] = 0 /\ attempt[b] = 1
  /\ at[b] \notin Unasked \cup {"failed"} =>
       code[b] # "none" /\ (retries[b] \/ code[b] = Fallback)
  /\ at[b] = "regenerating" => attempt[b] < MaxAttempts /\ retries[b]
  /\ at[b] \in {"compiling", "deploying"} => sandbox[b] = {code[b]}
  /\ at[b] = "deploying" => Compiles(code[b])
  /\ at[b] = "failed" => Excused(b)
  /\ live[b] \in {{}, {"fine"}, {Fallback}}
  /\ calls[b] <= attempt[b]

(* What holds of every build, with the types: the inductive invariant.       *)
FlowInv == \A b \in Builds : FlowOf(b)

IInv == TypeOK /\ FlowInv

(* A build begins unasked, in an empty sandbox.                              *)
LEMMA InitInv == Init => IInv
<1> SUFFICES ASSUME Init PROVE IInv
  OBVIOUS
<1> USE DEF Init
<1>1. TypeOK
  BY DEF TypeOK, Stages, Ended, Apps, NoDir, Contents
<1>2. FlowInv
  BY DEF FlowInv, FlowOf, Unasked
<1> QED
  BY <1>1, <1>2 DEF IInv

(* The steps of a build up to its code.                                      *)
LEMMA DesignStep ==
  ASSUME IInv, NEW b \in Builds, Start(b) \/ Design(b) \/ Stitch(b)
  PROVE  IInv'
<1> USE DEF IInv
<1>1. TypeOK'
  BY DEF TypeOK, Stages, Ended, Start, Design, Stitch, GoTo, dirs
<1>2. FlowInv'
  BY DEF TypeOK, Stages, Ended, Start, Design, Stitch, GoTo, dirs, FlowInv, FlowOf, Unasked, Excused
<1> QED
  BY <1>1, <1>2

(* A design that cannot be made fails the build before the model is asked.   *)
LEMMA StitchFailsStep == ASSUME IInv, NEW b \in Builds, StitchFails(b) PROVE IInv'
<1> USE DEF IInv, StitchFails, FallBack, GoTo, dirs, TypeOK, Stages, Apps
<1>1. TypeOK'
  OBVIOUS
<1>2. FlowInv'
  BY DEF FlowInv, FlowOf, Unasked, Excused, Fallback
<1> QED
  BY <1>1, <1>2

(* The model answers with an app, or is given up for the fallback.           *)
LEMMA GenerateStep == ASSUME IInv, NEW b \in Builds, Generate(b) PROVE IInv'
<1> USE DEF IInv, Generate, FallBack, GoTo, dirs, TypeOK, Stages, Apps
<1>1. TypeOK'
  <2>1. at' \in [Builds -> Stages] /\ calls' \in [Builds -> Nat]
    OBVIOUS
  <2>2. code' \in [Builds -> Apps \cup {"none"}]
    OBVIOUS
  <2>3. fallen' \in [Builds -> BOOLEAN] /\ retries' \in [Builds -> BOOLEAN]
    OBVIOUS
  <2> QED
    BY <2>1, <2>2, <2>3
<1>2. FlowInv'
  BY DEF FlowInv, FlowOf, Unasked, Excused, Fallback, ModelCode
<1> QED
  BY <1>1, <1>2

(* What was rejected is asked for again, or given up.                        *)
LEMMA RegenerateStep == ASSUME IInv, NEW b \in Builds, Regenerate(b) PROVE IInv'
<1> USE DEF IInv, Regenerate, Asks, FallBack, GoTo, dirs, TypeOK, Stages, Apps
<1>1. attempt[b] + 1 \in 1 .. MaxAttempts
  BY DEF FlowInv, FlowOf
<1>2. TypeOK'
  <2>1. at' \in [Builds -> Stages] /\ attempt' \in [Builds -> 1 .. MaxAttempts]
    BY <1>1
  <2>2. calls' \in [Builds -> Nat]
    OBVIOUS
  <2>3. code' \in [Builds -> Apps \cup {"none"}]
    OBVIOUS
  <2>4. fallen' \in [Builds -> BOOLEAN]
    OBVIOUS
  <2> QED
    BY <2>1, <2>2, <2>3, <2>4
<1>3. FlowInv'
  <2>1. FlowOf(b)'
    BY <1>1 DEF FlowInv, FlowOf, Unasked, Excused, Fallback, ModelCode
  <2>2. ASSUME NEW c \in Builds, c # b PROVE FlowOf(c)'
    BY <2>2 DEF FlowInv, FlowOf, Excused
  <2> QED
    BY <2>1, <2>2 DEF FlowInv
<1> QED
  BY <1>2, <1>3

(* A rejected attempt is repeated, or it was the last one: the fallback's    *)
(* only where it says what the design says.                                  *)
LEMMA RejectStep ==
  ASSUME IInv, NEW b \in Builds, Check(b) \/ Compile(b) \/ CompileHangs(b)
  PROVE  IInv'
<1> USE DEF IInv, Check, Compile, CompileHangs, Reject, LastAttempt, GoTo, dirs, TypeOK, Stages
<1>1. TypeOK'
  <2>1. at' \in [Builds -> Stages] /\ faults' \in 0 .. MaxFaults
    BY DEF Ended
  <2>2. faulted' \in [Builds -> BOOLEAN]
    OBVIOUS
  <2> QED
    BY <2>1, <2>2
<1>2. FlowInv'
  BY DEF FlowInv, FlowOf, Unasked, Excused, Fallback, ModelCode, Apps, Rejected, Compiles
<1> QED
  BY <1>1, <1>2

(* The steps at the template, and the sandbox.                               *)
LEMMA TemplateStep ==
  ASSUME IInv, NEW b \in Builds,
         \/ FindTemplate(b) \/ ClearStaging(b) \/ ClearTemplate(b) \/ Unpack(b) \/ Installed(b)
  PROVE  IInv'
<1> USE DEF IInv, FindTemplate, ClearStaging, ClearTemplate, Unpack, Installed, GoTo, dirs,
            TypeOK, Stages, Contents, NoDir
<1>1. TypeOK'
  <2>1. at' \in [Builds -> Stages]
    OBVIOUS
  <2>2. lock' \in [Processes -> Builds \cup {Free}]
    OBVIOUS
  <2>3. template' \subseteq Contents /\ staging' \subseteq Contents
    OBVIOUS
  <2> QED
    BY <2>1, <2>2, <2>3
<1>2. FlowInv'
  BY DEF FlowInv, FlowOf, Unasked, Excused
<1> QED
  BY <1>1, <1>2

(* What goes wrong at the template or the sandbox fails the build.           *)
LEMMA RaiseStep ==
  ASSUME IInv, NEW b \in Builds, InstallFails(b) \/ ScaffoldFails(b) \/ Fault(b)
  PROVE  IInv'
<1> USE DEF IInv, InstallFails, ScaffoldFails, Fault, Raise, GoTo, dirs, TypeOK, Stages, Ended,
            NoDir
<1>1. TypeOK'
  <2>1. at' \in [Builds -> Stages] /\ faults' \in 0 .. MaxFaults
    OBVIOUS
  <2>2. lock' \in [Processes -> Builds \cup {Free}]
    OBVIOUS
  <2>3. faulted' \in [Builds -> BOOLEAN]
    OBVIOUS
  <2>4. staging' \subseteq Contents
    OBVIOUS
  <2> QED
    BY <2>1, <2>2, <2>3, <2>4
<1>2. FlowInv'
  BY DEF FlowInv, FlowOf, Unasked, Excused
<1> QED
  BY <1>1, <1>2

(* The staged template takes its place.                                      *)
LEMMA RenameStep == ASSUME IInv, NEW b \in Builds, Rename(b) PROVE IInv'
<1> USE DEF IInv, Rename, Raise, GoTo, dirs, TypeOK, Stages, Ended, NoDir
<1>1. TypeOK'
  OBVIOUS
<1>2. FlowInv'
  BY DEF FlowInv, FlowOf, Unasked, Excused
<1> QED
  BY <1>1, <1>2

(* What is compiled and deployed is what the sandbox holds.                  *)
LEMMA ScaffoldStep == ASSUME IInv, NEW b \in Builds, Scaffold(b) \/ Deploy(b) PROVE IInv'
<1> USE DEF IInv, Scaffold, Deploy, Scaffolded, GoTo, dirs, TypeOK, Stages, Ended
<1>1. code[b] \in Apps
  BY DEF FlowInv, FlowOf, Unasked
<1>2. TypeOK'
  BY <1>1
<1>3. FlowInv'
  BY DEF FlowInv, FlowOf, Unasked, Excused, Compiles
<1> QED
  BY <1>2, <1>3

(* A process that is lost takes its builds with it.                          *)
LEMMA CrashStep == ASSUME IInv, NEW p \in Processes, Crash(p) PROVE IInv'
<1> USE DEF IInv, Crash, dirs, TypeOK, Stages, Ended
<1>1. TypeOK'
  OBVIOUS
<1>2. FlowInv'
  BY DEF FlowInv, FlowOf, Unasked, Excused
<1> QED
  BY <1>1, <1>2

(* Every step keeps the invariant.                                           *)
LEMMA InvStep == ASSUME IInv, [Next]_vars PROVE IInv'
<1>1. ASSUME NEW b \in Builds, Start(b) \/ Work(b) \/ CompileHangs(b) \/ Fault(b) PROVE IInv'
  BY <1>1, DesignStep, StitchFailsStep, GenerateStep, RegenerateStep, RejectStep, TemplateStep,
     RaiseStep, RenameStep, ScaffoldStep DEF Work
<1>2. ASSUME NEW p \in Processes, Crash(p) PROVE IInv'
  BY <1>2, CrashStep
<1>3. CASE UNCHANGED vars
  BY <1>3 DEF vars, flow, dirs, IInv, TypeOK, FlowInv, FlowOf, Excused
<1> QED
  BY <1>1, <1>2, <1>3 DEF Next

(* So it holds of every behaviour.                                           *)
LEMMA Invariance == Spec => []IInv
BY InitInv, InvStep, PTL DEF Spec

(* The variables of Generation keep their types, for every set of builds.    *)
THEOREM TypeCorrect == Spec => []TypeOK
<1>1. IInv => TypeOK
  BY DEF IInv
<1> QED
  BY <1>1, Invariance, PTL

(* engine.py:251: once there is a design, an outage of the model fails no     *)
(* build, at whatever call it comes and whatever was rejected before, but one *)
(* whose own copy has a sentence of the fallback's (builder.py:690).          *)
THEOREM OutageCorrect == Spec => []OutageSurvived
<1>1. IInv => OutageSurvived
  BY DEF IInv, FlowInv, FlowOf, Excused, OutageSurvived
<1> QED
  BY <1>1, Invariance, PTL

(* builder.py:706: what is live is one app that passed the checks and         *)
(* compiled, whatever its sandbox held in the attempts before.                *)
THEOREM LiveCorrect == Spec => []LiveIsClean
<1>1. IInv => LiveIsClean
  BY DEF IInv, FlowInv, FlowOf, LiveIsClean
<1> QED
  BY <1>1, Invariance, PTL

\* A model that was given up is not asked again.
GivenUpKept == \A b \in Builds : fallen[b] => calls'[b] = calls[b]

(* Once the model is given up, or unasked for, no step asks for more.        *)
LEMMA GivenUpStep == ASSUME IInv, [Next]_vars PROVE GivenUpKept
<1> USE DEF IInv, TypeOK, GivenUpKept
<1>1. ASSUME NEW b \in Builds, Generate(b) PROVE GivenUpKept
  BY <1>1 DEF Generate, FlowInv, FlowOf, Unasked
<1>2. ASSUME NEW b \in Builds, Regenerate(b) PROVE GivenUpKept
  BY <1>2 DEF Regenerate, Asks
<1>3. ASSUME NEW b \in Builds,
             \/ Start(b) \/ Design(b) \/ Stitch(b) \/ StitchFails(b) \/ Check(b)
             \/ Compile(b) \/ CompileHangs(b) \/ Scaffold(b) \/ Deploy(b) \/ Fault(b)
      PROVE  GivenUpKept
  BY <1>3 DEF Start, Design, Stitch, StitchFails, Check, Compile, CompileHangs, Scaffold, Deploy,
              Fault
<1>4. ASSUME NEW b \in Builds,
             \/ FindTemplate(b) \/ ClearStaging(b) \/ ClearTemplate(b) \/ Unpack(b)
             \/ Installed(b) \/ InstallFails(b) \/ Rename(b) \/ ScaffoldFails(b)
      PROVE  GivenUpKept
  BY <1>4 DEF FindTemplate, ClearStaging, ClearTemplate, Unpack, Installed, InstallFails, Rename,
              ScaffoldFails
<1>5. ASSUME NEW p \in Processes, Crash(p) PROVE GivenUpKept
  BY <1>5 DEF Crash
<1>6. CASE UNCHANGED vars
  BY <1>6 DEF vars
<1> QED
  BY <1>1, <1>2, <1>3, <1>4, <1>5, <1>6 DEF Next, Work

(* engine.py:264: a build asks the model for code at most once per attempt,   *)
(* and never again once it has given the model up.                            *)
THEOREM SpendCorrect == Spec => SpendBounded
<1>1. IInv => \A b \in Builds : calls[b] <= attempt[b]
  BY DEF IInv, FlowInv, FlowOf
<1>2. IInv /\ [Next]_vars => [\A b \in Builds : fallen[b] => calls'[b] = calls[b]]_vars
  BY GivenUpStep DEF GivenUpKept
<1> QED
  BY <1>1, <1>2, Invariance, PTL DEF Spec, SpendBounded

(* Whoever installs has its process's lock.                                   *)
LockInv == \A b \in Builds : at[b] \in Locked => lock[host[b]] = b

\* One process runs all builds.
OneProcess == \A b, c \in Builds : host[b] = host[c]

(* In one process an installation is complete before it is renamed, and so    *)
(* is the template.                                                           *)
TemplateInv ==
  OneProcess =>
    /\ ReadyIsComplete
    /\ \A b \in Builds : at[b] = "installed" => "packages" \in staging

(* The lock between the builds of one process excludes them.                 *)
LEMMA LockStep == ASSUME IInv, LockInv, [Next]_vars PROVE LockInv'
<1> USE DEF IInv, TypeOK, LockInv, Locked, GoTo, dirs
<1>1. ASSUME NEW b \in Builds, ClearStaging(b) PROVE LockInv'
  BY <1>1 DEF ClearStaging, MayInstall
<1>2. ASSUME NEW b \in Builds, ClearTemplate(b) \/ Unpack(b) \/ Installed(b) PROVE LockInv'
  BY <1>2 DEF ClearTemplate, Unpack, Installed
<1>3. ASSUME NEW b \in Builds, InstallFails(b) \/ ScaffoldFails(b) \/ Fault(b) PROVE LockInv'
  BY <1>3 DEF InstallFails, ScaffoldFails, Fault, Raise
<1>4. ASSUME NEW b \in Builds, Rename(b) PROVE LockInv'
  BY <1>4 DEF Rename, Raise
<1>5. ASSUME NEW b \in Builds,
             Start(b) \/ Design(b) \/ Stitch(b) \/ StitchFails(b) \/ Generate(b) \/ Regenerate(b)
      PROVE  LockInv'
  BY <1>5 DEF Start, Design, Stitch, StitchFails, Generate, Regenerate
<1>6. ASSUME NEW b \in Builds,
             \/ Check(b) \/ Compile(b) \/ CompileHangs(b)
             \/ FindTemplate(b) \/ Scaffold(b) \/ Deploy(b)
      PROVE  LockInv'
  BY <1>6 DEF Check, Compile, CompileHangs, Reject, FindTemplate, Scaffold, Deploy
<1>7. ASSUME NEW p \in Processes, Crash(p) PROVE LockInv'
  BY <1>7 DEF Crash, Ended
<1>8. CASE UNCHANGED vars
  BY <1>8 DEF vars, flow
<1> QED
  BY <1>1, <1>2, <1>3, <1>4, <1>5, <1>6, <1>7, <1>8 DEF Next, Work

(* Only the build with the lock changes the two directories, and no other     *)
(* build of its process is between its installation and its renaming.         *)
LEMMA TemplateKept == ASSUME IInv, LockInv, TemplateInv, [Next]_vars PROVE TemplateInv'
<1> SUFFICES ASSUME OneProcess'
             PROVE  /\ ReadyIsComplete'
                    /\ \A b \in Builds : at'[b] = "installed" => "packages" \in staging'
  BY DEF TemplateInv
<1> USE DEF IInv, TypeOK, LockInv, Locked, GoTo, dirs, ReadyIsComplete, Ready
<1>1. host' = host
  BY DEF Next, Work, vars, Start, Design, Stitch, StitchFails, Generate, Regenerate, Check,
         Compile, CompileHangs, FindTemplate, ClearStaging, ClearTemplate, Unpack, Installed,
         InstallFails, Rename, Scaffold, ScaffoldFails, Deploy, Fault, Crash
<1>2. /\ OneProcess /\ ReadyIsComplete
      /\ \A b \in Builds : at[b] = "installed" => "packages" \in staging
  BY <1>1 DEF OneProcess, TemplateInv
<1>3. \A b, c \in Builds : at[b] \in Locked /\ at[c] \in Locked => b = c
  BY <1>2 DEF OneProcess
<1>4. ASSUME NEW b \in Builds, ClearStaging(b)
      PROVE  /\ ReadyIsComplete'
             /\ \A c \in Builds : at'[c] = "installed" => "packages" \in staging'
  <2>1. \A c \in Builds : at[c] # "installed"
    BY <1>4, <1>2 DEF ClearStaging, MayInstall, OneProcess
  <2> QED
    BY <1>4, <1>2, <2>1 DEF ClearStaging
<1>5. ASSUME NEW b \in Builds, ClearTemplate(b) \/ Unpack(b) \/ Installed(b)
      PROVE  /\ ReadyIsComplete'
             /\ \A c \in Builds : at'[c] = "installed" => "packages" \in staging'
  BY <1>5, <1>2, <1>3 DEF ClearTemplate, Unpack, Installed, NoDir
<1>6. ASSUME NEW b \in Builds, InstallFails(b)
      PROVE  /\ ReadyIsComplete'
             /\ \A c \in Builds : at'[c] = "installed" => "packages" \in staging'
  BY <1>6, <1>2, <1>3 DEF InstallFails, Raise, NoDir
<1>7. ASSUME NEW b \in Builds, Rename(b)
      PROVE  /\ ReadyIsComplete'
             /\ \A c \in Builds : at'[c] = "installed" => "packages" \in staging'
  BY <1>7, <1>2, <1>3 DEF Rename, Raise, NoDir
<1>8. ASSUME NEW b \in Builds,
             \/ Start(b) \/ Design(b) \/ Stitch(b) \/ StitchFails(b) \/ Generate(b)
             \/ Regenerate(b) \/ Check(b) \/ Compile(b) \/ CompileHangs(b) \/ FindTemplate(b)
             \/ Scaffold(b) \/ ScaffoldFails(b) \/ Deploy(b) \/ Fault(b)
      PROVE  /\ ReadyIsComplete'
             /\ \A c \in Builds : at'[c] = "installed" => "packages" \in staging'
  BY <1>8, <1>2 DEF Start, Design, Stitch, StitchFails, Generate, Regenerate, Check, Compile,
     CompileHangs, Reject, FindTemplate, Scaffold, ScaffoldFails, Deploy, Fault, Raise
<1>9. ASSUME NEW p \in Processes, Crash(p)
      PROVE  /\ ReadyIsComplete'
             /\ \A c \in Builds : at'[c] = "installed" => "packages" \in staging'
  BY <1>9, <1>2 DEF Crash
<1>10. CASE UNCHANGED vars
  BY <1>10, <1>2 DEF vars, flow
<1> QED
  BY <1>4, <1>5, <1>6, <1>7, <1>8, <1>9, <1>10 DEF Next, Work

(* builder.py:401: where one process runs all builds, a template that builds  *)
(* take for ready is complete, through installations that fail and processes  *)
(* that are lost in the middle of one.                                        *)
THEOREM ReadyCorrect == Spec => []ReadyInOneProcess
<1>1. Init => LockInv /\ TemplateInv
  BY DEF Init, LockInv, Locked, TemplateInv, ReadyIsComplete, Ready, NoDir
<1>2. IInv /\ LockInv /\ TemplateInv /\ [Next]_vars => (LockInv /\ TemplateInv)'
  BY LockStep, TemplateKept
<1>3. TemplateInv => ReadyInOneProcess
  BY DEF TemplateInv, OneProcess, ReadyInOneProcess
<1> QED
  BY <1>1, <1>2, <1>3, Invariance, PTL DEF Spec

(***************************************************************************)
(* The tools: ToolDesign                                                   *)
(***************************************************************************)

(* A design, a concept of a first look, and a message to build a tool.       *)
Designs == [look : Nat, sums : Nat, flow : Nat]
(* The concepts of a first look: designs that have looks.                    *)
Concepts == [type : Types, design : {d \in Designs : d.look # 0}]
Orders == [tool : Tools, type : Types, design : Designs, kind : {"build", "retry"}]

(* A request that is about to commit row `new`, having read `saw`, of a tool *)
(* made as `from` says: Build and Retry, which come with a message, or an    *)
(* edit of one column.                                                       *)
Pressed(r, from) ==
    /\ r.message \in Orders /\ r.message.tool = r.tool
    /\ r.reads = Tool!DesignColumns
    /\ r.saw.status \in {"analyzed", "failed"} /\ r.new.status = "building"
    /\ r.new.outcome = r.saw.outcome
    /\ r.message.design # Tool!NoDesign =>
          /\ r.message.design.look # 0
          /\ r.new.look = r.message.design.look
          /\ r.new.logic = Tool!Logic(r.message.design)
    /\ r.message.design = Tool!NoDesign =>
          r.new.look = r.saw.look /\ r.new.logic = r.saw.logic
    /\ \/ r.message.kind = "build" /\ r.message.type = r.new.type
       \/ /\ r.message.kind = "retry" /\ r.message.type = from[r.tool].first
          /\ r.saw.status = "failed" /\ r.new.type = r.saw.type
          /\ r.new.logic = r.saw.logic
          /\ r.message.design = Tool!NoDesign =>
                \/ r.saw.type = Tool!NoType \/ r.saw.look = 0 \/ r.saw.logic.sums = 0

(* An edit of one decision: it relies on the sums, and keeps them.           *)
DecisionEdited(r) ==
    /\ r.message = Tool!NoMessage
    /\ r.reads = {"status", "logic"}
    /\ r.saw.status # "building"
    /\ \A c \in {"status", "type", "look", "outcome"} : r.new[c] = r.saw[c]
    /\ r.new.logic.sums = r.saw.logic.sums

(* An edit of the outcome: it relies on, and changes, that column alone.     *)
OutcomeEdited(r) ==
    /\ r.message = Tool!NoMessage
    /\ r.reads = {"outcome"}
    /\ \A c \in {"status", "type", "look", "logic"} : r.new[c] = r.saw[c]

(* What a request that is about to commit, or has, knows of its tool.        *)
Request(r, from) ==
    r.at \in {"sending", "answered"} =>
        /\ r.tool \in DOMAIN from
        /\ r.saw \in Tool!Rows /\ r.new \in Tool!Rows
        /\ Pressed(r, from) \/ DecisionEdited(r) \/ OutcomeEdited(r)
        /\ r.at = "sending" => Pressed(r, from)

(* What a worker has taken up: nothing, a message, or a heal of the row it   *)
(* saw.                                                                      *)
Jobs == {Tool!Free} \cup [job : {"build"}, message : Orders]
                    \cup [job : {"heal"}, saw : Tool!Rows]

(* The types of ToolDesign, with what a job and a request name.              *)
ToolTypes ==
    /\ looks \in Seq([1..2 -> Concepts])
    /\ DOMAIN made \subseteq Tools
    /\ \A t \in DOMAIN made : made[t].first \in Types
    /\ row \in [Tools -> Tool!Rows]
    /\ DOMAIN address = Tools
    /\ agreed \in [Tools -> [logic : Tool!Logics, outcome : Nat]]
    /\ \A t \in Tools : t \in DOMAIN made \/ (agreed[t].outcome = 0 /\ running[t] = Tool!Free)
    /\ running \in [Tools -> Jobs]
    /\ \A t \in Tools : running[t].job = "build" => running[t].message.tool = t
    /\ queue \subseteq Orders
    /\ \A m \in queue : m.tool \in DOMAIN made
    /\ DOMAIN req = Handlers
    /\ \A h \in Handlers : Request(req[h], made)
    /\ \A h \in Handlers : req[h].at = "claiming" => req[h].key \in Tool!ClaimKeys
    /\ last \in Nat

(* Request r has sent message m, and is about to commit.                     *)
Sent(r, m) == r.at = "answered" /\ r.tool = m.tool /\ r.message = m

(* Message m says what the row of its tool says.                             *)
SaysSo(m) ==
    /\ m.design # Tool!NoDesign =>
          m.design.look = row[m.tool].look /\ Tool!Logic(m.design) = row[m.tool].logic
    /\ m.design = Tool!NoDesign /\ m.kind = "retry" => row[m.tool].logic.sums = 0
    /\ m.type \in {row[m.tool].type, made[m.tool].first}

(* The messages there are for tool t.  Until a request of it commits, each is *)
(* one that a request is about to commit; then there is one, which says what *)
(* the row says; and none once the tool is live.                             *)
MessagesOf(t) ==
    /\ row[t].status \in {"analyzed", "failed"} =>
          /\ \A m \in queue : m.tool = t => \E h \in Handlers : Sent(req[h], m)
          /\ running[t].job = "build" => \E h \in Handlers : Sent(req[h], running[t].message)
          /\ \A m \in queue : m.tool = t /\ running[t].job = "build" =>
                \E h, g \in Handlers : h # g /\ Sent(req[h], m) /\ Sent(req[g], running[t].message)
    /\ row[t].status = "building" =>
          /\ \A m \in queue : m.tool = t => SaysSo(m) /\ running[t].job # "build"
          /\ running[t].job = "build" => SaysSo(running[t].message)
          /\ \A m, n \in queue : m.tool = t /\ n.tool = t => m = n
    /\ row[t].status = "active" =>
          (\A m \in queue : m.tool # t) /\ running[t].job # "build"

(* What a row says of itself, of what its owner was told, and of what is     *)
(* live.                                                                     *)
RowOf(t) ==
    /\ row[t].logic = agreed[t].logic /\ row[t].outcome = agreed[t].outcome
    /\ row[t].status # "analyzed" => row[t].type # Tool!NoType
    /\ row[t].logic.sums # 0 => row[t].look # 0
    /\ running[t].job = "heal" =>
          row[t].status = "active" /\ running[t].saw.type = row[t].type
    /\ row[t].status = "active" =>
          /\ address[t].look = row[t].look
          /\ address[t].sums = row[t].logic.sums \/ t \in healed
          /\ address[t].type \in {row[t].type, made[t].first}

(* A request of tool t has seen what it relies on as it is.                  *)
SeenAsIs(t) ==
    \A h \in Handlers : Tool!UnderWay(h, t) =>
        \A c \in req[h].reads : row[t][c] = req[h].saw[c]

(* A tool that no lost commit or overlapping request has disturbed.          *)
InOrder(t) == SeenAsIs(t) /\ RowOf(t) /\ MessagesOf(t)

(* The inductive invariant of ToolDesign.                                    *)
ToolInv ==
    /\ ToolTypes
    /\ Tool!ClaimedOnce
    /\ \A t \in DOMAIN made \ disturbed : InOrder(t)

(* The columns of a row.                                                     *)
LEMMA RowColumns ==
    ASSUME NEW r \in Tool!Rows
    PROVE  /\ r.status \in {"analyzed", "building", "active", "failed"}
           /\ r.type \in Types \cup {Tool!NoType} /\ r.look \in Nat /\ r.outcome \in Nat
           /\ r.logic \in Tool!Logics /\ r.logic.sums \in Nat /\ r.logic.flow \in Nat
           /\ DOMAIN r = {"status", "type", "look", "logic", "outcome"}
<1>1. r.logic \in Tool!Logics
    BY DEF Tool!Rows
<1>. QED
    BY <1>1 DEF Tool!Rows, Tool!Logics

(* A design of the model's is one, and none is none.                         *)
LEMMA DesignMade ==
    /\ \A n \in Nat \ {0} : Tool!Design(n) \in Designs /\ Tool!Design(n) # Tool!NoDesign
                            /\ Tool!Design(n).look = n /\ Tool!Design(n).sums = n
    /\ Tool!NoDesign \in Designs /\ Tool!NoDesign.look = 0
    /\ \A d \in Designs : Tool!Logic(d) \in Tool!Logics /\ Tool!Logic(d).sums = d.sums
BY DEF Tool!Design, Tool!NoDesign, Designs, Tool!Logic, Tool!Logics

(* A row with a new design has its look and its logic, and the rest stays.   *)
LEMMA Redesigned ==
    ASSUME NEW r \in Tool!Rows, NEW d \in Designs
    PROVE  /\ Tool!WithDesign(r, d) \in Tool!Rows
           /\ Tool!WithDesign(r, d).status = r.status
           /\ Tool!WithDesign(r, d).type = r.type
           /\ Tool!WithDesign(r, d).outcome = r.outcome
           /\ d # Tool!NoDesign => /\ Tool!WithDesign(r, d).look = d.look
                                   /\ Tool!WithDesign(r, d).logic = Tool!Logic(d)
           /\ d = Tool!NoDesign => Tool!WithDesign(r, d) = r
<1>1. d.look \in Nat /\ Tool!Logic(d) \in Tool!Logics
    BY DesignMade DEF Designs
<1> HIDE DEF Tool!Logics
<1>2. CASE d = Tool!NoDesign
    BY <1>2 DEF Tool!WithDesign
<1>3. CASE d # Tool!NoDesign
    <2>1. Tool!WithDesign(r, d) = [r EXCEPT !.look = d.look, !.logic = Tool!Logic(d)]
        BY <1>3 DEF Tool!WithDesign
    <2>. QED
        BY <1>1, <1>3, <2>1 DEF Tool!Rows
<1>. QED
    BY <1>2, <1>3

(* A commit writes the columns the request has changed since it read them.   *)
LEMMA WrittenRow ==
    ASSUME NEW t, row[t] \in Tool!Rows, NEW saw \in Tool!Rows, NEW new \in Tool!Rows
    PROVE  /\ Tool!Written(t, saw, new) \in Tool!Rows
           /\ \A c \in {"status", "type", "look", "logic", "outcome"} :
                 Tool!Written(t, saw, new)[c] = IF new[c] # saw[c] THEN new[c] ELSE row[t][c]
<1>1. DOMAIN new = {"status", "type", "look", "logic", "outcome"}
    BY RowColumns
<1>2. Tool!Written(t, saw, new) = [c \in DOMAIN new |-> IF new[c] # saw[c] THEN new[c] ELSE row[t][c]]
    BY DEF Tool!Written
<1>3. \A c \in {"status", "type", "look", "logic", "outcome"} :
         Tool!Written(t, saw, new)[c] = IF new[c] # saw[c] THEN new[c] ELSE row[t][c]
    BY <1>1, <1>2
<1>4. Tool!Written(t, saw, new) =
         [status |-> IF new.status # saw.status THEN new.status ELSE row[t].status,
          type |-> IF new.type # saw.type THEN new.type ELSE row[t].type,
          look |-> IF new.look # saw.look THEN new.look ELSE row[t].look,
          logic |-> IF new.logic # saw.logic THEN new.logic ELSE row[t].logic,
          outcome |-> IF new.outcome # saw.outcome THEN new.outcome ELSE row[t].outcome]
    BY <1>1, <1>2
<1>5. Tool!Written(t, saw, new) \in Tool!Rows
    BY <1>4 DEF Tool!Rows
<1>. QED
    BY <1>3, <1>5

(* The kinds of jobs, and of messages.                                       *)
LEMMA JobKinds ==
    /\ \A j \in Jobs :
          /\ j.job \in {"none", "build", "heal"}
          /\ j.job = "none" <=> j = Tool!Free
          /\ j.job = "build" => j.message \in Orders
          /\ j.job = "heal" => j.saw \in Tool!Rows
    /\ Tool!Free \in Jobs
    /\ \A m \in Orders : [job |-> "build", message |-> m] \in Jobs
    /\ \A r \in Tool!Rows : [job |-> "heal", saw |-> r] \in Jobs
BY DEF Jobs, Tool!Free

(* The fields of a message to build, which is not the absence of one.        *)
LEMMA OrderParts ==
    \A m \in Orders : /\ m.tool \in Tools /\ m.type \in Types /\ m.design \in Designs
                      /\ m.kind \in {"build", "retry"} /\ m # Tool!NoMessage
BY DEF Orders, Tool!NoMessage

(* Where concepts are kept.                                                  *)
LEMMA ConceptThere ==
    ASSUME looks \in Seq([1..2 -> Concepts]), NEW key \in Tool!ClaimKeys
    PROVE  /\ key[1] \in 1..Len(looks) /\ key[2] \in 1..2
           /\ looks[key[1]][key[2]] \in Concepts /\ looks[key[1]][1] \in Concepts
<1>1. key[1] \in 1..Len(looks) /\ key[2] \in 1..2
    BY DEF Tool!ClaimKeys
<1>2. looks[key[1]] \in [1..2 -> Concepts]
    BY <1>1
<1>. QED
    BY <1>1, <1>2

(* There are no tools to begin with.                                         *)
LEMMA ToolInit == Tool!Init => ToolInv
<1>1. SUFFICES ASSUME Tool!Init PROVE ToolInv
    OBVIOUS
<1>2. /\ looks = <<>> /\ queue = {} /\ disturbed = {} /\ last = 0
      /\ row = [t \in Tools |-> Tool!Absent]
      /\ DOMAIN address = Tools
      /\ running = [t \in Tools |-> Tool!Free]
      /\ DOMAIN req = Handlers /\ \A h \in Handlers : req[h].at = "idle"
      /\ agreed = [t \in Tools |-> [logic |-> Tool!Logic(Tool!NoDesign), outcome |-> 0]]
    BY <1>1 DEF Tool!Init, Tool!Idle
<1>3. DOMAIN made = {}
    BY <1>1 DEF Tool!Init
<1>4. Tool!Absent \in Tool!Rows
    <2>1. Tool!Logic(Tool!NoDesign) \in Tool!Logics
        BY DesignMade
    <2>. QED
        BY <2>1 DEF Tool!Absent, Tool!NewRow, Tool!Rows, Tool!NoDesign
<1>5. agreed \in [Tools -> [logic : Tool!Logics, outcome : Nat]]
    BY <1>2, DesignMade
<1>6. running \in [Tools -> Jobs] /\ \A t \in Tools : running[t] = Tool!Free /\ running[t].job = "none"
    BY <1>2, JobKinds
<1>7. \A h \in Handlers : Request(req[h], made)
    BY <1>2 DEF Request
<1>8. ToolTypes
    <2>1. \A t \in Tools : t \in DOMAIN made \/ (agreed[t].outcome = 0 /\ running[t] = Tool!Free)
        BY <1>2, <1>6
    <2>2. row \in [Tools -> Tool!Rows]
        BY <1>2, <1>4
    <2>. QED
        BY <1>2, <1>3, <1>5, <1>6, <1>7, <2>1, <2>2 DEF ToolTypes
<1>. QED
    BY <1>3, <1>8 DEF ToolInv, Tool!ClaimedOnce

(* A request stays one whatever other tools are made.                        *)
LEMMA RequestStays ==
    ASSUME NEW r, NEW from, NEW to, Request(r, from), DOMAIN from \subseteq DOMAIN to,
           \A t \in DOMAIN from : to[t] = from[t]
    PROVE  Request(r, to)
BY DEF Request, Pressed

(* A handler starts or ends something, and nothing else changes but numbers. *)
LEMMA RequestTypes ==
    ASSUME ToolTypes, NEW h \in Handlers, NEW r, req' = [req EXCEPT ![h] = r],
           Request(r, made), r.at = "claiming" => r.key \in Tool!ClaimKeys,
           last' \in Nat, UNCHANGED <<looks, made, address, queue, running>>,
           row' \in [Tools -> Tool!Rows],
           agreed' \in [Tools -> [logic : Tool!Logics, outcome : Nat]],
           \A t \in Tools : t \in DOMAIN made \/ agreed'[t].outcome = agreed[t].outcome
    PROVE  ToolTypes'
<1>1. \A g \in Handlers : Request(req'[g], made')
    BY DEF ToolTypes
<1>2. \A g \in Handlers : req'[g].at = "claiming" => req'[g].key \in Tool!ClaimKeys'
    BY DEF ToolTypes, Tool!ClaimKeys
<1>3. DOMAIN req' = Handlers
    BY DEF ToolTypes
<1>. QED
    BY <1>1, <1>2, <1>3 DEF ToolTypes

(* Nobody is asking, and a build or heal begins or ends.                     *)
LEMMA JobTypes ==
    ASSUME ToolTypes, NEW t \in DOMAIN made, NEW j \in Jobs,
           running' = [running EXCEPT ![t] = j],
           j.job = "build" => j.message.tool = t,
           queue' \subseteq queue,
           last' \in Nat, UNCHANGED <<looks, made, req>>, DOMAIN address' = Tools,
           row' \in [Tools -> Tool!Rows],
           agreed' \in [Tools -> [logic : Tool!Logics, outcome : Nat]],
           \A u \in Tools : u \in DOMAIN made \/ agreed'[u].outcome = agreed[u].outcome
    PROVE  ToolTypes'
<1>1. t \in Tools
    BY DEF ToolTypes
<1>2. running' \in [Tools -> Jobs] /\ \A u \in Tools : u # t => running'[u] = running[u]
    BY <1>1 DEF ToolTypes
<1>3. \A u \in Tools : running'[u].job = "build" => running'[u].message.tool = u
    BY <1>1, <1>2 DEF ToolTypes
<1>4. \A u \in Tools : u \in DOMAIN made' \/ (agreed'[u].outcome = 0 /\ running'[u] = Tool!Free)
    BY <1>2 DEF ToolTypes
<1>5. \A g \in Handlers : Request(req'[g], made')
    BY DEF ToolTypes
<1>6. \A g \in Handlers : req'[g].at = "claiming" => req'[g].key \in Tool!ClaimKeys'
    BY DEF ToolTypes, Tool!ClaimKeys
<1>. QED
    BY <1>1, <1>2, <1>3, <1>4, <1>5, <1>6 DEF ToolTypes

(* A tool is made.                                                           *)
LEMMA MakeTypes ==
    ASSUME ToolTypes, NEW t \in Tools, NEW key, NEW first \in Types, NEW new \in Tool!Rows,
           Tool!Make(t, key, first, new),
           req' = req \/ \E h \in Handlers : req' = [req EXCEPT ![h] = Tool!Idle],
           UNCHANGED <<looks, address, queue, running, last>>
    PROVE  ToolTypes'
<1>1. /\ t \notin DOMAIN made
      /\ made' = [u \in DOMAIN made \cup {t} |->
                     IF u = t THEN [key |-> key, first |-> first] ELSE made[u]]
      /\ row' = [row EXCEPT ![t] = new]
      /\ agreed' = [agreed EXCEPT ![t].logic = new.logic]
    BY DEF Tool!Make, Tool!Exists
<1>2. /\ DOMAIN made' = DOMAIN made \cup {t}
      /\ \A u \in DOMAIN made : made'[u] = made[u]
      /\ \A u \in DOMAIN made' : made'[u].first \in Types
    BY <1>1 DEF ToolTypes
<1>3. row' \in [Tools -> Tool!Rows]
    BY <1>1 DEF ToolTypes
<1>4. agreed' \in [Tools -> [logic : Tool!Logics, outcome : Nat]]
      /\ \A u \in Tools : u # t => agreed'[u] = agreed[u]
    BY <1>1, RowColumns DEF ToolTypes
<1>5. \A g \in Handlers : Request(req'[g], made)
                          /\ (req'[g].at = "claiming" => req'[g].key \in Tool!ClaimKeys)
    BY DEF ToolTypes, Tool!Idle, Request
<1>6. \A g \in Handlers : Request(req'[g], made')
    BY <1>2, <1>5, RequestStays
<1>7. \A g \in Handlers : req'[g].at = "claiming" => req'[g].key \in Tool!ClaimKeys'
    BY <1>5 DEF Tool!ClaimKeys
<1>8. DOMAIN req' = Handlers
    BY DEF ToolTypes
<1>9. \A u \in Tools : u \in DOMAIN made' \/ (agreed'[u].outcome = 0 /\ running'[u] = Tool!Free)
    BY <1>2, <1>4 DEF ToolTypes
<1>10. \A m \in queue' : m.tool \in DOMAIN made'
    BY <1>2 DEF ToolTypes
<1>. QED
    BY <1>2, <1>3, <1>4, <1>6, <1>7, <1>8, <1>9, <1>10 DEF ToolTypes

(* Two concepts are added to the first looks.                                *)
LEMMA LookTypes ==
    ASSUME ToolTypes, NEW types \in [1..2 -> Types], Tool!FirstLook(types)
    PROVE  ToolTypes'
<1>1. /\ looks' = Append(looks, Tool!Look(types)) /\ last' = last + 2
      /\ UNCHANGED <<made, row, address, queue, running, req, agreed>>
    BY DEF Tool!FirstLook, Tool!history
<1>2. Tool!Look(types) \in [1..2 -> Concepts]
    <2>1. ASSUME NEW i \in 1..2
          PROVE  [type |-> types[i], design |-> Tool!Design(last + i)] \in Concepts
        <3>1. last + i \in Nat \ {0}
            BY DEF ToolTypes
        <3>. QED
            BY <3>1, DesignMade DEF Concepts
    <2>. QED
        BY <2>1 DEF Tool!Look
<1>3. looks' \in Seq([1..2 -> Concepts]) /\ Len(looks') = Len(looks) + 1 /\ Len(looks) \in Nat
    BY <1>1, <1>2 DEF ToolTypes
<1>4. \A g \in Handlers : req'[g].at = "claiming" => req'[g].key \in Tool!ClaimKeys'
    BY <1>1, <1>3 DEF ToolTypes, Tool!ClaimKeys
<1>5. last' \in Nat
    BY <1>1 DEF ToolTypes
<1>. QED
    BY <1>1, <1>3, <1>4, <1>5 DEF ToolTypes

(* A tool of which nothing changes stays in order, whatever is asked of it.  *)
LEMMA StaysInOrder ==
    ASSUME ToolTypes, NEW u \in DOMAIN made, InOrder(u), SeenAsIs(u)',
           row'[u] = row[u], agreed'[u] = agreed[u], running'[u] = running[u],
           address'[u] = address[u], made'[u] = made[u], u \in healed' <=> u \in healed,
           \A m \in queue' : m.tool = u => m \in queue,
           \A h \in Handlers, m \in Orders : m.tool = u /\ Sent(req[h], m) => Sent(req'[h], m)
    PROVE  InOrder(u)'
<1>1. RowOf(u)'
    BY DEF InOrder, RowOf
<1>2. \A m \in queue : m \in Orders
    BY DEF ToolTypes
<1>3. u \in Tools /\ (running[u].job = "build" =>
                         running[u].message \in Orders /\ running[u].message.tool = u)
    BY JobKinds DEF ToolTypes
<1>4. \A m : m.tool = u /\ SaysSo(m) => SaysSo(m)'
    BY DEF SaysSo
<1>5. MessagesOf(u)'
    <2>1. CASE row[u].status \in {"analyzed", "failed"}
        <3>1. \A m \in queue' : m.tool = u => \E h \in Handlers : Sent(req'[h], m)
            BY <1>2, <2>1 DEF InOrder, MessagesOf
        <3>2. running'[u].job = "build" => \E h \in Handlers : Sent(req'[h], running[u].message)
            BY <1>3, <2>1 DEF InOrder, MessagesOf
        <3>3. \A m \in queue' : m.tool = u /\ running'[u].job = "build" =>
                \E h, g \in Handlers : h # g /\ Sent(req'[h], m) /\ Sent(req'[g], running[u].message)
            BY <1>2, <1>3, <2>1 DEF InOrder, MessagesOf
        <3>. QED
            BY <2>1, <3>1, <3>2, <3>3 DEF MessagesOf, Sent
    <2>2. CASE row[u].status = "building"
        BY <1>3, <1>4, <2>2 DEF InOrder, MessagesOf
    <2>3. CASE row[u].status = "active"
        BY <2>3 DEF InOrder, MessagesOf
    <2>4. row[u].status \in {"analyzed", "building", "active", "failed"}
        BY <1>3, RowColumns DEF ToolTypes
    <2>. QED
        BY <2>1, <2>2, <2>3, <2>4
<1>. QED
    BY <1>1, <1>5 DEF InOrder

(* A commit that leaves a tool undisturbed changes nothing that another      *)
(* request of the tool relies on.                                            *)
LEMMA Undisturbed ==
    ASSUME NEW t, NEW new, NEW others, Tool!Disturbing(t, new, others)
    PROVE  /\ disturbed \subseteq disturbed'
           /\ \A u \in disturbed' : u \in disturbed \/ u = t
           /\ t \notin disturbed' =>
                 \A h \in others : Tool!UnderWay(h, t) =>
                    \A c \in req[h].reads : new[c] = row[t][c]
BY DEF Tool!Disturbing

(* What is asked of a tool: the request has read its row.                    *)
Asked(h, r) ==
    /\ Request(r, made) /\ r.at \in {"sending", "answered"}
    /\ r.tool \in DOMAIN made /\ r.saw = row[r.tool]
    /\ req[h] = Tool!Idle /\ req' = [req EXCEPT ![h] = r]
    /\ last' \in Nat
    /\ UNCHANGED <<looks, made, row, address, queue, running, agreed, disturbed, healed>>

(* A request that read the row as it is, and will commit to it, keeps the    *)
(* invariant: nobody else's does.                                            *)
LEMMA AskedStep == ASSUME ToolInv, NEW h \in Handlers, NEW r, Asked(h, r) PROVE ToolInv'
<1>1. ToolTypes'
    BY RequestTypes DEF ToolInv, ToolTypes, Asked
<1>2. Tool!ClaimedOnce'
    BY DEF ToolInv, Asked, Tool!ClaimedOnce
<1>3. ASSUME NEW t \in DOMAIN made' \ disturbed' PROVE InOrder(t)'
    <2>1. ToolTypes /\ t \in DOMAIN made /\ t \notin disturbed /\ InOrder(t)
        BY <1>3 DEF ToolInv, Asked
    <2>2. \A g \in Handlers : req'[g] = IF g = h THEN r ELSE req[g]
        BY <2>1 DEF Asked, ToolTypes
    <2>3. SeenAsIs(t)'
        BY <2>1, <2>2 DEF Asked, InOrder, SeenAsIs, Tool!UnderWay
    <2>4. \A g \in Handlers, m \in Orders : m.tool = t /\ Sent(req[g], m) => Sent(req'[g], m)
        BY <2>2 DEF Asked, Sent, Tool!Idle
    <2>. QED
        BY <2>1, <2>3, <2>4, StaysInOrder DEF Asked
<1>. QED
    BY <1>1, <1>2, <1>3 DEF ToolInv

(* Each of the owner's requests is one.                                      *)
LEMMA BuildAsked ==
    ASSUME ToolInv, NEW h \in Handlers, NEW t \in Tools, NEW type \in Types,
           NEW tuned \in BOOLEAN, Tool!PressBuild(h, t, type, tuned)
    PROVE  \E r : Asked(h, r)
<1> DEFINE d == IF tuned THEN Tool!Design(last + 1) ELSE Tool!NoDesign
           new == [Tool!WithDesign(row[t], d) EXCEPT !.status = "building", !.type = type]
           m == Tool!Message(t, type, d, "build")
           r == [at |-> "sending", tool |-> t, reads |-> Tool!DesignColumns, saw |-> row[t],
                 new |-> new, message |-> m]
<1>1. t \in DOMAIN made /\ row[t] \in Tool!Rows /\ last \in Nat /\ last + 1 \in Nat \ {0}
    BY DEF Tool!PressBuild, Tool!Exists, ToolInv, ToolTypes
<1>2. d \in Designs /\ (d # Tool!NoDesign => d.look # 0)
    BY <1>1, DesignMade
<1>3. m \in Orders /\ m.tool = t /\ m.type = type /\ m.design = d /\ m.kind = "build"
    BY <1>2 DEF Tool!Message, Orders
<1>4. /\ req[h] = Tool!Idle /\ row[t].status \in {"analyzed", "failed"}
      /\ Tool!Ask(h, t, Tool!DesignColumns, new, m)
      /\ last' = IF tuned THEN last + 1 ELSE last
    BY DEF Tool!PressBuild, Tool!CanAsk
<1> HIDE DEF m, d
<1>5. /\ new \in Tool!Rows /\ new.status = "building" /\ new.type = type
      /\ new.outcome = row[t].outcome
      /\ d # Tool!NoDesign => new.look = d.look /\ new.logic = Tool!Logic(d)
      /\ d = Tool!NoDesign => new.look = row[t].look /\ new.logic = row[t].logic
    <2>1. Tool!WithDesign(row[t], d) \in Tool!Rows
        BY <1>1, <1>2, Redesigned
    <2>2. new \in Tool!Rows
        BY <2>1 DEF Tool!Rows
    <2>3. /\ new.status = "building" /\ new.type = type
          /\ new.outcome = Tool!WithDesign(row[t], d).outcome
          /\ new.look = Tool!WithDesign(row[t], d).look
          /\ new.logic = Tool!WithDesign(row[t], d).logic
        BY <2>1 DEF Tool!Rows
    <2>. QED
        BY <1>1, <1>2, <2>2, <2>3, Redesigned
<1> HIDE DEF new
<1>6. /\ req' = [req EXCEPT ![h] = r]
      /\ UNCHANGED <<looks, made, row, address, queue, running, agreed, disturbed, healed>>
    <2>1. m # Tool!NoMessage
        BY <1>3, OrderParts
    <2>. QED
        BY <1>4, <2>1 DEF Tool!Ask, Tool!Go, Tool!history
<1>7. Pressed(r, made)
    BY <1>2, <1>3, <1>4, <1>5 DEF Pressed
<1>8. Request(r, made)
    BY <1>1, <1>5, <1>7 DEF Request
<1>. QED
    BY <1>1, <1>4, <1>6, <1>8 DEF Asked

(* A retry of a failed build is such a request.                              *)
LEMMA RetryAsked ==
    ASSUME ToolInv, NEW h \in Handlers, NEW t \in Tools, Tool!PressRetry(h, t)
    PROVE  \E r : Asked(h, r)
<1> DEFINE d == Tool!Reassembled(row[t])
           new == [row[t] EXCEPT !.status = "building"]
           m == Tool!Message(t, made[t].first, d, "retry")
           r == [at |-> "sending", tool |-> t, reads |-> Tool!DesignColumns, saw |-> row[t],
                 new |-> new, message |-> m]
<1>1. /\ t \in DOMAIN made /\ row[t] \in Tool!Rows /\ last \in Nat /\ made[t].first \in Types
    BY DEF Tool!PressRetry, Tool!Exists, ToolInv, ToolTypes
<1>2. /\ d \in Designs
      /\ d # Tool!NoDesign =>
            d.look # 0 /\ d.look = row[t].look /\ Tool!Logic(d) = row[t].logic
      /\ d = Tool!NoDesign =>
            \/ row[t].type = Tool!NoType \/ row[t].look = 0 \/ row[t].logic.sums = 0
    <2>1. CASE row[t].type = Tool!NoType \/ row[t].look = 0 \/ row[t].logic.sums = 0
        BY <2>1, DesignMade DEF Tool!Reassembled
    <2>2. CASE ~(row[t].type = Tool!NoType \/ row[t].look = 0 \/ row[t].logic.sums = 0)
        <3>1. d = [look |-> row[t].look, sums |-> row[t].logic.sums, flow |-> row[t].logic.flow]
            BY <2>2 DEF Tool!Reassembled
        <3>2. /\ row[t].look \in Nat /\ row[t].logic \in Tool!Logics
              /\ row[t].logic.sums \in Nat /\ row[t].logic.flow \in Nat
            BY <1>1, RowColumns
        <3> HIDE DEF d
        <3>3. d \in Designs /\ d.look = row[t].look
            BY <3>1, <3>2 DEF Designs
        <3>4. Tool!Logic(d) = row[t].logic
            BY <3>1, <3>2 DEF Tool!Logic, Tool!Logics
        <3>5. d # Tool!NoDesign
            BY <2>2, <3>3 DEF Tool!NoDesign
        <3>. QED
            BY <2>2, <3>3, <3>4, <3>5
    <2>. QED
        BY <2>1, <2>2
<1>3. m \in Orders /\ m.tool = t /\ m.type = made[t].first /\ m.design = d /\ m.kind = "retry"
    BY <1>1, <1>2 DEF Tool!Message, Orders
<1>4. /\ req[h] = Tool!Idle /\ row[t].status = "failed"
      /\ Tool!Ask(h, t, Tool!DesignColumns, new, m)
      /\ last' = last
    BY DEF Tool!PressRetry, Tool!CanAsk
<1> HIDE DEF m, d
<1>5. /\ new \in Tool!Rows /\ new.status = "building" /\ new.type = row[t].type
      /\ new.outcome = row[t].outcome /\ new.look = row[t].look /\ new.logic = row[t].logic
    BY <1>1 DEF Tool!Rows
<1> HIDE DEF new
<1>6. /\ req' = [req EXCEPT ![h] = r]
      /\ UNCHANGED <<looks, made, row, address, queue, running, agreed, disturbed, healed>>
    <2>1. m # Tool!NoMessage
        BY <1>3, OrderParts
    <2>. QED
        BY <1>4, <2>1 DEF Tool!Ask, Tool!Go, Tool!history
<1>7. Pressed(r, made)
    BY <1>2, <1>3, <1>4, <1>5 DEF Pressed
<1>8. Request(r, made)
    BY <1>1, <1>5, <1>7 DEF Request
<1>. QED
    BY <1>1, <1>4, <1>6, <1>8 DEF Asked

(* So is an edit of a decision, and of the outcome.                          *)
LEMMA EditAsked ==
    ASSUME ToolInv, NEW h \in Handlers, NEW t \in Tools,
           Tool!EditDecision(h, t) \/ Tool!EditOutcome(h, t)
    PROVE  \E r : Asked(h, r)
<1>1. /\ t \in DOMAIN made /\ row[t] \in Tool!Rows /\ last \in Nat /\ req[h] = Tool!Idle
      /\ row[t].logic \in Tool!Logics
    BY RowColumns
       DEF Tool!EditDecision, Tool!EditOutcome, Tool!CanAsk, Tool!Exists, ToolInv, ToolTypes
<1>2. CASE Tool!EditDecision(h, t)
    <2> DEFINE new == [row[t] EXCEPT !.logic.flow = last + 1]
               r == [at |-> "answered", tool |-> t, reads |-> {"status", "logic"}, saw |-> row[t],
                     new |-> new, message |-> Tool!NoMessage]
    <2>1. /\ Tool!Ask(h, t, {"status", "logic"}, new, Tool!NoMessage)
          /\ row[t].status # "building" /\ last' = last + 1
        BY <1>2 DEF Tool!EditDecision
    <2>2. /\ new \in Tool!Rows /\ new.logic.sums = row[t].logic.sums
          /\ \A c \in {"status", "type", "look", "outcome"} : new[c] = row[t][c]
        <3>1. /\ new = [row[t] EXCEPT !.logic = [row[t].logic EXCEPT !.flow = last + 1]]
              /\ [row[t].logic EXCEPT !.flow = last + 1] \in Tool!Logics
              /\ [row[t].logic EXCEPT !.flow = last + 1].sums = row[t].logic.sums
            BY <1>1 DEF Tool!Logics
        <3> HIDE DEF new
        <3>. QED
            BY <1>1, <3>1 DEF Tool!Rows
    <2> HIDE DEF new
    <2>3. /\ req' = [req EXCEPT ![h] = r]
          /\ UNCHANGED <<looks, made, row, address, queue, running, agreed, disturbed, healed>>
        BY <2>1 DEF Tool!Ask, Tool!Go, Tool!history
    <2>5. /\ r.at = "answered" /\ r.message = Tool!NoMessage /\ r.reads = {"status", "logic"}
          /\ r.saw = row[t] /\ r.new = new /\ r.tool = t
        OBVIOUS
    <2> HIDE DEF r
    <2>6. DecisionEdited(r)
        BY <2>1, <2>2, <2>5 DEF DecisionEdited
    <2>7. r.tool \in DOMAIN made /\ r.saw \in Tool!Rows /\ r.new \in Tool!Rows
        BY <1>1, <2>2, <2>5
    <2>8. r.at # "sending"
        BY <2>5
    <2>4. Request(r, made)
        BY <2>6, <2>7, <2>8 DEF Request
    <2>9. last' \in Nat
        BY <1>1, <2>1
    <2>10. r.saw = row[r.tool] /\ r.at \in {"sending", "answered"}
        BY <2>5
    <2>. QED
        BY <1>1, <2>3, <2>4, <2>7, <2>9, <2>10 DEF Asked
<1>3. CASE Tool!EditOutcome(h, t)
    <2>1. PICK n \in {0, last + 1} :
             /\ Tool!Ask(h, t, {"outcome"}, [row[t] EXCEPT !.outcome = n], Tool!NoMessage)
             /\ last' = IF n = 0 THEN last ELSE n
        BY <1>3 DEF Tool!EditOutcome
    <2> DEFINE new == [row[t] EXCEPT !.outcome = n]
               r == [at |-> "answered", tool |-> t, reads |-> {"outcome"}, saw |-> row[t],
                     new |-> new, message |-> Tool!NoMessage]
    <2>2. /\ new \in Tool!Rows
          /\ \A c \in {"status", "type", "look", "logic"} : new[c] = row[t][c]
        BY <1>1 DEF Tool!Rows
    <2> HIDE DEF new
    <2>3. /\ req' = [req EXCEPT ![h] = r]
          /\ UNCHANGED <<looks, made, row, address, queue, running, agreed, disturbed, healed>>
        BY <2>1 DEF Tool!Ask, Tool!Go, Tool!history, new
    <2>4. Request(r, made)
        BY <1>1, <2>2 DEF Request, OutcomeEdited
    <2>5. last' \in Nat
        BY <1>1, <2>1
    <2>. QED
        BY <1>1, <2>3, <2>4, <2>5 DEF Asked
<1>. QED
    BY <1>2, <1>3

(* A handler that is busy with no tool stays so, or goes idle.               *)
LEMMA ElsewhereStep ==
    ASSUME ToolInv, NEW h \in Handlers, NEW r, req' = [req EXCEPT ![h] = r],
           req[h].at \notin {"sending", "answered"}, r.at \notin {"sending", "answered"},
           r.at = "claiming" => r.key \in Tool!ClaimKeys,
           UNCHANGED <<looks, made, row, address, queue, running, agreed, disturbed, healed, last>>
    PROVE  ToolInv'
<1>1. ToolTypes'
    BY RequestTypes DEF ToolInv, ToolTypes, Request
<1>2. Tool!ClaimedOnce'
    BY DEF ToolInv, Tool!ClaimedOnce
<1>3. ASSUME NEW t \in DOMAIN made' \ disturbed' PROVE InOrder(t)'
    <2>1. ToolTypes /\ t \in DOMAIN made /\ InOrder(t)
        BY <1>3 DEF ToolInv
    <2>2. \A g \in Handlers : req'[g] = IF g = h THEN r ELSE req[g]
        BY <2>1 DEF ToolTypes
    <2>3. SeenAsIs(t)'
        BY <2>1, <2>2 DEF InOrder, SeenAsIs, Tool!UnderWay
    <2>4. \A g \in Handlers, m \in Orders : m.tool = t /\ Sent(req[g], m) => Sent(req'[g], m)
        BY <2>2 DEF Sent
    <2>. QED
        BY <2>1, <2>3, <2>4, StaysInOrder
<1>. QED
    BY <1>1, <1>2, <1>3 DEF ToolInv

(* A tool is made, with the claim key of no other.                           *)
LEMMA MakeStep ==
    ASSUME ToolInv, NEW t \in Tools, NEW key, NEW first \in Types, NEW new \in Tool!Rows,
           new.status = "analyzed", new.outcome = 0, new.logic.sums # 0 => new.look # 0,
           key = Tool!NoKey \/ Tool!ClaimedAs(key) = {},
           Tool!Make(t, key, first, new),
           \/ req' = req
           \/ \E h \in Handlers : req[h].at = "claiming" /\ req' = [req EXCEPT ![h] = Tool!Idle],
           UNCHANGED <<looks, address, queue, running, last, disturbed, healed>>
    PROVE  ToolInv'
<1>1. ToolTypes'
    BY MakeTypes DEF ToolInv
<1>2. /\ t \notin DOMAIN made
      /\ made' = [u \in DOMAIN made \cup {t} |->
                     IF u = t THEN [key |-> key, first |-> first] ELSE made[u]]
      /\ row' = [row EXCEPT ![t] = new]
      /\ agreed' = [agreed EXCEPT ![t].logic = new.logic]
    BY DEF Tool!Make, Tool!Exists
<1>3. /\ DOMAIN made' = DOMAIN made \cup {t} /\ made'[t].key = key
      /\ \A u \in DOMAIN made : made'[u] = made[u] /\ u # t
    BY <1>2
<1>4. Tool!ClaimedOnce'
    BY <1>3 DEF ToolInv, Tool!ClaimedOnce, Tool!ClaimedAs
<1>5. /\ DOMAIN req = Handlers
      /\ \A g \in Handlers : req'[g].at \in {"sending", "answered"} => req'[g] = req[g]
      /\ \A g \in Handlers : req[g].at = "answered" => req'[g] = req[g]
    BY DEF ToolInv, ToolTypes, Tool!Idle
<1>6. ASSUME NEW u \in DOMAIN made \ disturbed PROVE InOrder(u)'
    <2>1. ToolTypes /\ InOrder(u)
        BY DEF ToolInv
    <2>2. row'[u] = row[u] /\ agreed'[u] = agreed[u]
        BY <1>2, <2>1 DEF ToolTypes
    <2>3. SeenAsIs(u)'
        BY <1>5, <2>1, <2>2 DEF InOrder, SeenAsIs, Tool!UnderWay
    <2>4. \A g \in Handlers, m \in Orders : m.tool = u /\ Sent(req[g], m) => Sent(req'[g], m)
        BY <1>5 DEF Sent
    <2>. QED
        BY <1>3, <2>1, <2>2, <2>3, <2>4, StaysInOrder
<1>7. InOrder(t)'
    <2>1. /\ row'[t] = new /\ agreed'[t].logic = new.logic /\ agreed'[t].outcome = 0
          /\ running'[t] = Tool!Free /\ running'[t].job = "none"
        BY <1>2, JobKinds DEF ToolInv, ToolTypes
    <2>2. \A m \in queue' : m.tool # t
        BY <1>2 DEF ToolInv, ToolTypes
    <2>3. \A g \in Handlers : ~Tool!UnderWay(g, t)'
        BY <1>2, <1>5 DEF ToolInv, ToolTypes, Request, Tool!UnderWay
    <2>. QED
        BY <2>1, <2>2, <2>3 DEF InOrder, SeenAsIs, RowOf, MessagesOf
<1>. QED
    BY <1>1, <1>3, <1>4, <1>6, <1>7 DEF ToolInv

(* Concepts that are claimed, and directions to choose from.                 *)
LEMMA ClaimStep ==
    ASSUME ToolInv, NEW h \in Handlers, NEW key \in Tool!ClaimKeys, Tool!Claim(h, key)
    PROVE  ToolInv'
<1>1. PICK r : /\ r = (IF Tool!ClaimedAs(key) # {} THEN Tool!Idle
                       ELSE [at |-> "claiming", key |-> key])
               /\ req' = [req EXCEPT ![h] = r]
    BY DEF Tool!Claim, Tool!Go
<1>2. r.at \notin {"sending", "answered"} /\ (r.at = "claiming" => r.key \in Tool!ClaimKeys)
    BY <1>1 DEF Tool!Idle
<1>3. /\ req[h].at \notin {"sending", "answered"}
      /\ UNCHANGED <<looks, made, row, address, queue, running, agreed, disturbed, healed, last>>
    BY DEF Tool!Claim, Tool!CanAsk, Tool!Idle, Tool!history
<1>. QED
    BY <1>1, <1>2, <1>3, ElsewhereStep

(* A claim inserts a tool of its concept, unless another made it meanwhile.  *)
LEMMA InsertStep ==
    ASSUME ToolInv, NEW h \in Handlers, NEW t \in Tools, Tool!InsertClaim(h, t)
    PROVE  ToolInv'
<1> DEFINE key == req[h].key
<1>1. /\ req[h].at = "claiming" /\ key \in Tool!ClaimKeys /\ looks \in Seq([1..2 -> Concepts])
      /\ req' = [req EXCEPT ![h] = Tool!Idle]
      /\ UNCHANGED <<looks, address, queue, running, disturbed, healed, last>>
    BY DEF Tool!InsertClaim, Tool!Go, ToolInv, ToolTypes
<1>2. CASE Tool!ClaimedAs(key) # {}
    <2>1. UNCHANGED <<made, row, agreed>>
        BY <1>2 DEF Tool!InsertClaim
    <2>2. Tool!Idle.at = "idle"
        BY DEF Tool!Idle
    <2>. QED
        BY <1>1, <2>1, <2>2, ElsewhereStep
<1>3. CASE Tool!ClaimedAs(key) = {}
    <2> DEFINE concept == looks[key[1]][key[2]]
               first == looks[key[1]][1].type
               new == Tool!NewRow(concept.type, concept.design)
    <2>1. concept \in Concepts /\ looks[key[1]][1] \in Concepts
        BY <1>1, ConceptThere
    <2>2. first \in Types /\ concept.type \in Types /\ concept.design \in Designs
          /\ concept.design.look # 0
        BY <2>1 DEF Concepts
    <2>3. Tool!Make(t, key, first, new)
        BY <1>3 DEF Tool!InsertClaim, Tool!MakeClaimed
    <2> HIDE DEF concept, first, key
    <2>4. Tool!Logic(concept.design) \in Tool!Logics /\ concept.design.look \in Nat
        BY <2>2, DesignMade DEF Designs
    <2>5. /\ new \in Tool!Rows /\ new.status = "analyzed" /\ new.outcome = 0
          /\ new.look = concept.design.look
        BY <2>2, <2>4 DEF Tool!NewRow, Tool!Rows
    <2> HIDE DEF new
    <2>. QED
        BY <1>1, <1>3, <2>2, <2>3, <2>5, MakeStep
<1>. QED
    BY <1>2, <1>3

(* A site that is analyzed makes a tool without a design.                    *)
LEMMA AnalyzeStep ==
    ASSUME ToolInv, NEW t \in Tools, NEW type \in Types, Tool!Analyze(t, type)
    PROVE  ToolInv'
<1> DEFINE new == Tool!NewRow(Tool!NoType, Tool!NoDesign)
<1>1. /\ Tool!Make(t, Tool!NoKey, type, new) /\ req' = req
      /\ UNCHANGED <<looks, address, queue, running, last, disturbed, healed>>
    BY DEF Tool!Analyze
<1>2. /\ Tool!Logic(Tool!NoDesign) \in Tool!Logics /\ Tool!NoDesign.look = 0
      /\ Tool!Logic(Tool!NoDesign).sums = 0
    BY DesignMade DEF Tool!NoDesign
<1>3. /\ new \in Tool!Rows /\ new.status = "analyzed" /\ new.outcome = 0
      /\ new.logic.sums = 0
    BY <1>2 DEF Tool!NewRow, Tool!Rows
<1> HIDE DEF new
<1>. QED
    BY <1>1, <1>3, MakeStep

(* Who has sent a message has pressed Build or Retry.                        *)
LEMMA Sender ==
    ASSUME ToolTypes, NEW g \in Handlers, NEW m \in Orders, Sent(req[g], m)
    PROVE  Pressed(req[g], made) /\ Tool!UnderWay(g, m.tool) /\ req[g].message = m
BY OrderParts DEF ToolTypes, Request, Sent, DecisionEdited, OutcomeEdited, Tool!UnderWay

(* The message goes out before the commit.                                   *)
LEMMA SendStep == ASSUME ToolInv, NEW h \in Handlers, Tool!Send(h) PROVE ToolInv'
<1> DEFINE t == req[h].tool
           n == req[h].message
<1>1. /\ req[h].at = "sending" /\ req' = [req EXCEPT ![h] = [req[h] EXCEPT !.at = "answered"]]
      /\ queue' = queue \cup {n}
      /\ UNCHANGED <<looks, made, row, address, running, agreed, disturbed, healed, last>>
    BY DEF Tool!Send, Tool!Go, Tool!history
<1>2. ToolTypes /\ Pressed(req[h], made) /\ Request(req[h], made)
    BY <1>1 DEF ToolInv, ToolTypes, Request
<1>3. n \in Orders /\ n.tool = t /\ t \in DOMAIN made
    BY <1>1, <1>2 DEF Pressed, Request
<1>4. \A g \in Handlers : g # h => req'[g] = req[g]
    BY <1>1, <1>2 DEF ToolTypes
<1>5. /\ req'[h].at = "answered" /\ req'[h].tool = t /\ req'[h].message = n
      /\ req'[h].saw = req[h].saw /\ req'[h].reads = req[h].reads /\ req'[h].new = req[h].new
    BY <1>1, <1>2 DEF ToolTypes
<1>6. ToolTypes'
    <2>1. Pressed(req'[h], made)
        BY <1>2, <1>5 DEF Pressed
    <2>2. Request(req'[h], made)
        BY <1>2, <1>1, <1>5, <2>1 DEF Request
    <2>3. \A g \in Handlers : Request(req'[g], made')
        BY <1>1, <1>2, <1>4, <2>2 DEF ToolTypes
    <2>4. \A g \in Handlers : req'[g].at = "claiming" => req'[g].key \in Tool!ClaimKeys'
        BY <1>1, <1>2, <1>4, <1>5 DEF ToolTypes, Tool!ClaimKeys
    <2>. QED
        BY <1>1, <1>2, <1>3, <2>3, <2>4 DEF ToolTypes
<1>7. Tool!ClaimedOnce'
    BY <1>1 DEF ToolInv, Tool!ClaimedOnce
<1>8. \A g \in Handlers, m \in Orders : Sent(req[g], m) => g # h /\ Sent(req'[g], m)
    BY <1>1, <1>4 DEF Sent
<1>9. ASSUME NEW u \in DOMAIN made' \ disturbed' PROVE InOrder(u)'
    <2>1. InOrder(u) /\ u \in DOMAIN made
        BY <1>1, <1>9 DEF ToolInv
    <2>2. SeenAsIs(u)'
        BY <1>1, <1>4, <1>5, <2>1 DEF InOrder, SeenAsIs, Tool!UnderWay
    <2>3. CASE u # t
        BY <1>1, <1>2, <1>3, <1>8, <2>1, <2>2, <2>3, StaysInOrder
    <2>4. CASE u = t
        <3>1. row[t].status \in {"analyzed", "failed"}
            BY <1>1, <1>2, <2>1, <2>4 DEF InOrder, SeenAsIs, Tool!UnderWay, Pressed,
               Tool!DesignColumns
        <3>2. Sent(req'[h], n)
            BY <1>3, <1>5 DEF Sent
        <3>3. \A m \in queue : m \in Orders
            BY <1>2 DEF ToolTypes
        <3>4. running[t].job = "build" => running[t].message \in Orders
            BY <1>2, <1>3, JobKinds DEF ToolTypes
        <3>5. RowOf(u)'
            BY <1>1, <2>1 DEF InOrder, RowOf
        <3> HIDE DEF t, n
        <3>6. /\ \A m \in queue : m.tool = t => \E g \in Handlers : Sent(req[g], m)
              /\ running[t].job = "build" => \E g \in Handlers : Sent(req[g], running[t].message)
              /\ \A m \in queue : m.tool = t /\ running[t].job = "build" =>
                    \E k, g \in Handlers : k # g /\ Sent(req[k], m) /\ Sent(req[g], running[t].message)
            BY <2>1, <2>4, <3>1 DEF InOrder, MessagesOf
        <3>7. \A m \in queue' : m.tool = t => \E g \in Handlers : Sent(req'[g], m)
            BY <1>1, <1>8, <3>2, <3>3, <3>6
        <3>8. running[t].job = "build" =>
                 \E g \in Handlers : g # h /\ Sent(req'[g], running[t].message)
            BY <1>8, <3>4, <3>6
        <3>9. \A m \in queue' : m.tool = t /\ running[t].job = "build" =>
                \E k, g \in Handlers : k # g /\ Sent(req'[k], m) /\ Sent(req'[g], running[t].message)
            <4>1. ASSUME NEW m \in queue, m.tool = t, running[t].job = "build"
                  PROVE  \E k, g \in Handlers :
                            k # g /\ Sent(req'[k], m) /\ Sent(req'[g], running[t].message)
                <5>1. PICK k, g \in Handlers :
                         k # g /\ Sent(req[k], m) /\ Sent(req[g], running[t].message)
                    BY <3>6, <4>1
                <5>. QED
                    BY <1>8, <3>3, <3>4, <4>1, <5>1
            <4>2. running[t].job = "build" => \E k, g \in Handlers :
                     k # g /\ Sent(req'[k], n) /\ Sent(req'[g], running[t].message)
                BY <3>2, <3>8
            <4>. QED
                BY <1>1, <4>1, <4>2
        <3>10. MessagesOf(u)'
            BY <1>1, <2>4, <3>1, <3>7, <3>8, <3>9 DEF MessagesOf
        <3>. QED
            BY <2>2, <2>4, <3>5, <3>10 DEF InOrder
    <2>. QED
        BY <2>3, <2>4
<1>. QED
    BY <1>6, <1>7, <1>9 DEF ToolInv

(* Without a broker the request fails; with the commit lost, what it sent is *)
(* built all the same.                                                       *)
LEMMA LoseStep == ASSUME ToolInv, NEW h \in Handlers, Tool!Lose(h) PROVE ToolInv'
<1>1. /\ req[h].at \in {"sending", "answered"} /\ req' = [req EXCEPT ![h] = Tool!Idle]
      /\ disturbed' = IF req[h].at = "sending" THEN disturbed ELSE disturbed \cup {req[h].tool}
      /\ UNCHANGED <<looks, made, row, address, queue, running, agreed, healed, last>>
    BY DEF Tool!Lose, Tool!Go
<1>2. Tool!Idle.at = "idle"
    BY DEF Tool!Idle
<1>3. ToolTypes'
    BY <1>1, <1>2, RequestTypes DEF ToolInv, ToolTypes, Request
<1>4. Tool!ClaimedOnce'
    BY <1>1 DEF ToolInv, Tool!ClaimedOnce
<1>5. ASSUME NEW u \in DOMAIN made' \ disturbed' PROVE InOrder(u)'
    <2>1. ToolTypes /\ InOrder(u) /\ u \in DOMAIN made
        BY <1>1, <1>5 DEF ToolInv
    <2>2. \A g \in Handlers : req'[g] = IF g = h THEN Tool!Idle ELSE req[g]
        BY <1>1, <2>1 DEF ToolTypes
    <2>3. SeenAsIs(u)'
        BY <1>1, <1>2, <2>1, <2>2 DEF InOrder, SeenAsIs, Tool!UnderWay
    <2>4. \A g \in Handlers, m \in Orders : m.tool = u /\ Sent(req[g], m) => Sent(req'[g], m)
        BY <1>1, <1>5, <2>2 DEF Sent
    <2>. QED
        BY <1>1, <2>1, <2>3, <2>4, StaysInOrder
<1>. QED
    BY <1>3, <1>4, <1>5 DEF ToolInv

(* The commit of a request: of the row, what it has changed; of what was     *)
(* agreed, what it was told.                                                 *)
LEMMA CommitStep == ASSUME ToolInv, NEW h \in Handlers, Tool!Commit(h) PROVE ToolInv'
<1>0. PICK r, t, new :
         /\ r = req[h] /\ t = r.tool /\ new = Tool!Written(t, r.saw, r.new)
    OBVIOUS
<1>1. /\ r.at = "answered" /\ req' = [req EXCEPT ![h] = Tool!Idle]
      /\ row' = [row EXCEPT ![t] = new] /\ agreed' = [agreed EXCEPT ![t] = Tool!Told(r)]
      /\ Tool!Disturbing(t, new, Handlers \ {h})
      /\ UNCHANGED <<looks, made, address, queue, running, healed, last>>
    BY <1>0 DEF Tool!Commit, Tool!Go
<1>2. ToolTypes /\ Request(r, made) /\ t \in DOMAIN made /\ t \in Tools
    BY <1>0, <1>1 DEF ToolInv, ToolTypes, Request
<1>3. /\ r.saw \in Tool!Rows /\ r.new \in Tool!Rows /\ row[t] \in Tool!Rows
      /\ Pressed(r, made) \/ DecisionEdited(r) \/ OutcomeEdited(r)
    BY <1>1, <1>2 DEF Request, ToolTypes
<1>4. /\ new \in Tool!Rows
      /\ \A c \in {"status", "type", "look", "logic", "outcome"} :
            new[c] = IF r.new[c] # r.saw[c] THEN r.new[c] ELSE row[t][c]
    BY <1>0, <1>3, WrittenRow
<1>5. /\ Tool!Told(r) \in [logic : Tool!Logics, outcome : Nat]
      /\ Tool!Told(r).outcome = IF r.new.outcome # r.saw.outcome THEN r.new.outcome
                                ELSE agreed[t].outcome
      /\ Tool!Told(r).logic =
            IF r.message # Tool!NoMessage
            THEN IF r.message.kind = "build" /\ r.message.design # Tool!NoDesign
                 THEN Tool!Logic(r.message.design) ELSE agreed[t].logic
            ELSE IF r.new.logic # r.saw.logic THEN r.new.logic ELSE agreed[t].logic
    <2>1. /\ agreed[t].logic \in Tool!Logics /\ agreed[t].outcome \in Nat
          /\ r.new.logic \in Tool!Logics /\ r.new.outcome \in Nat
        BY <1>2, <1>3, RowColumns DEF ToolTypes
    <2>2. r.message # Tool!NoMessage => Tool!Logic(r.message.design) \in Tool!Logics
        BY <1>3, OrderParts, DesignMade DEF Pressed, DecisionEdited, OutcomeEdited
    <2>. QED
        BY <1>0, <2>1, <2>2 DEF Tool!Told
<1>6. /\ row' \in [Tools -> Tool!Rows] /\ row'[t] = new
      /\ \A u \in Tools : u # t => row'[u] = row[u] /\ agreed'[u] = agreed[u]
      /\ agreed'[t] = Tool!Told(r)
      /\ agreed' \in [Tools -> [logic : Tool!Logics, outcome : Nat]]
    BY <1>1, <1>2, <1>4, <1>5 DEF ToolTypes
<1>7. \A g \in Handlers : req'[g] = IF g = h THEN Tool!Idle ELSE req[g]
    BY <1>1, <1>2 DEF ToolTypes
<1>8. Tool!Idle.at = "idle"
    BY DEF Tool!Idle
<1>9. ToolTypes'
    <2>1. \A u \in Tools : u \in DOMAIN made \/ agreed'[u].outcome = agreed[u].outcome
        BY <1>2, <1>6
    <2>2. Request(Tool!Idle, made)
        BY <1>8 DEF Request
    <2>3. last' \in Nat
        BY <1>1, <1>2 DEF ToolTypes
    <2>. QED
        BY <1>1, <1>2, <1>6, <1>8, <2>1, <2>2, <2>3, RequestTypes
<1>10. Tool!ClaimedOnce'
    BY <1>1 DEF ToolInv, Tool!ClaimedOnce
<1>11. /\ disturbed \subseteq disturbed'
       /\ t \notin disturbed' =>
             \A g \in Handlers \ {h} : Tool!UnderWay(g, t) =>
                \A c \in req[g].reads : new[c] = row[t][c]
    BY <1>1, Undisturbed
<1>12. ASSUME NEW u \in DOMAIN made, u \notin disturbed', u # t PROVE InOrder(u)'
    <2>1. InOrder(u) /\ u \in Tools
        BY <1>2, <1>11, <1>12 DEF ToolInv, ToolTypes
    <2>2. SeenAsIs(u)'
        BY <1>6, <1>7, <1>8, <1>12, <2>1 DEF InOrder, SeenAsIs, Tool!UnderWay
    <2>3. \A g \in Handlers, m \in Orders : m.tool = u /\ Sent(req[g], m) => Sent(req'[g], m)
        BY <1>0, <1>7, <1>12 DEF Sent
    <2>. QED
        BY <1>1, <1>2, <1>6, <1>12, <2>1, <2>2, <2>3, StaysInOrder
<1>13. ASSUME t \notin disturbed' PROVE InOrder(t)'
    <2>1. t \notin disturbed /\ InOrder(t)
        BY <1>2, <1>11, <1>13 DEF ToolInv
    <2>2. \A c \in r.reads : row[t][c] = r.saw[c]
        BY <1>0, <1>1, <2>1 DEF InOrder, SeenAsIs, Tool!UnderWay
    <2>3. ASSUME NEW g \in Handlers, Tool!UnderWay(g, t)'
          PROVE  /\ g # h /\ req'[g] = req[g] /\ Tool!UnderWay(g, t)
                 /\ \A c \in req[g].reads : new[c] = row[t][c] /\ row[t][c] = req[g].saw[c]
        <3>1. g # h /\ req'[g] = req[g] /\ Tool!UnderWay(g, t)
            BY <1>7, <1>8, <2>3 DEF Tool!UnderWay
        <3>2. \A c \in req[g].reads : row[t][c] = req[g].saw[c]
            BY <2>1, <3>1 DEF InOrder, SeenAsIs
        <3>. QED
            BY <1>11, <1>13, <3>1, <3>2
    <2>4. SeenAsIs(t)'
        <3>1. ASSUME NEW g \in Handlers, Tool!UnderWay(g, t)', NEW c \in req'[g].reads
              PROVE  row'[t][c] = req'[g].saw[c]
            BY <1>6, <2>3, <3>1
        <3>. QED
            BY <3>1 DEF SeenAsIs
    <2>5. /\ row[t].logic = agreed[t].logic /\ row[t].outcome = agreed[t].outcome
          /\ row[t].status # "analyzed" => row[t].type # Tool!NoType
          /\ row[t].logic.sums # 0 => row[t].look # 0
          /\ running[t].job = "heal" =>
                row[t].status = "active" /\ running[t].saw.type = row[t].type
          /\ row[t].status = "active" =>
                /\ address[t].look = row[t].look
                /\ address[t].sums = row[t].logic.sums \/ t \in healed
                /\ address[t].type \in {row[t].type, made[t].first}
        BY <2>1 DEF InOrder, RowOf
    <2>6. /\ \A m \in queue : m \in Orders
          /\ running[t].job = "build" =>
                running[t].message \in Orders /\ running[t].message.tool = t
        BY <1>2, JobKinds DEF ToolTypes
    <2>7. CASE Pressed(r, made)
        <3>0. /\ r.message \in Orders /\ r.message # Tool!NoMessage /\ r.message.tool = t
              /\ row[t].status = r.saw.status /\ row[t].type = r.saw.type
              /\ row[t].look = r.saw.look /\ row[t].logic = r.saw.logic
              /\ row[t].status \in {"analyzed", "failed"}
            BY <1>0, <2>2, <2>7, OrderParts DEF Pressed, Tool!DesignColumns
        <3>1. /\ new.status = "building" /\ new.type = r.new.type /\ new.look = r.new.look
              /\ new.logic = r.new.logic /\ new.outcome = row[t].outcome
            BY <1>4, <2>7, <3>0 DEF Pressed
        <3>2. \A g \in Handlers, m \in Orders : m.tool = t /\ Sent(req[g], m) => m = r.message /\ g = h
            <4>1. ASSUME NEW g \in Handlers, NEW m \in Orders, m.tool = t, Sent(req[g], m), g # h
                  PROVE  FALSE
                <5>1. Pressed(req[g], made) /\ Tool!UnderWay(g, t)
                    BY <1>2, <4>1, Sender
                <5>2. "status" \in req[g].reads
                    BY <5>1 DEF Pressed, Tool!DesignColumns
                <5>3. new["status"] = row[t]["status"]
                    BY <1>11, <1>13, <4>1, <5>1, <5>2
                <5>. QED
                    BY <3>0, <3>1, <5>3
            <4>. QED
                BY <1>0, <4>1 DEF Sent
        <3>3. /\ r.message.design # Tool!NoDesign =>
                    /\ r.message.design.look # 0
                    /\ new.look = r.message.design.look
                    /\ new.logic = Tool!Logic(r.message.design)
              /\ r.message.design = Tool!NoDesign =>
                    new.look = row[t].look /\ new.logic = row[t].logic
              /\ r.message.kind = "retry" => new.logic = row[t].logic
            BY <2>7, <3>0, <3>1 DEF Pressed
        <3>4. /\ new.type # Tool!NoType /\ r.message.type \in {new.type, made[t].first}
              /\ r.message.kind = "retry" /\ r.message.design = Tool!NoDesign =>
                    row[t].logic.sums = 0
            <4>1. CASE r.message.kind = "build" /\ r.message.type = r.new.type
                <5>1. r.message.type \in Types
                    BY <3>0, OrderParts
                <5>. QED
                    BY <3>1, <4>1, <5>1, StudioAssumption
            <4>2. CASE /\ r.message.kind = "retry" /\ r.message.type = made[r.tool].first
                       /\ r.saw.status = "failed" /\ r.new.type = r.saw.type
                       /\ r.message.design = Tool!NoDesign =>
                             \/ r.saw.type = Tool!NoType \/ r.saw.look = 0
                             \/ r.saw.logic.sums = 0
                <5>1. row[t].type # Tool!NoType
                    BY <2>5, <3>0, <4>2
                <5>2. new.type = row[t].type
                    BY <3>0, <3>1, <4>2
                <5>. QED
                    BY <1>0, <2>5, <3>0, <4>2, <5>1, <5>2
            <4>. QED
                BY <2>7, <4>1, <4>2 DEF Pressed
        <3>5. Tool!Told(r).logic = new.logic /\ Tool!Told(r).outcome = new.outcome
            <4>1. r.message.kind \in {"build", "retry"} /\ r.new.outcome = r.saw.outcome
                BY <2>7, <3>0, OrderParts DEF Pressed
            <4>. QED
                BY <1>5, <2>5, <3>0, <3>1, <3>3, <4>1
        <3>6. RowOf(t)'
            <4>1. running[t].job # "heal"
                BY <2>5, <3>0
            <4>2. new.logic.sums # 0 => new.look # 0
                BY <2>5, <3>3
            <4>. QED
                BY <1>1, <1>6, <3>1, <3>4, <3>5, <4>1, <4>2 DEF RowOf
        <3>7. SaysSo(r.message)'
            <4>1. row'[r.message.tool] = new /\ made'[r.message.tool] = made[t]
                BY <1>1, <1>6, <3>0
            <4>2. r.message.design = Tool!NoDesign /\ r.message.kind = "retry" => new.logic.sums = 0
                BY <3>3, <3>4
            <4>. QED
                BY <3>3, <3>4, <4>1, <4>2 DEF SaysSo
        <3>8. MessagesOf(t)'
            <4>1. \A m \in queue : m.tool = t => m = r.message
                BY <2>1, <2>6, <3>0, <3>2 DEF InOrder, MessagesOf
            <4>2. running[t].job = "build" => running[t].message = r.message
                BY <2>1, <2>6, <3>0, <3>2 DEF InOrder, MessagesOf
            <4>3. \A m \in queue : m.tool = t => running[t].job # "build"
                <5>1. ASSUME NEW m \in queue, m.tool = t, running[t].job = "build" PROVE FALSE
                    <6>1. PICK k, g \in Handlers :
                             k # g /\ Sent(req[k], m) /\ Sent(req[g], running[t].message)
                        BY <2>1, <3>0, <5>1 DEF InOrder, MessagesOf
                    <6>. QED
                        BY <2>6, <3>2, <5>1, <6>1
                <5>. QED
                    BY <5>1
            <4>4. \A m \in queue : m.tool = t => SaysSo(m)'
                BY <3>7, <4>1 DEF SaysSo
            <4>5. running[t].job = "build" => SaysSo(running[t].message)'
                BY <1>1, <3>7, <4>2 DEF SaysSo
            <4>. QED
                BY <1>1, <1>6, <3>1, <4>1, <4>3, <4>4, <4>5 DEF MessagesOf
        <3>. QED
            BY <2>4, <3>6, <3>8 DEF InOrder
    <2>8. CASE DecisionEdited(r) \/ OutcomeEdited(r)
        <3>0. /\ r.message = Tool!NoMessage
              /\ new.status = row[t].status /\ new.type = row[t].type /\ new.look = row[t].look
              /\ new.logic.sums = row[t].logic.sums
            BY <1>3, <1>4, <2>2, <2>8 DEF DecisionEdited, OutcomeEdited
        <3>1. \A g \in Handlers, m \in Orders :
                 m.tool = t /\ Sent(req[g], m) => Sent(req'[g], m)
            BY <1>0, <1>7, <3>0, OrderParts DEF Sent
        <3>2. Tool!Told(r).logic = new.logic /\ Tool!Told(r).outcome = new.outcome
            BY <1>4, <1>5, <2>5, <3>0
        <3>3. new.logic = row[t].logic \/ row[t].status # "building"
            BY <1>4, <2>2, <2>8 DEF DecisionEdited, OutcomeEdited
        <3>4. RowOf(t)'
            BY <1>1, <1>6, <2>5, <3>0, <3>2 DEF RowOf
        <3>5. MessagesOf(t)'
            <4>1. CASE row[t].status \in {"analyzed", "failed"}
                <5>1. \A m \in queue : m.tool = t => \E g \in Handlers : Sent(req'[g], m)
                    BY <2>1, <2>6, <3>1, <4>1 DEF InOrder, MessagesOf
                <5>2. running[t].job = "build" =>
                         \E g \in Handlers : Sent(req'[g], running[t].message)
                    BY <2>1, <2>6, <3>1, <4>1 DEF InOrder, MessagesOf
                <5>3. \A m \in queue : m.tool = t /\ running[t].job = "build" =>
                         \E k, g \in Handlers :
                            k # g /\ Sent(req'[k], m) /\ Sent(req'[g], running[t].message)
                    BY <2>1, <2>6, <3>1, <4>1 DEF InOrder, MessagesOf
                <5>. QED
                    BY <1>1, <1>6, <3>0, <4>1, <5>1, <5>2, <5>3 DEF MessagesOf
            <4>2. CASE row[t].status = "building"
                <5>1. \A m : m.tool = t /\ SaysSo(m) => SaysSo(m)'
                    BY <1>1, <1>6, <3>0, <3>3, <4>2 DEF SaysSo
                <5>. QED
                    BY <1>1, <1>6, <2>1, <2>6, <3>0, <4>2, <5>1 DEF InOrder, MessagesOf
            <4>3. CASE row[t].status = "active"
                BY <1>1, <1>6, <2>1, <3>0, <4>3 DEF InOrder, MessagesOf
            <4>. QED
                BY <1>3, <4>1, <4>2, <4>3, RowColumns
        <3>. QED
            BY <2>4, <3>4, <3>5 DEF InOrder
    <2>. QED
        BY <1>3, <2>7, <2>8
<1>. QED
    BY <1>1, <1>9, <1>10, <1>12, <1>13 DEF ToolInv

(* A worker takes a message, or drops it.                                    *)
LEMMA StartStep == ASSUME ToolInv, NEW m \in queue, Tool!StartBuild(m) PROVE ToolInv'
<1> DEFINE t == m.tool
           j == [job |-> "build", message |-> m]
<1>1. /\ queue' = queue \ {m}
      /\ running' = IF running[t] # Tool!Free THEN running ELSE [running EXCEPT ![t] = j]
      /\ UNCHANGED <<looks, made, row, address, req, agreed, disturbed, healed, last>>
    BY DEF Tool!StartBuild, Tool!history
<1>2. ToolTypes /\ m \in Orders /\ t \in DOMAIN made /\ t \in Tools /\ running[t] \in Jobs
    BY DEF ToolInv, ToolTypes
<1>3. Tool!ClaimedOnce'
    BY <1>1 DEF ToolInv, Tool!ClaimedOnce
<1>4. ASSUME NEW u \in DOMAIN made, u \notin disturbed, running'[u] = running[u]
      PROVE  InOrder(u)'
    <2>1. InOrder(u)
        BY <1>4 DEF ToolInv
    <2>2. SeenAsIs(u)'
        BY <1>1, <2>1 DEF InOrder, SeenAsIs, Tool!UnderWay
    <2>. QED
        BY <1>1, <1>2, <1>4, <2>1, <2>2, StaysInOrder
<1>5. CASE running[t] # Tool!Free
    <2>1. running' = running
        BY <1>1, <1>5
    <2>2. ToolTypes'
        BY <1>1, <1>2, <2>1 DEF ToolTypes, Tool!ClaimKeys
    <2>. QED
        BY <1>1, <1>3, <1>4, <2>1, <2>2 DEF ToolInv
<1>6. CASE running[t] = Tool!Free
    <2>1. /\ running' = [running EXCEPT ![t] = j]
          /\ running'[t] = j /\ \A u \in Tools : u # t => running'[u] = running[u]
          /\ running[t].job = "none" /\ j \in Jobs /\ j.job = "build" /\ j.message = m
        BY <1>1, <1>2, <1>6, JobKinds DEF ToolTypes
    <2> HIDE DEF j
    <2>2. ToolTypes'
        <3>1. UNCHANGED <<row, agreed, address>> /\ last' \in Nat /\ DOMAIN address' = Tools
              /\ row' \in [Tools -> Tool!Rows]
              /\ agreed' \in [Tools -> [logic : Tool!Logics, outcome : Nat]]
            BY <1>1, <1>2 DEF ToolTypes
        <3> HIDE DEF t
        <3>. QED
            BY <1>1, <1>2, <2>1, <3>1, JobTypes DEF t
    <2>3. ASSUME t \notin disturbed PROVE InOrder(t)'
        <3>1. InOrder(t)
            BY <1>2, <2>3 DEF ToolInv
        <3>2. SeenAsIs(t)'
            BY <1>1, <3>1 DEF InOrder, SeenAsIs, Tool!UnderWay
        <3>3. RowOf(t)'
            BY <1>1, <2>1, <3>1 DEF InOrder, RowOf
        <3>4. MessagesOf(t)'
            <4>1. CASE row[t].status \in {"analyzed", "failed"}
                <5>1. \A n \in queue : n.tool = t => \E g \in Handlers : Sent(req[g], n)
                    BY <3>1, <4>1 DEF InOrder, MessagesOf
                <5>2. \A g \in Handlers, n \in queue : Sent(req[g], n) /\ Sent(req[g], m) => n = m
                    BY DEF Sent
                <5>. QED
                    BY <1>1, <2>1, <4>1, <5>1, <5>2 DEF MessagesOf
            <4>2. CASE row[t].status = "building"
                <5>1. \A n \in queue : n.tool = t => n = m
                    BY <3>1, <4>2 DEF InOrder, MessagesOf
                <5>2. SaysSo(m)'
                    BY <1>1, <3>1, <4>2 DEF InOrder, MessagesOf, SaysSo
                <5>. QED
                    BY <1>1, <2>1, <4>2, <5>1, <5>2 DEF MessagesOf
            <4>3. row[t].status # "active"
                BY <3>1 DEF InOrder, MessagesOf
            <4>4. row[t].status \in {"analyzed", "building", "active", "failed"}
                BY <1>2, RowColumns DEF ToolTypes
            <4>. QED
                BY <4>1, <4>2, <4>3, <4>4
        <3>. QED
            BY <3>2, <3>3, <3>4 DEF InOrder
    <2>4. \A u \in DOMAIN made : u \in Tools
        BY <1>2 DEF ToolTypes
    <2>5. ASSUME NEW u \in DOMAIN made, u \notin disturbed PROVE InOrder(u)'
        BY <1>4, <2>1, <2>3, <2>4, <2>5
    <2>. QED
        BY <1>1, <1>3, <2>2, <2>5 DEF ToolInv
<1>. QED
    BY <1>5, <1>6

(* A build or heal of tool t ends, or a heal begins, and leaves the row as   *)
(* `new`: the other tools stay in order.                                     *)
Ends(t, j, new) ==
    /\ t \in DOMAIN made /\ j \in Jobs /\ j.job # "build"
    /\ running' = [running EXCEPT ![t] = j]
    /\ row' = [row EXCEPT ![t] = new] /\ new \in Tool!Rows
    /\ disturbed \subseteq disturbed'
    /\ t \notin disturbed' =>
          \A g \in Handlers : Tool!UnderWay(g, t) =>
             \A c \in req[g].reads : new[c] = row[t][c]
    /\ last' \in Nat
    /\ DOMAIN address' = Tools
    /\ agreed' \in [Tools -> [logic : Tool!Logics, outcome : Nat]]
    /\ \A u \in Tools : u # t =>
          /\ address'[u] = address[u] /\ agreed'[u] = agreed[u]
          /\ u \in healed' <=> u \in healed
    /\ UNCHANGED <<looks, made, queue, req>>

(* A build or a heal that ends writes the row it found, or nothing.          *)
LEMMA EndsStep ==
    ASSUME ToolInv, NEW t, NEW j, NEW new, Ends(t, j, new),
           t \notin disturbed' /\ SeenAsIs(t)' => RowOf(t)' /\ MessagesOf(t)'
    PROVE  ToolInv'
<1>1. ToolTypes /\ t \in Tools /\ t \in DOMAIN made
    BY DEF Ends, ToolInv, ToolTypes
<1>2. /\ row' \in [Tools -> Tool!Rows] /\ row'[t] = new
      /\ \A u \in Tools : u # t => row'[u] = row[u] /\ running'[u] = running[u]
    BY <1>1 DEF Ends, ToolTypes
<1>3. ToolTypes'
    BY <1>1, <1>2, JobTypes DEF Ends
<1>4. Tool!ClaimedOnce'
    BY DEF Ends, ToolInv, Tool!ClaimedOnce
<1>5. ASSUME NEW u \in DOMAIN made, u \notin disturbed', u # t PROVE InOrder(u)'
    <2>1. InOrder(u) /\ u \in Tools
        BY <1>1, <1>5 DEF Ends, ToolInv, ToolTypes
    <2>2. SeenAsIs(u)'
        BY <1>2, <1>5, <2>1 DEF Ends, InOrder, SeenAsIs, Tool!UnderWay
    <2>3. /\ address'[u] = address[u] /\ agreed'[u] = agreed[u]
          /\ u \in healed' <=> u \in healed
          /\ UNCHANGED <<made, queue, req>>
        BY <1>5, <2>1 DEF Ends
    <2>. QED
        BY <1>1, <1>2, <1>5, <2>1, <2>2, <2>3, StaysInOrder
<1>6. ASSUME t \notin disturbed' PROVE InOrder(t)'
    <2>1. SeenAsIs(t)
        BY <1>1, <1>6 DEF Ends, ToolInv, InOrder
    <2>2. SeenAsIs(t)'
        BY <1>2, <1>6, <2>1 DEF Ends, SeenAsIs, Tool!UnderWay
    <2>. QED
        BY <1>6, <2>2 DEF InOrder
<1>. QED
    BY <1>3, <1>4, <1>5, <1>6 DEF ToolInv, Ends

(* The build that holds the lock of a tool runs with what the row says, once *)
(* the request that sent it has committed.                                   *)
LEMMA BuildSaysSo ==
    ASSUME ToolInv, NEW t \in DOMAIN made, t \notin disturbed, running[t].job = "build",
           NEW new, new.status # row[t].status \/ row[t].status \notin {"analyzed", "failed"},
           \A g \in Handlers : Tool!UnderWay(g, t) =>
              \A c \in req[g].reads : new[c] = row[t][c]
    PROVE  /\ row[t].status = "building" /\ SaysSo(running[t].message)
           /\ \A m \in queue : m.tool # t
<1>1. /\ ToolTypes /\ MessagesOf(t) /\ t \in Tools /\ row[t] \in Tool!Rows
      /\ running[t].message \in Orders /\ running[t].message.tool = t
    BY JobKinds DEF ToolInv, ToolTypes, InOrder
<1>2. row[t].status \notin {"analyzed", "failed"}
    <2>1. SUFFICES ASSUME row[t].status \in {"analyzed", "failed"} PROVE FALSE
        OBVIOUS
    <2>2. PICK g \in Handlers : Sent(req[g], running[t].message)
        BY <1>1, <2>1 DEF MessagesOf
    <2>3. Pressed(req[g], made) /\ Tool!UnderWay(g, t)
        BY <1>1, <2>2, Sender
    <2>4. "status" \in req[g].reads
        BY <2>3 DEF Pressed, Tool!DesignColumns
    <2>5. new["status"] = row[t]["status"]
        BY <2>3, <2>4
    <2>. QED
        BY <2>1, <2>5
<1>3. row[t].status = "building"
    BY <1>1, <1>2, RowColumns DEF MessagesOf
<1>. QED
    BY <1>1, <1>3 DEF MessagesOf

(* A build is published.                                                     *)
LEMMA FinishStep == ASSUME ToolInv, NEW t \in Tools, Tool!FinishBuild(t) PROVE ToolInv'
<1>0. PICK m, d, new : /\ m = running[t].message /\ d = Tool!Architected(m)
                       /\ new = Tool!BuiltRow(row[t], d)
    OBVIOUS
<1>1. /\ running[t].job = "build" /\ running' = [running EXCEPT ![t] = Tool!Free]
      /\ row' = [row EXCEPT ![t] = new]
      /\ Tool!Disturbing(t, new, Handlers)
      /\ address' = [address EXCEPT ![t] = [type |-> m.type, look |-> d.look, sums |-> d.sums]]
      /\ agreed' = IF /\ m.design = Tool!NoDesign
                      /\ m.kind = "build" \/ agreed[t].logic.sums = 0
                   THEN [agreed EXCEPT ![t].logic = Tool!Logic(d)]
                   ELSE agreed
      /\ last' = IF m.design = Tool!NoDesign THEN last + 1 ELSE last
      /\ healed' = healed \ {t}
      /\ UNCHANGED <<looks, made, queue, req>>
    BY <1>0 DEF Tool!FinishBuild
<1>2. /\ ToolTypes /\ t \in DOMAIN made /\ row[t] \in Tool!Rows /\ last \in Nat
      /\ m \in Orders /\ m.tool = t /\ agreed[t] \in [logic : Tool!Logics, outcome : Nat]
      /\ Tool!Free \in Jobs /\ Tool!Free.job = "none" /\ DOMAIN address = Tools
    BY <1>0, <1>1, JobKinds DEF ToolInv, ToolTypes
<1>3. /\ d \in Designs /\ d # Tool!NoDesign
      /\ m.design # Tool!NoDesign => d = m.design
      /\ m.design = Tool!NoDesign => d.look # 0
    BY <1>0, <1>2, OrderParts, DesignMade DEF Tool!Architected
<1>4. /\ new \in Tool!Rows /\ new.status = "active" /\ new.type = row[t].type
      /\ new.look = d.look /\ new.logic = Tool!Logic(d) /\ new.outcome = row[t].outcome
    <2>1. new = [Tool!WithDesign(row[t], d) EXCEPT !.status = "active"]
        BY <1>0 DEF Tool!BuiltRow
    <2>2. Tool!WithDesign(row[t], d) \in Tool!Rows
        BY <1>2, <1>3, Redesigned
    <2>3. /\ new \in Tool!Rows /\ new.status = "active"
          /\ \A c \in {"type", "look", "logic", "outcome"} :
                new[c] = Tool!WithDesign(row[t], d)[c]
        BY <2>1, <2>2 DEF Tool!Rows
    <2>. QED
        BY <1>2, <1>3, <2>3, Redesigned
<1>5. /\ disturbed \subseteq disturbed'
      /\ t \notin disturbed' =>
            \A g \in Handlers : Tool!UnderWay(g, t) =>
               \A c \in req[g].reads : new[c] = row[t][c]
    BY <1>1, Undisturbed
<1>6. /\ agreed' \in [Tools -> [logic : Tool!Logics, outcome : Nat]]
      /\ \A u \in Tools : u # t => agreed'[u] = agreed[u]
      /\ agreed'[t].outcome = agreed[t].outcome
      /\ m.design = Tool!NoDesign /\ (m.kind = "build" \/ agreed[t].logic.sums = 0)
            => agreed'[t].logic = Tool!Logic(d)
      /\ ~(m.design = Tool!NoDesign /\ (m.kind = "build" \/ agreed[t].logic.sums = 0))
            => agreed'[t].logic = agreed[t].logic
    <2>1. agreed \in [Tools -> [logic : Tool!Logics, outcome : Nat]]
          /\ Tool!Logic(d) \in Tool!Logics
        BY <1>2, <1>3, DesignMade DEF ToolTypes
    <2>. QED
        BY <1>1, <1>2, <2>1
<1>7. Ends(t, Tool!Free, new)
    <2>1. \A u \in Tools : u # t => /\ address'[u] = address[u]
                                    /\ u \in healed' <=> u \in healed
        BY <1>1, <1>2
    <2>2. DOMAIN address' = Tools /\ last' \in Nat
        BY <1>1, <1>2
    <2>. QED
        BY <1>1, <1>2, <1>4, <1>5, <1>6, <2>1, <2>2 DEF Ends
<1>8. ASSUME t \notin disturbed' PROVE RowOf(t)' /\ MessagesOf(t)'
    <2>1. t \notin disturbed /\ RowOf(t)
        BY <1>2, <1>5, <1>8 DEF ToolInv, InOrder
    <2>2. /\ row[t].status = "building" /\ SaysSo(m)
          /\ \A n \in queue : n.tool # t
        BY <1>0, <1>1, <1>2, <1>4, <1>5, <1>8, <2>1, BuildSaysSo
    <2>3. /\ row'[t] = new /\ running'[t] = Tool!Free
          /\ address'[t] = [type |-> m.type, look |-> d.look, sums |-> d.sums]
        BY <1>1, <1>2 DEF ToolTypes
    <2>4. /\ row[t].logic = agreed[t].logic /\ row[t].outcome = agreed[t].outcome
          /\ row[t].type # Tool!NoType
          /\ row[t].logic.sums # 0 => row[t].look # 0
        BY <2>1, <2>2 DEF RowOf
    <2>5. /\ m.design # Tool!NoDesign => d.look = row[t].look /\ Tool!Logic(d) = row[t].logic
          /\ m.design = Tool!NoDesign /\ m.kind = "retry" => row[t].logic.sums = 0
          /\ m.type \in {row[t].type, made[t].first}
          /\ m.kind \in {"build", "retry"}
        BY <1>2, <1>3, <2>2, OrderParts DEF SaysSo
    <2>6. agreed'[t].logic = new.logic /\ agreed'[t].outcome = new.outcome
        BY <1>4, <1>6, <2>4, <2>5
    <2>7. new.logic.sums # 0 => new.look # 0
        BY <1>3, <1>4, <2>4, <2>5
    <2>8. new.logic.sums = d.sums
        BY <1>3, <1>4, DesignMade
    <2>9. RowOf(t)'
        BY <1>1, <1>2, <1>4, <2>3, <2>4, <2>5, <2>6, <2>7, <2>8 DEF RowOf
    <2>10. MessagesOf(t)'
        BY <1>1, <1>2, <1>4, <2>2, <2>3 DEF MessagesOf
    <2>. QED
        BY <2>9, <2>10
<1>. QED
    BY <1>7, <1>8, EndsStep

(* A build fails.                                                            *)
LEMMA FailStep == ASSUME ToolInv, NEW t \in Tools, Tool!FailBuild(t) PROVE ToolInv'
<1>0. PICK new : new = [row[t] EXCEPT !.status = "failed"]
    OBVIOUS
<1>1. /\ running[t].job = "build" /\ running' = [running EXCEPT ![t] = Tool!Free]
      /\ row' = [row EXCEPT ![t] = new]
      /\ Tool!Disturbing(t, new, Handlers)
      /\ UNCHANGED <<looks, made, address, queue, req, agreed, healed, last>>
    BY <1>0 DEF Tool!FailBuild
<1>2. /\ ToolTypes /\ t \in DOMAIN made /\ row[t] \in Tool!Rows
      /\ Tool!Free \in Jobs /\ Tool!Free.job = "none"
    BY <1>1, JobKinds DEF ToolInv, ToolTypes
<1>3. /\ new \in Tool!Rows /\ new.status = "failed"
      /\ \A c \in {"type", "look", "logic", "outcome"} : new[c] = row[t][c]
    BY <1>0, <1>2 DEF Tool!Rows
<1>4. /\ disturbed \subseteq disturbed'
      /\ t \notin disturbed' =>
            \A g \in Handlers : Tool!UnderWay(g, t) =>
               \A c \in req[g].reads : new[c] = row[t][c]
    BY <1>1, Undisturbed
<1>5. Ends(t, Tool!Free, new)
    BY <1>1, <1>2, <1>3, <1>4 DEF Ends, ToolTypes
<1>6. ASSUME t \notin disturbed' PROVE RowOf(t)' /\ MessagesOf(t)'
    <2>1. t \notin disturbed /\ RowOf(t) /\ MessagesOf(t)
        BY <1>2, <1>4, <1>6 DEF ToolInv, InOrder
    <2>2. row'[t] = new /\ running'[t] = Tool!Free
        BY <1>1, <1>2 DEF ToolTypes
    <2>3. CASE row[t].status = "failed"
        <3>1. RowOf(t)'
            BY <1>1, <1>2, <1>3, <2>1, <2>2, <2>3 DEF RowOf
        <3>2. MessagesOf(t)'
            BY <1>1, <1>2, <1>3, <2>1, <2>2, <2>3 DEF MessagesOf
        <3>. QED
            BY <3>1, <3>2
    <2>4. CASE row[t].status # "failed"
        <3>1. row[t].status = "building" /\ \A m \in queue : m.tool # t
            BY <1>1, <1>2, <1>3, <1>4, <1>6, <2>1, <2>4, BuildSaysSo
        <3>2. RowOf(t)'
            BY <1>1, <1>2, <1>3, <2>1, <2>2, <3>1 DEF RowOf
        <3>3. MessagesOf(t)'
            BY <1>1, <1>2, <1>3, <2>2, <3>1 DEF MessagesOf
        <3>. QED
            BY <3>2, <3>3
    <2>. QED
        BY <2>3, <2>4
<1>. QED
    BY <1>5, <1>6, EndsStep

(* A heal begins, gives up, or is published.                                 *)
LEMMA HealBeginStep == ASSUME ToolInv, NEW t \in Tools, Tool!StartHeal(t) PROVE ToolInv'
<1>0. PICK j : j = [job |-> "heal", saw |-> row[t]]
    OBVIOUS
<1>1. /\ t \in DOMAIN made /\ row[t].status = "active"
      /\ running' = [running EXCEPT ![t] = j]
      /\ UNCHANGED <<looks, made, row, address, queue, req, agreed, disturbed, healed, last>>
    BY <1>0 DEF Tool!StartHeal, Tool!Exists, Tool!history
<1>2. /\ ToolTypes /\ row[t] \in Tool!Rows /\ row \in [Tools -> Tool!Rows]
      /\ j \in Jobs /\ j.job = "heal" /\ j.saw = row[t]
    BY <1>0, JobKinds DEF ToolInv, ToolTypes
<1>3. Ends(t, j, row[t])
    <2>1. row' = [row EXCEPT ![t] = row[t]]
        BY <1>1, <1>2
    <2>. QED
        BY <1>1, <1>2, <2>1 DEF Ends, ToolTypes
<1>4. ASSUME t \notin disturbed' PROVE RowOf(t)' /\ MessagesOf(t)'
    <2>1. RowOf(t) /\ MessagesOf(t)
        BY <1>1, <1>4 DEF ToolInv, InOrder
    <2>2. running'[t] = j
        BY <1>1, <1>2 DEF ToolTypes
    <2>3. RowOf(t)'
        BY <1>1, <1>2, <2>1, <2>2 DEF RowOf
    <2>4. MessagesOf(t)'
        BY <1>1, <1>2, <2>1, <2>2 DEF MessagesOf
    <2>. QED
        BY <2>3, <2>4
<1>. QED
    BY <1>3, <1>4, EndsStep

(* A heal that fails leaves the tool as it is.                               *)
LEMMA HealGivesUpStep == ASSUME ToolInv, NEW t \in Tools, Tool!FailHeal(t) PROVE ToolInv'
<1>1. /\ running[t].job = "heal" /\ running' = [running EXCEPT ![t] = Tool!Free]
      /\ UNCHANGED <<looks, made, row, address, queue, req, agreed, disturbed, healed, last>>
    BY DEF Tool!FailHeal, Tool!history
<1>2. /\ ToolTypes /\ t \in DOMAIN made /\ row \in [Tools -> Tool!Rows]
      /\ Tool!Free \in Jobs /\ Tool!Free.job = "none"
    BY <1>1, JobKinds DEF ToolInv, ToolTypes
<1>3. Ends(t, Tool!Free, row[t])
    <2>1. row' = [row EXCEPT ![t] = row[t]]
        BY <1>1, <1>2
    <2>. QED
        BY <1>1, <1>2, <2>1 DEF Ends, ToolTypes
<1>4. ASSUME t \notin disturbed' PROVE RowOf(t)' /\ MessagesOf(t)'
    <2>1. RowOf(t) /\ MessagesOf(t)
        BY <1>1, <1>2, <1>4 DEF ToolInv, InOrder
    <2>2. running'[t] = Tool!Free
        BY <1>1, <1>2 DEF ToolTypes
    <2>3. RowOf(t)'
        BY <1>1, <1>2, <2>1, <2>2 DEF RowOf
    <2>4. MessagesOf(t)'
        BY <1>1, <1>2, <2>1, <2>2 DEF MessagesOf, RowOf
    <2>. QED
        BY <2>3, <2>4
<1>. QED
    BY <1>3, <1>4, EndsStep

(* A heal that ends puts a new look live, and in the row.                    *)
LEMMA HealStep == ASSUME ToolInv, NEW t \in Tools, Tool!FinishHeal(t) PROVE ToolInv'
<1>0. PICK d, new : d = Tool!Design(last + 1) /\ new = Tool!HealedRow(t, d)
    OBVIOUS
<1>1. /\ running[t].job = "heal" /\ running' = [running EXCEPT ![t] = Tool!Free]
      /\ row' = [row EXCEPT ![t] = new]
      /\ Tool!Disturbing(t, new, Handlers)
      /\ address' = [address EXCEPT ![t] =
                        [type |-> running[t].saw.type, look |-> d.look, sums |-> d.sums]]
      /\ last' = last + 1
      /\ healed' = healed \cup {t}
      /\ UNCHANGED <<looks, made, queue, req, agreed>>
    BY <1>0 DEF Tool!FinishHeal
<1>2. /\ ToolTypes /\ t \in DOMAIN made /\ row[t] \in Tool!Rows /\ last \in Nat
      /\ Tool!Free \in Jobs /\ Tool!Free.job = "none" /\ DOMAIN address = Tools
    BY <1>1, JobKinds DEF ToolInv, ToolTypes
<1>3. d.look \in Nat \ {0}
    BY <1>0, <1>2, DesignMade
<1>4. /\ new \in Tool!Rows /\ new.look = d.look
      /\ \A c \in {"status", "type", "logic", "outcome"} : new[c] = row[t][c]
    BY <1>0, <1>2, <1>3 DEF Tool!HealedRow, Tool!Rows
<1>5. /\ disturbed \subseteq disturbed'
      /\ t \notin disturbed' =>
            \A g \in Handlers : Tool!UnderWay(g, t) =>
               \A c \in req[g].reads : new[c] = row[t][c]
    BY <1>1, Undisturbed
<1>6. Ends(t, Tool!Free, new)
    <2>1. \A u \in Tools : u # t => /\ address'[u] = address[u]
                                    /\ u \in healed' <=> u \in healed
        BY <1>1, <1>2
    <2>2. DOMAIN address' = Tools /\ last' \in Nat
        BY <1>1, <1>2
    <2>. QED
        BY <1>1, <1>2, <1>4, <1>5, <2>1, <2>2 DEF Ends, ToolTypes
<1>7. ASSUME t \notin disturbed' PROVE RowOf(t)' /\ MessagesOf(t)'
    <2>1. RowOf(t) /\ MessagesOf(t)
        BY <1>2, <1>5, <1>7 DEF ToolInv, InOrder
    <2>2. row[t].status = "active" /\ running[t].saw.type = row[t].type
        BY <1>1, <2>1 DEF RowOf
    <2>3. /\ row'[t] = new /\ running'[t] = Tool!Free /\ t \in healed'
          /\ address'[t] = [type |-> running[t].saw.type, look |-> d.look, sums |-> d.sums]
        BY <1>1, <1>2 DEF ToolTypes
    <2>4. RowOf(t)'
        BY <1>1, <1>2, <1>3, <1>4, <2>1, <2>2, <2>3 DEF RowOf
    <2>5. MessagesOf(t)'
        BY <1>1, <1>2, <1>4, <2>1, <2>2, <2>3 DEF MessagesOf
    <2>. QED
        BY <2>4, <2>5
<1>. QED
    BY <1>6, <1>7, EndsStep

(* Every step of a tool's owner and of the workers keeps the invariant.      *)
LEMMA ToolStep == ASSUME ToolInv, [Tool!Next]_(Tool!vars) PROVE ToolInv'
<1>1. ASSUME NEW types \in [1..2 -> Types], Tool!FirstLook(types) PROVE ToolInv'
    <2>1. UNCHANGED <<made, row, address, queue, running, req, agreed, disturbed, healed>>
        BY <1>1 DEF Tool!FirstLook, Tool!history
    <2>2. ToolTypes'
        BY <1>1, LookTypes DEF ToolInv
    <2>3. ASSUME NEW t \in DOMAIN made \ disturbed PROVE InOrder(t)'
        <3>1. ToolTypes /\ InOrder(t)
            BY DEF ToolInv
        <3>2. SeenAsIs(t)'
            BY <2>1, <3>1 DEF InOrder, SeenAsIs, Tool!UnderWay
        <3>. QED
            BY <2>1, <3>1, <3>2, StaysInOrder
    <2>. QED
        BY <2>1, <2>2, <2>3 DEF ToolInv, Tool!ClaimedOnce
<1>2. ASSUME NEW h \in Handlers, NEW key \in Tool!ClaimKeys, Tool!Claim(h, key) PROVE ToolInv'
    BY <1>2, ClaimStep
<1>3. ASSUME NEW h \in Handlers, NEW t \in Tools, Tool!InsertClaim(h, t) PROVE ToolInv'
    BY <1>3, InsertStep
<1>4. ASSUME NEW h \in Handlers, NEW t \in Tools,
             \/ \E type \in Types, tuned \in BOOLEAN : Tool!PressBuild(h, t, type, tuned)
             \/ Tool!PressRetry(h, t) \/ Tool!EditDecision(h, t) \/ Tool!EditOutcome(h, t)
      PROVE  ToolInv'
    <2>1. PICK r : Asked(h, r)
        BY <1>4, BuildAsked, RetryAsked, EditAsked
    <2>. QED
        BY <2>1, AskedStep
<1>5. ASSUME NEW h \in Handlers, Tool!Send(h) \/ Tool!Commit(h) \/ Tool!Lose(h) PROVE ToolInv'
    BY <1>5, SendStep, CommitStep, LoseStep
<1>6. ASSUME NEW t \in Tools,
             \/ \E type \in Types : Tool!Analyze(t, type)
             \/ Tool!FinishBuild(t) \/ Tool!FailBuild(t)
             \/ Tool!StartHeal(t) \/ Tool!FinishHeal(t) \/ Tool!FailHeal(t)
      PROVE  ToolInv'
    BY <1>6, AnalyzeStep, FinishStep, FailStep, HealBeginStep, HealStep, HealGivesUpStep
<1>7. ASSUME NEW m \in queue, Tool!StartBuild(m) PROVE ToolInv'
    BY <1>7, StartStep
<1>8. CASE UNCHANGED Tool!vars
    <2>1. UNCHANGED <<looks, made, row, address, queue, running, req, agreed, disturbed,
                      healed, last>>
        BY <1>8 DEF Tool!vars, Tool!history
    <2>2. ToolTypes'
        BY <2>1 DEF ToolInv, ToolTypes, Tool!ClaimKeys
    <2>3. ASSUME NEW t \in DOMAIN made \ disturbed PROVE InOrder(t)'
        <3>1. ToolTypes /\ InOrder(t)
            BY DEF ToolInv
        <3>2. SeenAsIs(t)'
            BY <2>1, <3>1 DEF InOrder, SeenAsIs, Tool!UnderWay
        <3>. QED
            BY <2>1, <3>1, <3>2, StaysInOrder
    <2>. QED
        BY <2>1, <2>2, <2>3 DEF ToolInv, Tool!ClaimedOnce
<1>. QED
    BY <1>1, <1>2, <1>3, <1>4, <1>5, <1>6, <1>7, <1>8 DEF Tool!Next

(* So it holds of every behaviour of ToolDesign.                             *)
LEMMA ToolHolds == Tool!Spec => []ToolInv
BY ToolInit, ToolStep, PTL DEF Tool!Spec

(* A behaviour of the studio is one of each of its parts: they share no      *)
(* variable, so a step of one of them is a stutter of the others.            *)
THEOREM StudioParts == StudioSpec => Spec /\ Tool!Spec /\ Watch!Spec
<1>1. StudioInit => Init /\ Tool!Init /\ Watch!Init
    BY DEF StudioInit
<1>2. UNCHANGED toolVars => UNCHANGED Tool!vars
    BY DEF toolVars, Tool!vars, Tool!history
<1>3. UNCHANGED watchVars => UNCHANGED Watch!vars
    BY DEF watchVars, Watch!vars, Watch!world, Watch!record
<1>4. [StudioNext]_<<vars, toolVars, watchVars>>
         => [Next]_vars /\ [Tool!Next]_(Tool!vars) /\ [Watch!Next]_(Watch!vars)
    BY <1>2, <1>3 DEF StudioNext
<1>. QED
    BY <1>1, <1>4, PTL DEF StudioSpec, Spec, Tool!Spec, Watch!Spec

(* However often and at however many times a first look is claimed, there is *)
(* one tool of each of its concepts.                                         *)
THEOREM ToolsClaimedOnce == StudioSpec => []ClaimedOnce
<1>1. ToolInv => ClaimedOnce
    BY DEF ToolInv, ClaimedOnce
<1>. QED
    BY <1>1, StudioParts, ToolHolds, PTL

(* The row of a tool holds what the customer was last told is saved, through *)
(* builds that fail or are retried, heals, and edits of different columns;   *)
(* unless a commit was lost or requests overlapped.                          *)
THEOREM ToolsWorkKept == StudioSpec => []WorkKept
<1>1. ToolInv => WorkKept
    BY DEF ToolInv, InOrder, RowOf, WorkKept, Tool!WorkKept, Tool!Settled
<1>. QED
    BY <1>1, StudioParts, ToolHolds, PTL

(* What a live tool serves is what its row says, but for the sums that a     *)
(* heal has replaced and the direction that a retry has gone back to.        *)
THEOREM ToolsLiveAsRecorded == StudioSpec => []LiveAsRecorded
<1>1. ToolInv => LiveAsRecorded
    BY DEF ToolInv, InOrder, RowOf, LiveAsRecorded, Tool!LiveAsRecorded, Tool!Settled
<1>. QED
    BY <1>1, StudioParts, ToolHolds, PTL

(***************************************************************************)
(* The looks: BrandWatch                                                   *)
(***************************************************************************)

(* What a design is made of, if it was forced back onto what was found.      *)
Found(new, evidence) == evidence # <<>> => \A f \in Watch!Fields : Watch!Grounded(new[f], evidence)

(* What a check that has missed nothing has read, and has still to read, of a *)
(* site that nobody has edited since it began.                               *)
Whole == Watch!Landing(Watch!Home) # Watch!Away /\ found \o Watch!Served(todo) = Watch!Crawled

(* The links are those of a menu; a check has a list of pages to read; what   *)
(* it is about to publish was forced back onto what it found, which is not    *)
(* what the last one did.                                                    *)
WatchTypes ==
    /\ DOMAIN site = Watch!Pages
    /\ \A p \in Watch!Pages : site[p].palette \in Palettes
    /\ nav \in Menus
    /\ stage \in {"idle", "reading", "drifted"}
    /\ found \in Seq(Seq(Watch!Colours))
    /\ todo \in Seq({todo[i] : i \in DOMAIN todo})
    /\ stage = "drifted" => Found(fresh, Watch!Now) /\ print # Watch!Now /\ todo = <<>>
    /\ settled /\ print # <<>> =>
          \A f \in Watch!Fields : Watch!Grounded(look[f], print) \/ look[f] = Watch!Absent

(* A record that is sure is the evidence of the site as it is, and so is what *)
(* a check has found that nothing disturbed.                                 *)
WatchInv ==
    /\ WatchTypes
    /\ sure => print = Watch!Evidence /\ Watch!Landing(Watch!Home) # Watch!Away
    /\ stage # "idle" /\ steady => Whole

(* What is kept of the colours that were found has a first one, unless none   *)
(* was found, and a second one if there are more.                            *)
LEMMA FirstFound ==
    ASSUME NEW s \in Seq(Seq(Watch!Colours)), Watch!Deduped(s) # <<>>
    PROVE  /\ 1 \in DOMAIN Watch!Deduped(s)
           /\ Len(Watch!Deduped(s)) > 1 => 2 \in DOMAIN Watch!Deduped(s)
<1> DEFINE at0(a) == s[a[1]][a[2]]
           firsts == {a \in Watch!Places(s) :
                         \A b \in Watch!Places(s) : Watch!Before(b, a) => at0(b) # at0(a)}
           order == Watch!SetToSortSeq(firsts, Watch!Before)
           k == Watch!Cardinality(firsts)
<1>1. k \in Nat
    <2> DEFINE row0(i) == {i} \X DOMAIN s[i]
               rows == {row0(i) : i \in DOMAIN s}
               f == [i \in DOMAIN s |-> row0(i)]
    <2>1. IsFiniteSet(DOMAIN s)
        BY FS_Interval
    <2>2. f \in Surjection(DOMAIN s, rows)
        BY DEF Surjection
    <2>3. IsFiniteSet(rows)
        BY <2>1, <2>2, FS_Surjection
    <2>4. ASSUME NEW i \in DOMAIN s PROVE IsFiniteSet(row0(i))
        <3>1. s[i] \in Seq(Watch!Colours)
            OBVIOUS
        <3>2. DOMAIN s[i] = 1..Len(s[i]) /\ Len(s[i]) \in Nat
            BY <3>1
        <3>3. IsFiniteSet(1..Len(s[i]))
            BY <3>2, FS_Interval
        <3>4. IsFiniteSet({i})
            BY FS_Singleton
        <3>. QED
            BY <3>2, <3>3, <3>4, FS_Product
    <2>5. IsFiniteSet(UNION rows)
        BY <2>3, <2>4, FS_UNION
    <2>6. firsts \subseteq UNION rows
        BY DEF Watch!Places
    <2>7. IsFiniteSet(firsts)
        BY <2>5, <2>6, FS_Subset
    <2>. QED
        BY <2>7, FS_CardinalityType DEF Watch!Cardinality, Cardinality
<1> HIDE DEF firsts, k
<1>2. Watch!Deduped(s) = [n \in 1..Watch!AtMost(MaxColours, k) |-> at0(order[n])]
    BY DEF Watch!Deduped, firsts, k
<1> HIDE DEF at0, order
<1>3. Watch!AtMost(MaxColours, k) \in Nat
    BY <1>1, StudioAssumption DEF Watch!AtMost
<1>. QED
    BY <1>2, <1>3

(* Whatever the Architect answers, a design that is forced back is of what    *)
(* was found.                                                                *)
LEMMA GroundFinds ==
    ASSUME NEW s \in Seq(Seq(Watch!Colours)), NEW answer
    PROVE  Found(Watch!Ground(answer, Watch!Deduped(s)), Watch!Deduped(s))
<1> DEFINE e == Watch!Deduped(s)
           made0 == Watch!Ground(answer, e)
<1> SUFFICES ASSUME e # <<>>, NEW f \in Watch!Fields
             PROVE  Watch!Grounded(made0[f], e)
    BY DEF Found
<1>1. 1 \in DOMAIN e /\ (Len(e) > 1 => 2 \in DOMAIN e)
    BY FirstFound
<1> HIDE DEF e
<1>2. made0[f] = IF Watch!Grounded(answer[f], e) THEN answer[f]
                 ELSE [primary |-> e[1],
                       secondary |-> IF Len(e) > 1 THEN e[2] ELSE Watch!Neutral][f]
    BY DEF Watch!Ground
<1> HIDE DEF made0
<1>3. CASE Watch!Grounded(answer[f], e)
    BY <1>2, <1>3
<1>4. CASE ~Watch!Grounded(answer[f], e)
    <2>1. e[1] \in Watch!ToSet(e) /\ (Len(e) > 1 => e[2] \in Watch!ToSet(e))
        BY <1>1 DEF Watch!ToSet
    <2>2. CASE f = "primary"
        BY <1>2, <1>4, <2>1, <2>2 DEF Watch!Grounded
    <2>3. CASE f = "secondary"
        BY <1>2, <1>4, <2>1, <2>3 DEF Watch!Grounded
    <2>. QED
        BY <2>2, <2>3 DEF Watch!Fields
<1>. QED
    BY <1>3, <1>4

(* A request ends at a page of the site, or nowhere.                         *)
LEMMA Lands ==
    ASSUME NEW p
    PROVE  Watch!Landing(p) \in Watch!Pages \cup {Watch!Away}
<1> DEFINE next(q) == IF q \in Watch!Pages THEN site[q].to ELSE Watch!Away
           after == CHOOSE g : g = [n \in Nat |-> IF n = 0 THEN p ELSE next(g[n - 1])]
           end == after[MaxHops]
<1>1. Watch!Landing(p) = IF next(end) = end THEN end ELSE Watch!Away
    BY DEF Watch!Landing
<1> HIDE DEF after, end
<1>. QED
    BY <1>1

(* The links of a page are a sequence, and there are finitely many of them.   *)
LEMMA LinksListed ==
    ASSUME NEW s \in Menus
    PROVE  s \in Seq(Watch!Links) /\ IsFiniteSet({s[i] : i \in DOMAIN s})
<1>1. s \in Seq(Watch!Links)
    BY StudioAssumption
<1>2. IsFiniteSet(DOMAIN s)
    BY <1>1, FS_Interval
<1>3. s \in Surjection(DOMAIN s, {s[i] : i \in DOMAIN s})
    BY <1>1 DEF Surjection
<1>. QED
    BY <1>1, <1>2, <1>3, FS_Surjection

(* The pages that a check reads beside the home page are a list of those it   *)
(* links to.                                                                 *)
LEMMA CandidatesList ==
    ASSUME WatchTypes, NEW home
    PROVE  Watch!Candidates(home) \in
              Seq({Watch!Candidates(home)[i] : i \in DOMAIN Watch!Candidates(home)})
<1> DEFINE wanted == Watch!Wanted(home)
           n == Watch!AtMost(MaxPages - 1, Watch!Cardinality(wanted))
           sorted == Watch!SetToSortSeq(wanted, Watch!Sooner)
<1>1. IsFiniteSet(wanted)
    <2>1. wanted \subseteq {nav[i] : i \in DOMAIN nav}
        BY DEF Watch!Wanted, Watch!FirstLinks
    <2>2. IsFiniteSet({nav[i] : i \in DOMAIN nav})
        BY LinksListed DEF WatchTypes
    <2>. QED
        BY <2>1, <2>2, FS_Subset
<1>2. Watch!Cardinality(wanted) \in Nat
    BY <1>1, FS_CardinalityType DEF Watch!Cardinality, Cardinality
<1>3. MaxPages - 1 \in Nat
    BY StudioAssumption
<1>4. n \in Nat
    BY <1>2, <1>3 DEF Watch!AtMost
<1>5. Watch!Candidates(home) = [i \in 1..n |-> sorted[i].page]
    BY DEF Watch!Candidates
<1> HIDE DEF n, wanted, sorted
<1>. QED
    BY <1>4, <1>5

(* Of the links to one page there is a first one.                            *)
LEMMA FirstOfPage ==
    ASSUME NEW s \in Seq(Watch!Links), NEW i \in DOMAIN s
    PROVE  \E j \in DOMAIN s :
              /\ s[j].page = s[i].page
              /\ \A k \in 1..(j - 1) : s[k].page # s[j].page
<1> DEFINE T == {j \in DOMAIN s : s[j].page = s[i].page}
           R == OpToRel(<, Nat)
<1>1. T \subseteq Nat /\ T # {}
    OBVIOUS
<1>2. PICK j \in T : \A k \in T : ~(<<k, j>> \in R)
    <2> HIDE DEF T
    <2>. QED
        BY <1>1, WFMin, NatLessThanWellFounded
<1>3. ASSUME NEW k \in 1..(j - 1), s[k].page = s[j].page PROVE FALSE
    <2>1. k \in T /\ k < j /\ k \in Nat /\ j \in Nat
        BY <1>3
    <2>2. <<k, j>> \in R
        BY <2>1 DEF OpToRel
    <2>. QED
        BY <1>2, <2>1, <2>2
<1>. QED
    BY <1>2, <1>3

(* Where the labels of each page agree, what is linked is what is linked       *)
(* first.                                                                    *)
LEMMA AllAreFirst ==
    ASSUME NEW s \in Seq(Watch!Links),
           \A l, m \in Watch!ToSet(s) : l.page = m.page => l.rank = m.rank
    PROVE  {s[i] : i \in {j \in DOMAIN s : \A k \in 1..(j - 1) : s[k].page # s[j].page}}
              = Watch!ToSet(s)
<1> SUFFICES ASSUME NEW i \in DOMAIN s
             PROVE  \E j \in DOMAIN s :
                       s[j] = s[i] /\ \A k \in 1..(j - 1) : s[k].page # s[j].page
    BY DEF Watch!ToSet
<1>1. PICK j \in DOMAIN s : /\ s[j].page = s[i].page
                            /\ \A k \in 1..(j - 1) : s[k].page # s[j].page
    BY FirstOfPage
<1>2. s[j] \in Watch!Links /\ s[i] \in Watch!Links
    OBVIOUS
<1>3. s[j].rank = s[i].rank
    BY <1>1 DEF Watch!ToSet
<1>4. s[j] = s[i]
    BY <1>1, <1>2, <1>3 DEF Watch!Links
<1>. QED
    BY <1>1, <1>4

(* So in whatever order they are put.                                        *)
LEMMA LinksInAnyOrder ==
    ASSUME nav \in Menus, nav' \in Menus, Watch!LabelsAgree,
           Watch!ToSet(nav') = Watch!ToSet(nav)
    PROVE  Watch!FirstLinks' = Watch!FirstLinks
<1>1. nav \in Seq(Watch!Links) /\ nav' \in Seq(Watch!Links)
    BY LinksListed
<1>2. \A l, m \in Watch!ToSet(nav) : l.page = m.page => l.rank = m.rank
    BY DEF Watch!LabelsAgree
<1>3. Watch!FirstLinks = Watch!ToSet(nav)
    BY <1>1, <1>2, AllAreFirst DEF Watch!FirstLinks
<1>4. Watch!FirstLinks' = Watch!ToSet(nav')
    <2>1. PICK t : t = nav'
        OBVIOUS
    <2>2. {t[i] : i \in {j \in DOMAIN t : \A k \in 1..(j - 1) : t[k].page # t[j].page}}
             = Watch!ToSet(t)
        BY <1>1, <1>2, <2>1, AllAreFirst
    <2>. QED
        BY <2>1, <2>2 DEF Watch!FirstLinks
<1>. QED
    BY <1>3, <1>4

(* What a crawl of the site would find depends on its pages, and on the first *)
(* link to each.                                                             *)
LEMMA SameEvidence ==
    ASSUME UNCHANGED site, nav' = nav \/ Watch!FirstLinks' = Watch!FirstLinks
    PROVE  /\ Watch!Crawled' = Watch!Crawled /\ Watch!Evidence' = Watch!Evidence
           /\ \A p : Watch!Landing(p)' = Watch!Landing(p) /\ Watch!Palette(p)' = Watch!Palette(p)
<1>1. ASSUME NEW p PROVE Watch!Landing(p)' = Watch!Landing(p)
    BY DEF Watch!Landing
<1>2. ASSUME NEW p PROVE Watch!Palette(p)' = Watch!Palette(p)
    BY DEF Watch!Palette
<1>3. Watch!Candidates(Watch!Landing(Watch!Home))' = Watch!Candidates(Watch!Landing(Watch!Home))
    <2>1. Watch!Landing(Watch!Home)' = Watch!Landing(Watch!Home)
        BY <1>1
    <2> DEFINE h == Watch!Landing(Watch!Home)
    <2>2. Watch!FirstLinks' = Watch!FirstLinks
        BY DEF Watch!FirstLinks
    <2>3. Watch!Wanted(h)' = Watch!Wanted(h)
        BY <2>1, <2>2 DEF Watch!Wanted
    <2>. QED
        BY <2>1, <2>3 DEF Watch!Candidates
<1>4. Watch!Crawled' = Watch!Crawled
    BY <1>1, <1>2, <1>3 DEF Watch!Crawled, Watch!Served
<1>. QED
    BY <1>1, <1>2, <1>4 DEF Watch!Evidence

(* So a check that reads on has read, and has still to read, the same.       *)
LEMMA SameServed ==
    ASSUME UNCHANGED <<site, found, todo>>,
           nav' = nav \/ Watch!FirstLinks' = Watch!FirstLinks
    PROVE  Whole' = Whole
<1>1. ASSUME NEW p PROVE Watch!Palette(Watch!Landing(p))' = Watch!Palette(Watch!Landing(p))
    BY DEF Watch!Landing, Watch!Palette
<1>2. Watch!Served(todo)' = Watch!Served(todo)
    BY <1>1 DEF Watch!Served
<1>. QED
    BY <1>2, SameEvidence DEF Whole

(* What a check has found that missed nothing, of a site that stayed as it    *)
(* is, is the evidence of that site.                                         *)
LEMMA WholeIsEvidence ==
    ASSUME WatchTypes, Whole, todo = <<>>
    PROVE  Watch!Now = Watch!Evidence
<1>1. Watch!Served(todo) = <<>>
    BY DEF Watch!Served
<1>2. found \o <<>> = found
    BY DEF WatchTypes
<1>. QED
    BY <1>1, <1>2 DEF Whole, Watch!Now, Watch!Evidence

(* No check has begun; the record is of the site as it is, or of none.       *)
LEMMA WatchInit ==
    ASSUME Watch!Init
    PROVE  WatchInv
<1>1. PICK paint \in [Watch!Pages -> Palettes], to \in Moved :
            site = [p \in Watch!Pages |-> [palette |-> paint[p], to |-> to[p]]]
    BY DEF Watch!Init
<1>2. DOMAIN site = Watch!Pages /\ \A p \in Watch!Pages : site[p].palette \in Palettes
    BY <1>1
<1>3. nav \in Menus
    BY DEF Watch!Init
<1>4. stage = "idle" /\ found = <<>> /\ todo = <<>> /\ settled = FALSE
    BY DEF Watch!Init
<1>5. sure => print = Watch!Evidence /\ Watch!Landing(Watch!Home) # Watch!Away
    BY DEF Watch!Init
<1>. QED
    BY <1>2, <1>3, <1>4, <1>5 DEF WatchInv, WatchTypes

(* The colours of a page, and of no page.                                    *)
LEMMA Painted ==
    ASSUME WatchTypes, NEW p
    PROVE  Watch!Palette(p) \in Seq(Watch!Colours)
BY StudioAssumption DEF WatchTypes, Watch!Palette

(* What a check has recorded.                                                *)
LEMMA RecordStep ==
    ASSUME WatchInv, Watch!Record, UNCHANGED <<site, nav, todo>>,
           Watch!Checked \/ stage = "drifted",
           settled' /\ print' # <<>> =>
              \A f \in Watch!Fields : Watch!Grounded(look'[f], print') \/ look'[f] = Watch!Absent
    PROVE  WatchInv'
<1>1. stage' = "idle" /\ found' = <<>> /\ print' = Watch!Now /\ sure' = steady
    BY DEF Watch!Record
<1>2. todo = <<>> /\ stage # "idle"
    BY DEF WatchInv, WatchTypes, Watch!Checked
<1>3. found' \in Seq(Seq(Watch!Colours))
    BY <1>1
<1>4. WatchTypes'
    BY <1>1, <1>3 DEF WatchInv, WatchTypes, Watch!Absent, Watch!Fields
<1>5. ASSUME sure' PROVE (print = Watch!Evidence /\ Watch!Landing(Watch!Home) # Watch!Away)'
    <2>1. Whole
        BY <1>1, <1>2, <1>5 DEF WatchInv
    <2>2. print' = Watch!Evidence
        BY <1>1, <1>2, <2>1, WholeIsEvidence DEF WatchInv
    <2>. QED
        BY <2>1, <2>2, SameEvidence DEF Whole
<1>. QED
    BY <1>1, <1>4, <1>5 DEF WatchInv

(* What there is to read is the same while nobody edits the site.            *)
LEMMA ServedKept ==
    ASSUME UNCHANGED site, NEW CONSTANT rest, todo' = rest
    PROVE  Watch!Served(todo)' = Watch!Served(rest)
<1>1. ASSUME NEW p PROVE Watch!Palette(Watch!Landing(p))' = Watch!Palette(Watch!Landing(p))
    BY DEF Watch!Landing, Watch!Palette
<1>. QED
    BY <1>1 DEF Watch!Served

(* A check begins with the home page.                                        *)
LEMMA BeginStep ==
    ASSUME WatchInv, Watch!Begin
    PROVE  WatchInv'
<1> DEFINE h == Watch!Landing(Watch!Home)
<1>1. /\ h # Watch!Away /\ stage' = "reading"
      /\ todo' = Watch!Candidates(h) /\ found' = <<Watch!Palette(h)>>
      /\ UNCHANGED <<site, nav, print, look, settled, sure>>
    BY DEF Watch!Begin, Watch!world, Watch!record
<1>2. Watch!Palette(h) \in Seq(Watch!Colours)
    BY Painted DEF WatchInv
<1>3. found' \in Seq(Seq(Watch!Colours))
    BY <1>1, <1>2
<1>4. todo' \in Seq({todo'[i] : i \in DOMAIN todo'})
    BY <1>1, CandidatesList DEF WatchInv
<1>5. WatchTypes'
    BY <1>1, <1>3, <1>4 DEF WatchInv, WatchTypes
<1>6. Watch!Served(todo)' = Watch!Served(Watch!Candidates(h))
    <2>1. PICK rest : rest = todo'
        OBVIOUS
    <2>. QED
        BY <1>1, <2>1, ServedKept
<1>7. Whole'
    BY <1>1, <1>6, SameEvidence DEF Whole, Watch!Crawled
<1>8. sure' => (print = Watch!Evidence /\ Watch!Landing(Watch!Home) # Watch!Away)'
    BY <1>1, SameEvidence DEF WatchInv
<1>. QED
    BY <1>5, <1>7, <1>8 DEF WatchInv

(* What is left of a sequence is one.                                        *)
LEMMA TailIs ==
    ASSUME NEW X, NEW s \in Seq(X), s # <<>>
    PROVE  /\ Len(s) \in Nat \ {0}
           /\ Tail(s) = [i \in 1..(Len(s) - 1) |-> s[i + 1]]
           /\ Tail(s) \in Seq(X)
           /\ Head(s) = s[1]
<1>1. Len(s) \in Nat \ {0}
    OBVIOUS
<1>2. Tail(s) \in Seq(X) /\ Len(Tail(s)) = Len(s) - 1
    BY <1>1
<1>3. DOMAIN Tail(s) = 1..(Len(s) - 1)
    BY <1>2
<1>4. \A i \in 1..(Len(s) - 1) : Tail(s)[i] = s[i + 1]
    BY <1>1
<1>5. Tail(s) = [i \in 1..(Len(s) - 1) |-> Tail(s)[i]]
    BY <1>2, LenProperties
<1>. QED
    BY <1>1, <1>2, <1>4, <1>5

(* A function on the numbers up to one is a sequence of its own values.      *)
LEMMA IsList ==
    ASSUME NEW n \in Nat, NEW f, f = [i \in 1..n |-> f[i]]
    PROVE  f \in Seq({f[i] : i \in DOMAIN f})
OBVIOUS

(* What is left of a sequence of anything is one.                            *)
LEMMA TailIsList ==
    ASSUME NEW s, s \in Seq({s[i] : i \in DOMAIN s}), s # <<>>
    PROVE  Tail(s) \in Seq({Tail(s)[i] : i \in DOMAIN Tail(s)})
<1>1. PICK X : X = {s[i] : i \in DOMAIN s}
    OBVIOUS
<1>2. s \in Seq(X) /\ s # <<>>
    BY <1>1
<1>3. Len(s) \in Nat \ {0}
    BY <1>2, TailIs, Zenon
<1>4. Tail(s) = [i \in 1..(Len(s) - 1) |-> s[i + 1]]
    BY <1>2, TailIs, Zenon
<1>5. PICK n \in Nat : n = Len(s) - 1
    BY <1>3
<1>6. PICK t : t = Tail(s)
    OBVIOUS
<1>7. t = [i \in 1..n |-> t[i]]
    BY <1>4, <1>5, <1>6
<1>8. t \in Seq({t[i] : i \in DOMAIN t})
    BY <1>7, IsList
<1>. QED
    BY <1>6, <1>8

(* The first of a sequence may be moved to the end of the one before it.     *)
LEMMA AppendTail ==
    ASSUME NEW X, NEW r \in Seq(X), NEW s \in Seq(X), Len(s) # 0
    PROVE  Append(r, s[1]) \o [i \in 1..(Len(s) - 1) |-> s[i + 1]] = r \o s
<1> DEFINE t == [i \in 1..(Len(s) - 1) |-> s[i + 1]]
           a == Append(r, s[1])
<1>1. Len(r) \in Nat /\ Len(s) \in Nat \ {0}
    OBVIOUS
<1>2. t \in Seq(X) /\ Len(t) = Len(s) - 1
    BY <1>1
<1>3. a \in Seq(X) /\ Len(a) = Len(r) + 1 /\ a[Len(r) + 1] = s[1]
      /\ \A i \in 1..Len(r) : a[i] = r[i]
    BY <1>1
<1>4. \A i \in 1..Len(t) : t[i] = s[i + 1]
    BY <1>1, <1>2
<1> HIDE DEF t, a
<1>5. Len(a \o t) = Len(a) + Len(t) /\ Len(r \o s) = Len(r) + Len(s)
    BY <1>2, <1>3, ConcatProperties
<1>6. ASSUME NEW i \in 1..(Len(r) + Len(s)) PROVE (a \o t)[i] = (r \o s)[i]
    <2>1. (r \o s)[i] = IF i <= Len(r) THEN r[i] ELSE s[i - Len(r)]
        BY ConcatProperties
    <2>2. (a \o t)[i] = IF i <= Len(a) THEN a[i] ELSE t[i - Len(a)]
        <3>1. i \in 1..(Len(a) + Len(t))
            BY <1>1, <1>2, <1>3
        <3>. QED
            BY <1>2, <1>3, <3>1, ConcatProperties
    <2>3. CASE i <= Len(r)
        BY <1>1, <1>3, <2>1, <2>2, <2>3
    <2>4. CASE i = Len(r) + 1
        <3>1. i - Len(r) = 1 /\ i <= Len(a) /\ ~(i <= Len(r))
            BY <1>1, <1>3, <2>4
        <3>. QED
            BY <1>3, <2>1, <2>2, <2>4, <3>1
    <2>5. CASE i > Len(r) + 1
        <3>1. PICK k : k = i - Len(a)
            OBVIOUS
        <3>2. Len(a) = Len(r) + 1 /\ Len(t) = Len(s) - 1
            BY <1>2, <1>3
        <3>3. k \in 1..Len(t) /\ k + 1 = i - Len(r) /\ ~(i <= Len(a)) /\ ~(i <= Len(r))
            BY <1>1, <2>5, <3>1, <3>2
        <3>4. t[k] = s[k + 1]
            BY <1>4, <3>3
        <3>. QED
            BY <2>1, <2>2, <3>1, <3>3, <3>4
    <2>6. i <= Len(r) \/ i = Len(r) + 1 \/ i > Len(r) + 1
        BY <1>1
    <2>. QED
        BY <2>3, <2>4, <2>5, <2>6
<1>7. a \o t \in Seq(X) /\ r \o s \in Seq(X)
    BY <1>2, <1>3, ConcatProperties
<1>8. Len(a \o t) = Len(r) + Len(s)
    BY <1>1, <1>2, <1>3, <1>5
<1>9. a \o t = r \o s
    BY <1>5, <1>6, <1>7, <1>8, SeqEqual
<1>. QED
    BY <1>9 DEF t, a

(* What is read of a page is what was to be read of it.                      *)
LEMMA ReadStep ==
    ASSUME WatchInv, Watch!Read
    PROVE  WatchInv'
<1> DEFINE c == Watch!Palette(Watch!Landing(Head(todo)))
<1>1. /\ stage = "reading" /\ todo # <<>> /\ found' = Append(found, c) /\ todo' = Tail(todo)
      /\ UNCHANGED <<site, nav, stage, print, look, settled, sure, fresh, steady>>
    BY DEF Watch!Read, Watch!world, Watch!record
<1>2. c \in Seq(Watch!Colours)
    BY Painted DEF WatchInv
<1>3. found \in Seq(Seq(Watch!Colours)) /\ todo \in Seq({todo[i] : i \in DOMAIN todo})
    BY DEF WatchInv, WatchTypes
<1>4. found' \in Seq(Seq(Watch!Colours))
    BY <1>1, <1>2, <1>3
<1>5. todo' \in Seq({todo'[i] : i \in DOMAIN todo'})
    BY <1>1, <1>3, TailIsList
<1>6. WatchTypes'
    BY <1>1, <1>4, <1>5 DEF WatchInv, WatchTypes
<1>7. ASSUME steady' PROVE Whole'
    <2>1. Whole
        BY <1>1, <1>7 DEF WatchInv
    <2>2. PICK rest : rest = todo'
        OBVIOUS
    <2>3. Watch!Served(todo)' = Watch!Served(rest)
        BY <1>1, <2>2, ServedKept
    <2>4. found' \o Watch!Served(rest) = found \o Watch!Served(todo)
        <3>1. PICK s : s = Watch!Served(todo)
            OBVIOUS
        <3>2. Len(todo) \in Nat \ {0} /\ DOMAIN todo = 1..Len(todo)
            BY <1>1, <1>3
        <3>3. s = [i \in 1..Len(todo) |-> Watch!Palette(Watch!Landing(todo[i]))]
            BY <3>1, <3>2 DEF Watch!Served
        <3>4. \A i \in 1..Len(todo) : s[i] \in Seq(Watch!Colours)
            BY <3>3, Painted DEF WatchInv
        <3>5. s \in Seq(Seq(Watch!Colours)) /\ Len(s) = Len(todo)
            BY <3>2, <3>3, <3>4
        <3>6. s[1] = c
            BY <1>1, <1>3, <3>2, <3>3, TailIs
        <3>7. rest = [i \in 1..(Len(todo) - 1) |-> todo[i + 1]]
            BY <1>1, <1>3, <2>2, TailIs
        <3>8. Watch!Served(rest) = [i \in 1..(Len(s) - 1) |-> s[i + 1]]
            <4>1. DOMAIN rest = 1..(Len(s) - 1)
                BY <3>2, <3>5, <3>7
            <4>2. Watch!Served(rest)
                    = [i \in 1..(Len(s) - 1) |-> Watch!Palette(Watch!Landing(rest[i]))]
                BY <4>1 DEF Watch!Served
            <4>3. ASSUME NEW i \in 1..(Len(s) - 1)
                  PROVE  Watch!Palette(Watch!Landing(rest[i])) = s[i + 1]
                <5>1. rest[i] = todo[i + 1] /\ i + 1 \in 1..Len(todo)
                    BY <3>2, <3>5, <3>7
                <5>. QED
                    BY <3>3, <5>1
            <4>. QED
                BY <4>2, <4>3
        <3>9. Append(found, s[1]) \o [i \in 1..(Len(s) - 1) |-> s[i + 1]] = found \o s
            BY <1>3, <3>2, <3>5, AppendTail
        <3>. QED
            BY <1>1, <3>1, <3>6, <3>8, <3>9
    <2>. QED
        BY <1>1, <2>1, <2>3, <2>4, SameEvidence DEF Whole
<1>8. sure' => (print = Watch!Evidence /\ Watch!Landing(Watch!Home) # Watch!Away)'
    BY <1>1, SameEvidence DEF WatchInv
<1>. QED
    BY <1>6, <1>7, <1>8 DEF WatchInv

(* The Architect is asked when what was found is not what the last check did. *)
LEMMA CompareStep ==
    ASSUME WatchInv, Watch!Compare
    PROVE  WatchInv'
<1>1. PICK answer \in Watch!Answers, reworded \in BOOLEAN :
          LET new == Watch!Ground(answer, Watch!Now)
          IN IF reworded \/ \E f \in Watch!Fields : Watch!Differs(f, new)
             THEN /\ stage' = "drifted"
                  /\ fresh' = new
                  /\ UNCHANGED <<found, print, sure, steady, settled>>
             ELSE Watch!Record /\ settled' = TRUE
    BY DEF Watch!Compare
<1>2. UNCHANGED <<site, nav, todo, look>> /\ Watch!Checked /\ print # Watch!Now
    BY DEF Watch!Compare, Watch!world
<1> DEFINE new == Watch!Ground(answer, Watch!Now)
<1>3. Found(new, Watch!Now)
    BY GroundFinds DEF WatchInv, WatchTypes, Watch!Now
<1>4. \/ stage' = "drifted" /\ fresh' = new /\ UNCHANGED <<found, print, sure, steady, settled>>
      \/ Watch!Record /\ \A f \in Watch!Fields : ~Watch!Differs(f, new)
    BY <1>1
<1> HIDE DEF new
<1>5. ASSUME stage' = "drifted" /\ fresh' = new /\ UNCHANGED <<found, print, sure, steady, settled>>
      PROVE  WatchInv'
    <2>1. Watch!Now' = Watch!Now
        BY <1>5 DEF Watch!Now
    <2>2. Found(fresh', Watch!Now') /\ (print # Watch!Now)'
        BY <1>2, <1>3, <1>5, <2>1
    <2>3. WatchTypes'
        BY <1>2, <1>5, <2>2 DEF WatchInv, WatchTypes, Found, Watch!Checked
    <2>4. Whole' = Whole
        BY <1>2, <1>5, SameServed
    <2>5. stage = "reading"
        BY <1>2 DEF Watch!Checked
    <2>. QED
        BY <1>2, <1>5, <2>3, <2>4, <2>5, SameEvidence DEF WatchInv
<1>6. ASSUME Watch!Record, \A f \in Watch!Fields : ~Watch!Differs(f, new)
      PROVE  WatchInv'
    <2>1. print' = Watch!Now
        BY <1>6 DEF Watch!Record
    <2>2. print' # <<>> =>
            \A f \in Watch!Fields : Watch!Grounded(look'[f], print') \/ look'[f] = Watch!Absent
        BY <1>2, <1>3, <1>6, <2>1 DEF Watch!Differs, Found
    <2>. QED
        BY <1>2, <1>6, <2>2, RecordStep
<1>. QED
    BY <1>4, <1>5, <1>6

(* A page that is edited, or links that are: those in another order are the   *)
(* same, where their labels agree.                                           *)
LEMMA SiteStep ==
    ASSUME WatchInv, Watch!Relink \/ \E p \in Watch!Pages : Watch!Edit(p)
    PROVE  WatchInv'
<1>1. ASSUME Watch!Relink PROVE WatchInv'
    <2> DEFINE reordered == Watch!LabelsAgree /\ Watch!ToSet(nav') = Watch!ToSet(nav)
    <2>1. /\ UNCHANGED <<site, stage, todo, found, print, look, settled, fresh>>
          /\ nav' \in Menus
          /\ sure' = (sure /\ reordered) /\ steady' = (steady /\ reordered)
        BY <1>1 DEF Watch!Relink
    <2>2. reordered => Watch!FirstLinks' = Watch!FirstLinks
        BY <2>1, LinksInAnyOrder DEF WatchInv, WatchTypes
    <2> HIDE DEF reordered
    <2>3. WatchTypes'
        BY <2>1 DEF WatchInv, WatchTypes, Watch!Now, Found
    <2>4. ASSUME sure'
          PROVE  (print = Watch!Evidence /\ Watch!Landing(Watch!Home) # Watch!Away)'
        <3>1. sure /\ reordered
            BY <2>1, <2>4, Zenon
        <3>. QED
            BY <2>1, <2>2, <3>1, SameEvidence DEF WatchInv
    <2>5. ASSUME (stage # "idle" /\ steady)' PROVE Whole'
        <3>1. steady /\ reordered
            BY <2>1, <2>5, Zenon
        <3>. QED
            BY <2>1, <2>2, <2>5, <3>1, SameServed DEF WatchInv
    <2>. QED
        BY <2>3, <2>4, <2>5 DEF WatchInv
<1>2. ASSUME NEW p \in Watch!Pages, Watch!Edit(p) PROVE WatchInv'
    <2>1. UNCHANGED <<nav, stage, todo, found, print, look, settled, fresh>>
          /\ sure' = FALSE /\ steady' = FALSE
        BY <1>2 DEF Watch!Edit
    <2>2. DOMAIN site' = Watch!Pages /\ \A q \in Watch!Pages : site'[q].palette \in Palettes
        <3>1. CASE \E c \in Palettes \ {Watch!Palette(p)} : site' = [site EXCEPT ![p].palette = c]
            <4>1. PICK c \in Palettes : site' = [site EXCEPT ![p].palette = c]
                BY <3>1
            <4>. QED
                BY <4>1 DEF WatchInv, WatchTypes
        <3>2. CASE \E to : site' = [site EXCEPT ![p].to = to]
            <4>1. PICK to : site' = [site EXCEPT ![p].to = to]
                BY <3>2
            <4>2. \A q \in Watch!Pages : site'[q].palette = site[q].palette
                BY <4>1 DEF WatchInv, WatchTypes
            <4>. QED
                BY <4>1, <4>2 DEF WatchInv, WatchTypes
        <3>. QED
            BY <1>2, <3>1, <3>2 DEF Watch!Edit
    <2>. QED
        BY <2>1, <2>2 DEF WatchInv, WatchTypes, Watch!Now, Found
<1>. QED
    BY <1>1, <1>2

(* Every step of a check, and of the site, keeps the invariant.              *)
LEMMA WatchStep ==
    ASSUME WatchInv, Watch!Next
    PROVE  WatchInv'
<1>1. ASSUME Watch!Miss PROVE WatchInv'
    <2>1. /\ stage = "reading" /\ steady' = FALSE /\ todo' = Tail(todo) /\ todo # <<>>
          /\ UNCHANGED <<site, nav, stage, found, print, look, settled, sure, fresh>>
        BY <1>1 DEF Watch!Miss, Watch!world, Watch!record
    <2>2. todo' \in Seq({todo'[i] : i \in DOMAIN todo'})
        BY <2>1, TailIsList DEF WatchInv, WatchTypes
    <2>3. WatchTypes'
        BY <2>1, <2>2 DEF WatchInv, WatchTypes
    <2>. QED
        BY <2>1, <2>3, SameEvidence DEF WatchInv
<1>2. ASSUME Watch!Same PROVE WatchInv'
    <2>1. print' = print /\ UNCHANGED <<site, nav, todo, look, settled>> /\ Watch!Record
          /\ Watch!Checked
        BY <1>2 DEF Watch!Same, Watch!Record, Watch!world
    <2>2. settled' /\ print' # <<>> =>
              \A f \in Watch!Fields : Watch!Grounded(look'[f], print') \/ look'[f] = Watch!Absent
        BY <2>1 DEF WatchInv, WatchTypes
    <2>. QED
        BY <2>1, <2>2, RecordStep
<1>3. ASSUME Watch!Heal PROVE WatchInv'
    <2>1. stage = "drifted" /\ Watch!Record /\ look' = fresh /\ UNCHANGED <<site, nav, todo>>
        BY <1>3 DEF Watch!Heal, Watch!world
    <2>2. print' = Watch!Now
        BY <2>1 DEF Watch!Record
    <2>3. Found(fresh, Watch!Now)
        BY <2>1 DEF WatchInv, WatchTypes
    <2>. QED
        BY <2>1, <2>2, <2>3, RecordStep DEF Found
<1>4. ASSUME Watch!HealFails PROVE WatchInv'
    BY <1>4, RecordStep DEF Watch!HealFails, Watch!world
<1>5. ASSUME Watch!Abandon PROVE WatchInv'
    <2>1. found' \in Seq(Seq(Watch!Colours)) /\ todo' = <<>>
        BY <1>5 DEF Watch!Abandon
    <2>2. stage' = "idle" /\ UNCHANGED <<site, nav, print, look, settled, sure>>
        BY <1>5 DEF Watch!Abandon, Watch!world, Watch!record
    <2>3. WatchTypes'
        BY <2>1, <2>2 DEF WatchInv, WatchTypes
    <2>. QED
        BY <2>2, <2>3, SameEvidence DEF WatchInv
<1>. QED
    BY <1>1, <1>2, <1>3, <1>4, <1>5, BeginStep, ReadStep, CompareStep, SiteStep DEF Watch!Next

(* A step of the rest of the studio changes nothing of it.                   *)
LEMMA WatchStutter ==
    ASSUME WatchInv, UNCHANGED Watch!vars
    PROVE  WatchInv'
<1>1. UNCHANGED <<site, nav, stage, todo, found, print, look, settled, sure, fresh, steady>>
    BY DEF Watch!vars, Watch!world, Watch!record
<1>2. WatchTypes'
    BY <1>1 DEF WatchInv, WatchTypes, Watch!Now, Found
<1>. QED
    BY <1>1, <1>2, SameServed, SameEvidence DEF WatchInv

(* architect.py:69 and heal.py: whatever a check reads of a site that is      *)
(* edited meanwhile, whatever the Architect answers and whatever fails, the   *)
(* looks of a tool once compared with its site have no colour that was not    *)
(* found there last; and it is not designed anew for a site of which nothing  *)
(* has changed but the order of its links, if the labels of each page agree.  *)
THEOREM LooksAreFollowed == StudioSpec => []LooksFollow
<1>1. Watch!Init => WatchInv
    BY WatchInit
<1>2. WatchInv /\ [Watch!Next]_Watch!vars => WatchInv'
    BY WatchStep, WatchStutter
<1>3. WatchInv => LooksFollow
    <2>1. ASSUME WatchInv, stage = "drifted", sure, steady PROVE FALSE
        <3>1. Whole /\ todo = <<>> /\ print = Watch!Evidence /\ print # Watch!Now
            BY <2>1 DEF WatchInv, WatchTypes
        <3>. QED
            BY <2>1, <3>1, WholeIsEvidence DEF WatchInv
    <2>2. WatchInv => Watch!TrueToSite
        BY DEF WatchInv, WatchTypes, Watch!TrueToSite
    <2>. QED
        BY <2>1, <2>2 DEF LooksFollow, Watch!CalmSiteLeftAlone
<1>. QED
    BY <1>1, <1>2, <1>3, StudioParts, PTL DEF Watch!Spec

(* What is proved of Generation holds of the studio that has it.             *)
THEOREM StudioBuilds ==
    StudioSpec => [](OutageSurvived /\ LiveIsClean /\ ReadyInOneProcess) /\ SpendBounded
BY StudioParts, OutageCorrect, LiveCorrect, ReadyCorrect, SpendCorrect, PTL
=============================================================================
