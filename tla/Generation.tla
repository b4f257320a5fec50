------------------------------ MODULE Generation ------------------------------
(***************************************************************************)
(* How one build makes an app (pipeline/engine.py and builder.py).  The    *)
(* Stitcher and the code generation are calls of a model that may answer,  *)
(* fail or hang; a model that is not available is replaced by a verified   *)
(* fallback.  What it answers is checked, put into a sandbox made from a   *)
(* template and compiled; what is rejected goes back to the model with the *)
(* reason.  The template is one directory that all builds share: the first *)
(* one to need it installs it beside its place and renames it, under a     *)
(* lock that the threads of one process know.                              *)
(*                                                                         *)
(* Which builds run at all, and what a failed one does to its tool, is the *)
(* business of BuildLifecycle.  The code of an app is reduced to what the  *)
(* checks and the compiler make of it, a directory to what it contains.    *)
(***************************************************************************)
EXTENDS Integers, FiniteSets

CONSTANTS
    Builds,       \* the builds, each of a tool of its own
    Processes,    \* the processes that can run them
    Echoing,      \* those whose own copy has a sentence of the fallback's
    MaxAttempts,  \* max_attempts of _codegen_with_retry
    MaxFaults     \* bound of the model

ASSUME GenerationAssumption ==
    /\ MaxAttempts \in Nat \ {0}
    /\ MaxFaults \in Nat

VARIABLES
    host,      \* the process that runs each build
    at,        \* the stage of each build
    code,      \* the app it has generated last
    fallen,    \* using_fallback
    attempt,   \* the attempt of build_project it is in
    retries,   \* whether build_project was given a callback
    sandbox,   \* the apps with files in its sandbox
    live,      \* the apps with files in what it deployed
    template,  \* what is in TEMPLATE_DIR
    staging,   \* what is in TEMPLATE_DIR.building
    lock,      \* per process, the build that has _template_lock
    calls,     \* history: calls of the model for the code
    faulted,   \* history: something other than the model has failed
    faults     \* faults so far

flow == <<at, code, fallen, attempt, retries>>
dirs == <<template, staging>>
vars == <<host, flow, sandbox, live, dirs, lock, calls, faulted, faults>>

\* What a model can answer: an app that is fine, one that a check rejects, one
\* that does not compile.  The fallback compiles, and passes every check but
\* the one for copy that is frozen: its own sentences, such as "Your result is
\* ready", are taken for the owner's where the design says the same.
ModelCode == {"fine", "invalid", "broken"}
Fallback == "fallback"
Apps == ModelCode \cup {Fallback}
Rejected(b) == code[b] = "invalid" \/ (code[b] = Fallback /\ b \in Echoing)
Compiles(c) == c \in {"fine", Fallback}

NoDir == {}    \* a directory that is there has its configuration
Free == "nobody"
Ended == {"idle", "done", "failed"}
Stages == Ended \cup
    {"designing", "stitching", "generating", "regenerating", "checking",
     "preparing", "clearing", "installing", "unpacking", "installed",
     "scaffolding", "compiling", "deploying"}
Contents == {"config", "marker", "packages"}

ASSUME FreeAssumption == Free \notin Builds

Init ==
    /\ host \in [Builds -> Processes]
    /\ at = [b \in Builds |-> "idle"]
    /\ code = [b \in Builds |-> "none"]
    /\ fallen = [b \in Builds |-> FALSE]
    /\ attempt = [b \in Builds |-> 1]
    /\ retries = [b \in Builds |-> FALSE]
    /\ sandbox = [b \in Builds |-> {}]
    /\ live = [b \in Builds |-> {}]
    /\ template = NoDir
    /\ staging = NoDir
    /\ lock = [p \in Processes |-> Free]
    /\ calls = [b \in Builds |-> 0]
    /\ faulted = [b \in Builds |-> FALSE]
    /\ faults = 0

GoTo(b, stage) == at' = [at EXCEPT ![b] = stage]

\* An exception: the build fails, and whatever it had of the lock is left.
Raise(b) ==
    /\ GoTo(b, "failed")
    /\ faulted' = [faulted EXCEPT ![b] = TRUE]
    /\ lock' = [p \in Processes |-> IF lock[p] = b THEN Free ELSE lock[p]]
-----------------------------------------------------------------------------
(* The model *)

\* The verified app takes the place of what the model would have written.
FallBack(b) ==
    /\ code' = [code EXCEPT ![b] = Fallback]
    /\ fallen' = [fallen EXCEPT ![b] = TRUE]

\* A build has a confirmed design, or asks the Architect for one.
Start(b) ==
    /\ at[b] = "idle"
    /\ at' \in {[at EXCEPT ![b] = stage] : stage \in {"designing", "stitching"}}
    /\ UNCHANGED <<host, code, fallen, attempt, retries, sandbox, live, dirs,
                   lock, calls, faulted, faults>>

\* The Architect answers, or the build fails: nothing stands in for a design.
Design(b) ==
    /\ at[b] = "designing"
    /\ at' \in {[at EXCEPT ![b] = stage] : stage \in {"stitching", "failed"}}
    /\ UNCHANGED <<host, code, fallen, attempt, retries, sandbox, live, dirs,
                   lock, calls, faulted, faults>>

Stitch(b) ==
    /\ at[b] = "stitching"
    /\ GoTo(b, "generating")
    /\ UNCHANGED <<host, code, fallen, attempt, retries, sandbox, live, dirs,
                   lock, calls, faulted, faults>>

\* Without the Stitcher the brand stands in for its tokens, and the model is
\* not asked for code either: one attempt, and nobody to go back to.
StitchFails(b) ==
    /\ at[b] = "stitching"
    /\ FallBack(b)
    /\ GoTo(b, "checking")
    /\ UNCHANGED <<host, attempt, retries, sandbox, live, dirs, lock, calls,
                   faulted, faults>>

\* The model writes the app, or fails, or is timed out.
Generate(b) ==
    /\ at[b] = "generating"
    /\ calls' = [calls EXCEPT ![b] = @ + 1]
    /\ \/ /\ \E c \in ModelCode : code' = [code EXCEPT ![b] = c]
          /\ retries' = [retries EXCEPT ![b] = TRUE]
          /\ UNCHANGED fallen
       \/ /\ FallBack(b)
          /\ UNCHANGED retries
    /\ GoTo(b, "checking")
    /\ UNCHANGED <<host, attempt, sandbox, live, dirs, lock, faulted,
                   faults>>

\* Mutant: the model is asked again after it has been given up.
AsksAlways(b) == TRUE

\* The callback asks the model unless it has been given up in this build.
Asks(b) == ~fallen[b]

\* build_project's callback: the next attempt, with the reason as feedback.
Regenerate(b) ==
    /\ at[b] = "regenerating"
    /\ attempt' = [attempt EXCEPT ![b] = @ + 1]
    /\ IF Asks(b)
       THEN /\ calls' = [calls EXCEPT ![b] = @ + 1]
            /\ \/ /\ \E c \in ModelCode : code' = [code EXCEPT ![b] = c]
                  /\ UNCHANGED fallen
               \/ FallBack(b)
       ELSE UNCHANGED <<calls, code, fallen>>
    /\ GoTo(b, "checking")
    /\ UNCHANGED <<host, retries, sandbox, live, dirs, lock, faulted,
                   faults>>

\* Mutant: the last attempt is never made.
LastAttemptEarly(b) == attempt[b] >= MaxAttempts - 1 \/ ~retries[b]

\* Whether a rejected attempt was the last one.
LastAttempt(b) == attempt[b] = MaxAttempts \/ ~retries[b]

Reject(b) == GoTo(b, IF LastAttempt(b) THEN "failed" ELSE "regenerating")

\* Seven checks, each of which may send the app back.
Check(b) ==
    /\ at[b] = "checking"
    /\ IF Rejected(b) THEN Reject(b) ELSE GoTo(b, "preparing")
    /\ UNCHANGED <<host, code, fallen, attempt, retries, sandbox, live, dirs,
                   lock, calls, faulted, faults>>
-----------------------------------------------------------------------------
(* The template *)

\* What _template_is_ready looks at: the directory of the installation.
Ready == "marker" \in template

\* Mutant: no lock around the installation.
LocksNothing(b) == TRUE

\* _template_lock excludes the threads of one process.
MayInstall(b) == lock[host[b]] = Free

FindTemplate(b) ==
    /\ at[b] = "preparing"
    /\ Ready
    /\ GoTo(b, "scaffolding")
    /\ UNCHANGED <<host, code, fallen, attempt, retries, sandbox, live, dirs,
                   lock, calls, faulted, faults>>

\* The lock is taken and the template still missing: what is left of an
\* earlier installation is removed.
ClearStaging(b) ==
    /\ at[b] = "preparing"
    /\ ~Ready
    /\ MayInstall(b)
    /\ lock' = [lock EXCEPT ![host[b]] = b]
    /\ staging' = NoDir
    /\ GoTo(b, "clearing")
    /\ UNCHANGED <<host, code, fallen, attempt, retries, sandbox, live,
                   template, calls, faulted, faults>>

ClearTemplate(b) ==
    /\ at[b] = "clearing"
    /\ template' = NoDir
    /\ staging' = {"config"}
    /\ GoTo(b, "installing")
    /\ UNCHANGED <<host, code, fallen, attempt, retries, sandbox, live, lock,
                   calls, faulted, faults>>

\* pnpm creates the directory of the installation, and fills it.
Unpack(b) ==
    /\ at[b] = "installing"
    /\ staging # NoDir
    /\ staging' = staging \cup {"marker"}
    /\ GoTo(b, "unpacking")
    /\ UNCHANGED <<host, code, fallen, attempt, retries, sandbox, live,
                   template, lock, calls, faulted, faults>>

Installed(b) ==
    /\ at[b] = "unpacking"
    /\ staging # NoDir
    /\ staging' = staging \cup {"packages"}
    /\ GoTo(b, "installed")
    /\ UNCHANGED <<host, code, fallen, attempt, retries, sandbox, live,
                   template, lock, calls, faulted, faults>>

\* pnpm finds its directory gone, fails, or is killed by its time limit; only
\* the last of these leaves behind what there is.
InstallFails(b) ==
    /\ at[b] \in {"installing", "unpacking"}
    /\ \/ staging = NoDir /\ UNCHANGED <<staging, faults>>
       \/ /\ faults < MaxFaults
          /\ faults' = faults + 1
          /\ staging' \in {NoDir, staging}
    /\ Raise(b)
    /\ UNCHANGED <<host, code, fallen, attempt, retries, sandbox, live,
                   template, calls>>

\* The installation is renamed to its place, and the lock given back.  A
\* directory that is gone, or one in its place, is an error.
Rename(b) ==
    /\ at[b] = "installed"
    /\ IF staging # NoDir /\ template = NoDir
       THEN /\ template' = staging
            /\ staging' = NoDir
            /\ lock' = [lock EXCEPT ![host[b]] = Free]
            /\ GoTo(b, "scaffolding")
            /\ UNCHANGED faulted
       ELSE /\ Raise(b)
            /\ UNCHANGED dirs
    /\ UNCHANGED <<host, code, fallen, attempt, retries, sandbox, live,
                   calls, faults>>
-----------------------------------------------------------------------------
(* The sandbox *)

\* The sandbox is cleaned before the attempt is written into it.
Scaffolded(b) == {code[b]}

\* The template is copied, its packages are linked and the app is added.
Scaffold(b) ==
    /\ at[b] = "scaffolding"
    /\ "packages" \in template
    /\ sandbox' = [sandbox EXCEPT ![b] = Scaffolded(b)]
    /\ GoTo(b, "compiling")
    /\ UNCHANGED <<host, code, fallen, attempt, retries, live, dirs, lock,
                   calls, faulted, faults>>

\* A template that is gone or has no packages is an error.
ScaffoldFails(b) ==
    /\ at[b] = "scaffolding"
    /\ "packages" \notin template
    /\ Raise(b)
    /\ UNCHANGED <<host, code, fallen, attempt, retries, sandbox, live, dirs,
                   calls, faults>>

\* Vite compiles the app, or says why it cannot; a compilation that hangs is
\* killed and counts as one that failed.
Compile(b) ==
    /\ at[b] = "compiling"
    /\ IF Compiles(code[b]) THEN GoTo(b, "deploying") ELSE Reject(b)
    /\ UNCHANGED <<host, code, fallen, attempt, retries, sandbox, live, dirs,
                   lock, calls, faulted, faults>>

CompileHangs(b) ==
    /\ at[b] = "compiling"
    /\ faults < MaxFaults
    /\ faults' = faults + 1
    /\ Reject(b)
    /\ faulted' = [faulted EXCEPT ![b] = TRUE]
    /\ UNCHANGED <<host, code, fallen, attempt, retries, sandbox, live, dirs,
                   lock, calls>>

\* What was compiled is deployed.
Deploy(b) ==
    /\ at[b] = "deploying"
    /\ live' = [live EXCEPT ![b] = sandbox[b]]
    /\ GoTo(b, "done")
    /\ UNCHANGED <<host, code, fallen, attempt, retries, sandbox, dirs, lock,
                   calls, faulted, faults>>
-----------------------------------------------------------------------------
(* Faults *)

\* A progress event that cannot be published, or a deployment that is
\* refused, ends the build; neither happens inside the template's lock.
Fault(b) ==
    /\ at[b] \in {"designing", "stitching", "generating", "regenerating",
                  "checking", "compiling", "deploying"}
    /\ faults < MaxFaults
    /\ faults' = faults + 1
    /\ Raise(b)
    /\ UNCHANGED <<host, code, fallen, attempt, retries, sandbox, live, dirs,
                   calls>>

\* A process is lost with all its builds; its lock was memory of its own.
Crash(p) ==
    /\ faults < MaxFaults
    /\ faults' = faults + 1
    /\ LET lost == {b \in Builds : host[b] = p /\ at[b] \notin Ended} IN
       /\ lost # {}
       /\ at' = [b \in Builds |-> IF b \in lost THEN "failed" ELSE at[b]]
       /\ faulted' = [b \in Builds |-> b \in lost \/ faulted[b]]
    /\ lock' = [lock EXCEPT ![p] = Free]
    /\ UNCHANGED <<host, code, fallen, attempt, retries, sandbox, live, dirs,
                   calls>>

Work(b) ==
    \/ Design(b) \/ Stitch(b) \/ StitchFails(b) \/ Generate(b)
    \/ Regenerate(b) \/ Check(b)
    \/ FindTemplate(b) \/ ClearStaging(b) \/ ClearTemplate(b) \/ Unpack(b)
    \/ Installed(b) \/ InstallFails(b) \/ Rename(b)
    \/ Scaffold(b) \/ ScaffoldFails(b) \/ Compile(b) \/ Deploy(b)

Next ==
    \/ \E b \in Builds : Start(b) \/ Work(b) \/ CompileHangs(b) \/ Fault(b)
    \/ \E p \in Processes : Crash(p)

Spec == Init /\ [][Next]_vars
-----------------------------------------------------------------------------
(* Properties *)

\* The state has the shape the code gives it.
TypeOK ==
    /\ host \in [Builds -> Processes]
    /\ at \in [Builds -> Stages]
    /\ code \in [Builds -> Apps \cup {"none"}]
    /\ fallen \in [Builds -> BOOLEAN] /\ retries \in [Builds -> BOOLEAN]
    /\ attempt \in [Builds -> 1..MaxAttempts]
    /\ sandbox \in [Builds -> SUBSET Apps] /\ live \in [Builds -> SUBSET Apps]
    /\ template \subseteq Contents /\ staging \subseteq Contents
    /\ lock \in [Processes -> Builds \cup {Free}]
    /\ calls \in [Builds -> Nat]
    /\ faulted \in [Builds -> BOOLEAN]
    /\ faults \in 0..MaxFaults

\* "The ready-marker directory only appears once the install has fully
\* succeeded" (builder.py:401): a template that builds take for ready has all
\* its packages.
ReadyIsComplete == Ready => "packages" \in template

\* The same where one process runs all builds, as the local runner does, and
\* the lock reaches every thread that could install: through installations
\* that fail and processes that are lost in the middle of one.
ReadyInOneProcess ==
    (\A b, c \in Builds : host[b] = host[c]) => ReadyIsComplete

\* Once its design is there, a model that is unavailable, at whichever of its
\* calls, does not fail a build: one fails because of something else, because
\* every attempt it is allowed was made by the model and rejected, or because
\* the fallback says what its design says.
OutageSurvived ==
    \A b \in Builds :
        at[b] = "failed" =>
            \/ faulted[b]
            \/ code[b] = "none"    \* there was no design
            \/ attempt[b] = MaxAttempts /\ code[b] \in {"invalid", "broken"}
            \/ code[b] = Fallback /\ b \in Echoing

\* A build asks the model for code at most once per attempt, and never again
\* once the model has failed it, however its later attempts end.
SpendBounded ==
    /\ [](\A b \in Builds : calls[b] <= attempt[b])
    /\ [][\A b \in Builds : fallen[b] => calls'[b] = calls[b]]_vars

\* What a build puts live is one app, that passed the checks and compiled, and
\* nothing of the attempts that were rejected before it.
LiveIsClean ==
    \A b \in Builds : live[b] \in {{}, {"fine"}, {Fallback}}
=============================================================================
