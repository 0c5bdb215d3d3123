------------------------------- MODULE Runner --------------------------------
(***************************************************************************)
(* The runner of engine/runner/runner.go over a sequence of invocations:    *)
(* `bazel run` (runCommand), terraform_test (runTest) and                   *)
(* terraform_plan_test (runPlanTest), with the staged working directory of  *)
(* each (moduledir.Stage) and what outlives it.                             *)
(*                                                                         *)
(* What a command creates is one record; the question is in which state it  *)
(* is written and whether that state is still there afterwards.  The engine *)
(* is external: a command it runs succeeds or fails, and one that writes    *)
(* state may have written it either way.  The in-place init is a module of  *)
(* its own, InPlaceInit.  Invocations that overlap share nothing but        *)
(* states, which the engine locks.                                          *)
(***************************************************************************)
EXTENDS Naturals, FiniteSets

CONSTANTS
  Modules,   \* [backend, disposable, config : BOOLEAN]: what a target is
  Commands,  \* [sub, verb : STRING, state : BOOLEAN]: the arguments; `state`
             \* stands for -state or -chdir, by which the engine keeps local
             \* state under another name or in another directory
  MaxRuns    \* bound: invocations

\* What one invocation created, and whether it named a state of its own.
Record == [run : 1..MaxRuns, named : BOOLEAN]

BackendFree  == {"fmt", "metadata", "test", "validate", "version"}
Mutating     == {"apply", "destroy", "import", "refresh", "taint", "untaint"}
MutatingVerb == {"mv", "push", "replace-provider", "rm"}

ASSUME InputsAssumption ==
  /\ \A m \in Modules : m.backend \in BOOLEAN /\ m.disposable \in BOOLEAN /\ m.config \in BOOLEAN
  /\ \A c \in Commands : c.state \in BOOLEAN
  /\ MaxRuns \in Nat

VARIABLES
  pc,        \* where the invocation is
  inv,       \* what is invoked
  hermetic,  \* whether the empty CLI configuration is there
  dir,       \* the staged directory
  code,      \* the engine's, then the runner's
  outputs,   \* what a test leaves for the reviewer
  runs,      \* invocations so far
  created,   \* records of what was ever created
  remote,    \* those in the module's backend
  local,     \* those under bazel-out
  left       \* staged directories that were not removed

vars == <<pc, inv, hermetic, dir, code, outputs, runs, created, remote, local, left>>

states == <<created, remote, local>>

-------------------------------------------------------------------------------
mode     == inv.mode       \* run, test or plan
module   == inv.module     \* the target
command  == inv.command    \* the user's arguments
execroot == inv.execroot   \* whether the runner is in a Bazel execroot
online   == inv.online     \* whether the module's backend answers
empty    == inv.empty      \* expect_no_changes

NoCommand == [sub |-> "", verb |-> "", state |-> FALSE]

\* A test takes no arguments and writes no local state; only a plan test
\* expects no changes.
Invocations ==
  [mode : {"run"}, module : Modules, command : Commands, execroot : BOOLEAN, online : BOOLEAN, empty : {FALSE}]
    \cup [mode : {"test", "plan"}, module : Modules, command : {NoCommand}, execroot : {TRUE},
          online : BOOLEAN, empty : BOOLEAN]

NoInvocation ==
  [mode |-> "run", module |-> [backend |-> FALSE, disposable |-> TRUE, config |-> FALSE],
   command |-> NoCommand, execroot |-> FALSE, online |-> FALSE, empty |-> FALSE]

\* A staged directory: the records in the state files LocalStateFiles looks
\* for and in others, whether the override is in it, and whether its backend
\* is initialized.
NoDir  == [exists |-> FALSE, found |-> {}, hidden |-> {}, override |-> FALSE, ready |-> FALSE]
Staged == [NoDir EXCEPT !.exists = TRUE]

needsBackend == command.sub # "" /\ command.sub \notin BackendFree

mutatesState == \/ command.sub \in Mutating
                \/ command.sub = "state" /\ command.verb \in MutatingVerb

\* The engine writes state for these; a new workspace has one from the start.
Writes == mutatesState \/ (command.sub = "workspace" /\ command.verb = "new")

keepState == ~module.disposable

Init ==
  /\ pc = "idle" /\ inv = NoInvocation
  /\ hermetic = FALSE
  /\ dir = NoDir /\ code = 0
  /\ outputs = {} /\ runs = 0
  /\ created = {} /\ remote = {} /\ local = {} /\ left = {}

Go(step) == pc' = step

\* The deferred calls: the empty configuration goes, and the directory with
\* it unless it is to be kept.
Leave(c, keep) ==
  /\ Go("idle")
  /\ inv' = NoInvocation
  /\ code' = c
  /\ hermetic' = FALSE
  /\ left' = IF keep THEN left \cup {[found |-> dir.found, hidden |-> dir.hidden, code |-> c]} ELSE left
  /\ dir' = NoDir

-------------------------------------------------------------------------------
(***************************************************************************)
(* run(): staging and the environment                                       *)
(***************************************************************************)
\* A target is one module, built with or without disposable_state.
Begin(i) ==
  /\ pc = "idle" /\ runs < MaxRuns
  /\ runs' = runs + 1
  /\ inv' = i
  /\ dir' = Staged /\ outputs' = {} /\ code' = 0
  /\ Go("staged")
  /\ UNCHANGED <<hermetic, states, left>>

\* No module directory, or none with configuration in it.
StageFails ==
  /\ pc = "staged"
  /\ ~module.config
  /\ Leave(1, FALSE)
  /\ UNCHANGED <<outputs, runs, states>>

Environment ==
  /\ pc = "staged" /\ module.config
  /\ hermetic' = (mode # "run")
  /\ Go(mode)
  /\ UNCHANGED <<inv, dir, code, outputs, runs, states, left>>

EnvironmentFails ==
  /\ pc = "staged" /\ module.config /\ mode # "run"
  /\ Leave(1, FALSE)
  /\ UNCHANGED <<outputs, runs, states>>

-------------------------------------------------------------------------------
(***************************************************************************)
(* runCommand                                                               *)
(***************************************************************************)
\* An `init` is InPlaceInit's; the staged copy is not worth keeping after it.
RunInit ==
  /\ pc = "run" /\ command.sub = "init"
  /\ \E c \in {0, 1} : Leave(c, FALSE)
  /\ UNCHANGED <<outputs, runs, states>>

Deciding == pc = "run" /\ command.sub # "init"

\* disposable_state = False is an error on a module with a backend, and needs
\* an execroot for the commands that reach for the state.
RefuseState ==
  /\ Deciding /\ keepState
  /\ module.backend \/ (~execroot /\ needsBackend)
  /\ Leave(1, FALSE)
  /\ UNCHANGED <<outputs, runs, states>>

\* (Mutant of PlaceOverride: the commands that need no backend only.)
PlaceOverrideFree ==
  /\ Deciding /\ keepState /\ ~module.backend /\ execroot
  /\ dir' = [dir EXCEPT !.override = ~needsBackend]
  /\ Go("init")
  /\ UNCHANGED <<inv, hermetic, code, outputs, runs, states, left>>

\* The local backend is pointed under bazel-out, before anything runs.
PlaceOverride ==
  /\ Deciding /\ keepState /\ ~module.backend /\ execroot
  /\ dir' = [dir EXCEPT !.override = TRUE]
  /\ Go("init")
  /\ UNCHANGED <<inv, hermetic, code, outputs, runs, states, left>>

PlaceOverrideFails ==
  /\ Deciding /\ keepState /\ ~module.backend /\ execroot
  /\ Leave(1, FALSE)
  /\ UNCHANGED <<outputs, runs, states>>

PlaceNothing ==
  /\ Deciding
  /\ keepState => ~module.backend /\ ~execroot /\ ~needsBackend
  /\ Go("init")
  /\ UNCHANGED <<inv, hermetic, dir, code, outputs, runs, states, left>>

\* The backend, if there is one, has to answer.
InitBackend ==
  /\ pc = "init"
  /\ needsBackend => online \/ ~module.backend
  /\ dir' = [dir EXCEPT !.ready = needsBackend]
  /\ Go("exec")
  /\ UNCHANGED <<inv, hermetic, code, outputs, runs, states, left>>

InitBackendFails ==
  /\ pc = "init" /\ needsBackend
  /\ Leave(1, FALSE)
  /\ UNCHANGED <<outputs, runs, states>>

ThisRecord == [run |-> runs, named |-> command.state]

\* Where the engine writes the record: the backend's state; the state under
\* bazel-out; the one in the directory; or one the command names itself.
Recorded(r) ==
  IF module.backend THEN remote' = remote \cup {r} /\ UNCHANGED <<local, dir>>
  ELSE IF command.state THEN dir' = [dir EXCEPT !.hidden = @ \cup {r}] /\ UNCHANGED <<remote, local>>
  ELSE IF dir.override THEN local' = local \cup {r} /\ UNCHANGED <<remote, dir>>
  ELSE dir' = [dir EXCEPT !.found = @ \cup {r}] /\ UNCHANGED <<remote, local>>

\* The user's command; one that fails may have created something first.
Exec ==
  /\ pc = "exec"
  /\ \E c \in {0, 1}, wrote \in BOOLEAN :
       /\ code' = c
       /\ wrote => Writes /\ dir.ready
       /\ (Writes /\ c = 0) => wrote
       /\ created' = IF wrote THEN created \cup {ThisRecord} ELSE created
       /\ IF wrote THEN Recorded(ThisRecord) ELSE UNCHANGED <<remote, local, dir>>
  /\ Go("decide")
  /\ UNCHANGED <<inv, hermetic, outputs, runs, left>>

\* (Mutant of Finish: only a failure keeps the directory.)
FinishOnFailure ==
  /\ pc = "decide"
  /\ Leave(code, code # 0)
  /\ UNCHANGED <<outputs, runs, states>>

\* A failure keeps the directory for inspection, local state keeps it because
\* it is the only copy.
Finish ==
  /\ pc = "decide"
  /\ Leave(code, code # 0 \/ dir.found # {})
  /\ UNCHANGED <<outputs, runs, states>>

-------------------------------------------------------------------------------
(***************************************************************************)
(* runTest                                                                  *)
(***************************************************************************)
Artefacts == {"lock", "modules"}

\* The module's tests, then the report and the artefacts whatever came out.
Test ==
  /\ pc = "test"
  /\ \E c \in {0, 1} : code' = c
  /\ \E saved \in SUBSET Artefacts : outputs' = saved \cup {"report"}
  /\ Go("tested")
  /\ UNCHANGED <<inv, hermetic, dir, runs, states, left>>

TestEnds ==
  /\ pc = "tested"
  /\ Leave(code, FALSE)
  /\ UNCHANGED <<outputs, runs, states>>

-------------------------------------------------------------------------------
(***************************************************************************)
(* runPlanTest                                                              *)
(***************************************************************************)
PlanInit ==
  /\ pc = "plan"
  /\ online \/ ~module.backend
  /\ dir' = [dir EXCEPT !.ready = TRUE]
  /\ Go("planning")
  /\ UNCHANGED <<inv, hermetic, code, outputs, runs, states, left>>

PlanInitFails ==
  /\ pc = "plan"
  /\ Leave(1, FALSE)
  /\ UNCHANGED <<outputs, runs, states>>

\* (Mutant of Plan: a plan that failed is shown like the others.)
PlanAnyCode ==
  /\ pc = "planning"
  /\ \E c \in {0, 1, 2} : code' = c
  /\ outputs' = {"plan.tfplan"}
  /\ Go("show")
  /\ UNCHANGED <<inv, hermetic, dir, runs, states, left>>

\* -detailed-exitcode: 0 is no changes, 2 is changes.
Plan ==
  /\ pc = "planning"
  /\ \E c \in {0, 2} : code' = c
  /\ outputs' = {"plan.tfplan"}
  /\ Go("show")
  /\ UNCHANGED <<inv, hermetic, dir, runs, states, left>>

PlanFails ==
  /\ pc = "planning"
  /\ \E saved \in SUBSET Artefacts : outputs' = saved
  /\ Leave(1, FALSE)
  /\ UNCHANGED <<runs, states>>

\* What cannot be shown, or saved, is left out.
Show ==
  /\ pc = "show"
  /\ \E shown \in SUBSET ({"plan.json", "plan.txt"} \cup Artefacts) : outputs' = outputs \cup shown
  /\ Go("verdict")
  /\ UNCHANGED <<inv, hermetic, dir, code, runs, states, left>>

Verdict ==
  /\ pc = "verdict"
  /\ Leave(IF code = 2 /\ empty THEN 1 ELSE 0, FALSE)
  /\ UNCHANGED <<outputs, runs, states>>

-------------------------------------------------------------------------------
\* The runner handles no signal: killed, it removes and prints nothing.  The
\* next one makes a CLI configuration of its own.
Kill ==
  /\ pc # "idle"
  /\ Go("idle")
  /\ inv' = NoInvocation
  /\ code' = 130
  /\ left' = left \cup {[found |-> dir.found, hidden |-> dir.hidden, code |-> 130]}
  /\ dir' = NoDir /\ hermetic' = FALSE
  /\ UNCHANGED <<outputs, runs, states>>

RunCommand == RunInit \/ RefuseState \/ PlaceOverride \/ PlaceOverrideFails \/ PlaceNothing
                \/ InitBackend \/ InitBackendFails \/ Exec \/ Finish
RunTest == Test \/ TestEnds
RunPlanTest == PlanInit \/ PlanInitFails \/ Plan \/ PlanFails \/ Show \/ Verdict

Over == pc = "idle" /\ runs = MaxRuns /\ UNCHANGED vars

Next == (\E i \in Invocations : Begin(i)) \/ StageFails \/ Environment \/ EnvironmentFails
          \/ RunCommand \/ RunTest \/ RunPlanTest \/ Kill \/ Over

Spec == Init /\ [][Next]_vars

-------------------------------------------------------------------------------
(***************************************************************************)
(* Properties                                                               *)
(***************************************************************************)
TypeOK ==
  /\ pc \in {"idle", "staged", "run", "init", "exec", "decide", "test", "tested", "plan", "planning",
             "show", "verdict"}
  /\ created \subseteq Record /\ remote \subseteq created /\ local \subseteq created
  /\ dir.found \subseteq created /\ dir.hidden \subseteq created
  /\ pc = "idle" => dir = NoDir /\ code \in {0, 1, 130}
  /\ pc = "show" => code \in {0, 2}
  /\ outputs \subseteq {"plan.tfplan", "plan.json", "plan.txt", "report"} \cup Artefacts

\* A record whose state the runner looks for is in some state that exists.
Kept(r) == r \in remote \cup local \cup dir.found \cup UNION {d.found : d \in left}

Hidden == dir.hidden \cup UNION {d.hidden : d \in left}

(***************************************************************************)
(* What a command that keeps its state in the usual place has created is    *)
(* always in some state: the backend's, the one under bazel-out, or that of *)
(* a directory still there, whatever ended the command and however the next *)
(* ones went (index.md:135, runner.go:310-327).                             *)
(***************************************************************************)
RecordsSurvive == \A r \in created : ~r.named => Kept(r)

(***************************************************************************)
(* Of a module that is to keep its state, what a command creates under the  *)
(* usual name is under bazel-out from the moment it is created.  The staged *)
(* directory, which goes with a success, holds only what the user sent to a *)
(* state of another name: `apply -state` does put its record there          *)
(* (runner.go:262-283, moduledir.go:248-257).                               *)
(***************************************************************************)
KeptStateIsOutside ==
  pc # "idle" /\ keepState =>
    /\ dir.found = {} /\ \A r \in dir.hidden : r.named
    /\ \A r \in created : r.run = runs /\ ~r.named => r \in local

(***************************************************************************)
(* docs/src/index.md:135 says of a run that wrote state: it "is kept and    *)
(* its path printed, so the record of an `apply` never vanishes silently".  *)
(***************************************************************************)
NoRecordVanishes == \A r \in created : Kept(r) \/ r \in Hidden

===============================================================================
