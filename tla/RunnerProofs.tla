---------------------------- MODULE RunnerProofs -----------------------------
(***************************************************************************)
(* Proofs about Runner, for any targets and commands and any number of      *)
(* invocations: the types, and the two promises about state.  IInv says     *)
(* where a record can be while a command is under way.                      *)
(***************************************************************************)
EXTENDS Runner, TLAPS

\* The staged directory holds records of what was created.
DirInv ==
  /\ dir \in [exists : BOOLEAN, found : SUBSET created, hidden : SUBSET created,
              override : BOOLEAN, ready : BOOLEAN]
  /\ pc = "idle" => dir = NoDir

\* Nothing is in a state file of the directory before the user's command ran.
FoundInv == pc # "decide" => dir.found = {}

\* The invocation under way is one the counter has counted.
RunInv ==
  /\ runs \in 0..MaxRuns
  /\ pc # "idle" => inv \in Invocations /\ runs \in 1..MaxRuns

\* A record is of this invocation only once the user's command has run.
AgeInv ==
  \A r \in created : r.run \in 1..runs /\ (r.run = runs => pc \in {"idle", "decide"})

CodeInv ==
  /\ pc = "idle" => code \in {0, 1, 130}
  /\ pc = "show" => code \in {0, 2}
  /\ pc \in {"decide", "tested"} => code \in {0, 1}

\* A module that keeps its state has the override in place before a command
\* that reaches for the state, and only such a command has a backend.
PlacedInv ==
  /\ pc \in {"init", "exec"} /\ keepState => ~module.backend /\ (dir.override \/ ~needsBackend)
  /\ pc = "exec" => (dir.ready <=> needsBackend)

PlacesInv ==
  /\ pc \in {"idle", "staged", "run", "init", "exec", "decide", "test", "tested", "plan", "planning",
             "show", "verdict"}
  /\ created \subseteq Record /\ remote \subseteq created /\ local \subseteq created
  /\ outputs \subseteq {"plan.tfplan", "plan.json", "plan.txt", "report"} \cup Artefacts

IInv ==
  /\ PlacesInv /\ DirInv /\ FoundInv /\ RunInv /\ AgeInv /\ CodeInv /\ PlacedInv
  /\ RecordsSurvive /\ KeptStateIsOutside

-------------------------------------------------------------------------------
LEMMA NoDirIsEmpty ==
  /\ NoDir.found = {} /\ NoDir.hidden = {}
  /\ \A c : NoDir \in [exists : BOOLEAN, found : SUBSET c, hidden : SUBSET c, override : BOOLEAN, ready : BOOLEAN]
BY DEF NoDir

LEMMA StagedIsEmpty ==
  /\ Staged.found = {} /\ Staged.hidden = {}
  /\ \A c : Staged \in [exists : BOOLEAN, found : SUBSET c, hidden : SUBSET c, override : BOOLEAN, ready : BOOLEAN]
BY DEF Staged, NoDir

LEMMA InitIInv == Init => IInv
<1> SUFFICES ASSUME Init PROVE IInv
  OBVIOUS
<1>1. PlacesInv /\ RecordsSurvive /\ RunInv /\ AgeInv /\ CodeInv
  BY InputsAssumption DEF Init, PlacesInv, RecordsSurvive, RunInv, AgeInv, CodeInv
<1>2. DirInv /\ FoundInv /\ PlacedInv /\ KeptStateIsOutside
  BY NoDirIsEmpty DEF Init, DirInv, FoundInv, PlacedInv, KeptStateIsOutside
<1> QED BY <1>1, <1>2 DEF IInv

\* However an invocation leaves: the directory may go if no state is in it,
\* and what is kept keeps its records.
LEMMA Leaving ==
  ASSUME IInv, NEW c \in {0, 1, 130}, NEW keep \in BOOLEAN,
         keep \/ dir.found = {}, Leave(c, keep), UNCHANGED <<runs, states>>,
         outputs' \subseteq {"plan.tfplan", "plan.json", "plan.txt", "report"} \cup Artefacts
  PROVE  IInv'
<1>1. PlacesInv' /\ RunInv' /\ AgeInv' /\ CodeInv'
  BY DEF IInv, PlacesInv, RunInv, AgeInv, CodeInv, Leave, Go, states
<1>2. DirInv' /\ FoundInv' /\ PlacedInv' /\ KeptStateIsOutside'
  BY NoDirIsEmpty DEF DirInv, FoundInv, PlacedInv, KeptStateIsOutside, Leave, Go
<1>3. RecordsSurvive'
  <2> SUFFICES ASSUME NEW r \in created, ~r.named PROVE Kept(r)'
    BY DEF RecordsSurvive, states
  <2>1. Kept(r)
    BY DEF IInv, RecordsSurvive
  <2>2. CASE r \in remote \cup local
    BY <2>2 DEF Kept, states
  <2>3. CASE r \in dir.found
    <3>1. keep /\ [found |-> dir.found, hidden |-> dir.hidden, code |-> c] \in left'
      BY <2>3 DEF Leave
    <3> QED BY <3>1, <2>3 DEF Kept
  <2>4. CASE r \in UNION {d.found : d \in left}
    <3>1. left \subseteq left'
      BY DEF Leave
    <3> QED BY <3>1, <2>4 DEF Kept
  <2> QED BY <2>1, <2>2, <2>3, <2>4 DEF Kept
<1> QED BY <1>1, <1>2, <1>3 DEF IInv

\* A step that creates nothing and leaves the invocation under way.
LEMMA Going ==
  ASSUME IInv, UNCHANGED <<inv, runs, states, left>>,
         pc \notin {"idle", "decide"}, pc' # "idle", pc' # "decide", dir.found = {},
         PlacesInv', CodeInv', PlacedInv',
         dir' \in [exists : BOOLEAN, found : {{}}, hidden : {dir.hidden}, override : BOOLEAN, ready : BOOLEAN]
  PROVE  IInv'
<1>1. RunInv' /\ AgeInv'
  BY DEF IInv, RunInv, AgeInv, states
<1>2. DirInv' /\ FoundInv'
  BY DEF IInv, DirInv, FoundInv, states
<1>4. KeptStateIsOutside'
  <2>1. dir'.found = {} /\ dir'.hidden = dir.hidden
    OBVIOUS
  <2> QED BY <2>1 DEF IInv, KeptStateIsOutside, keepState, module, states
<1>3. RecordsSurvive'
  BY DEF IInv, RecordsSurvive, Kept, states
<1> QED BY <1>1, <1>2, <1>3, <1>4 DEF IInv

\* The user's command: its record goes where a later command can find it.
LEMMA Executing == ASSUME IInv, Exec PROVE IInv'
<1> PICK c \in {0, 1}, wrote \in BOOLEAN :
      /\ code' = c
      /\ wrote => Writes /\ dir.ready
      /\ created' = IF wrote THEN created \cup {ThisRecord} ELSE created
      /\ IF wrote THEN Recorded(ThisRecord) ELSE UNCHANGED <<remote, local, dir>>
  BY DEF Exec
<1>1. pc = "exec" /\ pc' = "decide" /\ UNCHANGED <<inv, outputs, runs, left>>
  BY DEF Exec, Go
<1>2. inv \in Invocations /\ runs \in 1..MaxRuns
  BY <1>1 DEF IInv, RunInv
<1>3. ThisRecord \in Record /\ ThisRecord.named = command.state
  <2>1. inv.command \in Commands \cup {NoCommand}
    BY <1>2 DEF Invocations
  <2>2. \A d \in Commands : d.state \in BOOLEAN
    BY InputsAssumption, Zenon
  <2>3. NoCommand.state \in BOOLEAN
    BY DEF NoCommand
  <2>5. command.state \in BOOLEAN
    BY <2>1, <2>2, <2>3 DEF command
  <2> QED BY <2>5, <1>2 DEF ThisRecord, Record
<1>4. DirInv /\ dir.found = {}
  BY <1>1 DEF IInv, FoundInv
<1>5. PlacesInv' /\ CodeInv' /\ RunInv' /\ AgeInv' /\ FoundInv' /\ PlacedInv'
  <2>1. created' \subseteq Record /\ remote' \subseteq created' /\ local' \subseteq created'
    BY <1>3 DEF IInv, PlacesInv, Recorded
  <2>2. AgeInv'
    <3>1. ThisRecord.run \in 1..runs
      BY <1>2 DEF ThisRecord
    <3> QED BY <3>1, <1>1 DEF IInv, AgeInv
  <2> QED BY <2>1, <2>2, <1>1, <1>2 DEF IInv, PlacesInv, CodeInv, RunInv, FoundInv, PlacedInv
<1>6. DirInv'
  BY <1>1, <1>4 DEF DirInv, Recorded
<1>7. wrote => needsBackend
  BY <1>1 DEF IInv, PlacedInv
<1>8. KeptStateIsOutside'
  <2> SUFFICES ASSUME keepState
               PROVE  /\ dir'.found = {} /\ \A r \in dir'.hidden : r.named
                      /\ \A r \in created' : r.run = runs' /\ ~r.named => r \in local'
    BY <1>1 DEF KeptStateIsOutside, keepState, module
  <2>1. wrote => ~module.backend /\ dir.override
    BY <1>1, <1>7 DEF IInv, PlacedInv
  <2>2. dir.found = {} /\ \A r \in dir.hidden : r.named
    BY <1>1 DEF IInv, KeptStateIsOutside
  <2>3. \A r \in created : r.run # runs
    BY <1>1 DEF IInv, AgeInv
  <2>4. dir'.found = {} /\ \A r \in dir'.hidden : r.named
    BY <2>1, <2>2, <1>3, <1>4 DEF Recorded, DirInv
  <2>5. wrote /\ ~command.state => ThisRecord \in local'
    BY <2>1 DEF Recorded
  <2> QED BY <2>3, <2>4, <2>5, <1>1, <1>3
<1>9. RecordsSurvive'
  <2> SUFFICES ASSUME NEW r \in created', ~r.named PROVE Kept(r)'
    BY DEF RecordsSurvive
  <2>1. CASE r \in created
    <3>1. Kept(r) /\ r \notin dir.found
      BY <2>1, <1>4 DEF IInv, RecordsSurvive
    <3>2. remote \subseteq remote' /\ local \subseteq local'
      BY DEF Recorded
    <3> QED BY <3>1, <3>2, <1>1 DEF Kept
  <2>2. CASE wrote /\ r = ThisRecord
    <3>1. r \in remote' \cup local' \cup dir'.found
      BY <2>2, <1>3, <1>4 DEF Recorded, DirInv
    <3> QED BY <3>1 DEF Kept
  <2> QED BY <2>1, <2>2
<1> QED BY <1>5, <1>6, <1>8, <1>9 DEF IInv

-------------------------------------------------------------------------------
LEMMA NextIInv == ASSUME IInv, [Next]_vars PROVE IInv'
<1> USE DEF Go
<1>1. CASE \E i \in Invocations : Begin(i)
  <2> PICK i \in Invocations : Begin(i)
    BY <1>1
  <2>1. PlacesInv' /\ RunInv' /\ CodeInv' /\ PlacedInv'
    BY InputsAssumption DEF IInv, PlacesInv, RunInv, CodeInv, PlacedInv, Begin, states
  <2>4. AgeInv' /\ \A r \in created' : r.run # runs'
    BY DEF IInv, RunInv, AgeInv, Begin, states
  <2>2. DirInv' /\ FoundInv' /\ KeptStateIsOutside'
    BY <2>4, StagedIsEmpty DEF DirInv, FoundInv, KeptStateIsOutside, Begin
  <2>3. RecordsSurvive'
    BY NoDirIsEmpty DEF IInv, RecordsSurvive, Kept, DirInv, Begin, states
  <2> QED BY <2>1, <2>2, <2>3, <2>4 DEF IInv
<1>2. CASE StageFails \/ EnvironmentFails \/ RefuseState \/ PlaceOverrideFails \/ InitBackendFails \/ PlanInitFails
  BY <1>2, Leaving DEF IInv, PlacesInv, FoundInv, StageFails, EnvironmentFails, RefuseState, Deciding,
     PlaceOverrideFails, InitBackendFails, PlanInitFails
<1>3. CASE PlanFails
  BY <1>3, Leaving DEF IInv, FoundInv, PlanFails, Artefacts
<1>4. CASE RunInit
  <2> PICK c \in {0, 1} : Leave(c, FALSE)
    BY <1>4 DEF RunInit
  <2> QED BY <1>4, Leaving DEF IInv, PlacesInv, FoundInv, RunInit
<1>5. CASE Finish
  <2>1. code \in {0, 1} /\ (code # 0 \/ dir.found # {}) \in BOOLEAN
    BY <1>5 DEF IInv, CodeInv, Finish
  <2>2. Leave(code, code # 0 \/ dir.found # {}) /\ UNCHANGED <<outputs, runs, states>>
    BY <1>5 DEF Finish
  <2> QED BY <2>1, <2>2, Leaving DEF IInv, PlacesInv
<1>6. CASE TestEnds
  BY <1>6, Leaving DEF IInv, PlacesInv, FoundInv, CodeInv, TestEnds
<1>7. CASE Verdict
  <2>1. (IF code = 2 /\ empty THEN 1 ELSE 0) \in {0, 1}
    OBVIOUS
  <2>2. Leave(IF code = 2 /\ empty THEN 1 ELSE 0, FALSE) /\ dir.found = {} /\ UNCHANGED <<outputs, runs, states>>
    BY <1>7 DEF Verdict, IInv, FoundInv
  <2> QED BY <2>1, <2>2, Leaving DEF IInv, PlacesInv
<1>8. CASE Kill
  <2>1. Leave(130, TRUE)
    BY <1>8 DEF Kill, Leave
  <2> QED BY <1>8, <2>1, Leaving DEF IInv, PlacesInv, Kill
<1>9. CASE Environment
  <2>1. mode \in {"run", "test", "plan"}
    BY <1>9 DEF IInv, RunInv, Invocations, Environment, mode
  <2>2. PlacesInv' /\ CodeInv' /\ PlacedInv'
    BY <1>9, <2>1 DEF IInv, PlacesInv, CodeInv, PlacedInv, Environment, states
  <2> QED BY <1>9, <2>1, <2>2, Going DEF IInv, DirInv, FoundInv, Environment
<1>10. CASE PlaceOverride
  <2>1. PlacesInv' /\ CodeInv' /\ PlacedInv'
    BY <1>10 DEF IInv, PlacesInv, CodeInv, PlacedInv, DirInv, PlaceOverride, Deciding, states, keepState, module
  <2> QED BY <1>10, <2>1, Going DEF IInv, DirInv, FoundInv, PlaceOverride, Deciding
<1>11. CASE PlaceNothing
  <2>1. PlacesInv' /\ CodeInv' /\ PlacedInv'
    BY <1>11 DEF IInv, PlacesInv, CodeInv, PlacedInv, PlaceNothing, Deciding, states, keepState, module,
       needsBackend, command
  <2> QED BY <1>11, <2>1, Going DEF IInv, DirInv, FoundInv, PlaceNothing, Deciding
<1>12. CASE InitBackend
  <2>1. dir'.override = dir.override /\ dir'.ready = needsBackend
    BY <1>12 DEF IInv, DirInv, InitBackend
  <2>2. PlacesInv' /\ CodeInv' /\ PlacedInv'
    BY <1>12, <2>1 DEF IInv, PlacesInv, CodeInv, PlacedInv, InitBackend, states, keepState, module,
       needsBackend, command
  <2>3. needsBackend \in BOOLEAN
    BY DEF needsBackend
  <2> QED BY <1>12, <2>2, <2>3, Going DEF IInv, DirInv, FoundInv, InitBackend
<1>13. CASE Exec
  BY <1>13, Executing
<1>14. CASE Test
  <2>1. PlacesInv' /\ CodeInv' /\ PlacedInv'
    BY <1>14 DEF IInv, PlacesInv, CodeInv, PlacedInv, Test, states
  <2> QED BY <1>14, <2>1, Going DEF IInv, DirInv, FoundInv, Test
<1>15. CASE PlanInit
  <2>1. PlacesInv' /\ CodeInv' /\ PlacedInv'
    BY <1>15 DEF IInv, PlacesInv, CodeInv, PlacedInv, PlanInit, states
  <2> QED BY <1>15, <2>1, Going DEF IInv, DirInv, FoundInv, PlanInit
<1>16. CASE Plan
  <2>1. PlacesInv' /\ CodeInv' /\ PlacedInv'
    BY <1>16 DEF IInv, PlacesInv, CodeInv, PlacedInv, Plan, states
  <2> QED BY <1>16, <2>1, Going DEF IInv, DirInv, FoundInv, Plan
<1>17. CASE Show
  <2>1. PlacesInv' /\ CodeInv' /\ PlacedInv'
    BY <1>17 DEF IInv, PlacesInv, CodeInv, PlacedInv, Show, states
  <2> QED BY <1>17, <2>1, Going DEF IInv, DirInv, FoundInv, Show
<1>18. CASE UNCHANGED vars
  <2>1. PlacesInv' /\ DirInv' /\ FoundInv' /\ RunInv' /\ AgeInv' /\ CodeInv'
    BY <1>18 DEF IInv, PlacesInv, DirInv, FoundInv, RunInv, AgeInv, CodeInv, vars
  <2>2. PlacedInv' /\ KeptStateIsOutside'
    BY <1>18 DEF IInv, PlacedInv, KeptStateIsOutside, vars, keepState, module, needsBackend, command
  <2>3. RecordsSurvive'
    BY <1>18 DEF IInv, RecordsSurvive, Kept, vars
  <2> QED BY <2>1, <2>2, <2>3 DEF IInv
<1>19. CASE Over
  BY <1>18, <1>19 DEF Over
<1> QED
  BY <1>1, <1>2, <1>3, <1>4, <1>5, <1>6, <1>7, <1>8, <1>9, <1>10, <1>11, <1>12, <1>13, <1>14, <1>15,
     <1>16, <1>17, <1>18, <1>19 DEF Next, RunCommand, RunTest, RunPlanTest

LEMMA Invariance == Spec => []IInv
<1>1. IInv /\ [Next]_vars => IInv'
  BY NextIInv
<1> QED BY <1>1, InitIInv, PTL DEF Spec

-------------------------------------------------------------------------------
(***************************************************************************)
(* Whatever is invoked, in whatever order and however it ends, states, code *)
(* and outputs have the shapes the runner gives them.                       *)
(***************************************************************************)
THEOREM TypeCorrect == Spec => []TypeOK
<1>1. IInv => TypeOK
  BY DEF IInv, PlacesInv, DirInv, CodeInv, TypeOK
<1> QED BY <1>1, Invariance, PTL

(***************************************************************************)
(* No record of what a command created under the usual name is ever lost:   *)
(* not by a later invocation, a failure or a kill (runner.go:310-327).      *)
(***************************************************************************)
THEOREM RecordsSafety == Spec => []RecordsSurvive
<1>1. IInv => RecordsSurvive
  BY DEF IInv
<1> QED BY <1>1, Invariance, PTL

(***************************************************************************)
(* For every target, command and number of invocations: what a command of a *)
(* module that keeps its state creates under the usual name is under        *)
(* bazel-out, and its staged directory holds only records of commands that  *)
(* named another state (runner.go:262-283, moduledir.go:248-257).           *)
(***************************************************************************)
THEOREM KeptOutsideSafety == Spec => []KeptStateIsOutside
<1>1. IInv => KeptStateIsOutside
  BY DEF IInv
<1> QED BY <1>1, Invariance, PTL

===============================================================================
