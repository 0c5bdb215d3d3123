---------------------------- MODULE VersionChoice ----------------------------
(***************************************************************************)
(* highest_matching of engine/semver.bzl, by which the module extension     *)
(* turns a version constraint into a version, and HighestMatching of        *)
(* engine/internal/semver, which it is a port of: one pass over the         *)
(* versions a registry lists, with the best release and the best            *)
(* prerelease so far.                                                       *)
(***************************************************************************)
EXTENDS Semver

CONSTANTS Lists, ConstraintLists, NoChoice

ASSUME ListsAssumption == Lists \subseteq Seq(Version)
ASSUME ConstraintsAssumption == ConstraintLists \subseteq Seq(Constraint)
ASSUME NoChoiceAssumption == NoChoice \notin Version

VARIABLES
  port, versions, constraints,   \* the call
  seen,                          \* how many versions the loop has passed
  bestStable, bestPre,
  returned, result               \* whether it has, and a version or NoChoice

choiceVars == <<port, versions, constraints, seen, bestStable, bestPre, returned, result>>

\* (Mutant of ChoiceInit: the loop starts at the second version.)
InitSecond ==
  /\ port \in Ports
  /\ versions \in Lists
  /\ constraints \in ConstraintLists
  /\ seen = 1
  /\ bestStable = NoChoice
  /\ bestPre = NoChoice
  /\ returned = FALSE
  /\ result = NoChoice

ChoiceInit ==
  /\ port \in Ports
  /\ versions \in Lists
  /\ constraints \in ConstraintLists
  /\ seen = 0
  /\ bestStable = NoChoice
  /\ bestPre = NoChoice
  /\ returned = FALSE
  /\ result = NoChoice

candidate == versions[seen + 1]

Passing == ~returned /\ seen < Len(versions) /\ seen' = seen + 1

Beats(best) == best = NoChoice \/ Compare(port, candidate, best) > 0

Skip ==
  /\ Passing
  /\ ~Check(port, constraints, candidate)
  /\ UNCHANGED <<port, versions, constraints, bestStable, bestPre, returned, result>>

\* (Mutant of TakePre: the last prerelease wins.)
TakePreLast ==
  /\ Passing
  /\ Check(port, constraints, candidate)
  /\ candidate.pre # <<>>
  /\ bestPre' = candidate
  /\ UNCHANGED <<port, versions, constraints, bestStable, returned, result>>

TakePre ==
  /\ Passing
  /\ Check(port, constraints, candidate)
  /\ candidate.pre # <<>>
  /\ bestPre' = IF Beats(bestPre) THEN candidate ELSE bestPre
  /\ UNCHANGED <<port, versions, constraints, bestStable, returned, result>>

TakeStable ==
  /\ Passing
  /\ Check(port, constraints, candidate)
  /\ candidate.pre = <<>>
  /\ bestStable' = IF Beats(bestStable) THEN candidate ELSE bestStable
  /\ UNCHANGED <<port, versions, constraints, bestPre, returned, result>>

\* (Mutant of Choose: the higher of the two, whatever it is.)
ReturnHigher ==
  /\ ~returned
  /\ seen = Len(versions)
  /\ returned' = TRUE
  /\ result' = IF bestStable = NoChoice THEN bestPre
               ELSE IF bestPre = NoChoice THEN bestStable
               ELSE IF Compare(port, bestPre, bestStable) > 0 THEN bestPre ELSE bestStable
  /\ UNCHANGED <<port, versions, constraints, seen, bestStable, bestPre>>

Choose ==
  /\ ~returned
  /\ seen = Len(versions)
  /\ returned' = TRUE
  /\ result' = IF bestStable # NoChoice THEN bestStable ELSE bestPre
  /\ UNCHANGED <<port, versions, constraints, seen, bestStable, bestPre>>

Returned == returned /\ UNCHANGED choiceVars

ChoiceNext == Skip \/ TakePre \/ TakeStable \/ Choose \/ Returned

ChoiceSpec == ChoiceInit /\ [][ChoiceNext]_choiceVars

-------------------------------------------------------------------------------
Listed == {versions[n] : n \in 1..Len(versions)}

Matching == {w \in Listed : Check(port, constraints, w)}

ChoiceTypeOK ==
  /\ port \in Ports
  /\ versions \in Seq(Version)
  /\ constraints \in Seq(Constraint)
  /\ seen \in 0..Len(versions)
  /\ bestStable \in Version \cup {NoChoice}
  /\ bestPre \in Version \cup {NoChoice}
  /\ returned \in BOOLEAN
  /\ result \in Version \cup {NoChoice}

(***************************************************************************)
(* The choice is right whatever the order of the list: a version that      *)
(* satisfies the constraints, a release whenever one does, and none of its  *)
(* kind that does ranks above it; no choice only when nothing satisfies     *)
(* (semver.bzl:211-236, semver.go:257-279).                                 *)
(***************************************************************************)
ChoiceIsBest ==
  /\ result # NoChoice =>
       /\ result \in Matching
       /\ result.pre # <<>> => \A w \in Matching : w.pre # <<>>
       /\ \A w \in Matching :
            (w.pre = <<>>) = (result.pre = <<>>) => Compare(port, w, result) <= 0
  /\ returned /\ result = NoChoice => Matching = {}

(***************************************************************************)
(* The order the choice rests on is one: sides swapped, the sign swaps, and *)
(* it is transitive, for releases, numbered and named prereleases mixed     *)
(* (semver.go:63-106, 150-161).                                             *)
(***************************************************************************)
OrderLaws ==
  \A a, b \in Listed :
    /\ Compare(port, a, b) = - Compare(port, b, a)
    /\ \A c \in Listed :
         Compare(port, a, b) <= 0 /\ Compare(port, b, c) <= 0 => Compare(port, a, c) <= 0

(***************************************************************************)
(* Without `!=`, what satisfies the constraints is an interval: no version *)
(* between two that do is left out (semver.go:210-255).                     *)
(***************************************************************************)
MatchingIsInterval ==
  (\A n \in 1..Len(constraints) : constraints[n].op # "!=") =>
    \A a, c \in Matching : \A b \in Listed :
      Compare(port, a, b) <= 0 /\ Compare(port, b, c) <= 0 => b \in Matching

-------------------------------------------------------------------------------
(***************************************************************************)
(* The loop invariant: the best so far among the versions passed.          *)
(***************************************************************************)
BestOf(best, kind) ==
  /\ best = NoChoice =>
       \A n \in 1..seen : versions[n] \in Matching => (versions[n].pre = <<>>) # kind
  /\ best # NoChoice =>
       /\ best \in Matching /\ (best.pre = <<>>) = kind
       /\ \A n \in 1..seen :
            versions[n] \in Matching /\ (versions[n].pre = <<>>) = kind
            => Compare(port, versions[n], best) <= 0

LoopInv ==
  /\ BestOf(bestStable, TRUE)
  /\ BestOf(bestPre, FALSE)
  /\ IF returned
     THEN seen = Len(versions) /\ result = IF bestStable # NoChoice THEN bestStable ELSE bestPre
     ELSE result = NoChoice

===============================================================================
