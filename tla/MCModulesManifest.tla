-------------------------- MODULE MCModulesManifest --------------------------
(***************************************************************************)
(* Instances of ModulesManifest: a staged package of two directories, and   *)
(* up to three deps out of six, two versions of one module among them,    *)
(* with packages that call one another and themselves; some root modules    *)
(* name two blocks alike.                                                   *)
(***************************************************************************)
EXTENDS ModulesManifest

CONSTANTS
  TopBlocks,  \* how many blocks the root module may have
  MaxDeps     \* how many deps it may have

MCName       == {"x", "y"}
MCSourceName == {"p", "q"}
MCSub        == {"top", "a", "b"}

Bare(name) == [name |-> name, spelled |-> "bare"]
Host(name) == [name |-> name, spelled |-> "host"]

None(name)                     == [kind |-> "none", name |-> name]
Path(name, to)                 == [kind |-> "local", name |-> name, to |-> to]
External(name, source, version) == [kind |-> "external", name |-> name, source |-> source, version |-> version]

BlockChoices(name) ==
  {None(name), Path(name, "a"), Path(name, "top"),
   External(name, Bare("p"), {1, 2}), External(name, Host("p"), {1}), External(name, Bare("p"), {}),
   External(name, Bare("q"), {1, 2})}

Lists(k) == {<<>>} \cup {<<b>> : b \in BlockChoices("x")}
              \cup IF k = 2 THEN {<<b, c>> : b \in BlockChoices("x"), c \in BlockChoices("y")} ELSE {}

Files(top, a) == [d \in {"top", "a"} |-> IF d = "top" THEN top ELSE a]

\* Two files with a block of one name: an override without a source, one with
\* another source, and a local module beside an external one.
Repeats ==
  {<<External("x", Bare("p"), {1}), None("x")>>, <<None("x"), Path("x", "a")>>,
   <<External("x", Bare("p"), {1}), External("x", Bare("q"), {1})>>,
   <<Path("x", "a"), External("x", Bare("p"), {2}), Path("y", "a")>>}

MCTrees ==
  {Files(top, a) : top \in Lists(TopBlocks), a \in Lists(1)}
    \cup {Files(top, a) : top \in Repeats, a \in {<<>>, <<External("y", Bare("q"), {1})>>}}

MCDeps ==
  {[source |-> Bare("p"), version |-> 1, subdir |-> "top", files |-> Files(<<>>, <<>>)],
   [source |-> Host("p"), version |-> 2, subdir |-> "a", files |-> Files(<<>>, <<External("x", Bare("q"), {1})>>)],
   [source |-> Bare("p"), version |-> 2, subdir |-> "top",
    files |-> Files(<<Path("x", "a"), Path("y", "a")>>, <<None("x")>>)],
   [source |-> Bare("q"), version |-> 1, subdir |-> "top", files |-> Files(<<Path("x", "a")>>, <<>>)],
   [source |-> Bare("q"), version |-> NoVersion, subdir |-> "top",
    files |-> Files(<<Path("y", "a")>>, <<External("x", Host("p"), {1})>>)],
   [source |-> Bare("q"), version |-> 2, subdir |-> "b", files |-> Files(<<>>, <<>>)]}

MCInputs == {[tree |-> t, deps |-> d] : t \in MCTrees, d \in BoundedSeq(MCDeps, MaxDeps)}

===============================================================================
