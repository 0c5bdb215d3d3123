---------------------------- MODULE MCLocalModules ----------------------------
(***************************************************************************)
(* Instances of LocalModules.  A root module in r, candidates in up to two *)
(* of five packages, and up to two blocks in the root and one in each       *)
(* candidate, drawn from sources that go down, up, deep and nowhere.        *)
(***************************************************************************)
EXTENDS LocalModules, ModuleTree

CONSTANTS RootPkgs, DepPkgs, Sources, RootBlocks, DepBlocks, RootData

Down(rel)  == [up |-> 0, down |-> rel]
Up(n, rel) == [up |-> n, down |-> rel]

MCName == {"a", "b", "r"}

MCRemote == [up |-> 0, down |-> <<"registry">>]

MCRootPkgs == {<<"r">>}
MCDepPkgs  == {<<"a">>, <<"r", "a">>, <<"r", "a", "b">>, <<"b", "a">>}

\* With the repository's root package, in which a dep is the tree root.
MCDepPkgsRoot == MCDepPkgs \cup {<<>>}

MCRootData == {{}, {<<"a">>}}


MCSources == {Down(<<"a">>), Down(<<"a", "b">>), Down(<<"b">>), Up(1, <<"a">>), Up(1, <<>>), MCRemote}

Modules(pkgs, blocks, data) == [pkg : pkgs, blocks : blocks, data : data]

MCInputs ==
  {InitArgs(root, deps) :
     root \in Modules(RootPkgs, BoundedSeq(Sources, RootBlocks), RootData),
     deps \in BoundedSeq(Modules(DepPkgs, BoundedSeq(Sources, DepBlocks), {{}}), 2)}

===============================================================================
