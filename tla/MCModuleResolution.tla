-------------------------- MODULE MCModuleResolution --------------------------
(***************************************************************************)
(* Small instances of ModuleResolution: one registry module in two          *)
(* versions with two directories, one GitHub and one plain git remote, and  *)
(* modules that call each other in a cycle.                                 *)
(***************************************************************************)
EXTENDS ModuleResolution

Reg(kind, s, sub, want) == [kind |-> kind, source |-> s, sub |-> sub, want |-> want, versioned |-> TRUE]
Git(kind, s, sub, want) == [kind |-> kind, source |-> s, sub |-> sub, want |-> want, versioned |-> FALSE]

MCRegistrySource == {"vpc"}
MCRemote == {"hub", "lab"}
MCGitHub == {"hub"}
MCSub == {"root", "sub"}
MCVersion == 1..2

AnyVpc == Reg("range", "vpc", "root", {1, 2})

\* The newer vpc calls its own directory and a git branch; hub's directory
\* calls back into any vpc.
MCGraphs == {
  [x \in {<<s, v, d>> : s \in MCRegistrySource \cup MCRemote, v \in MCVersion, d \in MCSub} |->
     CASE x = <<"vpc", 1, "root">> -> <<Git("tag", "hub", "sub", {})>>
       [] x = <<"vpc", 2, "root">> -> <<Reg("exact", "vpc", "sub", {2}), Git("branch", "lab", "root", {})>>
       [] x = <<"hub", 1, "sub">> -> <<AnyVpc>>
       [] x = <<"lab", 2, "root">> -> <<Git("commit", "lab", "sub", {1}), AnyVpc>>
       [] OTHER -> <<>>]}

MCHead(c) == [x \in {<<r, k>> : r \in MCRemote, k \in {"tag", "branch"}} |-> c]

\* A fact written before transitive resolution: it lists no dependencies.
LegacyFacts ==
  [module |-> [k \in {[Reg("exact", "vpc", "root", {1}) EXCEPT !.versioned = FALSE]} |->
                [archive |-> Archive("r1", "vpc", 1), deps |-> <<>>, full |-> FALSE, pin |-> Versioned("vpc", 1)]],
   version |-> <<>>]

MCPublished(vs) == [x \in {<<r, "vpc">> : r \in Registry} |-> vs]

MCWorlds == {
  [published |-> MCPublished({1}), head |-> MCHead(1), facts |-> NoFacts],
  [published |-> MCPublished({1, 2}), head |-> MCHead(1), facts |-> LegacyFacts]}

Tag(name, reg, roots) == [name |-> name, registry |-> reg, roots |-> roots]

MCTagLists == {
  <<Tag("a", "r1", <<AnyVpc>>)>>,
  <<Tag("a", "r1", <<Git("branch", "lab", "root", {}), Reg("exact", "vpc", "root", {1})>>),
    Tag("b", "r1", <<Git("tag", "hub", "sub", {}), Git("tag", "hub", "sub", {}), AnyVpc>>)>>,
  <<Tag("a", "r1", <<Git("tag", "lab", "root", {}), Git("commit", "lab", "root", {1}), Git("branch", "hub", "root", {})>>)>>,
  <<Tag("a", "r1", <<Reg("range", "vpc", "sub", {1, 2}), AnyVpc>>)>>,
  <<Tag("a", "r1", <<>>), Tag("a", "r1", <<>>)>>}

\* Two hubs that name different registries for one source.
TwoRegistries == {<<Tag("a", "r1", <<AnyVpc>>)>>, <<Tag("a", "r1", <<AnyVpc>>), Tag("b", "r2", <<AnyVpc>>)>>}
===============================================================================
