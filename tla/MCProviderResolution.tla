------------------------- MODULE MCProviderResolution -------------------------
(***************************************************************************)
(* Small instances of ProviderResolution: two providers, one of a private   *)
(* host too, two platforms asked for and one that is not.                   *)
(***************************************************************************)
EXTENDS ProviderResolution

MCPlatforms == <<"linux", "darwin">>

Entry(host, s, zh) == [host |-> host, source |-> s, version |-> 1, zh |-> zh]
Tag(reg, lock) == [registry |-> reg, lock |-> lock]

Asks(v, deps) == [toolchain |-> v, deps |-> deps]

MCversions == [v \in {"1.8"} |-> [p \in {"linux", "darwin"} |-> "s1"]]

MCTagLists == {
  Asks(<<"1.9">>, <<Tag("tf", <<Entry("public", "aws", {"s1"})>>)>>),
  Asks(<<>>, <<Tag("tf", <<Entry("public", "aws", {})>>), Tag("tf", <<Entry("public", "aws", {"s1", "s2"}), Entry("private", "dns", {})>>)>>),
  Asks(<<"1.8">>, <<Tag("tf", <<Entry("public", "aws", {"s2"})>>), Tag("tofu", <<Entry("public", "aws", {"s1"})>>)>>),
  Asks(<<>>, <<Tag("tf", <<Entry("private", "aws", {}), Entry("public", "aws", {})>>)>>),
  Asks(<<"1.9", "1.8">>, <<>>), Asks(<<"2.0">>, <<>>)}

Everywhere(ps) == [r \in Release |-> ps]
Serving(s) == [x \in Release \X Platform |-> s]
Listing(ps) == [v \in {"1.9"} |-> [p \in ps |-> "s1"]]

Aws == [registry |-> "tf", source |-> "aws", version |-> 1]

\* What older evaluations left of a lookup that failed, and lists of platforms
\* and of checksums.
OldFacts ==
  [checksums |-> [v \in {"1.9"} |-> <<>>],
   archive |-> [k \in {<<Aws, "linux">>} |-> Failed], platforms |-> [r \in {Aws} |-> {"linux"}]]

MCWorlds == {
  [published |-> Everywhere({"linux", "plan9"}), served |-> Serving("s1"), facts |-> NoFacts,
   sums |-> Listing({"linux", "plan9"})],
  [published |-> Everywhere({"linux", "darwin"}), served |-> Serving("s1"), facts |-> OldFacts,
   sums |-> Listing({"linux"})],
  [published |-> [r \in Release |-> IF r.registry = "tofu" THEN {"plan9"} ELSE IF r.source = "dns" THEN {} ELSE {"darwin"}],
   served |-> Serving("s2"), facts |-> NoFacts, sums |-> Listing({"plan9"})]}
===============================================================================
