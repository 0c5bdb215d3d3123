------------------------------ MODULE MCGazelle ------------------------------
(***************************************************************************)
(* Small instances of Gazelle: a repository with an application and a       *)
(* library below it, and a module somebody wrote by hand.                   *)
(***************************************************************************)
EXTENDS Gazelle

CONSTANTS tf_, tf_app, tf_app_net, shared   \* hubs; they stand for themselves

MCDir == {"", "app", "app/net"}
Mup == [d \in MCDir |-> CASE d = "" -> <<"">> [] d = "app" -> <<"app", "">> [] d = "app/net" -> <<"app/net", "app", "">>]
MCName == STRING
Mbase == [d \in MCDir |-> CASE d = "" -> "checkout" [] d = "app" -> "app" [] d = "app/net" -> "net"]
MdefaultHub == [d \in MCDir |-> CASE d = "" -> tf_ [] d = "app" -> tf_app [] d = "app/net" -> tf_app_net]

Holds(s, b, l, c) == [sources |-> s, backend |-> b, lock |-> l, calls |-> c, engine |-> Unset, kind |-> Unset, hubs |-> Unset]

None == Holds({}, FALSE, FALSE, {})
Library == Holds({"tf"}, FALSE, FALSE, {})
TofuLibrary == Holds({"tf", "tofu"}, FALSE, TRUE, {})
Root == Holds({"tf"}, TRUE, TRUE, {"app/net"})

MCFiles ==
  {None, Library, TofuLibrary, Root,
   [None EXCEPT !.engine = "tofu", !.hubs = {shared}],
   [Root EXCEPT !.kind = "module", !.calls = {"app/net", ""}],
   [Library EXCEPT !.kind = "root", !.engine = "terraform"]}

MCRepositories ==
  {[d \in MCDir |-> CASE d = "app" -> Root [] d = "app/net" -> Library [] OTHER -> None],
   [d \in MCDir |-> Library]}

ByHandNet == {[engine |-> "terraform", kind |-> "module", name |-> "network", deps |-> {}]}

MCBuilds ==
  {[d \in MCDir |-> {}], [d \in MCDir |-> IF d = "app/net" THEN ByHandNet ELSE {}]}
===============================================================================
