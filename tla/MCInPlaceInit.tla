---------------------------- MODULE MCInPlaceInit ----------------------------
(***************************************************************************)
(* Instances of InPlaceInit: two builds of a module, the second with a new  *)
(* version of its provider and nothing to fetch, over checkouts whose lock  *)
(* is missing, complete, made on another platform, or for another version.  *)
(***************************************************************************)
EXTENDS InPlaceInit

MCBuilds ==
  {[providers |-> {<<"p", 1>>, <<"q", 1>>}, modules |-> {<<"m", 1>>},
    lock |-> [exists |-> TRUE, entries |-> [n \in {"p", "q"} |-> [version |-> 1, h1 |-> {<<<<n, 1>>, "whole">>}]]]],
   [providers |-> {<<"p", 2>>}, modules |-> {}, lock |-> NoLock]}

Own(p, v, kinds) == [n \in {p} |-> [version |-> v, h1 |-> {<<<<p, v>>, k>> : k \in kinds}]]

Empty == [providers |-> <<>>, modules |-> <<>>]
Left  == [providers |-> [p \in {<<"q", 2>>} |-> "whole"], modules |-> [p \in {<<"m", 2>>} |-> "part"]]

MCCheckouts ==
  {[disk |-> d, lock |-> l] : d \in {Empty, Left},
     l \in {NoLock} \cup {[exists |-> TRUE, entries |-> e] :
             e \in {Own("p", 1, {"whole", "elsewhere"}), Own("p", 1, {"elsewhere"}), Own("p", 2, {"elsewhere"})}}}

===============================================================================
