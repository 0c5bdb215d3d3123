--------------------------- MODULE MCVersionChoice ---------------------------
(***************************************************************************)
(* Lists of up to three of eight versions, releases and prereleases of     *)
(* three series, and one or two constraints over four bases.  In the runs   *)
(* of the choice every number fits an int of the Go tools; in the run that  *)
(* compares the ports 9 and 10 do not.                                      *)
(***************************************************************************)
EXTENDS VersionChoice, SequencesExt

None == [none |-> TRUE]

\* Sorted as strings: 1, 10, 2, 9, beta.
one  == [digits |-> TRUE, value |-> 1, text |-> 1]
ten  == [digits |-> TRUE, value |-> 10, text |-> 2]
two  == [digits |-> TRUE, value |-> 2, text |-> 3]
nine == [digits |-> TRUE, value |-> 9, text |-> 4]
beta == [digits |-> FALSE, value |-> 0, text |-> 5]

V(major, minor, patch, pre, segments) ==
  [major |-> major, minor |-> minor, patch |-> patch, pre |-> pre, segments |-> segments]

MCReleases == {V(1, 0, 0, <<>>, 3), V(1, 0, 1, <<>>, 3), V(1, 1, 0, <<>>, 3)}

MCPrereleases ==
  {V(1, 1, 0, <<beta>>, 3), V(1, 1, 0, <<beta, one>>, 3), V(1, 1, 0, <<two>>, 3),
   V(1, 1, 0, <<ten>>, 3), V(2, 0, 0, <<one, two>>, 3)}

MCWide == {V(1, 1, 0, <<nine>>, 3), V(1, 1, 0, <<one>>, 3)}

MCBases == {V(1, 0, 0, <<>>, 1), V(1, 0, 0, <<>>, 2), V(1, 0, 1, <<>>, 3), V(1, 1, 0, <<beta>>, 3)}

Clauses == [op : Ops, version : MCBases]

\* A clause alone, none, and a range.
MCConstraintLists ==
  {<<>>} \cup {<<c>> : c \in Clauses}
    \cup {<<[op |-> ">=", version |-> b], [op |-> "<", version |-> V(1, 1, 0, <<>>, 3)]>> : b \in MCBases}

MCLists     == BoundedSeq(MCReleases \cup MCPrereleases, 3)
MCListsWide == BoundedSeq(MCReleases \cup MCPrereleases \cup MCWide, 2)

===============================================================================
