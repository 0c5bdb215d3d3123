------------------------------- MODULE MCRunner -------------------------------
(***************************************************************************)
(* Instances of Runner: every kind of module, and a command of each kind    *)
(* the runner tells apart.                                                  *)
(***************************************************************************)
EXTENDS Runner

MCModules ==
  {[backend |-> b, disposable |-> d, config |-> TRUE] : b \in BOOLEAN, d \in BOOLEAN}
    \cup {[backend |-> FALSE, disposable |-> TRUE, config |-> FALSE]}

Plain(sub, verb) == [sub |-> sub, verb |-> verb, state |-> FALSE]

MCCommands ==
  {Plain("", ""), Plain("init", ""), Plain("apply", ""), Plain("plan", ""), Plain("validate", ""),
   Plain("state", "rm"), Plain("state", "list"), Plain("workspace", "new"),
   [sub |-> "apply", verb |-> "", state |-> TRUE]}   \* `apply -state=other.tfstate`

===============================================================================
