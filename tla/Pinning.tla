------------------------------- MODULE Pinning -------------------------------
(***************************************************************************)
(* What the module extension promises of its facts (the `facts` it returns  *)
(* in extension_impl.bzl, kept in MODULE.bazel.lock): an answer, once       *)
(* recorded, is the answer until it is no longer asked for or an upgrade    *)
(* asks anew, and what the build declares is what is recorded.  How answers *)
(* are found, and evaluations that fail, are not visible here.              *)
(* ModuleResolution and ProviderResolution implement it.                    *)
(***************************************************************************)
VARIABLES
  upgrade,   \* whether the evaluation under way was asked to upgrade
  still,     \* whether upstream stood still during the last one
  choices,   \* what a question was answered: a constraint, a list of platforms
  moving,    \* archives of references upstream may move
  fixed,     \* archives of references it may not
  declared   \* the archives the build may use

pins == <<still, choices, moving, fixed, declared>>

\* No answer of `old` is another in `new`.
Keeps(old, new) == \A k \in DOMAIN old \cap DOMAIN new : new[k] = old[k]

archives == {moving[k] : k \in DOMAIN moving} \cup {fixed[k] : k \in DOMAIN fixed}

Init == upgrade \in BOOLEAN /\ declared = {}

Ask == upgrade' \in BOOLEAN /\ UNCHANGED pins

\* When upstream moves during an evaluation, a reference asked for twice may
\* be declared twice and is recorded once.
Settle ==
  /\ ~upgrade => Keeps(choices, choices') /\ Keeps(moving, moving')
  /\ Keeps(fixed, fixed')
  /\ archives' \subseteq declared'
  /\ still' => declared' = archives'
  /\ UNCHANGED upgrade

Next == Ask \/ Settle

Spec == Init /\ [][Next]_<<upgrade, pins>>
===============================================================================
