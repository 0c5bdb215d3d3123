------------------------------ MODULE ModuleTree ------------------------------
(***************************************************************************)
(* How a terraform_module and its local deps are laid out in one tree:     *)
(* common_ancestor and tree_relative (engine/util.bzl) as                   *)
(* _terraform_init_aspect_impl uses them (engine/init.bzl).                 *)
(*                                                                         *)
(* A directory is the sequence of its segments.                             *)
(***************************************************************************)
EXTENDS Naturals, Sequences, SequencesExt

\* The deepest directory that prefixes every one of the given ones.
CommonAncestor(dirs) == LongestCommonPrefix(dirs)

\* A directory below the tree root, seen from it.
TreeRelative(dir, treeRoot) == SubSeq(dir, Len(treeRoot) + 1, Len(dir))

(***************************************************************************)
(* The args file of the init tool for a root module and its deps, in       *)
(* order: each with its package, its place in the tree, its `module`        *)
(* blocks and the directories its data files sit in.                        *)
(***************************************************************************)
Placed(m, treeRoot) ==
  [pkg |-> m.pkg, dir |-> TreeRelative(m.pkg, treeRoot), blocks |-> m.blocks, data |-> m.data]

InitArgs(root, deps) ==
  LET treeRoot == CommonAncestor({root.pkg} \cup {deps[i].pkg : i \in DOMAIN deps})
  IN  [root |-> Placed(root, treeRoot), deps |-> [i \in DOMAIN deps |-> Placed(deps[i], treeRoot)]]

===============================================================================
