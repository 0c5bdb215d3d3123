----------------------------- MODULE LocalModules -----------------------------
(***************************************************************************)
(* How the init tool (engine/init/init.go) places the local modules of a   *)
(* module tree: resolveLocalModules and the depth-first recursion of        *)
(* resolveModuleDir under it.                                               *)
(*                                                                         *)
(* A directory is the sequence of its path segments, relative to the tree  *)
(* root; the root itself is <<>>.  A module source is how many levels it    *)
(* climbs and the directory it then names, which is what path.Clean leaves  *)
(* of a "./" or "../" string; a registry address or a URL is Remote.        *)
(*                                                                         *)
(* The stack of the recursion is explicit.  One step treats one module      *)
(* block, so that a step is what the code does between two calls of         *)
(* ParseDir: match, copy, mark and descend.                                 *)
(***************************************************************************)
EXTENDS Naturals, Sequences

CONSTANTS
  Name,      \* path segments
  Remote,    \* the source of a block that names no local directory
  Inputs,    \* the args files the tool is run on
  MaxPath    \* the longest path the file system takes, in segments

Path   == Seq(Name)
Local  == [up : Nat, down : Path]
Source == Local \cup {Remote}
Module == [pkg : Path, dir : Path, blocks : Seq(Source), data : SUBSET Path]

(***************************************************************************)
(* An input is the root module and the candidates, in the order of the     *)
(* args file, each with its package and the place of that package in the   *)
(* tree.  `data` holds the directories below a module that its data files  *)
(* bring along; the .tf files of a module are all in its own package        *)
(* (terraform.bzl, _module_root_dir).                                       *)
(***************************************************************************)
Input == [root : Module, deps : Seq(Module)]

ASSUME InputsAssumption  == Inputs \subseteq Input
ASSUME MaxPathAssumption == MaxPath \in Nat
ASSUME RemoteAssumption  == Remote \notin Local

VARIABLES
  in,         \* the args file of this run
  stack,      \* the frames of resolveModuleDir: directory and blocks to treat
  visited,    \* directories resolveModuleDir was called for
  used,       \* candidates some block referenced
  installed,  \* what was copied: module `of` (0 for the root) to directory `at`
  status      \* "running", "done", or why the tool exited 1

vars == <<in, stack, visited, used, installed, status>>

Failures == {"above_tree", "ambiguous", "unmatched", "path_too_long", "unused"}

Deps == 1..Len(in.deps)

ModuleOf(i) == IF i = 0 THEN in.root ELSE in.deps[i]

Workdir == in.root.dir

Elements(s) == {s[n] : n \in 1..Len(s)}

-------------------------------------------------------------------------------
(***************************************************************************)
(* Paths                                                                    *)
(***************************************************************************)

\* Directory d is a, or lies below it.
Within(d, a) == /\ Len(a) <= Len(d)
                /\ \A n \in 1..Len(a) : a[n] = d[n]

\* The package ends in the directory a source names, on a segment boundary.
EndsIn(pkg, rel) == /\ Len(rel) <= Len(pkg)
                    /\ \A n \in 1..Len(rel) : rel[n] = pkg[Len(pkg) - Len(rel) + n]

IsLocal(src) == src # Remote /\ ~(src.up = 0 /\ src.down = <<>>)

ClimbsOut(dir, src) == src.up > Len(dir)

Join(dir, src) == SubSeq(dir, 1, Len(dir) - src.up) \o src.down

-------------------------------------------------------------------------------
(***************************************************************************)
(* The staged tree                                                          *)
(***************************************************************************)

\* The directories one copied module brings into being, with files in them.
Occupies(e) == {e.at} \cup {e.at \o d : d \in ModuleOf(e.of).data}

\* (Mutant of IsDir: only the module's own directory counts.)
IsDirExact(dir) == \E e \in installed : e.at = dir

\* A directory exists when a module has files in it or somewhere below.
IsDir(dir) == \E e \in installed : \E d \in Occupies(e) : Within(d, dir)

\* What ParseDir finds in a directory of a tree: the blocks of the module
\* copied there, none where only data files or further directories are.
ParseDir(tree, dir) ==
  IF \E e \in tree : e.at = dir
  THEN ModuleOf((CHOOSE e \in tree : e.at = dir).of).blocks
  ELSE <<>>

-------------------------------------------------------------------------------
(***************************************************************************)
(* Matching a block to a candidate                                          *)
(***************************************************************************)

\* (Mutant of DirMatch: positions counted from zero.)
DirMatchZeroBased(target) == {i \in 0..Len(in.deps) - 1 : in.deps[i + 1].dir = target}

\* A candidate placed at the tree root has the directory "", which no target
\* equals: path.Join spells the tree root ".".
DirMatch(target) == {i \in Deps : target # <<>> /\ in.deps[i].dir = target}

TailMatch(src) ==
  IF src.up > 0 THEN {} ELSE {i \in Deps : EndsIn(in.deps[i].pkg, src.down)}

\* (Mutant of Match: the first tail match wins over the directory.)
MatchTailFirst(src, target) ==
  LET S == IF TailMatch(src) # {} THEN TailMatch(src) ELSE DirMatch(target)
  IN  {i \in S : \A j \in S : i <= j}

\* No candidate, the one that supplies the source, or several: an error.
Match(src, target) ==
  IF DirMatch(target) # {}
  THEN {i \in DirMatch(target) : \A j \in DirMatch(target) : i <= j}
  ELSE TailMatch(src)

Ambiguous(S) == \E i, j \in S : i # j

-------------------------------------------------------------------------------
Frame == [dir : Path, todo : Seq(Source)]

Top    == stack[Len(stack)]
Block  == Top.todo[1]
Target == Join(Top.dir, Block)

\* The stack with the block at hand done with.
Advanced == [stack EXCEPT ![Len(stack)] = [dir |-> Top.dir, todo |-> Tail(Top.todo)]]

Treating == status = "running" /\ stack # <<>> /\ Top.todo # <<>>

\* A block this tool can supply, whose target stays inside the tree.
Resolving == Treating /\ IsLocal(Block) /\ ~ClimbsOut(Top.dir, Block)

Fail(why) == status' = why /\ UNCHANGED <<in, stack, visited, used, installed>>

\* (Mutants of Descend: no look at `visited`; a visited target looked at again.)
DescendAlways(tree) ==
  /\ stack' = Append(Advanced, [dir |-> Target, todo |-> ParseDir(tree, Target)])
  /\ visited' = visited \cup {Target}

DescendSpin(tree) ==
  IF Target \in visited THEN UNCHANGED <<stack, visited>> ELSE DescendAlways(tree)

\* The recursive call on the target, once the tree holds what it holds.
Descend(tree) ==
  IF Target \in visited
  THEN stack' = Advanced /\ UNCHANGED visited
  ELSE /\ stack' = Append(Advanced, [dir |-> Target, todo |-> ParseDir(tree, Target)])
       /\ visited' = visited \cup {Target}

-------------------------------------------------------------------------------
(***************************************************************************)
(* The root module is copied before the resolution starts.  The directory  *)
(* of a root module that is the tree root is spelled "" in this first call  *)
(* and "." by every later path.Join, so the mark it leaves in `visited`     *)
(* is never looked up.                                                      *)
(***************************************************************************)
Init ==
  /\ in \in Inputs
  /\ installed = {[at |-> Workdir, of |-> 0]}
  /\ stack = <<[dir |-> Workdir, todo |-> in.root.blocks]>>
  /\ visited = IF Workdir = <<>> THEN {} ELSE {Workdir}
  /\ used = {}
  /\ status = "running"

SkipRemote ==
  /\ Treating
  /\ ~IsLocal(Block)
  /\ stack' = Advanced
  /\ UNCHANGED <<in, visited, used, installed, status>>

FailAboveTree ==
  /\ Treating
  /\ IsLocal(Block)
  /\ ClimbsOut(Top.dir, Block)
  /\ Fail("above_tree")

FailAmbiguous ==
  /\ Resolving
  /\ Ambiguous(Match(Block, Target))
  /\ Fail("ambiguous")

FailUnmatched ==
  /\ Resolving
  /\ Match(Block, Target) = {}
  /\ ~IsDir(Target)
  /\ Fail("unmatched")

\* The candidate is copied to a directory that was not there.
Install(i) ==
  /\ Resolving
  /\ Match(Block, Target) = {i}
  /\ ~IsDir(Target)
  /\ Len(Target) <= MaxPath
  /\ used' = used \cup {i}
  /\ installed' = installed \cup {[at |-> Target, of |-> i]}
  /\ Descend(installed')
  /\ UNCHANGED <<in, status>>

\* mkdir refuses a path that long; the candidate is marked all the same.
FailPathTooLong(i) ==
  /\ Resolving
  /\ Match(Block, Target) = {i}
  /\ ~IsDir(Target)
  /\ Len(Target) > MaxPath
  /\ used' = used \cup {i}
  /\ status' = "path_too_long"
  /\ UNCHANGED <<in, stack, visited, installed>>

\* (Mutant of Reuse: a directory that is there is not walked.)
ReuseUnwalked ==
  /\ Resolving
  /\ ~Ambiguous(Match(Block, Target))
  /\ IsDir(Target)
  /\ used' = used \cup Match(Block, Target)
  /\ stack' = Advanced
  /\ UNCHANGED <<in, visited, installed, status>>

\* The target is there already: whatever it holds answers the source.
Reuse ==
  /\ Resolving
  /\ ~Ambiguous(Match(Block, Target))
  /\ IsDir(Target)
  /\ used' = used \cup Match(Block, Target)
  /\ Descend(installed)
  /\ UNCHANGED <<in, installed, status>>

Return ==
  /\ status = "running"
  /\ stack # <<>>
  /\ Top.todo = <<>>
  /\ stack' = SubSeq(stack, 1, Len(stack) - 1)
  /\ UNCHANGED <<in, visited, used, installed, status>>

\* After the walk, the first candidate no block referenced is an error.
Finish ==
  /\ status = "running"
  /\ stack = <<>>
  /\ status' = IF used = Deps THEN "done" ELSE "unused"
  /\ UNCHANGED <<in, stack, visited, used, installed>>

\* The tool has exited.
Exited == status # "running" /\ UNCHANGED vars

Next ==
  \/ SkipRemote
  \/ FailAboveTree
  \/ FailAmbiguous
  \/ FailUnmatched
  \/ \E i \in Deps : Install(i)
  \/ \E i \in Deps : FailPathTooLong(i)
  \/ Reuse
  \/ Return
  \/ Finish
  \/ Exited

Spec == Init /\ [][Next]_vars

\* The tool is one sequential process: it takes a step while it has one.
FairSpec == Spec /\ WF_vars(Next)

-------------------------------------------------------------------------------
(***************************************************************************)
(* Properties                                                               *)
(***************************************************************************)

TypeOK ==
  /\ in \in Input
  /\ stack \in Seq(Frame)
  /\ visited \subseteq Path
  /\ used \subseteq Deps
  /\ installed \subseteq [at : Path, of : {0} \cup Deps]
  /\ status \in Failures \cup {"running", "done"}

\* The directories whose blocks the walk has read, and the local sources in one.
Reached == visited \cup {Workdir}

BlocksAt(dir) ==
  UNION {Elements(ModuleOf(e.of).blocks) : e \in {f \in installed : f.at = dir}}

SourcesAt(dir) == {src \in BlocksAt(dir) : IsLocal(src)}

(***************************************************************************)
(* No directory of the tree holds the files of two modules: the copy of    *)
(* one module never lands on or inside what another one brought            *)
(* (init.go:332-338, the copy is made only into a directory that is not    *)
(* there).                                                                  *)
(***************************************************************************)
NoOverlay ==
  \A e, f \in installed : Occupies(e) \cap Occupies(f) # {} => e = f

(***************************************************************************)
(* Two blocks that name one directory agree on the module in it: wherever  *)
(* a candidate was copied, no block the walk reads would have chosen        *)
(* another one for that directory, however either block spells its source  *)
(* (init.go:368-402, the tail match with its ambiguity error).              *)
(***************************************************************************)
OneModulePerTarget ==
  \A e \in installed : e.of # 0 =>
    \A dir \in Reached : \A src \in SourcesAt(dir) : \A i \in Deps :
      /\ ~ClimbsOut(dir, src)
      /\ Join(dir, src) = e.at
      /\ Match(src, e.at) = {i}
      => i = e.of

(***************************************************************************)
(* A tree the tool accepts is closed: the source of every block in it      *)
(* stays inside the tree, names a directory that exists, and that           *)
(* directory was walked in turn (init.go:309-351).                          *)
(***************************************************************************)
ClosedWhenDone ==
  status = "done" =>
    \A dir \in Reached : \A src \in SourcesAt(dir) :
      /\ ~ClimbsOut(dir, src)
      /\ IsDir(Join(dir, src))
      /\ Join(dir, src) \in visited

(***************************************************************************)
(* A candidate is copied nowhere but where a block of a module already in  *)
(* the tree asks for it (init.go:260-261).                                  *)
(***************************************************************************)
InstalledOnDemand ==
  \A e \in installed : e.of # 0 =>
    \E dir \in Reached : \E src \in SourcesAt(dir) :
      /\ ~ClimbsOut(dir, src)
      /\ Join(dir, src) = e.at
      /\ Match(src, e.at) = {e.of}

(***************************************************************************)
(* The tool accepts `deps` only when a block of the tree references each   *)
(* candidate (init.go:280-290).                                             *)
(***************************************************************************)
ReferencedWhenDone ==
  status = "done" =>
    \A i \in Deps : \E dir \in Reached : \E src \in SourcesAt(dir) :
      ~ClimbsOut(dir, src) /\ i \in Match(src, Join(dir, src))

(***************************************************************************)
(* The recursion is inside each directory once; only the root module that  *)
(* is the tree root is entered a second time, as "." (init.go:298-302).     *)
(***************************************************************************)
WalkedOnce ==
  \A m, n \in 1..Len(stack) :
    m < n /\ stack[m].dir = stack[n].dir => m = 1 /\ stack[m].dir = <<>>

(***************************************************************************)
(* What the resolution ends with on every input: the walk of a finite      *)
(* tree stops (init.go:298-302).                                            *)
(***************************************************************************)
Terminates == <>(status # "running")

-------------------------------------------------------------------------------
(***************************************************************************)
(* The inductive invariant: what the walk has read is there and stays as   *)
(* it was read, and every source read is dealt with or still on the stack.  *)
(***************************************************************************)
RootPlaced == [at |-> Workdir, of |-> 0] \in installed

ReachedExist == \A dir \in Reached : IsDir(dir)

FramesReal ==
  \A n \in 1..Len(stack) :
    /\ stack[n].dir \in Reached
    /\ Elements(stack[n].todo) \subseteq BlocksAt(stack[n].dir)

Dealt(dir, src) ==
  /\ ~ClimbsOut(dir, src)
  /\ IsDir(Join(dir, src))
  /\ Join(dir, src) \in visited

Pending(dir, src) ==
  \E n \in 1..Len(stack) :
    stack[n].dir = dir /\ src \in Elements(stack[n].todo)

DealtOrPending ==
  \A dir \in Reached : \A src \in SourcesAt(dir) : Dealt(dir, src) \/ Pending(dir, src)

UsedReferenced ==
  \A i \in used : \E dir \in Reached : \E src \in SourcesAt(dir) :
    ~ClimbsOut(dir, src) /\ i \in Match(src, Join(dir, src))

DoneIsFinished == status = "done" => stack = <<>> /\ used = Deps

IInv ==
  /\ TypeOK
  /\ NoOverlay
  /\ RootPlaced
  /\ ReachedExist
  /\ FramesReal
  /\ DealtOrPending
  /\ InstalledOnDemand
  /\ UsedReferenced
  /\ DoneIsFinished

\* The recursion is only inside directories it has marked; but for "".
StackVisited ==
  \A n \in 1..Len(stack) : stack[n].dir \in visited \/ (n = 1 /\ stack[n].dir = <<>>)

===============================================================================
