--------------------------- MODULE ModulesManifest ---------------------------
(***************************************************************************)
(* How the init tool (engine/init/init.go) installs the external modules a *)
(* staged tree references and writes the modules.json of the whole tree:    *)
(* generateModulesManifest, walkModules, installExternalModules and         *)
(* matchExternal.                                                           *)
(*                                                                         *)
(* A package is what was staged, or what one external module brought: a     *)
(* function from its directories to the `module` blocks in each.  A block   *)
(* of a package names a directory of the same package, an external source,  *)
(* or no source at all; a local source that climbs out of its package is    *)
(* not modelled.  A key is the sequence of block names the code joins with  *)
(* dots.                                                                    *)
(***************************************************************************)
EXTENDS Naturals, Sequences, SequencesExt

CONSTANTS
  Name,        \* block names
  SourceName,  \* external module sources, without a public registry in front
  Sub,         \* directories of a package
  Top,         \* the directory the engine runs in, of the staged package
  Inputs       \* the staged package and the deps, as the walk finds them

(***************************************************************************)
(* Versions are numbered in their order, and 0 is the version of a dep that *)
(* recorded none.  A constraint is the set of versions it admits: none, for *)
(* one that does not parse.                                                 *)
(***************************************************************************)
NoVersion == 0

Source == [name : SourceName, spelled : {"bare", "host"}]

\* Two spellings of one module are one.
normalizeModuleSource(source) == source.name

Block ==
  [kind : {"none"}, name : Name]
    \cup [kind : {"local"}, name : Name, to : Sub]
    \cup [kind : {"external"}, name : Name, source : Source, version : SUBSET Nat]

\* Each directory with the blocks of all its files, one file's after another's:
\* the scanner merges no override file with what it overrides, and reads both of
\* a .tf and .tofu pair, so two blocks of a directory may have one name.
IsPackage(p) == DOMAIN p \subseteq Sub /\ \A d \in DOMAIN p : p[d] \in Seq(Block)

IsDep(d) == /\ d.source \in Source /\ d.version \in Nat /\ d.subdir \in Sub
            /\ IsPackage(d.files)

ASSUME InputsAssumption ==
  \A i \in Inputs : /\ IsPackage(i.tree) /\ Top \in DOMAIN i.tree
                    /\ \A d \in DOMAIN i.deps : IsDep(i.deps[d])

VARIABLES
  in,         \* [tree |-> package, deps |-> sequence of external modules]
  pc,         \* where generateModulesManifest is
  roots,      \* the roots of this round
  root,       \* how many of them have been walked
  stack,      \* the frames of the walk: key, directory, blocks to treat
  external,   \* the references this walk found
  refs,       \* the references of the round, each with its root
  records,    \* the records of the modules installed in this round
  installed,  \* the records of the rounds before
  local,      \* the records of local modules
  disk,       \* what was last copied to .terraform/modules: key to dep
  laid,       \* what lies there: key to package
  manifest,   \* the records written to modules.json
  failure     \* why the tool exited 1

vars == <<in, pc, roots, root, stack, external, refs, records, installed, local,
          disk, laid, manifest, failure>>

walkVars == <<root, stack, external, local>>
roundVars == <<roots, refs, records, installed>>

-------------------------------------------------------------------------------
(***************************************************************************)
(* Directories: one of the staged package, or one of the package installed *)
(* under a key.  The code compares the paths a walk reaches them by; here a *)
(* directory has one path.                                                  *)
(***************************************************************************)
InTree(sub)    == [under |-> <<>>, sub |-> sub]
At(key, sub)   == [under |-> key, sub |-> sub]

Package(dir) == IF dir.under = <<>> THEN in.tree ELSE laid[dir.under]

Readable(dir) == dir.sub \in DOMAIN Package(dir)

Blocks(dir) == Package(dir)[dir.sub]

Frame  == stack[Len(stack)]
block  == Frame.todo[1]
ThisKey == Append(Frame.key, block.name)

Advanced == [stack EXCEPT ![Len(stack)].todo = Tail(@)]

OnPath(dir) == \E n \in 1..Len(stack) : stack[n].dir = dir

Walking == pc = "walk" /\ stack # <<>> /\ Frame.todo # <<>>

Fail(why) == pc' = "exited" /\ failure' = why

-------------------------------------------------------------------------------
(***************************************************************************)
(* Matching a reference to a dep                                            *)
(***************************************************************************)
Candidates(r) ==
  {d \in DOMAIN in.deps :
     normalizeModuleSource(in.deps[d].source) = normalizeModuleSource(r.source)}

Satisfying(r) ==
  {d \in Candidates(r) : in.deps[d].version \in r.version \ {NoVersion}}

\* (Mutant of Best: the first that satisfies.)
BestFirst(r) == {d \in Satisfying(r) : \A e \in Satisfying(r) : d <= e}

\* The highest that satisfies, the first of equals.
Best(r) ==
  {d \in Satisfying(r) : \A e \in Satisfying(r) :
     \/ in.deps[e].version < in.deps[d].version
     \/ in.deps[e].version = in.deps[d].version /\ d <= e}

\* One dep, none when no dep has the source, or an error: {}.
matchExternal(r) ==
  IF Best(r) # {} THEN Best(r)
  ELSE {d \in Candidates(r) : Candidates(r) = {d}}

-------------------------------------------------------------------------------
Init ==
  /\ in \in Inputs
  /\ pc = "walk"
  /\ roots = <<[prefix |-> <<>>, dir |-> InTree(Top), sources |-> {}]>>
  /\ root = 0
  /\ stack = <<>> /\ external = <<>> /\ refs = <<>>
  /\ records = <<>> /\ installed = <<>> /\ local = <<>>
  /\ disk = <<>> /\ laid = <<>>
  /\ manifest = {}
  /\ failure = "none"

\* walkModules on the next root; a module's own directory may be missing from
\* what was fetched.
BeginWalk ==
  /\ pc = "walk" /\ stack = <<>> /\ root < Len(roots)
  /\ Readable(roots[root + 1].dir)
  /\ root' = root + 1
  /\ stack' = <<[key |-> roots[root + 1].prefix, dir |-> roots[root + 1].dir,
                 todo |-> Blocks(roots[root + 1].dir)]>>
  /\ external' = <<>>
  /\ pc' = "walk"
  /\ UNCHANGED <<in, local, roundVars, disk, laid, manifest, failure>>

FailUnreadableRoot ==
  /\ pc = "walk" /\ stack = <<>> /\ root < Len(roots)
  /\ ~Readable(roots[root + 1].dir)
  /\ Fail("unreadable")
  /\ UNCHANGED <<in, walkVars, roundVars, disk, laid, manifest>>

\* (Mutant of SkipNoSource: the block stays where it is.)
SkipNoSourceStays ==
  /\ Walking /\ block.kind = "none"
  /\ UNCHANGED vars

SkipNoSource ==
  /\ Walking /\ block.kind = "none"
  /\ stack' = Advanced
  /\ UNCHANGED <<in, pc, root, external, local, roundVars, disk, laid, manifest, failure>>

\* (Mutant of TakeExternal: the key is the block's own name.)
TakeExternalBareKey ==
  /\ Walking /\ block.kind = "external"
  /\ stack' = Advanced
  /\ external' = Append(external, [key |-> <<block.name>>, source |-> block.source, version |-> block.version])
  /\ UNCHANGED <<in, pc, root, local, roundVars, disk, laid, manifest, failure>>

TakeExternal ==
  /\ Walking /\ block.kind = "external"
  /\ stack' = Advanced
  /\ external' = Append(external, [key |-> ThisKey, source |-> block.source, version |-> block.version])
  /\ UNCHANGED <<in, pc, root, local, roundVars, disk, laid, manifest, failure>>

\* The directory a local block names, of the same package.
childDir == [Frame.dir EXCEPT !.sub = block.to]

LocalRecord == [key |-> ThisKey, dir |-> childDir, dep |-> 0, spelled |-> "path"]

EnterLocal ==
  /\ Walking /\ block.kind = "local"
  /\ ~OnPath(childDir) /\ Readable(childDir)
  /\ local' = Append(local, LocalRecord)
  /\ stack' = Append(Advanced, [key |-> ThisKey, dir |-> childDir, todo |-> Blocks(childDir)])
  /\ UNCHANGED <<in, pc, root, external, roundVars, disk, laid, manifest, failure>>

\* A directory that reaches itself, or one that is not there.
FailLocal ==
  /\ Walking /\ block.kind = "local"
  /\ OnPath(childDir) \/ ~Readable(childDir)
  /\ local' = Append(local, LocalRecord)
  /\ Fail(IF OnPath(childDir) THEN "local_cycle" ELSE "unreadable")
  /\ UNCHANGED <<in, root, stack, external, roundVars, disk, laid, manifest>>

Return ==
  /\ pc = "walk" /\ Len(stack) > 1 /\ Frame.todo = <<>>
  /\ stack' = Front(stack)
  /\ UNCHANGED <<in, pc, root, external, local, roundVars, disk, laid, manifest, failure>>

\* A reference to a source that is on the path to this root.
ReachesItself == \E n \in 1..Len(external) :
                   normalizeModuleSource(external[n].source) \in roots[root].sources

WalkEnded == pc = "walk" /\ Len(stack) = 1 /\ Frame.todo = <<>>

\* (Mutant of CollectRefs: the sources on the path are never compared.)
CollectRefsUnchecked ==
  /\ WalkEnded /\ Len(roots[root].prefix) < 12
  /\ refs' = refs \o [n \in 1..Len(external) |-> [ref |-> external[n], root |-> root]]
  /\ stack' = <<>>
  /\ pc' = IF root = Len(roots) THEN "install" ELSE "walk"
  /\ UNCHANGED <<in, root, external, local, roots, records, installed, disk, laid, manifest, failure>>

\* The walk's references join those of the round; after the last root they
\* are installed.
CollectRefs ==
  /\ WalkEnded /\ ~ReachesItself
  /\ refs' = refs \o [n \in 1..Len(external) |-> [ref |-> external[n], root |-> root]]
  /\ stack' = <<>>
  /\ pc' = IF root = Len(roots) THEN "install" ELSE "walk"
  /\ UNCHANGED <<in, root, external, local, roots, records, installed, disk, laid, manifest, failure>>

FailExternalCycle ==
  /\ WalkEnded /\ ReachesItself
  /\ Fail("external_cycle")
  /\ UNCHANGED <<in, walkVars, roundVars, disk, laid, manifest>>

Installing == pc = "install" /\ Len(records) < Len(refs)

ref == refs[Len(records) + 1].ref

(***************************************************************************)
(* A package is copied over whatever lies under its key, and nothing is      *)
(* removed.  The files of a directory that both packages have are taken to   *)
(* be all of the same names, and replaced, or all of other names, and come   *)
(* before or after those that were there.                                    *)
(***************************************************************************)
Overlaid(old, new, how) ==
  [d \in DOMAIN old \cup DOMAIN new |->
     IF d \notin DOMAIN new THEN old[d]
     ELSE IF d \notin DOMAIN old \/ how[d] = "replaced" THEN new[d]
     ELSE IF how[d] = "before" THEN new[d] \o old[d] ELSE old[d] \o new[d]]

copyManifestAll(key, d) ==
  LET new == in.deps[d].files
  IN  IF key \notin DOMAIN laid THEN {new}
      ELSE {Overlaid(laid[key], new, how) :
              how \in [DOMAIN laid[key] \cap DOMAIN new -> {"replaced", "before", "after"}]}

\* (Mutant of Install: the module's directory is the package's first.)
InstallAtTop(d) ==
  /\ Installing
  /\ matchExternal(ref) = {d}
  /\ disk' = [k \in DOMAIN disk \cup {ref.key} |-> IF k = ref.key THEN d ELSE disk[k]]
  /\ \E p \in copyManifestAll(ref.key, d) :
       laid' = [k \in DOMAIN laid \cup {ref.key} |-> IF k = ref.key THEN p ELSE laid[k]]
  /\ records' = Append(records, [key |-> ref.key, dir |-> At(ref.key, Top),
                                 dep |-> d, spelled |-> in.deps[d].source.spelled])
  /\ UNCHANGED <<in, pc, roots, refs, installed, walkVars, manifest, failure>>

\* The whole package is copied under the key; the module is its Subdir.  A key
\* the round has twice is copied to twice.
Install(d) ==
  /\ Installing
  /\ matchExternal(ref) = {d}
  /\ disk' = [k \in DOMAIN disk \cup {ref.key} |-> IF k = ref.key THEN d ELSE disk[k]]
  /\ \E p \in copyManifestAll(ref.key, d) :
       laid' = [k \in DOMAIN laid \cup {ref.key} |-> IF k = ref.key THEN p ELSE laid[k]]
  /\ records' = Append(records, [key |-> ref.key, dir |-> At(ref.key, in.deps[d].subdir),
                                 dep |-> d, spelled |-> in.deps[d].source.spelled])
  /\ UNCHANGED <<in, pc, roots, refs, installed, walkVars, manifest, failure>>

FailUnsupplied ==
  /\ Installing
  /\ matchExternal(ref) = {}
  /\ Fail(IF Candidates(ref) = {} THEN "no_dep" ELSE "no_version")
  /\ UNCHANGED <<in, walkVars, roundVars, disk, laid, manifest>>

\* (Mutant of NextRound: the count of walked roots is not reset.)
NextRoundOn ==
  /\ pc = "install" /\ Len(records) = Len(refs)
  /\ roots' = [n \in 1..Len(refs) |->
                 [prefix |-> refs[n].ref.key, dir |-> records[n].dir,
                  sources |-> roots[refs[n].root].sources \cup {normalizeModuleSource(refs[n].ref.source)}]]
  /\ installed' = installed \o records
  /\ refs' = <<>> /\ records' = <<>>
  /\ pc' = IF refs = <<>> THEN "write" ELSE "walk"
  /\ UNCHANGED <<in, root, stack, external, local, disk, laid, manifest, failure>>

\* The modules just installed are the roots of the next round.
NextRound ==
  /\ pc = "install" /\ Len(records) = Len(refs)
  /\ roots' = [n \in 1..Len(refs) |->
                 [prefix |-> refs[n].ref.key, dir |-> records[n].dir,
                  sources |-> roots[refs[n].root].sources \cup {normalizeModuleSource(refs[n].ref.source)}]]
  /\ installed' = installed \o records
  /\ root' = 0 /\ refs' = <<>> /\ records' = <<>>
  /\ pc' = IF refs = <<>> THEN "write" ELSE "walk"
  /\ UNCHANGED <<in, stack, external, local, disk, laid, manifest, failure>>

RootRecord == [key |-> <<>>, dir |-> InTree(Top), dep |-> 0, spelled |-> "path"]

\* No manifest is written for a tree without child modules.
Write ==
  /\ pc = "write"
  /\ manifest' = IF local = <<>> /\ installed = <<>> THEN {}
                 ELSE {RootRecord} \cup ToSet(installed) \cup ToSet(local)
  /\ pc' = "done"
  /\ UNCHANGED <<in, walkVars, roundVars, disk, laid, failure>>

Exited == pc \in {"done", "exited"} /\ UNCHANGED vars

Next ==
  \/ BeginWalk \/ FailUnreadableRoot
  \/ SkipNoSource \/ TakeExternal \/ EnterLocal \/ FailLocal \/ Return
  \/ CollectRefs \/ FailExternalCycle
  \/ \E d \in DOMAIN in.deps : Install(d)
  \/ FailUnsupplied \/ NextRound \/ Write
  \/ Exited

Spec == Init /\ [][Next]_vars

\* One sequential process.
FairSpec == Spec /\ WF_vars(Next)

-------------------------------------------------------------------------------
(***************************************************************************)
(* Properties                                                               *)
(***************************************************************************)
Key == Seq(Name)
Dir == [under : Key, sub : Sub]

Record == [key : Key, dir : Dir, dep : {0} \cup DOMAIN in.deps, spelled : {"path", "bare", "host"}]

TypeOK ==
  /\ pc \in {"walk", "install", "write", "done", "exited"}
  /\ root \in 0..Len(roots)
  /\ roots \in Seq([prefix : Key, dir : Dir, sources : SUBSET SourceName])
  /\ stack \in Seq([key : Key, dir : Dir, todo : Seq(Block)])
  /\ \A n \in 1..Len(refs) : refs[n].ref.key \in Key /\ refs[n].root \in 1..Len(roots)
  /\ records \in Seq(Record) /\ installed \in Seq(Record) /\ local \in Seq(Record)
  /\ DOMAIN disk \subseteq Key /\ \A k \in DOMAIN disk : disk[k] \in DOMAIN in.deps
  /\ DOMAIN laid = DOMAIN disk /\ \A k \in DOMAIN laid : IsPackage(laid[k])
  /\ failure \in {"none", "unreadable", "local_cycle", "external_cycle", "no_dep", "no_version"}

All == local \o installed \o records

(***************************************************************************)
(* No directory of the staged package or of a dep's names two blocks with a  *)
(* source alike.  An override file that repeats a block's source, or a .tofu *)
(* file beside its .tf namesake, is such a directory: the code then gives    *)
(* two records one key and copies one package over the other, and the        *)
(* properties below do not speak of what comes of it.                        *)
(***************************************************************************)
NamesApart(p) ==
  \A d \in DOMAIN p : \A m, n \in 1..Len(p[d]) :
    p[d][m].kind # "none" /\ p[d][n].kind # "none" /\ p[d][m].name = p[d][n].name => m = n

NamesDistinct == NamesApart(in.tree) /\ \A d \in DOMAIN in.deps : NamesApart(in.deps[d].files)

(***************************************************************************)
(* Where the block names of each directory are distinct, no two modules get  *)
(* one key, whatever rounds and packages they come from, and so nothing is   *)
(* installed on top of another module (init.go:868): names that repeat from  *)
(* directory to directory, package to package and round to round never meet. *)
(***************************************************************************)
KeysUnique ==
  NamesDistinct => \A m, n \in 1..Len(All) : All[m].key = All[n].key => m = n

\* The dep is the highest that satisfies the block's constraint, or else the
\* only one that has its source (init.go:901-936).
Honours(d, b) ==
  LET admitted == {e \in Candidates(b) : in.deps[e].version \in b.version \ {NoVersion}}
  IN  /\ d \in Candidates(b)
      /\ IF admitted = {} THEN Candidates(b) = {d}
         ELSE d \in admitted /\ \A e \in admitted : in.deps[e].version <= in.deps[d].version

\* The record is what the block of that directory calls for.
Answers(record, b, dir) ==
  CASE b.kind = "none"     -> FALSE
    [] b.kind = "local"    -> record.dep = 0 /\ record.dir = [dir EXCEPT !.sub = b.to]
    [] b.kind = "external" ->
         /\ record.dep # 0 /\ Honours(record.dep, b)
         /\ record.dir = At(record.key, in.deps[record.dep].subdir)
         /\ disk[record.key] = record.dep /\ laid[record.key] = in.deps[record.dep].files

Calls(parent, child) ==
  \E n \in 1..Len(Blocks(parent.dir)) :
    LET b == Blocks(parent.dir)[n]
    IN  child.key = Append(parent.key, b.name) /\ Answers(child, b, parent.dir)

Modules == manifest \cup {RootRecord}

(***************************************************************************)
(* A manifest that was written is the module tree the engine will look for: *)
(* every block of every module in it has its record, under the key that     *)
(* reaches it and at the directory that answers it, in the version it asks  *)
(* for and with that package's files alone, however many rounds of           *)
(* installing it took (init.go:737-804).  (For distinct block names.)        *)
(***************************************************************************)
ManifestComplete ==
  NamesDistinct /\ pc = "done" =>
    \A parent \in Modules :
      /\ Readable(parent.dir)
      /\ \A n \in 1..Len(Blocks(parent.dir)) :
           Blocks(parent.dir)[n].kind # "none" =>
             \E child \in manifest :
               /\ child.key = Append(parent.key, Blocks(parent.dir)[n].name)
               /\ Answers(child, Blocks(parent.dir)[n], parent.dir)

(***************************************************************************)
(* And nothing else: each record but the root's is called for by a block of *)
(* the module its key names as its parent.  (For distinct block names.)     *)
(***************************************************************************)
ManifestGrounded ==
  NamesDistinct => \A child \in manifest \ {RootRecord} : \E parent \in Modules : Calls(parent, child)

(***************************************************************************)
(* A module that reaches itself is refused before it is copied: below an    *)
(* installed module there is never a second copy of it, however it is       *)
(* spelled (init.go:766-778).  (For distinct block names.)                  *)
(***************************************************************************)
NoSpuriousCopy ==
  NamesDistinct => \A k, l \in DOMAIN disk :
    IsStrictPrefix(k, l) =>
      normalizeModuleSource(in.deps[disk[k]].source) # normalizeModuleSource(in.deps[disk[l]].source)

(***************************************************************************)
(* The rounds end, with a manifest or an error (init.go:641-645, 727-730). *)
(***************************************************************************)
Terminates == <>(pc \in {"done", "exited"})

===============================================================================
