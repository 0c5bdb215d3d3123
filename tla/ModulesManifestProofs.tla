------------------------ MODULE ModulesManifestProofs ------------------------
(***************************************************************************)
(* Proofs about ModulesManifest, for all packages, blocks, deps and rounds, *)
(* and, from "The order of versions" on, about VersionChoice, for every     *)
(* list and constraint: the order and the constraints a block's version is  *)
(* matched by, and the choice among those a registry lists.                 *)
(***************************************************************************)
EXTENDS ModulesManifest, VersionChoice, WellFoundedInduction, TLAPS

-------------------------------------------------------------------------------
(***************************************************************************)
(* Types                                                                    *)
(***************************************************************************)
Ref  == [key : Key \ {<<>>}, source : Source, version : SUBSET Nat]
Root == [prefix : Key, dir : Dir, sources : SUBSET SourceName]
Call == [key : Key, dir : Dir, todo : Seq(Block)]
Pending == [ref : Ref, root : Nat]

\* A directory is in the staged package or in one that is on the disk.
There(dir) == dir.under = <<>> \/ dir.under \in DOMAIN disk

InInv == /\ in \in Inputs
         /\ pc \in {"walk", "install", "write", "done", "exited"}
         /\ failure \in {"none", "unreadable", "local_cycle", "external_cycle", "no_dep", "no_version"}

DiskInv == /\ DOMAIN disk \subseteq Key /\ \A k \in DOMAIN disk : disk[k] \in DOMAIN in.deps
           /\ DOMAIN laid = DOMAIN disk /\ \A k \in DOMAIN laid : IsPackage(laid[k])

RootsInv == /\ roots \in Seq(Root) /\ root \in 0..Len(roots)
            /\ \A n \in 1..Len(roots) : There(roots[n].dir)

StackInv == /\ stack \in Seq(Call) /\ external \in Seq(Ref)
            /\ stack # <<>> => pc \in {"walk", "exited"} /\ root # 0
            /\ \A i \in 1..Len(stack) : There(stack[i].dir)

RefsInv == /\ refs \in Seq(Pending)
           /\ \A n \in 1..Len(refs) : refs[n].root \in 1..Len(roots)

RecordsInv == /\ records \in Seq(Record) /\ installed \in Seq(Record) /\ local \in Seq(Record)
              /\ Len(records) <= Len(refs)
              /\ \A n \in 1..Len(records) : There(records[n].dir)

TypeInv == InInv /\ DiskInv /\ RootsInv /\ StackInv /\ RefsInv /\ RecordsInv

LEMMA TypeInvTypeOK == TypeInv => TypeOK
<1> SUFFICES ASSUME TypeInv PROVE TypeOK
  OBVIOUS
<1>1. \A n \in 1..Len(refs) : refs[n].ref.key \in Key /\ refs[n].root \in 1..Len(roots)
  <2> SUFFICES ASSUME NEW n \in 1..Len(refs) PROVE refs[n].ref.key \in Key
    BY DEF TypeInv, RefsInv
  <2>1. refs[n] \in Pending
    BY DEF TypeInv, RefsInv
  <2> QED BY <2>1 DEF Pending, Ref
<1> QED BY <1>1 DEF TypeInv, InInv, DiskInv, RootsInv, StackInv, RecordsInv, TypeOK, Root, Call

\* What is read from a directory that is there.
LEMMA BlocksType ==
  ASSUME TypeInv, NEW dir \in Dir, There(dir), Readable(dir)
  PROVE  Blocks(dir) \in Seq(Block)
<1>1. IsPackage(Package(dir))
  BY InputsAssumption DEF TypeInv, InInv, DiskInv, There, Package
<1> QED BY <1>1 DEF Readable, Blocks, IsPackage

LEMMA InitType == Init => TypeInv
<1> SUFFICES ASSUME Init PROVE TypeInv
  OBVIOUS
<1>1. in \in Inputs /\ Top \in Sub
  BY InputsAssumption DEF Init, IsPackage
<1>2. <<>> \in Key /\ InTree(Top) \in Dir /\ There(InTree(Top))
  BY <1>1 DEF Key, Dir, InTree, There
<1>3. [prefix |-> <<>>, dir |-> InTree(Top), sources |-> {}] \in Root
  BY <1>2 DEF Root
<1>4. RootsInv
  BY <1>2, <1>3 DEF Init, RootsInv
<1>5. InInv /\ DiskInv /\ StackInv /\ RefsInv /\ RecordsInv
  BY <1>1 DEF Init, InInv, DiskInv, StackInv, RefsInv, RecordsInv
<1> QED BY <1>4, <1>5 DEF TypeInv

-------------------------------------------------------------------------------
\* The top frame, its first block, and the stack without that block.
LEMMA TopType ==
  ASSUME TypeInv, Walking
  PROVE  /\ Len(stack) \in 1..Len(stack)
         /\ Frame \in Call /\ Frame.dir \in Dir /\ There(Frame.dir) /\ Frame.key \in Key
         /\ block \in Block /\ block.name \in Name
         /\ ThisKey \in Key
         /\ Advanced \in Seq(Call) /\ Len(Advanced) = Len(stack)
         /\ \A i \in 1..Len(stack) :
              /\ Advanced[i].key = stack[i].key /\ Advanced[i].dir = stack[i].dir
              /\ Advanced[i].todo = IF i = Len(stack) THEN Tail(stack[i].todo) ELSE stack[i].todo
<1>1. Len(stack) \in 1..Len(stack)
  BY DEF TypeInv, StackInv, Walking
<1>2. Frame \in Call /\ There(Frame.dir)
  BY <1>1 DEF TypeInv, StackInv, Frame
<1>3. Frame.dir \in Dir /\ Frame.key \in Key /\ Frame.todo \in Seq(Block) /\ Frame.todo # <<>>
  BY <1>2 DEF Call, Walking
<1>4. block \in Block
  BY <1>3 DEF block
<1>5. block.name \in Name
  BY <1>4 DEF Block
<1>6. ThisKey \in Key
  BY <1>3, <1>5 DEF ThisKey, Key
<1>7. [Frame EXCEPT !.todo = Tail(@)] \in Call
  BY <1>2, <1>3 DEF Call
<1>8. Advanced \in Seq(Call) /\ Len(Advanced) = Len(stack)
  BY <1>1, <1>7 DEF TypeInv, StackInv, Advanced, Frame
<1>9. \A i \in 1..Len(stack) : stack[i] \in Call
  BY DEF TypeInv, StackInv
<1>10. \A i \in 1..Len(stack) :
        /\ Advanced[i].key = stack[i].key /\ Advanced[i].dir = stack[i].dir
        /\ Advanced[i].todo = IF i = Len(stack) THEN Tail(stack[i].todo) ELSE stack[i].todo
  BY <1>1, <1>9 DEF TypeInv, StackInv, Advanced, Call
<1> QED BY <1>1, <1>2, <1>3, <1>4, <1>5, <1>6, <1>8, <1>10

-------------------------------------------------------------------------------
\* Where nothing is installed, what is there stays there.
LEMMA DiskSame == ASSUME UNCHANGED <<in, disk, laid>>
                  PROVE  Record' = Record /\ \A dir : There(dir)' <=> There(dir)
BY DEF Record, There

LEMMA StopType ==
  ASSUME TypeInv, NEW why, Fail(why), why \in {"unreadable", "local_cycle", "external_cycle", "no_dep", "no_version"},
         UNCHANGED <<in, root, stack, external, roundVars, disk, laid>>,
         local' \in Seq(Record)
  PROVE  TypeInv'
<1>1. Record' = Record /\ \A dir : There(dir)' <=> There(dir)
  BY DiskSame
<1>2. InInv' /\ DiskInv' /\ RootsInv' /\ RefsInv'
  BY <1>1 DEF TypeInv, InInv, DiskInv, RootsInv, RefsInv, Fail, roundVars
<1>3. StackInv' /\ RecordsInv'
  BY <1>1 DEF TypeInv, StackInv, RecordsInv, Fail, roundVars
<1> QED BY <1>2, <1>3 DEF TypeInv

LEMMA BeginWalkType == ASSUME TypeInv, BeginWalk PROVE TypeInv'
<1> DEFINE r == roots[root + 1]
<1>1. Record' = Record /\ \A dir : There(dir)' <=> There(dir)
  BY DiskSame DEF BeginWalk
<1>2. root + 1 \in 1..Len(roots) /\ r \in Root /\ There(r.dir)
  BY DEF TypeInv, RootsInv, BeginWalk
<1>3. r.prefix \in Key /\ r.dir \in Dir /\ Readable(r.dir)
  BY <1>2 DEF Root, BeginWalk
<1>4. Blocks(r.dir) \in Seq(Block)
  BY <1>2, <1>3, BlocksType
<1>5. [key |-> r.prefix, dir |-> r.dir, todo |-> Blocks(r.dir)] \in Call
  BY <1>3, <1>4 DEF Call
<1>6. stack' = <<[key |-> r.prefix, dir |-> r.dir, todo |-> Blocks(r.dir)]>>
  BY DEF BeginWalk
<1>7. StackInv'
  <2> HIDE DEF r
  <2>1. stack' \in Seq(Call) /\ Len(stack') = 1 /\ stack'[1].dir = r.dir
    BY <1>5, <1>6
  <2>2. external' = <<>> /\ pc' = "walk" /\ root' # 0
    BY DEF BeginWalk, TypeInv, RootsInv
  <2> QED BY <1>1, <1>2, <2>1, <2>2 DEF StackInv
<1>8. InInv' /\ DiskInv' /\ RootsInv' /\ RefsInv' /\ RecordsInv'
  BY <1>1, <1>2 DEF BeginWalk, roundVars, TypeInv, InInv, DiskInv, RootsInv, RefsInv, RecordsInv
<1> QED BY <1>7, <1>8 DEF TypeInv

\* The first block of the top frame is dealt with, without a directory.
LEMMA DealType ==
  ASSUME TypeInv, Walking, stack' = Advanced, external' \in Seq(Ref),
         UNCHANGED <<in, pc, root, local, roundVars, disk, laid, failure>>
  PROVE  TypeInv'
<1>1. Record' = Record /\ \A dir : There(dir)' <=> There(dir)
  BY DiskSame
<1>2. StackInv'
  <2>1. stack' \in Seq(Call) /\ Len(stack') = Len(stack) /\ \A i \in 1..Len(stack) : stack'[i].dir = stack[i].dir
    BY TopType
  <2> QED BY <1>1, <2>1 DEF TypeInv, StackInv, Walking
<1>3. InInv' /\ DiskInv' /\ RootsInv' /\ RefsInv' /\ RecordsInv'
  BY <1>1 DEF roundVars, TypeInv, InInv, DiskInv, RootsInv, RefsInv, RecordsInv
<1> QED BY <1>2, <1>3 DEF TypeInv

LEMMA LocalType ==
  ASSUME TypeInv, Walking, block.kind = "local"
  PROVE  childDir \in Dir /\ There(childDir) /\ LocalRecord \in Record
<1>1. block.to \in Sub
  BY TopType DEF Block
<1>2. childDir \in Dir /\ childDir.under = Frame.dir.under
  BY <1>1, TopType DEF Dir, childDir
<1>3. There(childDir)
  BY <1>2, TopType DEF There
<1>4. LocalRecord \in Record
  BY <1>2, TopType DEF LocalRecord, Record
<1> QED BY <1>2, <1>3, <1>4

LEMMA EnterType == ASSUME TypeInv, EnterLocal PROVE TypeInv'
<1> DEFINE new == [key |-> ThisKey, dir |-> childDir, todo |-> Blocks(childDir)]
<1>1. Record' = Record /\ \A dir : There(dir)' <=> There(dir)
  BY DiskSame DEF EnterLocal
<1>2. Walking /\ block.kind = "local" /\ Readable(childDir) /\ stack' = Append(Advanced, new)
  BY DEF EnterLocal
<1>3. childDir \in Dir /\ There(childDir) /\ LocalRecord \in Record
  BY <1>2, LocalType
<1>4. Blocks(childDir) \in Seq(Block)
  BY <1>2, <1>3, BlocksType
<1>5. new \in Call /\ new.dir = childDir /\ new.todo = Blocks(childDir)
  BY <1>2, <1>3, <1>4, TopType DEF Call
<1>6. /\ stack' \in Seq(Call) /\ Len(stack') = Len(stack) + 1 /\ stack'[Len(stack) + 1] = new
      /\ \A i \in 1..Len(stack) : stack'[i] = Advanced[i]
  <2> HIDE DEF new
  <2> QED BY <1>2, <1>5, TopType
<1> HIDE DEF new
<1>7. StackInv'
  <2>1. \A i \in 1..Len(stack') : There(stack'[i].dir)
    <3> TAKE i \in 1..Len(stack')
    <3>1. CASE i \in 1..Len(stack)
      BY <3>1, <1>2, <1>6, TopType DEF TypeInv, StackInv
    <3>2. CASE i = Len(stack) + 1
      BY <3>2, <1>3, <1>5, <1>6
    <3> QED BY <3>1, <3>2, <1>2, <1>6, TopType
  <2> QED BY <1>1, <1>2, <1>6, <2>1 DEF EnterLocal, TypeInv, StackInv, Walking
<1>8. RecordsInv'
  BY <1>1, <1>3 DEF EnterLocal, roundVars, TypeInv, RecordsInv
<1>9. InInv' /\ DiskInv' /\ RootsInv' /\ RefsInv'
  BY <1>1 DEF EnterLocal, roundVars, TypeInv, InInv, DiskInv, RootsInv, RefsInv
<1> QED BY <1>7, <1>8, <1>9 DEF TypeInv

LEMMA ReturnStack ==
  ASSUME TypeInv, Return
  PROVE  /\ stack' \in Seq(Call) /\ Len(stack') = Len(stack) - 1 /\ Len(stack) \in Nat \ {0, 1}
         /\ \A i \in 1..Len(stack') : i \in 1..Len(stack) /\ stack'[i] = stack[i]
<1>1. stack \in Seq(Call) /\ Len(stack) > 1 /\ stack' = SubSeq(stack, 1, Len(stack) - 1)
  BY DEF TypeInv, StackInv, Return, Front
<1> QED BY <1>1

LEMMA ReturnType == ASSUME TypeInv, Return PROVE TypeInv'
<1>1. Record' = Record /\ \A dir : There(dir)' <=> There(dir)
  BY DiskSame DEF Return
<1>2. StackInv'
  BY <1>1, ReturnStack DEF Return, TypeInv, StackInv
<1>3. InInv' /\ DiskInv' /\ RootsInv' /\ RefsInv' /\ RecordsInv'
  BY <1>1 DEF Return, roundVars, TypeInv, InInv, DiskInv, RootsInv, RefsInv, RecordsInv
<1> QED BY <1>2, <1>3 DEF TypeInv

LEMMA Joined ==
  ASSUME NEW S, NEW s \in Seq(S), NEW t \in Seq(S)
  PROVE  /\ s \o t \in Seq(S) /\ Len(s \o t) = Len(s) + Len(t)
         /\ \A n \in 1..Len(s) : (s \o t)[n] = s[n]
         /\ \A n \in 1..Len(t) : (s \o t)[Len(s) + n] = t[n]
OBVIOUS

\* What the walk of a root found joins the references of the round.
LEMMA CollectedRefs ==
  ASSUME TypeInv, CollectRefs
  PROVE  /\ refs' \in Seq(Pending) /\ Len(refs') = Len(refs) + Len(external)
         /\ root \in 1..Len(roots)
         /\ \A n \in 1..Len(refs) : refs'[n] = refs[n]
         /\ \A n \in 1..Len(external) : refs'[Len(refs) + n] = [ref |-> external[n], root |-> root]
<1> DEFINE new == [n \in 1..Len(external) |-> [ref |-> external[n], root |-> root]]
<1>1. root \in 1..Len(roots) /\ external \in Seq(Ref) /\ refs \in Seq(Pending)
  <2>1. stack # <<>>
    BY DEF CollectRefs, WalkEnded
  <2>2. root \in 0..Len(roots) /\ root # 0 /\ Len(roots) \in Nat
    BY <2>1 DEF TypeInv, StackInv, RootsInv
  <2> QED BY <2>2 DEF TypeInv, StackInv, RefsInv
<1>2. \A n \in 1..Len(external) : [ref |-> external[n], root |-> root] \in Pending
  BY <1>1 DEF Pending
<1>3. new \in Seq(Pending) /\ Len(new) = Len(external)
  BY <1>1, <1>2
<1>4. \A n \in 1..Len(external) : new[n] = [ref |-> external[n], root |-> root]
  OBVIOUS
<1>5. refs' = refs \o new
  BY DEF CollectRefs
<1> HIDE DEF new
<1>6. refs' \in Seq(Pending) /\ Len(refs') = Len(refs) + Len(external)
  <2>1. refs \in Seq(Pending) /\ new \in Seq(Pending)
    BY <1>1, <1>3
  <2>2. refs \o new \in Seq(Pending) /\ Len(refs \o new) = Len(refs) + Len(new)
    BY <2>1, Joined
  <2> QED BY <1>3, <1>5, <2>2
<1>7. \A n \in 1..Len(refs) : refs'[n] = refs[n]
  BY <1>1, <1>3, <1>5, Joined
<1>8. \A n \in 1..Len(external) : refs'[Len(refs) + n] = new[n]
  BY <1>1, <1>3, <1>5, Joined
<1> QED BY <1>1, <1>4, <1>6, <1>7, <1>8

LEMMA CollectRefsType == ASSUME TypeInv, CollectRefs PROVE TypeInv'
<1>1. Record' = Record /\ \A dir : There(dir)' <=> There(dir)
  BY DiskSame DEF CollectRefs
<1>2. RefsInv'
  <2>1. \A n \in 1..Len(refs') : refs'[n].root \in 1..Len(roots)
    <3> TAKE n \in 1..Len(refs')
    <3>1. CASE n \in 1..Len(refs)
      BY <3>1, CollectedRefs DEF TypeInv, RefsInv
    <3>2. CASE n \notin 1..Len(refs)
      <4>1. n - Len(refs) \in 1..Len(external) /\ n = Len(refs) + (n - Len(refs))
        BY <3>2, CollectedRefs DEF TypeInv, RefsInv, StackInv
      <4>2. refs'[n] = [ref |-> external[n - Len(refs)], root |-> root]
        BY <4>1, CollectedRefs
      <4> QED BY <4>2, CollectedRefs
    <3> QED BY <3>1, <3>2
  <2> QED BY <2>1, CollectedRefs DEF RefsInv, CollectRefs
<1>3. RecordsInv'
  BY <1>1, CollectedRefs DEF CollectRefs, TypeInv, RecordsInv, RefsInv, StackInv
<1>4. StackInv'
  BY DEF CollectRefs, TypeInv, StackInv
<1>5. InInv' /\ DiskInv' /\ RootsInv'
  BY <1>1 DEF CollectRefs, TypeInv, InInv, DiskInv, RootsInv
<1> QED BY <1>2, <1>3, <1>4, <1>5 DEF TypeInv

\* The reference whose turn it is.
LEMMA RefType ==
  ASSUME TypeInv, Installing
  PROVE  /\ Len(records) + 1 \in 1..Len(refs)
         /\ ref \in Ref /\ ref.key \in Key /\ ref.source \in Source
<1>1. Len(records) + 1 \in 1..Len(refs)
  BY DEF TypeInv, RecordsInv, RefsInv, Installing
<1>2. refs[Len(records) + 1] \in Pending
  BY <1>1 DEF TypeInv, RefsInv
<1> QED BY <1>1, <1>2 DEF Pending, Ref, ref

\* What a copy leaves under a key is a package.
LEMMA CopiedType ==
  ASSUME TypeInv, NEW key, NEW d \in DOMAIN in.deps, NEW p \in copyManifestAll(key, d)
  PROVE  IsPackage(p)
<1> DEFINE new == in.deps[d].files
<1>1. IsPackage(new)
  BY InputsAssumption DEF TypeInv, InInv, IsDep
<1>2. CASE key \notin DOMAIN laid
  BY <1>1, <1>2 DEF copyManifestAll
<1>3. CASE key \in DOMAIN laid
  <2> PICK old : old = laid[key]
    OBVIOUS
  <2>1. IsPackage(old)
    BY <1>3 DEF TypeInv, DiskInv
  <2>2. PICK how : p = Overlaid(old, new, how)
    BY <1>3 DEF copyManifestAll
  <2> HIDE DEF new
  <2>3. DOMAIN p = DOMAIN old \cup DOMAIN new
    BY <2>2 DEF Overlaid
  <2>4. ASSUME NEW e \in DOMAIN p PROVE p[e] \in Seq(Block)
    <3>1. /\ e \in DOMAIN old => old[e] \in Seq(Block)
          /\ e \in DOMAIN new => new[e] \in Seq(Block)
      BY <1>1, <2>1 DEF IsPackage
    <3>2. CASE e \in DOMAIN old /\ e \in DOMAIN new
      <4>1. p[e] \in {new[e], new[e] \o old[e], old[e] \o new[e]}
        BY <2>2, <3>2 DEF Overlaid
      <4>2. new[e] \o old[e] \in Seq(Block) /\ old[e] \o new[e] \in Seq(Block)
        BY <3>1, <3>2, Joined
      <4> QED BY <3>1, <3>2, <4>1, <4>2
    <3>3. CASE e \notin DOMAIN old \/ e \notin DOMAIN new
      <4>1. p[e] = IF e \in DOMAIN new THEN new[e] ELSE old[e]
        BY <2>2, <2>3, <3>3 DEF Overlaid
      <4> QED BY <2>3, <3>1, <3>3, <4>1
    <3> QED BY <3>2, <3>3
  <2> QED BY <1>1, <2>1, <2>3, <2>4 DEF IsPackage
<1> QED BY <1>2, <1>3

LEMMA InstallType == ASSUME TypeInv, NEW d \in DOMAIN in.deps, Install(d) PROVE TypeInv'
<1> DEFINE new == [key |-> ref.key, dir |-> At(ref.key, in.deps[d].subdir), dep |-> d,
                   spelled |-> in.deps[d].source.spelled]
<1>1. IsDep(in.deps[d])
  BY InputsAssumption DEF TypeInv, InInv
<1>2. ref.key \in Key /\ At(ref.key, in.deps[d].subdir) \in Dir /\ in.deps[d].source.spelled \in {"bare", "host"}
  BY <1>1, RefType DEF Install, IsDep, At, Dir, Source
<1>3. new \in Record /\ new.dir.under = ref.key
  BY <1>2 DEF Record, At
<1>4. Record' = Record /\ DOMAIN disk' = DOMAIN disk \cup {ref.key}
  BY DEF Install, Record
<1>5. \A dir : There(dir) => There(dir)'
  BY <1>4 DEF There
<1>6. DiskInv'
  <2>1. PICK p \in copyManifestAll(ref.key, d) :
          laid' = [k \in DOMAIN laid \cup {ref.key} |-> IF k = ref.key THEN p ELSE laid[k]]
    BY DEF Install
  <2>2. IsPackage(p)
    BY CopiedType
  <2>3. DOMAIN laid' = DOMAIN laid \cup {ref.key} /\ \A k \in DOMAIN laid' : IsPackage(laid'[k])
    BY <2>1, <2>2 DEF TypeInv, DiskInv
  <2>4. DOMAIN disk' \subseteq Key /\ \A k \in DOMAIN disk' : disk'[k] \in DOMAIN in'.deps
    BY <1>2 DEF Install, TypeInv, DiskInv
  <2> QED BY <1>4, <2>3, <2>4 DEF TypeInv, DiskInv
<1>7. RecordsInv'
  <2>1. records' = Append(records, new)
    BY DEF Install
  <2> HIDE DEF new
  <2>2. records' \in Seq(Record) /\ Len(records') <= Len(refs)
    BY <1>3, <2>1, RefType DEF Install, TypeInv, RecordsInv
  <2>3. \A n \in 1..Len(records') : There(records[n].dir)'
    <3> TAKE n \in 1..Len(records')
    <3>1. CASE n \in 1..Len(records)
      <4>1. records'[n] = records[n]
        BY <3>1, <2>1 DEF TypeInv, RecordsInv
      <4> QED BY <3>1, <4>1, <1>4 DEF TypeInv, RecordsInv, There
    <3>2. CASE n \notin 1..Len(records)
      <4>1. records'[n] = new
        BY <3>2, <2>1 DEF TypeInv, RecordsInv
      <4> QED BY <4>1, <1>3, <1>4 DEF There
    <3> QED BY <3>1, <3>2
  <2>4. UNCHANGED <<refs, installed, local>>
    BY DEF Install, walkVars
  <2> QED BY <1>4, <2>2, <2>3, <2>4 DEF TypeInv, RecordsInv
<1>8. RootsInv' /\ StackInv'
  BY <1>5 DEF Install, walkVars, TypeInv, RootsInv, StackInv
<1>9. InInv' /\ RefsInv'
  BY DEF Install, TypeInv, InInv, RefsInv
<1> QED BY <1>6, <1>7, <1>8, <1>9 DEF TypeInv

\* The roots of the next round are the modules of this one's records.
LEMMA NextRoots ==
  ASSUME TypeInv, NextRound
  PROVE  /\ roots' \in Seq(Root) /\ Len(roots') = Len(refs) /\ Len(refs) = Len(records)
         /\ \A n \in 1..Len(refs) :
              /\ roots'[n].prefix = refs[n].ref.key /\ roots'[n].dir = records[n].dir
              /\ roots'[n].sources = roots[refs[n].root].sources
                                       \cup {normalizeModuleSource(refs[n].ref.source)}
<1> DEFINE new(n) == [prefix |-> refs[n].ref.key, dir |-> records[n].dir,
                      sources |-> roots[refs[n].root].sources \cup {normalizeModuleSource(refs[n].ref.source)}]
<1>1. Len(records) = Len(refs) /\ roots' = [n \in 1..Len(refs) |-> new(n)] /\ Len(refs) \in Nat
  BY DEF NextRound, TypeInv, RefsInv
<1>2. ASSUME NEW n \in 1..Len(refs) PROVE new(n) \in Root
  <2>1. refs[n] \in Pending /\ refs[n].root \in 1..Len(roots)
    BY DEF TypeInv, RefsInv
  <2>2. refs[n].ref.key \in Key /\ normalizeModuleSource(refs[n].ref.source) \in SourceName
    BY <2>1 DEF Pending, Ref, Source, normalizeModuleSource
  <2>3. records[n] \in Record
    BY <1>1 DEF TypeInv, RecordsInv
  <2>4. records[n].dir \in Dir
    BY <2>3 DEF Record
  <2>5. roots[refs[n].root] \in Root
    BY <2>1 DEF TypeInv, RootsInv
  <2> QED BY <2>2, <2>4, <2>5 DEF Root
<1>3. roots' \in Seq(Root) /\ Len(roots') = Len(refs)
  BY <1>1, <1>2
<1>4. \A n \in 1..Len(refs) : roots'[n] = new(n)
  BY <1>1
<1> QED BY <1>1, <1>3, <1>4

LEMMA NextRoundType == ASSUME TypeInv, NextRound PROVE TypeInv'
<1>1. Record' = Record /\ \A dir : There(dir)' <=> There(dir)
  BY DiskSame DEF NextRound
<1>2. RootsInv'
  BY <1>1, NextRoots DEF NextRound, RootsInv, TypeInv, RecordsInv, RefsInv
<1>3. stack = <<>>
  BY DEF NextRound, TypeInv, StackInv
<1>4. StackInv'
  BY <1>3 DEF NextRound, TypeInv, StackInv
<1>5. RefsInv' /\ RecordsInv'
  BY <1>1 DEF NextRound, TypeInv, RefsInv, RecordsInv
<1>6. InInv' /\ DiskInv'
  BY DEF NextRound, TypeInv, InInv, DiskInv
<1> QED BY <1>2, <1>4, <1>5, <1>6 DEF TypeInv

LEMMA NextType == TypeInv /\ [Next]_vars => TypeInv'
<1> SUFFICES ASSUME TypeInv, [Next]_vars PROVE TypeInv'
  OBVIOUS
<1>1. CASE BeginWalk
  BY <1>1, BeginWalkType
<1>2. CASE FailUnreadableRoot \/ FailExternalCycle \/ FailUnsupplied
  <2>1. PICK why \in {"unreadable", "external_cycle", "no_dep", "no_version"} : Fail(why)
    BY <1>2 DEF FailUnreadableRoot, FailExternalCycle, FailUnsupplied
  <2>2. UNCHANGED <<in, root, stack, external, local, roundVars, disk, laid>>
    BY <1>2 DEF FailUnreadableRoot, FailExternalCycle, FailUnsupplied, walkVars
  <2> QED BY <2>1, <2>2, StopType DEF TypeInv, RecordsInv
<1>3. CASE SkipNoSource
  BY <1>3, DealType DEF SkipNoSource, TypeInv, StackInv
<1>4. CASE TakeExternal
  <2>1. Walking /\ block.kind = "external"
    BY <1>4 DEF TakeExternal
  <2>2. [key |-> ThisKey, source |-> block.source, version |-> block.version] \in Ref
    <3>1. ThisKey \in Key \ {<<>>}
      BY <2>1, TopType DEF ThisKey, Key
    <3> QED BY <2>1, <3>1, TopType DEF Ref, Block
  <2>3. external' \in Seq(Ref)
    BY <1>4, <2>2 DEF TakeExternal, TypeInv, StackInv
  <2> QED BY <1>4, <2>3, DealType DEF TakeExternal
<1>5. CASE EnterLocal
  BY <1>5, EnterType
<1>6. CASE FailLocal
  <2>1. PICK why \in {"local_cycle", "unreadable"} : Fail(why)
    BY <1>6 DEF FailLocal
  <2>2. local' \in Seq(Record)
    BY <1>6, LocalType DEF FailLocal, TypeInv, RecordsInv
  <2> QED BY <1>6, <2>1, <2>2, StopType DEF FailLocal
<1>7. CASE Return
  BY <1>7, ReturnType
<1>8. CASE CollectRefs
  BY <1>8, CollectRefsType
<1>9. CASE \E d \in DOMAIN in.deps : Install(d)
  BY <1>9, InstallType
<1>10. CASE NextRound
  BY <1>10, NextRoundType
<1>11. CASE Write \/ UNCHANGED vars
  <2>1. UNCHANGED <<in, walkVars, roundVars, disk, laid, failure>> /\ pc' \in {pc, "done"} /\ (pc' # pc => pc = "write")
    BY <1>11 DEF Write, vars, walkVars, roundVars
  <2>2. Record' = Record /\ \A dir : There(dir)' <=> There(dir)
    BY <2>1, DiskSame
  <2> QED BY <2>1, <2>2 DEF walkVars, roundVars, TypeInv, InInv, DiskInv, RootsInv, StackInv,
             RefsInv, RecordsInv
<1> QED BY <1>1, <1>2, <1>3, <1>4, <1>5, <1>6, <1>7, <1>8, <1>9, <1>10, <1>11 DEF Next, Exited

(***************************************************************************)
(* Whatever the packages call and the deps supply, the walk, its rounds and *)
(* what they record have the shapes generateModulesManifest gives them.     *)
(***************************************************************************)
THEOREM TypeCorrect == Spec => []TypeOK
<1>1. Init => TypeInv
  BY InitType
<1>2. TypeInv /\ [Next]_vars => TypeInv'
  BY NextType
<1>3. TypeInv => TypeOK
  BY TypeInvTypeOK
<1> QED BY <1>1, <1>2, <1>3, PTL DEF Spec

-------------------------------------------------------------------------------
(***************************************************************************)
(* Keys: one is below another if it begins with it.                         *)
(***************************************************************************)
Below(k, l) == Len(k) <= Len(l) /\ \A i \in 1..Len(k) : k[i] = l[i]
Apart(k, l) == ~Below(k, l) /\ ~Below(l, k)

LEMMA BelowItself == \A k \in Key : Below(k, k)
BY DEF Below, Key

LEMMA BelowTransitive ==
  ASSUME NEW j \in Key, NEW k \in Key, NEW l \in Key, Below(j, k), Below(k, l)
  PROVE  Below(j, l)
BY DEF Below, Key

LEMMA BelowEqual ==
  ASSUME NEW k \in Key, NEW l \in Key, Below(k, l), Len(l) <= Len(k)
  PROVE  k = l
BY DEF Below, Key

LEMMA BelowBoth ==
  ASSUME NEW j \in Key, NEW k \in Key, NEW l \in Key, Below(j, l), Below(k, l)
  PROVE  Below(j, k) \/ Below(k, j)
BY DEF Below, Key

LEMMA StaysApart ==
  ASSUME NEW j \in Key, NEW k \in Key, Apart(j, k),
         NEW l \in Key, NEW m \in Key, Below(j, l), Below(k, m)
  PROVE  Apart(l, m)
<1>1. ASSUME Below(l, m) PROVE FALSE
  <2>1. Below(j, m)
    BY <1>1, BelowTransitive
  <2> QED BY <2>1, BelowBoth DEF Apart
<1>2. ASSUME Below(m, l) PROVE FALSE
  <2>1. Below(k, l)
    BY <1>2, BelowTransitive
  <2> QED BY <2>1, BelowBoth DEF Apart
<1> QED BY <1>1, <1>2 DEF Apart

LEMMA Child ==
  ASSUME NEW k \in Key, NEW n \in Name
  PROVE  /\ Append(k, n) \in Key /\ Len(Append(k, n)) = Len(k) + 1 /\ Len(k) \in Nat
         /\ Below(k, Append(k, n)) /\ ~Below(Append(k, n), k)
BY DEF Below, Key

LEMMA ChildrenApart ==
  ASSUME NEW k \in Key, NEW m \in Name, NEW n \in Name, m # n
  PROVE  Apart(Append(k, m), Append(k, n))
<1>1. Append(k, m)[Len(k) + 1] = m /\ Append(k, n)[Len(k) + 1] = n
  BY DEF Key
<1>2. Len(k) + 1 \in 1..Len(Append(k, m)) /\ Len(k) + 1 \in 1..Len(Append(k, n))
  BY DEF Key
<1> QED BY <1>1, <1>2 DEF Below, Apart

LEMMA BelowChild ==
  ASSUME NEW j \in Key, NEW k \in Key, NEW n \in Name, Below(j, Append(k, n))
  PROVE  j = Append(k, n) \/ Below(j, k)
<1>1. CASE Len(j) = Len(k) + 1
  <2>1. Append(k, n) \in Key /\ Len(Append(k, n)) = Len(k) + 1
    BY Child
  <2>2. Len(Append(k, n)) <= Len(j)
    BY <1>1, <2>1 DEF Key
  <2> QED BY <2>1, <2>2, BelowEqual
<1>2. CASE Len(j) # Len(k) + 1
  <2>1. Len(j) <= Len(k)
    BY <1>2, Child DEF Below, Key
  <2>2. \A i \in 1..Len(k) : Append(k, n)[i] = k[i]
    BY DEF Key
  <2> QED BY <2>1, <2>2 DEF Below, Key
<1> QED BY <1>1, <1>2

LEMMA PrefixBelow ==
  ASSUME NEW k \in Key, NEW l \in Key, IsStrictPrefix(k, l)
  PROVE  Below(k, l) /\ k # l
<1>1. Len(k) <= Len(l) /\ SubSeq(k, 1, Len(k)) = SubSeq(l, 1, Len(k)) /\ k # l
  BY DEF IsStrictPrefix, IsPrefix
<1>2. \A i \in 1..Len(k) : SubSeq(k, 1, Len(k))[i] = k[i] /\ SubSeq(l, 1, Len(k))[i] = l[i]
  BY <1>1 DEF Key
<1> QED BY <1>1, <1>2 DEF Below

-------------------------------------------------------------------------------
(***************************************************************************)
(* What is still to be treated, each with the key under which it will be:   *)
(* the roots not walked yet, the blocks not read yet, the references this   *)
(* walk found and those of the round.  "own" is one that has its record.    *)
(***************************************************************************)
RootItem(n)     == [kind |-> "root", at |-> n, of |-> 0, key |-> roots[n].prefix, own |-> TRUE]
TodoItem(i, k, n) == [kind |-> "todo", at |-> i, of |-> n, key |-> Append(k, n), own |-> FALSE]
ExternalItem(n) == [kind |-> "external", at |-> n, of |-> 0, key |-> external[n].key, own |-> FALSE]
RefItem(n)      == [kind |-> "ref", at |-> n, of |-> 0, key |-> refs[n].ref.key, own |-> n <= Len(records)]

RootItems     == {RootItem(n) : n \in {m \in 1..Len(roots) : m > root}}
ToKeep(f)        == {j \in 1..Len(f.todo) : f.todo[j].kind # "none"}
FrameItems(i, f) == {TodoItem(i, f.key, f.todo[j].name) : j \in ToKeep(f)}
TodoItems     == UNION {FrameItems(i, stack[i]) : i \in 1..Len(stack)}
ExternalItems == {ExternalItem(n) : n \in {m \in 1..Len(external) : stack # <<>>}}
RefItems      == {RefItem(n) : n \in 1..Len(refs)}

Waiting == RootItems \cup TodoItems \cup ExternalItems \cup RefItems

TakenKeys == {All[t].key : t \in 1..Len(All)}

AllApart(W) == \A x, y \in W : x # y => Apart(x.key, y.key)

\* Nothing recorded is where something that waits will be, or below it.
FreeOf(W, T) == \A x \in W : \A t \in T : Below(x.key, t) => x.own /\ t = x.key

Keyed(W) == \A x \in W : x.key \in Key /\ x.own \in BOOLEAN

\* One that waits, a, makes way for others below it, while N is recorded.
MakesWay(W, T, a, B, N, V) ==
  /\ Keyed(W) /\ AllApart(W) /\ FreeOf(W, T) /\ T \subseteq Key
  /\ a \in W /\ Keyed(B) /\ AllApart(B)
  /\ N \subseteq {a.key}
  /\ \A b \in B : Below(a.key, b.key) /\ (b.key = a.key => b.own \/ (~a.own /\ N = {}))
  /\ V \subseteq (W \ {a}) \cup B

LEMMA Replaced ==
  ASSUME NEW W, NEW T, NEW a, NEW B, NEW N, NEW V, MakesWay(W, T, a, B, N, V)
  PROVE  Keyed(V) /\ AllApart(V) /\ FreeOf(V, T \cup N)
<1> USE DEF MakesWay
<1>1. Keyed(V)
  BY DEF Keyed
<1>2. AllApart(V)
  <2> SUFFICES ASSUME NEW x \in V, NEW y \in V, x # y PROVE Apart(x.key, y.key)
    BY DEF AllApart
  <2>1. CASE x \in W \ {a} /\ y \in W \ {a}
    BY <2>1 DEF AllApart
  <2>2. CASE x \in B /\ y \in B
    BY <2>2 DEF AllApart
  <2>3. CASE x \in W \ {a} /\ y \in B
    <3>1. Apart(x.key, a.key) /\ Below(x.key, x.key) /\ Below(a.key, y.key)
      BY <2>3, BelowItself DEF AllApart, Keyed
    <3> QED BY <2>3, <3>1, StaysApart DEF Keyed
  <2>4. CASE x \in B /\ y \in W \ {a}
    <3>1. Apart(a.key, y.key) /\ Below(y.key, y.key) /\ Below(a.key, x.key)
      BY <2>4, BelowItself DEF AllApart, Keyed
    <3> QED BY <2>4, <3>1, StaysApart DEF Keyed
  <2> QED BY <2>1, <2>2, <2>3, <2>4
<1>3. FreeOf(V, T \cup N)
  <2> SUFFICES ASSUME NEW x \in V, NEW t \in T \cup N, Below(x.key, t) PROVE x.own /\ t = x.key
    BY DEF FreeOf
  <2>1. CASE x \in W \ {a}
    BY <2>1 DEF FreeOf, AllApart, Apart
  <2>2. CASE x \in B /\ t \in T
    <3>1. Below(a.key, t)
      BY <2>2, BelowTransitive DEF Keyed
    <3>2. a.own /\ t = a.key
      BY <2>2, <3>1 DEF FreeOf
    <3>3. x.key = a.key
      BY <2>2, <3>2, BelowEqual DEF Keyed, Below, Key
    <3> QED BY <2>2, <3>2, <3>3
  <2>3. CASE x \in B /\ t \in N
    <3>1. t = a.key
      BY <2>3
    <3>2. x.key = a.key
      BY <2>3, <3>1, BelowEqual DEF Keyed, Below, Key
    <3> QED BY <2>3, <3>1, <3>2
  <2> QED BY <2>1, <2>2, <2>3
<1> QED BY <1>1, <1>2, <1>3

\* What waits is counted anew, under the same keys.
LEMMA Renamed ==
  ASSUME NEW W, NEW T, Keyed(W), AllApart(W), FreeOf(W, T), NEW V,
         \A x \in V : x.own \in BOOLEAN /\ \E u \in W : u.key = x.key /\ (u.own => x.own),
         \A x, y \in V : x # y => \E u, w \in W : u # w /\ u.key = x.key /\ w.key = y.key
  PROVE  Keyed(V) /\ AllApart(V) /\ FreeOf(V, T)
<1>1. Keyed(V)
  BY DEF Keyed
<1>2. AllApart(V)
  BY DEF AllApart
<1>3. FreeOf(V, T)
  BY DEF FreeOf
<1> QED BY <1>1, <1>2, <1>3

-------------------------------------------------------------------------------
(***************************************************************************)
(* The records, and the two places where one is added                       *)
(***************************************************************************)
Distinct(s) == \A m, n \in 1..Len(s) : s[m].key = s[n].key => m = n
KeysApart   == Distinct(All)
KeysOf(s)   == {s[n].key : n \in 1..Len(s)}

LEMMA AllType == ASSUME TypeInv PROVE All \in Seq(Record) /\ TakenKeys \subseteq Key
<1>1. All \in Seq(Record)
  BY Joined DEF TypeInv, RecordsInv, All
<1>2. \A t \in 1..Len(All) : All[t].key \in Key
  <2> TAKE t \in 1..Len(All)
  <2>1. All[t] \in Record
    BY <1>1
  <2> QED BY <2>1 DEF Record
<1> QED BY <1>1, <1>2 DEF TakenKeys

\* A record goes in front of the others or between them.
LEMMA Inserted ==
  ASSUME NEW S, NEW s \in Seq(S), NEW t \in Seq(S), NEW e \in S
  PROVE  /\ \A k : k \in KeysOf(Append(s, e) \o t) <=> k \in KeysOf(s \o t) \/ k = e.key
         /\ Distinct(s \o t) /\ e.key \notin KeysOf(s \o t) => Distinct(Append(s, e) \o t)
<1> DEFINE old == s \o t
           new == Append(s, e) \o t
           was(n) == IF n <= Len(s) THEN n ELSE n - 1
<1>1. /\ old \in Seq(S) /\ new \in Seq(S) /\ Len(new) = Len(old) + 1 /\ Len(s) \in Nat
      /\ Len(old) = Len(s) + Len(t) /\ Len(t) \in Nat
  OBVIOUS
<1>2. new[Len(s) + 1] = e
  OBVIOUS
<1>3. ASSUME NEW n \in 1..Len(new), n # Len(s) + 1
      PROVE  was(n) \in 1..Len(old) /\ new[n] = old[was(n)]
  BY <1>1, <1>3
<1>6. ASSUME NEW n \in 1..Len(old)
      PROVE  \E m \in 1..Len(new) : new[m] = old[n]
  <2>1. CASE n <= Len(s)
    <3>1. n \in 1..Len(new) /\ new[n] = old[n]
      BY <1>1, <2>1
    <3> QED BY <3>1
  <2>2. CASE n > Len(s)
    <3>1. n + 1 \in 1..Len(new) /\ new[n + 1] = old[n]
      BY <1>1, <2>2
    <3> QED BY <3>1
  <2> HIDE DEF old, new
  <2> QED BY <1>1, <2>1, <2>2
<1> HIDE DEF old, new
<1>4. KeysOf(new) = KeysOf(old) \cup {e.key}
  <2>1. KeysOf(new) \subseteq KeysOf(old) \cup {e.key}
    BY <1>1, <1>2, <1>3 DEF KeysOf
  <2>2. e.key \in KeysOf(new)
    <3>1. Len(s) + 1 \in 1..Len(new)
      BY <1>1
    <3> QED BY <1>2, <3>1 DEF KeysOf
  <2>3. KeysOf(old) \subseteq KeysOf(new)
    BY <1>6 DEF KeysOf
  <2> QED BY <2>1, <2>2, <2>3
<1>5. ASSUME Distinct(old), e.key \notin KeysOf(old) PROVE Distinct(new)
  <2> SUFFICES ASSUME NEW m \in 1..Len(new), NEW n \in 1..Len(new), new[m].key = new[n].key PROVE m = n
    BY DEF Distinct
  <2>1. CASE m # Len(s) + 1 /\ n # Len(s) + 1
    <3>1. was(m) = was(n)
      BY <2>1, <1>3, <1>5 DEF Distinct
    <3> QED BY <2>1, <3>1, <1>1
  <2>2. CASE m = Len(s) + 1 /\ n # Len(s) + 1
    BY <2>2, <1>2, <1>3, <1>5 DEF KeysOf
  <2>3. CASE m # Len(s) + 1 /\ n = Len(s) + 1
    BY <2>3, <1>2, <1>3, <1>5 DEF KeysOf
  <2> QED BY <2>1, <2>2, <2>3
<1> QED BY <1>4, <1>5 DEF old, new

LEMMA Regrouped ==
  ASSUME NEW S, NEW s \in Seq(S), NEW t \in Seq(S), NEW u \in Seq(S)
  PROVE  s \o t \o u = s \o (t \o u)
OBVIOUS

LEMMA LocalAdded ==
  ASSUME TypeInv, NEW e \in Record, local' = Append(local, e), UNCHANGED <<installed, records>>
  PROVE  /\ TakenKeys' = TakenKeys \cup {e.key}
         /\ KeysApart /\ e.key \notin TakenKeys => KeysApart'
<1>1. local \in Seq(Record) /\ installed \o records \in Seq(Record)
  BY Joined DEF TypeInv, RecordsInv
<1>2. All = local \o (installed \o records) /\ All' = Append(local, e) \o (installed \o records)
  <2>1. Append(local, e) \in Seq(Record) /\ installed \in Seq(Record) /\ records \in Seq(Record)
    BY <1>1 DEF TypeInv, RecordsInv
  <2>2. All' = Append(local, e) \o installed \o records
    BY DEF All
  <2>3. local \o installed \o records = local \o (installed \o records)
    BY <1>1, <2>1, Regrouped
  <2>4. Append(local, e) \o installed \o records = Append(local, e) \o (installed \o records)
    BY <2>1, Regrouped
  <2> QED BY <2>2, <2>3, <2>4 DEF All
<1>3. TakenKeys = KeysOf(All) /\ TakenKeys' = KeysOf(All')
  BY DEF TakenKeys, KeysOf
<1>4. (KeysApart <=> Distinct(All)) /\ (KeysApart' <=> Distinct(All'))
  BY DEF KeysApart
<1>5. KeysOf(All') = KeysOf(All) \cup {e.key}
  <2>1. \A k : k \in KeysOf(All') <=> k \in KeysOf(All) \/ k = e.key
    BY <1>1, <1>2, Inserted
  <2> QED BY <2>1
<1>6. Distinct(All) /\ e.key \notin KeysOf(All) => Distinct(All')
  BY <1>1, <1>2, Inserted
<1> QED BY <1>3, <1>4, <1>5, <1>6

LEMMA RecordAdded ==
  ASSUME TypeInv, NEW e \in Record, records' = Append(records, e), UNCHANGED <<installed, local>>
  PROVE  /\ TakenKeys' = TakenKeys \cup {e.key}
         /\ KeysApart /\ e.key \notin TakenKeys => KeysApart'
<1>1. All \in Seq(Record) /\ local \o installed \in Seq(Record)
  BY AllType, Joined DEF TypeInv, RecordsInv
<1>2. All' = Append(All, e)
  BY <1>1 DEF All, TypeInv, RecordsInv
<1>3. All = All \o <<>> /\ All' = Append(All, e) \o <<>> /\ <<>> \in Seq(Record)
  BY <1>1, <1>2
<1>4. TakenKeys = KeysOf(All) /\ TakenKeys' = KeysOf(All')
  BY DEF TakenKeys, KeysOf
<1>5. (KeysApart <=> Distinct(All)) /\ (KeysApart' <=> Distinct(All'))
  BY DEF KeysApart
<1>6. KeysOf(All') = KeysOf(All) \cup {e.key}
  <2>1. \A k : k \in KeysOf(Append(All, e) \o <<>>) <=> k \in KeysOf(All \o <<>>) \/ k = e.key
    BY <1>1, <1>3, Inserted
  <2> QED BY <1>3, <2>1
<1>7. Distinct(All) /\ e.key \notin KeysOf(All) => Distinct(All')
  <2>1. Distinct(All \o <<>>) /\ e.key \notin KeysOf(All \o <<>>) => Distinct(Append(All, e) \o <<>>)
    BY <1>1, <1>3, Inserted
  <2> QED BY <1>3, <2>1
<1> QED BY <1>4, <1>5, <1>6, <1>7

-------------------------------------------------------------------------------
(***************************************************************************)
(* Keys are unique: what waits is apart from all else that waits, and has   *)
(* no record.                                                               *)
(***************************************************************************)
WaitingInv == pc # "exited" => AllApart(Waiting) /\ FreeOf(Waiting, TakenKeys)

\* Blocks of one directory that need a key have different names.
NamesInv == \A i \in 1..Len(stack) : \A m, n \in ToKeep(stack[i]) :
              stack[i].todo[m].name = stack[i].todo[n].name => m = n

\* What lies under a key is the package that was copied there, and no other's.
LaidInv == /\ DOMAIN laid \subseteq TakenKeys
           /\ \A k \in DOMAIN laid : laid[k] = in.deps[disk[k]].files

Named == NamesDistinct /\ NamesInv /\ LaidInv

KeyInv == TypeInv /\ Named /\ WaitingInv /\ KeysApart

LEMMA FrameApart ==
  ASSUME NEW i, NEW f \in Call
  PROVE  /\ Keyed(FrameItems(i, f)) /\ AllApart(FrameItems(i, f))
         /\ \A x \in FrameItems(i, f) : Below(f.key, x.key) /\ x.key # f.key /\ ~x.own
<1>1. f.key \in Key /\ f.todo \in Seq(Block)
  BY DEF Call
<1>2. ASSUME NEW x \in FrameItems(i, f)
      PROVE  \E n \in Name : x = TodoItem(i, f.key, n)
  <2>1. PICK j \in 1..Len(f.todo) : x = TodoItem(i, f.key, f.todo[j].name)
    BY DEF FrameItems, ToKeep
  <2>2. f.todo[j] \in Block
    BY <1>1
  <2> QED BY <2>1, <2>2 DEF Block
<1>3. ASSUME NEW x \in FrameItems(i, f)
      PROVE  x.key \in Key /\ x.own = FALSE /\ Below(f.key, x.key) /\ x.key # f.key
  <2>1. PICK n \in Name : x = TodoItem(i, f.key, n)
    BY <1>2
  <2>2. x.key = Append(f.key, n) /\ x.own = FALSE
    BY <2>1 DEF TodoItem
  <2> QED BY <1>1, <2>2, Child, BelowItself
<1>4. ASSUME NEW x \in FrameItems(i, f), NEW y \in FrameItems(i, f), x # y PROVE Apart(x.key, y.key)
  <2>1. PICK m \in Name : x = TodoItem(i, f.key, m)
    BY <1>2
  <2>2. PICK n \in Name : y = TodoItem(i, f.key, n)
    BY <1>2
  <2>3. m # n
    BY <1>4, <2>1, <2>2
  <2>4. x.key = Append(f.key, m) /\ y.key = Append(f.key, n)
    BY <2>1, <2>2 DEF TodoItem
  <2> QED BY <1>1, <2>3, <2>4, ChildrenApart
<1> QED BY <1>3, <1>4 DEF Keyed, AllApart

LEMMA WaitingKeyed == TypeInv => Keyed(Waiting)
<1> SUFFICES ASSUME TypeInv, NEW x \in Waiting PROVE x.key \in Key /\ x.own \in BOOLEAN
  BY DEF Keyed
<1>1. CASE x \in RootItems
  <2>1. PICK n \in 1..Len(roots) : x = RootItem(n)
    BY <1>1 DEF RootItems
  <2>2. roots[n] \in Root
    BY DEF TypeInv, RootsInv
  <2> QED BY <2>1, <2>2 DEF RootItem, Root
<1>2. CASE x \in TodoItems
  <2>1. PICK i \in 1..Len(stack) : x \in FrameItems(i, stack[i])
    BY <1>2 DEF TodoItems
  <2>2. stack[i] \in Call
    BY DEF TypeInv, StackInv
  <2> QED BY <2>1, <2>2, FrameApart DEF Keyed
<1>3. CASE x \in ExternalItems
  <2>1. PICK n \in 1..Len(external) : x = ExternalItem(n)
    BY <1>3 DEF ExternalItems
  <2>2. external[n] \in Ref
    BY DEF TypeInv, StackInv
  <2> QED BY <2>1, <2>2 DEF ExternalItem, Ref
<1>4. CASE x \in RefItems
  <2>1. PICK n \in 1..Len(refs) : x = RefItem(n)
    BY <1>4 DEF RefItems
  <2>2. refs[n] \in Pending
    BY DEF TypeInv, RefsInv
  <2>3. x.key = refs[n].ref.key /\ x.own = (n <= Len(records))
    BY <2>1 DEF RefItem
  <2> QED BY <2>2, <2>3 DEF Pending, Ref
<1> QED BY <1>1, <1>2, <1>3, <1>4 DEF Waiting

LEMMA WaitingKeyedNext == TypeInv' => Keyed(Waiting)'
BY WaitingKeyed, PTL

\* The first block of the top frame.
First == TodoItem(Len(stack), Frame.key, block.name)

LEMMA Shrinks ==
  ASSUME TypeInv, Walking, NEW i \in 1..Len(stack), NEW x \in FrameItems(i, Advanced[i])
  PROVE  /\ x \in FrameItems(i, stack[i]) /\ x.at = i
         /\ i = Len(stack) => \E j \in ToKeep(Frame) : j # 1 /\ x.of = Frame.todo[j].name
<1>1. Len(stack) \in 1..Len(stack) /\ Frame.todo \in Seq(Block) /\ Frame.todo # <<>>
  BY TopType DEF Call, Walking
<1>2. CASE i # Len(stack)
  <2>1. Advanced[i].key = stack[i].key /\ Advanced[i].todo = stack[i].todo
    BY <1>2, TopType
  <2>2. x \in FrameItems(i, stack[i])
    BY <2>1 DEF FrameItems, ToKeep
  <2> QED BY <1>2, <2>2 DEF FrameItems, TodoItem
<1>3. CASE i = Len(stack)
  <2>1. Advanced[i].key = Frame.key /\ Advanced[i].todo = Tail(Frame.todo)
    BY <1>3, <1>1, TopType DEF Frame
  <2>2. PICK j \in 1..Len(Tail(Frame.todo)) :
          x = TodoItem(i, Frame.key, Tail(Frame.todo)[j].name) /\ Tail(Frame.todo)[j].kind # "none"
    BY <2>1 DEF FrameItems, ToKeep
  <2>3. j + 1 \in 1..Len(Frame.todo) /\ Tail(Frame.todo)[j] = Frame.todo[j + 1] /\ j + 1 # 1
    BY <1>1
  <2>4. j + 1 \in ToKeep(Frame) /\ x = TodoItem(i, Frame.key, Frame.todo[j + 1].name)
    BY <2>2, <2>3 DEF ToKeep
  <2>5. x \in FrameItems(i, stack[i])
    BY <1>3, <2>4 DEF FrameItems, Frame
  <2> QED BY <2>3, <2>4, <2>5 DEF TodoItem
<1> QED BY <1>2, <1>3

LEMMA FirstWaits ==
  ASSUME TypeInv, NamesInv, Walking, block.kind # "none"
  PROVE  /\ First \in Waiting /\ First.key = ThisKey /\ First.own = FALSE
         /\ \A i \in 1..Len(stack) : FrameItems(i, Advanced[i]) \subseteq FrameItems(i, stack[i]) \ {First}
<1>1. Len(stack) \in 1..Len(stack) /\ Frame.todo \in Seq(Block) /\ Frame.todo # <<>>
  BY TopType DEF Call, Walking
<1>2. 1 \in ToKeep(Frame)
  BY <1>1 DEF ToKeep, block
<1>3. First \in Waiting
  BY <1>1, <1>2 DEF First, Waiting, TodoItems, FrameItems, Frame, block
<1>4. First.key = ThisKey /\ First.own = FALSE
  BY DEF First, TodoItem, ThisKey
<1>5. ASSUME NEW i \in 1..Len(stack), NEW x \in FrameItems(i, Advanced[i])
      PROVE  x \in FrameItems(i, stack[i]) \ {First}
  <2>1. x \in FrameItems(i, stack[i]) /\ x.at = i
    BY <1>5, Shrinks
  <2>2. CASE i # Len(stack)
    BY <2>1, <2>2 DEF First, TodoItem
  <2>3. CASE i = Len(stack)
    <3>1. PICK j \in ToKeep(Frame) : j # 1 /\ x.of = Frame.todo[j].name
      BY <1>5, <2>3, Shrinks
    <3>2. Frame.todo[j].name # Frame.todo[1].name
      BY <1>1, <1>2, <3>1 DEF NamesInv, Frame
    <3>3. First.of = Frame.todo[1].name
      BY DEF TodoItem, First, block
    <3> QED BY <2>1, <3>1, <3>2, <3>3
  <2> QED BY <2>2, <2>3
<1> QED BY <1>3, <1>4, <1>5

\* A step that treats one thing that waits.
LEMMA TreatKey ==
  ASSUME KeyInv, TypeInv', pc # "exited",
         NEW a \in Waiting, NEW B, Keyed(B), AllApart(B), \A b \in B : Below(a.key, b.key),
         NEW N, N \subseteq {a.key}, \A b \in B : b.key = a.key => b.own \/ (~a.own /\ N = {}),
         Waiting' \subseteq (Waiting \ {a}) \cup B,
         TakenKeys' \subseteq TakenKeys \cup N
  PROVE  WaitingInv'
<1>1. Keyed(Waiting) /\ AllApart(Waiting) /\ FreeOf(Waiting, TakenKeys) /\ TakenKeys \subseteq Key
  BY WaitingKeyed, AllType DEF KeyInv, WaitingInv
<1>2. MakesWay(Waiting, TakenKeys, a, B, N, Waiting')
  BY <1>1 DEF MakesWay
<1>3. AllApart(Waiting') /\ FreeOf(Waiting', TakenKeys \cup N)
  BY <1>2, Replaced
<1>4. AllApart(Waiting)' /\ FreeOf(Waiting, TakenKeys)'
  BY <1>3 DEF AllApart, FreeOf
<1> QED BY <1>4 DEF WaitingInv

\* What waits is never recorded: a key it gets is not another's.
LEMMA FreshKey ==
  ASSUME KeyInv, pc # "exited", NEW a \in Waiting, ~a.own
  PROVE  a.key \notin TakenKeys
BY WaitingKeyed, BelowItself DEF KeyInv, WaitingInv, FreeOf, Keyed

LEMMA SameItems ==
  /\ UNCHANGED <<roots, root>> => RootItems' = RootItems
  /\ UNCHANGED stack => TodoItems' = TodoItems
  /\ UNCHANGED <<stack, external>> => ExternalItems' = ExternalItems
  /\ UNCHANGED <<refs, records>> => RefItems' = RefItems
  /\ UNCHANGED <<local, installed, records>> => TakenKeys' = TakenKeys /\ (KeysApart' <=> KeysApart)
BY DEF RootItems, RootItem, TodoItems, ExternalItems, ExternalItem, RefItems, RefItem, TakenKeys, All, KeysApart, Distinct

LEMMA BeginWalkKey == ASSUME KeyInv, BeginWalk, Named' PROVE KeyInv'
<1> DEFINE a == RootItem(root + 1)
           f == [key |-> roots[root + 1].prefix, dir |-> roots[root + 1].dir, todo |-> Blocks(roots[root + 1].dir)]
<1>1. TypeInv /\ TypeInv'
  BY BeginWalkType DEF KeyInv
<1>2. root \in Nat /\ root + 1 \in 1..Len(roots) /\ a \in RootItems
  BY <1>1 DEF RootItems, BeginWalk, TypeInv, RootsInv
<1>3. a.own = TRUE /\ a.key = roots[root + 1].prefix /\ a.at = root + 1 /\ a.kind = "root"
  BY DEF RootItem
<1>4. stack' = <<f>> /\ external' = <<>> /\ root' = root + 1 /\ pc = "walk"
  BY DEF BeginWalk
<1>5. f \in Call /\ f.key = a.key
  <2>1. stack'[1] = f /\ 1 \in 1..Len(stack')
    BY <1>4
  <2>2. stack'[1] \in Call
    BY <1>1, <2>1 DEF TypeInv, StackInv
  <2> QED BY <1>3, <2>1, <2>2
<1> HIDE DEF f
<1>6. RootItems' \subseteq RootItems \ {a}
  <2> SUFFICES ASSUME NEW x \in RootItems' PROVE x \in RootItems \ {a}
    OBVIOUS
  <2>1. PICK n \in 1..Len(roots) : n > root + 1 /\ x = RootItem(n)
    BY <1>4 DEF BeginWalk, roundVars, RootItems, RootItem
  <2>2. x.at = n
    BY <2>1 DEF RootItem
  <2> QED BY <1>2, <1>3, <2>1, <2>2 DEF RootItems
<1>7. TodoItems' = FrameItems(1, f)
  <2>1. Len(stack') = 1 /\ stack'[1] = f
    BY <1>4
  <2>2. \A x : x \in TodoItems' <=> x \in FrameItems(1, f)
    BY <2>1 DEF TodoItems, FrameItems, ToKeep
  <2> QED BY <2>2
<1>8. ExternalItems' = {} /\ RefItems' = RefItems /\ TakenKeys' = TakenKeys /\ (KeysApart' <=> KeysApart)
  BY <1>4, SameItems DEF BeginWalk, roundVars, ExternalItems
<1>9. a \in Waiting
  BY <1>2 DEF Waiting
<1>10. /\ Keyed(FrameItems(1, f)) /\ AllApart(FrameItems(1, f))
       /\ \A b \in FrameItems(1, f) : Below(a.key, b.key) /\ b.key # a.key
  BY <1>5, FrameApart
<1>11. a \notin RefItems
  <2>1. \A x \in RefItems : x.kind = "ref"
    BY DEF RefItems, RefItem
  <2> HIDE DEF a
  <2> QED BY <1>3, <2>1
<1> HIDE DEF a
<1>12. Waiting' \subseteq (Waiting \ {a}) \cup FrameItems(1, f)
  BY <1>6, <1>7, <1>8, <1>11 DEF Waiting
<1>13. WaitingInv'
  BY <1>1, <1>4, <1>8, <1>9, <1>10, <1>12, TreatKey
<1> QED BY <1>1, <1>8, <1>13 DEF KeyInv

\* The first block is gone from what waits in the frames.
LEMMA DealtItems ==
  ASSUME TypeInv, NamesInv, Walking, block.kind # "none", stack' = Advanced
  PROVE  TodoItems' \subseteq TodoItems \ {First}
<1> SUFFICES ASSUME NEW x \in TodoItems' PROVE x \in TodoItems \ {First}
  OBVIOUS
<1>1. PICK i \in 1..Len(Advanced) : x \in FrameItems(i, Advanced[i])
  BY DEF TodoItems, FrameItems, ToKeep
<1>2. i \in 1..Len(stack) /\ x \in FrameItems(i, stack[i]) \ {First}
  BY <1>1, TopType, FirstWaits
<1> QED BY <1>2 DEF TodoItems

LEMMA FirstKind == \A x \in RootItems \cup ExternalItems \cup RefItems : x # First
BY DEF RootItems, RootItem, ExternalItems, ExternalItem, RefItems, RefItem, First, TodoItem

LEMMA SkipKey == ASSUME KeyInv, SkipNoSource, TypeInv', Named' PROVE KeyInv'
<1>1. TypeInv /\ Walking /\ stack' = Advanced /\ pc # "exited"
  BY DEF KeyInv, SkipNoSource, Walking
<1>2. RootItems' = RootItems /\ RefItems' = RefItems /\ TakenKeys' = TakenKeys /\ (KeysApart' <=> KeysApart)
  BY SameItems DEF SkipNoSource, roundVars
<1>3. ExternalItems' \subseteq ExternalItems
  BY <1>1 DEF SkipNoSource, ExternalItems, ExternalItem, Walking
<1>4. TodoItems' \subseteq TodoItems
  <2> SUFFICES ASSUME NEW x \in TodoItems' PROVE x \in TodoItems
    OBVIOUS
  <2>1. PICK i \in 1..Len(Advanced) : x \in FrameItems(i, Advanced[i])
    BY <1>1 DEF TodoItems, FrameItems, ToKeep
  <2>2. i \in 1..Len(stack) /\ x \in FrameItems(i, stack[i])
    BY <1>1, <2>1, TopType, Shrinks
  <2> QED BY <2>2 DEF TodoItems
<1>5. Waiting' \subseteq Waiting
  BY <1>2, <1>3, <1>4 DEF Waiting
<1>6. WaitingInv'
  BY <1>1, <1>2, <1>5 DEF KeyInv, WaitingInv, AllApart, FreeOf
<1> QED BY <1>2, <1>6 DEF KeyInv

LEMMA TakeKey == ASSUME KeyInv, TakeExternal, TypeInv', Named' PROVE KeyInv'
<1> DEFINE new == [key |-> ThisKey, source |-> block.source, version |-> block.version]
           b == [kind |-> "external", at |-> Len(external) + 1, of |-> 0, key |-> ThisKey, own |-> FALSE]
<1>1. /\ TypeInv /\ NamesInv /\ Walking /\ block.kind # "none" /\ stack' = Advanced /\ pc # "exited"
      /\ external' = Append(external, new)
  BY DEF KeyInv, Named, TakeExternal, Walking
<1>2. RootItems' = RootItems /\ RefItems' = RefItems /\ TakenKeys' = TakenKeys /\ (KeysApart' <=> KeysApart)
  BY SameItems DEF TakeExternal, roundVars
<1>3. /\ external \in Seq(Ref) /\ Len(external) \in Nat /\ Len(external') = Len(external) + 1
      /\ external'[Len(external) + 1] = new /\ \A n \in 1..Len(external) : external'[n] = external[n]
  BY <1>1 DEF TypeInv, StackInv
<1>4. ExternalItems' \subseteq ExternalItems \cup {b}
  <2> SUFFICES ASSUME NEW x \in ExternalItems' PROVE x \in ExternalItems \cup {b}
    OBVIOUS
  <2>1. PICK n \in 1..Len(external') : x = [kind |-> "external", at |-> n, of |-> 0, key |-> external'[n].key, own |-> FALSE]
    BY DEF ExternalItems, ExternalItem
  <2>2. CASE n \in 1..Len(external)
    <3>1. x = ExternalItem(n)
      BY <1>3, <2>1, <2>2 DEF ExternalItem
    <3> QED BY <1>1, <2>2, <3>1 DEF ExternalItems, Walking
  <2>3. CASE n = Len(external) + 1
    <3>1. external'[n].key = ThisKey
      BY <1>3, <2>3
    <3>2. x = b
      BY <2>1, <2>3, <3>1
    <3> QED BY <3>2
  <2> QED BY <1>3, <2>2, <2>3
<1>5. First \in Waiting /\ First.key = ThisKey /\ First.own = FALSE /\ ThisKey \in Key
  BY <1>1, FirstWaits, TopType
<1>6. b.key = ThisKey /\ b.own = FALSE
  OBVIOUS
<1> HIDE DEF b
<1>7. Waiting' \subseteq (Waiting \ {First}) \cup {b}
  BY <1>1, <1>2, <1>4, DealtItems, FirstKind DEF Waiting
<1>8. Keyed({b}) /\ AllApart({b}) /\ Below(First.key, b.key)
  BY <1>5, <1>6, BelowItself DEF Keyed, AllApart
<1>9. WaitingInv'
  BY <1>1, <1>2, <1>5, <1>7, <1>8, TreatKey
<1> QED BY <1>2, <1>9 DEF KeyInv

LEMMA EnterKey == ASSUME KeyInv, EnterLocal, TypeInv', Named' PROVE KeyInv'
<1> DEFINE new == [key |-> ThisKey, dir |-> childDir, todo |-> Blocks(childDir)]
           B == FrameItems(Len(stack) + 1, new)
<1>1. /\ TypeInv /\ NamesInv /\ Walking /\ pc # "exited" /\ stack' = Append(Advanced, new)
      /\ block.kind = "local"
  BY DEF KeyInv, Named, EnterLocal, Walking
<1>2. /\ Len(stack) \in Nat /\ Advanced \in Seq(Call) /\ Len(Advanced) = Len(stack)
      /\ Len(stack') = Len(stack) + 1 /\ stack'[Len(stack) + 1] = new
      /\ \A i \in 1..Len(stack) : stack'[i] = Advanced[i]
  BY <1>1, TopType
<1>3. new \in Call /\ new.key = ThisKey
  <2>1. stack'[Len(stack) + 1] \in Call
    BY <1>2 DEF TypeInv, StackInv
  <2> QED BY <1>2, <2>1
<1> HIDE DEF new
<1>4. TodoItems' \subseteq (TodoItems \ {First}) \cup B
  <2> SUFFICES ASSUME NEW x \in TodoItems' PROVE x \in (TodoItems \ {First}) \cup B
    OBVIOUS
  <2>1. PICK i \in 1..Len(stack') : x \in FrameItems(i, stack'[i])
    BY DEF TodoItems, FrameItems, ToKeep
  <2>2. CASE i \in 1..Len(stack)
    BY <1>1, <1>2, <2>1, <2>2, FirstWaits DEF TodoItems
  <2>3. CASE i = Len(stack) + 1
    BY <1>2, <2>1, <2>3
  <2> QED BY <1>2, <2>2, <2>3
<1>5. RootItems' = RootItems /\ RefItems' = RefItems
  BY SameItems DEF EnterLocal, roundVars
<1>6. ExternalItems' \subseteq ExternalItems
  BY <1>1 DEF EnterLocal, ExternalItems, ExternalItem, Walking
<1>7. First \in Waiting /\ First.key = ThisKey /\ First.own = FALSE
  BY <1>1, FirstWaits
<1>8. Waiting' \subseteq (Waiting \ {First}) \cup B
  BY <1>4, <1>5, <1>6, FirstKind DEF Waiting
<1>9. Keyed(B) /\ AllApart(B) /\ \A b \in B : Below(First.key, b.key) /\ b.key # First.key
  BY <1>3, <1>7, FrameApart
<1>10. LocalRecord \in Record /\ LocalRecord.key = ThisKey
  BY <1>1, LocalType DEF LocalRecord
<1>11. local' = Append(local, LocalRecord) /\ UNCHANGED <<installed, records>>
  BY DEF EnterLocal, roundVars
<1>12. TakenKeys' \subseteq TakenKeys \cup {ThisKey} /\ KeysApart'
  BY <1>1, <1>7, <1>10, <1>11, FreshKey, LocalAdded DEF KeyInv
<1> HIDE DEF B
<1>13. WaitingInv'
  BY <1>1, <1>7, <1>8, <1>9, <1>12, TreatKey
<1> QED BY <1>12, <1>13 DEF KeyInv

LEMMA ReturnKey == ASSUME KeyInv, Return, TypeInv', Named' PROVE KeyInv'
<1>1. TypeInv /\ pc # "exited"
  BY DEF KeyInv, Return
<1>2. RootItems' = RootItems /\ RefItems' = RefItems /\ TakenKeys' = TakenKeys /\ (KeysApart' <=> KeysApart)
  BY SameItems DEF Return, roundVars
<1>3. TodoItems' \subseteq TodoItems
  <2> SUFFICES ASSUME NEW x \in TodoItems' PROVE x \in TodoItems
    OBVIOUS
  <2>1. PICK i \in 1..Len(stack') : x \in FrameItems(i, stack'[i])
    BY DEF TodoItems, FrameItems, ToKeep
  <2>2. i \in 1..Len(stack) /\ stack'[i] = stack[i]
    BY <1>1, ReturnStack
  <2> QED BY <2>1, <2>2 DEF TodoItems
<1>4. ExternalItems' \subseteq ExternalItems
  BY DEF Return, ExternalItems, ExternalItem
<1>5. Waiting' \subseteq Waiting
  BY <1>2, <1>3, <1>4 DEF Waiting
<1>6. WaitingInv'
  BY <1>1, <1>2, <1>5 DEF KeyInv, WaitingInv, AllApart, FreeOf
<1> QED BY <1>2, <1>6 DEF KeyInv

\* A step after which all that waits waited before, perhaps under another
\* heading.
LEMMA RenameKey ==
  ASSUME KeyInv, TypeInv', Named', pc # "exited", TakenKeys' = TakenKeys, KeysApart' <=> KeysApart,
         \A x \in Waiting' : x.own \in BOOLEAN /\ \E u \in Waiting : u.key = x.key /\ (u.own => x.own),
         \A x, y \in Waiting' : x # y => \E u, w \in Waiting : u # w /\ u.key = x.key /\ w.key = y.key
  PROVE  KeyInv'
<1>1. Keyed(Waiting) /\ AllApart(Waiting) /\ FreeOf(Waiting, TakenKeys)
  BY WaitingKeyed DEF KeyInv, WaitingInv
<1>2. AllApart(Waiting') /\ FreeOf(Waiting', TakenKeys)
  <2>1. AllApart(Waiting')
    BY <1>1 DEF AllApart
  <2>2. FreeOf(Waiting', TakenKeys)
    BY <1>1 DEF FreeOf
  <2> QED BY <2>1, <2>2
<1>3. WaitingInv'
  BY <1>2 DEF WaitingInv, AllApart, FreeOf
<1> QED BY <1>3 DEF KeyInv

LEMMA CollectKey == ASSUME KeyInv, CollectRefs, TypeInv', Named' PROVE KeyInv'
<1>1. TypeInv /\ pc # "exited" /\ stack # <<>> /\ stack' = <<>>
  BY DEF KeyInv, CollectRefs, WalkEnded
<1>2. RootItems' = RootItems /\ TakenKeys' = TakenKeys /\ (KeysApart' <=> KeysApart)
  BY SameItems DEF CollectRefs
<1>3. TodoItems' = {} /\ ExternalItems' = {}
  BY <1>1 DEF TodoItems, ExternalItems
<1>4. /\ Len(refs) \in Nat /\ Len(external) \in Nat /\ Len(records) \in Nat /\ Len(records) <= Len(refs)
      /\ Len(refs') = Len(refs) + Len(external) /\ records' = records
      /\ \A n \in 1..Len(refs) : refs'[n] = refs[n]
      /\ \A n \in 1..Len(external) : refs'[Len(refs) + n].ref = external[n]
  BY <1>1, CollectedRefs DEF CollectRefs, TypeInv, RefsInv, StackInv, RecordsInv
<1>5. ASSUME NEW x \in RefItems'
      PROVE  \/ x \in RefItems /\ x.at \in 1..Len(refs)
             \/ /\ x.at - Len(refs) \in 1..Len(external) /\ x.key = ExternalItem(x.at - Len(refs)).key
                /\ x = [kind |-> "ref", at |-> x.at, of |-> 0, key |-> external[x.at - Len(refs)].key, own |-> FALSE]
  <2>1. PICK n \in 1..Len(refs') : x = [kind |-> "ref", at |-> n, of |-> 0, key |-> refs'[n].ref.key, own |-> n <= Len(records)]
    BY <1>4 DEF RefItems, RefItem
  <2>2. CASE n \in 1..Len(refs)
    <3>1. x = RefItem(n) /\ x.at = n
      BY <1>4, <2>1, <2>2 DEF RefItem
    <3> QED BY <2>2, <3>1 DEF RefItems
  <2>3. CASE n \notin 1..Len(refs)
    <3>1. n - Len(refs) \in 1..Len(external) /\ n = Len(refs) + (n - Len(refs))
      BY <1>4, <2>3
    <3>2. refs'[n].ref = external[n - Len(refs)] /\ (n <= Len(records)) = FALSE
      BY <1>4, <3>1
    <3>3. x = [kind |-> "ref", at |-> n, of |-> 0, key |-> external[n - Len(refs)].key, own |-> FALSE]
      BY <2>1, <3>2
    <3>4. x.at = n /\ x.key = external[n - Len(refs)].key
      BY <3>3
    <3> QED BY <3>1, <3>3, <3>4 DEF ExternalItem
  <2> QED BY <2>2, <2>3
<1> DEFINE from(x) == IF x \in RootItems \cup RefItems THEN x ELSE ExternalItem(x.at - Len(refs))
<1>6. ASSUME NEW x \in Waiting'
      PROVE  from(x) \in Waiting /\ from(x).key = x.key /\ (from(x).own => x.own)
  <2>1. CASE x \in RootItems \cup RefItems
    BY <2>1 DEF Waiting
  <2>2. CASE x \notin RootItems \cup RefItems
    <3>1. x \in RefItems'
      BY <1>2, <1>3, <2>2 DEF Waiting
    <3>2. x.at - Len(refs) \in 1..Len(external) /\ x.key = ExternalItem(x.at - Len(refs)).key
      BY <1>5, <2>2, <3>1
    <3>3. ExternalItem(x.at - Len(refs)) \in ExternalItems
      BY <1>1, <3>2 DEF ExternalItems
    <3>4. ExternalItem(x.at - Len(refs)).own = FALSE
      BY DEF ExternalItem
    <3> QED BY <2>2, <3>2, <3>3, <3>4 DEF Waiting
  <2> QED BY <2>1, <2>2
<1>7. ASSUME NEW x \in Waiting', NEW y \in Waiting', x # y PROVE from(x) # from(y)
  <2>1. \A u \in RootItems \cup RefItems : \A n : u # ExternalItem(n)
    BY DEF RootItems, RootItem, RefItems, RefItem, ExternalItem
  <2>2. CASE x \notin RootItems \cup RefItems /\ y \notin RootItems \cup RefItems
    <3>1. x \in RefItems' /\ y \in RefItems'
      BY <1>2, <1>3, <2>2 DEF Waiting
    <3>2. ASSUME ExternalItem(x.at - Len(refs)) = ExternalItem(y.at - Len(refs)) PROVE x = y
      <4>1. x.at - Len(refs) = y.at - Len(refs)
        BY <3>2 DEF ExternalItem
      <4>2. x.at - Len(refs) \in 1..Len(external) /\ y.at - Len(refs) \in 1..Len(external)
        BY <1>5, <2>2, <3>1
      <4>3. x.at \in Nat /\ y.at \in Nat
        BY <3>1, <1>4 DEF RefItems, RefItem
      <4>4. x.at = y.at
        BY <1>4, <4>1, <4>3
      <4> QED BY <1>5, <2>2, <3>1, <4>4
    <3> QED BY <1>7, <2>2, <3>2
  <2> QED BY <1>7, <2>1, <2>2
<1>8. \A x \in Waiting' : x.own \in BOOLEAN
  BY WaitingKeyedNext DEF Keyed
<1> HIDE DEF from
<1>9. \A x, y \in Waiting' : x # y => \E u, w \in Waiting : u # w /\ u.key = x.key /\ w.key = y.key
  BY <1>6, <1>7
<1>10. \A x \in Waiting' : x.own \in BOOLEAN /\ \E u \in Waiting : u.key = x.key /\ (u.own => x.own)
  BY <1>6, <1>8
<1> QED BY <1>1, <1>2, <1>9, <1>10, RenameKey

\* The item of the reference whose turn it is.
LEMMA TurnWaits ==
  ASSUME TypeInv, Installing
  PROVE  /\ RefItem(Len(records) + 1) \in Waiting
         /\ RefItem(Len(records) + 1).key = ref.key /\ RefItem(Len(records) + 1).own = FALSE
<1>1. Len(records) + 1 \in 1..Len(refs) /\ Len(records) \in Nat
  BY RefType DEF TypeInv, RecordsInv
<1>2. (Len(records) + 1 <= Len(records)) = FALSE
  BY <1>1
<1> QED BY <1>1, <1>2 DEF Waiting, RefItems, RefItem, ref

LEMMA InstallKey == ASSUME KeyInv, NEW d \in DOMAIN in.deps, Install(d), TypeInv', Named' PROVE KeyInv'
<1> DEFINE m == Len(records) + 1
           a == RefItem(m)
           b == [kind |-> "ref", at |-> m, of |-> 0, key |-> ref.key, own |-> TRUE]
           new == [key |-> ref.key, dir |-> At(ref.key, in.deps[d].subdir), dep |-> d,
                   spelled |-> in.deps[d].source.spelled]
<1>1. TypeInv /\ Installing /\ pc # "exited" /\ records' = Append(records, new) /\ records \in Seq(Record)
  BY DEF KeyInv, Install, Installing, TypeInv, RecordsInv
<1>2. a \in Waiting /\ a.key = ref.key /\ a.own = FALSE /\ ref.key \in Key /\ a.kind = "ref"
  BY <1>1, TurnWaits, RefType DEF RefItem
<1>3. new \in Record /\ new.key = ref.key
  <2>1. m \in 1..Len(records') /\ records'[m] = new
    BY <1>1
  <2>2. Record' = Record /\ records' \in Seq(Record')
    BY DEF Install, Record, TypeInv, RecordsInv
  <2> QED BY <2>1, <2>2
<1>4. m \in 1..Len(refs) /\ Len(records) \in Nat /\ Len(records') = m /\ ref = refs[m].ref
  BY <1>1, RefType DEF ref
<1> HIDE DEF new
<1>5. RefItems' \subseteq (RefItems \ {a}) \cup {b}
  <2> SUFFICES ASSUME NEW x \in RefItems' PROVE x \in (RefItems \ {a}) \cup {b}
    OBVIOUS
  <2>1. PICK n \in 1..Len(refs) : x = [kind |-> "ref", at |-> n, of |-> 0, key |-> refs[n].ref.key, own |-> n <= m]
    BY <1>4 DEF Install, RefItems, RefItem
  <2>2. CASE n = m
    <3>1. (n <= m) = TRUE
      BY <1>4, <2>2
    <3> QED BY <1>4, <2>1, <2>2, <3>1
  <2>3. CASE n # m
    <3>1. (n <= m) = (n <= Len(records))
      BY <1>4, <2>3
    <3>2. x = RefItem(n)
      BY <2>1, <3>1 DEF RefItem
    <3>3. x # a
      BY <2>3, <3>2 DEF RefItem
    <3> QED BY <3>2, <3>3 DEF RefItems
  <2> QED BY <2>2, <2>3
<1>6. \A x \in RootItems \cup TodoItems \cup ExternalItems : x # a
  <2>1. \A x \in RootItems \cup TodoItems \cup ExternalItems : x.kind # "ref"
    BY DEF RootItems, RootItem, TodoItems, FrameItems, TodoItem, ExternalItems, ExternalItem
  <2> HIDE DEF a
  <2> QED BY <1>2, <2>1
<1>7. RootItems' = RootItems /\ TodoItems' = TodoItems /\ ExternalItems' = ExternalItems
  BY SameItems DEF Install, walkVars
<1>8. b.key = ref.key /\ b.own = TRUE
  OBVIOUS
<1> HIDE DEF a, b
<1>9. Waiting' \subseteq (Waiting \ {a}) \cup {b}
  BY <1>5, <1>6, <1>7 DEF Waiting
<1>10. Keyed({b}) /\ AllApart({b}) /\ Below(a.key, b.key)
  BY <1>2, <1>8, BelowItself DEF Keyed, AllApart
<1>11. TakenKeys' \subseteq TakenKeys \cup {a.key} /\ KeysApart'
  <2>1. UNCHANGED <<installed, local>>
    BY DEF Install, walkVars
  <2> QED BY <1>1, <1>2, <1>3, <2>1, FreshKey, RecordAdded DEF KeyInv
<1>12. WaitingInv'
  BY <1>1, <1>2, <1>8, <1>9, <1>10, <1>11, TreatKey
<1> QED BY <1>11, <1>12 DEF KeyInv

LEMMA NextRoundSame ==
  ASSUME TypeInv, NextRound
  PROVE  TakenKeys' = TakenKeys /\ (KeysApart' <=> KeysApart)
<1>1. local \in Seq(Record) /\ installed \in Seq(Record) /\ records \in Seq(Record)
  BY DEF TypeInv, RecordsInv
<1>2. local' = local /\ installed' = installed \o records /\ records' = <<>>
  BY DEF NextRound
<1>3. local \o installed \o records = local \o (installed \o records)
  BY <1>1, Regrouped
<1>4. local \o (installed \o records) \o <<>> = local \o (installed \o records)
  <2>1. local \o (installed \o records) \in Seq(Record)
    BY <1>1, Joined
  <2> QED BY <2>1
<1>5. All' = All
  BY <1>2, <1>3, <1>4 DEF All
<1> QED BY <1>5 DEF TakenKeys, KeysApart, Distinct

LEMMA NextRoundKey == ASSUME KeyInv, NextRound, TypeInv', Named' PROVE KeyInv'
<1>1. TypeInv /\ pc # "exited" /\ stack' = <<>> /\ root' = 0 /\ refs' = <<>>
  BY DEF KeyInv, NextRound, TypeInv, StackInv
<1>2. TodoItems' = {} /\ ExternalItems' = {} /\ RefItems' = {}
  BY <1>1 DEF TodoItems, ExternalItems, RefItems
<1>4. TakenKeys' = TakenKeys /\ (KeysApart' <=> KeysApart)
  BY <1>1, NextRoundSame
<1>5. ASSUME NEW x \in Waiting'
      PROVE  /\ x.at \in 1..Len(refs) /\ RefItem(x.at) \in Waiting /\ x.own = TRUE /\ x.key = RefItem(x.at).key
             /\ x = [kind |-> "root", at |-> x.at, of |-> 0, key |-> refs[x.at].ref.key, own |-> TRUE]
  <2>1. PICK n \in 1..Len(roots') : x = [kind |-> "root", at |-> n, of |-> 0, key |-> roots'[n].prefix, own |-> TRUE]
    BY <1>2 DEF Waiting, RootItems, RootItem
  <2>2. n \in 1..Len(refs) /\ roots'[n].prefix = refs[n].ref.key
    BY <1>1, <2>1, NextRoots
  <2>3. x = [kind |-> "root", at |-> n, of |-> 0, key |-> refs[n].ref.key, own |-> TRUE]
    BY <2>1, <2>2
  <2>4. x.at = n /\ x.own = TRUE /\ x.key = refs[n].ref.key
    BY <2>3
  <2>5. RefItem(n) \in Waiting /\ RefItem(n).key = refs[n].ref.key
    BY <2>2 DEF Waiting, RefItems, RefItem
  <2> QED BY <2>2, <2>3, <2>4, <2>5
<1>6. \A x \in Waiting' : x.own \in BOOLEAN /\ \E u \in Waiting : u.key = x.key /\ (u.own => x.own)
  BY <1>5
<1>7. ASSUME NEW x \in Waiting', NEW y \in Waiting', x # y
      PROVE  \E u, w \in Waiting : u # w /\ u.key = x.key /\ w.key = y.key
  <2>1. x.at # y.at
    BY <1>5, <1>7
  <2>2. RefItem(x.at) # RefItem(y.at)
    BY <2>1 DEF RefItem
  <2> QED BY <1>5, <2>2
<1> QED BY <1>1, <1>4, <1>6, <1>7, RenameKey

-------------------------------------------------------------------------------
(***************************************************************************)
(* Names: where those of each directory are distinct, those in a frame are, *)
(* and nothing is copied over anything.                                     *)
(***************************************************************************)
LEMMA NamesStay == [Next]_vars => (NamesDistinct' <=> NamesDistinct)
<1> SUFFICES ASSUME [Next]_vars PROVE in' = in
  BY DEF NamesDistinct
<1> QED BY DEF Next, Exited, vars, BeginWalk, FailUnreadableRoot, SkipNoSource, TakeExternal, EnterLocal, FailLocal,
      Return, CollectRefs, FailExternalCycle, Install, FailUnsupplied, NextRound, Write

Differ(todo) == \A m, n \in 1..Len(todo) :
  todo[m].kind # "none" /\ todo[n].kind # "none" /\ todo[m].name = todo[n].name => m = n

LEMMA NamesDiffer == NamesInv <=> \A i \in 1..Len(stack) : Differ(stack[i].todo)
BY DEF NamesInv, Differ, ToKeep

LEMMA NamesDifferNext == NamesInv' <=> \A i \in 1..Len(stack') : Differ(stack'[i].todo)
BY DEF NamesInv, Differ, ToKeep

LEMMA BlocksDiffer ==
  ASSUME TypeInv, NamesDistinct, LaidInv, NEW dir, There(dir), Readable(dir)
  PROVE  Differ(Blocks(dir))
<1>1. NamesApart(Package(dir))
  <2>1. CASE dir.under = <<>>
    BY <2>1 DEF NamesDistinct, Package
  <2>2. CASE dir.under # <<>>
    BY <2>2 DEF NamesDistinct, Package, LaidInv, TypeInv, DiskInv, There
  <2> QED BY <2>1, <2>2
<1> QED BY <1>1 DEF NamesApart, Readable, Blocks, Differ

LEMMA AdvancedDiffer ==
  ASSUME TypeInv, NamesInv, Walking, NEW i \in 1..Len(Advanced)
  PROVE  Differ(Advanced[i].todo)
<1>1. i \in 1..Len(stack) /\ Differ(stack[i].todo)
  BY TopType, NamesDiffer
<1>2. stack[i].todo \in Seq(Block)
  <2>1. stack[i] \in Call
    BY <1>1 DEF TypeInv, StackInv
  <2> QED BY <2>1 DEF Call
<1>3. CASE i # Len(stack)
  BY <1>1, <1>3, TopType
<1>4. CASE i = Len(stack)
  <2>1. stack[i].todo # <<>> /\ Advanced[i].todo = Tail(stack[i].todo)
    BY <1>1, <1>4, TopType DEF Walking, Frame
  <2> PICK old : old = stack[i].todo
    OBVIOUS
  <2>2. old \in Seq(Block) /\ old # <<>> /\ Differ(old)
    BY <1>1, <1>2, <2>1
  <2>3. ASSUME NEW m \in 1..Len(Tail(old)) PROVE m + 1 \in 1..Len(old) /\ Tail(old)[m] = old[m + 1] /\ m \in Nat
    BY <2>2
  <2>4. Differ(Tail(old))
    <3> SUFFICES ASSUME NEW m \in 1..Len(Tail(old)), NEW n \in 1..Len(Tail(old)), Tail(old)[m].kind # "none",
                        Tail(old)[n].kind # "none", Tail(old)[m].name = Tail(old)[n].name
                 PROVE  m = n
      BY DEF Differ
    <3>1. m + 1 = n + 1
      BY <2>2, <2>3 DEF Differ
    <3> QED BY <2>3, <3>1
  <2> QED BY <2>1, <2>4
<1> QED BY <1>3, <1>4

LEMMA NextNames == ASSUME KeyInv, [Next]_vars, TypeInv' PROVE NamesInv'
<1>1. TypeInv /\ NamesInv /\ NamesDistinct /\ LaidInv
  BY DEF KeyInv, Named
<1>2. ASSUME UNCHANGED stack PROVE NamesInv'
  BY <1>1, <1>2 DEF NamesInv, ToKeep
<1>3. CASE BeginWalk
  <2>1. root + 1 \in 1..Len(roots) /\ There(roots[root + 1].dir) /\ Readable(roots[root + 1].dir)
    BY <1>1, <1>3 DEF TypeInv, RootsInv, BeginWalk
  <2>2. Differ(Blocks(roots[root + 1].dir))
    BY <1>1, <2>1, BlocksDiffer
  <2>3. Len(stack') = 1 /\ stack'[1].todo = Blocks(roots[root + 1].dir)
    BY <1>3 DEF BeginWalk
  <2> QED BY <2>2, <2>3, NamesDifferNext
<1>4. CASE SkipNoSource \/ TakeExternal
  BY <1>1, <1>4, AdvancedDiffer, NamesDifferNext DEF SkipNoSource, TakeExternal
<1>5. CASE EnterLocal
  <2> DEFINE new == [key |-> ThisKey, dir |-> childDir, todo |-> Blocks(childDir)]
  <2>1. Walking /\ block.kind = "local" /\ Readable(childDir) /\ stack' = Append(Advanced, new)
    BY <1>5 DEF EnterLocal
  <2>2. Differ(new.todo)
    BY <1>1, <2>1, LocalType, BlocksDiffer
  <2> HIDE DEF new
  <2>3. Advanced \in Seq(Call)
    BY <1>1, <2>1, TopType
  <2>4. ASSUME NEW i \in 1..Len(stack') PROVE Differ(stack'[i].todo)
    <3>1. CASE i \in 1..Len(Advanced)
      <4>1. stack'[i] = Advanced[i]
        BY <2>1, <2>3, <3>1
      <4> QED BY <1>1, <2>1, <3>1, <4>1, AdvancedDiffer
    <3>2. CASE i \notin 1..Len(Advanced)
      <4>1. stack'[i] = new
        BY <2>1, <2>3, <3>2
      <4> QED BY <2>2, <4>1
    <3> QED BY <3>1, <3>2
  <2> QED BY <2>4, NamesDifferNext
<1>6. CASE Return
  BY <1>1, <1>6, ReturnStack DEF NamesInv, ToKeep
<1>7. CASE CollectRefs
  BY <1>7, NamesDifferNext DEF CollectRefs
<1>8. CASE \E d \in DOMAIN in.deps : Install(d)
  BY <1>2, <1>8 DEF Install, walkVars
<1>9. CASE \/ FailUnreadableRoot \/ FailLocal \/ FailExternalCycle \/ FailUnsupplied
           \/ NextRound \/ Write \/ UNCHANGED vars
  BY <1>2, <1>9 DEF FailUnreadableRoot, FailLocal, FailExternalCycle, FailUnsupplied, NextRound, Write, walkVars, vars
<1> QED BY <1>3, <1>4, <1>5, <1>6, <1>7, <1>8, <1>9 DEF Next, Exited

LEMMA KeysStay == ASSUME KeyInv, [Next]_vars, TypeInv' PROVE TakenKeys \subseteq TakenKeys'
<1>1. TypeInv
  BY DEF KeyInv
<1>2. CASE EnterLocal \/ FailLocal
  <2>1. Walking /\ block.kind = "local" /\ local' = Append(local, LocalRecord) /\ UNCHANGED <<installed, records>>
    BY <1>2 DEF EnterLocal, FailLocal, roundVars
  <2> QED BY <1>1, <2>1, LocalType, LocalAdded
<1>3. CASE NextRound
  BY <1>1, <1>3, NextRoundSame
<1>4. CASE \E d \in DOMAIN in.deps : Install(d)
  <2>1. PICK d \in DOMAIN in.deps : Install(d)
    BY <1>4
  <2> DEFINE new == [key |-> ref.key, dir |-> At(ref.key, in.deps[d].subdir), dep |-> d,
                     spelled |-> in.deps[d].source.spelled]
  <2>2. records' = Append(records, new) /\ UNCHANGED <<in, installed, local>> /\ records \in Seq(Record)
    BY <1>1, <2>1 DEF Install, walkVars, TypeInv, RecordsInv
  <2>3. new \in Record
    <3>1. Len(records) + 1 \in 1..Len(records') /\ records'[Len(records) + 1] = new
      BY <2>2
    <3>2. Record' = Record /\ records' \in Seq(Record')
      BY <2>2 DEF Record, TypeInv, RecordsInv
    <3> QED BY <3>1, <3>2
  <2> HIDE DEF new
  <2> QED BY <1>1, <2>2, <2>3, RecordAdded
<1>5. CASE \/ BeginWalk \/ SkipNoSource \/ TakeExternal \/ Return \/ CollectRefs \/ Write \/ UNCHANGED vars
           \/ FailUnreadableRoot \/ FailExternalCycle \/ FailUnsupplied
  <2>1. UNCHANGED <<local, installed, records>>
    BY <1>5 DEF BeginWalk, SkipNoSource, TakeExternal, Return, CollectRefs, Write, vars,
                FailUnreadableRoot, FailExternalCycle, FailUnsupplied, walkVars, roundVars
  <2> QED BY <2>1, SameItems
<1> QED BY <1>2, <1>3, <1>4, <1>5 DEF Next, Exited

LEMMA NextLaid == ASSUME KeyInv, [Next]_vars, TypeInv' PROVE LaidInv'
<1>1. TypeInv /\ LaidInv /\ TakenKeys \subseteq TakenKeys'
  BY KeysStay DEF KeyInv, Named
<1>2. CASE \E d \in DOMAIN in.deps : Install(d)
  <2>1. PICK d \in DOMAIN in.deps : Install(d)
    BY <1>2
  <2>2. Installing /\ pc # "exited" /\ in' = in
    BY <2>1 DEF Install, Installing
  <2>3. ref.key \notin TakenKeys
    BY <1>1, <2>2, TurnWaits, FreshKey
  <2>4. ref.key \notin DOMAIN laid /\ DOMAIN laid = DOMAIN disk
    BY <1>1, <2>3 DEF LaidInv, TypeInv, DiskInv
  <2>5. /\ laid' = [k \in DOMAIN laid \cup {ref.key} |-> IF k = ref.key THEN in.deps[d].files ELSE laid[k]]
        /\ disk' = [k \in DOMAIN disk \cup {ref.key} |-> IF k = ref.key THEN d ELSE disk[k]]
    BY <2>1, <2>4 DEF Install, copyManifestAll
  <2>6. \A k \in DOMAIN laid' : laid'[k] = in'.deps[disk'[k]].files
    BY <1>1, <2>2, <2>4, <2>5 DEF LaidInv
  <2>7. ref.key \in TakenKeys'
    <3> DEFINE new == [key |-> ref.key, dir |-> At(ref.key, in.deps[d].subdir), dep |-> d,
                       spelled |-> in.deps[d].source.spelled]
    <3>1. records' = Append(records, new) /\ UNCHANGED <<installed, local>> /\ records \in Seq(Record)
      BY <1>1, <2>1 DEF Install, walkVars, TypeInv, RecordsInv
    <3>2. Len(records) + 1 \in 1..Len(records') /\ records'[Len(records) + 1] = new /\ new.key = ref.key
      BY <3>1
    <3>3. new \in Record
      <4>1. Record' = Record /\ records' \in Seq(Record')
        BY <2>2 DEF Record, TypeInv, RecordsInv
      <4> QED BY <3>2, <4>1
    <3> HIDE DEF new
    <3> QED BY <1>1, <3>1, <3>2, <3>3, RecordAdded
  <2> QED BY <1>1, <2>5, <2>6, <2>7 DEF LaidInv
<1>3. CASE UNCHANGED <<in, disk, laid>>
  BY <1>1, <1>3 DEF LaidInv
<1> QED BY <1>2, <1>3 DEF Next, Exited, vars, BeginWalk, FailUnreadableRoot, SkipNoSource, TakeExternal, EnterLocal,
      FailLocal, Return, CollectRefs, FailExternalCycle, FailUnsupplied, NextRound, Write

LEMMA NextNamed == ASSUME KeyInv, [Next]_vars, TypeInv' PROVE Named'
BY NamesStay, NextNames, NextLaid DEF KeyInv, Named

LEMMA InitKey == Init /\ NamesDistinct => KeyInv
<1> SUFFICES ASSUME Init, NamesDistinct PROVE KeyInv
  OBVIOUS
<1>1. TypeInv
  BY InitType
<1>2. All = <<>>
  BY DEF Init, All
<1>3. TakenKeys = {} /\ KeysApart
  BY <1>2 DEF TakenKeys, KeysApart, Distinct
<1>4. TodoItems = {} /\ ExternalItems = {} /\ RefItems = {}
  BY DEF Init, TodoItems, ExternalItems, RefItems
<1>5. \A x, y \in RootItems : x = y
  <2>1. Len(roots) = 1
    BY DEF Init
  <2>2. \A x \in RootItems : x = RootItem(1)
    BY <2>1 DEF RootItems
  <2> QED BY <2>2
<1>6. WaitingInv
  BY <1>3, <1>4, <1>5 DEF WaitingInv, Waiting, AllApart, FreeOf
<1>7. Named
  BY DEF Init, Named, NamesInv, LaidInv
<1> QED BY <1>1, <1>3, <1>6, <1>7 DEF KeyInv

LEMMA NextKey == KeyInv /\ [Next]_vars => KeyInv'
<1> SUFFICES ASSUME KeyInv, [Next]_vars PROVE KeyInv'
  OBVIOUS
<1>1. TypeInv /\ TypeInv' /\ NamesInv /\ Named'
  <2>1. TypeInv /\ TypeInv'
    BY NextType DEF KeyInv
  <2> QED BY <2>1, NextNamed DEF KeyInv, Named
<1>2. CASE BeginWalk
  BY <1>1, <1>2, BeginWalkKey
<1>3. CASE FailUnreadableRoot \/ FailExternalCycle \/ FailUnsupplied
  <2>1. pc' = "exited" /\ UNCHANGED <<local, installed, records>>
    BY <1>3 DEF FailUnreadableRoot, FailExternalCycle, FailUnsupplied, Fail, walkVars, roundVars
  <2> QED BY <1>1, <2>1, SameItems DEF KeyInv, WaitingInv
<1>4. CASE SkipNoSource
  BY <1>1, <1>4, SkipKey
<1>5. CASE TakeExternal
  BY <1>1, <1>5, TakeKey
<1>6. CASE EnterLocal
  BY <1>1, <1>6, EnterKey
<1>7. CASE FailLocal
  <2>1. Walking /\ block.kind = "local" /\ pc # "exited" /\ pc' = "exited"
    BY <1>7 DEF FailLocal, Fail, Walking
  <2>2. First \in Waiting /\ First.key = ThisKey /\ First.own = FALSE
    BY <1>1, <2>1, FirstWaits
  <2>3. LocalRecord \in Record /\ LocalRecord.key = ThisKey
    BY <1>1, <2>1, LocalType DEF LocalRecord
  <2>4. local' = Append(local, LocalRecord) /\ UNCHANGED <<installed, records>>
    BY <1>7 DEF FailLocal, roundVars
  <2>5. KeysApart'
    BY <1>1, <2>1, <2>2, <2>3, <2>4, FreshKey, LocalAdded DEF KeyInv
  <2> QED BY <1>1, <2>1, <2>5 DEF KeyInv, WaitingInv
<1>8. CASE Return
  BY <1>1, <1>8, ReturnKey
<1>9. CASE CollectRefs
  BY <1>1, <1>9, CollectKey
<1>10. CASE \E d \in DOMAIN in.deps : Install(d)
  BY <1>1, <1>10, InstallKey
<1>11. CASE NextRound
  BY <1>1, <1>11, NextRoundKey
<1>12. CASE Write \/ UNCHANGED vars
  <2>1. UNCHANGED <<roots, root, stack, external, refs, local, installed, records>> /\ (pc = "exited" => pc' = "exited")
    BY <1>12 DEF Write, vars, walkVars, roundVars
  <2>2. Waiting' = Waiting /\ TakenKeys' = TakenKeys /\ (KeysApart' <=> KeysApart)
    BY <2>1, SameItems DEF Waiting
  <2>3. WaitingInv'
    BY <2>1, <2>2 DEF KeyInv, WaitingInv, AllApart, FreeOf
  <2> QED BY <1>1, <2>2, <2>3 DEF KeyInv
<1> QED BY <1>2, <1>3, <1>4, <1>5, <1>6, <1>7, <1>8, <1>9, <1>10, <1>11, <1>12 DEF Next, Exited

(***************************************************************************)
(* Where the block names of each directory are distinct, no two modules get *)
(* one key, in whatever packages their blocks are and whatever round         *)
(* installs them: nothing is installed on top of another module             *)
(* (init.go:868).                                                           *)
(***************************************************************************)
THEOREM KeysSafety == Spec => []KeysUnique
<1>1. (NamesDistinct => KeyInv) => KeysUnique
  BY DEF KeyInv, KeysApart, Distinct, KeysUnique
<1>2. Init => (NamesDistinct => KeyInv)
  BY InitKey
<1>3. (NamesDistinct => KeyInv) /\ [Next]_vars => (NamesDistinct => KeyInv)'
  BY NextKey, NamesStay
<1> QED BY <1>1, <1>2, <1>3, PTL DEF Spec

-------------------------------------------------------------------------------
(***************************************************************************)
(* Copies: the sources of a root are those of all that is installed at it   *)
(* or above it.                                                             *)
(***************************************************************************)
SourceOf(k) == normalizeModuleSource(in.deps[disk[k]].source)

CopiesApart == \A k, l \in DOMAIN disk : IsStrictPrefix(k, l) => SourceOf(k) # SourceOf(l)

\* What is on the disk is recorded, and so is what this round has installed,
\* and a root but the tree's.
HeldInv ==
  /\ DOMAIN disk \subseteq TakenKeys
  /\ \A n \in 1..Len(records) : refs[n].ref.key \in TakenKeys
  /\ \A n \in 1..Len(roots) : roots[n].prefix = <<>> \/ roots[n].prefix \in TakenKeys

RootSourcesInv ==
  \A n \in 1..Len(roots) : \A k \in DOMAIN disk :
    Below(k, roots[n].prefix) => SourceOf(k) \in roots[n].sources

\* The walk of a root passes nothing installed but what is above the root.
WalkInv ==
  /\ \A i \in 1..Len(stack) : \A k \in DOMAIN disk : Below(k, stack[i].key) => Below(k, roots[root].prefix)
  /\ stack # <<>> => \A n \in 1..Len(external) : \A k \in DOMAIN disk :
                       Below(k, external[n].key) => Below(k, roots[root].prefix)

RoundInv ==
  \A n \in 1..Len(refs) :
    /\ normalizeModuleSource(refs[n].ref.source) \notin roots[refs[n].root].sources
    /\ \A k \in DOMAIN disk : Below(k, refs[n].ref.key) =>
                                k = refs[n].ref.key \/ Below(k, roots[refs[n].root].prefix)

InstalledInv ==
  \A n \in 1..Len(records) : refs[n].ref.key \in DOMAIN disk =>
    SourceOf(refs[n].ref.key) = normalizeModuleSource(refs[n].ref.source)

CopyInv == KeyInv /\ HeldInv /\ RootSourcesInv /\ WalkInv /\ RoundInv /\ InstalledInv /\ CopiesApart

\* Where nothing is installed, nothing is copied.
LEMMA SameCopies ==
  ASSUME UNCHANGED <<in, disk, laid>>
  PROVE  (CopiesApart' <=> CopiesApart) /\ \A k : SourceOf(k)' = SourceOf(k)
BY DEF CopiesApart, SourceOf

LEMMA SameRound ==
  ASSUME UNCHANGED <<in, disk, laid, roots, refs, records>>
  PROVE  /\ RootSourcesInv' <=> RootSourcesInv
         /\ RoundInv' <=> RoundInv
         /\ InstalledInv' <=> InstalledInv
BY SameCopies DEF RootSourcesInv, RoundInv, InstalledInv

\* No key that waits in the walk is on the disk.
LEMMA ThisKeyFresh ==
  ASSUME CopyInv, Walking, block.kind # "none"
  PROVE  /\ ThisKey \in Key /\ Frame.key \in Key /\ Len(stack) \in 1..Len(stack) /\ Frame = stack[Len(stack)]
         /\ \A k \in DOMAIN disk : Below(k, ThisKey) => Below(k, roots[root].prefix)
<1>1. TypeInv /\ KeyInv /\ pc # "exited"
  BY DEF CopyInv, KeyInv, Walking
<1>2. /\ ThisKey \in Key /\ Frame.key \in Key /\ Len(stack) \in 1..Len(stack) /\ Frame = stack[Len(stack)]
      /\ block.name \in Name /\ ThisKey = Append(Frame.key, block.name)
  BY <1>1, TopType DEF Frame, ThisKey
<1>3. ThisKey \notin TakenKeys
  BY <1>1, FirstWaits, FreshKey DEF KeyInv, Named
<1>4. ASSUME NEW k \in DOMAIN disk, Below(k, ThisKey) PROVE Below(k, roots[root].prefix)
  <2>1. k \in Key /\ k # ThisKey
    BY <1>1, <1>3 DEF CopyInv, HeldInv, TypeInv, DiskInv
  <2>2. Below(k, Frame.key)
    BY <1>2, <1>4, <2>1, BelowChild
  <2> QED BY <1>2, <2>2 DEF CopyInv, WalkInv
<1> QED BY <1>2, <1>4

LEMMA BeginWalkCopy == ASSUME CopyInv, BeginWalk, KeyInv' PROVE CopyInv'
<1>1. UNCHANGED <<in, disk, laid, roots, refs, records>> /\ TakenKeys' = TakenKeys
  BY SameItems DEF BeginWalk, roundVars
<1>2. WalkInv'
  <2>1. Len(stack') = 1 /\ stack'[1].key = roots'[root'].prefix /\ external' = <<>>
    BY DEF BeginWalk, roundVars
  <2> QED BY <2>1 DEF WalkInv
<1> QED BY <1>1, <1>2, SameCopies, SameRound DEF CopyInv, HeldInv

LEMMA DealCopy ==
  ASSUME CopyInv, Walking, KeyInv', stack' = Advanced, UNCHANGED <<in, disk, laid, roots, root, refs, records>>,
         TakenKeys' = TakenKeys,
         \/ external' = external
         \/ block.kind # "none" /\ \E e : external' = Append(external, e) /\ e.key = ThisKey
  PROVE  CopyInv'
<1>1. TypeInv
  BY DEF CopyInv, KeyInv
<1>2. WalkInv'
  <2>1. Len(stack') = Len(stack) /\ \A i \in 1..Len(stack) : stack'[i].key = stack[i].key
    BY <1>1, TopType
  <2>2. ASSUME NEW n \in 1..Len(external'), NEW k \in DOMAIN disk, Below(k, external'[n].key)
        PROVE  Below(k, roots[root].prefix)
    <3>1. CASE external' = external
      BY <2>2, <3>1 DEF CopyInv, WalkInv, Walking
    <3>2. CASE block.kind # "none" /\ \E e : external' = Append(external, e) /\ e.key = ThisKey
      <4>1. external \in Seq(Ref)
        BY <1>1 DEF TypeInv, StackInv
      <4>2. (n \in 1..Len(external) /\ external'[n] = external[n]) \/ external'[n].key = ThisKey
        BY <3>2, <4>1
      <4> QED BY <2>2, <3>2, <4>2, ThisKeyFresh DEF CopyInv, WalkInv, Walking
    <3> QED BY <3>1, <3>2
  <2> QED BY <2>1, <2>2 DEF CopyInv, WalkInv
<1> QED BY <1>2, SameCopies, SameRound DEF CopyInv, HeldInv

LEMMA EnterCopy == ASSUME CopyInv, EnterLocal, KeyInv' PROVE CopyInv'
<1>1. TypeInv /\ Walking /\ block.kind = "local" /\ UNCHANGED <<in, disk, laid, roots, root, refs, records, external>>
  BY DEF CopyInv, KeyInv, EnterLocal, roundVars
<1>2. TakenKeys \subseteq TakenKeys'
  <2>1. LocalRecord \in Record /\ local' = Append(local, LocalRecord) /\ UNCHANGED <<installed, records>>
    BY <1>1, LocalType DEF EnterLocal, roundVars
  <2> QED BY <1>1, <2>1, LocalAdded
<1>3. WalkInv'
  <2> DEFINE new == [key |-> ThisKey, dir |-> childDir, todo |-> Blocks(childDir)]
  <2>1. stack' = Append(Advanced, new) /\ new.key = ThisKey
    BY DEF EnterLocal
  <2> HIDE DEF new
  <2>2. /\ Len(stack') = Len(stack) + 1 /\ stack'[Len(stack) + 1].key = ThisKey
        /\ \A i \in 1..Len(stack) : stack'[i].key = stack[i].key
    BY <1>1, <2>1, TopType
  <2>3. ASSUME NEW i \in 1..Len(stack'), NEW k \in DOMAIN disk, Below(k, stack'[i].key)
        PROVE  Below(k, roots[root].prefix)
    <3>1. CASE i \in 1..Len(stack)
      BY <2>2, <2>3, <3>1 DEF CopyInv, WalkInv
    <3>2. CASE i = Len(stack) + 1
      BY <1>1, <2>2, <2>3, <3>2, ThisKeyFresh
    <3> QED BY <1>1, <2>2, <3>1, <3>2, TopType
  <2> QED BY <1>1, <2>3 DEF CopyInv, WalkInv, Walking
<1> QED BY <1>1, <1>2, <1>3, SameCopies, SameRound DEF CopyInv, HeldInv

LEMMA ReturnCopy == ASSUME CopyInv, Return, KeyInv' PROVE CopyInv'
<1>1. UNCHANGED <<in, disk, laid, roots, root, refs, records, external>> /\ TakenKeys' = TakenKeys /\ TypeInv
  BY SameItems DEF Return, roundVars, CopyInv, KeyInv
<1>2. WalkInv'
  BY <1>1, ReturnStack DEF Return, CopyInv, WalkInv
<1> QED BY <1>1, <1>2, SameCopies, SameRound DEF CopyInv, HeldInv

LEMMA CollectCopy == ASSUME CopyInv, CollectRefs, KeyInv' PROVE CopyInv'
<1>1. UNCHANGED <<in, disk, laid, roots, root, records>> /\ TakenKeys' = TakenKeys /\ TypeInv /\ stack' = <<>> /\ stack # <<>>
  <2>1. stack # <<>>
    BY DEF CollectRefs, WalkEnded
  <2> QED BY <2>1, SameItems DEF CollectRefs, CopyInv, KeyInv
<1>2. /\ Len(refs) \in Nat /\ Len(external) \in Nat /\ Len(refs') = Len(refs) + Len(external)
      /\ Len(records) <= Len(refs) /\ Len(records) \in Nat
      /\ \A n \in 1..Len(refs) : refs'[n] = refs[n]
      /\ \A n \in 1..Len(external) : refs'[Len(refs) + n].ref = external[n] /\ refs'[Len(refs) + n].root = root
  <2>1. ASSUME NEW n \in 1..Len(external)
        PROVE  refs'[Len(refs) + n].ref = external[n] /\ refs'[Len(refs) + n].root = root
    <3>1. refs'[Len(refs) + n] = [ref |-> external[n], root |-> root]
      BY <1>1, CollectedRefs
    <3> QED BY <3>1
  <2>2. Len(refs') = Len(refs) + Len(external) /\ \A n \in 1..Len(refs) : refs'[n] = refs[n]
    BY <1>1, CollectedRefs
  <2>3. Len(refs) \in Nat /\ Len(external) \in Nat /\ Len(records) <= Len(refs) /\ Len(records) \in Nat
    BY <1>1 DEF TypeInv, RefsInv, StackInv, RecordsInv
  <2> QED BY <2>1, <2>2, <2>3
<1>3. RoundInv'
  <2> SUFFICES ASSUME NEW n \in 1..Len(refs')
               PROVE  /\ normalizeModuleSource(refs'[n].ref.source) \notin roots[refs'[n].root].sources
                      /\ \A k \in DOMAIN disk : Below(k, refs'[n].ref.key) =>
                           k = refs'[n].ref.key \/ Below(k, roots[refs'[n].root].prefix)
    BY <1>1 DEF RoundInv, normalizeModuleSource
  <2>1. CASE n \in 1..Len(refs)
    BY <1>2, <2>1 DEF CopyInv, RoundInv
  <2>2. CASE n \notin 1..Len(refs)
    <3>1. n - Len(refs) \in 1..Len(external) /\ n = Len(refs) + (n - Len(refs))
      BY <1>2, <2>2
    <3>2. refs'[n].ref = external[n - Len(refs)] /\ refs'[n].root = root
      BY <1>2, <3>1
    <3>3. normalizeModuleSource(external[n - Len(refs)].source) \notin roots[root].sources
      BY <3>1 DEF CollectRefs, ReachesItself
    <3> QED BY <1>1, <3>1, <3>2, <3>3 DEF CopyInv, WalkInv
  <2> QED BY <2>1, <2>2
<1>4. InstalledInv'
  BY <1>1, <1>2, SameCopies DEF CopyInv, InstalledInv
<1>5. WalkInv'
  BY <1>1 DEF WalkInv
<1>6. RootSourcesInv' /\ HeldInv' /\ CopiesApart'
  BY <1>1, <1>2, SameCopies DEF CopyInv, RootSourcesInv, HeldInv
<1> QED BY <1>3, <1>4, <1>5, <1>6 DEF CopyInv

\* Of two references of a round, neither is below the other; nor is what is
\* recorded below one that has no record.
LEMMA RefsApart ==
  ASSUME KeyInv, pc # "exited"
  PROVE  /\ \A m, n \in 1..Len(refs) : m # n => Apart(refs[m].ref.key, refs[n].ref.key)
         /\ \A n \in 1..Len(refs) : \A t \in TakenKeys :
              Below(refs[n].ref.key, t) => n <= Len(records)
<1>1. AllApart(Waiting) /\ FreeOf(Waiting, TakenKeys)
  BY DEF KeyInv, WaitingInv
<1>2. \A n \in 1..Len(refs) : /\ RefItem(n) \in Waiting /\ RefItem(n).key = refs[n].ref.key /\ RefItem(n).at = n
                              /\ RefItem(n).own = (n <= Len(records))
  BY DEF Waiting, RefItems, RefItem
<1>3. \A m, n \in 1..Len(refs) : m # n => RefItem(m) # RefItem(n)
  BY <1>2
<1>4. \A m, n \in 1..Len(refs) : m # n => Apart(refs[m].ref.key, refs[n].ref.key)
  BY <1>1, <1>2, <1>3 DEF AllApart
<1>5. \A n \in 1..Len(refs) : \A t \in TakenKeys : Below(refs[n].ref.key, t) => n <= Len(records)
  BY <1>1, <1>2 DEF FreeOf
<1> QED BY <1>4, <1>5

LEMMA InstallCopy == ASSUME CopyInv, NEW d \in DOMAIN in.deps, Install(d), KeyInv' PROVE CopyInv'
<1> PICK m : m = Len(records) + 1
  OBVIOUS
<1> PICK key : key = refs[m].ref.key
  OBVIOUS
<1> PICK name : name = normalizeModuleSource(refs[m].ref.source)
  OBVIOUS
<1>1. KeyInv /\ TypeInv /\ Installing /\ pc # "exited" /\ UNCHANGED <<in, roots, root, refs, stack, external>>
  BY DEF CopyInv, KeyInv, Install, Installing, walkVars
<1>2. /\ m \in 1..Len(refs) /\ Len(records) \in Nat /\ Len(records') = m
      /\ key \in Key /\ key # <<>> /\ ref = refs[m].ref
  <2>1. ref \in Ref /\ m \in 1..Len(refs)
    BY <1>1, RefType
  <2>2. records \in Seq(Record) /\ Len(records') = Len(records) + 1
    BY <1>1 DEF TypeInv, RecordsInv, Install
  <2> QED BY <2>1, <2>2 DEF Ref, ref
<1>3. key \notin TakenKeys /\ key \notin DOMAIN disk
  BY <1>1, <1>2, RefsApart, BelowItself DEF CopyInv, HeldInv
<1>4. disk' = [k \in DOMAIN disk \cup {key} |-> IF k = key THEN d ELSE disk[k]]
  BY <1>2 DEF Install
<1>5. DOMAIN disk' = DOMAIN disk \cup {key} /\ disk'[key] = d /\ \A k \in DOMAIN disk : disk'[k] = disk[k]
  BY <1>3, <1>4
<1>6. normalizeModuleSource(in.deps[d].source) = name
  <2>1. matchExternal(ref) = {d}
    BY DEF Install
  <2>2. d \in Candidates(ref)
    BY <2>1 DEF matchExternal, Best, Satisfying
  <2> QED BY <1>2, <2>2 DEF Candidates
<1>7. SourceOf(key)' = name /\ \A k \in DOMAIN disk : SourceOf(k)' = SourceOf(k)
  BY <1>1, <1>5, <1>6 DEF SourceOf, normalizeModuleSource
<1>8. TakenKeys' = TakenKeys \cup {key}
  <2> DEFINE new == [key |-> ref.key, dir |-> At(ref.key, in.deps[d].subdir), dep |-> d,
                     spelled |-> in.deps[d].source.spelled]
  <2>1. records' = Append(records, new) /\ UNCHANGED <<installed, local>> /\ new.key = key
    BY <1>2 DEF Install, walkVars
  <2>2. new \in Record
    <3>1. m \in 1..Len(records') /\ records'[m] = new
      BY <1>1, <1>2, <2>1 DEF TypeInv, RecordsInv
    <3>2. Record' = Record /\ records' \in Seq(Record')
      BY <1>1 DEF Record, CopyInv, KeyInv, TypeInv, RecordsInv
    <3> QED BY <3>1, <3>2
  <2> HIDE DEF new
  <2> QED BY <1>1, <2>1, <2>2, RecordAdded
<1>9. HeldInv'
  <2>1. ASSUME NEW n \in 1..Len(records') PROVE refs[n].ref.key \in TakenKeys'
    BY <1>2, <1>8 DEF CopyInv, HeldInv
  <2> QED BY <1>1, <1>5, <1>8, <2>1 DEF CopyInv, HeldInv
<1>10. RootSourcesInv'
  <2> SUFFICES ASSUME NEW n \in 1..Len(roots), NEW k \in DOMAIN disk \cup {key}, Below(k, roots[n].prefix)
               PROVE  SourceOf(k)' \in roots[n].sources
    BY <1>1, <1>5 DEF RootSourcesInv
  <2>1. ~Below(key, roots[n].prefix)
    <3>1. CASE roots[n].prefix = <<>>
      BY <1>2, <3>1 DEF Below, Key
    <3>2. CASE roots[n].prefix \in TakenKeys
      BY <1>1, <1>2, <3>2, RefsApart
    <3> QED BY <3>1, <3>2 DEF CopyInv, HeldInv
  <2> QED BY <1>7, <2>1 DEF CopyInv, RootSourcesInv
<1>11. WalkInv'
  <2>1. stack' = <<>>
    BY <1>1 DEF Installing, TypeInv, StackInv
  <2> QED BY <2>1 DEF WalkInv
<1>12. RoundInv'
  <2>1. ASSUME NEW n \in 1..Len(refs), NEW k \in DOMAIN disk \cup {key}, Below(k, refs[n].ref.key)
        PROVE  k = refs[n].ref.key \/ Below(k, roots[refs[n].root].prefix)
    <3>1. CASE k = key
      BY <1>1, <1>2, <2>1, <3>1, RefsApart DEF Apart
    <3>2. CASE k \in DOMAIN disk
      BY <2>1, <3>2 DEF CopyInv, RoundInv
    <3> QED BY <3>1, <3>2
  <2> QED BY <1>1, <1>5, <2>1 DEF CopyInv, RoundInv, normalizeModuleSource
<1>13. InstalledInv'
  <2> SUFFICES ASSUME NEW n \in 1..m, NEW k \in DOMAIN disk \cup {key}, k = refs[n].ref.key
               PROVE  SourceOf(k)' = normalizeModuleSource(refs[n].ref.source)
    BY <1>1, <1>2, <1>5 DEF InstalledInv, normalizeModuleSource, SourceOf
  <2>1. CASE n = m
    BY <1>7, <2>1
  <2>2. CASE n # m
    <3>1. n \in 1..Len(records) /\ n \in 1..Len(refs)
      BY <1>2, <2>2
    <3>2. k # key
      BY <1>1, <1>2, <2>2, <3>1, RefsApart, BelowItself DEF Apart
    <3> QED BY <1>7, <3>1, <3>2 DEF CopyInv, InstalledInv
  <2> QED BY <2>1, <2>2
<1>14. CopiesApart'
  <2> SUFFICES ASSUME NEW k \in DOMAIN disk \cup {key}, NEW l \in DOMAIN disk \cup {key}, IsStrictPrefix(k, l)
               PROVE  SourceOf(k)' # SourceOf(l)'
    BY <1>5 DEF CopiesApart, SourceOf
  <2>1. Below(k, l) /\ k # l /\ k \in Key /\ l \in Key
    BY <1>1, <1>2, PrefixBelow DEF TypeInv, DiskInv
  <2>2. CASE k \in DOMAIN disk /\ l \in DOMAIN disk
    BY <1>7, <2>2 DEF CopyInv, CopiesApart, SourceOf
  <2>3. CASE k = key /\ l \in DOMAIN disk
    BY <1>1, <1>2, <2>1, <2>3, RefsApart DEF CopyInv, HeldInv
  <2>4. CASE k \in DOMAIN disk /\ l = key
    <3>1. Below(k, roots[refs[m].root].prefix) /\ name \notin roots[refs[m].root].sources
      BY <1>2, <2>1, <2>4 DEF CopyInv, RoundInv
    <3>2. refs[m].root \in 1..Len(roots)
      BY <1>1, <1>2 DEF TypeInv, RefsInv
    <3>3. SourceOf(k) \in roots[refs[m].root].sources
      BY <2>4, <3>1, <3>2 DEF CopyInv, RootSourcesInv
    <3> QED BY <1>7, <2>4, <3>1, <3>3
  <2> QED BY <2>1, <2>2, <2>3, <2>4
<1> QED BY <1>9, <1>10, <1>11, <1>12, <1>13, <1>14 DEF CopyInv

LEMMA NextRoundCopy == ASSUME CopyInv, NextRound, KeyInv' PROVE CopyInv'
<1>1. TypeInv /\ UNCHANGED <<in, disk, laid, stack>> /\ stack = <<>> /\ refs' = <<>> /\ records' = <<>>
  BY DEF CopyInv, KeyInv, NextRound, TypeInv, StackInv
<1>2. /\ Len(roots') = Len(refs) /\ Len(refs) = Len(records)
      /\ \A n \in 1..Len(refs) :
           /\ roots'[n].prefix = refs[n].ref.key
           /\ roots'[n].sources = roots[refs[n].root].sources \cup {normalizeModuleSource(refs[n].ref.source)}
  BY <1>1, NextRoots
<1>3. TakenKeys' = TakenKeys /\ (CopiesApart' <=> CopiesApart) /\ \A k : SourceOf(k)' = SourceOf(k)
  BY <1>1, NextRoundSame, SameCopies
<1>4. HeldInv'
  BY <1>1, <1>2, <1>3 DEF CopyInv, HeldInv
<1>5. RootSourcesInv'
  <2> SUFFICES ASSUME NEW n \in 1..Len(refs), NEW k \in DOMAIN disk, Below(k, refs[n].ref.key)
               PROVE  SourceOf(k) \in roots[refs[n].root].sources \cup {normalizeModuleSource(refs[n].ref.source)}
    BY <1>1, <1>2, <1>3 DEF RootSourcesInv
  <2>1. CASE k = refs[n].ref.key
    BY <1>2, <2>1 DEF CopyInv, InstalledInv
  <2>2. CASE Below(k, roots[refs[n].root].prefix)
    <3>1. refs[n].root \in 1..Len(roots)
      BY <1>1 DEF TypeInv, RefsInv
    <3> QED BY <2>2, <3>1 DEF CopyInv, RootSourcesInv
  <2> QED BY <2>1, <2>2 DEF CopyInv, RoundInv
<1>6. WalkInv' /\ RoundInv' /\ InstalledInv'
  BY <1>1 DEF WalkInv, RoundInv, InstalledInv
<1> QED BY <1>3, <1>4, <1>5, <1>6 DEF CopyInv

\* A step that neither walks nor installs.
LEMMA ElseCopy ==
  ASSUME CopyInv, KeyInv', UNCHANGED <<in, disk, laid, roots, root, stack, external, refs, records>>,
         TakenKeys \subseteq TakenKeys'
  PROVE  CopyInv'
<1>1. HeldInv'
  BY DEF CopyInv, HeldInv
<1>2. WalkInv'
  BY DEF CopyInv, WalkInv
<1> QED BY <1>1, <1>2, SameRound, SameCopies DEF CopyInv

LEMMA InitCopy == Init /\ NamesDistinct => CopyInv
<1> SUFFICES ASSUME Init, NamesDistinct PROVE CopyInv
  OBVIOUS
<1>1. KeyInv /\ Len(roots) = 1 /\ roots[1].prefix = <<>> /\ DOMAIN disk = {} /\ Len(refs) = 0 /\ Len(records) = 0
  BY InitKey DEF Init
<1> QED BY <1>1 DEF Init, CopyInv, HeldInv, RootSourcesInv, WalkInv, RoundInv, InstalledInv, CopiesApart

LEMMA NextCopy == CopyInv /\ [Next]_vars => CopyInv'
<1> SUFFICES ASSUME CopyInv, [Next]_vars PROVE CopyInv'
  OBVIOUS
<1>1. KeyInv' /\ TypeInv
  BY NextKey DEF CopyInv, KeyInv
<1>2. CASE BeginWalk
  BY <1>1, <1>2, BeginWalkCopy
<1>3. CASE FailUnreadableRoot \/ FailExternalCycle \/ FailUnsupplied \/ Write \/ UNCHANGED vars
  <2>1. UNCHANGED <<in, disk, laid, roots, root, stack, external, refs, records, local, installed>>
    BY <1>3 DEF FailUnreadableRoot, FailExternalCycle, FailUnsupplied, Write, vars, walkVars, roundVars
  <2> QED BY <1>1, <2>1, SameItems, ElseCopy
<1>4. CASE SkipNoSource
  BY <1>1, <1>4, SameItems, DealCopy DEF SkipNoSource, roundVars
<1>5. CASE TakeExternal
  <2>1. \E e : external' = Append(external, e) /\ e.key = ThisKey
    BY <1>5 DEF TakeExternal
  <2> QED BY <1>1, <1>5, <2>1, SameItems, DealCopy DEF TakeExternal, roundVars
<1>6. CASE EnterLocal
  BY <1>1, <1>6, EnterCopy
<1>7. CASE FailLocal
  <2>1. LocalRecord \in Record /\ local' = Append(local, LocalRecord) /\ UNCHANGED <<installed, records>>
    BY <1>1, <1>7, LocalType DEF FailLocal, roundVars
  <2>2. TakenKeys \subseteq TakenKeys'
    BY <1>1, <2>1, LocalAdded
  <2> QED BY <1>1, <1>7, <2>2, ElseCopy DEF FailLocal, roundVars
<1>8. CASE Return
  BY <1>1, <1>8, ReturnCopy
<1>9. CASE CollectRefs
  BY <1>1, <1>9, CollectCopy
<1>10. CASE \E d \in DOMAIN in.deps : Install(d)
  BY <1>1, <1>10, InstallCopy
<1>11. CASE NextRound
  BY <1>1, <1>11, NextRoundCopy
<1> QED BY <1>2, <1>3, <1>4, <1>5, <1>6, <1>7, <1>8, <1>9, <1>10, <1>11 DEF Next, Exited

(***************************************************************************)
(* Whatever calls whatever, in however many rounds: a module that reaches   *)
(* itself is refused before there is a second copy of it below the first    *)
(* (init.go:766-778), where the block names of each directory are distinct. *)
(***************************************************************************)
THEOREM CopySafety == Spec => []NoSpuriousCopy
<1>1. (NamesDistinct => CopyInv) => NoSpuriousCopy
  BY DEF CopyInv, CopiesApart, SourceOf, NoSpuriousCopy
<1>2. Init => (NamesDistinct => CopyInv)
  BY InitCopy
<1>3. (NamesDistinct => CopyInv) /\ [Next]_vars => (NamesDistinct => CopyInv)'
  <2>1. CopyInv => NamesDistinct
    BY DEF CopyInv, KeyInv, Named
  <2> QED BY <2>1, NextCopy, NamesStay
<1> QED BY <1>1, <1>2, <1>3, PTL DEF Spec

-------------------------------------------------------------------------------
(***************************************************************************)
(* The manifest is the module tree: it lacks nothing, and nothing is in it *)
(* that no block calls for.                                                *)
(***************************************************************************)

-------------------------------------------------------------------------------
(***************************************************************************)
(* The best of the deps that satisfy a block                                *)
(***************************************************************************)

\* The deps are a list: their versions have a bound.
FinitelyManyDeps ==
  \A i \in Inputs : /\ DOMAIN i.deps \subseteq Nat \ {0}
                    /\ \E m \in Nat : \A d \in DOMAIN i.deps : i.deps[d].version <= m

LEMMA Least ==
  ASSUME NEW S \in SUBSET Nat, S # {}
  PROVE  \E m \in S : \A n \in S : m <= n
<1> DEFINE smaller == {pair \in Nat \X Nat : pair[1] < pair[2]}
<1>1. IsWellFoundedOn(smaller, Nat)
  BY NatLessThanWellFounded, Zenon DEF OpToRel
<1>2. PICK m \in S : \A n \in S : <<n, m>> \notin smaller
  BY <1>1, WFMin
<1>3. \A n \in S : ~(n < m)
  BY <1>2
<1> QED BY <1>3

LEMMA BestExists ==
  ASSUME FinitelyManyDeps, TypeInv, NEW r, Satisfying(r) # {}
  PROVE  Best(r) # {}
<1> DEFINE bounds == {u \in Nat : \A e \in Satisfying(r) : in.deps[e].version <= u}
<1>1. Satisfying(r) \subseteq DOMAIN in.deps /\ DOMAIN in.deps \subseteq Nat
  BY DEF FinitelyManyDeps, TypeInv, InInv, Satisfying, Candidates
<1>2. \A e \in Satisfying(r) : in.deps[e].version \in Nat
  BY <1>1, InputsAssumption DEF TypeInv, InInv, IsDep
<1>3. bounds # {}
  BY <1>1 DEF FinitelyManyDeps, TypeInv, InInv
<1>4. PICK u \in bounds : \A v \in bounds : u <= v
  BY <1>3, Least
<1>5. \E e \in Satisfying(r) : in.deps[e].version = u
  <2> SUFFICES ASSUME \A e \in Satisfying(r) : in.deps[e].version # u PROVE FALSE
    OBVIOUS
  <2>1. \A e \in Satisfying(r) : in.deps[e].version <= u - 1
    BY <1>2
  <2>2. u - 1 \in Nat
    BY <1>2, <2>1
  <2>3. u - 1 \in bounds
    BY <2>1, <2>2
  <2> QED BY <1>4, <2>3
<1> DEFINE best == {e \in Satisfying(r) : in.deps[e].version = u}
<1>6. PICK d \in best : \A e \in best : d <= e
  <2>1. best # {} /\ best \subseteq Nat
    BY <1>1, <1>5
  <2> HIDE DEF best
  <2> QED BY <2>1, Least
<1>7. d \in Satisfying(r) /\ in.deps[d].version = u
  BY <1>6
<1>8. ASSUME NEW e \in Satisfying(r)
      PROVE  in.deps[e].version < in.deps[d].version \/ (in.deps[e].version = in.deps[d].version /\ d <= e)
  BY <1>2, <1>6, <1>7
<1> QED BY <1>7, <1>8 DEF Best

\* What is installed for a reference is what the engine would choose.
LEMMA MatchHonours ==
  ASSUME FinitelyManyDeps, TypeInv, NEW r, NEW d, matchExternal(r) = {d}
  PROVE  d \in DOMAIN in.deps /\ d # 0 /\ Honours(d, r)
<1>1. Honours(d, r)
  <2>1. CASE Best(r) # {}
    <3>1. d \in Best(r)
      BY <2>1 DEF matchExternal
    <3>2. d \in Satisfying(r) /\ d \in Candidates(r)
      BY <3>1 DEF Best, Satisfying
    <3>3. \A e \in Satisfying(r) : in.deps[e].version <= in.deps[d].version
      <4> TAKE e \in Satisfying(r)
      <4>1. in.deps[e].version < in.deps[d].version \/ in.deps[e].version = in.deps[d].version
        BY <3>1 DEF Best
      <4>2. in.deps[e].version \in Nat /\ in.deps[d].version \in Nat
        BY <3>2, InputsAssumption DEF TypeInv, InInv, IsDep, Satisfying, Candidates
      <4> QED BY <4>1, <4>2
    <3> QED BY <3>2, <3>3 DEF Honours, Satisfying
  <2>2. CASE Best(r) = {}
    <3>1. Satisfying(r) = {}
      BY <2>2, BestExists
    <3>2. d \in Candidates(r) /\ Candidates(r) = {d}
      BY <2>2 DEF matchExternal
    <3> QED BY <3>1, <3>2 DEF Honours, Satisfying
  <2> QED BY <2>1, <2>2
<1>2. d \in DOMAIN in.deps
  BY <1>1 DEF Honours, Candidates
<1> QED BY <1>1, <1>2 DEF FinitelyManyDeps, TypeInv, InInv

-------------------------------------------------------------------------------
(***************************************************************************)
(* What is recorded, and what is still to be: the roots not walked, the     *)
(* blocks not read, the references not installed.                           *)
(***************************************************************************)
Recs  == ToSet(local) \cup ToSet(installed) \cup ToSet(records)
Known == Recs \cup {RootRecord}

Unwalked == {<<roots[n].prefix, roots[n].dir>> : n \in {m \in 1..Len(roots) : m > root}}

BlocksOfFrame(f) == {<<f.key, f.dir, f.todo[j]>> : j \in 1..Len(f.todo)}
ToRead == UNION {BlocksOfFrame(stack[i]) : i \in 1..Len(stack)}

ToInstall == {external[n] : n \in {m \in 1..Len(external) : stack # <<>>}}
               \cup {refs[n].ref : n \in {m \in 1..Len(refs) : m > Len(records)}}

BlocksOf(dir) == {Blocks(dir)[n] : n \in 1..Len(Blocks(dir))}

RefOf(p, b) == [key |-> Append(p.key, b.name), source |-> b.source, version |-> b.version]

\* The block needs no record, has it, or is still to be treated.
Treated(p, b) ==
  \/ b.kind = "none"
  \/ \E c \in Recs : c.key = Append(p.key, b.name) /\ Answers(c, b, p.dir)
  \/ <<p.key, p.dir, b>> \in ToRead
  \/ b.kind = "external" /\ RefOf(p, b) \in ToInstall

\* The module is still to be walked, in this round or the next, or all its
\* blocks are treated.
Covered(p) ==
  \/ <<p.key, p.dir>> \in Unwalked
  \/ p \in ToSet(records)
  \/ Readable(p.dir) /\ \A b \in BlocksOf(p.dir) : Treated(p, b)

CoveredInv == \A p \in Known : Covered(p)

Called(c) == \E p \in Known : Calls(p, c)

\* Whatever is recorded, or will be, some module calls for it.
GroundInv ==
  /\ \A c \in Recs : Called(c)
  /\ \A u \in Unwalked : \E p \in Known : u = <<p.key, p.dir>>
  /\ \A t \in ToRead : \E p \in Known : \E b \in BlocksOf(p.dir) : t = <<p.key, p.dir, b>>
  /\ \A r \in ToInstall : \E p \in Known : \E b \in BlocksOf(p.dir) :
       b.kind = "external" /\ r = RefOf(p, b)

\* What is recorded is there, and a record of this round is its reference's.
PlaceInv ==
  /\ \A c \in Recs : There(c.dir) /\ (c.dep # 0 => c.key \in DOMAIN disk)
  /\ \A n \in 1..Len(records) : records[n].key = refs[n].ref.key

PhaseInv ==
  /\ pc = "install" => root = Len(roots)
  /\ pc \in {"write", "done"} => Len(roots) = 0 /\ Len(refs) = 0 /\ Len(records) = 0
  /\ pc # "done" => manifest = {}
  /\ pc = "done" => manifest = IF Recs = {} THEN {} ELSE Known

TreeInv == /\ CopyInv /\ PhaseInv
           /\ pc # "exited" => PlaceInv /\ GroundInv /\ CoveredInv

-------------------------------------------------------------------------------
(***************************************************************************)
(* A step that installs nothing on top of anything                          *)
(***************************************************************************)
Steady == /\ in' = in
          /\ \A k \in DOMAIN disk : k \in DOMAIN disk' /\ disk'[k] = disk[k] /\ laid'[k] = laid[k]

LEMMA SteadyDir ==
  ASSUME Steady, NEW dir, There(dir)
  PROVE  /\ There(dir)' /\ (Readable(dir)' <=> Readable(dir))
         /\ Blocks(dir)' = Blocks(dir) /\ BlocksOf(dir)' = BlocksOf(dir)
<1>1. Package(dir)' = Package(dir) /\ There(dir)'
  BY DEF Steady, There, Package
<1>2. Blocks(dir)' = Blocks(dir)
  BY <1>1 DEF Blocks
<1> QED BY <1>1, <1>2 DEF Readable, BlocksOf

LEMMA SteadyHonours ==
  ASSUME in' = in, NEW d, NEW b
  PROVE  Honours(d, b)' <=> Honours(d, b)
BY DEF Honours, Candidates, normalizeModuleSource

LEMMA SteadyAnswers ==
  ASSUME Steady, NEW c, c.dep # 0 => c.key \in DOMAIN disk, NEW b, NEW dir, Answers(c, b, dir)
  PROVE  Answers(c, b, dir)'
<1>1. Honours(c.dep, b)' <=> Honours(c.dep, b)
  BY SteadyHonours DEF Steady
<1> QED BY <1>1 DEF Steady, Answers, At

LEMMA SteadyCalls ==
  ASSUME Steady, NEW c, c.dep # 0 => c.key \in DOMAIN disk, NEW p, There(p.dir), Calls(p, c)
  PROVE  Calls(p, c)'
<1>1. PICK n \in 1..Len(Blocks(p.dir)) :
        c.key = Append(p.key, Blocks(p.dir)[n].name) /\ Answers(c, Blocks(p.dir)[n], p.dir)
  BY DEF Calls
<1>2. Blocks(p.dir)' = Blocks(p.dir)
  BY SteadyDir
<1>3. Answers(c, Blocks(p.dir)[n], p.dir)'
  BY <1>1, <1>2, SteadyAnswers
<1> QED BY <1>1, <1>2, <1>3 DEF Calls

\* What a step adds, a module calls for.
AddsGrounded ==
  /\ Recs \subseteq Recs'
  /\ \A c \in Recs' \ Recs : Called(c)'
  /\ \A u \in Unwalked' \ Unwalked : \E p \in Known' : u = <<p.key, p.dir>>
  /\ \A t \in ToRead' \ ToRead : \E p \in Known' : \E b \in BlocksOf(p.dir)' : t = <<p.key, p.dir, b>>
  /\ \A r \in ToInstall' \ ToInstall : \E p \in Known' : \E b \in BlocksOf(p.dir)' :
       b.kind = "external" /\ r = RefOf(p, b)

\* What is no longer to be treated after a step has been.
LosesTreated ==
  /\ \A p \in Known' \ Known : Covered(p)'
  /\ \A p \in Known : <<p.key, p.dir>> \in Unwalked \ Unwalked' => Covered(p)'
  /\ \A p \in ToSet(records) \ ToSet(records)' : Covered(p)'
  /\ \A p \in Known : \A b \in BlocksOf(p.dir) :
       /\ <<p.key, p.dir, b>> \in ToRead \ ToRead' => Treated(p, b)'
       /\ b.kind = "external" /\ RefOf(p, b) \in ToInstall \ ToInstall' => Treated(p, b)'

LEMMA KnownThere == ASSUME PlaceInv, NEW p \in Known PROVE There(p.dir)
BY DEF PlaceInv, Known, RootRecord, There, InTree

LEMMA KnownGrows ==
  ASSUME Recs \subseteq Recs'
  PROVE  /\ Known \subseteq Known' /\ Known' \ Known \subseteq Recs' \ Recs
         /\ \A p, b : RefOf(p, b)' = RefOf(p, b)
BY DEF Known, RootRecord, InTree, RefOf

LEMMA Onward ==
  ASSUME PlaceInv, GroundInv, CoveredInv, Steady, AddsGrounded, LosesTreated
  PROVE  GroundInv' /\ CoveredInv'
<1>1. Known \subseteq Known' /\ \A p, b : RefOf(p, b)' = RefOf(p, b)
  BY KnownGrows DEF AddsGrounded
<1>2. \A p \in Known : There(p.dir) /\ BlocksOf(p.dir)' = BlocksOf(p.dir) /\ (Readable(p.dir)' <=> Readable(p.dir))
  BY KnownThere, SteadyDir
<1>3. GroundInv'
  <2>1. ASSUME NEW c \in Recs' PROVE Called(c)'
    <3>1. CASE c \in Recs
      <4>1. PICK p \in Known : Calls(p, c)
        BY <3>1 DEF GroundInv, Called
      <4>2. c.dep # 0 => c.key \in DOMAIN disk
        BY <3>1 DEF PlaceInv
      <4>3. Calls(p, c)'
        BY <1>2, <4>1, <4>2, SteadyCalls
      <4> QED BY <1>1, <4>3 DEF Called
    <3>2. CASE c \notin Recs
      BY <3>2 DEF AddsGrounded
    <3> QED BY <3>1, <3>2
  <2>2. ASSUME NEW u \in Unwalked' PROVE \E p \in Known' : u = <<p.key, p.dir>>
    BY <1>1 DEF GroundInv, AddsGrounded
  <2>3. ASSUME NEW t \in ToRead' PROVE \E p \in Known' : \E b \in BlocksOf(p.dir)' : t = <<p.key, p.dir, b>>
    BY <1>1, <1>2 DEF GroundInv, AddsGrounded
  <2>4. ASSUME NEW r \in ToInstall'
        PROVE  \E p \in Known' : \E b \in BlocksOf(p.dir)' : b.kind = "external" /\ r = RefOf(p, b)'
    BY <1>1, <1>2 DEF GroundInv, AddsGrounded
  <2> QED BY <2>1, <2>2, <2>3, <2>4 DEF GroundInv
<1>4. ASSUME NEW p \in Known, NEW b \in BlocksOf(p.dir), Treated(p, b) PROVE Treated(p, b)'
  <2>1. ASSUME NEW c \in Recs, c.key = Append(p.key, b.name), Answers(c, b, p.dir) PROVE Treated(p, b)'
    <3>1. c \in Recs' /\ (c.dep # 0 => c.key \in DOMAIN disk)
      BY DEF AddsGrounded, PlaceInv
    <3>2. Answers(c, b, p.dir)'
      BY <2>1, <3>1, SteadyAnswers
    <3> QED BY <2>1, <3>1, <3>2 DEF Treated
  <2>2. ASSUME <<p.key, p.dir, b>> \in ToRead PROVE Treated(p, b)'
    BY <2>2 DEF LosesTreated, Treated
  <2>3. ASSUME b.kind = "external", RefOf(p, b) \in ToInstall PROVE Treated(p, b)'
    BY <1>1, <2>3 DEF LosesTreated, Treated
  <2>4. ASSUME b.kind = "none" PROVE Treated(p, b)'
    BY <2>4 DEF Treated
  <2> QED BY <1>4, <2>1, <2>2, <2>3, <2>4 DEF Treated
<1>5. CoveredInv'
  <2> SUFFICES ASSUME NEW p \in Known' PROVE Covered(p)'
    BY DEF CoveredInv
  <2>1. CASE p \notin Known
    BY <2>1 DEF LosesTreated
  <2>2. CASE p \in Known
    <3>1. CASE <<p.key, p.dir>> \in Unwalked
      BY <2>2, <3>1 DEF LosesTreated, Covered
    <3>2. CASE p \in ToSet(records)
      BY <3>2 DEF LosesTreated, Covered
    <3>3. CASE Readable(p.dir) /\ \A b \in BlocksOf(p.dir) : Treated(p, b)
      BY <1>2, <1>4, <2>2, <3>3 DEF Covered
    <3> QED BY <2>2, <3>1, <3>2, <3>3 DEF CoveredInv, Covered
  <2> QED BY <2>1, <2>2
<1> QED BY <1>3, <1>5

-------------------------------------------------------------------------------
(***************************************************************************)
(* What each step does to these sets                                        *)
(***************************************************************************)
LEMMA SetOfAppend ==
  ASSUME NEW S, NEW s \in Seq(S), NEW x \in S
  PROVE  ToSet(Append(s, x)) = ToSet(s) \cup {x}
<1>1. Len(Append(s, x)) = Len(s) + 1 /\ DOMAIN Append(s, x) = 1..(Len(s) + 1) /\ DOMAIN s = 1..Len(s)
  OBVIOUS
<1>2. Append(s, x)[Len(s) + 1] = x /\ \A i \in 1..Len(s) : Append(s, x)[i] = s[i]
  OBVIOUS
<1> QED BY <1>1, <1>2 DEF ToSet

LEMMA SetOfJoined ==
  ASSUME NEW S, NEW s \in Seq(S), NEW t \in Seq(S)
  PROVE  ToSet(s \o t) = ToSet(s) \cup ToSet(t)
<1>1. /\ DOMAIN (s \o t) = 1..(Len(s) + Len(t)) /\ DOMAIN s = 1..Len(s) /\ DOMAIN t = 1..Len(t)
      /\ Len(s) \in Nat /\ Len(t) \in Nat
  OBVIOUS
<1>2. /\ \A n \in 1..Len(s) : (s \o t)[n] = s[n]
      /\ \A n \in 1..Len(t) : (s \o t)[Len(s) + n] = t[n]
  BY Joined
<1>3. ASSUME NEW n \in 1..(Len(s) + Len(t)) PROVE (s \o t)[n] \in ToSet(s) \cup ToSet(t)
  <2>1. CASE n \in 1..Len(s)
    BY <1>1, <1>2, <2>1 DEF ToSet
  <2>2. CASE n \notin 1..Len(s)
    <3>1. n - Len(s) \in 1..Len(t) /\ n = Len(s) + (n - Len(s))
      BY <1>1, <2>2
    <3> QED BY <1>1, <1>2, <3>1 DEF ToSet
  <2> QED BY <2>1, <2>2
<1>4. ASSUME NEW n \in 1..Len(s) PROVE s[n] \in ToSet(s \o t)
  BY <1>1, <1>2 DEF ToSet
<1>5. ASSUME NEW n \in 1..Len(t) PROVE t[n] \in ToSet(s \o t)
  <2>1. Len(s) + n \in 1..(Len(s) + Len(t))
    BY <1>1
  <2> QED BY <1>1, <1>2, <2>1 DEF ToSet
<1> QED BY <1>1, <1>3, <1>4, <1>5 DEF ToSet

LEMMA SameSets ==
  /\ UNCHANGED <<local, installed, records>> => Recs' = Recs /\ Known' = Known
  /\ UNCHANGED <<roots, root>> => Unwalked' = Unwalked
  /\ UNCHANGED stack => ToRead' = ToRead
  /\ UNCHANGED <<stack, external, refs, records>> => ToInstall' = ToInstall
  /\ UNCHANGED <<in, disk, laid>> => Steady
BY DEF Recs, Known, RootRecord, InTree, Unwalked, ToRead, BlocksOfFrame, ToInstall, Steady

LEMMA SamePlaces ==
  ASSUME PlaceInv, UNCHANGED <<in, disk, laid, records>>, \A c \in Recs' \ Recs : There(c.dir) /\ c.dep = 0,
         \A n \in 1..Len(records) : refs'[n] = refs[n]
  PROVE  PlaceInv'
BY DEF PlaceInv, There

\* The block that is dealt with, of the module that has it.
Dealt == <<Frame.key, Frame.dir, block>>

Undealt == UNION {BlocksOfFrame(Advanced[i]) : i \in 1..Len(Advanced)}

LEMMA DealtRead ==
  ASSUME TypeInv, Walking
  PROVE  /\ Dealt \in ToRead /\ Undealt \subseteq ToRead /\ ToRead \subseteq Undealt \cup {Dealt}
         /\ stack' = Advanced => ToRead' = Undealt
<1>1. /\ Len(stack) \in 1..Len(stack) /\ Len(Advanced) = Len(stack)
      /\ \A i \in 1..Len(stack) :
              /\ Advanced[i].key = stack[i].key /\ Advanced[i].dir = stack[i].dir
              /\ Advanced[i].todo = IF i = Len(stack) THEN Tail(stack[i].todo) ELSE stack[i].todo
  BY TopType
<1>2. Frame.todo \in Seq(Block) /\ Frame.todo # <<>> /\ Frame = stack[Len(stack)]
  BY TopType DEF Call, Walking, Frame
<1>3. /\ Len(Frame.todo) \in Nat \ {0} /\ 1 \in 1..Len(Frame.todo) /\ Len(Tail(Frame.todo)) = Len(Frame.todo) - 1
      /\ \A j \in 1..Len(Tail(Frame.todo)) : Tail(Frame.todo)[j] = Frame.todo[j + 1] /\ j + 1 \in 1..Len(Frame.todo)
  BY <1>2
<1>4. ASSUME NEW i \in 1..Len(stack)
      PROVE  /\ BlocksOfFrame(Advanced[i]) \subseteq BlocksOfFrame(stack[i])
             /\ BlocksOfFrame(stack[i]) \subseteq BlocksOfFrame(Advanced[i]) \cup {Dealt}
  <2>1. CASE i # Len(stack)
    BY <1>1, <2>1 DEF BlocksOfFrame
  <2>2. CASE i = Len(stack)
    <3>1. /\ Advanced[i].key = Frame.key /\ Advanced[i].dir = Frame.dir /\ stack[i] = Frame
          /\ Advanced[i].todo = Tail(Frame.todo)
      BY <1>1, <1>2, <2>2
    <3>2. BlocksOfFrame(Advanced[i]) \subseteq BlocksOfFrame(stack[i])
      BY <1>3, <3>1 DEF BlocksOfFrame
    <3>3. ASSUME NEW j \in 1..Len(Frame.todo)
          PROVE  <<Frame.key, Frame.dir, Frame.todo[j]>> \in BlocksOfFrame(Advanced[i]) \cup {Dealt}
      <4>1. CASE j = 1
        BY <4>1 DEF Dealt, block
      <4>2. CASE j # 1
        <5>1. j - 1 \in 1..Len(Tail(Frame.todo)) /\ Tail(Frame.todo)[j - 1] = Frame.todo[j]
          BY <1>3, <4>2
        <5> QED BY <3>1, <5>1 DEF BlocksOfFrame
      <4> QED BY <4>1, <4>2
    <3> QED BY <3>1, <3>2, <3>3 DEF BlocksOfFrame
  <2> QED BY <2>1, <2>2
<1>5. Undealt = UNION {BlocksOfFrame(Advanced[i]) : i \in 1..Len(stack)}
  BY <1>1 DEF Undealt
<1>6. Dealt \in ToRead
  <2>1. Dealt \in BlocksOfFrame(stack[Len(stack)])
    BY <1>2, <1>3 DEF Dealt, block, BlocksOfFrame
  <2> QED BY <1>1, <2>1 DEF ToRead
<1>7. Undealt \subseteq ToRead /\ ToRead \subseteq Undealt \cup {Dealt}
  <2>1. ToRead = UNION {BlocksOfFrame(stack[i]) : i \in 1..Len(stack)}
    BY DEF ToRead
  <2> QED BY <1>4, <1>5, <2>1
<1>8. stack' = Advanced => ToRead' = Undealt
  BY DEF Undealt, ToRead, BlocksOfFrame
<1> QED BY <1>6, <1>7, <1>8

-------------------------------------------------------------------------------
(***************************************************************************)
(* The steps                                                                *)
(***************************************************************************)
TreeKept == PlaceInv /\ GroundInv /\ CoveredInv

LEMMA SameToInstall ==
  ASSUME UNCHANGED <<external, refs, records>>, stack # <<>>, stack' # <<>>
  PROVE  ToInstall' = ToInstall
BY DEF ToInstall

LEMMA AdvancedStack == ASSUME TypeInv, Walking PROVE Advanced # <<>> /\ stack # <<>>
BY TopType DEF Walking, Advanced

LEMMA SkipTree == ASSUME TypeInv, TreeKept, SkipNoSource PROVE TreeKept'
<1>1. /\ Walking /\ stack' = Advanced /\ block.kind = "none"
      /\ UNCHANGED <<in, external, local, roots, root, refs, records, installed, disk, laid>>
  BY DEF SkipNoSource, roundVars
<1>2. Recs' = Recs /\ Known' = Known /\ Unwalked' = Unwalked /\ ToInstall' = ToInstall /\ Steady
  BY <1>1, SameSets, SameToInstall, AdvancedStack
<1>3. ToRead' \subseteq ToRead /\ ToRead \subseteq ToRead' \cup {Dealt}
  BY <1>1, DealtRead
<1>4. \A p \in Known : \A b \in BlocksOf(p.dir) : <<p.key, p.dir, b>> \in ToRead \ ToRead' => Treated(p, b)'
  BY <1>1, <1>3 DEF Dealt, Treated
<1>5. AddsGrounded /\ LosesTreated
  BY <1>1, <1>2, <1>3, <1>4 DEF AddsGrounded, LosesTreated
<1>6. PlaceInv'
  BY <1>1, <1>2, SamePlaces DEF TreeKept
<1> QED BY <1>2, <1>5, <1>6, Onward DEF TreeKept

LEMMA TakeTree == ASSUME TypeInv, TreeKept, TakeExternal PROVE TreeKept'
<1> DEFINE new == [key |-> ThisKey, source |-> block.source, version |-> block.version]
<1>1. /\ Walking /\ stack' = Advanced /\ block.kind = "external" /\ external' = Append(external, new)
      /\ UNCHANGED <<in, local, roots, root, refs, records, installed, disk, laid>>
  BY DEF TakeExternal, roundVars
<1>2. Recs' = Recs /\ Known' = Known /\ Unwalked' = Unwalked /\ Steady
  BY <1>1, SameSets
<1>3. Dealt \in ToRead /\ ToRead' \subseteq ToRead /\ ToRead \subseteq ToRead' \cup {Dealt}
  BY <1>1, DealtRead
<1>4. ToInstall' = ToInstall \cup {new}
  <2>1. external \in Seq(Ref) /\ stack # <<>> /\ stack' # <<>>
    BY <1>1, AdvancedStack DEF TypeInv, StackInv
  <2>2. /\ Len(external) \in Nat /\ Len(external') = Len(external) + 1 /\ external'[Len(external) + 1] = new
        /\ \A n \in 1..Len(external) : external'[n] = external[n]
    BY <1>1, <2>1
  <2> HIDE DEF new
  <2>3. {external'[n] : n \in 1..Len(external')} = {external[n] : n \in 1..Len(external)} \cup {new}
    BY <2>2
  <2>4. ToInstall = {external[n] : n \in 1..Len(external)} \cup {refs[n].ref : n \in {m \in 1..Len(refs) : m > Len(records)}}
    BY <2>1 DEF ToInstall
  <2>5. ToInstall' = {external'[n] : n \in 1..Len(external')} \cup {refs[n].ref : n \in {m \in 1..Len(refs) : m > Len(records)}}
    BY <1>1, <2>1 DEF ToInstall
  <2> QED BY <2>3, <2>4, <2>5
<1>5. ASSUME NEW p \in Known, NEW b \in BlocksOf(p.dir), Dealt = <<p.key, p.dir, b>>
      PROVE  b.kind = "external" /\ RefOf(p, b) = new
  BY <1>1, <1>5 DEF Dealt, RefOf, ThisKey
<1> HIDE DEF new
<1>6. \A p \in Known : \A b \in BlocksOf(p.dir) : <<p.key, p.dir, b>> \in ToRead \ ToRead' => Treated(p, b)'
  <2> SUFFICES ASSUME NEW p \in Known, NEW b \in BlocksOf(p.dir), <<p.key, p.dir, b>> \in ToRead \ ToRead'
               PROVE  Treated(p, b)'
    OBVIOUS
  <2>1. b.kind = "external" /\ RefOf(p, b) \in ToInstall'
    BY <1>3, <1>4, <1>5
  <2>2. RefOf(p, b)' = RefOf(p, b)
    BY DEF RefOf
  <2> QED BY <2>1, <2>2 DEF Treated
<1>7. \E p \in Known' : \E b \in BlocksOf(p.dir)' : b.kind = "external" /\ new = RefOf(p, b)
  <2>1. PICK p \in Known : \E b \in BlocksOf(p.dir) : Dealt = <<p.key, p.dir, b>>
    BY <1>3 DEF TreeKept, GroundInv
  <2>2. BlocksOf(p.dir)' = BlocksOf(p.dir)
    BY <1>2, SteadyDir, KnownThere DEF TreeKept
  <2> QED BY <1>2, <1>5, <2>1, <2>2
<1>8. AddsGrounded /\ LosesTreated
  BY <1>1, <1>2, <1>3, <1>4, <1>6, <1>7 DEF AddsGrounded, LosesTreated
<1>9. PlaceInv'
  BY <1>1, <1>2, SamePlaces DEF TreeKept
<1> QED BY <1>2, <1>8, <1>9, Onward DEF TreeKept

LEMMA EnterTree == ASSUME TypeInv, TreeKept, EnterLocal PROVE TreeKept'
<1> PICK c : c = LocalRecord
  OBVIOUS
<1> PICK dir : dir = childDir
  OBVIOUS
<1> PICK key : key = ThisKey
  OBVIOUS
<1> DEFINE new == [key |-> key, dir |-> dir, todo |-> Blocks(dir)]
<1>1. /\ Walking /\ stack' = Append(Advanced, new) /\ block.kind = "local" /\ Readable(dir)
      /\ local' = Append(local, c)
      /\ UNCHANGED <<in, external, roots, root, refs, records, installed, disk, laid>>
  BY DEF EnterLocal, roundVars
<1>2. dir \in Dir /\ There(dir) /\ c \in Record /\ key \in Key
  BY <1>1, LocalType, TopType
<1>3. /\ c.key = key /\ c.dir = dir /\ c.dep = 0
      /\ new.key = key /\ new.dir = dir /\ new.todo = Blocks(dir)
  BY DEF LocalRecord
<1>4. Unwalked' = Unwalked /\ Steady
  BY <1>1, SameSets
<1>5. Recs' = Recs \cup {c}
  <2>1. ToSet(local') = ToSet(local) \cup {c}
    BY <1>1, <1>2, SetOfAppend DEF TypeInv, RecordsInv
  <2> QED BY <1>1, <2>1 DEF Recs
<1>6. Dealt \in ToRead /\ Undealt \subseteq ToRead /\ ToRead \subseteq Undealt \cup {Dealt}
  BY <1>1, DealtRead
<1>7. BlocksOfFrame(new) = {<<key, dir, b>> : b \in BlocksOf(dir)}
  BY <1>3 DEF BlocksOfFrame, BlocksOf
<1>8. new \in Call
  <2>1. Blocks(dir) \in Seq(Block)
    BY <1>1, <1>2, BlocksType
  <2> QED BY <1>1, <1>2, <2>1, TopType DEF Call
<1>9. ToRead' = Undealt \cup BlocksOfFrame(new)
  <2> PICK f : f = new
    OBVIOUS
  <2> HIDE DEF new
  <2>1. /\ Advanced \in Seq(Call) /\ Len(Advanced) \in Nat /\ Len(stack') = Len(Advanced) + 1
        /\ stack'[Len(Advanced) + 1] = f /\ \A i \in 1..Len(Advanced) : stack'[i] = Advanced[i]
    BY <1>1, <1>8, TopType
  <2>2. UNION {BlocksOfFrame(stack'[i]) : i \in 1..Len(stack')} = Undealt \cup BlocksOfFrame(f)
    BY <2>1 DEF Undealt
  <2>3. ToRead' = UNION {BlocksOfFrame(stack'[i]) : i \in 1..Len(stack')}
    BY DEF ToRead, BlocksOfFrame
  <2> QED BY <2>2, <2>3
<1>10. ToInstall' = ToInstall
  <2> HIDE DEF new
  <2>1. stack' # <<>>
    BY <1>1, <1>8, TopType
  <2> QED BY <1>1, <2>1, SameToInstall, AdvancedStack
<1> HIDE DEF new
<1>11. Known' = Known \cup {c} /\ BlocksOf(dir)' = BlocksOf(dir) /\ (Readable(dir)' <=> Readable(dir))
  BY <1>2, <1>4, <1>5, SteadyDir DEF Known, RootRecord, InTree
<1>12. ASSUME NEW p \in Known, NEW b \in BlocksOf(p.dir), Dealt = <<p.key, p.dir, b>>
       PROVE  c.key = Append(p.key, b.name) /\ Answers(c, b, p.dir)'
  <2>1. p.key = Frame.key /\ p.dir = Frame.dir /\ b = block
    BY <1>12 DEF Dealt
  <2>2. b.kind = "local" /\ dir = [p.dir EXCEPT !.sub = b.to] /\ key = Append(p.key, b.name)
    BY <1>1, <2>1 DEF childDir, ThisKey
  <2> QED BY <1>3, <2>2 DEF Answers
<1>13. \A p \in Known : \A b \in BlocksOf(p.dir) : <<p.key, p.dir, b>> \in ToRead \ ToRead' => Treated(p, b)'
  <2> SUFFICES ASSUME NEW p \in Known, NEW b \in BlocksOf(p.dir), <<p.key, p.dir, b>> \in ToRead \ ToRead'
               PROVE  Treated(p, b)'
    OBVIOUS
  <2>1. c.key = Append(p.key, b.name) /\ Answers(c, b, p.dir)'
    BY <1>6, <1>9, <1>12
  <2> QED BY <1>5, <2>1 DEF Treated
<1>14. Called(c)'
  <2>1. PICK p \in Known : \E b \in BlocksOf(p.dir) : Dealt = <<p.key, p.dir, b>>
    BY <1>6 DEF TreeKept, GroundInv
  <2>2. PICK n \in 1..Len(Blocks(p.dir)) : Dealt = <<p.key, p.dir, Blocks(p.dir)[n]>>
    BY <2>1 DEF BlocksOf
  <2>3. PICK b : b = Blocks(p.dir)[n]
    OBVIOUS
  <2>4. c.key = Append(p.key, b.name) /\ Answers(c, b, p.dir)'
    BY <1>12, <2>2, <2>3 DEF BlocksOf
  <2>5. Blocks(p.dir)' = Blocks(p.dir)
    BY <1>4, SteadyDir, KnownThere DEF TreeKept
  <2>6. Calls(p, c)'
    BY <2>3, <2>4, <2>5 DEF Calls
  <2> QED BY <1>11, <2>6 DEF Called
<1>15. Covered(c)'
  <2>1. \A b \in BlocksOf(dir) : <<c.key, c.dir, b>> \in ToRead'
    BY <1>3, <1>7, <1>9
  <2> QED BY <1>1, <1>3, <1>11, <2>1 DEF Covered, Treated
<1>16. ASSUME NEW t \in ToRead' \ ToRead
       PROVE  \E p \in Known' : \E b \in BlocksOf(p.dir)' : t = <<p.key, p.dir, b>>
  BY <1>3, <1>6, <1>7, <1>9, <1>11
<1>17. AddsGrounded
  BY <1>4, <1>5, <1>10, <1>14, <1>16 DEF AddsGrounded
<1>18. LosesTreated
  BY <1>1, <1>4, <1>10, <1>11, <1>13, <1>15 DEF LosesTreated
<1>19. PlaceInv'
  BY <1>1, <1>2, <1>3, <1>5, SamePlaces DEF TreeKept
<1> QED BY <1>4, <1>17, <1>18, <1>19, Onward DEF TreeKept

LEMMA ReturnTree == ASSUME TypeInv, TreeKept, Return PROVE TreeKept'
<1>1. /\ Frame.todo = <<>> /\ Frame = stack[Len(stack)]
      /\ UNCHANGED <<in, external, local, roots, root, refs, records, installed, disk, laid>>
  BY DEF Return, roundVars, Frame
<1>2. Recs' = Recs /\ Known' = Known /\ Unwalked' = Unwalked /\ Steady
  BY <1>1, SameSets
<1>3. /\ Len(stack') = Len(stack) - 1 /\ Len(stack) \in Nat \ {0, 1}
      /\ \A i \in 1..Len(stack') : i \in 1..Len(stack) /\ stack'[i] = stack[i]
  BY ReturnStack
<1>4. ToRead' = ToRead
  <2>1. BlocksOfFrame(stack[Len(stack)]) = {}
    BY <1>1 DEF BlocksOfFrame
  <2>2. ToRead = UNION {BlocksOfFrame(stack[i]) : i \in 1..Len(stack)}
    BY DEF ToRead
  <2>3. ToRead' = UNION {BlocksOfFrame(stack'[i]) : i \in 1..Len(stack')}
    BY DEF ToRead, BlocksOfFrame
  <2>4. \A i \in 1..Len(stack) : i \in 1..Len(stack') \/ i = Len(stack)
    BY <1>3
  <2> QED BY <1>3, <2>1, <2>2, <2>3, <2>4
<1>5. ToInstall' = ToInstall
  <2>1. stack # <<>> /\ stack' # <<>>
    BY <1>3
  <2> QED BY <1>1, <2>1, SameToInstall
<1>6. AddsGrounded /\ LosesTreated
  BY <1>1, <1>2, <1>4, <1>5 DEF AddsGrounded, LosesTreated
<1>7. PlaceInv'
  BY <1>1, <1>2, SamePlaces DEF TreeKept
<1> QED BY <1>2, <1>6, <1>7, Onward DEF TreeKept

LEMMA BeginWalkTree == ASSUME TypeInv, TreeKept, BeginWalk PROVE TreeKept'
<1> PICK key : key = roots[root + 1].prefix
  OBVIOUS
<1> PICK dir : dir = roots[root + 1].dir
  OBVIOUS
<1> DEFINE new == [key |-> key, dir |-> dir, todo |-> Blocks(dir)]
<1>1. /\ stack = <<>> /\ stack' = <<new>> /\ external' = <<>> /\ root' = root + 1 /\ Readable(dir)
      /\ UNCHANGED <<in, local, roots, refs, records, installed, disk, laid>>
  BY DEF BeginWalk, roundVars
<1>2. root \in Nat /\ root + 1 \in 1..Len(roots) /\ There(dir)
  BY DEF TypeInv, RootsInv, BeginWalk
<1>3. Recs' = Recs /\ Known' = Known /\ Steady
  BY <1>1, SameSets
<1>4. Unwalked' \subseteq Unwalked /\ Unwalked \subseteq Unwalked' \cup {<<key, dir>>} /\ <<key, dir>> \in Unwalked
  <2>1. ASSUME NEW n \in {m \in 1..Len(roots) : m > root} PROVE n > root + 1 \/ n = root + 1
    BY <1>2
  <2> QED BY <1>1, <1>2, <2>1 DEF Unwalked
<1>5. ToRead = {} /\ ToRead' = {<<key, dir, b>> : b \in BlocksOf(dir)}
  <2> PICK f : f = new
    OBVIOUS
  <2>1. BlocksOfFrame(f) = {<<key, dir, b>> : b \in BlocksOf(dir)}
    BY DEF BlocksOfFrame, BlocksOf
  <2> HIDE DEF new
  <2>2. Len(stack') = 1 /\ stack'[1] = f
    BY <1>1
  <2>3. ToRead' = UNION {BlocksOfFrame(stack'[i]) : i \in 1..Len(stack')}
    BY DEF ToRead, BlocksOfFrame
  <2>4. ToRead' = BlocksOfFrame(f)
    BY <2>2, <2>3
  <2> QED BY <1>1, <2>1, <2>4 DEF ToRead
<1>6. ToInstall' = ToInstall
  BY <1>1 DEF ToInstall
<1> HIDE DEF new
<1>7. BlocksOf(dir)' = BlocksOf(dir) /\ (Readable(dir)' <=> Readable(dir))
  BY <1>2, <1>3, SteadyDir
<1>8. ASSUME NEW p \in Known, <<p.key, p.dir>> = <<key, dir>> PROVE Covered(p)'
  <2>1. p.key = key /\ p.dir = dir
    BY <1>8
  <2>2. \A b \in BlocksOf(dir) : <<p.key, p.dir, b>> \in ToRead'
    BY <1>5, <2>1
  <2> QED BY <1>1, <1>7, <2>1, <2>2 DEF Covered, Treated
<1>9. ASSUME NEW t \in ToRead' PROVE \E p \in Known' : \E b \in BlocksOf(p.dir)' : t = <<p.key, p.dir, b>>
  <2>1. PICK p \in Known : <<key, dir>> = <<p.key, p.dir>>
    BY <1>4 DEF TreeKept, GroundInv
  <2> QED BY <1>3, <1>5, <1>7, <2>1
<1>10. AddsGrounded /\ LosesTreated
  BY <1>1, <1>3, <1>4, <1>5, <1>6, <1>8, <1>9 DEF AddsGrounded, LosesTreated
<1>11. PlaceInv'
  BY <1>1, <1>3, SamePlaces DEF TreeKept
<1> QED BY <1>3, <1>10, <1>11, Onward DEF TreeKept

LEMMA CollectTree == ASSUME TypeInv, TreeKept, CollectRefs PROVE TreeKept'
<1>1. /\ stack' = <<>> /\ Len(stack) = 1 /\ stack[1].todo = <<>> /\ stack # <<>>
      /\ UNCHANGED <<in, external, local, roots, root, records, installed, disk, laid>>
  <2>1. Len(stack) = 1 /\ Frame = stack[Len(stack)] /\ Frame.todo = <<>>
    BY DEF CollectRefs, WalkEnded, Frame
  <2>2. stack # <<>> /\ stack[1].todo = <<>>
    BY <2>1
  <2> QED BY <2>1, <2>2 DEF CollectRefs
<1>2. Recs' = Recs /\ Known' = Known /\ Unwalked' = Unwalked /\ Steady
  BY <1>1, SameSets
<1>3. ToRead = {} /\ ToRead' = {}
  BY <1>1 DEF ToRead, BlocksOfFrame
<1>4. /\ Len(refs) \in Nat /\ Len(external) \in Nat /\ Len(records) \in Nat /\ Len(records) <= Len(refs)
      /\ Len(refs') = Len(refs) + Len(external)
      /\ \A n \in 1..Len(refs) : refs'[n] = refs[n]
      /\ \A n \in 1..Len(external) : refs'[Len(refs) + n].ref = external[n]
  <2>1. refs \in Seq(Pending) /\ external \in Seq(Ref) /\ records \in Seq(Record) /\ Len(records) <= Len(refs)
    BY DEF TypeInv, RefsInv, StackInv, RecordsInv
  <2>2. \A n \in 1..Len(external) : refs'[Len(refs) + n].ref = external[n]
    <3> TAKE n \in 1..Len(external)
    <3>1. refs'[Len(refs) + n] = [ref |-> external[n], root |-> root]
      BY CollectedRefs
    <3> QED BY <3>1
  <2> QED BY <2>1, <2>2, CollectedRefs
<1>5. ToInstall' = ToInstall
  <2>1. ToInstall = {external[n] : n \in 1..Len(external)} \cup {refs[n].ref : n \in {m \in 1..Len(refs) : m > Len(records)}}
    BY <1>1 DEF ToInstall
  <2>2. ToInstall' = {refs'[n].ref : n \in {m \in 1..Len(refs') : m > Len(records)}}
    BY <1>1 DEF ToInstall
  <2>3. ASSUME NEW n \in {m \in 1..Len(refs') : m > Len(records)} PROVE refs'[n].ref \in ToInstall
    <3>1. CASE n \in 1..Len(refs)
      BY <1>4, <2>1, <3>1
    <3>2. CASE n \notin 1..Len(refs)
      <4>1. n - Len(refs) \in 1..Len(external) /\ n = Len(refs) + (n - Len(refs))
        BY <1>4, <3>2
      <4> QED BY <1>4, <2>1, <4>1
    <3> QED BY <3>1, <3>2
  <2>4. ASSUME NEW n \in 1..Len(external) PROVE external[n] \in ToInstall'
    <3>1. Len(refs) + n \in {m \in 1..Len(refs') : m > Len(records)}
      BY <1>4
    <3> QED BY <1>4, <2>2, <3>1
  <2>5. ASSUME NEW n \in {m \in 1..Len(refs) : m > Len(records)} PROVE refs[n].ref \in ToInstall'
    <3>1. n \in {m \in 1..Len(refs') : m > Len(records)} /\ refs'[n] = refs[n]
      BY <1>4
    <3> QED BY <2>2, <3>1
  <2> QED BY <2>1, <2>2, <2>3, <2>4, <2>5
<1>6. AddsGrounded /\ LosesTreated
  BY <1>1, <1>2, <1>3, <1>5 DEF AddsGrounded, LosesTreated
<1>7. PlaceInv'
  BY <1>1, <1>2, <1>4, SamePlaces DEF TreeKept, PlaceInv
<1> QED BY <1>2, <1>6, <1>7, Onward DEF TreeKept

LEMMA InstallTree ==
  ASSUME FinitelyManyDeps, CopyInv, TreeKept, NEW d \in DOMAIN in.deps, Install(d), TypeInv'
  PROVE  TreeKept'
<1> PICK m : m = Len(records) + 1
  OBVIOUS
<1> PICK r : r = ref
  OBVIOUS
<1> DEFINE new == [key |-> r.key, dir |-> At(r.key, in.deps[d].subdir), dep |-> d,
                   spelled |-> in.deps[d].source.spelled]
<1> PICK c : c = new
  OBVIOUS
<1>1. /\ TypeInv /\ KeyInv /\ Installing /\ pc # "exited" /\ records' = Append(records, c) /\ matchExternal(r) = {d}
      /\ disk' = [k \in DOMAIN disk \cup {r.key} |-> IF k = r.key THEN d ELSE disk[k]]
      /\ UNCHANGED <<in, roots, root, refs, stack, external, installed, local>>
  BY DEF CopyInv, KeyInv, Install, Installing, walkVars
<1>2. m \in 1..Len(refs) /\ Len(records) \in Nat /\ r = refs[m].ref /\ r \in Ref /\ records \in Seq(Record)
  BY <1>1, RefType DEF TypeInv, RecordsInv, ref
<1>3. /\ c.key = r.key /\ c.dir = At(r.key, in.deps[d].subdir) /\ c.dep = d
      /\ d # 0 /\ Honours(d, r)
  BY <1>1, MatchHonours
<1> HIDE DEF new
<1>4. r.key \notin TakenKeys /\ r.key \notin DOMAIN disk
  BY <1>1, <1>2, RefsApart, BelowItself DEF CopyInv, HeldInv, Ref
<1>5. Steady /\ disk'[r.key] = d /\ r.key \in DOMAIN disk' /\ laid'[r.key] = in.deps[d].files
  <2>1. r.key \notin DOMAIN laid /\ DOMAIN laid = DOMAIN disk
    BY <1>1, <1>4 DEF TypeInv, DiskInv
  <2>2. laid' = [k \in DOMAIN laid \cup {r.key} |-> IF k = r.key THEN in.deps[d].files ELSE laid[k]]
    BY <2>1 DEF Install, copyManifestAll
  <2> QED BY <1>1, <1>4, <2>1, <2>2 DEF Steady
<1>6. c \in Record /\ Len(records') = m /\ records'[m] = c /\ \A n \in 1..Len(records) : records'[n] = records[n]
  <2>1. Len(records') = m /\ records'[m] = c /\ \A n \in 1..Len(records) : records'[n] = records[n]
    BY <1>1, <1>2
  <2>2. records' \in Seq(Record)
    BY <1>1 DEF TypeInv, RecordsInv, Record
  <2>3. m \in 1..Len(records')
    BY <1>2, <2>1
  <2> QED BY <2>1, <2>2, <2>3
<1>7. ToSet(records') = ToSet(records) \cup {c}
  BY <1>1, <1>2, <1>6, SetOfAppend
<1>8. Recs' = Recs \cup {c} /\ Known' = Known \cup {c}
  BY <1>1, <1>7 DEF Recs, Known, RootRecord, InTree
<1>9. Unwalked' = Unwalked /\ ToRead' = ToRead
  BY <1>1, SameSets
<1>10. r \in ToInstall /\ ToInstall' \subseteq ToInstall /\ ToInstall \subseteq ToInstall' \cup {r}
  <2>1. stack = <<>>
    BY <1>1 DEF Installing, TypeInv, StackInv
  <2>2. ToInstall = {refs[n].ref : n \in {k \in 1..Len(refs) : k > Len(records)}}
    BY <2>1 DEF ToInstall
  <2>3. ToInstall' = {refs[n].ref : n \in {k \in 1..Len(refs) : k > m}}
    BY <1>1, <1>6, <2>1 DEF ToInstall
  <2>4. \A n \in 1..Len(refs) : n > Len(records) <=> (n > m \/ n = m)
    BY <1>2
  <2> QED BY <1>2, <2>2, <2>3, <2>4
<1>11. ASSUME NEW p \in Known, NEW b \in BlocksOf(p.dir), b.kind = "external", RefOf(p, b) = r
       PROVE  c.key = Append(p.key, b.name) /\ Answers(c, b, p.dir)'
  <2>1. r.key = Append(p.key, b.name) /\ r.source = b.source /\ r.version = b.version
    BY <1>11 DEF RefOf
  <2>2. Honours(d, b)
    BY <1>3, <2>1 DEF Honours, Candidates
  <2>3. Honours(d, b)'
    BY <1>1, <2>2, SteadyHonours
  <2> QED BY <1>1, <1>3, <1>5, <1>11, <2>1, <2>3 DEF Answers, At
<1>12. ASSUME NEW p \in Known, NEW b \in BlocksOf(p.dir), b.kind = "external", RefOf(p, b) \in ToInstall \ ToInstall'
       PROVE  Treated(p, b)'
  <2>1. c.key = Append(p.key, b.name) /\ Answers(c, b, p.dir)'
    BY <1>10, <1>11, <1>12
  <2> QED BY <1>8, <2>1 DEF Treated
<1>13. Called(c)'
  <2>1. PICK p \in Known : \E b \in BlocksOf(p.dir) : b.kind = "external" /\ r = RefOf(p, b)
    BY <1>10 DEF TreeKept, GroundInv
  <2>2. PICK n \in 1..Len(Blocks(p.dir)) : Blocks(p.dir)[n].kind = "external" /\ r = RefOf(p, Blocks(p.dir)[n])
    BY <2>1 DEF BlocksOf
  <2> PICK b : b = Blocks(p.dir)[n]
    OBVIOUS
  <2>3. c.key = Append(p.key, b.name) /\ Answers(c, b, p.dir)'
    BY <1>11, <2>2 DEF BlocksOf
  <2>4. Blocks(p.dir)' = Blocks(p.dir)
    BY <1>5, SteadyDir, KnownThere DEF TreeKept
  <2>5. Calls(p, c)'
    BY <2>3, <2>4 DEF Calls
  <2> QED BY <1>8, <2>5 DEF Called
<1>14. Covered(c)'
  BY <1>7 DEF Covered
<1>15. AddsGrounded
  BY <1>8, <1>9, <1>10, <1>13 DEF AddsGrounded
<1>16. LosesTreated
  BY <1>7, <1>8, <1>9, <1>12, <1>14 DEF LosesTreated
<1>17. PlaceInv'
  <2>1. ASSUME NEW e \in Recs' PROVE There(e.dir)' /\ (e.dep # 0 => e.key \in DOMAIN disk')
    <3>1. CASE e \in Recs
      BY <1>5, <3>1, SteadyDir DEF TreeKept, PlaceInv, Steady
    <3>2. CASE e = c
      BY <1>3, <1>5, <3>2 DEF There, At
    <3> QED BY <1>8, <3>1, <3>2
  <2>2. ASSUME NEW n \in 1..Len(records') PROVE records'[n].key = refs'[n].ref.key
    <3>1. CASE n = m
      BY <1>1, <1>2, <1>3, <1>6, <3>1
    <3>2. CASE n # m
      <4>1. n \in 1..Len(records)
        BY <1>2, <1>6, <3>2
      <4> QED BY <1>1, <1>6, <4>1 DEF TreeKept, PlaceInv
    <3> QED BY <3>1, <3>2
  <2> QED BY <2>1, <2>2 DEF PlaceInv
<1> QED BY <1>5, <1>15, <1>16, <1>17, Onward DEF TreeKept

LEMMA NextRoundTree == ASSUME TypeInv, PhaseInv, TreeKept, NextRound PROVE TreeKept'
<1>1. /\ root = Len(roots) /\ stack = <<>> /\ root' = 0 /\ refs' = <<>> /\ records' = <<>> /\ Len(records) = Len(refs)
      /\ installed' = installed \o records
      /\ UNCHANGED <<in, disk, laid, stack, external, local>>
  BY DEF NextRound, PhaseInv, TypeInv, StackInv
<1>2. /\ Len(roots') = Len(refs) /\ Len(refs) \in Nat /\ records \in Seq(Record) /\ installed \in Seq(Record)
      /\ \A n \in 1..Len(refs) : roots'[n].prefix = records[n].key /\ roots'[n].dir = records[n].dir
  <2>1. refs \in Seq(Pending) /\ records \in Seq(Record) /\ installed \in Seq(Record)
    BY DEF TypeInv, RefsInv, RecordsInv
  <2>2. \A n \in 1..Len(refs) : records[n].key = refs[n].ref.key
    BY <1>1 DEF TreeKept, PlaceInv
  <2>3. \A n \in 1..Len(refs) : roots'[n].prefix = refs[n].ref.key /\ roots'[n].dir = records[n].dir
    <3> TAKE n \in 1..Len(refs)
    <3> QED BY NextRoots
  <2>4. Len(roots') = Len(refs)
    BY NextRoots
  <2> QED BY <2>1, <2>2, <2>3, <2>4
<1>3. ToSet(records') = {} /\ ToSet(installed') = ToSet(installed) \cup ToSet(records)
      /\ ToSet(records) = {records[n] : n \in 1..Len(refs)}
  <2>1. ToSet(records') = {}
    BY <1>1 DEF ToSet
  <2>2. ToSet(installed \o records) = ToSet(installed) \cup ToSet(records)
    BY <1>2, SetOfJoined
  <2>3. DOMAIN records = 1..Len(refs)
    BY <1>1, <1>2
  <2>4. ToSet(records) = {records[n] : n \in 1..Len(refs)}
    BY <2>3 DEF ToSet
  <2> QED BY <1>1, <2>1, <2>2, <2>4
<1>4. Recs' = Recs /\ Known' = Known /\ Steady
  BY <1>1, <1>3, SameSets DEF Recs, Known, RootRecord, InTree
<1>5. ToRead' = ToRead /\ ToInstall = {} /\ ToInstall' = {}
  BY <1>1, <1>2, SameSets DEF ToInstall
<1>6. Unwalked = {} /\ Unwalked' = {<<p.key, p.dir>> : p \in ToSet(records)}
  <2>1. Unwalked = {}
    BY <1>1 DEF Unwalked, TypeInv, RootsInv
  <2>2. Unwalked' = {<<roots'[n].prefix, roots'[n].dir>> : n \in 1..Len(refs)}
    <3>1. Unwalked' = {<<roots'[n].prefix, roots'[n].dir>> : n \in {m \in 1..Len(roots') : m > root'}}
      BY DEF Unwalked
    <3>2. {m \in 1..Len(roots') : m > root'} = 1..Len(refs)
      <4>1. root' = 0 /\ Len(roots') = Len(refs) /\ Len(refs) \in Nat
        BY <1>1, <1>2
      <4> QED BY <4>1
    <3> QED BY <3>1, <3>2
  <2>3. \A n \in 1..Len(refs) : <<roots'[n].prefix, roots'[n].dir>> = <<records[n].key, records[n].dir>>
    BY <1>2
  <2>4. ASSUME NEW u \in Unwalked' PROVE \E p \in ToSet(records) : u = <<p.key, p.dir>>
    BY <1>3, <2>2, <2>3
  <2>5. ASSUME NEW p \in ToSet(records) PROVE <<p.key, p.dir>> \in Unwalked'
    <3>1. PICK n \in 1..Len(refs) : p = records[n]
      BY <1>3
    <3> QED BY <2>2, <2>3, <3>1
  <2> QED BY <2>1, <2>4, <2>5
<1>7. AddsGrounded
  BY <1>3, <1>4, <1>5, <1>6 DEF AddsGrounded, Known, Recs
<1>8. LosesTreated
  BY <1>3, <1>4, <1>5, <1>6 DEF LosesTreated, Covered
<1>9. PlaceInv'
  BY <1>1, <1>4 DEF TreeKept, PlaceInv, There
<1> QED BY <1>4, <1>7, <1>8, <1>9, Onward DEF TreeKept

\* A step that changes none of this.
LEMMA StillTree ==
  ASSUME TreeKept, UNCHANGED <<in, disk, laid, roots, root, stack, external, refs, records, installed, local>>
  PROVE  TreeKept'
<1>1. /\ Recs' = Recs /\ Known' = Known /\ Unwalked' = Unwalked /\ ToRead' = ToRead
      /\ ToInstall' = ToInstall /\ Steady
  BY SameSets
<1>2. AddsGrounded /\ LosesTreated
  BY <1>1 DEF AddsGrounded, LosesTreated
<1>3. PlaceInv'
  BY <1>1, SamePlaces DEF TreeKept
<1> QED BY <1>1, <1>2, <1>3, Onward DEF TreeKept

LEMMA InitTree == Init /\ NamesDistinct => TreeInv
<1> SUFFICES ASSUME Init, NamesDistinct PROVE TreeInv
  OBVIOUS
<1>1. Recs = {} /\ Known = {RootRecord}
  BY DEF Init, Recs, Known, ToSet
<1>2. Unwalked = {<<RootRecord.key, RootRecord.dir>>}
  BY DEF Init, Unwalked, RootRecord
<1>3. ToRead = {} /\ ToInstall = {}
  BY DEF Init, ToRead, ToInstall
<1>4. PlaceInv /\ GroundInv /\ CoveredInv
  BY <1>1, <1>2, <1>3 DEF Init, PlaceInv, GroundInv, CoveredInv, Covered
<1>5. PhaseInv
  BY DEF Init, PhaseInv
<1> QED BY <1>4, <1>5, InitCopy DEF TreeInv

\* What is written is all that is recorded.
LEMMA WritePhase == ASSUME TypeInv, PhaseInv, Write PROVE PhaseInv'
<1>1. /\ pc = "write" /\ pc' = "done" /\ UNCHANGED <<local, installed, records, roots, refs>>
      /\ manifest' = IF local = <<>> /\ installed = <<>> THEN {}
                     ELSE {RootRecord} \cup ToSet(installed) \cup ToSet(local)
  BY DEF Write, walkVars, roundVars
<1>2. ToSet(records) = {} /\ Len(roots) = 0 /\ Len(refs) = 0 /\ Len(records) = 0
  <2>1. Len(records) = 0 /\ records \in Seq(Record) /\ Len(roots) = 0 /\ Len(refs) = 0
    BY <1>1 DEF PhaseInv, TypeInv, RecordsInv
  <2> QED BY <2>1 DEF ToSet
<1>3. \A s \in Seq(Record) : s = <<>> <=> ToSet(s) = {}
  BY DEF ToSet
<1>4. local = <<>> /\ installed = <<>> <=> Recs = {}
  BY <1>2, <1>3 DEF Recs, TypeInv, RecordsInv
<1>5. Known = {RootRecord} \cup ToSet(installed) \cup ToSet(local)
  BY <1>2 DEF Known, Recs
<1>6. Recs' = Recs /\ Known' = Known
  BY <1>1, SameSets
<1>7. manifest' = IF Recs = {} THEN {} ELSE Known
  BY <1>1, <1>4, <1>5
<1> QED BY <1>1, <1>2, <1>6, <1>7 DEF PhaseInv

LEMMA NextPhase == ASSUME TypeInv, PhaseInv, [Next]_vars PROVE PhaseInv'
<1>1. CASE \/ BeginWalk \/ SkipNoSource \/ TakeExternal \/ EnterLocal \/ Return
  <2>1. pc' = "walk" /\ pc = "walk" /\ manifest' = manifest
    BY <1>1 DEF BeginWalk, SkipNoSource, TakeExternal, EnterLocal, Return, Walking
  <2> QED BY <2>1 DEF PhaseInv
<1>2. CASE FailUnreadableRoot \/ FailLocal \/ FailExternalCycle \/ FailUnsupplied
  <2>1. pc' = "exited" /\ pc # "done" /\ manifest' = manifest
    BY <1>2 DEF FailUnreadableRoot, FailLocal, FailExternalCycle, FailUnsupplied, Fail, Walking, WalkEnded, Installing
  <2> QED BY <2>1 DEF PhaseInv
<1>3. CASE CollectRefs
  BY <1>3 DEF PhaseInv, CollectRefs, WalkEnded
<1>4. CASE \E d \in DOMAIN in.deps : Install(d)
  BY <1>4 DEF PhaseInv, Install, Installing, walkVars
<1>5. CASE NextRound
  <2>1. /\ pc = "install" /\ pc' = (IF refs = <<>> THEN "write" ELSE "walk") /\ refs' = <<>> /\ records' = <<>>
        /\ manifest' = manifest
    BY <1>5 DEF NextRound
  <2>2. Len(roots') = Len(refs)
    BY <1>5, NextRoots
  <2>3. refs = <<>> => Len(roots') = 0
    BY <2>2
  <2> QED BY <2>1, <2>3 DEF PhaseInv
<1>6. CASE Write
  BY <1>6, WritePhase
<1>7. CASE UNCHANGED vars
  <2>1. Recs' = Recs /\ Known' = Known
    BY <1>7, SameSets DEF vars
  <2> QED BY <1>7, <2>1 DEF vars, PhaseInv
<1> QED BY <1>1, <1>2, <1>3, <1>4, <1>5, <1>6, <1>7 DEF Next, Exited

LEMMA NextTree == ASSUME FinitelyManyDeps, TreeInv, [Next]_vars PROVE TreeInv'
<1>1. CopyInv /\ CopyInv' /\ TypeInv /\ TypeInv' /\ PhaseInv /\ PhaseInv'
  BY NextCopy, NextPhase DEF TreeInv, CopyInv, KeyInv
<1>2. CASE pc' = "exited"
  BY <1>1, <1>2 DEF TreeInv
<1>3. CASE pc' # "exited"
  <2>1. pc # "exited"
    <3>1. UNCHANGED vars => pc' = pc
      BY DEF vars
    <3> QED BY <1>3, <3>1 DEF Next, Exited, BeginWalk, FailUnreadableRoot, SkipNoSource, TakeExternal, EnterLocal,
                 FailLocal, Return, CollectRefs, FailExternalCycle, Install, FailUnsupplied, NextRound, Write,
                 Walking, WalkEnded, Installing
  <2>2. TreeKept
    BY <2>1 DEF TreeInv, TreeKept
  <2>3. ~(FailUnreadableRoot \/ FailLocal \/ FailExternalCycle \/ FailUnsupplied)
    BY <1>3 DEF FailUnreadableRoot, FailLocal, FailExternalCycle, FailUnsupplied, Fail
  <2>4. CASE Write \/ UNCHANGED vars
    <3>1. UNCHANGED <<in, disk, laid, roots, root, stack, external, refs, records, installed, local>>
      BY <2>4 DEF Write, vars, walkVars, roundVars
    <3> QED BY <1>1, <2>2, <3>1, StillTree DEF TreeInv, TreeKept
  <2>5. CASE BeginWalk \/ SkipNoSource \/ TakeExternal \/ EnterLocal \/ Return \/ CollectRefs
    BY <1>1, <2>2, <2>5, BeginWalkTree, SkipTree, TakeTree, EnterTree, ReturnTree, CollectTree DEF TreeInv, TreeKept
  <2>6. CASE NextRound
    BY <1>1, <2>2, <2>6, NextRoundTree DEF TreeInv, TreeKept
  <2>7. CASE \E d \in DOMAIN in.deps : Install(d)
    BY <1>1, <2>2, <2>7, InstallTree DEF TreeInv, TreeKept
  <2> QED BY <2>3, <2>4, <2>5, <2>6, <2>7 DEF Next, Exited
<1> QED BY <1>2, <1>3

-------------------------------------------------------------------------------
LEMMA TreeWritten ==
  ASSUME TreeInv, pc = "done"
  PROVE  /\ Modules = Known /\ Recs \subseteq manifest /\ manifest \ {RootRecord} \subseteq Recs
         /\ PlaceInv /\ GroundInv /\ CoveredInv
         /\ Unwalked = {} /\ ToRead = {} /\ ToInstall = {} /\ ToSet(records) = {}
<1>1. /\ Len(roots) = 0 /\ Len(refs) = 0 /\ Len(records) = 0
      /\ manifest = IF Recs = {} THEN {} ELSE Known
      /\ PlaceInv /\ GroundInv /\ CoveredInv /\ TypeInv
  BY DEF TreeInv, PhaseInv, CopyInv, KeyInv
<1>2. stack = <<>> /\ records \in Seq(Record)
  BY <1>1 DEF TypeInv, StackInv, RecordsInv
<1>3. Unwalked = {} /\ ToRead = {} /\ ToInstall = {} /\ ToSet(records) = {}
  BY <1>1, <1>2 DEF Unwalked, ToRead, ToInstall, ToSet
<1>4. Modules = Known /\ Recs \subseteq manifest /\ manifest \ {RootRecord} \subseteq Recs
  BY <1>1 DEF Modules, Known
<1> QED BY <1>1, <1>3, <1>4

(***************************************************************************)
(* A manifest that was written is the whole module tree, in however many    *)
(* rounds and packages (init.go:737-804), where the block names of each     *)
(* directory are distinct.                                                  *)
(***************************************************************************)
THEOREM CompleteSafety == FinitelyManyDeps /\ Spec => []ManifestComplete
<1> SUFFICES ASSUME FinitelyManyDeps PROVE Spec => []ManifestComplete
  OBVIOUS
<1>1. (NamesDistinct => TreeInv) => ManifestComplete
  <2> SUFFICES ASSUME TreeInv, pc = "done", NEW p \in Modules
               PROVE  /\ Readable(p.dir)
                      /\ \A n \in 1..Len(Blocks(p.dir)) :
                           Blocks(p.dir)[n].kind # "none" =>
                             \E c \in manifest : /\ c.key = Append(p.key, Blocks(p.dir)[n].name)
                                                 /\ Answers(c, Blocks(p.dir)[n], p.dir)
    BY DEF ManifestComplete
  <2>1. Readable(p.dir) /\ \A b \in BlocksOf(p.dir) : Treated(p, b)
    BY TreeWritten DEF CoveredInv, Covered
  <2>2. \A b \in BlocksOf(p.dir) :
          b.kind = "none" \/ \E c \in manifest : c.key = Append(p.key, b.name) /\ Answers(c, b, p.dir)
    BY <2>1, TreeWritten DEF Treated
  <2> QED BY <2>1, <2>2 DEF BlocksOf
<1>2. Init => (NamesDistinct => TreeInv)
  BY InitTree
<1>3. (NamesDistinct => TreeInv) /\ [Next]_vars => (NamesDistinct => TreeInv)'
  <2>1. TreeInv => NamesDistinct
    BY DEF TreeInv, CopyInv, KeyInv, Named
  <2> QED BY <2>1, NextTree, NamesStay
<1> QED BY <1>1, <1>2, <1>3, PTL DEF Spec

(***************************************************************************)
(* And no record is in it that no block calls for, under the same condition. *)
(***************************************************************************)
THEOREM GroundedSafety == FinitelyManyDeps /\ Spec => []ManifestGrounded
<1> SUFFICES ASSUME FinitelyManyDeps PROVE Spec => []ManifestGrounded
  OBVIOUS
<1>1. (NamesDistinct => TreeInv) => ManifestGrounded
  <2> SUFFICES ASSUME TreeInv, NEW c \in manifest \ {RootRecord} PROVE \E p \in Modules : Calls(p, c)
    BY DEF ManifestGrounded
  <2>1. pc = "done"
    BY DEF TreeInv, PhaseInv
  <2> QED BY <2>1, TreeWritten DEF GroundInv, Called
<1>2. Init => (NamesDistinct => TreeInv)
  BY InitTree
<1>3. (NamesDistinct => TreeInv) /\ [Next]_vars => (NamesDistinct => TreeInv)'
  <2>1. TreeInv => NamesDistinct
    BY DEF TreeInv, CopyInv, KeyInv, Named
  <2> QED BY <2>1, NextTree, NamesStay
<1> QED BY <1>1, <1>2, <1>3, PTL DEF Spec

-------------------------------------------------------------------------------
(***************************************************************************)
(* The order of versions                                                    *)
(***************************************************************************)

LEMMA IdentSwap ==
  ASSUME NEW p, NEW x \in Ident, NEW y \in Ident
  PROVE  /\ CompareIdent(p, x, y) \in {-1, 0, 1}
         /\ CompareIdent(p, x, y) = - CompareIdent(p, y, x)
BY MaxIntAssumption DEF Ident, CompareIdent, CmpInt, IsNum

LEMMA IdentTransitive ==
  ASSUME NEW p, NEW x \in Ident, NEW y \in Ident, NEW z \in Ident,
         CompareIdent(p, x, y) <= 0, CompareIdent(p, y, z) <= 0
  PROVE  /\ CompareIdent(p, x, z) <= 0
         /\ CompareIdent(p, x, z) = 0 <=> CompareIdent(p, x, y) = 0 /\ CompareIdent(p, y, z) = 0
BY MaxIntAssumption DEF Ident, CompareIdent, CmpInt, IsNum

\* The same for the identifiers of two prereleases.
LEMMA PlaceOrder ==
  ASSUME NEW p, NEW a \in Seq(Ident), NEW b \in Seq(Ident),
         NEW n \in 1..Len(a), n <= Len(b)
  PROVE  /\ CompareIdent(p, a[n], b[n]) \in {-1, 0, 1}
         /\ CompareIdent(p, a[n], b[n]) = - CompareIdent(p, b[n], a[n])
<1>1. a[n] \in Ident /\ b[n] \in Ident
  OBVIOUS
<1> QED
  BY <1>1, IdentSwap

(***************************************************************************)
(* Two prereleases differ in a first identifier, one way or the other, or  *)
(* in none that both have.                                                  *)
(***************************************************************************)
LEMMA FirstDifference ==
  ASSUME NEW p, NEW a \in Seq(Ident), NEW b \in Seq(Ident)
  PROVE  \/ \E n \in 1..Len(a) : FirstDiffer(p, a, b, n, -1)
         \/ \E n \in 1..Len(a) : FirstDiffer(p, a, b, n, 1)
         \/ \A n \in 1..Len(a) : n <= Len(b) => CompareIdent(p, a[n], b[n]) = 0
<1> DEFINE T == {n \in 1..Len(a) : n <= Len(b) /\ CompareIdent(p, a[n], b[n]) # 0}
<1>1. CASE T = {}
  BY <1>1
<1>2. CASE T # {}
  <2>1. T \in SUBSET Nat
    OBVIOUS
  <2>2. PICK n \in T : \A k \in T : n <= k
    BY <1>2, <2>1, Least
  <2>3. \A k \in 1..n-1 : CompareIdent(p, a[k], b[k]) = 0
    BY <2>2
  <2>4. n \in 1..Len(a) /\ n <= Len(b) /\ CompareIdent(p, a[n], b[n]) # 0
    BY <2>2
  <2>5. CompareIdent(p, a[n], b[n]) \in {-1, 0, 1}
    BY <2>4, PlaceOrder
  <2> QED
    BY <2>3, <2>4, <2>5 DEF FirstDiffer
<1> QED
  BY <1>1, <1>2

\* The first difference is one place, and read from the other side it is the
\* opposite one.
LEMMA DifferenceTurned ==
  ASSUME NEW p, NEW a \in Seq(Ident), NEW b \in Seq(Ident), NEW n \in 1..Len(a),
         NEW c \in {-1, 1}, FirstDiffer(p, a, b, n, c)
  PROVE  /\ n \in 1..Len(b) /\ FirstDiffer(p, b, a, n, -c)
         /\ \A m \in 1..Len(a) : ~FirstDiffer(p, a, b, m, -c)
<1>1. n \in 1..Len(b) /\ n <= Len(a)
  BY DEF FirstDiffer
<1>2. CompareIdent(p, b[n], a[n]) = -c
  <2>1. CompareIdent(p, a[n], b[n]) = c
    BY DEF FirstDiffer
  <2>2. n <= Len(a) /\ CompareIdent(p, b[n], a[n]) = - CompareIdent(p, a[n], b[n])
    BY <1>1, PlaceOrder
  <2> QED
    BY <2>1, <2>2
<1>3. \A k \in 1..n-1 : CompareIdent(p, b[k], a[k]) = 0
  <2> SUFFICES ASSUME NEW k \in 1..n-1 PROVE CompareIdent(p, b[k], a[k]) = 0
    OBVIOUS
  <2>1. k \in 1..Len(b) /\ k <= Len(a)
    BY <1>1
  <2>2. CompareIdent(p, a[k], b[k]) = 0
    BY DEF FirstDiffer
  <2>3. /\ CompareIdent(p, b[k], a[k]) = - CompareIdent(p, a[k], b[k])
        /\ CompareIdent(p, b[k], a[k]) \in {-1, 0, 1}
    BY <2>1, PlaceOrder
  <2> QED
    BY <2>2, <2>3
<1>4. ASSUME NEW m \in 1..Len(a), FirstDiffer(p, a, b, m, -c)
      PROVE  FALSE
  <2>1. m < n \/ n < m \/ m = n
    OBVIOUS
  <2> QED
    BY <1>4, <2>1 DEF FirstDiffer
<1> QED
  BY <1>1, <1>2, <1>3, <1>4 DEF FirstDiffer

LEMMA PreSwap ==
  ASSUME NEW p, NEW a \in Seq(Ident), NEW b \in Seq(Ident)
  PROVE  ComparePre(p, a, b) \in {-1, 0, 1} /\ ComparePre(p, a, b) = - ComparePre(p, b, a)
<1>1. CASE a = b \/ a = <<>> \/ b = <<>>
  BY <1>1 DEF ComparePre
<1>2. CASE a # b /\ a # <<>> /\ b # <<>>
  <2>1. ASSUME NEW n \in 1..Len(a), FirstDiffer(p, a, b, n, -1)
        PROVE  ComparePre(p, a, b) = -1 /\ ComparePre(p, b, a) = 1
    <3>1. n \in 1..Len(b) /\ FirstDiffer(p, b, a, n, 1)
      BY <2>1, DifferenceTurned
    <3>2. \A m \in 1..Len(b) : ~FirstDiffer(p, b, a, m, -1)
      BY <3>1, DifferenceTurned
    <3> QED
      BY <1>2, <2>1, <3>1, <3>2 DEF ComparePre
  <2>2. ASSUME NEW n \in 1..Len(a), FirstDiffer(p, a, b, n, 1)
        PROVE  ComparePre(p, a, b) = 1 /\ ComparePre(p, b, a) = -1
    <3>1. n \in 1..Len(b) /\ FirstDiffer(p, b, a, n, -1)
      BY <2>2, DifferenceTurned
    <3>2. \A m \in 1..Len(a) : ~FirstDiffer(p, a, b, m, -1)
      BY <2>2, DifferenceTurned
    <3> QED
      BY <1>2, <2>2, <3>1, <3>2 DEF ComparePre
  <2>3. CASE \A n \in 1..Len(a) : ~FirstDiffer(p, a, b, n, -1) /\ ~FirstDiffer(p, a, b, n, 1)
    <3>1. ASSUME NEW n \in 1..Len(b), NEW c \in {-1, 1}, FirstDiffer(p, b, a, n, c)
          PROVE  FALSE
      <4>1. n \in 1..Len(a) /\ FirstDiffer(p, a, b, n, -c)
        BY <3>1, DifferenceTurned
      <4> QED
        BY <2>3, <4>1
    <3>2. \A n \in 1..Len(b) : ~FirstDiffer(p, b, a, n, -1) /\ ~FirstDiffer(p, b, a, n, 1)
      BY <3>1
    <3>3. ComparePre(p, a, b) = CmpInt(Len(a), Len(b)) /\ ComparePre(p, b, a) = CmpInt(Len(b), Len(a))
      BY <1>2, <2>3, <3>2 DEF ComparePre
    <3> QED
      BY <3>3 DEF CmpInt
  <2> QED
    BY <2>1, <2>2, <2>3
<1> QED
  BY <1>1, <1>2

\* What it takes for one prerelease to be no higher than another.
LEMMA PreAtMost ==
  ASSUME NEW p, NEW a \in Seq(Ident), NEW b \in Seq(Ident), a # <<>>, b # <<>>
  PROVE  ComparePre(p, a, b) <= 0 <=>
           \/ \E n \in 1..Len(a) : FirstDiffer(p, a, b, n, -1)
           \/ /\ Len(a) <= Len(b)
              /\ \A n \in 1..Len(a) : CompareIdent(p, a[n], b[n]) = 0
<1>1. Len(a) \in Nat /\ Len(b) \in Nat
  OBVIOUS
<1>2. CASE \E n \in 1..Len(a) : FirstDiffer(p, a, b, n, -1)
  BY <1>2 DEF ComparePre
<1>3. CASE \E n \in 1..Len(a) : FirstDiffer(p, a, b, n, 1)
  <2>1. PICK n \in 1..Len(a) : FirstDiffer(p, a, b, n, 1)
    BY <1>3
  <2>2. \A m \in 1..Len(a) : ~FirstDiffer(p, a, b, m, -1)
    BY <2>1, DifferenceTurned
  <2>3. a # b
    <3>1. a[n] \in Ident /\ CompareIdent(p, a[n], b[n]) = 1
      BY <2>1 DEF FirstDiffer
    <3>2. CompareIdent(p, a[n], a[n]) = 0
      BY <3>1, IdentSwap
    <3> QED
      BY <3>1, <3>2
  <2>4. ComparePre(p, a, b) = 1
    BY <1>3, <2>2, <2>3 DEF ComparePre
  <2>5. n \in 1..Len(a) /\ n <= Len(b) /\ CompareIdent(p, a[n], b[n]) = 1
    BY <2>1 DEF FirstDiffer
  <2> QED
    BY <2>2, <2>4, <2>5
<1>4. CASE /\ \A n \in 1..Len(a) : ~FirstDiffer(p, a, b, n, -1) /\ ~FirstDiffer(p, a, b, n, 1)
           /\ \A n \in 1..Len(a) : n <= Len(b) => CompareIdent(p, a[n], b[n]) = 0
  <2>1. ComparePre(p, a, b) = IF a = b THEN 0 ELSE CmpInt(Len(a), Len(b))
    BY <1>4 DEF ComparePre
  <2>2. ComparePre(p, a, b) <= 0 <=> Len(a) <= Len(b)
    BY <1>1, <2>1 DEF CmpInt
  <2> QED
    BY <1>1, <1>4, <2>2
<1> QED
  BY <1>2, <1>3, <1>4, FirstDifference

LEMMA PreTransitive ==
  ASSUME NEW p, NEW a \in Seq(Ident), NEW b \in Seq(Ident), NEW c \in Seq(Ident),
         ComparePre(p, a, b) <= 0, ComparePre(p, b, c) <= 0
  PROVE  ComparePre(p, a, c) <= 0
<1>1. CASE a = <<>> \/ b = <<>> \/ c = <<>>
  BY <1>1 DEF ComparePre
<1>2. CASE a # <<>> /\ b # <<>> /\ c # <<>>
  <2>1. \A n \in 1..Len(a) : n <= Len(b) /\ n <= Len(c) =>
          /\ CompareIdent(p, a[n], b[n]) \in {-1, 0, 1}
          /\ CompareIdent(p, b[n], c[n]) \in {-1, 0, 1}
          /\ CompareIdent(p, a[n], c[n]) \in {-1, 0, 1}
          /\ CompareIdent(p, a[n], b[n]) <= 0 /\ CompareIdent(p, b[n], c[n]) <= 0 =>
               /\ CompareIdent(p, a[n], c[n]) <= 0
               /\ CompareIdent(p, a[n], c[n]) = 0 <=>
                    CompareIdent(p, a[n], b[n]) = 0 /\ CompareIdent(p, b[n], c[n]) = 0
    <3> SUFFICES ASSUME NEW n \in 1..Len(a), n <= Len(b), n <= Len(c)
                 PROVE  /\ CompareIdent(p, a[n], b[n]) \in {-1, 0, 1}
                        /\ CompareIdent(p, b[n], c[n]) \in {-1, 0, 1}
                        /\ CompareIdent(p, a[n], c[n]) \in {-1, 0, 1}
                        /\ CompareIdent(p, a[n], b[n]) <= 0 /\ CompareIdent(p, b[n], c[n]) <= 0 =>
                             /\ CompareIdent(p, a[n], c[n]) <= 0
                             /\ CompareIdent(p, a[n], c[n]) = 0 <=>
                                  CompareIdent(p, a[n], b[n]) = 0 /\ CompareIdent(p, b[n], c[n]) = 0
      OBVIOUS
    <3>1. a[n] \in Ident /\ b[n] \in Ident /\ c[n] \in Ident
      OBVIOUS
    <3>2. /\ CompareIdent(p, a[n], b[n]) \in {-1, 0, 1}
          /\ CompareIdent(p, b[n], c[n]) \in {-1, 0, 1}
          /\ CompareIdent(p, a[n], c[n]) \in {-1, 0, 1}
      BY <3>1, IdentSwap
    <3> QED
      BY <3>1, <3>2, IdentTransitive
  <2>2. CASE \E n \in 1..Len(a) : FirstDiffer(p, a, b, n, -1)
    <3>1. PICK n \in 1..Len(a) : FirstDiffer(p, a, b, n, -1)
      BY <2>2
    <3>2. CASE \E m \in 1..Len(b) : FirstDiffer(p, b, c, m, -1)
      <4>1. PICK m \in 1..Len(b) : FirstDiffer(p, b, c, m, -1)
        BY <3>2
      <4>2. CASE n <= m
        <5>1. FirstDiffer(p, a, c, n, -1)
          BY <2>1, <3>1, <4>1, <4>2 DEF FirstDiffer
        <5> QED
          BY <1>2, <5>1, PreAtMost
      <4>3. CASE m < n
        <5>1. m \in 1..Len(a) /\ FirstDiffer(p, a, c, m, -1)
          <6>1. m \in 1..Len(a) /\ m <= Len(b) /\ m <= Len(c)
            BY <3>1, <4>1, <4>3 DEF FirstDiffer
          <6>2. CompareIdent(p, a[m], b[m]) = 0 /\ CompareIdent(p, b[m], c[m]) = -1
            BY <6>1, <3>1, <4>1, <4>3 DEF FirstDiffer
          <6>3. CompareIdent(p, a[m], c[m]) = -1
            <7>1. CompareIdent(p, a[m], c[m]) \in {-1, 0, 1}
              BY <2>1, <6>1
            <7>2. CompareIdent(p, a[m], c[m]) <= 0 /\ CompareIdent(p, a[m], c[m]) # 0
              BY <2>1, <6>1, <6>2
            <7> QED
              BY <7>1, <7>2
          <6>4. \A k \in 1..m-1 : CompareIdent(p, a[k], c[k]) = 0
            <7> SUFFICES ASSUME NEW k \in 1..m-1 PROVE CompareIdent(p, a[k], c[k]) = 0
              OBVIOUS
            <7>1. k \in 1..Len(a) /\ k <= Len(b) /\ k <= Len(c)
              BY <6>1
            <7>2. CompareIdent(p, a[k], b[k]) = 0 /\ CompareIdent(p, b[k], c[k]) = 0
              BY <7>1, <3>1, <4>1, <4>3 DEF FirstDiffer
            <7> QED
              BY <2>1, <7>1, <7>2
          <6> QED
            BY <6>1, <6>3, <6>4 DEF FirstDiffer
        <5> QED
          BY <1>2, <5>1, PreAtMost
      <4> QED
        BY <4>2, <4>3
    <3>3. CASE Len(b) <= Len(c) /\ \A k \in 1..Len(b) : CompareIdent(p, b[k], c[k]) = 0
      <4>1. FirstDiffer(p, a, c, n, -1)
        BY <2>1, <3>1, <3>3 DEF FirstDiffer
      <4> QED
        BY <1>2, <4>1, PreAtMost
    <3> QED
      BY <1>2, <3>2, <3>3, PreAtMost
  <2>3. CASE Len(a) <= Len(b) /\ \A k \in 1..Len(a) : CompareIdent(p, a[k], b[k]) = 0
    <3>1. CASE \E m \in 1..Len(b) : FirstDiffer(p, b, c, m, -1)
      <4>1. PICK m \in 1..Len(b) : FirstDiffer(p, b, c, m, -1)
        BY <3>1
      <4>2. CASE m <= Len(a)
        <5>1. m \in 1..Len(a) /\ FirstDiffer(p, a, c, m, -1)
          <6>1. m \in 1..Len(a) /\ m <= Len(b) /\ m <= Len(c)
            BY <2>3, <4>1, <4>2 DEF FirstDiffer
          <6>2. CompareIdent(p, a[m], b[m]) = 0 /\ CompareIdent(p, b[m], c[m]) = -1
            BY <6>1, <2>3, <4>1, <4>2 DEF FirstDiffer
          <6>3. CompareIdent(p, a[m], c[m]) = -1
            <7>1. CompareIdent(p, a[m], c[m]) \in {-1, 0, 1}
              BY <2>1, <6>1
            <7>2. CompareIdent(p, a[m], c[m]) <= 0 /\ CompareIdent(p, a[m], c[m]) # 0
              BY <2>1, <6>1, <6>2
            <7> QED
              BY <7>1, <7>2
          <6>4. \A k \in 1..m-1 : CompareIdent(p, a[k], c[k]) = 0
            <7> SUFFICES ASSUME NEW k \in 1..m-1 PROVE CompareIdent(p, a[k], c[k]) = 0
              OBVIOUS
            <7>1. k \in 1..Len(a) /\ k <= Len(b) /\ k <= Len(c)
              BY <6>1
            <7>2. CompareIdent(p, a[k], b[k]) = 0 /\ CompareIdent(p, b[k], c[k]) = 0
              BY <7>1, <2>3, <4>1, <4>2 DEF FirstDiffer
            <7> QED
              BY <2>1, <7>1, <7>2
          <6> QED
            BY <6>1, <6>3, <6>4 DEF FirstDiffer
        <5> QED
          BY <1>2, <5>1, PreAtMost
      <4>3. CASE m > Len(a)
        <5>1. Len(a) <= Len(c) /\ \A k \in 1..Len(a) : CompareIdent(p, a[k], c[k]) = 0
          BY <2>1, <2>3, <4>1, <4>3 DEF FirstDiffer
        <5> QED
          BY <1>2, <5>1, PreAtMost
      <4> QED
        BY <4>2, <4>3
    <3>2. CASE Len(b) <= Len(c) /\ \A k \in 1..Len(b) : CompareIdent(p, b[k], c[k]) = 0
      <4>1. Len(a) <= Len(c) /\ \A k \in 1..Len(a) : CompareIdent(p, a[k], c[k]) = 0
        BY <2>1, <2>3, <3>2
      <4> QED
        BY <1>2, <4>1, PreAtMost
    <3> QED
      BY <1>2, <3>1, <3>2, PreAtMost
  <2> QED
    BY <1>2, <2>2, <2>3, PreAtMost
<1> QED
  BY <1>1, <1>2

(***************************************************************************)
(* Two versions compare as one another's opposites, and the order is       *)
(* transitive: numbers first, then the prereleases, and a release last.     *)
(***************************************************************************)
LEMMA VersionOrder ==
  ASSUME NEW p, NEW x \in Version, NEW y \in Version
  PROVE  Compare(p, x, y) \in {-1, 0, 1} /\ Compare(p, x, y) = - Compare(p, y, x)
<1>1. x.pre \in Seq(Ident) /\ y.pre \in Seq(Ident)
  BY DEF Version
<1>2. ComparePre(p, x.pre, y.pre) \in {-1, 0, 1} /\ ComparePre(p, y.pre, x.pre) \in {-1, 0, 1}
      /\ ComparePre(p, x.pre, y.pre) = - ComparePre(p, y.pre, x.pre)
  BY <1>1, PreSwap
<1> QED
  BY <1>2 DEF Compare, CmpInt, Version

LEMMA VersionTransitive ==
  ASSUME NEW p, NEW x \in Version, NEW y \in Version, NEW z \in Version,
         Compare(p, x, y) <= 0, Compare(p, y, z) <= 0
  PROVE  Compare(p, x, z) <= 0
<1>1. x.pre \in Seq(Ident) /\ y.pre \in Seq(Ident) /\ z.pre \in Seq(Ident)
  BY DEF Version
<1>2. ComparePre(p, x.pre, y.pre) <= 0 /\ ComparePre(p, y.pre, z.pre) <= 0
      => ComparePre(p, x.pre, z.pre) <= 0
  BY <1>1, PreTransitive
<1> QED
  BY <1>2 DEF Compare, CmpInt, Version

-------------------------------------------------------------------------------
(***************************************************************************)
(* The loop                                                                 *)
(***************************************************************************)

LEMMA InitTypeOK == ChoiceInit => ChoiceTypeOK
<1> SUFFICES ASSUME ChoiceInit PROVE ChoiceTypeOK
  OBVIOUS
<1>1. versions \in Seq(Version) /\ constraints \in Seq(Constraint)
  BY ListsAssumption, ConstraintsAssumption DEF ChoiceInit
<1>2. seen \in 0..Len(versions)
  BY <1>1 DEF ChoiceInit
<1> QED
  BY <1>1, <1>2 DEF ChoiceInit, ChoiceTypeOK

LEMMA NextTypeOK == ChoiceTypeOK /\ [ChoiceNext]_choiceVars => ChoiceTypeOK'
<1> SUFFICES ASSUME ChoiceTypeOK, [ChoiceNext]_choiceVars PROVE ChoiceTypeOK'
  OBVIOUS
<1>1. ASSUME Passing PROVE candidate \in Version /\ seen' \in 0..Len(versions)
  BY <1>1 DEF ChoiceTypeOK, Passing, candidate
<1>2. CASE Skip
  BY <1>1, <1>2 DEF Skip, ChoiceTypeOK
<1>3. CASE TakePre
  BY <1>1, <1>3 DEF TakePre, ChoiceTypeOK
<1>4. CASE TakeStable
  BY <1>1, <1>4 DEF TakeStable, ChoiceTypeOK
<1>5. CASE Choose
  BY <1>5 DEF Choose, ChoiceTypeOK
<1>6. CASE UNCHANGED choiceVars
  BY <1>6 DEF choiceVars, ChoiceTypeOK
<1> QED
  BY <1>2, <1>3, <1>4, <1>5, <1>6 DEF ChoiceNext, Returned

(***************************************************************************)
(* Every reachable state of the loop is well typed.                         *)
(***************************************************************************)
THEOREM ChoiceTypeCorrect == ChoiceSpec => []ChoiceTypeOK
BY InitTypeOK, NextTypeOK, PTL DEF ChoiceSpec

LEMMA ListedVersions == ChoiceTypeOK => Listed \subseteq Version
BY DEF ChoiceTypeOK, Listed

(***************************************************************************)
(* Whatever versions a registry lists, the order of each port is total and *)
(* transitive on them.                                                      *)
(***************************************************************************)
THEOREM OrderSafety == ChoiceSpec => []OrderLaws
<1>1. ChoiceTypeOK => OrderLaws
  <2> SUFFICES ASSUME ChoiceTypeOK, NEW a \in Listed, NEW b \in Listed
               PROVE  /\ Compare(port, a, b) = - Compare(port, b, a)
                      /\ \A c \in Listed :
                           Compare(port, a, b) <= 0 /\ Compare(port, b, c) <= 0 => Compare(port, a, c) <= 0
    BY DEF OrderLaws
  <2>1. Compare(port, a, b) = - Compare(port, b, a)
    BY ListedVersions, VersionOrder
  <2>2. \A c \in Listed :
          Compare(port, a, b) <= 0 /\ Compare(port, b, c) <= 0 => Compare(port, a, c) <= 0
    BY ListedVersions, VersionTransitive
  <2> QED
    BY <2>1, <2>2
<1> QED
  BY <1>1, ChoiceTypeCorrect, PTL

\* What one more version does to the best one of a kind.
LEMMA OneMore ==
  ASSUME ChoiceTypeOK, Passing, UNCHANGED <<port, versions, constraints>>,
         NEW kind \in BOOLEAN, NEW best \in Version \cup {NoChoice}, BestOf(best, kind),
         NEW next,
         next = IF candidate \in Matching /\ (candidate.pre = <<>>) = kind /\ Beats(best) THEN candidate ELSE best
  PROVE  BestOf(next, kind)'
<1>1. /\ seen \in Nat /\ seen' = seen + 1 /\ seen' \in 1..Len(versions)
      /\ versions' = versions /\ port' = port /\ Matching' = Matching
      /\ candidate = versions[seen'] /\ candidate \in Version
  BY DEF ChoiceTypeOK, Passing, candidate, Matching, Listed
<1>2. \A n \in 1..seen' : n \in 1..seen \/ versions[n] = candidate
  BY <1>1
<1>3. \A w \in Matching : w \in Version
  BY ListedVersions DEF Matching
<1>4. CASE candidate \in Matching /\ (candidate.pre = <<>>) = kind /\ Beats(best)
  <2>1. next = candidate /\ candidate # NoChoice
    BY <1>1, <1>4, NoChoiceAssumption
  <2>2. \A n \in 1..seen :
          versions[n] \in Matching /\ (versions[n].pre = <<>>) = kind => Compare(port, versions[n], candidate) <= 0
    <3>1. CASE best = NoChoice
      BY <3>1 DEF BestOf
    <3>2. CASE best # NoChoice
      <4> SUFFICES ASSUME NEW n \in 1..seen, versions[n] \in Matching, (versions[n].pre = <<>>) = kind
                   PROVE  Compare(port, versions[n], candidate) <= 0
        OBVIOUS
      <4>1. best \in Version /\ Compare(port, versions[n], best) <= 0
        BY <3>2 DEF BestOf
      <4>2. Compare(port, candidate, best) > 0
        BY <1>4, <3>2 DEF Beats
      <4>3. Compare(port, best, candidate) <= 0
        BY <1>1, <4>1, <4>2, VersionOrder
      <4> QED
        BY <1>1, <1>3, <4>1, <4>3, VersionTransitive
    <3> QED
      BY <3>1, <3>2
  <2>3. Compare(port, candidate, candidate) <= 0
    BY <1>1, VersionOrder
  <2>4. \A n \in 1..seen' :
          versions[n] \in Matching /\ (versions[n].pre = <<>>) = kind => Compare(port, versions[n], candidate) <= 0
    BY <1>2, <2>2, <2>3
  <2> QED
    BY <1>1, <1>4, <2>1, <2>4 DEF BestOf
<1>5. CASE ~(candidate \in Matching /\ (candidate.pre = <<>>) = kind)
  <2>1. next = best
    BY <1>5
  <2> QED
    BY <1>1, <1>2, <1>5, <2>1 DEF BestOf
<1>6. CASE candidate \in Matching /\ (candidate.pre = <<>>) = kind /\ ~Beats(best)
  <2>1. next = best /\ best # NoChoice /\ best \in Version /\ ~(Compare(port, candidate, best) > 0)
    BY <1>6 DEF Beats
  <2>2. Compare(port, candidate, best) <= 0
    BY <1>1, <2>1, VersionOrder
  <2> QED
    BY <1>1, <1>2, <2>1, <2>2 DEF BestOf
<1> QED
  BY <1>4, <1>5, <1>6

\* A step that passes no version leaves the best ones the best.
LEMMA BestStays ==
  ASSUME UNCHANGED <<port, versions, constraints, seen, bestStable, bestPre>>,
         BestOf(bestStable, TRUE), BestOf(bestPre, FALSE)
  PROVE  BestOf(bestStable, TRUE)' /\ BestOf(bestPre, FALSE)'
<1>1. Listed' = Listed
  BY DEF Listed
<1>2. Matching' = Matching
  BY <1>1 DEF Matching
<1> QED
  BY <1>2 DEF BestOf

LEMMA NextLoopInv == ChoiceTypeOK /\ LoopInv /\ [ChoiceNext]_choiceVars => LoopInv'
<1> SUFFICES ASSUME ChoiceTypeOK, LoopInv, [ChoiceNext]_choiceVars PROVE LoopInv'
  OBVIOUS
<1>1. ASSUME Passing PROVE candidate \in Matching <=> Check(port, constraints, candidate)
  <2>1. seen + 1 \in 1..Len(versions)
    BY <1>1 DEF Passing, ChoiceTypeOK
  <2> QED
    BY <2>1 DEF candidate, Matching, Listed
<1>2. CASE Skip \/ TakePre \/ TakeStable
  <2>1. Passing /\ UNCHANGED <<port, versions, constraints, returned, result>>
    BY <1>2 DEF Skip, TakePre, TakeStable
  <2>2. bestStable' = IF candidate \in Matching /\ (candidate.pre = <<>>) = TRUE /\ Beats(bestStable) THEN candidate ELSE bestStable
    BY <1>1, <1>2, <2>1 DEF Skip, TakePre, TakeStable
  <2>3. bestPre' = IF candidate \in Matching /\ (candidate.pre = <<>>) = FALSE /\ Beats(bestPre) THEN candidate ELSE bestPre
    BY <1>1, <1>2, <2>1 DEF Skip, TakePre, TakeStable
  <2>4. ASSUME NEW next, next = bestStable' PROVE BestOf(next, TRUE)'
    BY <2>1, <2>2, <2>4, OneMore DEF LoopInv, ChoiceTypeOK
  <2>5. ASSUME NEW next, next = bestPre' PROVE BestOf(next, FALSE)'
    BY <2>1, <2>3, <2>5, OneMore DEF LoopInv, ChoiceTypeOK
  <2>6. BestOf(bestStable, TRUE)' /\ BestOf(bestPre, FALSE)'
    BY <2>4, <2>5, Zenon DEF BestOf
  <2>7. ~returned /\ ~returned' /\ result' = result
    BY <2>1 DEF Passing
  <2> QED
    BY <2>6, <2>7 DEF LoopInv
<1>3. CASE Choose
  <2>1. UNCHANGED <<port, versions, constraints, seen, bestStable, bestPre>>
    BY <1>3 DEF Choose
  <2>2. BestOf(bestStable, TRUE)' /\ BestOf(bestPre, FALSE)'
    BY <2>1, BestStays DEF LoopInv
  <2>3. returned' /\ seen = Len(versions) /\ result' = IF bestStable # NoChoice THEN bestStable ELSE bestPre
    BY <1>3 DEF Choose
  <2>4. seen' = Len(versions') /\ result' = IF bestStable' # NoChoice THEN bestStable' ELSE bestPre'
    BY <2>1, <2>3
  <2> QED
    BY <2>2, <2>3, <2>4, Zenon DEF LoopInv
<1>4. CASE UNCHANGED choiceVars
  <2>1. UNCHANGED <<port, versions, constraints, seen, bestStable, bestPre, returned, result>>
    BY <1>4 DEF choiceVars
  <2>2. BestOf(bestStable, TRUE)' /\ BestOf(bestPre, FALSE)'
    BY <2>1, BestStays DEF LoopInv
  <2> QED
    BY <2>1, <2>2 DEF LoopInv
<1> QED
  BY <1>2, <1>3, <1>4 DEF ChoiceNext, Returned

(***************************************************************************)
(* For every list a registry may answer with and every constraint, the     *)
(* version returned is the best of those that satisfy it.                   *)
(***************************************************************************)
THEOREM ChoiceSafety == ChoiceSpec => []ChoiceIsBest
<1>1. ChoiceInit => LoopInv
  <2> SUFFICES ASSUME ChoiceInit PROVE LoopInv
    OBVIOUS
  <2>1. 1..seen = {}
    BY DEF ChoiceInit
  <2> QED
    BY <2>1 DEF ChoiceInit, LoopInv, BestOf
<1>2. ChoiceTypeOK /\ LoopInv => ChoiceIsBest
  <2> SUFFICES ASSUME ChoiceTypeOK, LoopInv PROVE ChoiceIsBest
    OBVIOUS
  <2>1. CASE ~returned
    BY <2>1 DEF ChoiceIsBest, LoopInv
  <2>2. CASE returned
    <3>1. seen = Len(versions) /\ result = IF bestStable # NoChoice THEN bestStable ELSE bestPre
      BY <2>2 DEF LoopInv
    <3>2. \A w \in Matching : \E n \in 1..seen : versions[n] = w
      BY <3>1 DEF Matching, Listed
    <3>3. CASE bestStable # NoChoice
      <4>1. result = bestStable /\ result # NoChoice
        BY <3>1, <3>3
      <4> QED
        BY <3>2, <3>3, <4>1 DEF ChoiceIsBest, LoopInv, BestOf
    <3>4. CASE bestStable = NoChoice
      <4>1. result = bestPre
        BY <3>1, <3>4
      <4>2. \A w \in Matching : w.pre # <<>>
        BY <3>2, <3>4 DEF LoopInv, BestOf
      <4> QED
        BY <3>2, <4>1, <4>2 DEF ChoiceIsBest, LoopInv, BestOf
    <3> QED
      BY <3>3, <3>4
  <2> QED
    BY <2>1, <2>2
<1> QED
  BY <1>1, <1>2, NextLoopInv, ChoiceTypeCorrect, PTL DEF ChoiceSpec

-------------------------------------------------------------------------------
(***************************************************************************)
(* Constraints                                                              *)
(***************************************************************************)

\* A clause other than `!=` is satisfied between any two versions that do.
LEMMA ClauseInterval ==
  ASSUME NEW p, NEW c \in Constraint, c.op # "!=",
         NEW x \in Version, NEW y \in Version, NEW z \in Version,
         Compare(p, x, y) <= 0, Compare(p, y, z) <= 0,
         CheckOne(p, c, x), CheckOne(p, c, z)
  PROVE  CheckOne(p, c, y)
<1> DEFINE b == c.version
<1>1. b \in Version /\ c.op \in {">=", "<=", "~>", ">", "<", "="}
  BY DEF Constraint, Ops
<1>2. /\ Compare(p, x, b) \in {-1, 0, 1} /\ Compare(p, x, b) = - Compare(p, b, x)
      /\ Compare(p, y, b) \in {-1, 0, 1} /\ Compare(p, y, b) = - Compare(p, b, y)
      /\ Compare(p, z, b) \in {-1, 0, 1} /\ Compare(p, z, b) = - Compare(p, b, z)
      /\ Compare(p, b, x) \in {-1, 0, 1} /\ Compare(p, b, y) \in {-1, 0, 1}
      /\ Compare(p, b, z) \in {-1, 0, 1}
  BY <1>1, VersionOrder
\* Whatever is above b stays above it, whatever is below stays below.
<1>3. Compare(p, b, x) <= 0 => Compare(p, b, y) <= 0
  BY <1>1, VersionTransitive
<1>4. Compare(p, z, b) <= 0 => Compare(p, y, b) <= 0
  BY <1>1, VersionTransitive
<1>5. Compare(p, y, b) <= 0 => Compare(p, x, b) <= 0
  BY <1>1, VersionTransitive
<1>6. Compare(p, b, y) <= 0 => Compare(p, b, z) <= 0
  BY <1>1, VersionTransitive
<1>7. CASE c.op = "~>"
  <2>1. /\ Compare(p, x, b) >= 0 /\ SameSeries(b, x) /\ SameSeries(b, z)
    BY <1>7 DEF CheckOne
  <2>2. x.major <= y.major /\ y.major <= z.major
    BY DEF Compare, CmpInt, Version
  <2>3. x.major = z.major => x.minor <= y.minor /\ y.minor <= z.minor
    BY <2>2 DEF Compare, CmpInt, Version
  <2>4. SameSeries(b, y)
    <3>1. b.segments \in 1..3 /\ b.major \in Nat /\ b.minor \in Nat /\ y.major \in Nat /\ y.minor \in Nat
      BY <1>1 DEF Version
    <3>2. b.segments >= 2 => x.major = b.major /\ z.major = b.major
      BY <2>1 DEF SameSeries
    <3>3. b.segments = 3 => x.minor = b.minor /\ z.minor = b.minor
      BY <2>1 DEF SameSeries
    <3>4. b.segments >= 2 => y.major = b.major
      BY <2>2, <3>1, <3>2
    <3>5. b.segments = 3 => y.minor = b.minor
      BY <2>3, <3>1, <3>2, <3>3
    <3> QED
      BY <3>4, <3>5 DEF SameSeries
  <2>5. Compare(p, y, b) >= 0
    BY <1>2, <1>3, <2>1
  <2> QED
    BY <1>7, <2>4, <2>5 DEF CheckOne
<1>8. CASE c.op = ">="
  BY <1>2, <1>3, <1>8 DEF CheckOne
<1>9. CASE c.op = "<="
  BY <1>2, <1>4, <1>9 DEF CheckOne
<1>10. CASE c.op = ">"
  BY <1>2, <1>5, <1>10 DEF CheckOne
<1>11. CASE c.op = "<"
  BY <1>2, <1>6, <1>11 DEF CheckOne
<1>12. CASE c.op = "="
  BY <1>2, <1>3, <1>4, <1>12 DEF CheckOne
<1> QED
  BY <1>1, <1>7, <1>8, <1>9, <1>10, <1>11, <1>12

(***************************************************************************)
(* Without `!=`, no listed version between two that satisfy the            *)
(* constraints fails to.                                                    *)
(***************************************************************************)
THEOREM IntervalSafety == ChoiceSpec => []MatchingIsInterval
<1>1. ChoiceTypeOK => MatchingIsInterval
  <2> SUFFICES ASSUME ChoiceTypeOK, \A n \in 1..Len(constraints) : constraints[n].op # "!=",
                      NEW a \in Matching, NEW c \in Matching, NEW b \in Listed,
                      Compare(port, a, b) <= 0, Compare(port, b, c) <= 0,
                      NEW n \in 1..Len(constraints)
               PROVE  CheckOne(port, constraints[n], b)
    BY DEF MatchingIsInterval, Matching, Check
  <2>1. a \in Version /\ b \in Version /\ c \in Version
    BY ListedVersions DEF Matching
  <2>2. constraints[n] \in Constraint /\ constraints[n].op # "!="
    BY DEF ChoiceTypeOK
  <2>3. CheckOne(port, constraints[n], a) /\ CheckOne(port, constraints[n], c)
    BY DEF Matching, Check
  <2> QED
    BY <2>1, <2>2, <2>3, ClauseInterval
<1> QED
  BY <1>1, ChoiceTypeCorrect, PTL

===============================================================================
