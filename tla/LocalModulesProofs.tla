-------------------------- MODULE LocalModulesProofs --------------------------
(***************************************************************************)
(* Proofs about LocalModules, for every set of inputs and every bound.     *)
(***************************************************************************)
EXTENDS LocalModules, TLAPS

-------------------------------------------------------------------------------
(***************************************************************************)
(* Paths                                                                    *)
(***************************************************************************)

LEMMA WithinTransitive ==
  ASSUME NEW a \in Path, NEW b \in Path, NEW c \in Path, Within(a, b), Within(b, c)
  PROVE  Within(a, c)
BY DEF Within, Path

LEMMA WithinReflexive == \A d \in Path : Within(d, d)
BY DEF Within, Path

\* What is joined below a directory lies within it.
LEMMA WithinConcat == \A a, d \in Path : a \o d \in Path /\ Within(a \o d, a)
BY DEF Within, Path

\* A source that stays in the tree joins to a path.
LEMMA JoinType ==
  ASSUME NEW dir \in Path, NEW src \in Local, ~ClimbsOut(dir, src)
  PROVE  Join(dir, src) \in Path
<1>1. src.up \in Nat /\ src.down \in Path
  BY DEF Local
<1>2. Len(dir) - src.up \in 0..Len(dir)
  BY <1>1 DEF ClimbsOut, Path
<1>3. SubSeq(dir, 1, Len(dir) - src.up) \in Seq(Name)
  BY <1>2 DEF Path
<1> QED
  BY <1>1, <1>3 DEF Join, Path

\* The modules of an input have the type of a module.
LEMMA ModuleType ==
  ASSUME TypeOK, NEW i \in {0} \cup Deps
  PROVE  ModuleOf(i) \in Module
BY DEF TypeOK, Input, ModuleOf, Deps

-------------------------------------------------------------------------------
(***************************************************************************)
(* Types                                                                    *)
(***************************************************************************)

\* What the top frame is, and what treating its first block leaves of it.
LEMMA TopType ==
  ASSUME TypeOK, Treating
  PROVE  /\ Len(stack) \in Nat \ {0}
         /\ Top \in Frame
         /\ Top.dir \in Path
         /\ Block \in Source
         /\ Advanced \in Seq(Frame)
<1>1. /\ stack \in Seq(Frame) /\ stack # <<>>
  BY DEF TypeOK, Treating
<1>2. Len(stack) \in 1..Len(stack)
  BY <1>1
<1>3. Top \in Frame
  BY <1>1, <1>2 DEF Top
<1>4. Top.todo \in Seq(Source) /\ Top.todo # <<>> /\ Top.dir \in Path
  BY <1>3 DEF Frame, Treating
<1>5. Block \in Source
  BY <1>4 DEF Block
<1>6. [dir |-> Top.dir, todo |-> Tail(Top.todo)] \in Frame
  BY <1>4 DEF Frame
<1>7. Advanced \in Seq(Frame)
  BY <1>1, <1>6 DEF Advanced
<1> QED
  BY <1>1, <1>2, <1>3, <1>4, <1>5, <1>7

LEMMA TargetType ==
  ASSUME TypeOK, Resolving
  PROVE  Target \in Path
<1>1. Treating /\ IsLocal(Block) /\ ~ClimbsOut(Top.dir, Block)
  BY DEF Resolving
<1>2. Top.dir \in Path /\ Block \in Source
  BY <1>1, TopType
<1>3. Block \in Local
  BY <1>1, <1>2 DEF Source, IsLocal
<1> QED
  BY <1>1, <1>2, <1>3, JoinType DEF Target

LEMMA MatchType ==
  ASSUME NEW src, NEW target
  PROVE  Match(src, target) \subseteq Deps
BY DEF Match, DirMatch, TailMatch

\* ParseDir returns the blocks of one module, or none.
LEMMA ParseDirType ==
  ASSUME TypeOK, NEW tree, tree \subseteq [at : Path, of : {0} \cup Deps], NEW dir
  PROVE  ParseDir(tree, dir) \in Seq(Source)
<1>1. CASE \E e \in tree : e.at = dir
  <2>1. (CHOOSE e \in tree : e.at = dir) \in tree
    BY <1>1
  <2>2. ModuleOf((CHOOSE e \in tree : e.at = dir).of) \in Module
    BY <2>1, ModuleType
  <2> QED
    BY <1>1, <2>2 DEF ParseDir, Module
<1>2. CASE ~ \E e \in tree : e.at = dir
  BY <1>2 DEF ParseDir
<1> QED
  BY <1>1, <1>2

LEMMA DescendType ==
  ASSUME TypeOK, Resolving, NEW tree, tree \subseteq [at : Path, of : {0} \cup Deps],
         Descend(tree)
  PROVE  stack' \in Seq(Frame) /\ visited' \subseteq Path
<1>1. Target \in Path /\ Advanced \in Seq(Frame) /\ visited \subseteq Path
  BY TargetType, TopType DEF Resolving, TypeOK
<1>2. [dir |-> Target, todo |-> ParseDir(tree, Target)] \in Frame
  BY <1>1, ParseDirType DEF Frame
<1> QED
  BY <1>1, <1>2 DEF Descend

LEMMA InitTypeOK == Init => TypeOK
<1> SUFFICES ASSUME Init
             PROVE  TypeOK
  OBVIOUS
<1>1. in \in Input
  BY InputsAssumption DEF Init
<1>2. in.root \in Module /\ Workdir \in Path /\ in.root.blocks \in Seq(Source)
  BY <1>1 DEF Input, Module, Workdir
<1>3. [dir |-> Workdir, todo |-> in.root.blocks] \in Frame
  BY <1>2 DEF Frame
<1>4. stack \in Seq(Frame)
  BY <1>3 DEF Init
<1> QED
  BY <1>1, <1>2, <1>4 DEF Init, TypeOK

LEMMA NextTypeOK == TypeOK /\ [Next]_vars => TypeOK'
<1> SUFFICES ASSUME TypeOK, [Next]_vars
             PROVE  TypeOK'
  OBVIOUS
<1>1. CASE SkipRemote
  BY <1>1, TopType DEF SkipRemote, TypeOK, Deps
<1>2. CASE FailAboveTree
  BY <1>2 DEF FailAboveTree, Fail, TypeOK, Failures, Deps
<1>3. CASE FailAmbiguous
  BY <1>3 DEF FailAmbiguous, Fail, TypeOK, Failures, Deps
<1>4. CASE FailUnmatched
  BY <1>4 DEF FailUnmatched, Fail, TypeOK, Failures, Deps
<1>5. ASSUME NEW i \in Deps, Install(i)
      PROVE  TypeOK'
  <2>1. installed' \subseteq [at : Path, of : {0} \cup Deps]
    BY <1>5, TargetType DEF Install, TypeOK
  <2>2. stack' \in Seq(Frame) /\ visited' \subseteq Path
    BY <1>5, <2>1, DescendType DEF Install
  <2> QED
    BY <1>5, <2>1, <2>2 DEF Install, TypeOK, Deps
<1>6. ASSUME NEW i \in Deps, FailPathTooLong(i)
      PROVE  TypeOK'
  BY <1>6 DEF FailPathTooLong, TypeOK, Failures, Deps
<1>7. CASE Reuse
  <2>1. stack' \in Seq(Frame) /\ visited' \subseteq Path
    BY <1>7, DescendType DEF Reuse, TypeOK
  <2>2. used' \subseteq Deps
    BY <1>7, MatchType DEF Reuse, TypeOK
  <2> QED
    BY <1>7, <2>1, <2>2 DEF Reuse, TypeOK, Deps
<1>8. CASE Return
  BY <1>8 DEF Return, TypeOK, Deps
<1>9. CASE Finish
  BY <1>9 DEF Finish, TypeOK, Failures, Deps
<1>10. CASE UNCHANGED vars
  BY <1>10 DEF vars, TypeOK, Deps
<1> QED
  BY <1>1, <1>2, <1>3, <1>4, <1>5, <1>6, <1>7, <1>8, <1>9, <1>10 DEF Next, Exited

(***************************************************************************)
(* The variables of the resolution keep their types on every input.        *)
(***************************************************************************)
THEOREM TypeCorrect == Spec => []TypeOK
<1>1. Init => TypeOK
  BY InitTypeOK
<1>2. TypeOK /\ [Next]_vars => TypeOK'
  BY NextTypeOK
<1> QED
  BY <1>1, <1>2, PTL DEF Spec

-------------------------------------------------------------------------------
(***************************************************************************)
(* The staged tree                                                          *)
(***************************************************************************)

\* A module's files lie within the directory it was copied to.
LEMMA OccupiesType ==
  ASSUME TypeOK, NEW e \in [at : Path, of : {0} \cup Deps], NEW d \in Occupies(e)
  PROVE  d \in Path /\ Within(d, e.at)
<1>1. ModuleOf(e.of).data \subseteq Path
  BY ModuleType DEF Module
<1>2. CASE d = e.at
  BY <1>2, WithinReflexive
<1>3. ASSUME NEW x \in ModuleOf(e.of).data, d = e.at \o x
      PROVE  d \in Path /\ Within(d, e.at)
  BY <1>1, <1>3, WithinConcat
<1> QED
  BY <1>2, <1>3 DEF Occupies

\* A directory a module was copied to exists.
LEMMA InstalledIsDir == TypeOK => \A e \in installed : IsDir(e.at)
<1> SUFFICES ASSUME TypeOK, NEW e \in installed
             PROVE  IsDir(e.at)
  OBVIOUS
<1>1. e.at \in Path /\ e.at \in Occupies(e)
  BY DEF TypeOK, Occupies
<1> QED
  BY <1>1, WithinReflexive DEF IsDir

\* What may be copied, and what it leaves alone.
Growth ==
  /\ in' = in
  /\ installed \subseteq installed'
  /\ \A e \in installed' \ installed : ~IsDir(e.at)
  /\ \A e, f \in installed' \ installed : e = f

LEMMA NextGrowth == TypeOK /\ [Next]_vars => Growth
<1> SUFFICES ASSUME TypeOK, [Next]_vars
             PROVE  Growth
  OBVIOUS
<1>1. ASSUME NEW i \in Deps, Install(i)
      PROVE  Growth
  BY <1>1 DEF Install, Growth
<1>2. CASE UNCHANGED <<in, installed>>
  BY <1>2 DEF Growth
<1> QED
  BY <1>1, <1>2
  DEF Next, vars, SkipRemote, FailAboveTree, FailAmbiguous, FailUnmatched, Fail,
      FailPathTooLong, Reuse, Return, Finish, Exited

LEMMA OccupiesStable ==
  ASSUME Growth, NEW e
  PROVE  Occupies(e)' = Occupies(e)
BY DEF Growth, Occupies, ModuleOf

\* A directory that exists goes on existing, with the blocks it had.
LEMMA TreeStable ==
  ASSUME Growth, NEW dir, IsDir(dir)
  PROVE  /\ IsDir(dir)'
         /\ BlocksAt(dir)' = BlocksAt(dir)
         /\ SourcesAt(dir)' = SourcesAt(dir)
<1>1. IsDir(dir)'
  <2>1. PICK e \in installed : \E d \in Occupies(e) : Within(d, dir)
    BY DEF IsDir
  <2>2. e \in installed' /\ Occupies(e)' = Occupies(e)
    BY OccupiesStable DEF Growth
  <2> QED
    BY <2>1, <2>2 DEF IsDir, Within
<1>2. {f \in installed : f.at = dir}' = {f \in installed : f.at = dir}
  BY DEF Growth
<1>3. \A i : ModuleOf(i)' = ModuleOf(i)
  BY DEF Growth, ModuleOf
<1>4. BlocksAt(dir)' = BlocksAt(dir)
  BY <1>2, <1>3 DEF BlocksAt, Elements
<1> QED
  BY <1>1, <1>4 DEF SourcesAt, IsLocal

\* At most one module is copied to a directory, so ParseDir reads all there is.
LEMMA ParseDirIsAll ==
  TypeOK /\ NoOverlay => \A dir : Elements(ParseDir(installed, dir)) = BlocksAt(dir)
<1> SUFFICES ASSUME TypeOK, NoOverlay, NEW dir
             PROVE  Elements(ParseDir(installed, dir)) = BlocksAt(dir)
  OBVIOUS
<1>1. CASE \E e \in installed : e.at = dir
  <2> DEFINE e == CHOOSE e \in installed : e.at = dir
  <2>1. e \in installed /\ e.at = dir
    BY <1>1
  <2>2. \A f \in installed : f.at = dir => f = e
    BY <2>1 DEF NoOverlay, Occupies
  <2>3. {f \in installed : f.at = dir} = {e}
    BY <2>1, <2>2
  <2>4. BlocksAt(dir) = Elements(ModuleOf(e.of).blocks)
    BY <2>3 DEF BlocksAt
  <2> QED
    BY <1>1, <2>4 DEF ParseDir
<1>2. CASE ~ \E e \in installed : e.at = dir
  BY <1>2 DEF ParseDir, BlocksAt, Elements
<1> QED
  BY <1>1, <1>2

\* What is copied shares no directory with what is there.
LEMMA NewApart ==
  ASSUME TypeOK, TypeOK', Growth, NEW e \in installed' \ installed, NEW f \in installed
  PROVE  Occupies(e) \cap Occupies(f) = {}
<1> SUFFICES ASSUME NEW d \in Occupies(e), d \in Occupies(f)
             PROVE  FALSE
  OBVIOUS
<1>1. e \in [at : Path, of : {0} \cup Deps]
  BY DEF TypeOK, Growth, Deps
<1>2. Within(d, e.at)
  BY <1>1, OccupiesType
<1>3. IsDir(e.at)
  BY <1>2 DEF IsDir
<1> QED
  BY <1>3 DEF Growth

LEMMA NextNoOverlay == TypeOK /\ NoOverlay /\ [Next]_vars => NoOverlay'
<1> SUFFICES ASSUME TypeOK, NoOverlay, [Next]_vars,
                    NEW e \in installed', NEW f \in installed',
                    Occupies(e) \cap Occupies(f) # {}
             PROVE  e = f
  <2> SUFFICES ASSUME TypeOK, NoOverlay, [Next]_vars
               PROVE  NoOverlay'
    OBVIOUS
  <2>1. \A e : Occupies(e)' = Occupies(e)
    BY NextGrowth, OccupiesStable
  <2> QED
    BY <2>1 DEF NoOverlay
<1>1. Growth /\ TypeOK'
  BY NextGrowth, NextTypeOK
<1>2. CASE e \in installed /\ f \in installed
  BY <1>2 DEF NoOverlay
<1>3. CASE e \notin installed /\ f \in installed
  BY <1>1, <1>3, NewApart
<1>4. CASE e \in installed /\ f \notin installed
  BY <1>1, <1>4, NewApart
<1>5. CASE e \notin installed /\ f \notin installed
  BY <1>1, <1>5 DEF Growth
<1> QED
  BY <1>2, <1>3, <1>4, <1>5

-------------------------------------------------------------------------------
(***************************************************************************)
(* The walk                                                                 *)
(***************************************************************************)

\* The block at hand is one of a module in the tree.
LEMMA BlockReal ==
  ASSUME TypeOK, FramesReal, Treating
  PROVE  Top.dir \in Reached /\ Block \in BlocksAt(Top.dir)
<1>1. Len(stack) \in 1..Len(stack)
  BY TopType
<1>2. Top.todo \in Seq(Source) /\ Top.todo # <<>>
  BY TopType DEF Frame, Treating
<1>3. Block \in Elements(Top.todo)
  BY <1>2 DEF Block, Elements
<1> QED
  BY <1>1, <1>3 DEF FramesReal, Top

\* What advancing past the block at hand leaves on the stack.
LEMMA AdvancedFrames ==
  ASSUME TypeOK, Treating
  PROVE  /\ Len(Advanced) = Len(stack)
         /\ \A n \in 1..Len(stack) :
              /\ n # Len(stack) => Advanced[n] = stack[n]
              /\ Advanced[n].dir = stack[n].dir
              /\ Elements(Advanced[n].todo) \subseteq Elements(stack[n].todo)
              /\ Elements(stack[n].todo) \subseteq Elements(Advanced[n].todo) \cup {Block}
<1>1. stack \in Seq(Frame) /\ Len(stack) \in 1..Len(stack)
  BY TopType DEF TypeOK
<1>2. Top.todo \in Seq(Source) /\ Top.todo # <<>>
  BY TopType DEF Frame, Treating
<1>3. Elements(Tail(Top.todo)) \subseteq Elements(Top.todo)
  <2> SUFFICES ASSUME NEW n \in 1..Len(Tail(Top.todo))
               PROVE  \E k \in 1..Len(Top.todo) : Top.todo[k] = Tail(Top.todo)[n]
    BY DEF Elements
  <2>1. n + 1 \in 1..Len(Top.todo) /\ Tail(Top.todo)[n] = Top.todo[n + 1]
    BY <1>2
  <2> QED
    BY <2>1
<1>4. Elements(Top.todo) \subseteq Elements(Tail(Top.todo)) \cup {Block}
  <2> SUFFICES ASSUME NEW n \in 1..Len(Top.todo), n # 1
               PROVE  \E k \in 1..Len(Tail(Top.todo)) : Tail(Top.todo)[k] = Top.todo[n]
    BY DEF Elements, Block
  <2>1. n - 1 \in 1..Len(Tail(Top.todo)) /\ Tail(Top.todo)[n - 1] = Top.todo[n]
    BY <1>2
  <2> QED
    BY <2>1
<1>5. /\ Len(Advanced) = Len(stack)
      /\ Advanced[Len(stack)] = [dir |-> Top.dir, todo |-> Tail(Top.todo)]
      /\ \A n \in 1..Len(stack) : n # Len(stack) => Advanced[n] = stack[n]
  BY <1>1 DEF Advanced
<1>6. ASSUME NEW n \in 1..Len(stack)
      PROVE  /\ Advanced[n].dir = stack[n].dir
             /\ Elements(Advanced[n].todo) \subseteq Elements(stack[n].todo)
             /\ Elements(stack[n].todo) \subseteq Elements(Advanced[n].todo) \cup {Block}
  <2>1. CASE n # Len(stack)
    BY <1>5, <2>1
  <2>2. CASE n = Len(stack)
    <3>1. stack[n] = Top
      BY <2>2 DEF Top
    <3>2. Advanced[n] = [dir |-> Top.dir, todo |-> Tail(Top.todo)]
      BY <1>5, <2>2
    <3>3. Advanced[n].dir = Top.dir /\ Advanced[n].todo = Tail(Top.todo)
      BY <3>2
    <3> QED
      BY <1>3, <1>4, <3>1, <3>3
  <2> QED
    BY <2>1, <2>2
<1> QED
  BY <1>5, <1>6

\* The tree as the walk sees it, after a step that leaves the stack alone or
\* advances it without a call.
LEMMA FramesKept ==
  ASSUME TypeOK, ReachedExist, FramesReal, Growth, UNCHANGED visited,
         Len(stack') \in 0..Len(stack),
         \A n \in 1..Len(stack') :
           /\ stack'[n].dir = stack[n].dir
           /\ Elements(stack'[n].todo) \subseteq Elements(stack[n].todo)
  PROVE  ReachedExist' /\ FramesReal'
<1>1. Reached' = Reached
  BY DEF Reached, Growth, Workdir
<1>2. \A dir \in Reached : IsDir(dir)' /\ BlocksAt(dir)' = BlocksAt(dir)
  BY TreeStable DEF ReachedExist
<1>3. ReachedExist'
  BY <1>1, <1>2 DEF ReachedExist
<1>4. FramesReal'
  BY <1>1, <1>2 DEF FramesReal
<1> QED
  BY <1>3, <1>4

LEMMA DealtKept ==
  ASSUME Growth, visited \subseteq visited', NEW dir, NEW src, Dealt(dir, src)
  PROVE  Dealt(dir, src)'
<1>1. IsDir(Join(dir, src))'
  BY TreeStable DEF Dealt
<1> QED
  BY <1>1 DEF Dealt, ClimbsOut, Join

LEMMA SkipRemoteWalk ==
  ASSUME IInv, SkipRemote, Growth
  PROVE  ReachedExist' /\ FramesReal' /\ DealtOrPending'
<1>1. /\ Len(stack') = Len(stack) /\ Len(stack) \in Nat
      /\ \A n \in 1..Len(stack) :
           /\ stack'[n].dir = stack[n].dir
           /\ Elements(stack'[n].todo) \subseteq Elements(stack[n].todo)
           /\ Elements(stack[n].todo) \subseteq Elements(stack'[n].todo) \cup {Block}
  BY AdvancedFrames, TopType DEF SkipRemote, IInv
<1>2. ReachedExist' /\ FramesReal'
  BY <1>1, FramesKept DEF IInv, SkipRemote
<1>3. DealtOrPending'
  <2>1. Reached' = Reached
    BY DEF Reached, Growth, Workdir, SkipRemote
  <2> SUFFICES ASSUME NEW dir \in Reached, NEW src \in SourcesAt(dir)
               PROVE  Dealt(dir, src)' \/ Pending(dir, src)'
    BY <2>1, TreeStable DEF DealtOrPending, ReachedExist, IInv
  <2>2. CASE Dealt(dir, src)
    BY <2>2, DealtKept DEF SkipRemote
  <2>3. CASE Pending(dir, src)
    <3>1. src # Block
      BY DEF SourcesAt, SkipRemote
    <3> QED
      BY <1>1, <2>3, <3>1 DEF Pending
  <2> QED
    BY <2>2, <2>3 DEF DealtOrPending, IInv
<1> QED
  BY <1>2, <1>3

\* A sequence without its last element.
LEMMA ButLast ==
  ASSUME NEW S, NEW s \in Seq(S), s # <<>>
  PROVE  /\ Len(SubSeq(s, 1, Len(s) - 1)) = Len(s) - 1
         /\ \A n \in 1..Len(s) : n # Len(s) => SubSeq(s, 1, Len(s) - 1)[n] = s[n]
<1>1. ASSUME NEW k \in Nat, k + 1 = Len(s)
      PROVE  /\ Len(SubSeq(s, 1, k)) = k
             /\ \A n \in 1..Len(s) : n # Len(s) => SubSeq(s, 1, k)[n] = s[n]
  <2>1. Len(SubSeq(s, 1, k)) = k /\ \A n \in 1..k : SubSeq(s, 1, k)[n] = s[n]
    BY <1>1
  <2>2. \A n \in 1..Len(s) : n # Len(s) => n \in 1..k
    BY <1>1
  <2> QED
    BY <2>1, <2>2
<1>2. Len(s) - 1 \in Nat /\ (Len(s) - 1) + 1 = Len(s)
  OBVIOUS
<1> QED
  BY <1>1, <1>2

LEMMA ReturnWalk ==
  ASSUME IInv, Return, Growth
  PROVE  ReachedExist' /\ FramesReal' /\ DealtOrPending'
<1>1. /\ Len(stack') = Len(stack) - 1 /\ Len(stack) \in Nat \ {0}
      /\ \A n \in 1..Len(stack) : n # Len(stack) => stack'[n] = stack[n]
  <2>1. stack \in Seq(Frame) /\ stack # <<>> /\ stack' = SubSeq(stack, 1, Len(stack) - 1)
    BY DEF Return, IInv, TypeOK
  <2>2. Len(stack) \in Nat \ {0}
    BY <2>1
  <2> QED
    BY <2>1, <2>2, ButLast
<1>2. ReachedExist' /\ FramesReal'
  BY <1>1, FramesKept DEF IInv, Return
<1>3. DealtOrPending'
  <2>1. Reached' = Reached
    BY DEF Reached, Growth, Workdir, Return
  <2> SUFFICES ASSUME NEW dir \in Reached, NEW src \in SourcesAt(dir)
               PROVE  Dealt(dir, src)' \/ Pending(dir, src)'
    BY <2>1, TreeStable DEF DealtOrPending, ReachedExist, IInv
  <2>2. CASE Dealt(dir, src)
    BY <2>2, DealtKept DEF Return
  <2>3. CASE Pending(dir, src)
    <3>1. Elements(stack[Len(stack)].todo) = {}
      BY DEF Return, Top, Elements
    <3> QED
      BY <1>1, <2>3, <3>1 DEF Pending
  <2> QED
    BY <2>2, <2>3 DEF DealtOrPending, IInv
<1> QED
  BY <1>2, <1>3

\* The recursive call: the block at hand is dealt with, and the blocks of a
\* directory entered for the first time are on the stack.
LEMMA DescendWalk ==
  ASSUME IInv, NoOverlay', TypeOK', Resolving, Growth, Descend(installed'),
         NEW t, t = Target, IsDir(t)'
  PROVE  ReachedExist' /\ FramesReal' /\ DealtOrPending'
<1>1. Treating /\ IsLocal(Block) /\ ~ClimbsOut(Top.dir, Block)
  BY DEF Resolving
<1>2. /\ Len(Advanced) = Len(stack) /\ Len(stack) \in Nat \ {0} /\ Advanced \in Seq(Frame)
      /\ \A n \in 1..Len(stack) :
           /\ n # Len(stack) => Advanced[n] = stack[n]
           /\ Advanced[n].dir = stack[n].dir
           /\ Elements(Advanced[n].todo) \subseteq Elements(stack[n].todo)
           /\ Elements(stack[n].todo) \subseteq Elements(Advanced[n].todo) \cup {Block}
  BY <1>1, AdvancedFrames, TopType DEF IInv
<1>3. visited' = visited \cup {t} /\ Reached' = Reached \cup {t}
  BY DEF Descend, Reached, Growth, Workdir
<1>4. \A dir \in Reached :
        IsDir(dir)' /\ BlocksAt(dir)' = BlocksAt(dir) /\ SourcesAt(dir)' = SourcesAt(dir)
  BY TreeStable DEF ReachedExist, IInv
<1>5. ReachedExist'
  <2>1. \A dir \in Reached' : IsDir(dir)'
    BY <1>3, <1>4
  <2> QED
    BY <2>1 DEF ReachedExist
<1>6. ParseDir(installed', t) = ParseDir(installed, t)'
  <2>1. \A i : ModuleOf(i)' = ModuleOf(i)
    BY DEF Growth, ModuleOf
  <2> QED
    BY <2>1 DEF ParseDir
<1>7. Elements(ParseDir(installed', t)) = BlocksAt(t)'
  <2>1. (\A dir : Elements(ParseDir(installed, dir)) = BlocksAt(dir))'
    BY ParseDirIsAll, PTL
  <2>2. Elements(ParseDir(installed, t))' = BlocksAt(t)'
    BY <2>1
  <2> QED
    BY <1>6, <2>2 DEF Elements
<1>8. \/ t \in visited /\ stack' = Advanced
      \/ /\ Len(stack') = Len(stack) + 1
         /\ \A n \in 1..Len(stack) : stack'[n] = Advanced[n]
         /\ stack'[Len(stack')] = [dir |-> t, todo |-> ParseDir(installed', t)]
  BY <1>2 DEF Descend
<1>9. Len(stack') \in Nat /\ \A n \in 1..Len(stack) : n \in 1..Len(stack') /\ stack'[n] = Advanced[n]
  BY <1>2, <1>8
<1>10. FramesReal'
  <2> SUFFICES ASSUME NEW n \in 1..Len(stack'), NEW d, d = stack'[n].dir
               PROVE  d \in Reached' /\ Elements(stack'[n].todo) \subseteq BlocksAt(d)'
    BY DEF FramesReal, Elements
  <2>1. CASE n \in 1..Len(stack)
    <3>1. stack'[n] = Advanced[n] /\ d = stack[n].dir
      BY <1>2, <1>9, <2>1
    <3>2. d \in Reached /\ Elements(stack[n].todo) \subseteq BlocksAt(d)
      BY <2>1, <3>1 DEF FramesReal, IInv
    <3> QED
      BY <1>2, <1>3, <1>4, <2>1, <3>1, <3>2
  <2>2. CASE n \notin 1..Len(stack)
    <3>1. n = Len(stack') /\ stack'[n] = [dir |-> t, todo |-> ParseDir(installed', t)]
      BY <1>2, <1>8, <2>2
    <3>2. d = t /\ stack'[n].todo = ParseDir(installed', t)
      BY <3>1
    <3> QED
      BY <1>3, <1>7, <3>2
  <2> QED
    BY <2>1, <2>2
<1>11. DealtOrPending'
  <2> SUFFICES ASSUME NEW dir \in Reached', NEW src \in SourcesAt(dir)'
               PROVE  Dealt(dir, src)' \/ Pending(dir, src)'
    BY DEF DealtOrPending
  <2>1. CASE dir \in Reached
    <3>1. src \in SourcesAt(dir)
      BY <1>4, <2>1
    <3>2. CASE Dealt(dir, src)
      BY <1>3, <3>2, DealtKept
    <3>3. ASSUME NEW n \in 1..Len(stack), stack[n].dir = dir,
                 src \in Elements(stack[n].todo), src # Block
          PROVE  Pending(dir, src)'
      BY <1>2, <1>9, <3>3 DEF Pending
    <3>4. CASE src = Block /\ dir = Top.dir
      <4>1. t = Join(dir, src) /\ ~ClimbsOut(dir, src)
        BY <1>1, <3>4 DEF Target
      <4> QED
        BY <1>3, <4>1 DEF Dealt, Join, ClimbsOut
    <3>5. ASSUME NEW n \in 1..Len(stack), stack[n].dir = dir,
                 src \in Elements(stack[n].todo), src = Block, n # Len(stack)
          PROVE  Pending(dir, src)'
      <4>1. Advanced[n] = stack[n]
        BY <3>5, <1>2
      <4> QED
        BY <1>9, <3>5, <4>1 DEF Pending
    <3> QED
      BY <2>1, <3>1, <3>2, <3>3, <3>4, <3>5 DEF DealtOrPending, Pending, IInv, Top
  <2>2. CASE dir \notin Reached
    <3>1. dir = t /\ t \notin visited
      BY <1>3, <2>2 DEF Reached
    <3>2. src \in Elements(ParseDir(installed', t))
      BY <1>7, <3>1 DEF SourcesAt
    <3> QED
      BY <1>8, <1>9, <1>2, <3>1, <3>2 DEF Pending
  <2> QED
    BY <2>1, <2>2
<1> QED
  BY <1>5, <1>10, <1>11

-------------------------------------------------------------------------------
(***************************************************************************)
(* The inductive invariant                                                  *)
(***************************************************************************)

\* What copied a module, and what marked a candidate, goes on being read.
LEMMA DemandKept ==
  ASSUME Growth, ReachedExist, visited \subseteq visited',
         NEW dir \in Reached, NEW src \in SourcesAt(dir)
  PROVE  /\ dir \in Reached' /\ src \in SourcesAt(dir)'
         /\ ClimbsOut(dir, src)' = ClimbsOut(dir, src)
         /\ Join(dir, src)' = Join(dir, src)
         /\ Match(src, Join(dir, src))' = Match(src, Join(dir, src))
<1>1. dir \in Reached' /\ src \in SourcesAt(dir)'
  BY TreeStable DEF ReachedExist, Reached, Growth, Workdir
<1>2. Match(src, Join(dir, src))' = Match(src, Join(dir, src))
  BY DEF Match, DirMatch, TailMatch, EndsIn, Deps, Join, Growth
<1> QED
  BY <1>1, <1>2 DEF ClimbsOut, Join

LEMMA InitIInv == Init => IInv
<1> SUFFICES ASSUME Init
             PROVE  IInv
  OBVIOUS
<1>1. TypeOK
  BY InitTypeOK
<1>2. Reached = {Workdir} /\ installed = {[at |-> Workdir, of |-> 0]}
  BY DEF Init, Reached
<1>3. NoOverlay /\ RootPlaced /\ InstalledOnDemand /\ UsedReferenced /\ DoneIsFinished
  BY <1>2 DEF Init, NoOverlay, RootPlaced, InstalledOnDemand, UsedReferenced, DoneIsFinished
<1>4. ReachedExist
  BY <1>1, <1>2, InstalledIsDir DEF ReachedExist
<1>5. BlocksAt(Workdir) = Elements(in.root.blocks)
  <2>1. {f \in installed : f.at = Workdir} = {[at |-> Workdir, of |-> 0]}
    BY <1>2
  <2>2. BlocksAt(Workdir) = Elements(ModuleOf([at |-> Workdir, of |-> 0].of).blocks)
    BY <2>1 DEF BlocksAt
  <2> QED
    BY <2>2 DEF ModuleOf
<1>6. Len(stack) = 1 /\ stack[1].dir = Workdir /\ stack[1].todo = in.root.blocks
  BY DEF Init
<1>7. FramesReal
  BY <1>2, <1>5, <1>6 DEF FramesReal
<1>8. DealtOrPending
  BY <1>2, <1>5, <1>6 DEF DealtOrPending, Pending, SourcesAt
<1> QED
  BY <1>1, <1>3, <1>4, <1>7, <1>8 DEF IInv

\* The part of the invariant that speaks of the stack.
LEMMA NextWalk ==
  ASSUME IInv, [Next]_vars, Growth, TypeOK', NoOverlay'
  PROVE  /\ visited \subseteq visited'
         /\ ReachedExist' /\ FramesReal' /\ DealtOrPending'
<1>1. CASE SkipRemote
  BY <1>1, SkipRemoteWalk DEF SkipRemote
<1>2. CASE Return
  BY <1>2, ReturnWalk DEF Return
<1>3. ASSUME NEW i \in Deps, Install(i)
      PROVE  visited \subseteq visited' /\ ReachedExist' /\ FramesReal' /\ DealtOrPending'
  <2>1. PICK t : t = Target
    OBVIOUS
  <2>2. [at |-> t, of |-> i] \in installed'
    BY <1>3, <2>1 DEF Install
  <2>3. (\A e \in installed : IsDir(e.at))'
    BY InstalledIsDir, PTL
  <2>4. IsDir(t)'
    BY <2>2, <2>3
  <2> QED
    BY <1>3, <2>1, <2>4, DescendWalk DEF Install, Descend
<1>4. CASE Reuse
  <2>1. PICK t : t = Target
    OBVIOUS
  <2>2. IsDir(t)'
    BY <1>4, <2>1, TreeStable DEF Reuse
  <2>3. Descend(installed')
    BY <1>4 DEF Reuse, Descend
  <2> QED
    BY <1>4, <2>1, <2>2, <2>3, DescendWalk DEF Reuse, Descend
<1>5. CASE UNCHANGED <<in, stack, visited, installed>>
  <2>1. Len(stack') \in 0..Len(stack)
    BY <1>5 DEF IInv, TypeOK
  <2>2. ReachedExist' /\ FramesReal'
    BY <1>5, <2>1, FramesKept DEF IInv
  <2>3. Reached' = Reached
    BY <1>5 DEF Reached, Workdir
  <2>4. ASSUME NEW dir \in Reached, NEW src \in SourcesAt(dir)
        PROVE  Dealt(dir, src)' \/ Pending(dir, src)'
    <3>1. CASE Dealt(dir, src)
      BY <1>5, <3>1, DealtKept
    <3>2. CASE Pending(dir, src)
      BY <1>5, <3>2 DEF Pending
    <3> QED
      BY <3>1, <3>2 DEF DealtOrPending, IInv
  <2> QED
    BY <1>5, <2>2, <2>3, <2>4, TreeStable DEF DealtOrPending, ReachedExist, IInv
<1>6. SkipRemote \/ Return \/ (\E i \in Deps : Install(i)) \/ Reuse
        \/ UNCHANGED <<in, stack, visited, installed>>
  BY DEF Next, vars, FailAboveTree, FailAmbiguous, FailUnmatched, Fail, FailPathTooLong,
         Finish, Exited
<1> QED
  BY <1>1, <1>2, <1>3, <1>4, <1>5, <1>6

\* The part that speaks of what is copied and marked, and why.
LEMMA NextDemand ==
  ASSUME IInv, [Next]_vars, Growth, visited \subseteq visited'
  PROVE  RootPlaced' /\ InstalledOnDemand' /\ UsedReferenced'
<1>1. RootPlaced'
  BY DEF IInv, RootPlaced, Growth, Workdir
<1>2. ASSUME Resolving
      PROVE  /\ Top.dir \in Reached /\ Block \in SourcesAt(Top.dir)
             /\ ~ClimbsOut(Top.dir, Block) /\ Target = Join(Top.dir, Block)
  BY <1>2, BlockReal DEF Resolving, SourcesAt, IInv, Target
<1>3. \A e \in installed' \ installed :
        Resolving /\ e.at = Target /\ Match(Block, Target) = {e.of}
  BY DEF Next, vars, SkipRemote, FailAboveTree, FailAmbiguous, FailUnmatched, Fail, Install,
         FailPathTooLong, Reuse, Return, Finish, Exited
<1>4. \A i \in used' \ used : Resolving /\ i \in Match(Block, Target)
  BY DEF Next, vars, SkipRemote, FailAboveTree, FailAmbiguous, FailUnmatched, Fail, Install,
         FailPathTooLong, Reuse, Return, Finish, Exited
<1>5. InstalledOnDemand'
  <2> SUFFICES ASSUME NEW e \in installed', e.of # 0
               PROVE  \E dir \in Reached' : \E src \in SourcesAt(dir)' :
                        /\ ~ClimbsOut(dir, src)'
                        /\ Join(dir, src)' = e.at
                        /\ Match(src, e.at)' = {e.of}
    BY DEF InstalledOnDemand
  <2>1. PICK dir \in Reached : \E src \in SourcesAt(dir) :
          ~ClimbsOut(dir, src) /\ Join(dir, src) = e.at /\ Match(src, e.at) = {e.of}
    BY <1>2, <1>3 DEF InstalledOnDemand, IInv
  <2>2. PICK src \in SourcesAt(dir) :
          ~ClimbsOut(dir, src) /\ Join(dir, src) = e.at /\ Match(src, e.at) = {e.of}
    BY <2>1
  <2> QED
    BY <2>2, DemandKept DEF IInv
<1>6. UsedReferenced'
  <2> SUFFICES ASSUME NEW i \in used'
               PROVE  \E dir \in Reached' : \E src \in SourcesAt(dir)' :
                        ~ClimbsOut(dir, src)' /\ i \in Match(src, Join(dir, src))'
    BY DEF UsedReferenced
  <2>1. PICK dir \in Reached : \E src \in SourcesAt(dir) :
          ~ClimbsOut(dir, src) /\ i \in Match(src, Join(dir, src))
    BY <1>2, <1>4 DEF UsedReferenced, IInv
  <2>2. PICK src \in SourcesAt(dir) :
          ~ClimbsOut(dir, src) /\ i \in Match(src, Join(dir, src))
    BY <2>1
  <2> QED
    BY <2>2, DemandKept DEF IInv
<1> QED
  BY <1>1, <1>5, <1>6

LEMMA NextIInv == IInv /\ [Next]_vars => IInv'
<1> SUFFICES ASSUME IInv, [Next]_vars
             PROVE  IInv'
  OBVIOUS
<1>1. TypeOK' /\ NoOverlay' /\ Growth
  BY NextTypeOK, NextNoOverlay, NextGrowth DEF IInv
<1>2. visited \subseteq visited' /\ ReachedExist' /\ FramesReal' /\ DealtOrPending'
  BY <1>1, NextWalk
<1>3. RootPlaced' /\ InstalledOnDemand' /\ UsedReferenced'
  BY <1>1, <1>2, NextDemand
<1>4. DoneIsFinished'
  BY DEF IInv, DoneIsFinished, TypeOK, Deps, Failures, Next, vars, SkipRemote, FailAboveTree,
         FailAmbiguous, FailUnmatched, Fail, Install, FailPathTooLong, Reuse, Return, Finish,
         Exited, Treating, Resolving
<1> QED
  BY <1>1, <1>2, <1>3, <1>4 DEF IInv

LEMMA Invariance == Spec => []IInv
<1>1. Init => IInv
  BY InitIInv
<1>2. IInv /\ [Next]_vars => IInv'
  BY NextIInv
<1> QED
  BY <1>1, <1>2, PTL DEF Spec

-------------------------------------------------------------------------------
(***************************************************************************)
(* No directory of the staged tree ever holds the files of two modules.    *)
(***************************************************************************)
THEOREM NoOverlaySafety == Spec => []NoOverlay
BY Invariance, PTL DEF IInv

(***************************************************************************)
(* A candidate is only ever copied where a block of the tree asks for it.  *)
(***************************************************************************)
THEOREM DemandSafety == Spec => []InstalledOnDemand
BY Invariance, PTL DEF IInv

(***************************************************************************)
(* A tree the tool accepts is closed under the sources of its blocks.      *)
(***************************************************************************)
THEOREM ClosureSafety == Spec => []ClosedWhenDone
<1>1. IInv => ClosedWhenDone
  BY DEF IInv, ClosedWhenDone, DoneIsFinished, DealtOrPending, Pending, Dealt
<1> QED
  BY <1>1, Invariance, PTL

(***************************************************************************)
(* A tree the tool accepts references every dep.                            *)
(***************************************************************************)
THEOREM ReferenceSafety == Spec => []ReferencedWhenDone
<1>1. IInv => ReferencedWhenDone
  BY DEF IInv, ReferencedWhenDone, DoneIsFinished, UsedReferenced
<1> QED
  BY <1>1, Invariance, PTL

-------------------------------------------------------------------------------
(***************************************************************************)
(* The tail match                                                           *)
(***************************************************************************)

LEMMA EndsInTransitive ==
  ASSUME NEW p \in Path, NEW s \in Path, NEW r \in Path, EndsIn(p, s), EndsIn(s, r)
  PROVE  EndsIn(p, r)
<1>1. Len(p) \in Nat /\ Len(s) \in Nat /\ Len(r) \in Nat
  BY DEF Path
<1>2. Len(r) <= Len(p)
  BY <1>1 DEF EndsIn
<1>3. ASSUME NEW n \in 1..Len(r)
      PROVE  r[n] = p[Len(p) - Len(r) + n]
  <2>1. Len(s) - Len(r) + n \in 1..Len(s) /\ r[n] = s[Len(s) - Len(r) + n]
    BY <1>1, <1>3 DEF EndsIn
  <2>2. s[Len(s) - Len(r) + n] = p[Len(p) - Len(s) + (Len(s) - Len(r) + n)]
    BY <2>1 DEF EndsIn
  <2>3. Len(p) - Len(s) + (Len(s) - Len(r) + n) = Len(p) - Len(r) + n
    BY <1>1, <1>3
  <2> QED
    BY <2>1, <2>2, <2>3
<1> QED
  BY <1>2, <1>3 DEF EndsIn

\* Of two tails of one path, the shorter is a tail of the longer.
LEMMA TailsNest ==
  ASSUME NEW t \in Path, NEW s \in Path, NEW r \in Path,
         EndsIn(t, s), EndsIn(t, r), Len(r) <= Len(s)
  PROVE  EndsIn(s, r)
<1>1. Len(t) \in Nat /\ Len(s) \in Nat /\ Len(r) \in Nat
  BY DEF Path
<1> SUFFICES ASSUME NEW n \in 1..Len(r)
             PROVE  r[n] = s[Len(s) - Len(r) + n]
  BY DEF EndsIn
<1>2. r[n] = t[Len(t) - Len(r) + n]
  BY DEF EndsIn
<1>3. Len(s) - Len(r) + n \in 1..Len(s)
  BY <1>1
<1>4. s[Len(s) - Len(r) + n] = t[Len(t) - Len(s) + (Len(s) - Len(r) + n)]
  BY <1>3 DEF EndsIn
<1>5. Len(t) - Len(s) + (Len(s) - Len(r) + n) = Len(t) - Len(r) + n
  BY <1>1
<1> QED
  BY <1>2, <1>4, <1>5

\* A source that does not climb is a tail of the directory it names.
LEMMA JoinEndsIn ==
  ASSUME NEW dir \in Path, NEW src \in Local, src.up = 0
  PROVE  EndsIn(Join(dir, src), src.down)
<1>1. src.down \in Seq(Name) /\ dir \in Seq(Name)
  BY DEF Local, Path
<1>2. Len(dir) - src.up = Len(dir) /\ SubSeq(dir, 1, Len(dir)) = dir
  BY <1>1
<1>3. Join(dir, src) = dir \o src.down
  BY <1>2 DEF Join
<1> QED
  BY <1>1, <1>3 DEF EndsIn

(***************************************************************************)
(* Two sources that name one directory, and each choose one candidate for  *)
(* it, choose the same: of two sources that do not climb, one is the tail   *)
(* of the other, so a package that ends in the longer ends in the shorter.  *)
(***************************************************************************)
LEMMA MatchShorter ==
  ASSUME TypeOK, NEW d \in Path, NEW e \in Path, NEW src \in Local, NEW alt \in Local,
         Join(d, src) = Join(e, alt), ~ClimbsOut(d, src),
         DirMatch(Join(d, src)) = {}, Len(src.down) <= Len(alt.down),
         NEW i \in Deps, NEW j \in Deps,
         Match(src, Join(d, src)) = {i}, Match(alt, Join(d, src)) = {j}
  PROVE  i = j
<1>1. src.up = 0 /\ alt.up = 0 /\ TailMatch(src) = {i} /\ TailMatch(alt) = {j}
  BY DEF Match, TailMatch, Local
<1>2. src.down \in Path /\ alt.down \in Path /\ Join(d, src) \in Path
  BY JoinType DEF Local
<1>3. EndsIn(alt.down, src.down)
  BY <1>1, <1>2, JoinEndsIn, TailsNest
<1>4. in.deps[j].pkg \in Path /\ EndsIn(in.deps[j].pkg, alt.down)
  <2>1. in.deps \in Seq(Module)
    BY DEF TypeOK, Input
  <2>2. in.deps[j] \in Module
    BY <2>1 DEF Deps
  <2>3. j \in TailMatch(alt)
    BY <1>1
  <2> QED
    BY <1>1, <2>2, <2>3 DEF TailMatch, Module
<1>5. EndsIn(in.deps[j].pkg, src.down)
  BY <1>2, <1>3, <1>4, EndsInTransitive
<1> QED
  BY <1>1, <1>5 DEF TailMatch

LEMMA MatchAgrees ==
  ASSUME TypeOK, NEW d \in Path, NEW e \in Path, NEW src \in Local, NEW alt \in Local,
         Join(d, src) = Join(e, alt), ~ClimbsOut(d, src), ~ClimbsOut(e, alt),
         NEW i \in Deps, NEW j \in Deps,
         Match(src, Join(d, src)) = {i}, Match(alt, Join(d, src)) = {j}
  PROVE  i = j
<1>1. CASE DirMatch(Join(d, src)) # {}
  <2>1. Match(src, Join(d, src)) = Match(alt, Join(d, src))
    BY <1>1 DEF Match
  <2> QED
    BY <2>1
<1>2. CASE DirMatch(Join(d, src)) = {} /\ Len(src.down) <= Len(alt.down)
  BY <1>2, MatchShorter
<1>3. CASE DirMatch(Join(d, src)) = {} /\ Len(alt.down) <= Len(src.down)
  BY <1>3, MatchShorter
<1>4. Len(src.down) \in Nat /\ Len(alt.down) \in Nat
  BY DEF Local, Path
<1> QED
  BY <1>1, <1>2, <1>3, <1>4

(***************************************************************************)
(* No block the walk reads would have chosen another module for a          *)
(* directory a candidate was copied to.                                     *)
(***************************************************************************)
THEOREM OneModuleSafety == Spec => []OneModulePerTarget
<1>1. IInv => OneModulePerTarget
  <2> SUFFICES ASSUME IInv, NEW e \in installed, e.of # 0,
                      NEW dir \in Reached, NEW src \in SourcesAt(dir), NEW i \in Deps,
                      ~ClimbsOut(dir, src), Join(dir, src) = e.at, Match(src, e.at) = {i}
               PROVE  i = e.of
    BY DEF OneModulePerTarget
  <2>1. PICK d \in Reached : \E alt \in SourcesAt(d) :
          ~ClimbsOut(d, alt) /\ Join(d, alt) = e.at /\ Match(alt, e.at) = {e.of}
    BY DEF IInv, InstalledOnDemand
  <2>2. PICK alt \in SourcesAt(d) :
          ~ClimbsOut(d, alt) /\ Join(d, alt) = e.at /\ Match(alt, e.at) = {e.of}
    BY <2>1
  <2>3. \A x \in Reached : x \in Path /\ SourcesAt(x) \subseteq Local
    <3>1. Reached \subseteq Path
      BY DEF IInv, TypeOK, Reached, Workdir, Input, Module
    <3>2. \A f \in installed : ModuleOf(f.of).blocks \in Seq(Source)
      BY ModuleType DEF IInv, TypeOK, Module
    <3>3. \A x : BlocksAt(x) \subseteq Source
      BY <3>2 DEF BlocksAt, Elements
    <3> QED
      BY <3>1, <3>3 DEF SourcesAt, IsLocal, Source
  <2>4. e.of \in Deps
    BY DEF IInv, TypeOK
  <2> QED
    BY <2>2, <2>3, <2>4, MatchAgrees DEF IInv
<1> QED
  BY <1>1, Invariance, PTL

-------------------------------------------------------------------------------
(***************************************************************************)
(* The recursion                                                            *)
(***************************************************************************)

\* A stack whose frames were all on the old one, in their places.
LEMMA SubstackOnce ==
  ASSUME StackVisited, WalkedOnce, visited \subseteq visited',
         Len(stack) \in Nat, Len(stack') \in Nat, Len(stack') <= Len(stack),
         \A n \in 1..Len(stack') : stack'[n].dir = stack[n].dir
  PROVE  StackVisited' /\ WalkedOnce'
<1>1. \A n \in 1..Len(stack') : n \in 1..Len(stack)
  OBVIOUS
<1>2. StackVisited'
  BY <1>1 DEF StackVisited
<1>3. WalkedOnce'
  BY <1>1 DEF WalkedOnce
<1> QED
  BY <1>2, <1>3

LEMMA DescendOnce ==
  ASSUME TypeOK, Treating, StackVisited, WalkedOnce, NEW tree, Descend(tree)
  PROVE  StackVisited' /\ WalkedOnce'
<1>1. /\ Len(Advanced) = Len(stack) /\ Len(stack) \in Nat \ {0} /\ Advanced \in Seq(Frame)
      /\ \A n \in 1..Len(stack) : Advanced[n].dir = stack[n].dir
  BY AdvancedFrames, TopType
<1>2. CASE Target \in visited
  BY <1>1, <1>2, SubstackOnce DEF Descend
<1>3. CASE Target \notin visited
  <2>1. /\ Len(stack') = Len(stack) + 1 /\ visited' = visited \cup {Target}
        /\ stack'[Len(stack')].dir = Target
        /\ \A n \in 1..Len(stack) : stack'[n].dir = stack[n].dir
    BY <1>1, <1>3 DEF Descend
  <2>2. \A n \in 1..Len(stack') : n = Len(stack') \/ n \in 1..Len(stack)
    BY <1>1, <2>1
  <2>3. StackVisited'
    BY <2>1, <2>2 DEF StackVisited
  <2>4. ASSUME NEW m \in 1..Len(stack'), NEW n \in 1..Len(stack'), m < n,
               stack'[m].dir = stack'[n].dir
        PROVE  m = 1 /\ stack'[m].dir = <<>>
    <3>1. m \in 1..Len(stack)
      BY <1>1, <2>1, <2>4
    <3>2. CASE n = Len(stack')
      BY <1>3, <2>1, <2>4, <3>1, <3>2 DEF StackVisited
    <3>3. CASE n \in 1..Len(stack)
      BY <2>1, <2>4, <3>1, <3>3 DEF WalkedOnce
    <3> QED
      BY <2>2, <3>2, <3>3
  <2>5. WalkedOnce'
    BY <2>4 DEF WalkedOnce
  <2> QED
    BY <2>3, <2>5
<1> QED
  BY <1>2, <1>3

LEMMA NextWalkedOnce ==
  ASSUME TypeOK, StackVisited, WalkedOnce, [Next]_vars
  PROVE  StackVisited' /\ WalkedOnce'
<1>1. CASE stack' = stack /\ visited' = visited
  BY <1>1 DEF StackVisited, WalkedOnce
<1>2. CASE SkipRemote
  <2>1. /\ Len(Advanced) = Len(stack) /\ Len(stack) \in Nat
        /\ \A n \in 1..Len(stack) : Advanced[n].dir = stack[n].dir
    BY <1>2, AdvancedFrames, TopType DEF SkipRemote
  <2> QED
    BY <1>2, <2>1, SubstackOnce DEF SkipRemote
<1>3. ASSUME NEW i \in Deps, Install(i)
      PROVE  StackVisited' /\ WalkedOnce'
  BY <1>3, DescendOnce DEF Install, Resolving
<1>4. CASE Reuse
  BY <1>4, DescendOnce DEF Reuse, Resolving
<1>5. CASE Return
  <2>1. stack \in Seq(Frame) /\ stack # <<>> /\ stack' = SubSeq(stack, 1, Len(stack) - 1)
    BY <1>5 DEF Return, TypeOK
  <2>2. Len(stack) \in Nat \ {0} /\ visited' = visited
    BY <1>5, <2>1 DEF Return
  <2>3. Len(stack') = Len(stack) - 1
        /\ \A n \in 1..Len(stack) : n # Len(stack) => stack'[n] = stack[n]
    BY <2>1, ButLast
  <2>4. \A n \in 1..Len(stack') : stack'[n].dir = stack[n].dir
    BY <2>2, <2>3
  <2> QED
    BY <2>2, <2>3, <2>4, SubstackOnce
<1> QED
  BY <1>1, <1>2, <1>3, <1>4, <1>5
  DEF Next, vars, FailAboveTree, FailAmbiguous, FailUnmatched, FailPathTooLong, Fail, Finish, Exited

(***************************************************************************)
(* The recursion is never inside one directory twice, the root module that *)
(* is the tree root excepted.                                               *)
(***************************************************************************)
THEOREM WalkedOnceSafety == Spec => []WalkedOnce
<1>1. Init => StackVisited /\ WalkedOnce
  <2> SUFFICES ASSUME Init PROVE StackVisited /\ WalkedOnce
    OBVIOUS
  <2>1. Len(stack) = 1 /\ stack[1].dir = Workdir /\ (Workdir = <<>> \/ Workdir \in visited)
    BY DEF Init
  <2> QED
    BY <2>1 DEF StackVisited, WalkedOnce
<1>2. TypeOK /\ StackVisited /\ WalkedOnce /\ [Next]_vars => (StackVisited /\ WalkedOnce)'
  BY NextWalkedOnce
<1> QED
  BY <1>1, <1>2, TypeCorrect, PTL DEF Spec

===============================================================================
