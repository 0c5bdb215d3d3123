----------------------- MODULE ProviderResolutionProofs -----------------------
(***************************************************************************)
(* The provider and toolchain half of the extension implements Pinning:     *)
(* for every set of locks, registries, releases and worlds, and however     *)
(* often upstream moves or an evaluation fails.                             *)
(***************************************************************************)
EXTENDS ProviderResolution, FiniteSetTheorems, TLAPS

Idle == pc \in {"idle", "toolchain", "done", "failed"}

\* An archive fact that was found is one sum, and the fact of an archive has
\* another shape than the fact of an engine.
FactsInv == \A k \in DOMAIN facts.archive :
  IsKey(k) /\ (facts.archive[k] = Failed \/ \E sum : facts.archive[k] = {sum})

\* Nothing of an evaluation is there before it begins.
BlankState == newFacts = NoFacts /\ toolchains = {} /\ pool = <<>>

RestInv == Idle => BlankState

ShapeInv == DOMAIN newFacts = {"checksums", "archive", "platforms"}

\* An archive is declared if it is recorded, as it is recorded, and recorded
\* as it was before.
PoolInv ==
  /\ DOMAIN pool = DOMAIN newFacts.archive
  /\ \A k \in DOMAIN pool :
       /\ IsKey(k) /\ newFacts.archive[k] = {pool[k]}
       /\ k \in DOMAIN facts.archive => facts.archive[k] \in {Failed, {pool[k]}}

PlatformsInv == \A r \in DOMAIN newFacts.platforms :
  r \in DOMAIN facts.platforms => newFacts.platforms[r] = facts.platforms[r]

ChecksumsInv == \A v \in DOMAIN newFacts.checksums :
  v \in DOMAIN facts.checksums /\ facts.checksums[v] # <<>> => newFacts.checksums[v] = facts.checksums[v]

\* The sums of a table of checksums.
Triples(table) == UNION {{<<v, p, table[v][p]>> : p \in DOMAIN table[v]} : v \in DOMAIN table}

\* What is declared of an engine and was not shipped is recorded.
EngineInv == {t \in toolchains : t[1] \notin DOMAIN versions} = Triples(newFacts.checksums)

ProductInv == RestInv /\ ShapeInv /\ PoolInv /\ PlatformsInv /\ ChecksumsInv /\ EngineInv

IInv == FactsInv /\ ProductInv

LEMMA NoTriples == Triples(<<>>) = {}
BY DEF Triples

LEMMA OneList ==
  ASSUME NEW v, NEW list
  PROVE  Triples(With(<<>>, v, list)) = {<<v, p, list[p]>> : p \in DOMAIN list}
<1>1. DOMAIN With(<<>>, v, list) = {v} /\ With(<<>>, v, list)[v] = list
  BY DEF With
<1> QED
  BY <1>1 DEF Triples

LEMMA NoFactsFields ==
  /\ DOMAIN NoFacts = {"checksums", "archive", "platforms"}
  /\ NoFacts.checksums = <<>> /\ NoFacts.archive = <<>> /\ NoFacts.platforms = <<>>
BY DEF NoFacts

\* An evaluation that has not begun has recorded and declared nothing.
LEMMA BlankInv == BlankState => ProductInv
<1> SUFFICES ASSUME BlankState PROVE ProductInv
  OBVIOUS
<1> USE DEF BlankState
<1>1. RestInv /\ ShapeInv
  BY NoFactsFields DEF RestInv, ShapeInv
<1>2. PoolInv
  BY NoFactsFields DEF PoolInv
<1>3. PlatformsInv /\ ChecksumsInv
  BY NoFactsFields DEF PlatformsInv, ChecksumsInv
<1>4. EngineInv
  BY NoFactsFields, NoTriples DEF EngineInv
<1> QED
  BY <1>1, <1>2, <1>3, <1>4 DEF ProductInv

LEMMA IInvInit == Init => IInv
<1> SUFFICES ASSUME Init PROVE IInv
  OBVIOUS
<1>1. FactsInv
  <2>1. PICK w \in Worlds : facts = w.facts
    BY DEF Init
  <2> QED
    BY <2>1, InputsAssumption DEF FactsInv, Failed
<1> QED
  BY <1>1, BlankInv DEF Init, IInv, BlankState

\* The facts are those of before until the evaluation ends.
LEMMA FactsStep == IInv /\ [Next]_vars => FactsInv'
<1> SUFFICES ASSUME IInv, [Next]_vars PROVE FactsInv'
  OBVIOUS
<1>1. CASE facts' = facts
  BY <1>1 DEF IInv, FactsInv
<1>2. CASE Finish
  <2>1. facts' = newFacts
    BY <1>2 DEF Finish
  <2>2. \A k \in DOMAIN newFacts.archive : IsKey(k) /\ newFacts.archive[k] = {pool[k]}
    BY DEF IInv, ProductInv, PoolInv
  <2> QED
    BY <2>1, <2>2 DEF FactsInv
<1>3. facts' = facts \/ Finish
  BY DEF Next, vars, PublishFor, ServeAnother, Relist, MayMove, Evaluate, declare_toolchains, StartTag, NextProvider,
         LockDone, _published_platforms, Omit, Resolve, ProviderDone, Fail, Interrupt, Over, recorded
<1> QED
  BY <1>1, <1>2, <1>3

\* A step that leaves the facts and the product alone, and does not go back
\* to rest, leaves the invariant alone.
LEMMA SameProduct ==
  ASSUME ProductInv, UNCHANGED <<facts, newFacts, toolchains, pool>>, Idle' => Idle
  PROVE  ProductInv'
<1>1. RestInv'
  BY DEF ProductInv, RestInv, BlankState
<1>2. ShapeInv' /\ PoolInv' /\ PlatformsInv' /\ ChecksumsInv' /\ EngineInv'
  BY DEF ProductInv, ShapeInv, PoolInv, PlatformsInv, ChecksumsInv, EngineInv
<1> QED
  BY <1>1, <1>2 DEF ProductInv

LEMMA ToolchainStep ==
  ASSUME IInv, declare_toolchains
  PROVE  ProductInv'
<1>1. BlankState /\ facts' = facts /\ pool' = pool /\ pc' = "tag"
  BY DEF declare_toolchains, IInv, ProductInv, RestInv, Idle, recorded
<1>2. PICK list \in checksums :
        /\ toolchains' = {<<version, p, list[p]>> : p \in DOMAIN list}
        /\ newFacts' = IF version \in DOMAIN versions THEN newFacts
                       ELSE [newFacts EXCEPT !.checksums = With(@, version, list)]
  BY DEF declare_toolchains
<1>3. RestInv'
  BY <1>1 DEF RestInv, Idle
<1>4. CASE version \in DOMAIN versions
  <2>1. newFacts' = NoFacts
    BY <1>1, <1>2, <1>4 DEF BlankState
  <2>2. {t \in toolchains' : t[1] \notin DOMAIN versions} = {}
    BY <1>2, <1>4
  <2>3. EngineInv'
    BY <2>1, <2>2, NoFactsFields, NoTriples DEF EngineInv
  <2>4. ShapeInv' /\ PlatformsInv' /\ ChecksumsInv'
    BY <2>1, NoFactsFields DEF ShapeInv, PlatformsInv, ChecksumsInv
  <2>5. PoolInv'
    BY <1>1, <2>1, NoFactsFields DEF PoolInv, BlankState
  <2> QED
    BY <1>3, <2>3, <2>4, <2>5 DEF ProductInv
<1>5. CASE version \notin DOMAIN versions
  <2>1. /\ DOMAIN newFacts' = {"checksums", "archive", "platforms"}
        /\ newFacts'.archive = <<>> /\ newFacts'.platforms = <<>>
        /\ newFacts'.checksums = With(<<>>, version, list)
    BY <1>1, <1>2, <1>5, NoFactsFields DEF BlankState
  <2>2. {t \in toolchains' : t[1] \notin DOMAIN versions} = {<<version, p, list[p]>> : p \in DOMAIN list}
    BY <1>2, <1>5
  <2>3. EngineInv'
    BY <2>1, <2>2, OneList DEF EngineInv
  <2>4. ShapeInv' /\ PlatformsInv'
    BY <2>1 DEF ShapeInv, PlatformsInv
  <2>5. ChecksumsInv'
    <3>1. version \in DOMAIN facts.checksums /\ facts.checksums[version] # <<>> => list = facts.checksums[version]
      BY <1>5 DEF checksums, _checksums_for, recorded_checksums
    <3>2. DOMAIN newFacts'.checksums = {version} /\ newFacts'.checksums[version] = list
      BY <2>1 DEF With
    <3> QED
      BY <1>1, <3>1, <3>2 DEF ChecksumsInv
  <2>6. PoolInv'
    BY <1>1, <2>1 DEF PoolInv, BlankState
  <2> QED
    BY <1>3, <2>3, <2>4, <2>5, <2>6 DEF ProductInv
<1> QED
  BY <1>4, <1>5

LEMMA PlatformsStep ==
  ASSUME IInv, _published_platforms
  PROVE  ProductInv'
<1>1. UNCHANGED <<facts, pc, pool, toolchains>> /\ pc = "provider"
  BY DEF _published_platforms, recorded, Trying
<1> DEFINE known == _recall("platforms", release)
<1>2. PICK ps : newFacts' = [newFacts EXCEPT !.platforms = With(@, release, ps)]
                /\ (release \in DOMAIN facts.platforms => ps = facts.platforms[release])
  <2>1. newFacts' = [newFacts EXCEPT !.platforms = With(@, release, CHOOSE ps \in answer' : TRUE)]
    BY DEF _published_platforms
  <2>2. answer' = IF known = {} THEN {published[release]} ELSE known
    BY DEF _published_platforms
  <2>3. release \in DOMAIN facts.platforms => known = {facts.platforms[release]}
    BY DEF _recall, IInv, ProductInv, PlatformsInv
  <2>4. release \in DOMAIN facts.platforms => answer' = {facts.platforms[release]}
    BY <2>2, <2>3
  <2> QED
    BY <2>1, <2>4
<1>3. /\ DOMAIN newFacts' = {"checksums", "archive", "platforms"}
      /\ newFacts'.archive = newFacts.archive /\ newFacts'.checksums = newFacts.checksums
      /\ newFacts'.platforms = With(newFacts.platforms, release, ps)
  BY <1>2 DEF IInv, ProductInv, ShapeInv
<1>4. PlatformsInv'
  BY <1>1, <1>2, <1>3 DEF IInv, ProductInv, PlatformsInv, With
<1>5. RestInv' /\ ShapeInv'
  BY <1>1, <1>3 DEF RestInv, Idle, ShapeInv
<1>6. PoolInv' /\ ChecksumsInv' /\ EngineInv'
  BY <1>1, <1>3 DEF IInv, ProductInv, PoolInv, ChecksumsInv, EngineInv
<1> QED
  BY <1>4, <1>5, <1>6 DEF ProductInv

-------------------------------------------------------------------------------
(***************************************************************************)
(* Where the evaluation stands                                              *)
(***************************************************************************)
PositionInv ==
  /\ tags.deps \in Seq(DepsTag) /\ tag \in Nat /\ at \in Nat /\ platform \in Nat
  /\ pc \in {"lock", "provider"} => tag \in 1..Len(tags.deps)
  /\ pc = "provider" => at \in 1..Len(tags.deps[tag].lock) /\ platform > 0

LEMMA PositionInvInit == Init => PositionInv
BY DEF Init, PositionInv, NoTags

LEMMA PositionInvStep == PositionInv /\ [Next]_vars => PositionInv'
<1> SUFFICES ASSUME PositionInv, [Next]_vars PROVE PositionInv'
  OBVIOUS
<1> USE DEF PositionInv
<1>1. CASE UNCHANGED <<pc, tags, tag, at, platform>>
  BY <1>1
<1>2. ASSUME NEW list \in TagLists, Evaluate(list) PROVE PositionInv'
  BY <1>2, InputsAssumption DEF Evaluate, position
<1>3. CASE Blank /\ pc' \notin {"lock", "provider"}
  BY <1>3 DEF Blank, NoTags
<1>4. CASE StartTag
  BY <1>4 DEF StartTag
<1>5. CASE NextProvider
  <2>1. tags.deps[tag] \in DepsTag /\ pc = "lock"
    BY <1>5 DEF NextProvider
  <2>2. Len(tags.deps[tag].lock) \in Nat
    BY <2>1 DEF DepsTag
  <2> QED
    BY <1>5, <2>1, <2>2 DEF NextProvider
<1>6. CASE declare_toolchains \/ LockDone \/ ProviderDone
  BY <1>6 DEF declare_toolchains, LockDone, ProviderDone, position
<1>7. CASE Omit
  BY <1>7 DEF Omit, Trying
<1>8. CASE Resolve
  BY <1>8 DEF Resolve, Looking, Trying
<1>9. \/ UNCHANGED <<pc, tags, tag, at, platform>> \/ \E list \in TagLists : Evaluate(list)
      \/ Blank /\ pc' \notin {"lock", "provider"}
      \/ StartTag \/ NextProvider \/ declare_toolchains \/ LockDone \/ ProviderDone \/ Omit \/ Resolve
  BY DEF Next, vars, position, PublishFor, ServeAnother, Relist, MayMove, Finish, _published_platforms, Fail, Interrupt, Over
<1> QED
  BY <1>1, <1>2, <1>3, <1>4, <1>5, <1>6, <1>7, <1>8, <1>9

LEMMA TryingAtKey ==
  ASSUME PositionInv, Trying
  PROVE  IsKey(Key) /\ provider \in LockEntry
<1>1. tags.deps[tag] \in DepsTag
  BY DEF PositionInv, Trying
<1>2. provider \in LockEntry /\ tags.deps[tag].registry \in Registry
  BY <1>1 DEF provider, PositionInv, Trying, DepsTag
<1>3. release \in Release
  BY <1>2 DEF release, Release, provider_registry, LockEntry
<1>4. current \in Platform
  BY InputsAssumption DEF current, PositionInv, Trying
<1> QED
  BY <1>2, <1>3, <1>4 DEF IsKey, Key, _pool_repo_name

LEMMA ResolveStep ==
  ASSUME IInv, PositionInv, Resolve
  PROVE  ProductInv'
<1>1. UNCHANGED <<facts, pc, toolchains>> /\ pc = "provider" /\ IsKey(Key)
  BY TryingAtKey DEF Resolve, recorded, Looking, Trying
<1>2. PICK sum \in _lookup_archive :
        /\ newFacts' = [newFacts EXCEPT !.archive = With(@, Key, {sum})]
        /\ pool' = IF Key \in DOMAIN pool THEN pool ELSE With(pool, Key, sum)
  BY DEF Resolve
<1>3. Key \in DOMAIN pool => sum = pool[Key]
  <2> SUFFICES ASSUME Key \in DOMAIN pool PROVE sum = pool[Key]
    OBVIOUS
  <2>1. Key \in DOMAIN newFacts.archive /\ newFacts.archive[Key] = {pool[Key]}
    BY DEF IInv, ProductInv, PoolInv
  <2>2. _cached_archive = {pool[Key]}
    BY <2>1 DEF _cached_archive, _recall
  <2> QED
    BY <1>2, <2>2 DEF _lookup_archive
<1>4. Key \in DOMAIN facts.archive => facts.archive[Key] \in {Failed, {sum}}
  <2> SUFFICES ASSUME Key \in DOMAIN facts.archive, Key \notin DOMAIN pool, facts.archive[Key] # Failed
               PROVE  facts.archive[Key] = {sum}
    BY <1>3 DEF IInv, ProductInv, PoolInv
  <2>1. PICK s : facts.archive[Key] = {s}
    BY DEF IInv, FactsInv
  <2>2. Key \notin DOMAIN newFacts.archive
    BY DEF IInv, ProductInv, PoolInv
  <2>3. _cached_archive = {s}
    BY <2>1, <2>2 DEF _cached_archive, _recall
  <2> QED
    BY <1>2, <2>1, <2>3 DEF _lookup_archive
<1>5. /\ DOMAIN newFacts' = {"checksums", "archive", "platforms"}
      /\ newFacts'.platforms = newFacts.platforms /\ newFacts'.checksums = newFacts.checksums
      /\ newFacts'.archive = With(newFacts.archive, Key, {sum})
  BY <1>2 DEF IInv, ProductInv, ShapeInv
<1>6. /\ DOMAIN pool' = DOMAIN pool \cup {Key} /\ pool'[Key] = sum
      /\ \A k \in DOMAIN pool : k # Key => pool'[k] = pool[k]
  <2>1. CASE Key \in DOMAIN pool
    BY <1>2, <1>3, <2>1
  <2>2. CASE Key \notin DOMAIN pool
    <3>1. pool' = With(pool, Key, sum)
      BY <1>2, <2>2
    <3> QED
      BY <3>1 DEF With
  <2> QED
    BY <2>1, <2>2
<1>7. /\ DOMAIN newFacts'.archive = DOMAIN newFacts.archive \cup {Key}
      /\ newFacts'.archive[Key] = {sum}
      /\ \A k \in DOMAIN newFacts.archive : k # Key => newFacts'.archive[k] = newFacts.archive[k]
  BY <1>5 DEF With
<1>8. PoolInv'
  <2>1. DOMAIN pool' = DOMAIN newFacts'.archive
    BY <1>6, <1>7 DEF IInv, ProductInv, PoolInv
  <2>2. ASSUME NEW k \in DOMAIN pool'
        PROVE  /\ IsKey(k) /\ newFacts'.archive[k] = {pool'[k]}
               /\ k \in DOMAIN facts'.archive => facts'.archive[k] \in {Failed, {pool'[k]}}
    <3>1. CASE k = Key
      BY <1>1, <1>4, <1>6, <1>7, <3>1
    <3>2. CASE k # Key
      BY <1>1, <1>6, <1>7, <3>2 DEF IInv, ProductInv, PoolInv
    <3> QED
      BY <3>1, <3>2
  <2> QED
    BY <2>1, <2>2 DEF PoolInv, IsKey
<1>9. PlatformsInv' /\ ChecksumsInv' /\ EngineInv' /\ RestInv' /\ ShapeInv'
  BY <1>1, <1>5 DEF IInv, ProductInv, PlatformsInv, ChecksumsInv, EngineInv, RestInv, Idle, ShapeInv
<1> QED
  BY <1>8, <1>9 DEF ProductInv

LEMMA IInvStep == IInv /\ PositionInv /\ [Next]_vars => IInv'
<1> SUFFICES ASSUME IInv, PositionInv, [Next]_vars PROVE ProductInv'
  BY FactsStep DEF IInv
<1>1. CASE UNCHANGED <<facts, newFacts, toolchains, pool>> /\ (Idle' => Idle)
  BY <1>1, SameProduct DEF IInv
<1>2. CASE Blank
  <2>1. BlankState'
    BY <1>2 DEF Blank, BlankState
  <2>2. (BlankState => ProductInv)'
    BY BlankInv, PTL
  <2> QED
    BY <2>1, <2>2
<1>3. \/ UNCHANGED <<facts, newFacts, toolchains, pool>> /\ (Idle' => Idle)
      \/ Blank \/ declare_toolchains \/ _published_platforms \/ Resolve
  BY DEF Next, vars, product, recorded, Idle, Resting, PublishFor, ServeAnother, Relist, MayMove, Evaluate, Finish, Fail,
         Interrupt, Over, StartTag, NextProvider, LockDone, Omit, ProviderDone, Trying
<1> QED
  BY <1>1, <1>2, <1>3, ToolchainStep, PlatformsStep, ResolveStep

-------------------------------------------------------------------------------
(***************************************************************************)
(* The refinement                                                           *)
(***************************************************************************)
LEMMA EngineKeys ==
  ASSUME NEW k, IsKey(k)
  PROVE  \A v, p : k # <<"engine", v, p>>
BY DEF IsKey

\* What the evaluation recorded is, when it ends, what it declares.
LEMMA DeclaredIsRecorded ==
  ASSUME IInv, Finish
  PROVE  {pinned'[k] : k \in DOMAIN pinned'} = pinnedUse'
<1> DEFINE c == newFacts.checksums
           Engine == {<<<<"engine", t[1], t[2]>>, {t[3]}>> : t \in Triples(c)}
<1>1. facts' = newFacts /\ last'.pool = pool /\ last'.toolchains = toolchains
  BY DEF Finish
<1>2. /\ DOMAIN newFacts.archive = DOMAIN pool
      /\ \A k \in DOMAIN pool : newFacts.archive[k] = {pool[k]} /\ IsKey(k)
  BY DEF IInv, ProductInv, PoolInv
<1>3. Found' = DOMAIN pool
  BY <1>1, <1>2 DEF Found, Failed
<1>4. Listed' = UNION {{<<"engine", v, p>> : p \in DOMAIN c[v]} : v \in DOMAIN c}
  BY <1>1 DEF Listed
<1>5. pinned' = [k \in DOMAIN pool \cup Listed' |->
                   <<k, IF k \in DOMAIN pool THEN newFacts.archive[k] ELSE {c[k[2]][k[3]]}>>]
  BY <1>1, <1>3 DEF pinned
<1>6. \A k \in DOMAIN pool : pinned'[k] = <<k, {pool[k]}>>
  BY <1>2, <1>5
<1>7. \A v \in DOMAIN c : \A p \in DOMAIN c[v] :
        /\ <<"engine", v, p>> \in Listed'
        /\ pinned'[<<"engine", v, p>>] = <<<<"engine", v, p>>, {c[v][p]}>>
  <2> SUFFICES ASSUME NEW v \in DOMAIN c, NEW p \in DOMAIN c[v]
               PROVE  /\ <<"engine", v, p>> \in Listed'
                      /\ pinned'[<<"engine", v, p>>] = <<<<"engine", v, p>>, {c[v][p]}>>
    OBVIOUS
  <2>1. <<"engine", v, p>> \in Listed'
    BY <1>4
  <2>2. <<"engine", v, p>> \notin DOMAIN pool
    BY <1>2, EngineKeys
  <2> QED
    BY <1>5, <2>1, <2>2
<1>8. \A k \in Listed' : \E v \in DOMAIN c : \E p \in DOMAIN c[v] : k = <<"engine", v, p>>
  BY <1>4
<1>9. {pinned'[k] : k \in Listed'} = Engine
  <2>1. \A k \in Listed' : pinned'[k] \in Engine
    <3> SUFFICES ASSUME NEW k \in Listed' PROVE pinned'[k] \in Engine
      OBVIOUS
    <3>1. PICK v \in DOMAIN c : \E p \in DOMAIN c[v] : k = <<"engine", v, p>>
      BY <1>8
    <3>2. PICK p \in DOMAIN c[v] : k = <<"engine", v, p>>
      BY <3>1
    <3>3. <<v, p, c[v][p]>> \in Triples(c)
      BY DEF Triples
    <3>4. pinned'[k] = <<<<"engine", v, p>>, {c[v][p]}>>
      BY <1>7, <3>2
    <3> QED
      BY <3>3, <3>4
  <2>2. \A t \in Triples(c) : \E k \in Listed' : pinned'[k] = <<<<"engine", t[1], t[2]>>, {t[3]}>>
    <3> SUFFICES ASSUME NEW t \in Triples(c)
                 PROVE  \E k \in Listed' : pinned'[k] = <<<<"engine", t[1], t[2]>>, {t[3]}>>
      OBVIOUS
    <3>1. PICK v \in DOMAIN c : \E p \in DOMAIN c[v] : t = <<v, p, c[v][p]>>
      BY DEF Triples
    <3>2. PICK p \in DOMAIN c[v] : t = <<v, p, c[v][p]>>
      BY <3>1
    <3> QED
      BY <1>7, <3>2
  <2> QED
    BY <2>1, <2>2
<1>10. {t \in toolchains : t[1] \notin DOMAIN versions} = Triples(c)
  BY DEF IInv, ProductInv, EngineInv
<1>11. pinnedUse' = {<<k, {pool[k]}>> : k \in DOMAIN pool} \cup Engine
  BY <1>1, <1>10 DEF pinnedUse
<1>12. DOMAIN pinned' = DOMAIN pool \cup Listed'
  BY <1>5
<1> HIDE DEF Engine, c
<1>13. {pinned'[k] : k \in DOMAIN pool} = {<<k, {pool[k]}>> : k \in DOMAIN pool}
  BY <1>6
<1> QED
  BY <1>9, <1>11, <1>12, <1>13

\* And no pin is another than before.
LEMMA PinsKept ==
  ASSUME IInv, Finish
  PROVE  \A k \in DOMAIN pinned \cap DOMAIN pinned' : pinned'[k] = pinned[k]
<1> SUFFICES ASSUME NEW k \in Found \cup Listed, k \in Found' \cup Listed'
             PROVE  pinned'[k] = pinned[k]
  BY DEF pinned
<1>1. facts' = newFacts
  BY DEF Finish
<1>2. \A j \in Found : IsKey(j)
  BY DEF IInv, FactsInv, Found
<1>3. Found' = DOMAIN pool /\ \A j \in DOMAIN pool : newFacts.archive[j] = {pool[j]} /\ IsKey(j)
  BY <1>1 DEF Found, IInv, ProductInv, PoolInv, Failed
<1>4. CASE k \in Found
  <2>1. k \in Found'
    BY <1>2, <1>4, EngineKeys DEF Listed
  <2>2. facts.archive[k] = {pool[k]}
    BY <1>3, <1>4, <2>1 DEF IInv, ProductInv, PoolInv, Found
  <2> QED
    BY <1>1, <1>3, <1>4, <2>1, <2>2 DEF pinned
<1>5. CASE k \notin Found
  <2>1. PICK v \in DOMAIN facts.checksums : \E p \in DOMAIN facts.checksums[v] : k = <<"engine", v, p>>
    BY <1>5 DEF Listed
  <2>2. PICK p \in DOMAIN facts.checksums[v] : k = <<"engine", v, p>>
    BY <2>1
  <2>3. k \notin Found'
    BY <1>3, <2>2, EngineKeys
  <2>4. v \in DOMAIN newFacts.checksums
    BY <1>1, <2>2, <2>3 DEF Listed
  <2>5. facts.checksums[v] # <<>>
    BY <2>2
  <2>6. newFacts.checksums[v] = facts.checksums[v]
    BY <2>4, <2>5 DEF IInv, ProductInv, ChecksumsInv
  <2> QED
    BY <1>1, <1>5, <2>2, <2>3, <2>6 DEF pinned
<1> QED
  BY <1>4, <1>5

(***************************************************************************)
(* The provider and toolchain half keeps its pins: it implements Pinning.  *)
(***************************************************************************)
THEOREM PinningSafety == Spec => KeepsItsPins
<1>1. Init => Pins!Init
  BY DEF Init, Pins!Init, pinnedUse
<1>2. IInv /\ [Next]_vars => [Pins!Next]_<<FALSE, Pins!pins>>
  <2> SUFFICES ASSUME IInv, [Next]_vars PROVE [Pins!Next]_<<FALSE, Pins!pins>>
    OBVIOUS
  <2>1. CASE UNCHANGED <<facts, last>>
    BY <2>1 DEF Pins!pins, pinned, Found, Listed, pinnedUse
  <2>2. CASE Finish
    <3>1. Pins!Keeps(facts.platforms, facts'.platforms)
      BY <2>2 DEF Finish, Pins!Keeps, IInv, ProductInv, PlatformsInv
    <3>2. Pins!Keeps(pinned, pinned')
      BY <2>2, PinsKept DEF Pins!Keeps
    <3>3. Pins!archives' = pinnedUse'
      BY <2>2, DeclaredIsRecorded DEF Pins!archives
    <3> QED
      BY <3>1, <3>2, <3>3 DEF Pins!Next, Pins!Settle, Pins!Keeps
  <2>3. UNCHANGED <<facts, last>> \/ Finish
    BY DEF Next, vars, PublishFor, ServeAnother, Relist, MayMove, Evaluate, declare_toolchains, StartTag, NextProvider,
           LockDone, _published_platforms, Omit, Resolve, ProviderDone, Fail, Interrupt, Over, recorded
  <2> QED
    BY <2>1, <2>2, <2>3
<1>3. Spec => []IInv
  BY IInvInit, IInvStep, PositionInvInit, PositionInvStep, PTL DEF Spec
<1> QED
  BY <1>1, <1>2, <1>3, PTL DEF Spec, KeepsItsPins, Pins!Spec

-------------------------------------------------------------------------------
(***************************************************************************)
(* The hubs                                                                 *)
(***************************************************************************)
Hub == UNION {[D -> Release \X Platform] : D \in SUBSET (Source \X Platform)}

\* What a hub under construction offers of an entry, its lock vouches for.
Vouched(list, offered, archives) ==
  \A t \in 1..Len(offered) : \A p \in Entries(list.deps[t]), f \in Platform :
    <<p.source, f>> \in DOMAIN offered[t] =>
      LET k == offered[t][<<p.source, f>>]
      IN k = <<Meant(list.deps[t], p), f>> /\ k \in DOMAIN archives /\ (p.zh # {} => archives[k] \in p.zh)

HubsInv ==
  /\ hubs \in Seq(Hub) /\ Len(hubs) = tag /\ (Idle => tag = 0)
  /\ Vouched(tags, hubs, pool)
  /\ Vouched(last.tags, last.hubs, last.pool)

LEMMA HubWith ==
  ASSUME NEW h \in Hub, NEW x \in Source \X Platform, NEW k \in Release \X Platform
  PROVE  /\ With(h, x, k) \in Hub
         /\ DOMAIN With(h, x, k) = DOMAIN h \cup {x}
         /\ With(h, x, k)[x] = k
         /\ \A y \in DOMAIN h : y # x => With(h, x, k)[y] = h[y]
<1>1. PICK D \in SUBSET (Source \X Platform) : h \in [D -> Release \X Platform]
  BY DEF Hub
<1>2. D \cup {x} \in SUBSET (Source \X Platform) /\ With(h, x, k) \in [D \cup {x} -> Release \X Platform]
  BY <1>1 DEF With
<1> QED
  BY <1>2 DEF Hub, With

LEMMA NothingVouched == \A list, archives : Vouched(list, <<>>, archives)
BY DEF Vouched

LEMMA HubsInvInit == Init => HubsInv
BY NothingVouched DEF Init, HubsInv

LEMMA HubsStartTag ==
  ASSUME HubsInv, StartTag
  PROVE  HubsInv'
<1>1. /\ hubs' = Append(hubs, <<>>) /\ tag' = tag + 1
      /\ tags' = tags /\ pool' = pool /\ last' = last
  BY DEF StartTag, recorded
<1>2. <<>> \in Hub
  <2>1. <<>> \in [{} -> Release \X Platform]
    OBVIOUS
  <2> QED
    BY <2>1 DEF Hub
<1>3. hubs' \in Seq(Hub) /\ Len(hubs') = tag'
  BY <1>1, <1>2 DEF HubsInv
<1>4. \A t \in 1..Len(hubs') : IF t \in 1..Len(hubs) THEN hubs'[t] = hubs[t] ELSE hubs'[t] = <<>>
  BY <1>1 DEF HubsInv
<1>5. Vouched(tags, hubs', pool)
  <2> SUFFICES ASSUME NEW t \in 1..Len(hubs'), NEW p \in Entries(tags.deps[t]), NEW f \in Platform,
                      <<p.source, f>> \in DOMAIN hubs'[t]
               PROVE  LET k == hubs'[t][<<p.source, f>>]
                      IN k = <<Meant(tags.deps[t], p), f>> /\ k \in DOMAIN pool /\ (p.zh # {} => pool[k] \in p.zh)
    BY DEF Vouched
  <2>1. t \in 1..Len(hubs) /\ hubs'[t] = hubs[t]
    BY <1>4
  <2> QED
    BY <2>1 DEF HubsInv, Vouched
<1>6. ~Idle'
  BY DEF StartTag, Idle
<1> QED
  BY <1>1, <1>3, <1>5, <1>6 DEF HubsInv

LEMMA HubsResolve ==
  ASSUME HubsInv, PositionInv, IInv, Resolve
  PROVE  HubsInv'
<1> DEFINE x == <<provider.source, current>>
           list == tags.deps[tag]
<1>1. /\ IsKey(Key) /\ provider \in LockEntry /\ current \in Platform /\ x \in Source \X Platform
      /\ tag \in 1..Len(tags.deps) /\ at \in 1..Len(list.lock) /\ provider = list.lock[at]
  <2>1. IsKey(Key) /\ provider \in LockEntry
    BY TryingAtKey DEF Resolve, Looking
  <2>2. current \in Platform
    BY <2>1 DEF IsKey, Key, _pool_repo_name
  <2> QED
    BY <2>1, <2>2 DEF LockEntry, PositionInv, Resolve, Looking, Trying, provider
<1>2. PICK sum \in _lookup_archive :
        /\ _check_against_lock(sum)
        /\ pool' = IF Key \in DOMAIN pool THEN pool ELSE With(pool, Key, sum)
  BY DEF Resolve
<1>3. Key \in DOMAIN pool => sum = pool[Key]
  <2> SUFFICES ASSUME Key \in DOMAIN pool PROVE sum = pool[Key]
    OBVIOUS
  <2>1. Key \in DOMAIN newFacts.archive /\ newFacts.archive[Key] = {pool[Key]}
    BY DEF IInv, ProductInv, PoolInv
  <2>2. _cached_archive = {pool[Key]}
    BY <2>1 DEF _cached_archive, _recall
  <2> QED
    BY <1>2, <2>2 DEF _lookup_archive
<1>4. Key \in DOMAIN pool' /\ pool'[Key] = sum /\ \A k \in DOMAIN pool : k \in DOMAIN pool' /\ pool'[k] = pool[k]
  <2>1. CASE Key \in DOMAIN pool
    BY <1>2, <1>3, <2>1
  <2>2. CASE Key \notin DOMAIN pool
    <3>1. pool' = With(pool, Key, sum)
      BY <1>2, <2>2
    <3> QED
      BY <2>2, <3>1 DEF With
  <2> QED
    BY <2>1, <2>2
<1>5. hubs' = [hubs EXCEPT ![tag] = With(@, x, Key)] /\ tags' = tags /\ tag' = tag /\ last' = last
  BY DEF Resolve, recorded
<1>6. tag \in 1..Len(hubs) /\ hubs[tag] \in Hub
  BY <1>1 DEF HubsInv
<1>7. /\ With(hubs[tag], x, Key) \in Hub
      /\ DOMAIN With(hubs[tag], x, Key) = DOMAIN hubs[tag] \cup {x}
      /\ With(hubs[tag], x, Key)[x] = Key
      /\ \A y \in DOMAIN hubs[tag] : y # x => With(hubs[tag], x, Key)[y] = hubs[tag][y]
  <2>1. Key \in Release \X Platform /\ x \in Source \X Platform
    BY <1>1 DEF IsKey
  <2> HIDE DEF x
  <2>2. With(hubs[tag], x, Key) \in Hub
    <3>1. \A h \in Hub : With(h, x, Key) \in Hub
      BY <2>1, HubWith
    <3> QED
      BY <1>6, <3>1
  <2> QED
    BY <2>2 DEF With
<1>8. /\ hubs' \in Seq(Hub) /\ Len(hubs') = Len(hubs)
      /\ hubs'[tag] = With(hubs[tag], x, Key)
      /\ \A t \in 1..Len(hubs) : t # tag => hubs'[t] = hubs[t]
  BY <1>5, <1>6, <1>7 DEF HubsInv
<1>9. ASSUME NEW t \in 1..Len(hubs'), NEW p \in Entries(tags.deps[t]), NEW f \in Platform,
             <<p.source, f>> \in DOMAIN hubs'[t]
      PROVE  LET k == hubs'[t][<<p.source, f>>]
             IN k = <<Meant(tags.deps[t], p), f>> /\ k \in DOMAIN pool' /\ (p.zh # {} => pool'[k] \in p.zh)
  <2>1. CASE t = tag /\ <<p.source, f>> = x
    <3>1. p = provider
      <4>1. PICK n \in 1..Len(list.lock) :
              p = list.lock[n] /\ \A o \in 1..Len(list.lock) : list.lock[o].source = list.lock[n].source => o = n
        BY <2>1 DEF Entries
      <4>2. list.lock[at].source = list.lock[n].source
        BY <1>1, <2>1, <4>1
      <4> QED
        BY <1>1, <4>1, <4>2
    <3>2. hubs'[t][<<p.source, f>>] = Key
      BY <1>7, <1>8, <2>1
    <3>3. Key = <<Meant(tags.deps[t], p), f>>
      BY <2>1, <3>1 DEF Key, _pool_repo_name, release, provider_registry, Meant
    <3> QED
      BY <1>2, <1>4, <3>1, <3>2, <3>3 DEF _check_against_lock
  <2>2. CASE ~(t = tag /\ <<p.source, f>> = x)
    <3>1. <<p.source, f>> \in DOMAIN hubs[t] /\ hubs'[t][<<p.source, f>>] = hubs[t][<<p.source, f>>]
      BY <1>7, <1>8, <1>9, <2>2
    <3>2. t \in 1..Len(hubs)
      BY <1>8
    <3> QED
      BY <1>4, <3>1, <3>2 DEF HubsInv, Vouched
  <2> QED
    BY <2>1, <2>2
<1>10. Vouched(tags, hubs', pool')
  BY <1>9 DEF Vouched
<1>11. ~Idle'
  BY DEF Resolve, Looking, Trying, Idle
<1> QED
  BY <1>5, <1>8, <1>10, <1>11 DEF HubsInv

LEMMA HubsInvStep == HubsInv /\ PositionInv /\ IInv /\ [Next]_vars => HubsInv'
<1> SUFFICES ASSUME HubsInv, PositionInv, IInv, [Next]_vars PROVE HubsInv'
  OBVIOUS
<1>1. CASE UNCHANGED <<tags, tag, hubs, pool, last>> /\ (Idle' => Idle)
  BY <1>1 DEF HubsInv
<1>2. ASSUME Blank, \/ last' = last
                    \/ last'.tags = tags /\ last'.hubs = hubs /\ last'.pool = pool
      PROVE  HubsInv'
  <2>1. hubs' = <<>> /\ tag' = 0
    BY <1>2 DEF Blank
  <2>2. Vouched(tags', hubs', pool')
    BY <2>1, NothingVouched
  <2>3. Vouched(last'.tags, last'.hubs, last'.pool)
    BY <1>2 DEF HubsInv
  <2> QED
    BY <2>1, <2>2, <2>3 DEF HubsInv
<1>3. ASSUME NEW list \in TagLists, Evaluate(list) PROVE HubsInv'
  <2>1. hubs = <<>> /\ tag = 0
    BY <1>3 DEF Evaluate, HubsInv, Idle, Resting
  <2>2. hubs' = <<>> /\ tag' = 0 /\ last' = last
    BY <1>3, <2>1 DEF Evaluate, product, position
  <2>3. Vouched(tags', hubs', pool')
    BY <2>2, NothingVouched
  <2> QED
    BY <2>2, <2>3 DEF HubsInv
<1>4. Finish => Blank /\ last'.tags = tags /\ last'.hubs = hubs /\ last'.pool = pool
  BY DEF Finish
<1>5. \/ UNCHANGED <<tags, tag, hubs, pool, last>> /\ (Idle' => Idle)
      \/ Finish
      \/ Blank /\ last' = last
      \/ \E list \in TagLists : Evaluate(list)
      \/ StartTag \/ Resolve
  BY DEF Next, vars, product, recorded, position, Idle, Resting, PublishFor, ServeAnother, Relist, MayMove, Over, Fail,
         Interrupt, NextProvider, LockDone, Omit, ProviderDone, declare_toolchains, _published_platforms, Trying
<1> QED
  BY <1>1, <1>2, <1>3, <1>4, <1>5, HubsStartTag, HubsResolve

(***************************************************************************)
(* Whatever a hub offers, its lock vouches for.                             *)
(***************************************************************************)
THEOREM HubsSafety == Spec => []HubsVouched
<1>1. HubsInv => HubsVouched
  BY DEF HubsInv, Vouched, HubsVouched
<1> QED
  BY <1>1, HubsInvInit, HubsInvStep, IInvInit, IInvStep, PositionInvInit, PositionInvStep, PTL DEF Spec

-------------------------------------------------------------------------------
(***************************************************************************)
(* Types                                                                    *)
(***************************************************************************)
WorldInv == published \in [Release -> SUBSET Platform] /\ served \in [Release \X Platform -> Sum]

RecordedInv ==
  /\ \A k \in DOMAIN facts.archive : facts.archive[k] \subseteq Sum
  /\ \A r \in DOMAIN facts.platforms : facts.platforms[r] # {}

MadeInv ==
  /\ pool \in [DOMAIN pool -> Sum]
  /\ \A r \in DOMAIN newFacts.platforms : r \in Release /\ newFacts.platforms[r] # {}

StandInv ==
  /\ pc \in {"idle", "toolchain", "tag", "lock", "provider", "done", "failed"}
  /\ tag \in 0..Len(tags.deps)
  /\ answer = {} \/ \E ps : answer = {ps}

TypeInv == WorldInv /\ RecordedInv /\ MadeInv /\ StandInv

LEMMA TypeInvInit == Init => TypeInv
<1> SUFFICES ASSUME Init PROVE TypeInv
  OBVIOUS
<1>1. PICK w \in Worlds : published = w.published /\ served = w.served /\ facts = w.facts
  BY DEF Init
<1>2. WorldInv
  BY <1>1, InputsAssumption DEF WorldInv
<1>3. RecordedInv
  <2>1. \A k \in DOMAIN w.facts.archive : \E sum \in Sum : w.facts.archive[k] \in {{}, {sum}}
    BY InputsAssumption
  <2>2. \A k \in DOMAIN w.facts.archive : w.facts.archive[k] \subseteq Sum
    BY <2>1
  <2>3. \A r \in DOMAIN w.facts.platforms : w.facts.platforms[r] # {}
    BY InputsAssumption
  <2> QED
    BY <1>1, <2>2, <2>3 DEF RecordedInv
<1>4. MadeInv
  BY NoFactsFields DEF Init, MadeInv
<1>5. StandInv
  BY DEF Init, StandInv, NoTags
<1> QED
  BY <1>2, <1>3, <1>4, <1>5 DEF TypeInv

LEMMA WorldStep == WorldInv /\ [Next]_vars => WorldInv'
<1> SUFFICES ASSUME WorldInv, [Next]_vars PROVE WorldInv'
  OBVIOUS
<1>1. ASSUME NEW r \in Release, NEW p \in Platform, PublishFor(r, p) PROVE WorldInv'
  BY <1>1 DEF PublishFor, WorldInv
<1>2. ASSUME NEW r \in Release, NEW p \in Platform, NEW sum \in Sum, ServeAnother(r, p, sum) PROVE WorldInv'
  BY <1>2 DEF ServeAnother, WorldInv
<1>3. CASE UNCHANGED <<published, served>>
  BY <1>3 DEF WorldInv
<1>4. \/ UNCHANGED <<published, served>>
      \/ \E r \in Release, p \in Platform : PublishFor(r, p)
      \/ \E r \in Release, p \in Platform, sum \in Sum : ServeAnother(r, p, sum)
  BY DEF Next, vars, world, Relist, Evaluate, declare_toolchains, StartTag, Finish, NextProvider, LockDone,
         _published_platforms, Omit, Resolve, ProviderDone, Fail, Interrupt, Over
<1> QED
  BY <1>1, <1>2, <1>3, <1>4

\* The sum of a lookup is a sum.
LEMMA LookupSums ==
  ASSUME TypeInv, PositionInv, IInv, Trying, NEW sum \in _lookup_archive
  PROVE  sum \in Sum
<1>1. release \in Release /\ current \in Platform
  BY TryingAtKey DEF IsKey, Key, _pool_repo_name
<1>2. _cached_archive \subseteq Sum
  <2>1. \A a \in _recall("archive", Key) : a \subseteq Sum
    <3>1. Key \in DOMAIN newFacts.archive => newFacts.archive[Key] = {pool[Key]} /\ pool[Key] \in Sum
      BY DEF IInv, ProductInv, PoolInv, TypeInv, MadeInv
    <3>2. Key \in DOMAIN facts.archive => facts.archive[Key] \subseteq Sum
      BY DEF TypeInv, RecordedInv
    <3> QED
      BY <3>1, <3>2 DEF _recall
  <2> QED
    BY <2>1 DEF _cached_archive
<1>3. \A p \in {current} : served[<<release, p>>] \in Sum
  BY <1>1 DEF TypeInv, WorldInv
<1> QED
  BY <1>2, <1>3 DEF _lookup_archive

\* What Resolve makes of the facts and the pool.
LEMMA Pools ==
  ASSUME IInv, Resolve
  PROVE  \E sum \in _lookup_archive :
           /\ _check_against_lock(sum)
           /\ DOMAIN pool' = DOMAIN pool \cup {Key} /\ pool'[Key] = sum
           /\ \A k \in DOMAIN pool : pool'[k] = pool[k]
           /\ pool' = pool \/ pool' = With(pool, Key, sum)
           /\ newFacts'.platforms = newFacts.platforms /\ newFacts'.checksums = newFacts.checksums
<1>1. PICK sum \in _lookup_archive :
        /\ _check_against_lock(sum)
        /\ newFacts' = [newFacts EXCEPT !.archive = With(@, Key, {sum})]
        /\ pool' = IF Key \in DOMAIN pool THEN pool ELSE With(pool, Key, sum)
  BY DEF Resolve
<1>2. Key \in DOMAIN pool => sum = pool[Key]
  <2> SUFFICES ASSUME Key \in DOMAIN pool PROVE sum = pool[Key]
    OBVIOUS
  <2>1. Key \in DOMAIN newFacts.archive /\ newFacts.archive[Key] = {pool[Key]}
    BY DEF IInv, ProductInv, PoolInv
  <2>2. _cached_archive = {pool[Key]}
    BY <2>1 DEF _cached_archive, _recall
  <2> QED
    BY <1>1, <2>2 DEF _lookup_archive
<1>3. /\ DOMAIN pool' = DOMAIN pool \cup {Key} /\ pool'[Key] = sum
      /\ \A k \in DOMAIN pool : pool'[k] = pool[k]
  <2>1. CASE Key \in DOMAIN pool
    BY <1>1, <1>2, <2>1
  <2>2. CASE Key \notin DOMAIN pool
    <3>1. pool' = With(pool, Key, sum)
      BY <1>1, <2>2
    <3> QED
      BY <2>2, <3>1 DEF With
  <2> QED
    BY <2>1, <2>2
<1>4. newFacts'.platforms = newFacts.platforms /\ newFacts'.checksums = newFacts.checksums
  BY <1>1 DEF IInv, ProductInv, ShapeInv
<1> QED
  BY <1>1, <1>3, <1>4

\* What consulting the list of platforms makes of the facts.
LEMMA Lists ==
  ASSUME IInv, TypeInv, PositionInv, _published_platforms
  PROVE  /\ release \in Release /\ answer = {}
         /\ \E ps :
              /\ answer' = {ps} /\ ps # {}
              /\ newFacts'.platforms = With(newFacts.platforms, release, ps)
              /\ newFacts'.archive = newFacts.archive /\ newFacts'.checksums = newFacts.checksums
              /\ release \in DOMAIN newFacts.platforms => ps = newFacts.platforms[release]
              /\ release \in DOMAIN facts.platforms => (asked' => asked)
<1> DEFINE known == _recall("platforms", release)
<1>1. release \in Release
  BY TryingAtKey DEF IsKey, Key, _pool_repo_name, _published_platforms
<1>2. /\ answer = {} /\ (known # {} \/ published[release] # {})
      /\ answer' = IF known = {} THEN {published[release]} ELSE known
      /\ newFacts' = [newFacts EXCEPT !.platforms = With(@, release, CHOOSE ps \in answer' : TRUE)]
      /\ asked' = (asked \/ known = {})
  BY DEF _published_platforms
<1>3. known = IF release \in DOMAIN newFacts.platforms THEN {newFacts.platforms[release]}
              ELSE IF release \in DOMAIN facts.platforms THEN {facts.platforms[release]}
              ELSE {}
  BY DEF _recall
<1>4. PICK ps : answer' = {ps} /\ ps # {} /\ (release \in DOMAIN newFacts.platforms => ps = newFacts.platforms[release])
  BY <1>2, <1>3 DEF TypeInv, MadeInv, RecordedInv
<1>5. (CHOOSE qs \in answer' : TRUE) = ps
  BY <1>4
<1>6. /\ newFacts'.platforms = With(newFacts.platforms, release, ps)
      /\ newFacts'.archive = newFacts.archive /\ newFacts'.checksums = newFacts.checksums
  BY <1>2, <1>5 DEF IInv, ProductInv, ShapeInv
<1>7. ASSUME release \in DOMAIN facts.platforms PROVE asked' => asked
  <2>1. known # {}
    BY <1>3, <1>7
  <2> HIDE DEF known
  <2> QED
    BY <1>2, <2>1
<1> QED
  BY <1>1, <1>2, <1>4, <1>6, <1>7

LEMMA RecordedStep == IInv /\ TypeInv /\ PositionInv /\ [Next]_vars => RecordedInv'
<1> SUFFICES ASSUME IInv, TypeInv, PositionInv, [Next]_vars PROVE RecordedInv'
  OBVIOUS
<1>1. CASE facts' = facts
  BY <1>1 DEF TypeInv, RecordedInv
<1>2. CASE Finish
  <2>1. facts' = newFacts
    BY <1>2 DEF Finish
  <2>2. \A k \in DOMAIN newFacts.archive : newFacts.archive[k] \subseteq Sum
    <3>1. \A k \in DOMAIN newFacts.archive : k \in DOMAIN pool /\ newFacts.archive[k] = {pool[k]} /\ pool[k] \in Sum
      BY DEF IInv, ProductInv, PoolInv, TypeInv, MadeInv
    <3> QED
      BY <3>1
  <2> QED
    BY <2>1, <2>2 DEF TypeInv, MadeInv, RecordedInv
<1>3. facts' = facts \/ Finish
  BY DEF Next, vars, PublishFor, ServeAnother, Relist, MayMove, Evaluate, declare_toolchains, StartTag, NextProvider,
         LockDone, _published_platforms, Omit, Resolve, ProviderDone, Fail, Interrupt, Over, recorded
<1> QED
  BY <1>1, <1>2, <1>3

LEMMA MadeStep == IInv /\ TypeInv /\ PositionInv /\ [Next]_vars => MadeInv'
<1> SUFFICES ASSUME IInv, TypeInv, PositionInv, [Next]_vars PROVE MadeInv'
  OBVIOUS
<1>1. CASE UNCHANGED <<pool, newFacts>>
  BY <1>1 DEF TypeInv, MadeInv
<1>2. CASE Blank
  BY <1>2, NoFactsFields DEF Blank, MadeInv
<1>3. CASE declare_toolchains
  <2>1. pool' = pool /\ newFacts'.platforms = newFacts.platforms
    BY <1>3 DEF declare_toolchains, IInv, ProductInv, ShapeInv
  <2> QED
    BY <2>1 DEF TypeInv, MadeInv
<1>4. CASE _published_platforms
  <2>1. PICK ps : ps # {} /\ newFacts'.platforms = With(newFacts.platforms, release, ps)
    BY <1>4, Lists
  <2>2. release \in Release /\ pool' = pool
    BY <1>4, Lists DEF _published_platforms
  <2> QED
    BY <2>1, <2>2 DEF TypeInv, MadeInv, With
<1>5. CASE Resolve
  <2>1. PICK sum \in _lookup_archive :
          (pool' = pool \/ pool' = With(pool, Key, sum)) /\ newFacts'.platforms = newFacts.platforms
    BY <1>5, Pools
  <2>2. sum \in Sum
    BY <1>5, <2>1, LookupSums DEF Resolve, Looking
  <2>3. pool' \in [DOMAIN pool' -> Sum]
    BY <2>1, <2>2 DEF TypeInv, MadeInv, With
  <2> QED
    BY <2>1, <2>3 DEF TypeInv, MadeInv
<1>6. UNCHANGED <<pool, newFacts>> \/ Blank \/ declare_toolchains \/ _published_platforms \/ Resolve
  BY DEF Next, vars, product, PublishFor, ServeAnother, Relist, MayMove, Evaluate, Finish, Fail,
         Interrupt, Over, StartTag, NextProvider, LockDone, Omit, ProviderDone
<1> QED
  BY <1>1, <1>2, <1>3, <1>4, <1>5, <1>6

LEMMA StandStep == IInv /\ TypeInv /\ PositionInv /\ HubsInv /\ [Next]_vars => StandInv'
<1> SUFFICES ASSUME IInv, TypeInv, PositionInv, HubsInv, [Next]_vars PROVE StandInv'
  OBVIOUS
<1> USE DEF TypeInv, StandInv
<1>1. CASE UNCHANGED <<pc, tags, tag, answer>>
  BY <1>1
<1>2. CASE Blank /\ pc' \in {"idle", "done", "failed"}
  BY <1>2 DEF Blank, NoTags
<1>3. ASSUME NEW list \in TagLists, Evaluate(list) PROVE StandInv'
  <2>1. Len(list.deps) \in Nat /\ tag = 0
    BY <1>3, InputsAssumption DEF Evaluate, HubsInv, Idle, Resting
  <2>2. pc' = "toolchain" /\ tags' = list /\ tag' = 0 /\ answer' = answer
    BY <1>3, <2>1 DEF Evaluate, position
  <2>3. tag' \in 0..Len(tags'.deps)
    BY <2>1, <2>2
  <2>4. answer' = {} \/ \E ps : answer' = {ps}
    BY <2>2, Zenon
  <2> QED
    BY <2>2, <2>3, <2>4, Zenon
<1>4. CASE declare_toolchains \/ LockDone \/ ProviderDone \/ Omit \/ Resolve \/ NextProvider
  <2>1. pc' \in {"idle", "toolchain", "tag", "lock", "provider", "done", "failed"}
    BY <1>4 DEF declare_toolchains, LockDone, ProviderDone, Omit, Resolve, NextProvider
  <2>2. tags' = tags /\ tag' = tag /\ (answer' = answer \/ answer' = {})
    BY <1>4 DEF declare_toolchains, LockDone, ProviderDone, Omit, Resolve, NextProvider, position
  <2>3. tag' \in 0..Len(tags'.deps)
    BY <2>2
  <2>4. answer' = {} \/ \E ps : answer' = {ps}
    BY <2>2, Zenon
  <2> QED
    BY <2>1, <2>3, <2>4, Zenon
<1>5. CASE StartTag
  <2>1. tag' \in 0..Len(tags'.deps)
    BY <1>5 DEF StartTag, PositionInv
  <2>2. pc' = "lock" /\ answer' = answer
    BY <1>5 DEF StartTag
  <2>3. answer' = {} \/ \E ps : answer' = {ps}
    BY <2>2, Zenon
  <2> QED
    BY <2>1, <2>2, <2>3, Zenon
<1>6. CASE _published_platforms
  <2>1. \E ps : answer' = {ps}
    BY <1>6, Lists
  <2>2. UNCHANGED <<pc, tags, tag>>
    BY <1>6 DEF _published_platforms
  <2> QED
    BY <2>1, <2>2
<1>7. \/ UNCHANGED <<pc, tags, tag, answer>>
      \/ Blank /\ pc' \in {"idle", "done", "failed"}
      \/ \E list \in TagLists : Evaluate(list)
      \/ declare_toolchains \/ LockDone \/ ProviderDone \/ Omit \/ Resolve \/ NextProvider
      \/ StartTag \/ _published_platforms
  BY DEF Next, vars, position, PublishFor, ServeAnother, Relist, MayMove, Finish, Fail, Interrupt, Over
<1> QED
  BY <1>1, <1>2, <1>3, <1>4, <1>5, <1>6, <1>7

\* What the proofs above preserve, together.
AllInv == IInv /\ TypeInv /\ PositionInv /\ HubsInv

LEMMA Invariants == Spec => []AllInv
<1>1. Init => AllInv
  BY IInvInit, TypeInvInit, PositionInvInit, HubsInvInit DEF AllInv
<1>2. AllInv /\ [Next]_vars => AllInv'
  BY IInvStep, WorldStep, RecordedStep, MadeStep, StandStep, PositionInvStep, HubsInvStep DEF AllInv, TypeInv
<1> QED
  BY <1>1, <1>2, PTL DEF Spec

\* The facts, the pool and the hubs have the shapes the code gives them, and no
\* entry of a lookup that failed is handed on.
THEOREM TypeCorrect == Spec => []TypeOK
<1>1. AllInv => TypeOK
  <2> SUFFICES ASSUME AllInv PROVE TypeOK
    OBVIOUS
  <2>1. pc \in {"idle", "toolchain", "tag", "lock", "provider", "done", "failed"} /\ tag \in 0..Len(tags.deps) /\ Len(hubs) = tag
    BY DEF AllInv, TypeInv, StandInv, HubsInv
  <2>2. Cardinality(answer) <= 1
    <3>1. CASE answer = {}
      BY <3>1, FS_EmptySet
    <3>2. ASSUME NEW ps, answer = {ps} PROVE Cardinality(answer) <= 1
      BY <3>2, FS_Singleton
    <3> QED
      BY <3>1, <3>2 DEF AllInv, TypeInv, StandInv
  <2>3. \A k \in DOMAIN pool : IsKey(k) /\ pool[k] \in Sum
    BY DEF AllInv, IInv, ProductInv, PoolInv, TypeInv, MadeInv
  <2>4. \A k \in DOMAIN newFacts.archive : k \in DOMAIN pool /\ newFacts.archive[k] = {pool[k]}
    BY DEF AllInv, IInv, ProductInv, PoolInv
  <2>5. \A k \in DOMAIN newFacts.archive :
          IsKey(k) /\ newFacts.archive[k] \subseteq Sum /\ newFacts.archive[k] # Failed
    BY <2>3, <2>4 DEF Failed
  <2>6. \A r \in DOMAIN newFacts.platforms : r \in Release /\ newFacts.platforms[r] # {}
    BY DEF AllInv, TypeInv, MadeInv
  <2> QED
    BY <2>1, <2>2, <2>3, <2>5, <2>6 DEF TypeOK
<1> QED
  BY <1>1, Invariants, PTL

-------------------------------------------------------------------------------
(***************************************************************************)
(* What an evaluation has passed, and what follows from it                  *)
(***************************************************************************)

\* A position is a tag, an entry of its lock and a platform asked for.
EntryAt(list, x) == list.deps[x[1]].lock[x[2]]
MeantAt(list, x) == Meant(list.deps[x[1]], EntryAt(list, x))
KeyAt(list, x) == <<MeantAt(list, x), Platforms[x[3]]>>
PlaceAt(list, x) == <<EntryAt(list, x).source, Platforms[x[3]]>>

Positions(list) ==
  {x \in Nat \X Nat \X Nat :
     /\ x[1] \in 1..Len(list.deps) /\ x[2] \in 1..Len(list.deps[x[1]].lock) /\ x[3] \in 1..Len(Platforms)}

Here == <<tag, at, platform>>

Passed ==
  {x \in Positions(tags) :
     \/ x[1] < tag
     \/ x[1] = tag /\ (pc = "tag" \/ x[2] < at)
     \/ x[1] = tag /\ x[2] = at /\ (pc = "lock" \/ x[3] < platform)}

\* The archives in the pool are those of positions in `S`, each checked against
\* the entry it is for, and the registry's word is recorded for each omission.
Accounted(list, S, F, archives) ==
  /\ \A k \in DOMAIN archives : \E x \in S : KeyAt(list, x) = k
  /\ \A x \in S :
       IF KeyAt(list, x) \in DOMAIN archives
       THEN EntryAt(list, x).zh = {} \/ archives[KeyAt(list, x)] \in EntryAt(list, x).zh
       ELSE MeantAt(list, x) \in DOMAIN F.platforms /\ Platforms[x[3]] \notin F.platforms[MeantAt(list, x)]

\* A hub offers what was pooled at its positions, that of the last entry if
\* several are of one source.
Offered(list, S, keys, offered) ==
  /\ \A x \in S : KeyAt(list, x) \in keys => PlaceAt(list, x) \in DOMAIN offered[x[1]]
  /\ \A t \in 1..Len(offered) : \A y \in DOMAIN offered[t] :
       \E x \in S :
         /\ x[1] = t /\ PlaceAt(list, x) = y /\ KeyAt(list, x) \in keys /\ offered[t][y] = KeyAt(list, x)
         /\ \A z \in S : z[1] = t /\ PlaceAt(list, z) = y /\ KeyAt(list, z) \in keys => z[2] <= x[2]

\* Some platform of the entry at `x` is in the pool.
Filled(list, S, keys, x) == \E y \in S : y[1] = x[1] /\ y[2] = x[2] /\ KeyAt(list, y) \in keys

Chosen(list) == IF list.toolchain = <<>> THEN default_version ELSE list.toolchain[1]

Table(list, F) == IF Chosen(list) \in DOMAIN versions THEN versions[Chosen(list)] ELSE F.checksums[Chosen(list)]

Engine(list, F, declared) ==
  /\ \A n \in 1..Len(list.toolchain) : list.toolchain[n] \in {Chosen(list)} \cap EngineVersion
  /\ declared = {<<Chosen(list), p, Table(list, F)[p]>> : p \in DOMAIN Table(list, F)}
  /\ Chosen(list) \notin DOMAIN versions =>
       Chosen(list) \in DOMAIN F.checksums /\ F.checksums[Chosen(list)] # <<>>

Declaring == pc \in {"tag", "lock", "provider"}

\* What the evaluation under way has declared and recorded so far.
PassedInv ==
  /\ Accounted(tags, Passed, newFacts, pool)
  /\ Offered(tags, Passed, DOMAIN pool, hubs)
  /\ \A x \in Passed : KeyAt(tags, x) \in DOMAIN pool \/ KeyAt(tags, x) \notin Found
  /\ \A x \in Passed : Filled(tags, Passed, DOMAIN pool, x) \/ (pc = "provider" /\ x[1] = tag /\ x[2] = at)

EntryInv == pc = "provider" =>
  /\ answer # {} => release \in DOMAIN newFacts.platforms /\ answer = {newFacts.platforms[release]}
  /\ some <=> Filled(tags, Passed, DOMAIN pool, Here)

DeclaredInv == Declaring => Engine(tags, newFacts, toolchains)

\* What the last evaluation declared, its facts account for.
LastInv ==
  /\ ~last.made => last.hubs = <<>>
  /\ last.made =>
       /\ Engine(last.tags, facts, last.toolchains)
       /\ DOMAIN last.pool = DOMAIN facts.archive /\ \A k \in DOMAIN last.pool : facts.archive[k] = {last.pool[k]}
       /\ Accounted(last.tags, Positions(last.tags), facts, last.pool)
       /\ Len(last.hubs) = Len(last.tags.deps)
       /\ Offered(last.tags, Positions(last.tags), DOMAIN last.pool, last.hubs)
       /\ \A x \in Positions(last.tags) : Filled(last.tags, Positions(last.tags), DOMAIN last.pool, x)
       /\ last.pool \in [DOMAIN last.pool -> Sum] /\ last.hubs \in Seq(Hub)

\* A repeat is answered by the facts so far.
RepeatInv ==
  /\ Idle => ~asked
  /\ last.made /\ tags = last.tags =>
       /\ ~asked
       /\ DOMAIN pool \subseteq DOMAIN last.pool
       /\ \A x \in Passed : KeyAt(tags, x) \in DOMAIN last.pool => KeyAt(tags, x) \in DOMAIN pool

LEMMA NothingPassed == tag = 0 => Passed = {}
BY DEF Passed, Positions

LEMMA PassedStays ==
  ASSUME TypeInv, PositionInv, HubsInv,
         StartTag \/ NextProvider \/ LockDone \/ ProviderDone \/ _published_platforms \/ declare_toolchains
  PROVE  Passed' = Passed
<1>1. tags' = tags /\ Positions(tags)' = Positions(tags)
  BY DEF StartTag, NextProvider, LockDone, ProviderDone, _published_platforms, declare_toolchains, Positions
<1> DEFINE P(x, t, a, p, c) == \/ x[1] < t
                               \/ x[1] = t /\ (c = "tag" \/ x[2] < a)
                               \/ x[1] = t /\ x[2] = a /\ (c = "lock" \/ x[3] < p)
<1>2. tag \in Nat /\ at \in Nat /\ platform \in Nat /\ Len(Platforms) \in Nat
  BY InputsAssumption DEF PositionInv
<1>3. \A x \in Positions(tags) :
        /\ x[1] \in Nat /\ x[2] \in Nat /\ x[3] \in Nat /\ x[1] > 0 /\ x[2] > 0 /\ x[3] > 0 /\ x[3] <= Len(Platforms)
        /\ x[1] = tag => x[2] <= Len(tags.deps[tag].lock)
  BY DEF Positions
<1>4. ASSUME NEW x \in Positions(tags) PROVE P(x, tag', at', platform', pc') <=> P(x, tag, at, platform, pc)
  <2>1. CASE StartTag
    BY <1>2, <1>3, <2>1 DEF StartTag
  <2>2. CASE NextProvider
    BY <1>2, <1>3, <2>2 DEF NextProvider
  <2>3. CASE LockDone
    BY <1>2, <1>3, <2>3 DEF LockDone, position
  <2>4. CASE ProviderDone
    BY <1>2, <1>3, <2>4 DEF ProviderDone, position
  <2>5. CASE _published_platforms
    BY <2>5 DEF _published_platforms
  <2>6. CASE declare_toolchains
    <3>1. tag = 0 /\ tag' = 0
      BY <2>6 DEF declare_toolchains, HubsInv, Idle, position
    <3> QED
      BY <1>3, <3>1
  <2> QED
    BY <2>1, <2>2, <2>3, <2>4, <2>5, <2>6
<1>5. Passed = {x \in Positions(tags) : P(x, tag, at, platform, pc)}
  BY DEF Passed
<1>6. Passed' = {x \in Positions(tags) : P(x, tag', at', platform', pc')}
  BY <1>1 DEF Passed
<1> HIDE DEF P
<1> QED
  BY <1>4, <1>5, <1>6

\* Trying a platform passes one position more.
LEMMA PassedHere ==
  ASSUME PositionInv, Omit \/ Resolve
  PROVE  /\ Trying /\ Here \in Positions(tags) /\ Passed' = Passed \cup {Here}
         /\ \A x \in Passed : x[1] <= tag /\ (x[1] = tag => x[2] <= at)
<1>1. /\ pc = "provider" /\ platform <= Len(Platforms) /\ Trying /\ platform' = platform + 1
      /\ UNCHANGED <<pc, tags, tag, at>>
  BY DEF Omit, Resolve, Looking, Trying
<1>2. tag \in Nat /\ at \in Nat /\ platform \in Nat /\ platform > 0 /\ Len(Platforms) \in Nat
      /\ tag \in 1..Len(tags.deps) /\ at \in 1..Len(tags.deps[tag].lock)
  BY <1>1, InputsAssumption DEF PositionInv
<1>3. Here \in Positions(tags)
  BY <1>1, <1>2 DEF Here, Positions
<1>4. Positions(tags)' = Positions(tags)
  BY <1>1 DEF Positions
<1>5. \A x \in Positions(tags) : x = <<x[1], x[2], x[3]>> /\ x[1] \in Nat /\ x[2] \in Nat /\ x[3] \in Nat
  BY DEF Positions
<1> DEFINE P(x, p) == \/ x[1] < tag
                      \/ x[1] = tag /\ x[2] < at
                      \/ x[1] = tag /\ x[2] = at /\ x[3] < p
<1>6. Passed = {x \in Positions(tags) : P(x, platform)}
  BY <1>1 DEF Passed
<1>7. Passed' = {x \in Positions(tags) : P(x, platform + 1)}
  BY <1>1, <1>4 DEF Passed
<1>8. \A x \in Positions(tags) : P(x, platform + 1) <=> P(x, platform) \/ x = Here
  <2> SUFFICES ASSUME NEW x \in Positions(tags) PROVE P(x, platform + 1) <=> P(x, platform) \/ x = Here
    OBVIOUS
  <2>1. x = Here <=> x[1] = tag /\ x[2] = at /\ x[3] = platform
    BY <1>5 DEF Here
  <2>2. x[1] \in Nat /\ x[2] \in Nat /\ x[3] \in Nat
    BY <1>5
  <2> QED
    BY <1>2, <2>1, <2>2
<1>9. Passed' = Passed \cup {Here}
  BY <1>3, <1>6, <1>7, <1>8
<1>10. \A x \in Passed : x[1] <= tag /\ (x[1] = tag => x[2] <= at)
  BY <1>2, <1>5, <1>6
<1> QED
  BY <1>1, <1>3, <1>9, <1>10

LEMMA HereIs ==
  /\ EntryAt(tags, Here) = provider /\ MeantAt(tags, Here) = release
  /\ KeyAt(tags, Here) = Key /\ PlaceAt(tags, Here) = <<provider.source, current>>
BY DEF Here, EntryAt, MeantAt, KeyAt, PlaceAt, provider, Meant, release, provider_registry, Key, _pool_repo_name, current

-------------------------------------------------------------------------------
(***************************************************************************)
(* One position more                                                        *)
(***************************************************************************)
LEMMA AccountedMore ==
  ASSUME NEW list, NEW S, NEW x0, NEW F, NEW F2, NEW a, NEW a2, Accounted(list, S, F, a),
         DOMAIN a2 \subseteq DOMAIN a \cup {KeyAt(list, x0)},
         \A k \in DOMAIN a : k \in DOMAIN a2 /\ a2[k] = a[k],
         F2.platforms = F.platforms,
         KeyAt(list, x0) \in DOMAIN a2 => EntryAt(list, x0).zh = {} \/ a2[KeyAt(list, x0)] \in EntryAt(list, x0).zh,
         KeyAt(list, x0) \notin DOMAIN a2 =>
           MeantAt(list, x0) \in DOMAIN F2.platforms /\ Platforms[x0[3]] \notin F2.platforms[MeantAt(list, x0)],
         \A x \in S : KeyAt(list, x) \in DOMAIN a2 => KeyAt(list, x) \in DOMAIN a
  PROVE  Accounted(list, S \cup {x0}, F2, a2)
<1>1. \A k \in DOMAIN a2 : \E x \in S \cup {x0} : KeyAt(list, x) = k
  BY DEF Accounted
<1>2. ASSUME NEW x \in S \cup {x0}
      PROVE  IF KeyAt(list, x) \in DOMAIN a2
             THEN EntryAt(list, x).zh = {} \/ a2[KeyAt(list, x)] \in EntryAt(list, x).zh
             ELSE MeantAt(list, x) \in DOMAIN F2.platforms /\ Platforms[x[3]] \notin F2.platforms[MeantAt(list, x)]
  <2>1. CASE x = x0
    BY <2>1
  <2>2. CASE x \in S
    BY <2>2 DEF Accounted
  <2> QED
    BY <2>1, <2>2
<1> QED
  BY <1>1, <1>2 DEF Accounted

LEMMA OfferedMore ==
  ASSUME NEW list, NEW S, NEW x0, NEW keys, NEW keys2, NEW offered, NEW offered2, Offered(list, S, keys, offered),
         x0[1] \in 1..Len(offered), Len(offered2) = Len(offered), x0[2] \in Nat,
         \A x \in S : x[1] = x0[1] => x[2] <= x0[2],
         \A x \in S : KeyAt(list, x) \in keys2 <=> KeyAt(list, x) \in keys,
         \A t \in 1..Len(offered) : t # x0[1] => offered2[t] = offered[t],
         \A x \in S : x[1] \in 1..Len(offered),
         KeyAt(list, x0) \notin keys2 => offered2[x0[1]] = offered[x0[1]],
         KeyAt(list, x0) \in keys2 =>
           /\ DOMAIN offered2[x0[1]] = DOMAIN offered[x0[1]] \cup {PlaceAt(list, x0)}
           /\ offered2[x0[1]][PlaceAt(list, x0)] = KeyAt(list, x0)
           /\ \A y \in DOMAIN offered[x0[1]] : y # PlaceAt(list, x0) => offered2[x0[1]][y] = offered[x0[1]][y]
  PROVE  Offered(list, S \cup {x0}, keys2, offered2)
<1>1. ASSUME NEW x \in S \cup {x0}, KeyAt(list, x) \in keys2 PROVE PlaceAt(list, x) \in DOMAIN offered2[x[1]]
  <2>1. CASE x = x0
    BY <1>1, <2>1
  <2>2. CASE x \in S
    <3>1. PlaceAt(list, x) \in DOMAIN offered[x[1]] /\ x[1] \in 1..Len(offered)
      BY <1>1, <2>2 DEF Offered
    <3>2. CASE x[1] = x0[1]
      BY <3>1, <3>2
    <3>3. CASE x[1] # x0[1]
      BY <3>1, <3>3
    <3> QED
      BY <3>2, <3>3
  <2> QED
    BY <2>1, <2>2
<1>2. ASSUME NEW t \in 1..Len(offered2), NEW y \in DOMAIN offered2[t]
      PROVE  \E x \in S \cup {x0} :
               /\ x[1] = t /\ PlaceAt(list, x) = y /\ KeyAt(list, x) \in keys2 /\ offered2[t][y] = KeyAt(list, x)
               /\ \A z \in S \cup {x0} : z[1] = t /\ PlaceAt(list, z) = y /\ KeyAt(list, z) \in keys2 => z[2] <= x[2]
  <2>1. CASE KeyAt(list, x0) \in keys2 /\ t = x0[1] /\ y = PlaceAt(list, x0)
    BY <2>1
  <2>2. CASE ~(KeyAt(list, x0) \in keys2 /\ t = x0[1] /\ y = PlaceAt(list, x0))
    <3>1. y \in DOMAIN offered[t] /\ offered2[t][y] = offered[t][y]
      BY <2>2
    <3>2. PICK x \in S :
            /\ x[1] = t /\ PlaceAt(list, x) = y /\ KeyAt(list, x) \in keys /\ offered[t][y] = KeyAt(list, x)
            /\ \A z \in S : z[1] = t /\ PlaceAt(list, z) = y /\ KeyAt(list, z) \in keys => z[2] <= x[2]
      BY <3>1 DEF Offered
    <3>3. \A z \in S \cup {x0} : z[1] = t /\ PlaceAt(list, z) = y /\ KeyAt(list, z) \in keys2 => z[2] <= x[2]
      BY <2>2, <3>2
    <3> QED
      BY <3>1, <3>2, <3>3
  <2> QED
    BY <2>1, <2>2
<1> QED
  BY <1>1, <1>2 DEF Offered

\* Whether an entry has a platform depends on the positions and on what is pooled.
LEMMA FilledMore ==
  ASSUME NEW list, NEW S, NEW x0, NEW keys, NEW keys2, NEW x, Filled(list, S, keys, x), keys \subseteq keys2
  PROVE  Filled(list, S \cup {x0}, keys2, x)
BY DEF Filled

\* What is known of the archive at hand, from the pool or from the facts.
LEMMA CachedIs ==
  ASSUME IInv
  PROVE  _cached_archive = IF Key \in DOMAIN pool THEN {pool[Key]}
                           ELSE IF Key \in Found THEN facts.archive[Key] ELSE {}
<1>1. DOMAIN newFacts.archive = DOMAIN pool /\ \A k \in DOMAIN pool : newFacts.archive[k] = {pool[k]}
  BY DEF IInv, ProductInv, PoolInv
<1>2. CASE Key \in DOMAIN pool
  <2>1. _recall("archive", Key) = {{pool[Key]}}
    BY <1>1, <1>2 DEF _recall
  <2> QED
    BY <1>2, <2>1 DEF _cached_archive
<1>3. CASE Key \notin DOMAIN pool /\ Key \in DOMAIN facts.archive
  <2>1. _recall("archive", Key) = {facts.archive[Key]}
    BY <1>1, <1>3 DEF _recall
  <2> QED
    BY <1>3, <2>1 DEF _cached_archive, Found, Failed
<1>4. CASE Key \notin DOMAIN pool /\ Key \notin DOMAIN facts.archive
  <2>1. _recall("archive", Key) = {}
    BY <1>1, <1>4 DEF _recall
  <2> QED
    BY <1>4, <2>1 DEF _cached_archive, Found
<1> QED
  BY <1>2, <1>3, <1>4

\* What Resolve pools was not left out before.
LEMMA NothingOmittedIsPooled ==
  ASSUME IInv, PassedInv, EntryInv, Resolve, NEW x \in Passed, KeyAt(tags, x) \in DOMAIN pool'
  PROVE  KeyAt(tags, x) \in DOMAIN pool
<1> SUFFICES ASSUME KeyAt(tags, x) = Key, Key \notin DOMAIN pool PROVE FALSE
  BY Pools
<1>1. Key \notin Found
  BY DEF PassedInv
<1>2. _cached_archive = {}
  BY <1>1, CachedIs
<1>3. PICK ps \in answer : current \in ps
  BY <1>2 DEF Resolve, Looking
<1>4. ps = newFacts.platforms[release]
  BY <1>3 DEF EntryInv, Resolve, Looking, Trying
<1>5. Platforms[x[3]] \notin newFacts.platforms[MeantAt(tags, x)]
  BY DEF PassedInv, Accounted
<1>6. MeantAt(tags, x) = release /\ Platforms[x[3]] = current
  BY DEF KeyAt, Key, _pool_repo_name
<1> QED
  BY <1>3, <1>4, <1>5, <1>6

LEMMA PassedResolve ==
  ASSUME IInv, PositionInv, HubsInv, PassedInv, EntryInv, Resolve
  PROVE  PassedInv'
<1>1. /\ Trying /\ Here \in Positions(tags) /\ Passed' = Passed \cup {Here}
      /\ \A x \in Passed : x[1] <= tag /\ (x[1] = tag => x[2] <= at)
      /\ pc = "provider" /\ UNCHANGED <<pc, tags, tag, at, facts>> /\ tag \in 1..Len(hubs)
  <2>1. pc = "provider" /\ UNCHANGED <<pc, tags, tag, at, facts>>
    BY DEF Resolve, Looking, Trying, recorded
  <2>2. tag \in 1..Len(hubs)
    BY <2>1 DEF HubsInv, PositionInv
  <2>3. Trying /\ Here \in Positions(tags) /\ Passed' = Passed \cup {Here}
    BY PassedHere
  <2>4. \A x \in Passed : x[1] <= tag /\ (x[1] = tag => x[2] <= at)
    BY PassedHere
  <2> QED
    BY <2>1, <2>2, <2>3, <2>4, Zenon
<1>2. PICK sum \in _lookup_archive :
        /\ _check_against_lock(sum)
        /\ DOMAIN pool' = DOMAIN pool \cup {Key} /\ pool'[Key] = sum
        /\ \A k \in DOMAIN pool : pool'[k] = pool[k]
        /\ newFacts'.platforms = newFacts.platforms
  BY Pools
<1>3. \A x \in Passed : KeyAt(tags, x) \in DOMAIN pool' <=> KeyAt(tags, x) \in DOMAIN pool
  BY <1>2, NothingOmittedIsPooled
<1>4. Here[1] = tag /\ Here[2] = at /\ at \in Nat
  BY <1>1 DEF Here, PositionInv
<1>5. Accounted(tags, Passed \cup {Here}, newFacts', pool')
  <2>1. EntryAt(tags, Here).zh = {} \/ pool'[KeyAt(tags, Here)] \in EntryAt(tags, Here).zh
    BY <1>2, HereIs DEF _check_against_lock
  <2>2. KeyAt(tags, Here) \in DOMAIN pool'
    BY <1>2, HereIs
  <2> QED
    BY <1>2, <1>3, <2>1, <2>2, HereIs, AccountedMore DEF PassedInv
<1>6. Offered(tags, Passed \cup {Here}, DOMAIN pool', hubs')
  <2>1. hubs' = [hubs EXCEPT ![tag] = With(@, <<provider.source, current>>, Key)]
    BY DEF Resolve
  <2>2. /\ Len(hubs') = Len(hubs) /\ hubs'[tag] = With(hubs[tag], <<provider.source, current>>, Key)
        /\ \A t \in 1..Len(hubs) : t # tag => hubs'[t] = hubs[t]
    BY <1>1, <2>1 DEF HubsInv
  <2>3. /\ DOMAIN hubs'[tag] = DOMAIN hubs[tag] \cup {<<provider.source, current>>}
        /\ hubs'[tag][<<provider.source, current>>] = Key
        /\ \A y \in DOMAIN hubs[tag] : y # <<provider.source, current>> => hubs'[tag][y] = hubs[tag][y]
    BY <2>2 DEF With
  <2>4. \A x \in Passed : x[1] \in 1..Len(hubs)
    BY <1>1 DEF Passed, Positions, HubsInv
  <2>5. KeyAt(tags, Here) \in DOMAIN pool'
    BY <1>2, HereIs
  <2> QED
    BY <1>1, <1>3, <1>4, <2>2, <2>3, <2>4, <2>5, HereIs, OfferedMore DEF PassedInv
<1>7. \A x \in Passed \cup {Here} : KeyAt(tags, x) \in DOMAIN pool' \/ KeyAt(tags, x) \notin Found'
  BY <1>1, <1>2, HereIs DEF PassedInv, Found
<1>8. \A x \in Passed \cup {Here} :
        Filled(tags, Passed \cup {Here}, DOMAIN pool', x) \/ (pc = "provider" /\ x[1] = tag /\ x[2] = at)
  <2>1. \A x \in Passed : Filled(tags, Passed, DOMAIN pool, x) => Filled(tags, Passed \cup {Here}, DOMAIN pool', x)
    BY <1>2, FilledMore
  <2> QED
    BY <1>1, <1>4, <2>1 DEF PassedInv
<1> QED
  BY <1>1, <1>5, <1>6, <1>7, <1>8 DEF PassedInv

LEMMA PassedOmit ==
  ASSUME IInv, PositionInv, HubsInv, PassedInv, EntryInv, Omit
  PROVE  PassedInv'
<1>1. /\ Trying /\ Here \in Positions(tags) /\ Passed' = Passed \cup {Here}
      /\ \A x \in Passed : x[1] <= tag /\ (x[1] = tag => x[2] <= at)
      /\ pc = "provider" /\ UNCHANGED <<pc, tags, tag, at, facts, newFacts, pool, hubs>> /\ tag \in 1..Len(hubs)
  BY PassedHere DEF Omit, Trying, recorded, product, HubsInv, PositionInv
<1>2. Here[1] = tag /\ Here[2] = at /\ Here[3] = platform /\ at \in Nat
  BY <1>1 DEF Here, PositionInv
<1>3. Key \notin DOMAIN pool /\ Key \notin Found
  <2>1. _cached_archive = {}
    BY DEF Omit
  <2>2. Key \in Found => facts.archive[Key] # {}
    BY DEF Found, Failed
  <2> QED
    BY <2>1, <2>2, CachedIs
<1>4. release \in DOMAIN newFacts.platforms /\ current \notin newFacts.platforms[release]
  BY <1>1 DEF Omit, EntryInv
<1>5. Accounted(tags, Passed \cup {Here}, newFacts, pool)
  <2>1. KeyAt(tags, Here) \notin DOMAIN pool
    BY <1>3, HereIs
  <2>2. MeantAt(tags, Here) \in DOMAIN newFacts.platforms /\ Platforms[Here[3]] \notin newFacts.platforms[MeantAt(tags, Here)]
    BY <1>2, <1>4, HereIs DEF current
  <2> QED
    BY <2>1, <2>2, AccountedMore DEF PassedInv
<1>6. Offered(tags, Passed \cup {Here}, DOMAIN pool, hubs)
  <2>1. KeyAt(tags, Here) \notin DOMAIN pool
    BY <1>3, HereIs
  <2>2. \A x \in Passed : x[1] \in 1..Len(hubs)
    BY <1>1 DEF Passed, Positions, HubsInv
  <2> QED
    BY <1>1, <1>2, <2>1, <2>2, OfferedMore DEF PassedInv
<1>7. \A x \in Passed \cup {Here} : KeyAt(tags, x) \in DOMAIN pool \/ KeyAt(tags, x) \notin Found
  BY <1>3, HereIs DEF PassedInv
<1>8. \A x \in Passed \cup {Here} :
        Filled(tags, Passed \cup {Here}, DOMAIN pool, x) \/ (pc = "provider" /\ x[1] = tag /\ x[2] = at)
  <2>1. \A x \in Passed : Filled(tags, Passed, DOMAIN pool, x) => Filled(tags, Passed \cup {Here}, DOMAIN pool, x)
    BY FilledMore
  <2> QED
    BY <1>1, <1>2, <2>1 DEF PassedInv
<1>9. Found' = Found
  BY <1>1 DEF Found
<1> QED
  BY <1>1, <1>5, <1>6, <1>7, <1>8, <1>9 DEF PassedInv


LEMMA PassedNone ==
  ASSUME tag' = 0, pool' = <<>>, hubs' = <<>>
  PROVE  PassedInv'
<1>1. Passed' = {}
  BY DEF Passed, Positions
<1>2. Accounted(tags', Passed', newFacts', pool')
  BY <1>1 DEF Accounted
<1>3. Offered(tags', Passed', DOMAIN pool', hubs')
  BY <1>1 DEF Offered
<1> QED
  BY <1>1, <1>2, <1>3 DEF PassedInv

LEMMA PassedSame ==
  ASSUME PassedInv, Passed' = Passed, UNCHANGED <<tags, facts, pool>>,
         \A r \in DOMAIN newFacts.platforms :
           r \in DOMAIN newFacts'.platforms /\ newFacts'.platforms[r] = newFacts.platforms[r],
         Offered(tags, Passed, DOMAIN pool, hubs'),
         \A x \in Passed : Filled(tags, Passed, DOMAIN pool, x) \/ (pc' = "provider" /\ x[1] = tag' /\ x[2] = at')
  PROVE  PassedInv'
<1>1. Accounted(tags', Passed', newFacts', pool')
  BY DEF PassedInv, Accounted
<1>2. Found' = Found
  BY DEF Found
<1> QED
  BY <1>1, <1>2 DEF PassedInv

LEMMA PassedStep ==
  ASSUME IInv, TypeInv, PositionInv, HubsInv, PassedInv, EntryInv, [Next]_vars
  PROVE  PassedInv'
<1>1. CASE Blank
  BY <1>1, PassedNone DEF Blank
<1>2. ASSUME Idle, UNCHANGED <<tag, pool, hubs>> PROVE PassedInv'
  <2>1. tag = 0 /\ pool = <<>> /\ hubs = <<>>
    BY <1>2 DEF HubsInv, IInv, ProductInv, RestInv, BlankState
  <2> QED
    BY <1>2, <2>1, PassedNone
<1>3. CASE StartTag
  <2>1. /\ hubs' = Append(hubs, <<>>) /\ pc = "tag"
        /\ UNCHANGED <<tags, facts, pool, newFacts>>
    BY <1>3 DEF StartTag, recorded
  <2>2. Offered(tags, Passed, DOMAIN pool, hubs')
    <3>1. Len(hubs') = Len(hubs) + 1 /\ hubs'[Len(hubs) + 1] = <<>> /\ Len(hubs) \in Nat
          /\ \A t \in 1..Len(hubs) : hubs'[t] = hubs[t]
      BY <2>1 DEF HubsInv
    <3>2. \A x \in Passed : x[1] \in 1..Len(hubs)
      <4>1. Len(hubs) = tag /\ tag \in Nat
        BY DEF HubsInv, PositionInv
      <4> QED
        BY <2>1, <4>1 DEF Passed, Positions
    <3>3. \A t \in 1..Len(hubs') : \A y \in DOMAIN hubs'[t] : t \in 1..Len(hubs)
      BY <3>1
    <3> QED
      BY <3>1, <3>2, <3>3 DEF PassedInv, Offered
  <2>3. \A x \in Passed : Filled(tags, Passed, DOMAIN pool, x)
    BY <2>1 DEF PassedInv
  <2> QED
    BY <1>3, <2>1, <2>2, <2>3, PassedStays, PassedSame
<1>4. CASE NextProvider \/ LockDone
  <2>1. pc = "lock" /\ UNCHANGED <<tags, facts, pool, newFacts, hubs>>
    BY <1>4 DEF NextProvider, LockDone, recorded, product
  <2>2. \A x \in Passed : Filled(tags, Passed, DOMAIN pool, x)
    BY <2>1 DEF PassedInv
  <2>3. Offered(tags, Passed, DOMAIN pool, hubs')
    BY <2>1 DEF PassedInv
  <2> QED
    BY <1>4, <2>1, <2>2, <2>3, PassedStays, PassedSame
<1>5. CASE ProviderDone
  <2>1. pc = "provider" /\ some /\ UNCHANGED <<tags, facts, pool, newFacts, hubs>>
    BY <1>5 DEF ProviderDone, recorded, product
  <2>2. Filled(tags, Passed, DOMAIN pool, Here)
    BY <2>1 DEF EntryInv
  <2>3. \A x \in Passed : x[1] = tag /\ x[2] = at => Filled(tags, Passed, DOMAIN pool, x)
    BY <2>2 DEF Filled, Here
  <2>4. \A x \in Passed : Filled(tags, Passed, DOMAIN pool, x)
    BY <2>3 DEF PassedInv
  <2>5. Offered(tags, Passed, DOMAIN pool, hubs')
    BY <2>1 DEF PassedInv
  <2> QED
    BY <1>5, <2>1, <2>4, <2>5, PassedStays, PassedSame
<1>6. CASE _published_platforms
  <2>1. UNCHANGED <<pc, tag, at, tags, facts, pool, hubs>>
    BY <1>6 DEF _published_platforms, recorded
  <2>2. \A r \in DOMAIN newFacts.platforms :
           r \in DOMAIN newFacts'.platforms /\ newFacts'.platforms[r] = newFacts.platforms[r]
    BY <1>6, Lists DEF With
  <2>3. Offered(tags, Passed, DOMAIN pool, hubs')
    BY <2>1 DEF PassedInv
  <2>4. \A x \in Passed : Filled(tags, Passed, DOMAIN pool, x) \/ (pc' = "provider" /\ x[1] = tag' /\ x[2] = at')
    BY <2>1 DEF PassedInv
  <2> QED
    BY <1>6, <2>1, <2>2, <2>3, <2>4, PassedStays, PassedSame
<1>7. CASE UNCHANGED <<recorded, pc, tags, position, product>>
  <2>1. UNCHANGED <<pc, tags, tag, at, platform, facts, pool, newFacts, hubs>>
    BY <1>7 DEF recorded, position, product
  <2>2. Passed' = Passed
    BY <2>1 DEF Passed, Positions
  <2>3. Offered(tags, Passed, DOMAIN pool, hubs')
    BY <2>1 DEF PassedInv
  <2>4. \A x \in Passed : Filled(tags, Passed, DOMAIN pool, x) \/ (pc' = "provider" /\ x[1] = tag' /\ x[2] = at')
    BY <2>1 DEF PassedInv
  <2> QED
    BY <2>1, <2>2, <2>3, <2>4, PassedSame
<1>8. \/ UNCHANGED <<recorded, pc, tags, position, product>> \/ Blank
      \/ Idle /\ UNCHANGED <<tag, pool, hubs>>
      \/ StartTag \/ NextProvider \/ LockDone \/ ProviderDone
      \/ _published_platforms \/ Omit \/ Resolve
  BY DEF Next, vars, PublishFor, ServeAnother, Relist, MayMove, Evaluate, declare_toolchains, Finish, Fail,
         Interrupt, Over, Idle, Resting, position, product
<1> QED
  BY <1>1, <1>2, <1>3, <1>4, <1>5, <1>6, <1>7, <1>8, PassedOmit, PassedResolve

LEMMA EntryStep ==
  ASSUME IInv, TypeInv, PositionInv, HubsInv, PassedInv, EntryInv, [Next]_vars
  PROVE  EntryInv'
<1>1. CASE pc' # "provider"
  BY <1>1 DEF EntryInv
<1>2. CASE NextProvider
  <2>1. /\ answer' = {} /\ some' = FALSE /\ pc = "lock" /\ tag' = tag /\ at' = at + 1
        /\ Passed' = Passed /\ UNCHANGED <<tags, pool>>
    BY <1>2, PassedStays DEF NextProvider, product
  <2>2. \A x \in Passed : ~(x[1] = tag /\ x[2] = at + 1)
    BY <2>1 DEF Passed, Positions, PositionInv
  <2>3. ~Filled(tags', Passed', DOMAIN pool', Here')
    BY <2>1, <2>2 DEF Filled, Here
  <2> QED
    BY <2>1, <2>3 DEF EntryInv
<1>3. CASE _published_platforms
  <2>1. pc = "provider" /\ UNCHANGED <<tags, tag, at, platform, some, pool>> /\ Passed' = Passed
    BY <1>3, PassedStays DEF _published_platforms, Trying
  <2>2. release' = release /\ Here' = Here
    BY <2>1 DEF release, provider_registry, provider, Here
  <2>3. release \in DOMAIN newFacts'.platforms /\ answer' = {newFacts'.platforms[release]}
    BY <1>3, Lists DEF With
  <2>4. some' <=> Filled(tags', Passed', DOMAIN pool', Here')
    BY <2>1, <2>2, Zenon DEF EntryInv
  <2> QED
    BY <2>2, <2>3, <2>4, Zenon DEF EntryInv
<1>4. CASE Omit
  <2>1. /\ pc = "provider" /\ UNCHANGED <<tags, tag, at, answer, some, pool, newFacts>>
        /\ Passed' = Passed \cup {Here} /\ _cached_archive = {}
    BY <1>4, PassedHere DEF Omit, Trying, product
  <2>2. release' = release /\ Here'[1] = Here[1] /\ Here'[2] = Here[2]
    BY <2>1 DEF release, provider_registry, provider, Here
  <2>3. KeyAt(tags, Here) \notin DOMAIN pool
    BY <2>1, CachedIs, HereIs
  <2>4. Filled(tags', Passed', DOMAIN pool', Here') <=> Filled(tags, Passed, DOMAIN pool, Here)
    BY <2>1, <2>2, <2>3 DEF Filled
  <2>5. some' <=> Filled(tags', Passed', DOMAIN pool', Here')
    BY <2>1, <2>4, Zenon DEF EntryInv
  <2>6. answer' # {} => release' \in DOMAIN newFacts'.platforms /\ answer' = {newFacts'.platforms[release']}
    BY <2>1, <2>2 DEF EntryInv
  <2> QED
    BY <2>5, <2>6, Zenon DEF EntryInv
<1>5. CASE Resolve
  <2>1. pc = "provider" /\ UNCHANGED <<tags, tag, at, answer>> /\ some' = TRUE
    BY <1>5 DEF Resolve, Looking, Trying
  <2>2. Passed' = Passed \cup {Here} /\ Key \in DOMAIN pool' /\ newFacts'.platforms = newFacts.platforms
    BY <1>5, PassedHere, Pools
  <2>3. release' = release /\ Here'[1] = Here[1] /\ Here'[2] = Here[2]
    BY <2>1 DEF release, provider_registry, provider, Here
  <2>4. Filled(tags', Passed', DOMAIN pool', Here')
    BY <2>1, <2>2, <2>3, HereIs DEF Filled
  <2>5. answer' # {} => release' \in DOMAIN newFacts'.platforms /\ answer' = {newFacts'.platforms[release']}
    BY <2>1, <2>2, <2>3 DEF EntryInv
  <2> QED
    BY <2>1, <2>4, <2>5 DEF EntryInv
<1>6. CASE UNCHANGED <<recorded, pc, tags, position, product>>
  <2>1. UNCHANGED <<pc, tags, tag, at, platform, answer, some, pool, newFacts>>
    BY <1>6 DEF position, product
  <2>2. Passed' = Passed /\ release' = release /\ Here' = Here
    BY <2>1 DEF Passed, Positions, release, provider_registry, provider, Here
  <2> QED
    BY <2>1, <2>2, Zenon DEF EntryInv
<1>7. \/ UNCHANGED <<recorded, pc, tags, position, product>> \/ pc' # "provider"
      \/ NextProvider \/ _published_platforms \/ Omit \/ Resolve
  BY DEF Next, vars, PublishFor, ServeAnother, Relist, MayMove, Evaluate, declare_toolchains, Finish, Fail,
         Interrupt, Over, Idle, Resting, StartTag, LockDone, ProviderDone
<1> QED
  BY <1>1, <1>2, <1>3, <1>4, <1>5, <1>6, <1>7

LEMMA DeclaredStep ==
  ASSUME IInv, TypeInv, PositionInv, DeclaredInv, [Next]_vars
  PROVE  DeclaredInv'
<1>1. CASE ~Declaring'
  BY <1>1 DEF DeclaredInv
<1>2. CASE declare_toolchains
  <2>1. tags' = tags /\ version = Chosen(tags) /\ OneRelease
    BY <1>2 DEF declare_toolchains, version, Chosen
  <2>2. PICK list \in checksums :
          /\ toolchains' = {<<version, p, list[p]>> : p \in DOMAIN list}
          /\ newFacts' = IF version \in DOMAIN versions THEN newFacts
                          ELSE [newFacts EXCEPT !.checksums = With(@, version, list)]
    BY <1>2 DEF declare_toolchains
  <2>3. ASSUME version \notin DOMAIN versions
        PROVE  list # <<>> /\ version \in DOMAIN newFacts'.checksums /\ newFacts'.checksums[version] = list
    <3>1. list # <<>>
      BY <2>2, <2>3 DEF checksums, _checksums_for, recorded_checksums
    <3>2. newFacts'.checksums = With(newFacts.checksums, version, list)
      BY <2>2, <2>3 DEF IInv, ProductInv, ShapeInv
    <3> QED
      BY <3>1, <3>2 DEF With
  <2>4. version \in DOMAIN versions => list = versions[version]
    BY <2>2 DEF checksums
  <2>5. Table(tags, newFacts') = list
    BY <2>1, <2>3, <2>4 DEF Table
  <2>6. Engine(tags, newFacts', toolchains')
    BY <2>1, <2>2, <2>3, <2>5 DEF Engine, OneRelease
  <2> QED
    BY <2>1, <2>6 DEF DeclaredInv
<1>3. ASSUME Declaring, UNCHANGED <<tags, toolchains>>, newFacts'.checksums = newFacts.checksums
      PROVE  DeclaredInv'
  BY <1>3 DEF DeclaredInv, Engine, Table
<1>4. Resolve \/ _published_platforms => newFacts'.checksums = newFacts.checksums
  BY Pools, Lists
<1>5. \/ ~Declaring' \/ declare_toolchains
      \/ Declaring /\ UNCHANGED <<tags, toolchains>> /\ (newFacts' = newFacts \/ Resolve \/ _published_platforms)
  BY DEF Next, vars, PublishFor, ServeAnother, Relist, MayMove, Evaluate, Finish, Fail, Trying, Looking, Declaring,
         Interrupt, Over, StartTag, NextProvider, LockDone, _published_platforms, Omit, Resolve, ProviderDone, product
<1> QED
  BY <1>1, <1>2, <1>3, <1>4, <1>5

LEMMA LastStep ==
  ASSUME IInv, TypeInv, PositionInv, HubsInv, PassedInv, DeclaredInv, LastInv, [Next]_vars
  PROVE  LastInv'
<1>1. CASE UNCHANGED <<facts, last>>
  BY <1>1 DEF LastInv
<1>2. CASE Finish
  <2>1. /\ pc = "tag" /\ tag = Len(tags.deps) /\ facts' = newFacts
        /\ last'.made = TRUE /\ last'.tags = tags /\ last'.toolchains = toolchains
        /\ last'.pool = pool /\ last'.hubs = hubs
    BY <1>2 DEF Finish
  <2>2. Passed = Positions(tags)
    BY <2>1 DEF Passed, Positions, PositionInv
  <2>3. Engine(tags, newFacts, toolchains)
    BY <2>1 DEF DeclaredInv, Declaring
  <2>4. DOMAIN pool = DOMAIN newFacts.archive /\ \A k \in DOMAIN pool : newFacts.archive[k] = {pool[k]}
    BY DEF IInv, ProductInv, PoolInv
  <2>5. /\ Accounted(tags, Positions(tags), newFacts, pool)
        /\ Offered(tags, Positions(tags), DOMAIN pool, hubs)
        /\ \A x \in Positions(tags) : Filled(tags, Positions(tags), DOMAIN pool, x)
    BY <2>1, <2>2 DEF PassedInv
  <2>6. Len(hubs) = Len(tags.deps) /\ hubs \in Seq(Hub) /\ pool \in [DOMAIN pool -> Sum]
    BY <2>1 DEF HubsInv, TypeInv, MadeInv
  <2> QED
    BY <2>1, <2>3, <2>4, <2>5, <2>6 DEF LastInv
<1>3. UNCHANGED <<facts, last>> \/ Finish
  BY DEF Next, vars, PublishFor, ServeAnother, Relist, MayMove, Evaluate, declare_toolchains, StartTag, NextProvider,
         LockDone, _published_platforms, Omit, Resolve, ProviderDone, Fail, Interrupt, Over, recorded
<1> QED
  BY <1>1, <1>2, <1>3

\* A platform is missing from a hub only where the registry's recorded list
\* leaves it out (Omit and _published_platforms), whatever failed in between.
LEMMA LastOmits == LastInv => OmittedOnTheRegistrysWord
<1> SUFFICES ASSUME LastInv, NEW t \in 1..Len(last.hubs), NEW p \in Entries(last.tags.deps[t]),
                    NEW f \in ToSet(Platforms), <<p.source, f>> \notin DOMAIN last.hubs[t]
             PROVE  Meant(last.tags.deps[t], p) \in DOMAIN facts.platforms
                    /\ f \notin facts.platforms[Meant(last.tags.deps[t], p)]
  BY DEF OmittedOnTheRegistrysWord
<1>1. last.made /\ Len(last.hubs) = Len(last.tags.deps)
  BY DEF LastInv
<1>2. PICK n \in 1..Len(last.tags.deps[t].lock) : p = last.tags.deps[t].lock[n]
  BY DEF Entries
<1>3. PICK i \in 1..Len(Platforms) : f = Platforms[i]
  BY InputsAssumption DEF ToSet
<1> DEFINE x == <<t, n, i>>
<1>4. x \in Positions(last.tags) /\ x[1] = t
  BY <1>1 DEF Positions
<1>5. EntryAt(last.tags, x) = p /\ MeantAt(last.tags, x) = Meant(last.tags.deps[t], p) /\ Platforms[x[3]] = f
  BY <1>2, <1>3 DEF EntryAt, MeantAt
<1>6. PlaceAt(last.tags, x) = <<p.source, f>>
  BY <1>5 DEF PlaceAt
<1> HIDE DEF x
<1>7. KeyAt(last.tags, x) \notin DOMAIN last.pool
  BY <1>1, <1>4, <1>6 DEF LastInv, Offered
<1> QED
  BY <1>1, <1>4, <1>5, <1>7 DEF LastInv, Accounted

-------------------------------------------------------------------------------
(***************************************************************************)
(* An evaluation of the same tags                                           *)
(***************************************************************************)
Repeating == last.made /\ tags = last.tags

\* What the last evaluation pooled is what is found in its facts.
LEMMA FoundIsPooled ==
  ASSUME LastInv, last.made
  PROVE  /\ Found = DOMAIN last.pool
         /\ \A k \in DOMAIN last.pool : k \in DOMAIN facts.archive /\ facts.archive[k] = {last.pool[k]}
BY DEF LastInv, Found, Failed

\* The facts know the archive at hand, or that there is none for its platform.
LEMMA RepeatHere ==
  ASSUME LastInv, PositionInv, Repeating, Trying
  PROVE  /\ Key \in DOMAIN last.pool => _check_against_lock(last.pool[Key])
         /\ Key \notin DOMAIN last.pool => release \in DOMAIN facts.platforms /\ current \notin facts.platforms[release]
<1>1. Here \in Positions(tags)
  BY InputsAssumption DEF Here, Positions, PositionInv, Trying
<1>2. Accounted(tags, Positions(tags), facts, last.pool)
  BY DEF LastInv, Repeating
<1>3. Platforms[Here[3]] = current
  BY DEF Here, current
<1> QED
  BY <1>1, <1>2, <1>3, HereIs DEF Accounted, _check_against_lock

\* What is looked up is known already, and is what the last evaluation found.
LEMMA RepeatCached ==
  ASSUME IInv, LastInv, PositionInv, EntryInv, RepeatInv, Repeating, Looking
  PROVE  Key \in DOMAIN last.pool /\ _cached_archive = {last.pool[Key]}
<1>1. Key \in DOMAIN last.pool
  <2> SUFFICES ASSUME Key \notin DOMAIN last.pool PROVE FALSE
    OBVIOUS
  <2>1. release \in DOMAIN facts.platforms /\ current \notin facts.platforms[release]
    BY RepeatHere DEF Looking
  <2>2. Key \notin DOMAIN pool /\ Key \notin Found
    BY FoundIsPooled DEF RepeatInv, Repeating
  <2>3. _cached_archive = {}
    BY <2>2, CachedIs
  <2>4. PICK ps \in answer : current \in ps
    BY <2>3 DEF Looking
  <2>5. release \in DOMAIN newFacts.platforms /\ ps = newFacts.platforms[release]
    BY <2>4 DEF EntryInv, Looking, Trying
  <2>6. newFacts.platforms[release] = facts.platforms[release]
    BY <2>1, <2>5 DEF IInv, ProductInv, PlatformsInv
  <2> QED
    BY <2>1, <2>4, <2>5, <2>6
<1>2. Key \in Found /\ Key \in DOMAIN facts.archive /\ facts.archive[Key] = {last.pool[Key]}
  BY <1>1, FoundIsPooled DEF Repeating
<1>3. Key \in DOMAIN pool => {pool[Key]} = {last.pool[Key]}
  BY <1>2 DEF IInv, ProductInv, PoolInv, Failed
<1> QED
  BY <1>1, <1>2, <1>3, CachedIs

\* The release of the engine is shipped, or its checksums are recorded.
LEMMA RepeatEngine ==
  ASSUME LastInv, Repeating
  PROVE  OneRelease /\ checksums # {} /\ (version \notin DOMAIN versions => recorded_checksums(version) # {})
<1>1. Engine(tags, facts, last.toolchains) /\ version = Chosen(tags)
  BY DEF LastInv, Repeating, version, Chosen
<1>2. version \notin DOMAIN versions => recorded_checksums(version) # {}
  BY <1>1 DEF Engine, recorded_checksums
<1>3. checksums # {}
  BY <1>2 DEF checksums, _checksums_for
<1>4. OneRelease
  BY <1>1 DEF Engine, OneRelease
<1> QED
  BY <1>2, <1>3, <1>4

LEMMA RepeatNone ==
  ASSUME tag' = 0, pool' = <<>>, ~asked'
  PROVE  RepeatInv'
<1>1. Passed' = {}
  BY DEF Passed, Positions
<1> QED
  BY <1>1 DEF RepeatInv

LEMMA RepeatStep ==
  ASSUME IInv, TypeInv, PositionInv, HubsInv, EntryInv, LastInv, RepeatInv, [Next]_vars
  PROVE  RepeatInv'
<1>1. CASE Blank
  BY <1>1, RepeatNone DEF Blank
<1>2. ASSUME Idle, UNCHANGED <<tag, pool, asked>> PROVE RepeatInv'
  <2>1. tag = 0 /\ pool = <<>> /\ ~asked
    BY <1>2 DEF HubsInv, IInv, ProductInv, RestInv, BlankState, RepeatInv
  <2> QED
    BY <1>2, <2>1, RepeatNone
<1>3. CASE declare_toolchains
  <2>1. /\ tag = 0 /\ pool = <<>> /\ UNCHANGED <<tag, pool, tags, last>> /\ pc' = "tag"
        /\ asked' = (version \notin DOMAIN versions /\ recorded_checksums(version) = {})
    BY <1>3 DEF declare_toolchains, HubsInv, IInv, ProductInv, RestInv, BlankState, Idle, position, recorded
  <2>2. Passed' = {}
    BY <2>1 DEF Passed, Positions
  <2>3. Repeating => ~asked'
    BY <2>1, RepeatEngine
  <2> QED
    BY <2>1, <2>2, <2>3 DEF RepeatInv, Repeating, Idle
<1>4. ASSUME ~Idle', UNCHANGED <<tags, last, pool>>, Passed' = Passed, Repeating => (asked' => asked)
      PROVE  RepeatInv'
  BY <1>4 DEF RepeatInv, Repeating
<1>5. CASE StartTag \/ NextProvider \/ LockDone \/ ProviderDone
  <2>1. Passed' = Passed
    BY <1>5, PassedStays
  <2>2. ~Idle' /\ UNCHANGED <<tags, last, pool>> /\ (asked' => asked)
    BY <1>5 DEF StartTag, NextProvider, LockDone, ProviderDone, product, recorded, Idle
  <2> QED
    BY <1>4, <2>1, <2>2
<1>6. CASE _published_platforms
  <2>1. Trying /\ _cached_archive = {} /\ ~Idle' /\ UNCHANGED <<tags, last, pool>> /\ Passed' = Passed
    BY <1>6, PassedStays DEF _published_platforms, recorded, Trying, Idle
  <2>2. ASSUME Repeating PROVE asked' => asked
    <3>1. Key \notin DOMAIN last.pool
      <4>1. Key \in Found => facts.archive[Key] # {}
        BY DEF Found, Failed
      <4> QED
        BY <2>1, <2>2, <4>1, CachedIs, FoundIsPooled DEF Repeating
    <3>2. release \in DOMAIN facts.platforms
      BY <2>1, <2>2, <3>1, RepeatHere
    <3> QED
      BY <1>6, <3>2, Lists
  <2> QED
    BY <1>4, <2>1, <2>2
<1>7. CASE Omit
  <2>1. /\ Trying /\ _cached_archive = {} /\ ~Idle' /\ UNCHANGED <<tags, last, pool>> /\ (asked' => asked)
        /\ Passed' = Passed \cup {Here}
    BY <1>7, PassedHere DEF Omit, recorded, product, Trying, Idle
  <2>2. ASSUME Repeating PROVE KeyAt(tags, Here) \notin DOMAIN last.pool
    <3>1. Key \in Found => facts.archive[Key] # {}
      BY DEF Found, Failed
    <3> QED
      BY <2>1, <2>2, <3>1, CachedIs, FoundIsPooled, HereIs DEF Repeating
  <2> QED
    BY <2>1, <2>2 DEF RepeatInv, Repeating
<1>8. CASE Resolve
  <2>1. /\ Looking /\ ~Idle' /\ UNCHANGED <<tags, last>> /\ asked' = (asked \/ _cached_archive = {})
        /\ Passed' = Passed \cup {Here} /\ DOMAIN pool' = DOMAIN pool \cup {Key}
    BY <1>8, PassedHere, Pools DEF Resolve, recorded, Looking, Trying, Idle
  <2>2. ASSUME Repeating PROVE Key \in DOMAIN last.pool /\ _cached_archive # {}
    BY <2>1, <2>2, RepeatCached
  <2> QED
    BY <2>1, <2>2, HereIs DEF RepeatInv, Repeating
<1>9. CASE UNCHANGED <<recorded, pc, tags, position, product>>
  <2>1. UNCHANGED <<last, pc, tags, tag, at, platform, pool, asked>>
    BY <1>9 DEF recorded, position, product
  <2>2. Passed' = Passed /\ (Idle' <=> Idle)
    BY <2>1 DEF Passed, Positions, Idle
  <2> QED
    BY <2>1, <2>2 DEF RepeatInv
<1>10. \/ UNCHANGED <<recorded, pc, tags, position, product>> \/ Blank
       \/ Idle /\ UNCHANGED <<tag, pool, asked>>
       \/ declare_toolchains \/ StartTag \/ NextProvider \/ LockDone \/ ProviderDone
       \/ _published_platforms \/ Omit \/ Resolve
  BY DEF Next, vars, PublishFor, ServeAnother, Relist, MayMove, Evaluate, Finish, Fail,
         Interrupt, Over, Idle, Resting, position, product
<1> QED
  BY <1>1, <1>2, <1>3, <1>5, <1>6, <1>7, <1>8, <1>9, <1>10

\* Two lists of hubs that offer the same archives at the same positions are one.
LEMMA OfferedOnce ==
  ASSUME NEW list, NEW keys, NEW one, NEW two, NEW t \in 1..Len(one), Len(two) = Len(one),
         Offered(list, Positions(list), keys, one), Offered(list, Positions(list), keys, two)
  PROVE  DOMAIN one[t] \subseteq DOMAIN two[t] /\ \A y \in DOMAIN one[t] : one[t][y] = two[t][y]
<1> SUFFICES ASSUME NEW y \in DOMAIN one[t] PROVE y \in DOMAIN two[t] /\ one[t][y] = two[t][y]
  OBVIOUS
<1>1. PICK x \in Positions(list) :
        /\ x[1] = t /\ PlaceAt(list, x) = y /\ KeyAt(list, x) \in keys /\ one[t][y] = KeyAt(list, x)
        /\ \A z \in Positions(list) : z[1] = t /\ PlaceAt(list, z) = y /\ KeyAt(list, z) \in keys => z[2] <= x[2]
  BY DEF Offered
<1>2. y \in DOMAIN two[t]
  BY <1>1 DEF Offered
<1>3. PICK x2 \in Positions(list) :
        /\ x2[1] = t /\ PlaceAt(list, x2) = y /\ KeyAt(list, x2) \in keys /\ two[t][y] = KeyAt(list, x2)
        /\ \A z \in Positions(list) : z[1] = t /\ PlaceAt(list, z) = y /\ KeyAt(list, z) \in keys => z[2] <= x2[2]
  BY <1>2 DEF Offered
<1>4. x[2] = x2[2]
  <2>1. x[2] <= x2[2] /\ x2[2] <= x[2]
    BY <1>1, <1>3
  <2>2. x[2] \in Nat /\ x2[2] \in Nat
    BY DEF Positions
  <2> QED
    BY <2>1, <2>2
<1>5. MeantAt(list, x) = MeantAt(list, x2)
  BY <1>1, <1>3, <1>4 DEF MeantAt, EntryAt
<1>6. Platforms[x[3]] = Platforms[x2[3]]
  BY <1>1, <1>3 DEF PlaceAt
<1>7. KeyAt(list, x) = KeyAt(list, x2)
  BY <1>5, <1>6 DEF KeyAt
<1> QED
  BY <1>1, <1>2, <1>3, <1>7

\* What an evaluation of the same tags pools and offers at its end is what the last one did.
LEMMA RepeatDeclares ==
  ASSUME IInv, TypeInv, PositionInv, HubsInv, PassedInv, DeclaredInv, LastInv, RepeatInv, Repeating,
         pc = "tag", tag = Len(tags.deps)
  PROVE  toolchains = last.toolchains /\ pool = last.pool /\ hubs = last.hubs
<1>1. Passed = Positions(tags)
  BY DEF Passed, Positions, PositionInv
<1>2. pool = last.pool
  <2>1. DOMAIN pool = DOMAIN last.pool
    <3>1. \A k \in DOMAIN last.pool : \E x \in Passed : KeyAt(tags, x) = k
      BY <1>1 DEF LastInv, Repeating, Accounted
    <3> QED
      BY <3>1 DEF RepeatInv, Repeating
  <2>2. ASSUME NEW k \in DOMAIN pool PROVE pool[k] = last.pool[k]
    <3>1. k \in DOMAIN facts.archive /\ facts.archive[k] = {last.pool[k]}
      BY <2>1, FoundIsPooled DEF Repeating
    <3>2. facts.archive[k] \in {Failed, {pool[k]}}
      BY <3>1 DEF IInv, ProductInv, PoolInv
    <3> QED
      BY <3>1, <3>2 DEF Failed
  <2>3. pool \in [DOMAIN pool -> Sum] /\ last.pool \in [DOMAIN last.pool -> Sum]
    BY DEF TypeInv, MadeInv, LastInv, Repeating
  <2> QED
    BY <2>1, <2>2, <2>3
<1>3. hubs = last.hubs
  <2>1. /\ hubs \in Seq(Hub) /\ last.hubs \in Seq(Hub) /\ Len(hubs) = Len(last.hubs)
        /\ Offered(tags, Positions(tags), DOMAIN pool, hubs)
        /\ Offered(tags, Positions(tags), DOMAIN pool, last.hubs)
    BY <1>1, <1>2 DEF HubsInv, LastInv, Repeating, PassedInv
  <2>2. ASSUME NEW t \in 1..Len(hubs) PROVE hubs[t] = last.hubs[t]
    <3>1. DOMAIN hubs[t] = DOMAIN last.hubs[t] /\ \A y \in DOMAIN hubs[t] : hubs[t][y] = last.hubs[t][y]
      <4>1. DOMAIN hubs[t] \subseteq DOMAIN last.hubs[t] /\ \A y \in DOMAIN hubs[t] : hubs[t][y] = last.hubs[t][y]
        BY <2>1, OfferedOnce
      <4>2. DOMAIN last.hubs[t] \subseteq DOMAIN hubs[t]
        BY <2>1, OfferedOnce
      <4> QED
        BY <4>1, <4>2
    <3>2. hubs[t] \in Hub /\ last.hubs[t] \in Hub
      BY <2>1
    <3> QED
      BY <3>1, <3>2 DEF Hub
  <2> QED
    BY <2>1, <2>2
<1>4. toolchains = last.toolchains
  <2>1. Engine(tags, newFacts, toolchains) /\ Engine(tags, facts, last.toolchains)
    BY DEF DeclaredInv, Declaring, LastInv, Repeating
  <2>2. Table(tags, newFacts) = Table(tags, facts)
    BY <2>1 DEF Engine, Table, IInv, ProductInv, ChecksumsInv
  <2> QED
    BY <2>1, <2>2 DEF Engine
<1> QED
  BY <1>2, <1>3, <1>4

\* No lookup of an evaluation of the same tags fails.
LEMMA RepeatSucceeds ==
  ASSUME IInv, TypeInv, PositionInv, EntryInv, LastInv, RepeatInv, Repeating
  PROVE  ~Fail
<1>1. ~(pc = "toolchain" /\ (~OneRelease \/ checksums = {}))
  BY RepeatEngine
<1>2. ~(Trying /\ _cached_archive = {} /\ answer = {} /\ _recall("platforms", release) = {} /\ published[release] = {})
  <2> SUFFICES ASSUME Trying, _cached_archive = {}, _recall("platforms", release) = {} PROVE FALSE
    OBVIOUS
  <2>1. Key \notin DOMAIN last.pool
    <3>1. Key \in Found => facts.archive[Key] # {}
      BY DEF Found, Failed
    <3> QED
      BY <3>1, CachedIs, FoundIsPooled DEF Repeating
  <2>2. release \in DOMAIN facts.platforms
    BY <2>1, RepeatHere
  <2> QED
    BY <2>2 DEF _recall
<1>3. ~(Looking /\ \A sum \in _lookup_archive : ~_check_against_lock(sum))
  <2> SUFFICES ASSUME Looking PROVE \E sum \in _lookup_archive : _check_against_lock(sum)
    OBVIOUS
  <2>1. Key \in DOMAIN last.pool /\ _cached_archive = {last.pool[Key]}
    BY RepeatCached
  <2>2. _lookup_archive = {last.pool[Key]}
    BY <2>1 DEF _lookup_archive
  <2>3. _check_against_lock(last.pool[Key])
    BY <2>1, RepeatHere DEF Looking
  <2> QED
    BY <2>2, <2>3
<1>4. ~(pc = "provider" /\ platform = Len(Platforms) + 1 /\ ~some)
  <2> SUFFICES ASSUME pc = "provider", platform = Len(Platforms) + 1 PROVE some
    OBVIOUS
  <2> DEFINE x == <<tag, at, 1>>
  <2>1. Len(Platforms) \in Nat \ {0} /\ platform \in Nat
    BY InputsAssumption DEF PositionInv
  <2>2. x \in Positions(tags) /\ x[1] = tag /\ x[2] = at
    BY <2>1 DEF Positions, PositionInv
  <2> HIDE DEF x
  <2>3. PICK y \in Positions(tags) : y[1] = tag /\ y[2] = at /\ KeyAt(tags, y) \in DOMAIN last.pool
    BY <2>2 DEF LastInv, Repeating, Filled
  <2>4. y \in Passed
    <3>1. y[3] \in 1..Len(Platforms)
      BY DEF Positions
    <3>2. y[3] < platform
      BY <2>1, <3>1
    <3> QED
      BY <2>3, <3>2 DEF Passed
  <2>5. KeyAt(tags, y) \in DOMAIN pool
    BY <2>3, <2>4 DEF RepeatInv, Repeating
  <2>6. Filled(tags, Passed, DOMAIN pool, Here)
    BY <2>3, <2>4, <2>5 DEF Filled, Here
  <2> QED
    BY <2>6 DEF EntryInv
<1> QED
  BY <1>1, <1>2, <1>3, <1>4 DEF Fail

-------------------------------------------------------------------------------
AllFollows == PassedInv /\ EntryInv /\ DeclaredInv /\ LastInv /\ RepeatInv

LEMMA AllFollowsInit == Init => AllFollows
<1> SUFFICES ASSUME Init PROVE AllFollows
  OBVIOUS
<1>1. /\ pc = "idle" /\ tag = 0 /\ pool = <<>> /\ hubs = <<>> /\ asked = FALSE
      /\ last.made = FALSE /\ last.hubs = <<>>
  BY DEF Init
<1>2. Passed = {}
  BY <1>1, NothingPassed
<1>3. PassedInv
  BY <1>1, <1>2 DEF PassedInv, Accounted, Offered
<1>4. EntryInv /\ DeclaredInv /\ LastInv /\ RepeatInv
  BY <1>1 DEF EntryInv, DeclaredInv, Declaring, LastInv, RepeatInv
<1> QED
  BY <1>3, <1>4 DEF AllFollows

LEMMA FollowsAlways == Spec => [](AllInv /\ AllFollows)
<1>1. AllInv /\ AllFollows /\ [Next]_vars => AllFollows'
  BY PassedStep, EntryStep, DeclaredStep, LastStep, RepeatStep DEF AllInv, AllFollows
<1> QED
  BY <1>1, AllFollowsInit, Invariants, PTL DEF Spec

\* A platform is missing from a hub only where the registry's own list, recorded
\* beside the archives, leaves it out (Omit, _published_platforms, Finish).
THEOREM OmittedSafety == Spec => []OmittedOnTheRegistrysWord
<1>1. AllFollows => OmittedOnTheRegistrysWord
  BY LastOmits DEF AllFollows
<1> QED
  BY <1>1, FollowsAlways, PTL

\* An evaluation of the tags of the last one that succeeded asks nothing, cannot
\* fail and declares the same again, whatever happened upstream in between.
THEOREM RepeatSafety == Spec => RepeatIsLocal
<1> DEFINE Local ==
      last.made /\ tags = last.tags /\ ~Resting =>
        /\ ~asked' /\ pc' # "failed"
        /\ pc' = "done" => last'.toolchains = last.toolchains /\ last'.pool = last.pool /\ last'.hubs = last.hubs
<1>1. ASSUME AllInv, AllFollows, RepeatInv', [Next]_vars, Repeating, ~Resting
      PROVE  /\ ~asked' /\ pc' # "failed"
             /\ pc' = "done" =>
                  last'.toolchains = last.toolchains /\ last'.pool = last.pool /\ last'.hubs = last.hubs
  <2>1. ~Fail
    BY <1>1, RepeatSucceeds DEF AllInv, AllFollows
  <2>2. CASE Finish
    <3>1. toolchains = last.toolchains /\ pool = last.pool /\ hubs = last.hubs
      BY <1>1, <2>2, RepeatDeclares DEF AllInv, AllFollows, Finish
    <3>2. /\ last'.toolchains = toolchains /\ last'.pool = pool /\ last'.hubs = hubs
          /\ pc' = "done" /\ ~asked'
      BY <2>2 DEF Finish, Blank
    <3> QED
      BY <3>1, <3>2
  <2>3. CASE Interrupt
    BY <2>3 DEF Interrupt, Blank
  <2>4. CASE UNCHANGED <<last, tags>> /\ pc' \notin {"failed", "done"}
    BY <1>1, <2>4 DEF RepeatInv, Repeating
  <2>5. Finish \/ Interrupt \/ UNCHANGED <<last, tags>>
    BY <1>1, <2>1 DEF Next, vars, PublishFor, ServeAnother, Relist, MayMove, Evaluate, declare_toolchains, StartTag,
       NextProvider, LockDone, _published_platforms, Omit, Resolve, ProviderDone, Over, recorded
  <2>6. Finish \/ Interrupt \/ pc' = pc \/ pc' \in {"tag", "lock", "provider"}
    BY <1>1, <2>1 DEF Next, vars, PublishFor, ServeAnother, Relist, MayMove, Evaluate, declare_toolchains, StartTag,
       NextProvider, LockDone, _published_platforms, Omit, Resolve, ProviderDone, Over
  <2>7. Finish \/ Interrupt \/ (UNCHANGED <<last, tags>> /\ pc' \notin {"failed", "done"})
    BY <1>1, <2>5, <2>6 DEF Resting
  <2> QED
    BY <2>2, <2>3, <2>4, <2>7
<1>2. AllInv /\ AllFollows /\ (AllInv /\ AllFollows)' /\ [Next]_vars => [Local]_vars
  BY <1>1 DEF AllFollows, Repeating
<1> QED
  BY <1>2, FollowsAlways, PTL DEF Spec, RepeatIsLocal
===============================================================================
