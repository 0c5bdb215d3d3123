------------------------ MODULE ModuleResolutionProofs ------------------------
(***************************************************************************)
(* Proofs about ModuleResolution, for all registries, remotes, graphs of    *)
(* modules, lists of tags, worlds and bounds.                               *)
(***************************************************************************)
EXTENDS ModuleResolution, FiniteSetTheorems, WellFoundedInduction, TLAPS

-------------------------------------------------------------------------------
(***************************************************************************)
(* Unseen: the fold over the references of a module                         *)
(***************************************************************************)

\* A set of numbers has a least element; so what holds of 0 and is handed on
\* holds of every number.
LEMMA Least ==
  ASSUME NEW S \in SUBSET Nat, S # {}
  PROVE  \E m \in S : \A n \in S : m <= n
<1> DEFINE smaller == {pair \in Nat \X Nat : pair[1] < pair[2]}
<1>1. IsWellFoundedOn(smaller, Nat)
  BY NatLessThanWellFounded, Zenon DEF OpToRel
<1>2. PICK m \in S : \A n \in S : <<n, m>> \notin smaller
  BY <1>1, WFMin
<1>3. \A n \in S : ~(n < m)
  BY <1>2
<1> QED
  BY <1>3

LEMMA Upwards ==
  ASSUME NEW S \in SUBSET Nat, 0 \in S, \A n \in Nat : n \in S => n + 1 \in S
  PROVE  Nat \subseteq S
<1> SUFFICES ASSUME Nat \ S # {} PROVE FALSE
  OBVIOUS
<1>1. PICK m \in Nat \ S : \A n \in Nat \ S : m <= n
  BY Least
<1>2. m # 0 /\ m - 1 \in Nat /\ m - 1 \notin Nat \ S
  BY <1>1
<1> QED
  BY <1>2

\* One step of the fold, and what the fold makes of each set of positions.
Grown(list, seen, r) == IF r \in seen \cup ToSet(list) THEN list ELSE Append(list, r)

IsFold(f, refs, seen, n) ==
  f = [s \in SUBSET (1..n) |-> IF s = {} THEN <<>> ELSE Grown(f[s \ {Max(s)}], seen, refs[Max(s)])]

LEMMA MaxOfInterval ==
  ASSUME NEW n \in Nat, NEW s \in SUBSET (1..(n + 1)), n + 1 \in s
  PROVE  Max(s) = n + 1 /\ s \ {Max(s)} \in SUBSET (1..n)
<1>1. \A y \in s : n + 1 >= y
  OBVIOUS
<1>2. \A x \in s : (\A y \in s : x >= y) => x = n + 1
  OBVIOUS
<1>3. Max(s) = n + 1
  BY <1>1, <1>2 DEF Max
<1> QED
  BY <1>3

LEMMA FoldExists ==
  ASSUME NEW refs, NEW seen, NEW n \in Nat
  PROVE  \E f : IsFold(f, refs, seen, n)
<1> DEFINE Done == {i \in Nat : \E f : IsFold(f, refs, seen, i)}
<1>1. 0 \in Done
  <2>1. SUBSET (1..0) = {{}}
    OBVIOUS
  <2>2. IsFold([s \in SUBSET (1..0) |-> <<>>], refs, seen, 0)
    BY <2>1 DEF IsFold
  <2> QED
    BY <2>2
<1>2. ASSUME NEW i \in Nat, i \in Done PROVE i + 1 \in Done
  <2>1. PICK f : IsFold(f, refs, seen, i)
    BY <1>2
  <2> DEFINE g == [s \in SUBSET (1..(i + 1)) |->
                     IF i + 1 \in s THEN Grown(f[s \ {i + 1}], seen, refs[i + 1]) ELSE f[s]]
             h == [s \in SUBSET (1..(i + 1)) |->
                     IF s = {} THEN <<>> ELSE Grown(g[s \ {Max(s)}], seen, refs[Max(s)])]
  <2>2. ASSUME NEW s \in SUBSET (1..(i + 1)) PROVE g[s] = h[s]
    <3>1. CASE i + 1 \in s
      <4>1. Max(s) = i + 1 /\ s \ {i + 1} \in SUBSET (1..i)
        BY <3>1, MaxOfInterval
      <4>2. s \ {i + 1} \in SUBSET (1..(i + 1)) /\ i + 1 \notin s \ {i + 1}
        OBVIOUS
      <4>3. g[s \ {i + 1}] = f[s \ {i + 1}]
        BY <4>2
      <4> QED
        BY <3>1, <4>1, <4>3
    <3>2. CASE i + 1 \notin s
      <4>1. s \in SUBSET (1..i)
        BY <3>2
      <4>2. f[s] = IF s = {} THEN <<>> ELSE Grown(f[s \ {Max(s)}], seen, refs[Max(s)])
        BY <2>1, <4>1 DEF IsFold
      <4>3. s \ {Max(s)} \in SUBSET (1..(i + 1)) /\ i + 1 \notin s \ {Max(s)}
        BY <4>1, <3>2
      <4>4. g[s \ {Max(s)}] = f[s \ {Max(s)}]
        BY <4>3
      <4> QED
        BY <3>2, <4>2, <4>4
    <3> QED
      BY <3>1, <3>2
  <2>3. g = h
    BY <2>2
  <2>4. IsFold(g, refs, seen, i + 1)
    BY <2>3 DEF IsFold
  <2> QED
    BY <2>4
<1> HIDE DEF Done
<1>3. Nat \subseteq Done
  BY <1>1, <1>2, Upwards DEF Done
<1> QED
  BY <1>3 DEF Done

LEMMA ToSetAppend ==
  ASSUME NEW S, NEW list \in Seq(S), NEW r \in S
  PROVE  ToSet(Append(list, r)) = ToSet(list) \cup {r}
<1> DEFINE more == Append(list, r)
<1>1. /\ DOMAIN list = 1..Len(list) /\ DOMAIN more = 1..(Len(list) + 1) /\ Len(list) \in Nat
      /\ more[Len(list) + 1] = r /\ \A i \in 1..Len(list) : more[i] = list[i]
  OBVIOUS
<1> HIDE DEF more
<1>2. 1..(Len(list) + 1) = (1..Len(list)) \cup {Len(list) + 1}
  BY <1>1
<1> QED
  BY <1>1, <1>2 DEF ToSet, more

\* What is left of a module's references once those seen are dropped: each of
\* the others, once.
LEMMA UnseenOnce ==
  ASSUME NEW S, NEW refs \in Seq(S), NEW seen
  PROVE  /\ Unseen(refs, seen) \in Seq(S)
         /\ ToSet(Unseen(refs, seen)) = ToSet(refs) \ seen
         /\ IsFiniteSet(ToSet(refs) \ seen)
         /\ Cardinality(ToSet(refs) \ seen) = Len(Unseen(refs, seen))
<1> DEFINE f == CHOOSE g : IsFold(g, refs, seen, Len(refs))
           Before(i) == {refs[j] : j \in 1..i} \ seen
           Good == {i \in Nat : i <= Len(refs) =>
                      /\ f[1..i] \in Seq(S) /\ ToSet(f[1..i]) = Before(i)
                      /\ IsFiniteSet(Before(i)) /\ Cardinality(Before(i)) = Len(f[1..i])}
<1>1. Len(refs) \in Nat /\ DOMAIN refs = 1..Len(refs) /\ \A i \in 1..Len(refs) : refs[i] \in S
  OBVIOUS
<1>2. IsFold(f, refs, seen, Len(refs))
  BY <1>1, FoldExists
<1>3. Unseen(refs, seen) = f[1..Len(refs)]
  BY <1>1 DEF Unseen, IsFold, Grown, FoldLeft, MapThenFoldSet
<1> HIDE DEF f
<1>4. 0 \in Good
  <2>1. 1..0 = {}
    OBVIOUS
  <2>2. f[1..0] = <<>>
    BY <1>1, <1>2, <2>1 DEF IsFold
  <2>3. Before(0) = {} /\ ToSet(<<>>) = {}
    BY <2>1 DEF ToSet
  <2>4. <<>> \in Seq(S) /\ Len(<<>>) = 0 /\ IsFiniteSet({}) /\ Cardinality({}) = 0
    BY FS_EmptySet
  <2>5. /\ f[1..0] \in Seq(S) /\ ToSet(f[1..0]) = Before(0)
        /\ IsFiniteSet(Before(0)) /\ Cardinality(Before(0)) = Len(f[1..0])
    BY <2>2, <2>3, <2>4
  <2> QED
    BY <2>5
<1>5. ASSUME NEW i \in Nat, i \in Good PROVE i + 1 \in Good
  <2> SUFFICES ASSUME i + 1 <= Len(refs)
               PROVE  /\ f[1..(i + 1)] \in Seq(S) /\ ToSet(f[1..(i + 1)]) = Before(i + 1)
                      /\ IsFiniteSet(Before(i + 1)) /\ Cardinality(Before(i + 1)) = Len(f[1..(i + 1)])
    OBVIOUS
  <2> DEFINE list == f[1..i]
             r == refs[i + 1]
  <2>1. /\ list \in Seq(S) /\ ToSet(list) = Before(i)
        /\ IsFiniteSet(Before(i)) /\ Cardinality(Before(i)) = Len(list)
    <3>1. i <= Len(refs)
      BY <1>1
    <3> QED
      BY <1>5, <3>1
  <2>2. f[1..(i + 1)] = Grown(list, seen, r)
    <3>1. 1..(i + 1) \in SUBSET (1..Len(refs)) /\ 1..(i + 1) # {}
      BY <1>1
    <3>2. Max(1..(i + 1)) = i + 1
      <4>1. 1..(i + 1) \in SUBSET (1..(i + 1)) /\ i + 1 \in 1..(i + 1)
        OBVIOUS
      <4> QED
        BY <4>1, MaxOfInterval
    <3>3. (1..(i + 1)) \ {i + 1} = 1..i
      OBVIOUS
    <3> QED
      BY <1>2, <3>1, <3>2, <3>3 DEF IsFold
  <2>3. r \in S /\ Before(i + 1) = Before(i) \cup ({r} \ seen)
    BY <1>1
  <2> HIDE DEF list, r, Before
  <2>4. CASE r \in seen \cup ToSet(list)
    BY <2>1, <2>2, <2>3, <2>4 DEF Grown
  <2>5. CASE r \notin seen \cup ToSet(list)
    <3>1. f[1..(i + 1)] = Append(list, r)
      BY <2>2, <2>5 DEF Grown
    <3>2. Append(list, r) \in Seq(S) /\ Len(Append(list, r)) = Len(list) + 1
      BY <2>1, <2>3
    <3>3. ToSet(Append(list, r)) = ToSet(list) \cup {r}
      BY <2>1, <2>3, ToSetAppend
    <3>4. Before(i + 1) = Before(i) \cup {r} /\ r \notin Before(i)
      BY <2>1, <2>3, <2>5
    <3>5. IsFiniteSet(Before(i) \cup {r}) /\ Cardinality(Before(i) \cup {r}) = Cardinality(Before(i)) + 1
      BY <2>1, <3>4, FS_AddElement
    <3> QED
      BY <2>1, <3>1, <3>2, <3>3, <3>4, <3>5
  <2> QED
    BY <2>4, <2>5
<1>6. Len(refs) \in Good
  <2> HIDE DEF Good
  <2>1. Nat \subseteq Good
    BY <1>4, <1>5, Upwards DEF Good
  <2> QED
    BY <1>1, <2>1
<1>7. Before(Len(refs)) = ToSet(refs) \ seen
  BY <1>1 DEF ToSet
<1>8. /\ f[1..Len(refs)] \in Seq(S) /\ ToSet(f[1..Len(refs)]) = Before(Len(refs))
      /\ IsFiniteSet(Before(Len(refs))) /\ Cardinality(Before(Len(refs))) = Len(f[1..Len(refs)])
  BY <1>1, <1>6
<1> QED
  BY <1>3, <1>7, <1>8

-------------------------------------------------------------------------------
(***************************************************************************)
(* Types                                                                    *)
(***************************************************************************)
Pin == [source : Source, version : Version \cup {0}, tag : BOOLEAN]
Unpacked == [from : Registry \cup Remote, source : Source, version : Version]
Fact == [archive : Unpacked, deps : Seq(Ref), full : {TRUE}, pin : Pin]
Entry == [from : Registry \cup Remote, source : Source, version : Version \cup {0}, tag : BOOLEAN]
Pooled == [archive : Unpacked, subs : SUBSET Sub]
Member == [entry : Entry, sub : Sub]
Graph == [Source \X Version \X Sub -> Seq(Ref)]
Heads == [Remote \X {"tag", "branch"} -> Version]

\* The references that facts and `resolved` are keyed by.
Key == {k \in Ref : ~k.versioned /\ k.kind # "range"}

\* A pin is of a version, or of a tag that a remote has.
Real(pin) == pin \in Pin /\ IF pin.tag THEN pin.source \in Remote ELSE pin.version \in Version

\* The archive that a pin stands for, of which tags are where `h` has them.
Made(h, pin, reg) ==
  Archive(IF pin.source \in Remote THEN pin.source ELSE reg, pin.source,
          IF pin.tag THEN h[<<pin.source, "tag">>] ELSE pin.version)

\* A fact is about its key, and its archive is the one its pin stands for.
Fits(h, g, k, f) ==
  /\ f \in Fact /\ Real(f.pin) /\ f.pin.source = k.source
  /\ f.archive = Made(h, f.pin, f.archive.from)
  /\ k.kind \in {"exact", "commit"} => f.pin.tag = FALSE /\ k.want = {f.pin.version}
  /\ f.deps = g[<<f.archive.source, f.archive.version, k.sub>>]

PinOf(e) == [source |-> e.source, version |-> e.version, tag |-> e.tag]

\* So is a pooled archive the one its name stands for.
IsStock(h, p) ==
  \A e \in DOMAIN p :
    /\ e \in Entry /\ p[e] \in Pooled /\ p[e].subs # {}
    /\ Real(PinOf(e)) /\ p[e].archive = Made(h, PinOf(e), p[e].archive.from)

AreFacts(h, g, F) ==
  /\ \A k \in DOMAIN F.module : F.module[k].full => Fits(h, g, k, F.module[k])
  /\ \A k \in DOMAIN F.version : F.version[k] \in k.want

WorldInv ==
  /\ graph \in Graph /\ head \in Heads
  /\ published \in [Registry \X RegistrySource -> SUBSET Version]
  /\ moves \in Nat /\ since \in Nat /\ since <= moves

RecordedInv ==
  /\ AreFacts(head, graph, facts) /\ IsStock(head, last.pool)
  /\ last.tags \in Seq(DepsTag) /\ last.members \in Seq(SUBSET Member)
  /\ Len(last.members) = Len(last.tags)

WorkInv ==
  /\ pc \in {"idle", "tag", "work", "done", "failed"}
  /\ tags \in Seq(DepsTag) /\ tag \in 0..Len(tags) /\ (pc = "work" => tag # 0)
  /\ members \in Seq(SUBSET Member) /\ Len(members) = tag
  /\ queued \subseteq Ref /\ pending \in Seq(Ref) /\ ToSet(pending) \subseteq queued
  /\ resolved \subseteq Key /\ pops \in 0..Limit
  /\ \A w \in DOMAIN archives : Real(w) /\ archives[w] = Made(head, w, registry)

ProductInv ==
  /\ DOMAIN newFacts = {"module", "version"}
  /\ DOMAIN newFacts.module \subseteq Key
  /\ \A k \in DOMAIN newFacts.module : newFacts.module[k].full
  /\ AreFacts(head, graph, newFacts) /\ IsStock(head, pool)

TypeInv == WorldInv /\ RecordedInv /\ WorkInv /\ ProductInv

LEMMA TypeInvImplies == TypeInv => TypeOK
<1> SUFFICES ASSUME TypeInv PROVE TypeOK
  OBVIOUS
<1>1. IsPool(pool) /\ IsPool(last.pool)
  BY DEF TypeInv, RecordedInv, ProductInv, IsStock, IsPool, Pooled, Unpacked
<1>2. DOMAIN newFacts.module \subseteq Ref /\ resolved \subseteq Ref
  BY DEF TypeInv, ProductInv, WorkInv, Key
<1> QED
  BY <1>1, <1>2 DEF TypeInv, WorkInv, ProductInv, TypeOK

LEMMA TypeInvInit == Init => TypeInv
<1> SUFFICES ASSUME Init PROVE TypeInv
  OBVIOUS
<1>1. PICK w \in Worlds : published = w.published /\ head = w.head /\ facts = w.facts
  BY DEF Init
<1>2. WorldInv
  <2>1. graph \in Graph
    BY InputsAssumption DEF Init, Graph
  <2>2. head \in Heads /\ published \in [Registry \X RegistrySource -> SUBSET Version]
    BY <1>1, InputsAssumption DEF Heads
  <2> QED
    BY <2>1, <2>2 DEF Init, WorldInv
<1>3. AreFacts(head, graph, facts)
  BY <1>1, InputsAssumption DEF AreFacts
<1>4. IsStock(head, <<>>)
  BY DEF IsStock
<1>5. RecordedInv
  BY <1>3, <1>4 DEF Init, RecordedInv
<1>6. WorkInv
  <2>1. ToSet(<<>>) = {}
    BY DEF ToSet
  <2> QED
    BY <2>1, InputsAssumption DEF Init, WorkInv
<1>7. ProductInv
  <2>1. DOMAIN NoFacts = {"module", "version"} /\ NoFacts.module = <<>> /\ NoFacts.version = <<>>
    BY DEF NoFacts
  <2> QED
    BY <1>4, <2>1 DEF Init, ProductInv, AreFacts
<1> QED
  BY <1>2, <1>5, <1>6, <1>7 DEF TypeInv

-------------------------------------------------------------------------------
(***************************************************************************)
(* Upstream moves no tag, and a module's text never changes                 *)
(***************************************************************************)
SameTags(h, i) == \A r \in Remote : i[<<r, "tag">>] = h[<<r, "tag">>]

LEMMA MadeStays ==
  ASSUME NEW h, NEW i, SameTags(h, i), NEW pin, Real(pin), NEW reg
  PROVE  Made(i, pin, reg) = Made(h, pin, reg)
BY DEF SameTags, Made, Real

LEMMA FitsStays ==
  ASSUME NEW h, NEW i, SameTags(h, i), NEW g, NEW k, NEW f, Fits(h, g, k, f)
  PROVE  Fits(i, g, k, f)
BY MadeStays DEF Fits

LEMMA StockStays ==
  ASSUME NEW h, NEW i, SameTags(h, i), NEW p, IsStock(h, p)
  PROVE  IsStock(i, p)
BY MadeStays DEF IsStock

LEMMA FactsStay ==
  ASSUME NEW h, NEW i, SameTags(h, i), NEW g, NEW F, AreFacts(h, g, F)
  PROVE  AreFacts(i, g, F)
BY FitsStays DEF AreFacts

LEMMA WorldStep ==
  ASSUME WorldInv, [Next]_vars
  PROVE  WorldInv' /\ SameTags(head, head') /\ graph' = graph
<1>1. CASE UNCHANGED <<world, since>>
  BY <1>1 DEF WorldInv, world, SameTags
<1>2. ASSUME NEW reg \in Registry, NEW s \in RegistrySource, NEW v \in Version, Publish(reg, s, v) \/ Withdraw(reg, s, v)
      PROVE  WorldInv' /\ SameTags(head, head') /\ graph' = graph
  <2>1. published' \in [Registry \X RegistrySource -> SUBSET Version]
    BY <1>2 DEF WorldInv, Publish, Withdraw
  <2> QED
    BY <1>2, <2>1 DEF WorldInv, Publish, Withdraw, MayMove, SameTags, evaluation
<1>3. ASSUME NEW r \in Remote, NEW c \in Version, MoveBranch(r, c)
      PROVE  WorldInv' /\ SameTags(head, head') /\ graph' = graph
  <2>1. head' = [head EXCEPT ![<<r, "branch">>] = c] /\ head \in Heads
    BY <1>3 DEF WorldInv, MoveBranch
  <2>2. head' \in Heads
    BY <2>1 DEF Heads
  <2>3. SameTags(head, head')
    BY <2>1 DEF SameTags, Heads
  <2> QED
    BY <1>3, <2>2, <2>3 DEF WorldInv, MoveBranch, MayMove, evaluation
<1>4. ASSUME NEW list \in TagLists, NEW up \in BOOLEAN, Evaluate(list, up)
      PROVE  WorldInv' /\ SameTags(head, head') /\ graph' = graph
  BY <1>4 DEF WorldInv, Evaluate, world, SameTags
<1>5. \/ UNCHANGED <<world, since>>
      \/ \E reg \in Registry, s \in RegistrySource, v \in Version : Publish(reg, s, v) \/ Withdraw(reg, s, v)
      \/ \E r \in Remote, c \in Version : MoveBranch(r, c)
      \/ \E list \in TagLists, up \in BOOLEAN : Evaluate(list, up)
  BY DEF Next, vars, StartTag, FinishTag, Finish, ResolveRegistry, ResolveGit, Pop, Fail, Interrupt, Over, evaluation, world
<1> QED
  BY <1>1, <1>2, <1>3, <1>4, <1>5

-------------------------------------------------------------------------------
(***************************************************************************)
(* What is looked up for a key, and what comes back                         *)
(***************************************************************************)
What(k) == IF isGit(k) THEN _git_pin(k) ELSE Versioned(k.source, CHOOSE v \in k.want : TRUE)

LEMMA VersionedPin ==
  ASSUME NEW s \in Source, NEW v \in Version
  PROVE  /\ Real(Versioned(s, v)) /\ Versioned(s, v).tag = FALSE
         /\ Versioned(s, v).source = s /\ Versioned(s, v).version = v
BY DEF Versioned, Real, Pin

LEMMA TaggedPin ==
  ASSUME NEW s \in Remote
  PROVE  Real(Tagged(s)) /\ Tagged(s).tag = TRUE /\ Tagged(s).source = s
BY DEF Tagged, Real, Pin, Source

LEMMA WhatIsReal ==
  ASSUME WorldInv, NEW k \in Key
  PROVE  /\ Real(What(k)) /\ What(k).source = k.source
         /\ k.kind \in {"exact", "commit"} => What(k).tag = FALSE /\ k.want = {What(k).version}
         /\ k.kind = "exact" => What(k) = Versioned(k.source, What(k).version)
<1>1. /\ k.source \in Source /\ k.kind \in {"exact", "commit", "tag", "branch"}
      /\ isGit(k) <=> k.source \in Remote
      /\ isGit(k) <=> k.kind \in {"commit", "tag", "branch"}
  BY DEF Key, Ref, Kind, isGit
<1>2. ASSUME k.kind \in {"exact", "commit"}
      PROVE  \E v \in Version : What(k) = Versioned(k.source, v) /\ k.want = {v}
  <2>1. PICK v \in Version : k.want = {v}
    BY <1>2 DEF Key, Ref
  <2>2. (CHOOSE c \in k.want : TRUE) = v
    BY <2>1
  <2> QED
    BY <1>1, <1>2, <2>1, <2>2 DEF What, _git_pin
<1>3. CASE k.kind \in {"exact", "commit"}
  <2>1. PICK v \in Version : What(k) = Versioned(k.source, v) /\ k.want = {v}
    BY <1>2, <1>3
  <2>2. /\ Real(Versioned(k.source, v)) /\ Versioned(k.source, v).tag = FALSE
        /\ Versioned(k.source, v).source = k.source /\ Versioned(k.source, v).version = v
    BY <1>1, VersionedPin
  <2> QED
    BY <2>1, <2>2
<1>4. CASE k.kind = "tag"
  BY <1>1, <1>4, TaggedPin DEF What, _git_pin
<1>5. CASE k.kind = "branch"
  <2>1. head[<<k.source, "branch">>] \in Version
    BY <1>1, <1>5 DEF WorldInv, Heads
  <2> QED
    BY <1>1, <1>5, <2>1, VersionedPin DEF What, _git_pin
<1> QED
  BY <1>1, <1>3, <1>4, <1>5

LEMMA MadeIsUnpacked ==
  ASSUME NEW h \in Heads, NEW pin, Real(pin), NEW reg \in Registry
  PROVE  /\ Made(h, pin, reg) \in Unpacked
         /\ Made(h, pin, reg).source = pin.source
         /\ Made(h, pin, reg).from = IF pin.source \in Remote THEN pin.source ELSE reg
         /\ pin.tag = FALSE => Made(h, pin, reg).version = pin.version
         /\ pin.tag = TRUE => Made(h, pin, reg).version = h[<<pin.source, "tag">>]
<1>1. /\ pin.source \in Source /\ pin.tag \in BOOLEAN
      /\ pin.tag = TRUE => h[<<pin.source, "tag">>] \in Version
      /\ pin.tag = FALSE => pin.version \in Version
  BY DEF Real, Pin, Heads
<1> QED
  BY <1>1 DEF Made, Archive, Unpacked

LEMMA FetchMakes ==
  ASSUME WorkInv, NEW what, Real(what), NEW a \in _fetch(what)
  PROVE  a = Made(head, what, registry)
<1>1. CASE what \in DOMAIN archives
  BY <1>1 DEF _fetch, WorkInv
<1>2. CASE what \notin DOMAIN archives /\ what.source \in Remote
  BY <1>2 DEF _fetch, Download, Made
<1>3. CASE what \notin DOMAIN archives /\ what.source \notin Remote
  BY <1>3 DEF _fetch, Download, Made, Real, Pin
<1> QED
  BY <1>1, <1>2, <1>3

LEMMA PinnedMakes ==
  ASSUME NEW h \in Heads, NEW what, Real(what), NEW reg \in Registry
  PROVE  LET a == Made(h, what, reg)
         IN /\ Real(Pinned(what, a)) /\ Pinned(what, a).source = what.source
            /\ Made(h, Pinned(what, a), reg) = a
            /\ what.tag = FALSE => Pinned(what, a).tag = FALSE /\ Pinned(what, a).version = what.version
<1> DEFINE a == Made(h, what, reg)
<1>1. /\ a \in Unpacked /\ a.source = what.source
      /\ a.from = IF what.source \in Remote THEN what.source ELSE reg
      /\ what.tag = FALSE => a.version = what.version
  BY MadeIsUnpacked
<1>2. what.source \in Source /\ a.version \in Version
  BY <1>1 DEF Real, Pin, Unpacked
<1>3. ASSUME what.source \in Remote \ GitHub
      PROVE  /\ Real(Pinned(what, a)) /\ Pinned(what, a).source = what.source
             /\ Made(h, Pinned(what, a), reg) = a
             /\ what.tag = FALSE => Pinned(what, a).tag = FALSE /\ Pinned(what, a).version = what.version
  <2>1. Pinned(what, a) = Versioned(what.source, a.version)
    BY <1>3 DEF Pinned
  <2>2. Made(h, Versioned(what.source, a.version), reg) = a
    <3>1. a = Archive(what.source, what.source, a.version)
      BY <1>3 DEF Made, Archive
    <3> QED
      BY <1>3, <3>1 DEF Made, Versioned
  <2> HIDE DEF a
  <2>3. /\ Real(Versioned(what.source, a.version)) /\ Versioned(what.source, a.version).tag = FALSE
        /\ Versioned(what.source, a.version).source = what.source
        /\ Versioned(what.source, a.version).version = a.version
    BY <1>2, VersionedPin
  <2> QED
    BY <1>1, <2>1, <2>2, <2>3
<1>4. ASSUME what.source \notin Remote \ GitHub
      PROVE  Pinned(what, a) = what
  BY <1>4 DEF Pinned
<1> QED
  BY <1>3, <1>4

\* The facts a key may get: the one recorded, or a new one.
Fresh(h, g, what, reg, k) ==
  LET a == Made(h, what, reg)
  IN [archive |-> a, deps |-> g[<<a.source, a.version, k.sub>>], full |-> TRUE, pin |-> Pinned(what, a)]

LEMMA FreshFits ==
  ASSUME NEW h \in Heads, NEW g \in Graph, NEW k \in Key, NEW what, Real(what), NEW reg \in Registry,
         what.source = k.source, k.kind \in {"exact", "commit"} => what.tag = FALSE /\ k.want = {what.version}
  PROVE  Fits(h, g, k, Fresh(h, g, what, reg, k))
<1> DEFINE a == Made(h, what, reg)
           f == Fresh(h, g, what, reg, k)
<1>1. /\ a \in Unpacked /\ a.source = what.source
      /\ what.source \notin Remote => a.from = reg
  <2>1. a \in Unpacked
    BY MadeIsUnpacked
  <2>2. a.source = what.source /\ (what.source \notin Remote => a.from = reg)
    BY DEF Made, Archive
  <2> QED
    BY <2>1, <2>2
<1>2. /\ Real(Pinned(what, a)) /\ Pinned(what, a).source = what.source
      /\ Made(h, Pinned(what, a), reg) = a
      /\ what.tag = FALSE => Pinned(what, a).tag = FALSE /\ Pinned(what, a).version = what.version
  BY PinnedMakes
<1>3. /\ f.archive = a /\ f.deps = g[<<a.source, a.version, k.sub>>] /\ f.full = TRUE /\ f.pin = Pinned(what, a)
      /\ f = [archive |-> a, deps |-> g[<<a.source, a.version, k.sub>>], full |-> TRUE, pin |-> Pinned(what, a)]
  BY DEF Fresh
<1>4. g[<<a.source, a.version, k.sub>>] \in Seq(Ref)
  <2>1. k.sub \in Sub
    BY DEF Key, Ref
  <2> QED
    BY <1>1, <2>1 DEF Graph, Unpacked
<1> HIDE DEF a, f
<1>5. f \in Fact
  BY <1>1, <1>2, <1>3, <1>4 DEF Fact, Real
<1>6. f.archive = Made(h, f.pin, f.archive.from)
  <2>1. CASE what.source \in Remote
    <3>1. Made(h, Pinned(what, a), a.from) = Made(h, Pinned(what, a), reg)
      BY <1>2, <2>1 DEF Made
    <3> QED
      BY <1>2, <1>3, <3>1
  <2>2. CASE what.source \notin Remote
    BY <1>1, <1>2, <1>3, <2>2
  <2> QED
    BY <2>1, <2>2
<1> QED
  BY <1>2, <1>3, <1>5, <1>6 DEF Fits, f

LEMMA FactFits ==
  ASSUME WorldInv, RecordedInv, WorkInv, pc = "work", NEW k \in Key, NEW fact \in ModuleFact(k, What(k))
  PROVE  /\ Fits(head, graph, k, fact)
         /\ FactKnown(k) => fact = facts.module[k]
         /\ ~FactKnown(k) => fact = Fresh(head, graph, What(k), registry, k)
<1>1. /\ Real(What(k)) /\ What(k).source = k.source
      /\ k.kind \in {"exact", "commit"} => What(k).tag = FALSE /\ k.want = {What(k).version}
  BY WhatIsReal
<1>2. registry \in Registry
  <2>1. tag \in 1..Len(tags) /\ tags \in Seq(DepsTag)
    BY DEF WorkInv
  <2>2. tags[tag] \in DepsTag
    BY <2>1
  <2> QED
    BY <2>2 DEF DepsTag, registry
<1>3. CASE FactKnown(k)
  BY <1>3 DEF ModuleFact, FactKnown, RecordedInv, AreFacts
<1>4. CASE ~FactKnown(k)
  <2>1. PICK a \in _fetch(What(k)) :
          fact = [archive |-> a, deps |-> _external_refs(a, k.sub), full |-> TRUE, pin |-> Pinned(What(k), a)]
    BY <1>4 DEF ModuleFact
  <2>2. a = Made(head, What(k), registry)
    BY <1>1, FetchMakes
  <2>3. fact = Fresh(head, graph, What(k), registry, k)
    BY <2>1, <2>2 DEF Fresh, _external_refs
  <2> QED
    BY <1>1, <1>2, <1>4, <2>3, FreshFits DEF WorldInv
<1> QED
  BY <1>3, <1>4

-------------------------------------------------------------------------------
(***************************************************************************)
(* One reference of the worklist                                            *)
(***************************************************************************)

\* The key a reference may turn out to have.
Meets(r, k) ==
  /\ k \in Key /\ k.source = r.source /\ k.sub = r.sub
  /\ IF isGit(r) THEN k = _git_fact_key(r) ELSE k.kind = "exact" /\ \E v \in r.want : k = _fact_key(r, v)

NewFact(k, fact) ==
  /\ fact \in ModuleFact(k, What(k)) /\ Settle(k, What(k), fact)
  /\ newFacts'.module = At(newFacts.module, k, fact)
  /\ asked' => asked \/ Lookup \/ ~FactKnown(k)
  /\ isGit(ref) => ~ref.versioned

Recall(k) == Skip(k) /\ newFacts'.module = newFacts.module /\ (asked' => asked \/ Lookup)

Answer(k) ==
  \/ ref.kind # "range" /\ newFacts'.version = newFacts.version
  \/ \E v \in _resolved_version(ref) :
       /\ ref.kind = "range" /\ k = _fact_key(ref, v)
       /\ newFacts'.version = At(newFacts.version, _resolution_fact_key(ref), v)

\* Both halves of the worklist's loop, as one step about a key.
Takes(k) ==
  /\ Popping /\ Meets(ref, k)
  /\ Recall(k) \/ \E fact : NewFact(k, fact)
  /\ Answer(k) /\ DOMAIN newFacts' = {"module", "version"}
  /\ Pop

LEMMA FactKeyIs ==
  ASSUME NEW r \in Ref, ~isGit(r), NEW v \in r.want
  PROVE  /\ _fact_key(r, v) \in Key /\ _fact_key(r, v).kind = "exact" /\ _fact_key(r, v).want = {v}
         /\ _fact_key(r, v).source = r.source /\ _fact_key(r, v).sub = r.sub
         /\ ~isGit(_fact_key(r, v))
<1>1. /\ r \in [kind : Kind, source : Source, sub : Sub, want : SUBSET Version, versioned : BOOLEAN]
      /\ v \in Version /\ r.source \notin Remote
  BY DEF Ref
<1> DEFINE k == _fact_key(r, v)
<1>2. /\ k.kind = "exact" /\ k.want = {v} /\ k.source = r.source /\ k.sub = r.sub /\ k.versioned = FALSE
      /\ k \in [kind : Kind, source : Source, sub : Sub, want : SUBSET Version, versioned : BOOLEAN]
  BY <1>1 DEF _fact_key, Kind
<1> HIDE DEF k
<1>3. ~isGit(k) /\ k \in Ref
  BY <1>1, <1>2 DEF isGit, Ref
<1>4. k \in Key
  BY <1>2, <1>3 DEF Key
<1> QED
  BY <1>2, <1>3, <1>4 DEF k

LEMMA GitKeyIs ==
  ASSUME NEW r \in Ref, isGit(r)
  PROVE  /\ _git_fact_key(r) \in Key /\ _git_fact_key(r).kind = r.kind /\ _git_fact_key(r).want = r.want
         /\ _git_fact_key(r).source = r.source /\ _git_fact_key(r).sub = r.sub
         /\ isGit(_git_fact_key(r))
<1>1. /\ r \in [kind : Kind, source : Source, sub : Sub, want : SUBSET Version, versioned : BOOLEAN]
      /\ r.source \in Remote /\ r.kind \in {"commit", "tag", "branch"}
      /\ r.kind = "commit" => \E v \in Version : r.want = {v}
      /\ r.kind \in {"tag", "branch"} => r.want = {}
  BY DEF Ref, isGit
<1> DEFINE k == _git_fact_key(r)
<1>2. /\ k.kind = r.kind /\ k.want = r.want /\ k.source = r.source /\ k.sub = r.sub /\ k.versioned = FALSE
      /\ k \in [kind : Kind, source : Source, sub : Sub, want : SUBSET Version, versioned : BOOLEAN]
  BY <1>1 DEF _git_fact_key
<1> HIDE DEF k
<1>3. isGit(k) /\ k \in Ref
  BY <1>1, <1>2 DEF isGit, Ref
<1>4. k \in Key
  BY <1>1, <1>2, <1>3 DEF Key
<1> QED
  BY <1>2, <1>3, <1>4 DEF k

LEMMA WhatOfRef ==
  ASSUME NEW r \in Ref
  PROVE  /\ isGit(r) => What(_git_fact_key(r)) = _git_pin(r)
         /\ ~isGit(r) => \A v \in r.want : What(_fact_key(r, v)) = Versioned(r.source, v)
<1>1. ASSUME isGit(r) PROVE What(_git_fact_key(r)) = _git_pin(r)
  <2> DEFINE k == _git_fact_key(r)
  <2>1. k.kind = r.kind /\ k.want = r.want /\ k.source = r.source /\ isGit(k)
    BY <1>1, GitKeyIs
  <2> HIDE DEF k
  <2>2. _git_pin(k) = _git_pin(r)
    BY <2>1 DEF _git_pin
  <2>3. What(k) = _git_pin(k)
    BY <2>1 DEF What
  <2> QED
    BY <2>2, <2>3 DEF k
<1>2. ASSUME ~isGit(r), NEW v \in r.want PROVE What(_fact_key(r, v)) = Versioned(r.source, v)
  <2> DEFINE k == _fact_key(r, v)
  <2>1. k.want = {v} /\ k.source = r.source /\ ~isGit(k)
    BY <1>2, FactKeyIs
  <2> HIDE DEF k
  <2>2. (CHOOSE w \in k.want : TRUE) = v
    BY <2>1
  <2>3. What(k) = Versioned(r.source, v)
    BY <2>1, <2>2 DEF What
  <2> QED
    BY <2>3 DEF k
<1> QED
  BY <1>1, <1>2

LEMMA Wanted ==
  ASSUME RecordedInv, NEW r \in Ref
  PROVE  _resolved_version(r) \subseteq r.want /\ VersionOf(r) \subseteq r.want
<1>1. ResolutionKnown(r) => facts.version[_resolution_fact_key(r)] \in r.want
  BY DEF ResolutionKnown, _resolution_fact_key, RecordedInv, AreFacts
<1>2. resolve_version(r) \subseteq r.want
  BY DEF resolve_version
<1> QED
  BY <1>1, <1>2 DEF _resolved_version, VersionOf

LEMMA HeadOf ==
  ASSUME NEW S, NEW list \in Seq(S), list # <<>>
  PROVE  /\ Head(list) \in S /\ Tail(list) \in Seq(S) /\ Len(Tail(list)) = Len(list) - 1 /\ Len(list) > 0
         /\ ToSet(list) = {Head(list)} \cup ToSet(Tail(list))
<1> DEFINE rest == Tail(list)
<1>1. /\ rest \in Seq(S) /\ Len(rest) = Len(list) - 1 /\ Len(list) \in Nat \ {0}
      /\ DOMAIN list = 1..Len(list) /\ DOMAIN rest = 1..(Len(list) - 1)
      /\ \A i \in 1..(Len(list) - 1) : rest[i] = list[i + 1]
      /\ list[1] = Head(list) /\ list[1] \in S
  OBVIOUS
<1> HIDE DEF rest
<1>2. \A i \in 1..Len(list) : i = 1 \/ (i - 1 \in 1..(Len(list) - 1) /\ list[i] = rest[i - 1])
  BY <1>1
<1>3. ToSet(list) \subseteq {list[1]} \cup ToSet(rest)
  BY <1>1, <1>2 DEF ToSet
<1>4. list[1] \in ToSet(list)
  BY <1>1 DEF ToSet
<1>5. ToSet(rest) \subseteq ToSet(list)
  <2>1. \A i \in 1..(Len(list) - 1) : i + 1 \in 1..Len(list)
    BY <1>1
  <2> QED
    BY <1>1, <2>1 DEF ToSet
<1> QED
  BY <1>1, <1>3, <1>4, <1>5 DEF rest

LEMMA ToSetConcat ==
  ASSUME NEW S, NEW one \in Seq(S), NEW two \in Seq(S)
  PROVE  one \o two \in Seq(S) /\ Len(one \o two) = Len(one) + Len(two) /\ ToSet(one \o two) = ToSet(one) \cup ToSet(two)
<1> DEFINE both == one \o two
<1>1. /\ both \in Seq(S) /\ Len(both) = Len(one) + Len(two) /\ Len(one) \in Nat /\ Len(two) \in Nat
      /\ DOMAIN one = 1..Len(one) /\ DOMAIN two = 1..Len(two) /\ DOMAIN both = 1..(Len(one) + Len(two))
      /\ \A i \in 1..Len(one) : both[i] = one[i]
      /\ \A i \in 1..Len(two) : both[Len(one) + i] = two[i]
  OBVIOUS
<1> HIDE DEF both
<1>2. \A i \in 1..(Len(one) + Len(two)) : i \in 1..Len(one) \/ (i - Len(one) \in 1..Len(two) /\ both[i] = two[i - Len(one)])
  <2> SUFFICES ASSUME NEW i \in 1..(Len(one) + Len(two)), i \notin 1..Len(one)
               PROVE  i - Len(one) \in 1..Len(two) /\ both[i] = two[i - Len(one)]
    OBVIOUS
  <2>1. i - Len(one) \in 1..Len(two) /\ Len(one) + (i - Len(one)) = i
    BY <1>1
  <2> QED
    BY <1>1, <2>1
<1>3. ToSet(both) = ToSet(one) \cup ToSet(two)
  <2>1. \A i \in 1..Len(two) : Len(one) + i \in 1..(Len(one) + Len(two))
    BY <1>1
  <2>2. ToSet(both) \subseteq ToSet(one) \cup ToSet(two)
    BY <1>1, <1>2 DEF ToSet
  <2>3. ToSet(two) \subseteq ToSet(both)
    BY <1>1, <2>1 DEF ToSet
  <2>4. ToSet(one) \subseteq ToSet(both)
    <3>1. \A i \in 1..Len(one) : i \in 1..(Len(one) + Len(two))
      BY <1>1
    <3> QED
      BY <1>1, <3>1 DEF ToSet
  <2> QED
    BY <2>2, <2>3, <2>4
<1> QED
  BY <1>1, <1>3 DEF both

LEMMA PopTakes ==
  ASSUME TypeInv, ResolveRegistry \/ ResolveGit
  PROVE  \E k \in Key : Takes(k)
<1>1. Popping /\ Pop /\ ref \in Ref
  <2>1. Popping /\ Pop /\ pending \in Seq(Ref)
    BY DEF ResolveRegistry, ResolveGit, TypeInv, WorkInv
  <2> QED
    BY <2>1, HeadOf DEF Popping, ref
<1>2. DOMAIN newFacts = {"module", "version"}
  BY DEF TypeInv, ProductInv
<1>3. ASSUME ResolveRegistry PROVE \E k \in Key : Takes(k)
  <2>1. ~isGit(ref)
    BY <1>3 DEF ResolveRegistry
  <2>2. PICK v \in VersionOf(ref) :
          \/ /\ Skip(_fact_key(ref, v))
             /\ newFacts' = [newFacts EXCEPT !.version = RecordVersion(v)]
             /\ asked' = (asked \/ Lookup)
          \/ \E fact \in ModuleFact(_fact_key(ref, v), Versioned(ref.source, v)) :
               /\ Settle(_fact_key(ref, v), Versioned(ref.source, v), fact)
               /\ newFacts' = [version |-> RecordVersion(v), module |-> At(newFacts.module, _fact_key(ref, v), fact)]
               /\ asked' = (asked \/ Lookup \/ ~FactKnown(_fact_key(ref, v)))
    BY <1>3 DEF ResolveRegistry
  <2> DEFINE k == _fact_key(ref, v)
  <2>3. v \in ref.want
    BY <1>1, Wanted DEF TypeInv
  <2>4. k \in Key /\ Meets(ref, k) /\ What(k) = Versioned(ref.source, v)
    BY <1>1, <2>1, <2>3, FactKeyIs, WhatOfRef DEF Meets
  <2>5. newFacts'.version = RecordVersion(v) /\ DOMAIN newFacts' = {"module", "version"}
    BY <1>2, <2>2
  <2>6. Answer(k)
    <3>1. CASE ref.kind = "range"
      BY <2>2, <2>5, <3>1 DEF Answer, RecordVersion, VersionOf
    <3>2. CASE ref.kind # "range"
      BY <2>5, <3>2 DEF Answer, RecordVersion
    <3> QED
      BY <3>1, <3>2
  <2> HIDE DEF k
  <2>7. Recall(k) \/ \E fact : NewFact(k, fact)
    <3>1. CASE /\ Skip(k)
               /\ newFacts' = [newFacts EXCEPT !.version = RecordVersion(v)]
               /\ asked' = (asked \/ Lookup)
      BY <1>2, <3>1 DEF Recall
    <3>2. ASSUME NEW fact \in ModuleFact(k, Versioned(ref.source, v)), Settle(k, Versioned(ref.source, v), fact),
                 newFacts' = [version |-> RecordVersion(v), module |-> At(newFacts.module, k, fact)],
                 asked' = (asked \/ Lookup \/ ~FactKnown(k))
          PROVE  NewFact(k, fact)
      BY <2>1, <2>4, <3>2 DEF NewFact
    <3> QED
      BY <2>2, <3>1, <3>2 DEF k
  <2> QED
    BY <1>1, <2>4, <2>5, <2>6, <2>7 DEF Takes
<1>4. ASSUME ResolveGit PROVE \E k \in Key : Takes(k)
  <2>1. isGit(ref)
    BY <1>4 DEF ResolveGit
  <2> DEFINE k == _git_fact_key(ref)
  <2>2. \/ Skip(k) /\ UNCHANGED <<newFacts, asked>>
        \/ \E fact \in ModuleFact(k, _git_pin(ref)) :
             /\ ~ref.versioned
             /\ Settle(k, _git_pin(ref), fact)
             /\ newFacts' = [newFacts EXCEPT !.module = At(@, k, fact)]
             /\ asked' = (asked \/ ~FactKnown(k))
    BY <1>4 DEF ResolveGit
  <2>3. k \in Key /\ Meets(ref, k) /\ What(k) = _git_pin(ref)
    BY <1>1, <2>1, GitKeyIs, WhatOfRef DEF Meets
  <2>4. newFacts'.version = newFacts.version /\ DOMAIN newFacts' = {"module", "version"} /\ ref.kind # "range"
    BY <1>2, <2>1, <2>2 DEF isGit
  <2>5. Answer(k)
    BY <2>4 DEF Answer
  <2> HIDE DEF k
  <2>6. Recall(k) \/ \E fact : NewFact(k, fact)
    <3>1. CASE Skip(k) /\ UNCHANGED <<newFacts, asked>>
      BY <3>1 DEF Recall
    <3>2. ASSUME NEW fact \in ModuleFact(k, _git_pin(ref)), ~ref.versioned, Settle(k, _git_pin(ref), fact),
                 newFacts' = [newFacts EXCEPT !.module = At(@, k, fact)], asked' = (asked \/ ~FactKnown(k))
          PROVE  NewFact(k, fact)
      <4>1. newFacts'.module = At(newFacts.module, k, fact)
        BY <1>2, <3>2
      <4> QED
        BY <2>3, <3>2, <4>1 DEF NewFact
    <3> QED
      BY <2>2, <3>1, <3>2
  <2> QED
    BY <1>1, <2>3, <2>4, <2>5, <2>6 DEF Takes
<1> QED
  BY <1>3, <1>4


-------------------------------------------------------------------------------
(***************************************************************************)
(* Types are kept                                                           *)
(***************************************************************************)

\* Steps of upstream, and of an evaluation that stops, leave all it did alone.
Quiet == UNCHANGED <<recorded, evaluation, work, product>> /\ pc' \in {pc, "failed", "idle"}

LEMMA Cases ==
  ASSUME TypeInv, [Next]_vars
  PROVE  \/ Quiet \/ FinishTag \/ StartTag \/ Finish
         \/ \E list \in TagLists, up \in BOOLEAN : Evaluate(list, up)
         \/ \E k \in Key : Takes(k)
<1>1. CASE UNCHANGED vars
  BY <1>1 DEF vars, Quiet, recorded, evaluation, work, product
<1>2. ASSUME NEW reg \in Registry, NEW s \in RegistrySource, NEW v \in Version, Publish(reg, s, v) \/ Withdraw(reg, s, v)
      PROVE  Quiet
  BY <1>2 DEF Publish, Withdraw, MayMove, Quiet, recorded, evaluation, work, product
<1>3. ASSUME NEW r \in Remote, NEW c \in Version, MoveBranch(r, c) PROVE Quiet
  BY <1>3 DEF MoveBranch, MayMove, Quiet, recorded, evaluation, work, product
<1>4. CASE Fail \/ Interrupt \/ Over
  BY <1>4 DEF Fail, Interrupt, Over, vars, Quiet, recorded, evaluation, work, product
<1>5. CASE ResolveRegistry \/ ResolveGit
  BY <1>5, PopTakes
<1> QED
  BY <1>1, <1>2, <1>3, <1>4, <1>5 DEF Next

LEMMA RegistryIs ==
  ASSUME WorkInv, pc = "work"
  PROVE  registry \in Registry /\ tag \in 1..Len(tags) /\ tags[tag] \in DepsTag
<1>1. tag \in 1..Len(tags) /\ tags \in Seq(DepsTag)
  BY DEF WorkInv
<1>2. tags[tag] \in DepsTag
  BY <1>1
<1> QED
  BY <1>1, <1>2 DEF DepsTag, registry

LEMMA PoolKeyIs ==
  ASSUME NEW pin, Real(pin), pc = "work", WorkInv
  PROVE  /\ _pool_key(pin) \in Entry /\ PinOf(_pool_key(pin)) = pin
         /\ _pool_key(pin).source = pin.source /\ _pool_key(pin).version = pin.version
         /\ _pool_key(pin).from = IF pin.source \in Remote THEN pin.source ELSE registry
<1>1. registry \in Registry
  BY RegistryIs
<1>2. pin \in Pin
  BY DEF Real
<1> QED
  BY <1>1, <1>2 DEF _pool_key, Entry, PinOf, Pin

LEMMA AtIs ==
  ASSUME NEW f, NEW k, NEW v
  PROVE  /\ DOMAIN At(f, k, v) = (DOMAIN f) \cup {k} /\ At(f, k, v)[k] = v
         /\ \A x \in DOMAIN f : x # k => At(f, k, v)[x] = f[x]
BY DEF At

\* What taking a reference leaves of the worklist.
LEMMA TakeWork ==
  ASSUME TypeInv, NEW k \in Key, Takes(k)
  PROVE  WorkInv'
<1>1. /\ Popping /\ Meets(ref, k) /\ Pop /\ (Recall(k) \/ \E fact : NewFact(k, fact))
      /\ WorldInv /\ RecordedInv /\ WorkInv /\ pc = "work"
  BY DEF Takes, TypeInv, Popping
<1>2. pc' = pc /\ tags' = tags /\ tag' = tag /\ pops' \in 0..Limit /\ head' = head /\ registry' = registry
  BY <1>1, InputsAssumption DEF Pop, evaluation, world, Popping, WorkInv, registry
<1>3. pending \in Seq(Ref) /\ pending # <<>> /\ queued \subseteq Ref /\ ToSet(pending) \subseteq queued
  BY <1>1 DEF WorkInv, Popping
<1>4. Tail(pending) \in Seq(Ref) /\ ToSet(Tail(pending)) \subseteq queued
  BY <1>3, HeadOf
<1>5. CASE Recall(k)
  BY <1>1, <1>2, <1>4, <1>5 DEF Recall, Skip, WorkInv
<1>6. ASSUME NEW fact, NewFact(k, fact) PROVE WorkInv'
  <2> DEFINE found == Unseen(fact.deps, queued)
             entry == _pool_key(fact.pin)
  <2>1. /\ resolved' = resolved \cup {k} /\ pending' = Tail(pending) \o found /\ queued' = queued \cup ToSet(found)
        /\ archives' = IF FactKnown(k) THEN archives ELSE At(archives, What(k), fact.archive)
        /\ members' = [members EXCEPT ![tag] = @ \cup {[entry |-> entry, sub |-> k.sub]}]
        /\ fact \in ModuleFact(k, What(k))
    BY <1>6 DEF NewFact, Settle
  <2>2. /\ Fits(head, graph, k, fact) /\ (~FactKnown(k) => fact = Fresh(head, graph, What(k), registry, k))
    BY <1>1, <2>1, FactFits
  <2>3. fact.deps \in Seq(Ref) /\ Real(fact.pin)
    BY <2>2 DEF Fits, Fact
  <2>4. found \in Seq(Ref) /\ ToSet(found) = ToSet(fact.deps) \ queued
    BY <2>3, UnseenOnce
  <2> HIDE DEF found
  <2>5. pending' \in Seq(Ref) /\ ToSet(pending') = ToSet(Tail(pending)) \cup ToSet(found)
    <3>1. Tail(pending) \o found \in Seq(Ref) /\ ToSet(Tail(pending) \o found) = ToSet(Tail(pending)) \cup ToSet(found)
      <4> DEFINE rest == Tail(pending)
      <4>1. rest \in Seq(Ref) /\ found \in Seq(Ref)
        BY <1>4, <2>4
      <4> HIDE DEF rest
      <4>2. rest \o found \in Seq(Ref) /\ Len(rest \o found) = Len(rest) + Len(found) /\ ToSet(rest \o found) = ToSet(rest) \cup ToSet(found)
        BY <4>1, ToSetConcat
      <4> QED
        BY <4>2 DEF rest
    <3>2. pending' = Tail(pending) \o found
      BY <2>1 DEF found
    <3> QED
      BY <3>1, <3>2
  <2>6. ToSet(found) \subseteq Ref
    BY <2>4 DEF ToSet
  <2>7. members' \in Seq(SUBSET Member) /\ Len(members') = Len(members)
    <3>1. [entry |-> entry, sub |-> k.sub] \in Member
      BY <1>1, <2>3, PoolKeyIs DEF Member, Key, Ref
    <3>2. members \in Seq(SUBSET Member) /\ Len(members) = tag /\ tag \in 1..Len(members)
      BY <1>1, RegistryIs DEF WorkInv
    <3>3. members[tag] \cup {[entry |-> entry, sub |-> k.sub]} \in SUBSET Member
      BY <3>1, <3>2
    <3> QED
      BY <2>1, <3>2, <3>3
  <2>8. \A w \in DOMAIN archives' : Real(w) /\ archives'[w] = Made(head', w, registry')
    <3>1. Real(What(k))
      BY <1>1, WhatIsReal
    <3>2. ~FactKnown(k) => fact.archive = Made(head, What(k), registry)
      BY <2>2 DEF Fresh
    <3>3. \A w \in DOMAIN archives : Real(w) /\ archives[w] = Made(head, w, registry)
      BY <1>1 DEF WorkInv
    <3>4. CASE FactKnown(k)
      BY <1>2, <2>1, <3>3, <3>4
    <3>5. CASE ~FactKnown(k)
      <4>1. archives' = At(archives, What(k), fact.archive)
        BY <2>1, <3>5
      <4> QED
        BY <1>2, <3>1, <3>2, <3>3, <3>5, <4>1 DEF At
    <3> QED
      BY <3>4, <3>5
  <2>9. resolved' \subseteq Key /\ queued' \subseteq Ref /\ ToSet(pending') \subseteq queued'
    BY <1>1, <1>3, <1>4, <2>1, <2>5, <2>6 DEF WorkInv
  <2> QED
    BY <1>1, <1>2, <2>5, <2>7, <2>8, <2>9 DEF WorkInv
<1> QED
  BY <1>1, <1>5, <1>6

\* The archive pooled for a fact is the fact's own, but for where it is from.
LEMMA PoolGrows ==
  ASSUME TypeInv, NEW k \in Key, Takes(k), NEW fact, NewFact(k, fact)
  PROVE  /\ Fits(head, graph, k, fact)
         /\ DOMAIN pool' = (DOMAIN pool) \cup {_pool_key(fact.pin)}
         /\ \A e \in DOMAIN pool : pool'[e].archive = pool[e].archive /\ pool[e].subs \subseteq pool'[e].subs
         /\ k.sub \in pool'[_pool_key(fact.pin)].subs
         /\ \A e \in DOMAIN pool : e # _pool_key(fact.pin) => pool'[e] = pool[e]
         /\ _pool_key(fact.pin) \in DOMAIN pool =>
              pool'[_pool_key(fact.pin)].subs = pool[_pool_key(fact.pin)].subs \cup {k.sub}
         /\ _pool_key(fact.pin) \notin DOMAIN pool => pool'[_pool_key(fact.pin)] = [archive |-> fact.archive, subs |-> {k.sub}]
         /\ IsStock(head, pool')
<1> DEFINE entry == _pool_key(fact.pin)
           subs == IF entry \in DOMAIN pool THEN pool[entry].subs ELSE {}
           archive == IF entry \in DOMAIN pool THEN pool[entry].archive ELSE fact.archive
<1>1. WorldInv /\ RecordedInv /\ WorkInv /\ ProductInv /\ pc = "work"
  BY DEF TypeInv, Takes, Popping
<1>2. fact \in ModuleFact(k, What(k)) /\ pool' = At(pool, entry, [archive |-> archive, subs |-> subs \cup {k.sub}])
  BY DEF NewFact, Settle
<1>3. Fits(head, graph, k, fact)
  BY <1>1, <1>2, FactFits
<1>4. Real(fact.pin) /\ fact \in Fact /\ fact.archive = Made(head, fact.pin, fact.archive.from)
  BY <1>3 DEF Fits
<1>5. entry \in Entry /\ PinOf(entry) = fact.pin
  BY <1>1, <1>4, PoolKeyIs
<1>6. k.sub \in Sub /\ fact.archive \in Unpacked
  BY <1>4 DEF Key, Ref, Fact
<1>7. IsStock(head, pool)
  BY <1>1 DEF ProductInv
<1>8. /\ DOMAIN pool' = (DOMAIN pool) \cup {entry} /\ \A e \in DOMAIN pool : e # entry => pool'[e] = pool[e]
      /\ pool'[entry] = [archive |-> archive, subs |-> subs \cup {k.sub}]
  <2> HIDE DEF entry, archive, subs
  <2> QED
    BY <1>2 DEF At
<1>9. pool'[entry] = [archive |-> archive, subs |-> subs \cup {k.sub}]
  BY <1>8
<1>10. pool'[entry] \in Pooled /\ pool'[entry].subs # {} /\ archive = Made(head, fact.pin, archive.from)
  <2>1. CASE entry \in DOMAIN pool
    BY <1>5, <1>6, <1>7, <1>9, <2>1 DEF IsStock, Pooled
  <2>2. CASE entry \notin DOMAIN pool
    BY <1>4, <1>6, <1>9, <2>2 DEF Pooled
  <2> QED
    BY <2>1, <2>2
<1>11. IsStock(head, pool')
  BY <1>4, <1>5, <1>7, <1>8, <1>9, <1>10 DEF IsStock
<1> HIDE DEF entry
<1> QED
  BY <1>3, <1>8, <1>9, <1>11 DEF entry

LEMMA TakeProduct ==
  ASSUME TypeInv, NEW k \in Key, Takes(k)
  PROVE  ProductInv'
<1>1. /\ WorldInv /\ RecordedInv /\ WorkInv /\ ProductInv /\ pc = "work" /\ head' = head /\ graph' = graph
      /\ ref \in Ref /\ DOMAIN newFacts' = {"module", "version"} /\ Answer(k)
      /\ (Recall(k) \/ \E fact : NewFact(k, fact))
  <2>1. pending \in Seq(Ref) /\ pending # <<>>
    BY DEF Takes, Popping, TypeInv, WorkInv
  <2> QED
    BY <2>1, HeadOf DEF Takes, TypeInv, Popping, Pop, world, ref
<1>2. \A q \in DOMAIN newFacts'.version : newFacts'.version[q] \in q.want
  <2>1. \A q \in DOMAIN newFacts.version : newFacts.version[q] \in q.want
    BY <1>1 DEF ProductInv, AreFacts
  <2>2. ASSUME NEW v \in _resolved_version(ref), newFacts'.version = At(newFacts.version, _resolution_fact_key(ref), v)
        PROVE  \A q \in DOMAIN newFacts'.version : newFacts'.version[q] \in q.want
    <3>1. v \in ref.want /\ _resolution_fact_key(ref).want = ref.want
      BY <1>1, Wanted DEF _resolution_fact_key
    <3> QED
      BY <2>1, <2>2, <3>1 DEF At
  <2> QED
    BY <1>1, <2>1, <2>2 DEF Answer
<1>3. CASE Recall(k)
  BY <1>1, <1>2, <1>3 DEF Recall, Skip, ProductInv, AreFacts
<1>4. ASSUME NEW fact, NewFact(k, fact) PROVE ProductInv'
  <2>1. Fits(head, graph, k, fact) /\ IsStock(head, pool')
    BY <1>4, PoolGrows
  <2>2. newFacts'.module = At(newFacts.module, k, fact)
    BY <1>4 DEF NewFact
  <2>3. fact.full = TRUE
    BY <2>1 DEF Fits, Fact
  <2>4. /\ DOMAIN newFacts.module \subseteq Key
        /\ \A x \in DOMAIN newFacts.module : newFacts.module[x].full /\ Fits(head, graph, x, newFacts.module[x])
    BY <1>1 DEF ProductInv, AreFacts
  <2>5. /\ DOMAIN newFacts'.module \subseteq Key
        /\ \A x \in DOMAIN newFacts'.module : newFacts'.module[x].full /\ Fits(head, graph, x, newFacts'.module[x])
    BY <2>1, <2>2, <2>3, <2>4 DEF At
  <2> QED
    BY <1>1, <1>2, <2>1, <2>5 DEF ProductInv, AreFacts
<1> QED
  BY <1>1, <1>3, <1>4

LEMMA TypeInvNext ==
  ASSUME TypeInv, [Next]_vars
  PROVE  TypeInv'
<1>1. WorldInv' /\ SameTags(head, head') /\ graph' = graph
  BY WorldStep DEF TypeInv
<1>2. CASE Quiet
  <2>1. WorkInv'
    BY <1>1, <1>2, MadeStays DEF TypeInv, WorkInv, Quiet, work, evaluation, product, registry
  <2>2. RecordedInv' /\ ProductInv'
    BY <1>1, <1>2, FactsStay, StockStays DEF TypeInv, RecordedInv, ProductInv, Quiet, recorded, product
  <2> QED
    BY <1>1, <2>1, <2>2 DEF TypeInv
<1>3. CASE FinishTag
  <2>1. UNCHANGED <<world, recorded, evaluation, work, product>> /\ pc' = "tag"
    BY <1>3 DEF FinishTag
  <2>2. WorkInv'
    BY <2>1 DEF TypeInv, WorkInv, work, evaluation, product, registry, world
  <2>3. RecordedInv' /\ ProductInv'
    BY <2>1 DEF TypeInv, RecordedInv, ProductInv, recorded, product, world
  <2> QED
    BY <1>1, <2>2, <2>3 DEF TypeInv
<1>4. CASE StartTag
  <2>1. RecordedInv' /\ ProductInv'
    BY <1>4 DEF StartTag, TypeInv, RecordedInv, ProductInv, recorded, world
  <2>2. /\ tag' = tag + 1 /\ tags' = tags /\ tag + 1 \in 1..Len(tags) /\ tags[tag + 1] \in DepsTag /\ pc' = "work"
        /\ resolved' = {} /\ archives' = <<>> /\ pops' = 0 /\ members' = Append(members, {})
    <3>1. tag < Len(tags) /\ tag \in 0..Len(tags) /\ tags \in Seq(DepsTag)
      BY <1>4 DEF StartTag, TypeInv, WorkInv
    <3>2. tag + 1 \in 1..Len(tags)
      BY <3>1
    <3>3. tags[tag + 1] \in DepsTag
      BY <3>1, <3>2
    <3> QED
      BY <1>4, <3>2, <3>3 DEF StartTag, evaluation
  <2> DEFINE roots == tags[tag + 1].roots
  <2>3. roots \in Seq(Ref)
    BY <2>2 DEF DepsTag
  <2>4. pending' = Unseen(roots, {}) /\ queued' = ToSet(roots)
    BY <1>4, <2>2 DEF StartTag
  <2> HIDE DEF roots
  <2>5. Unseen(roots, {}) \in Seq(Ref) /\ ToSet(Unseen(roots, {})) = ToSet(roots) \ {}
    BY <2>3, UnseenOnce
  <2>6. queued' \subseteq Ref /\ pending' \in Seq(Ref) /\ ToSet(pending') \subseteq queued'
    <3>1. ToSet(roots) \subseteq Ref
      BY <2>3 DEF ToSet
    <3> QED
      BY <2>4, <2>5, <3>1
  <2>7. members' \in Seq(SUBSET Member) /\ Len(members') = tag'
    <3>1. members \in Seq(SUBSET Member) /\ Len(members) = tag /\ {} \in SUBSET Member
      BY DEF TypeInv, WorkInv
    <3> QED
      BY <2>2, <3>1
  <2>8. WorkInv'
    BY <2>2, <2>6, <2>7, InputsAssumption DEF WorkInv, TypeInv
  <2> QED
    BY <1>1, <2>1, <2>8 DEF TypeInv
<1>5. CASE Finish
  <2>1. WorkInv' /\ ProductInv'
    BY <1>5 DEF Finish, TypeInv, WorkInv, ProductInv, work, product, evaluation, world, registry
  <2>2. RecordedInv'
    BY <1>5 DEF Finish, TypeInv, WorkInv, ProductInv, RecordedInv, world, work, product, evaluation
  <2> QED
    BY <1>1, <2>1, <2>2 DEF TypeInv
<1>6. ASSUME NEW list \in TagLists, NEW up \in BOOLEAN, Evaluate(list, up) PROVE TypeInv'
  <2>1. RecordedInv'
    BY <1>6 DEF Evaluate, TypeInv, RecordedInv, world
  <2>2. WorkInv'
    <3>1. list \in Seq(DepsTag) /\ ToSet(<<>>) = {}
      BY InputsAssumption DEF ToSet
    <3> QED
      BY <1>6, <3>1, InputsAssumption DEF Evaluate, WorkInv
  <2>3. ProductInv'
    <3>1. DOMAIN NoFacts = {"module", "version"} /\ NoFacts.module = <<>> /\ NoFacts.version = <<>>
      BY DEF NoFacts
    <3>2. IsStock(head', <<>>)
      BY DEF IsStock
    <3> QED
      BY <1>6, <3>1, <3>2 DEF Evaluate, ProductInv, AreFacts
  <2> QED
    BY <1>1, <2>1, <2>2, <2>3 DEF TypeInv
<1>7. ASSUME NEW k \in Key, Takes(k) PROVE TypeInv'
  <2>1. RecordedInv'
    BY <1>7 DEF Takes, Pop, TypeInv, RecordedInv, recorded, world
  <2> QED
    BY <1>1, <1>7, <2>1, TakeWork, TakeProduct DEF TypeInv
<1> QED
  BY <1>2, <1>3, <1>4, <1>5, <1>6, <1>7, Cases

\* The typing is an invariant: what is unpacked, recorded, pooled and queued is
\* always what upstream serves for the keys at hand.
THEOREM Typed == Spec => []TypeInv
<1>1. Init => TypeInv
  BY TypeInvInit
<1>2. TypeInv /\ [Next]_vars => TypeInv'
  BY TypeInvNext
<1> QED
  BY <1>1, <1>2, PTL DEF Spec

\* Whatever the modules call, upstream does and earlier evaluations left, the
\* facts, the pool and the worklist have the shapes the code gives them.
THEOREM TypeCorrect == Spec => []TypeOK
<1>1. TypeInv => TypeOK
  BY TypeInvImplies
<1> QED
  BY <1>1, Typed, PTL

-------------------------------------------------------------------------------
(***************************************************************************)
(* The limit                                                                *)
(***************************************************************************)

\* What a new fact adds to the worklist: its references that are new, once.
LEMMA Queues ==
  ASSUME TypeInv, NEW k \in Key, Takes(k), NEW fact, NewFact(k, fact)
  PROVE  /\ ToSet(pending') = ToSet(Tail(pending)) \cup (ToSet(fact.deps) \ queued)
         /\ queued' = queued \cup ToSet(fact.deps)
         /\ IsFiniteSet(ToSet(fact.deps) \ queued)
         /\ Len(pending') = Len(pending) - 1 + Cardinality(ToSet(fact.deps) \ queued)
<1> DEFINE found == Unseen(fact.deps, queued)
           rest == Tail(pending)
<1>1. pending' = rest \o found /\ queued' = queued \cup ToSet(found)
  BY DEF NewFact, Settle
<1>2. fact.deps \in Seq(Ref)
  BY PoolGrows DEF Fits, Fact
<1>3. /\ found \in Seq(Ref) /\ ToSet(found) = ToSet(fact.deps) \ queued
      /\ IsFiniteSet(ToSet(fact.deps) \ queued) /\ Cardinality(ToSet(fact.deps) \ queued) = Len(found)
  BY <1>2, UnseenOnce
<1>4. rest \in Seq(Ref) /\ Len(rest) = Len(pending) - 1
  <2>1. pending \in Seq(Ref) /\ pending # <<>>
    BY DEF Takes, Popping, TypeInv, WorkInv
  <2> QED
    BY <2>1, HeadOf
<1> HIDE DEF found, rest
<1>5. ToSet(rest \o found) = ToSet(rest) \cup ToSet(found) /\ Len(rest \o found) = Len(rest) + Len(found)
  BY <1>3, <1>4, ToSetConcat
<1> QED
  BY <1>1, <1>3, <1>4, <1>5 DEF rest

\* Each reference queued was popped once or still waits.
CountInv == IsFiniteSet(queued) /\ Cardinality(queued) = pops + Len(pending)

LEMMA CountNext ==
  ASSUME TypeInv, CountInv, [Next]_vars
  PROVE  CountInv'
<1>1. CASE UNCHANGED work
  BY <1>1 DEF work, CountInv
<1>2. CASE Quiet \/ FinishTag \/ Finish
  BY <1>1, <1>2 DEF Quiet, FinishTag, Finish
<1>3. ASSUME NEW list \in TagLists, NEW up \in BOOLEAN, Evaluate(list, up) PROVE CountInv'
  BY <1>3, FS_EmptySet DEF Evaluate, CountInv
<1>4. CASE StartTag
  <2>1. tag + 1 \in 1..Len(tags) /\ tags \in Seq(DepsTag)
    BY <1>4 DEF StartTag, TypeInv, WorkInv
  <2> DEFINE roots == tags[tag + 1].roots
  <2>2. roots \in Seq(Ref)
    <3>1. tags[tag + 1] \in DepsTag
      BY <2>1
    <3> QED
      BY <3>1 DEF DepsTag
  <2>3. pending' = Unseen(roots, {}) /\ queued' = ToSet(roots) /\ pops' = 0
    BY <1>4 DEF StartTag, evaluation
  <2> HIDE DEF roots
  <2>4. /\ Unseen(roots, {}) \in Seq(Ref) /\ IsFiniteSet(ToSet(roots) \ {})
        /\ Cardinality(ToSet(roots) \ {}) = Len(Unseen(roots, {}))
    BY <2>2, UnseenOnce
  <2>5. ToSet(roots) \ {} = ToSet(roots) /\ Len(Unseen(roots, {})) \in Nat
    BY <2>4
  <2> QED
    BY <2>3, <2>4, <2>5 DEF CountInv
<1>5. ASSUME NEW k \in Key, Takes(k) PROVE CountInv'
  <2>1. /\ pending \in Seq(Ref) /\ pending # <<>> /\ pops \in Nat /\ pops' = pops + 1
        /\ Recall(k) \/ \E fact : NewFact(k, fact)
    BY <1>5, InputsAssumption DEF Takes, Popping, Pop, TypeInv, WorkInv
  <2>2. Len(Tail(pending)) = Len(pending) - 1 /\ Len(pending) \in Nat \ {0}
    BY <2>1
  <2>3. CASE Recall(k)
    BY <2>1, <2>2, <2>3 DEF Recall, Skip, CountInv
  <2>4. ASSUME NEW fact, NewFact(k, fact) PROVE CountInv'
    <3> DEFINE found == ToSet(fact.deps) \ queued
    <3>1. queued' = queued \cup found /\ IsFiniteSet(found) /\ Len(pending') = Len(pending) - 1 + Cardinality(found)
      BY <1>5, <2>4, Queues
    <3>2. queued \cap found = {}
      OBVIOUS
    <3> HIDE DEF found
    <3>3. IsFiniteSet(queued \cup found) /\ Cardinality(queued \cup found) = Cardinality(queued) + Cardinality(found)
      <4>1. Cardinality(queued \cap found) = 0
        BY <3>2, FS_EmptySet
      <4>2. IsFiniteSet(queued \cup found) /\ Cardinality(queued \cup found) = Cardinality(queued) + Cardinality(found) - Cardinality(queued \cap found)
        BY <3>1, FS_Union, SMT DEF CountInv
      <4>3. Cardinality(queued) \in Nat /\ Cardinality(found) \in Nat
        BY <3>1, FS_CardinalityType DEF CountInv
      <4> QED
        BY <4>1, <4>2, <4>3
    <3>4. Cardinality(found) \in Nat
      BY <3>1, FS_CardinalityType
    <3> QED
      BY <2>1, <2>2, <3>1, <3>3, <3>4 DEF CountInv
  <2> QED
    BY <2>1, <2>3, <2>4
<1> QED
  BY <1>2, <1>3, <1>4, <1>5, Cases

\* The limit counts references that differ: when it fails a tag, more than
\* Limit of them were met, in whatever cycles the modules call each other.
THEOREM LimitCounts == Spec => []LimitCountsOnce
<1>1. Init => CountInv
  BY FS_EmptySet DEF Init, CountInv
<1>2. TypeInv /\ CountInv /\ [Next]_vars => CountInv'
  BY CountNext
<1>3. TypeInv /\ CountInv => LimitCountsOnce
  <2> SUFFICES ASSUME TypeInv, CountInv, pops = Limit, pending # <<>> PROVE Cardinality(queued) > Limit
    BY DEF LimitCountsOnce
  <2>1. pending \in Seq(Ref) /\ Limit \in Nat
    BY InputsAssumption DEF TypeInv, WorkInv
  <2>2. Len(pending) \in Nat \ {0}
    BY <2>1
  <2> QED
    BY <2>1, <2>2 DEF CountInv
<1> QED
  BY <1>1, <1>2, <1>3, Typed, PTL DEF Spec

-------------------------------------------------------------------------------
(***************************************************************************)
(* What an upgrade answers                                                  *)
(***************************************************************************)
Newest(F) ==
  /\ \A q \in DOMAIN F.version :
       \A v \in published[<<q.registry, q.source>>] \cap q.want : v <= F.version[q]
  /\ \A k \in DOMAIN F.module : k.kind \in {"tag", "branch"} =>
       F.module[k].archive.version = head[<<k.source, k.kind>>]

\* What an upgrade has produced so far is the newest there is.
UpgradeInv == upgrade /\ since = moves => Newest(newFacts)

LEMMA NewestTaken ==
  ASSUME TypeInv, UpgradeInv, NEW k \in Key, Takes(k)
  PROVE  UpgradeInv'
<1> SUFFICES ASSUME upgrade, since = moves PROVE Newest(newFacts)'
  BY DEF UpgradeInv, Takes, Pop, evaluation, world
<1>1. /\ WorldInv /\ RecordedInv /\ WorkInv /\ pc = "work" /\ published' = published /\ head' = head
      /\ Answer(k) /\ (Recall(k) \/ \E fact : NewFact(k, fact)) /\ Newest(newFacts)
  BY DEF TypeInv, Takes, Popping, Pop, world, UpgradeInv
<1>2. \A q \in DOMAIN newFacts'.version :
        \A v \in published[<<q.registry, q.source>>] \cap q.want : v <= newFacts'.version[q]
  <2>1. ASSUME NEW v \in _resolved_version(ref), newFacts'.version = At(newFacts.version, _resolution_fact_key(ref), v)
        PROVE  \A q \in DOMAIN newFacts'.version :
                 \A w \in published[<<q.registry, q.source>>] \cap q.want : w <= newFacts'.version[q]
    <3> DEFINE asked_ == _resolution_fact_key(ref)
    <3>1. asked_.registry = registry /\ asked_.source = ref.source /\ asked_.want = ref.want
      BY DEF _resolution_fact_key
    <3>2. \A w \in published[<<registry, ref.source>>] \cap ref.want : w <= v
      BY <2>1 DEF _resolved_version, ResolutionKnown, resolve_version
    <3> HIDE DEF asked_
    <3> QED
      BY <1>1, <2>1, <3>1, <3>2 DEF At, Newest, asked_
  <2> QED
    BY <1>1, <2>1 DEF Answer, Newest
<1>3. \A q \in DOMAIN newFacts'.module : q.kind \in {"tag", "branch"} =>
        newFacts'.module[q].archive.version = head[<<q.source, q.kind>>]
  <2>1. CASE Recall(k)
    BY <1>1, <2>1 DEF Recall, Newest
  <2>2. ASSUME NEW fact, NewFact(k, fact), k.kind \in {"tag", "branch"}
        PROVE  fact.archive.version = head[<<k.source, k.kind>>]
    <3>1. isGit(k) /\ ~FactKnown(k) /\ fact \in ModuleFact(k, What(k))
      BY <2>2 DEF isGit, FactKnown, NewFact
    <3>2. fact = Fresh(head, graph, What(k), registry, k)
      BY <1>1, <3>1, FactFits
    <3>3. fact.archive = Made(head, What(k), registry)
      BY <3>2 DEF Fresh
    <3>4. CASE k.kind = "tag"
      <4>1. What(k) = Tagged(k.source)
        BY <3>1, <3>4 DEF What, _git_pin
      <4> QED
        BY <3>3, <3>4, <4>1 DEF Made, Archive, Tagged
    <3>5. CASE k.kind = "branch"
      <4>1. What(k) = Versioned(k.source, head[<<k.source, "branch">>])
        BY <3>1, <3>5 DEF What, _git_pin
      <4> QED
        BY <3>3, <3>5, <4>1 DEF Made, Archive, Versioned
    <3> QED
      BY <2>2, <3>4, <3>5
  <2>3. ASSUME NEW fact, NewFact(k, fact)
        PROVE  \A q \in DOMAIN newFacts'.module : q.kind \in {"tag", "branch"} =>
                 newFacts'.module[q].archive.version = head[<<q.source, q.kind>>]
    <3>1. newFacts'.module = At(newFacts.module, k, fact)
      BY <2>3 DEF NewFact
    <3> QED
      BY <1>1, <2>2, <2>3, <3>1 DEF At, Newest
  <2> QED
    BY <1>1, <2>1, <2>3
<1> QED
  BY <1>1, <1>2, <1>3 DEF Newest

LEMMA NewestNext ==
  ASSUME TypeInv, UpgradeInv, [Next]_vars
  PROVE  UpgradeInv'
<1>1. ASSUME NEW k \in Key, Takes(k) PROVE UpgradeInv'
  BY <1>1, NewestTaken
<1>2. CASE UNCHANGED <<world, upgrade, since, newFacts>>
  BY <1>2 DEF UpgradeInv, Newest, world
<1>3. ASSUME NEW list \in TagLists, NEW up \in BOOLEAN, Evaluate(list, up) PROVE UpgradeInv'
  <2>1. DOMAIN NoFacts.version = {} /\ DOMAIN NoFacts.module = {}
    BY DEF NoFacts
  <2> QED
    BY <1>3, <2>1 DEF Evaluate, UpgradeInv, Newest
<1>4. CASE MayMove
  <2>1. moves' = moves + 1 /\ since' = since /\ since \in Nat /\ moves \in Nat /\ since <= moves
    BY <1>4 DEF MayMove, evaluation, TypeInv, WorldInv
  <2> QED
    BY <2>1 DEF UpgradeInv
<1> QED
  BY <1>1, <1>2, <1>3, <1>4, PopTakes DEF Next, vars, Publish, Withdraw, MoveBranch, StartTag, FinishTag, Finish, Fail, Interrupt, Over,
     evaluation, product

LEMMA OnlyFinish ==
  ASSUME TypeInv, [Next]_vars, Finishing
  PROVE  Finish
BY Cases DEF Finishing, Quiet, FinishTag, StartTag, Evaluate, Takes, Pop

\* An upgrade during which upstream stands still leaves no stale answer.
THEOREM UpgradeAsksAgain == Spec => UpgradeResolvesAgain
<1>1. Init => UpgradeInv
  BY DEF Init, UpgradeInv
<1>2. TypeInv /\ UpgradeInv /\ [Next]_vars => UpgradeInv'
  BY NewestNext
<1>3. TypeInv /\ UpgradeInv /\ [Next]_vars =>
        (Finishing /\ upgrade /\ last'.still =>
           /\ \A k \in DOMAIN facts'.version :
                \A v \in published[<<k.registry, k.source>>] \cap k.want : v <= facts'.version[k]
           /\ \A k \in DOMAIN facts'.module : k.kind \in {"tag", "branch"} =>
                facts'.module[k].archive.version = head[<<k.source, k.kind>>])
  <2> SUFFICES ASSUME TypeInv, UpgradeInv, [Next]_vars, Finishing, upgrade, last'.still
               PROVE  /\ \A k \in DOMAIN facts'.version :
                           \A v \in published[<<k.registry, k.source>>] \cap k.want : v <= facts'.version[k]
                      /\ \A k \in DOMAIN facts'.module : k.kind \in {"tag", "branch"} =>
                           facts'.module[k].archive.version = head[<<k.source, k.kind>>]
    OBVIOUS
  <2>1. facts' = newFacts /\ since = moves
    <3>1. Finish
      BY OnlyFinish
    <3>2. facts' = newFacts /\ last'.still = (since = moves)
      BY <3>1 DEF Finish
    <3> QED
      BY <3>2
  <2> QED
    BY <2>1 DEF UpgradeInv, Newest
<1> QED
  BY <1>1, <1>2, <1>3, Typed, PTL DEF Spec, UpgradeResolvesAgain

-------------------------------------------------------------------------------
(***************************************************************************)
(* Hubs are closed                                                          *)
(***************************************************************************)

\* The references of a hub's member, as the text of its pooled archive has them.
Called(g, p, m) == ToSet(g[<<p[m.entry].archive.source, p[m.entry].archive.version, m.sub>>])

Closed(g, hub, p, t) ==
  \A r \in ToSet(t.roots) \cup UNION {Called(g, p, m) : m \in hub} : \E m \in hub : Serves(m, r, t)

Served(r) == \E m \in members[tag] : Serves(m, r, tags[tag])

\* A reference queued for the tag under way still waits or is served.
WorklistInv ==
  /\ ToSet(tags[tag].roots) \cup UNION {Called(graph, pool, m) : m \in members[tag]} \subseteq queued
  /\ \A r \in queued : r \in ToSet(pending) \/ Served(r)
  /\ \A k \in resolved : Served(k)

\* The hubs of the tags done with are closed, and that of the tag under way will be.
HubInv ==
  /\ pc = "tag" => pending = <<>>
  /\ \A t \in 1..tag : \A m \in members[t] : m.entry \in DOMAIN pool
  /\ tag # 0 => WorklistInv
  /\ \A t \in 1..tag : t # tag => Closed(graph, members[t], pool, tags[t])

LEMMA ClosedStays ==
  ASSUME NEW g, NEW hub, NEW p, NEW q, NEW t, \A m \in hub : m.entry \in DOMAIN p,
         \A e \in DOMAIN p : q[e].archive = p[e].archive, Closed(g, hub, p, t)
  PROVE  Closed(g, hub, q, t)
<1>1. \A m \in hub : Called(g, q, m) = Called(g, p, m)
  BY DEF Called
<1> QED
  BY <1>1 DEF Closed

LEMMA WorklistDone ==
  ASSUME HubInv, tag # 0, pending = <<>>
  PROVE  Closed(graph, members[tag], pool, tags[tag])
<1>1. ToSet(pending) = {}
  BY DEF ToSet
<1> QED
  BY <1>1 DEF HubInv, WorklistInv, Closed, Served

LEMMA KeyServes ==
  ASSUME NEW r \in Ref, NEW k, Meets(r, k), NEW m, NEW t, Serves(m, k, t)
  PROVE  Serves(m, r, t)
<1>1. CASE isGit(r)
  <2>1. k = _git_fact_key(r) /\ k.source = r.source /\ k.sub = r.sub /\ k.want = r.want /\ k.kind = r.kind
    BY <1>1, GitKeyIs DEF Meets
  <2> QED
    BY <1>1, <2>1 DEF Serves
<1>2. CASE ~isGit(r)
  <2>1. PICK v \in r.want : k = _fact_key(r, v)
    BY <1>2 DEF Meets
  <2>2. k.source = r.source /\ k.sub = r.sub /\ k.want = {v} /\ ~isGit(k)
    BY <1>2, <2>1, FactKeyIs
  <2> QED
    BY <1>2, <2>2 DEF Serves, isGit
<1> QED
  BY <1>1, <1>2

\* The hub's new member serves the key it was taken for, and the references
\* its pooled archive has are those of the fact.
LEMMA MemberServes ==
  ASSUME TypeInv, NEW k \in Key, Takes(k), NEW fact, NewFact(k, fact)
  PROVE  LET m == [entry |-> _pool_key(fact.pin), sub |-> k.sub]
         IN /\ Serves(m, k, tags[tag])
            /\ Called(graph, pool', m) = ToSet(fact.deps)
            /\ members' = [members EXCEPT ![tag] = @ \cup {m}]
<1> DEFINE entry == _pool_key(fact.pin)
           m == [entry |-> entry, sub |-> k.sub]
<1>1. WorldInv /\ WorkInv /\ pc = "work"
  BY DEF TypeInv, Takes, Popping
<1>2. Fits(head, graph, k, fact) /\ IsStock(head, pool') /\ entry \in DOMAIN pool'
  BY PoolGrows
<1>3. /\ Real(fact.pin) /\ fact.pin.source = k.source /\ fact.archive = Made(head, fact.pin, fact.archive.from)
      /\ k.kind \in {"exact", "commit"} => k.want = {fact.pin.version}
      /\ fact.deps = graph[<<fact.archive.source, fact.archive.version, k.sub>>]
  BY <1>2 DEF Fits
<1>4. /\ PinOf(entry) = fact.pin /\ entry.source = fact.pin.source /\ entry.version = fact.pin.version
      /\ entry.from = IF fact.pin.source \in Remote THEN fact.pin.source ELSE registry
  BY <1>1, <1>3, PoolKeyIs
<1> HIDE DEF entry
<1>5. Serves(m, k, tags[tag])
  <2>1. m.entry = entry /\ m.sub = k.sub
    OBVIOUS
  <2>2. /\ isGit(k) <=> k.source \in Remote
        /\ k.kind \in {"exact", "commit", "tag", "branch"}
    BY DEF Key, Ref, Kind
  <2> HIDE DEF m
  <2>3. ~isGit(k) => entry.from = tags[tag].registry /\ entry.version \in k.want
    BY <1>3, <1>4, <2>2 DEF isGit, registry
  <2>4. k.kind = "commit" => entry.version \in k.want
    BY <1>3, <1>4
  <2> QED
    BY <1>3, <1>4, <2>1, <2>3, <2>4 DEF Serves
<1>6. Called(graph, pool', m) = ToSet(fact.deps)
  <2> DEFINE a == pool'[entry].archive
  <2>1. a = Made(head, fact.pin, a.from)
    BY <1>2, <1>4 DEF IsStock
  <2>2. \A from : Made(head, fact.pin, from).source = fact.pin.source /\
          Made(head, fact.pin, from).version = IF fact.pin.tag THEN head[<<fact.pin.source, "tag">>] ELSE fact.pin.version
    BY DEF Made, Archive
  <2>3. a.source = fact.archive.source /\ a.version = fact.archive.version
    BY <1>3, <2>1, <2>2
  <2> QED
    BY <1>3, <2>3 DEF Called
<1>7. members' = [members EXCEPT ![tag] = @ \cup {m}]
  BY DEF NewFact, Settle, entry
<1> QED
  BY <1>5, <1>6, <1>7 DEF entry

LEMMA HubTaken ==
  ASSUME TypeInv, HubInv, NEW k \in Key, Takes(k)
  PROVE  HubInv'
<1>1. /\ WorldInv /\ WorkInv /\ pc = "work" /\ pc' = pc /\ graph' = graph /\ tag' = tag /\ tags' = tags
      /\ Meets(ref, k) /\ (Recall(k) \/ \E fact : NewFact(k, fact)) /\ tag \in 1..Len(members) /\ members \in Seq(SUBSET Member)
  BY RegistryIs DEF TypeInv, Takes, Popping, Pop, world, evaluation, WorkInv
<1>2. pending \in Seq(Ref) /\ pending # <<>> /\ ref \in Ref /\ ToSet(pending) = {ref} \cup ToSet(Tail(pending))
  <2>1. pending \in Seq(Ref) /\ pending # <<>>
    BY DEF Takes, Popping, TypeInv, WorkInv
  <2> QED
    BY <2>1, HeadOf DEF ref
<1> PICK r0 : r0 = ref
  OBVIOUS
<1>3. CASE Recall(k)
  <2>1. k \in resolved /\ pending' = Tail(pending) /\ UNCHANGED <<resolved, queued, pool, members>>
    BY <1>3 DEF Recall, Skip
  <2>2. Served(ref)
    BY <1>1, <1>2, <2>1, KeyServes DEF HubInv, WorklistInv, Served
  <2>3. WorklistInv'
    BY <1>1, <1>2, <2>1, <2>2 DEF HubInv, WorklistInv, Served
  <2> QED
    BY <1>1, <2>1, <2>3 DEF HubInv
<1>4. ASSUME NEW fact, NewFact(k, fact) PROVE HubInv'
  <2> DEFINE entry == _pool_key(fact.pin)
             m == [entry |-> entry, sub |-> k.sub]
  <2>1. /\ Serves(m, k, tags[tag]) /\ Called(graph, pool', m) = ToSet(fact.deps)
        /\ members' = [members EXCEPT ![tag] = @ \cup {m}]
    BY <1>4, MemberServes
  <2>2. /\ DOMAIN pool' = (DOMAIN pool) \cup {entry}
        /\ \A e \in DOMAIN pool : pool'[e].archive = pool[e].archive
    BY <1>4, PoolGrows
  <2>3. /\ ToSet(pending') = ToSet(Tail(pending)) \cup (ToSet(fact.deps) \ queued)
        /\ queued' = queued \cup ToSet(fact.deps) /\ resolved' = resolved \cup {k}
    BY <1>4, Queues DEF NewFact, Settle
  <2>4. m.entry = entry
    OBVIOUS
  <2> HIDE DEF entry, m
  <2>5. /\ members'[tag] = members[tag] \cup {m} /\ DOMAIN members' = DOMAIN members
        /\ \A t \in 1..tag : t # tag => members'[t] = members[t]
    <3>1. 1..tag \subseteq DOMAIN members
      BY <1>1
    <3> QED
      BY <1>1, <2>1, <3>1
  <2>6. \A t \in 1..tag : \A n \in members[t] : n.entry \in DOMAIN pool
    BY DEF HubInv
  <2>7. \A t \in 1..tag' : \A n \in members'[t] : n.entry \in DOMAIN pool'
    BY <1>1, <2>2, <2>4, <2>5, <2>6
  <2>8. \A t \in 1..tag' : t # tag' => Closed(graph', members'[t], pool', tags'[t])
    BY <1>1, <2>2, <2>5, <2>6, ClosedStays DEF HubInv
  <2>9. WorklistInv'
    <3>1. tag \in 1..tag /\ WorklistInv
      BY <1>1 DEF HubInv
    <3>2. \A n \in members[tag] : Called(graph, pool', n) = Called(graph, pool, n)
      BY <2>2, <2>6, <3>1 DEF Called
    <3>3. ToSet(tags'[tag'].roots) \cup UNION {Called(graph', pool', n) : n \in members'[tag']} \subseteq queued'
      BY <1>1, <2>1, <2>3, <2>5, <3>1, <3>2 DEF WorklistInv
    <3>4. \A r : Served(r) => Served(r)'
      BY <1>1, <2>5 DEF Served
    <3>5. Served(k)' /\ Served(r0)'
      <4>1. Serves(m, r0, tags[tag])
        BY <1>1, <1>2, <2>1, KeyServes
      <4> QED
        <5>1. m \in members'[tag'] /\ tags'[tag'] = tags[tag]
          BY <1>1, <2>5
        <5>2. \E n \in members'[tag'] : Serves(n, k, tags'[tag'])
          BY <2>1, <5>1
        <5>3. \E n \in members'[tag'] : Serves(n, r0, tags'[tag'])
          BY <4>1, <5>1
        <5> QED
          BY <5>2, <5>3 DEF Served
    <3>6. ASSUME NEW r \in queued' PROVE r \in ToSet(pending') \/ Served(r)'
      <4>1. CASE r \in queued
        <5>1. r \in ToSet(pending) \/ Served(r)
          BY <3>1, <4>1 DEF WorklistInv
        <5>2. CASE Served(r)
          BY <3>4, <5>2
        <5>3. CASE r = r0
          BY <3>5, <5>3
        <5> QED
          BY <1>2, <2>3, <5>1, <5>2, <5>3
      <4>2. CASE r \notin queued
        BY <2>3, <4>2
      <4> QED
        BY <4>1, <4>2
    <3>7. \A q \in resolved' : Served(q)'
      BY <2>3, <3>1, <3>4, <3>5 DEF WorklistInv
    <3> QED
      BY <3>3, <3>6, <3>7 DEF WorklistInv
  <2> QED
    BY <1>1, <2>7, <2>8, <2>9 DEF HubInv
<1> QED
  BY <1>1, <1>3, <1>4

LEMMA HubStart ==
  ASSUME TypeInv, HubInv, StartTag
  PROVE  HubInv'
<1>1. /\ tag' = tag + 1 /\ tags' = tags /\ graph' = graph /\ pool' = pool /\ pc' = "work" /\ pending = <<>> /\ resolved' = {}
      /\ pending' = Unseen(tags[tag + 1].roots, {}) /\ queued' = ToSet(tags[tag + 1].roots)
      /\ members' = Append(members, {}) /\ tag \in 0..Len(tags) /\ tag < Len(tags) /\ tags \in Seq(DepsTag)
      /\ members \in Seq(SUBSET Member) /\ Len(members) = tag
  BY DEF StartTag, HubInv, TypeInv, WorkInv, world, evaluation
<1>2. members'[tag + 1] = {} /\ \A t \in 1..tag : members'[t] = members[t]
  BY <1>1
<1>3. \A t \in 1..tag' : \A m \in members'[t] : m.entry \in DOMAIN pool'
  <2>1. \A t \in 1..tag' : t = tag + 1 \/ t \in 1..tag
    BY <1>1
  <2> QED
    BY <1>1, <1>2, <2>1 DEF HubInv
<1>4. \A t \in 1..tag' : t # tag' => Closed(graph', members'[t], pool', tags'[t])
  <2>1. \A t \in 1..tag' : t # tag' => t \in 1..tag
    BY <1>1
  <2>2. \A t \in 1..tag : Closed(graph, members[t], pool, tags[t])
    BY <1>1, WorklistDone DEF HubInv
  <2> QED
    BY <1>1, <1>2, <2>1, <2>2
<1>5. WorklistInv'
  <2> DEFINE roots == tags[tag + 1].roots
  <2>1. roots \in Seq(Ref)
    <3>1. tag + 1 \in 1..Len(tags)
      BY <1>1
    <3>2. tags[tag + 1] \in DepsTag
      BY <1>1, <3>1
    <3> QED
      BY <3>2 DEF DepsTag
  <2>2. pending' = Unseen(roots, {}) /\ queued' = ToSet(roots) /\ tags'[tag'].roots = roots /\ members'[tag'] = {}
    BY <1>1, <1>2
  <2> HIDE DEF roots
  <2>3. ToSet(Unseen(roots, {})) = ToSet(roots)
    <3>1. ToSet(Unseen(roots, {})) = ToSet(roots) \ {}
      BY <2>1, UnseenOnce
    <3> QED
      BY <3>1
  <2> QED
    BY <1>1, <2>2, <2>3 DEF WorklistInv
<1> QED
  BY <1>1, <1>3, <1>4, <1>5 DEF HubInv

LEMMA HubNext ==
  ASSUME TypeInv, HubInv, [Next]_vars
  PROVE  HubInv'
<1>1. CASE UNCHANGED <<evaluation, work, product>> /\ (pc' = "tag" => pending = <<>>)
  <2>1. graph' = graph
    BY WorldStep DEF TypeInv
  <2>2. WorklistInv => WorklistInv'
    BY <1>1, <2>1 DEF WorklistInv, Served, evaluation, work, product
  <2> QED
    BY <1>1, <2>1, <2>2 DEF HubInv, evaluation, work, product
<1>2. CASE Quiet \/ FinishTag \/ Finish
  BY <1>1, <1>2 DEF Quiet, FinishTag, Finish, HubInv
<1>3. ASSUME NEW list \in TagLists, NEW up \in BOOLEAN, Evaluate(list, up) PROVE HubInv'
  BY <1>3 DEF Evaluate, HubInv
<1> QED
  BY <1>2, <1>3, HubStart, HubTaken, Cases

LEMMA HubsClosedIs ==
  HubsClosed <=>
    \A t \in 1..Len(last.members) : Closed(graph, last.members[t], last.pool, last.tags[t])
BY DEF HubsClosed, Closed, Called, _external_refs

\* A hub that an evaluation declares serves all that is called within it.
THEOREM HubsAreClosed == Spec => []HubsClosed
<1>1. Init => HubInv /\ HubsClosed
  BY DEF Init, HubInv, HubsClosed
<1>2. TypeInv /\ HubInv /\ [Next]_vars => HubInv'
  BY HubNext
<1>3. TypeInv /\ HubInv /\ HubsClosed /\ [Next]_vars => HubsClosed'
  <2> SUFFICES ASSUME TypeInv, HubInv, HubsClosed, [Next]_vars PROVE HubsClosed'
    OBVIOUS
  <2>1. graph' = graph
    BY WorldStep DEF TypeInv
  <2>2. CASE last' = last
    <3>1. \A t \in 1..Len(last.members) : Closed(graph, last.members[t], last.pool, last.tags[t])
      BY HubsClosedIs
    <3>2. \A t \in 1..Len(last'.members) : Closed(graph', last'.members[t], last'.pool, last'.tags[t])
      BY <2>1, <2>2, <3>1
    <3> QED
      BY <3>2 DEF HubsClosed, Closed, Called, _external_refs
  <2>3. CASE Finish
    <3>1. /\ last'.members = members /\ last'.pool = pool /\ last'.tags = tags
          /\ pending = <<>> /\ Len(members) = tag /\ tag \in Nat
      BY <2>3 DEF Finish, HubInv, TypeInv, WorkInv
    <3>2. \A t \in 1..Len(members) : Closed(graph, members[t], pool, tags[t])
      BY <3>1, WorklistDone DEF HubInv
    <3>3. \A t \in 1..Len(last'.members) : Closed(graph', last'.members[t], last'.pool, last'.tags[t])
      BY <2>1, <3>1, <3>2
    <3> QED
      BY <3>3 DEF HubsClosed, Closed, Called, _external_refs
  <2> QED
    BY <2>2, <2>3, Cases DEF Quiet, FinishTag, StartTag, Evaluate, Takes, Pop, recorded
<1> QED
  BY <1>1, <1>2, <1>3, Typed, PTL DEF Spec

-------------------------------------------------------------------------------
(***************************************************************************)
(* One registry for each registry module                                    *)
(***************************************************************************)

\* `asks` has, for each source, the registries of the hubs that may come to it.
IsAsking(asks, g) ==
  /\ asks \in [Source -> SUBSET Registry]
  /\ \A list \in TagLists : \A i \in DOMAIN list :
       \A r \in ToSet(list[i].roots) : list[i].registry \in asks[r.source]
  /\ \A s \in Source, v \in Version, d \in Sub :
       \A r \in ToSet(g[<<s, v, d>>]) : asks[s] \subseteq asks[r.source]
  /\ \A s \in RegistrySource : \A x, y \in asks[s] : x = y

\* No two hubs come to one registry module and name different registries: the
\* facts and the pool do not tell their archives apart (PoolFromItsRegistry).
OneRegistryEach == \A g \in Graphs : \E asks : IsAsking(asks, g)

Asks(g) == CHOOSE asks : IsAsking(asks, g)

FromIsAsked(g, a) == a.source \in Remote \/ a.from \in Asks(g)[a.source]

FactsAreAsked(g, F) == \A k \in DOMAIN F.module : F.module[k].full => FromIsAsked(g, F.module[k].archive)

PoolIsAsked(g, p) == \A e \in DOMAIN p : p[e].archive.from = e.from /\ FromIsAsked(g, p[e].archive)

\* What is queued is asked of the tag's registry, and what is recorded or pooled
\* came from a registry it is asked of.
AskInv ==
  /\ graph \in Graphs /\ tags \in TagLists \cup {<<>>}
  /\ FactsAreAsked(graph, facts) /\ FactsAreAsked(graph, newFacts)
  /\ PoolIsAsked(graph, pool) /\ PoolIsAsked(graph, last.pool)
  /\ pc = "work" => \A r \in queued : registry \in Asks(graph)[r.source]

LEMMA AsksIs ==
  ASSUME OneRegistryEach, NEW g \in Graphs
  PROVE  IsAsking(Asks(g), g)
BY DEF OneRegistryEach, Asks

\* A fact that is taken is of the archive that its pool entry names.
LEMMA TakenIsAsked ==
  ASSUME OneRegistryEach, TypeInv, AskInv, NEW k \in Key, Takes(k), NEW fact, NewFact(k, fact)
  PROVE  /\ registry \in Asks(graph)[k.source]
         /\ FromIsAsked(graph, fact.archive)
         /\ fact.archive.from = _pool_key(fact.pin).from
<1>1. /\ WorldInv /\ RecordedInv /\ WorkInv /\ pc = "work" /\ Meets(ref, k) /\ ref \in Ref /\ ref \in queued
      /\ fact \in ModuleFact(k, What(k)) /\ Fits(head, graph, k, fact)
  <2>1. pending \in Seq(Ref) /\ pending # <<>> /\ ToSet(pending) \subseteq queued
    BY DEF Takes, Popping, TypeInv, WorkInv
  <2>2. ref \in Ref /\ ref \in ToSet(pending)
    BY <2>1, HeadOf DEF ref
  <2> QED
    BY <2>1, <2>2, PoolGrows DEF Takes, TypeInv, Popping, NewFact
<1>2. registry \in Asks(graph)[k.source]
  BY <1>1 DEF AskInv, Meets
<1>3. /\ Real(fact.pin) /\ fact.pin.source = k.source /\ fact.archive = Made(head, fact.pin, fact.archive.from)
      /\ k.source \in Source
  BY <1>1 DEF Fits, Key, Ref
<1>4. fact.archive.source = k.source /\ (k.source \in Remote => fact.archive.from = k.source)
  BY <1>3 DEF Made, Archive
<1>5. _pool_key(fact.pin).from = IF k.source \in Remote THEN k.source ELSE registry
  BY <1>1, <1>3, PoolKeyIs
<1>6. FromIsAsked(graph, fact.archive)
  <2>1. CASE FactKnown(k)
    BY <1>1, <2>1, FactFits DEF AskInv, FactsAreAsked, FactKnown
  <2>2. CASE ~FactKnown(k)
    <3>1. fact.archive = Made(head, What(k), registry) /\ What(k).source = k.source
      <4>1. fact = Fresh(head, graph, What(k), registry, k)
        BY <1>1, <2>2, FactFits
      <4> QED
        BY <1>1, <4>1, WhatIsReal DEF Fresh
    <3>2. k.source \in Remote \/ fact.archive.from = registry
      BY <3>1 DEF Made, Archive
    <3> QED
      BY <1>2, <1>4, <3>2 DEF FromIsAsked
  <2> QED
    BY <2>1, <2>2
<1>7. k.source \notin Remote => fact.archive.from = registry
  <2> SUFFICES ASSUME k.source \notin Remote PROVE fact.archive.from = registry
    OBVIOUS
  <2>1. IsAsking(Asks(graph), graph)
    BY AsksIs DEF AskInv
  <2>2. k.source \in RegistrySource /\ fact.archive.from \in Asks(graph)[k.source]
    BY <1>3, <1>4, <1>6 DEF Source, FromIsAsked
  <2> QED
    BY <1>2, <2>1, <2>2 DEF IsAsking
<1> QED
  BY <1>2, <1>4, <1>5, <1>6, <1>7

LEMMA AskTaken ==
  ASSUME OneRegistryEach, TypeInv, AskInv, NEW k \in Key, Takes(k)
  PROVE  AskInv'
<1>1. /\ graph' = graph /\ UNCHANGED <<tags, facts, last>> /\ registry' = registry /\ pc' = "work" /\ pc = "work"
      /\ (Recall(k) \/ \E fact : NewFact(k, fact))
  BY DEF Takes, Pop, world, recorded, evaluation, registry, Popping
<1>2. CASE Recall(k)
  <2>1. UNCHANGED <<queued, pool, newFacts.module>>
    BY <1>2 DEF Recall, Skip
  <2> QED
    BY <1>1, <2>1 DEF AskInv, FactsAreAsked
<1>3. ASSUME NEW fact, NewFact(k, fact) PROVE AskInv'
  <2> DEFINE entry == _pool_key(fact.pin)
  <2>1. /\ registry \in Asks(graph)[k.source] /\ FromIsAsked(graph, fact.archive)
        /\ fact.archive.from = entry.from
    BY <1>3, TakenIsAsked
  <2>2. /\ DOMAIN pool' = (DOMAIN pool) \cup {entry}
        /\ \A e \in DOMAIN pool : pool'[e].archive = pool[e].archive
        /\ entry \notin DOMAIN pool => pool'[entry] = [archive |-> fact.archive, subs |-> {k.sub}]
        /\ Fits(head, graph, k, fact)
    BY <1>3, PoolGrows
  <2> HIDE DEF entry
  <2>3. PoolIsAsked(graph, pool')
    BY <2>1, <2>2 DEF AskInv, PoolIsAsked
  <2>4. FactsAreAsked(graph, newFacts')
    <3>1. newFacts'.module = At(newFacts.module, k, fact)
      BY <1>3 DEF NewFact
    <3> QED
      BY <2>1, <3>1 DEF AskInv, FactsAreAsked, At
  <2>5. \A r \in queued' : registry \in Asks(graph)[r.source]
    <3>1. queued' = queued \cup ToSet(fact.deps)
      BY <1>3, Queues
    <3>2. fact.deps = graph[<<fact.archive.source, fact.archive.version, k.sub>>] /\ fact.archive \in Unpacked /\ k.sub \in Sub
      BY <2>2 DEF Fits, Fact, Key, Ref
    <3>3. fact.archive.source = k.source
      BY <2>2 DEF Fits, Made, Archive
    <3>4. \A r \in ToSet(fact.deps) : Asks(graph)[k.source] \subseteq Asks(graph)[r.source]
      <4>1. IsAsking(Asks(graph), graph)
        BY AsksIs DEF AskInv
      <4> QED
        BY <3>2, <3>3, <4>1 DEF IsAsking, Unpacked
    <3> QED
      BY <1>1, <2>1, <3>1, <3>4 DEF AskInv
  <2> QED
    BY <1>1, <2>3, <2>4, <2>5 DEF AskInv
<1> QED
  BY <1>1, <1>2, <1>3

LEMMA AskNext ==
  ASSUME OneRegistryEach, TypeInv, AskInv, [Next]_vars
  PROVE  AskInv'
<1>1. graph' = graph
  BY WorldStep DEF TypeInv
<1>2. CASE Quiet
  BY <1>1, <1>2 DEF Quiet, AskInv, recorded, evaluation, work, product, registry
<1>3. CASE FinishTag
  BY <1>1, <1>3 DEF FinishTag, AskInv, recorded, evaluation, work, product
<1>4. CASE Finish
  <2>1. /\ facts' = newFacts /\ last'.pool = pool /\ UNCHANGED <<tags, newFacts, pool>> /\ pc' = "done"
    BY <1>4 DEF Finish, evaluation, product
  <2> QED
    BY <1>1, <2>1 DEF AskInv
<1>5. ASSUME NEW list \in TagLists, NEW up \in BOOLEAN, Evaluate(list, up) PROVE AskInv'
  <2>1. /\ tags' = list /\ newFacts' = NoFacts /\ pool' = <<>> /\ UNCHANGED <<facts, last>> /\ pc' = "tag"
    BY <1>5 DEF Evaluate
  <2>2. DOMAIN NoFacts.module = {} /\ DOMAIN <<>> = {}
    BY DEF NoFacts
  <2> QED
    BY <1>1, <2>1, <2>2 DEF AskInv, FactsAreAsked, PoolIsAsked
<1>6. CASE StartTag
  <2>1. /\ UNCHANGED <<tags, newFacts, pool, facts, last>> /\ tag' = tag + 1 /\ tag + 1 \in 1..Len(tags)
        /\ queued' = ToSet(tags[tag + 1].roots) /\ tags \in Seq(DepsTag)
    BY <1>6 DEF StartTag, recorded, evaluation, TypeInv, WorkInv
  <2>2. tags \in TagLists /\ tag + 1 \in DOMAIN tags
    BY <2>1 DEF AskInv
  <2>3. IsAsking(Asks(graph), graph)
    BY AsksIs DEF AskInv
  <2>4. \A r \in queued' : registry' \in Asks(graph)[r.source]
    BY <2>1, <2>2, <2>3 DEF IsAsking, registry
  <2> QED
    BY <1>1, <2>1, <2>4 DEF AskInv
<1> QED
  BY <1>2, <1>3, <1>4, <1>5, <1>6, AskTaken, Cases

LEMMA AskInit == Init => AskInv
<1> SUFFICES ASSUME Init PROVE AskInv
  OBVIOUS
<1>1. PICK w \in Worlds : facts = w.facts
  BY DEF Init
<1>2. \A k \in DOMAIN facts.module : ~facts.module[k].full
  BY <1>1, InputsAssumption
<1>3. DOMAIN NoFacts.module = {} /\ DOMAIN <<>> = {}
  BY DEF NoFacts
<1> QED
  BY <1>2, <1>3 DEF Init, AskInv, FactsAreAsked, PoolIsAsked

\* Every archive recorded or pooled is from a registry that its module is
\* asked of, so facts and pool entries that look alike are alike.
THEOREM Asked == OneRegistryEach /\ Spec => []AskInv
<1> SUFFICES ASSUME OneRegistryEach PROVE Spec => []AskInv
  OBVIOUS
<1>1. Init => AskInv
  BY AskInit
<1>2. TypeInv /\ AskInv /\ [Next]_vars => AskInv'
  BY AskNext
<1> QED
  BY <1>1, <1>2, Typed, PTL DEF Spec

\* Where the hubs that come to a registry module name one registry, the pool
\* never has its archive under the name of another.
THEOREM PoolSafety == OneRegistryEach /\ Spec => []PoolFromItsRegistry
<1> SUFFICES ASSUME OneRegistryEach PROVE Spec => []PoolFromItsRegistry
  OBVIOUS
<1>1. AskInv => PoolFromItsRegistry
  BY DEF AskInv, PoolIsAsked, PoolFromItsRegistry
<1> QED
  BY <1>1, Asked, PTL

-------------------------------------------------------------------------------
(***************************************************************************)
(* Pins                                                                     *)
(***************************************************************************)
Working == pc \in {"tag", "work"}

\* While upstream stands still a key that is not recorded has one answer.
Stands(k) == ~FactKnown(k) =>
  newFacts.module[k] = Fresh(head, graph, What(k), newFacts.module[k].archive.from, k)

IsPinned(p, k, f) ==
  \E e \in DOMAIN p : PinOf(e) = f.pin /\ p[e].archive = f.archive /\ k.sub \in p[e].subs

IsRecorded(F, e, a, s) ==
  \E k \in DOMAIN F.module : k.sub = s /\ F.module[k].pin = PinOf(e) /\ F.module[k].archive = a

\* What an evaluation has pinned so far: an answer that was recorded is given
\* again, each new fact's archive is pooled, and what is pooled has a fact.
PinInv == Working =>
  /\ \A q \in DOMAIN newFacts.version : ~upgrade /\ q \in DOMAIN facts.version => newFacts.version[q] = facts.version[q]
  /\ \A k \in DOMAIN newFacts.module :
       /\ FactKnown(k) => newFacts.module[k] = facts.module[k]
       /\ IsPinned(pool, k, newFacts.module[k])
       /\ since = moves => Stands(k)
  /\ since = moves => \A e \in DOMAIN pool : \A s \in pool[e].subs : IsRecorded(newFacts, e, pool[e].archive, s)

LEMMA FreshFrom ==
  ASSUME NEW h, NEW g, NEW what, NEW reg, NEW k
  PROVE  /\ Fresh(h, g, what, reg, k) = Fresh(h, g, what, Fresh(h, g, what, reg, k).archive.from, k)
         /\ what.source \in Remote => \A other : Fresh(h, g, what, other, k) = Fresh(h, g, what, reg, k)
<1>1. \A other : what.source \in Remote => Made(h, what, other) = Made(h, what, reg)
  BY DEF Made
<1>2. Fresh(h, g, what, reg, k).archive = Made(h, what, reg)
  BY DEF Fresh
<1>3. Made(h, what, reg).from = IF what.source \in Remote THEN what.source ELSE reg
  BY DEF Made, Archive
<1>4. \A other : Made(h, what, other) = Made(h, what, reg) => Fresh(h, g, what, other, k) = Fresh(h, g, what, reg, k)
  BY DEF Fresh
<1> QED
  BY <1>1, <1>2, <1>3, <1>4

\* While upstream stands still, a key taken again has the fact it had.
LEMMA SameFact ==
  ASSUME OneRegistryEach, TypeInv, AskInv, PinInv, NEW k \in Key, Takes(k), NEW fact, NewFact(k, fact)
  PROVE  /\ FactKnown(k) => fact = facts.module[k]
         /\ ~FactKnown(k) => fact = Fresh(head, graph, What(k), fact.archive.from, k)
         /\ since = moves /\ k \in DOMAIN newFacts.module => newFacts.module[k] = fact
<1>1. /\ WorldInv /\ RecordedInv /\ WorkInv /\ ProductInv /\ pc = "work" /\ fact \in ModuleFact(k, What(k))
  BY DEF Takes, TypeInv, Popping, NewFact
<1>2. /\ FactKnown(k) => fact = facts.module[k]
      /\ ~FactKnown(k) => fact = Fresh(head, graph, What(k), registry, k)
  BY <1>1, FactFits
<1>3. ~FactKnown(k) => fact = Fresh(head, graph, What(k), fact.archive.from, k)
  BY <1>2, FreshFrom
<1>4. ASSUME since = moves, k \in DOMAIN newFacts.module, ~FactKnown(k)
      PROVE  newFacts.module[k] = fact
  <2> DEFINE old == newFacts.module[k]
  <2>1. old = Fresh(head, graph, What(k), old.archive.from, k)
    BY <1>1, <1>4 DEF PinInv, Working, Stands
  <2>2. What(k).source = k.source /\ k.source \in Source
    BY <1>1, WhatIsReal DEF Key, Ref
  <2>3. CASE k.source \in Remote
    BY <1>2, <1>4, <2>1, <2>2, <2>3, FreshFrom
  <2>4. CASE k.source \in RegistrySource /\ k.source \notin Remote
    <3>1. old.archive.from \in Asks(graph)[k.source]
      <4>1. old.full /\ FromIsAsked(graph, old.archive)
        BY <1>1, <1>4 DEF ProductInv, AskInv, FactsAreAsked
      <4>2. old.archive.source = k.source
        <5>1. old.archive = Made(head, What(k), old.archive.from)
          BY <2>1 DEF Fresh
        <5> QED
          BY <2>2, <5>1 DEF Made, Archive
      <4> QED
        BY <2>4, <4>1, <4>2 DEF FromIsAsked
    <3>2. registry \in Asks(graph)[k.source]
      BY TakenIsAsked
    <3>3. IsAsking(Asks(graph), graph)
      BY AsksIs DEF AskInv
    <3>4. old.archive.from = registry
      BY <2>4, <3>1, <3>2, <3>3 DEF IsAsking
    <3> HIDE DEF old
    <3> QED
      BY <1>2, <1>4, <2>1, <3>4 DEF old
  <2> QED
    BY <2>2, <2>3, <2>4 DEF Source
<1> QED
  BY <1>1, <1>2, <1>3, <1>4 DEF PinInv, Working

LEMMA PinTaken ==
  ASSUME OneRegistryEach, TypeInv, AskInv, PinInv, NEW k \in Key, Takes(k)
  PROVE  PinInv'
<1>1. /\ UNCHANGED <<facts, upgrade, since, moves, head, graph>> /\ pc' = pc /\ pc = "work" /\ Answer(k)
      /\ (Recall(k) \/ \E fact : NewFact(k, fact))
  BY DEF Takes, Pop, Popping, world, recorded, evaluation
<1>2. \A q : FactKnown(q)' <=> FactKnown(q)
  BY <1>1 DEF FactKnown
<1>3. \A q : What(q)' = What(q)
  BY <1>1 DEF What, _git_pin
<1>4. \A q \in DOMAIN newFacts'.version : ~upgrade /\ q \in DOMAIN facts.version => newFacts'.version[q] = facts.version[q]
  <2>1. ASSUME NEW v \in _resolved_version(ref), newFacts'.version = At(newFacts.version, _resolution_fact_key(ref), v)
        PROVE  \A q \in DOMAIN newFacts'.version : ~upgrade /\ q \in DOMAIN facts.version => newFacts'.version[q] = facts.version[q]
    BY <1>1, <2>1 DEF PinInv, Working, At, _resolved_version, ResolutionKnown
  <2> QED
    BY <1>1, <2>1 DEF Answer, PinInv, Working
<1>5. CASE Recall(k)
  <2>1. newFacts'.module = newFacts.module /\ pool' = pool
    BY <1>5 DEF Recall, Skip
  <2> QED
    BY <1>1, <1>2, <1>3, <1>4, <2>1 DEF PinInv, Working, Stands, IsRecorded
<1>6. ASSUME NEW fact, NewFact(k, fact) PROVE PinInv'
  <2> DEFINE entry == _pool_key(fact.pin)
  <2>1. newFacts'.module = At(newFacts.module, k, fact)
    BY <1>6 DEF NewFact
  <2>2. /\ FactKnown(k) => fact = facts.module[k]
        /\ ~FactKnown(k) => fact = Fresh(head, graph, What(k), fact.archive.from, k)
        /\ since = moves /\ k \in DOMAIN newFacts.module => newFacts.module[k] = fact
    BY <1>6, SameFact
  <2>3. /\ DOMAIN pool' = (DOMAIN pool) \cup {entry}
        /\ \A e \in DOMAIN pool : pool'[e].archive = pool[e].archive /\ pool[e].subs \subseteq pool'[e].subs
        /\ \A e \in DOMAIN pool : e # entry => pool'[e] = pool[e]
        /\ entry \in DOMAIN pool => pool'[entry].subs = pool[entry].subs \cup {k.sub}
        /\ entry \notin DOMAIN pool => pool'[entry] = [archive |-> fact.archive, subs |-> {k.sub}]
        /\ k.sub \in pool'[entry].subs
    BY <1>6, PoolGrows
  <2>4. PinOf(entry) = fact.pin /\ pool'[entry].archive = fact.archive
    <3>1. /\ Fits(head, graph, k, fact) /\ WorkInv /\ pc = "work" /\ IsStock(head, pool')
      BY <1>1, <1>6, PoolGrows DEF TypeInv
    <3>2. Real(fact.pin) /\ fact.archive = Made(head, fact.pin, fact.archive.from)
      BY <3>1 DEF Fits
    <3>3. PinOf(entry) = fact.pin
      BY <3>1, <3>2, PoolKeyIs
    <3>4. fact.archive.from = entry.from
      BY <1>6, TakenIsAsked
    <3>5. pool'[entry].archive.from = entry.from
      BY <2>3, <3>4 DEF AskInv, PoolIsAsked
    <3>6. pool'[entry].archive = Made(head, PinOf(entry), pool'[entry].archive.from)
      BY <2>3, <3>1 DEF IsStock
    <3> QED
      BY <3>2, <3>3, <3>4, <3>5, <3>6
  <2> HIDE DEF entry
  <2>5. /\ DOMAIN newFacts'.module = (DOMAIN newFacts.module) \cup {k} /\ newFacts'.module[k] = fact
        /\ \A q \in DOMAIN newFacts.module : q # k => newFacts'.module[q] = newFacts.module[q]
    BY <2>1 DEF At
  <2>6. \A q \in DOMAIN newFacts'.module : FactKnown(q) => newFacts'.module[q] = facts.module[q]
    BY <1>1, <2>2, <2>5 DEF PinInv, Working
  <2>7. \A q \in DOMAIN newFacts'.module : IsPinned(pool', q, newFacts'.module[q])
    <3>1. IsPinned(pool', k, fact)
      BY <2>3, <2>4 DEF IsPinned
    <3>2. \A q \in DOMAIN newFacts.module : IsPinned(pool', q, newFacts.module[q])
      BY <1>1, <2>3 DEF PinInv, Working, IsPinned
    <3> QED
      BY <2>5, <3>1, <3>2
  <2>8. ASSUME since = moves, NEW q \in DOMAIN newFacts'.module, ~FactKnown(q)
        PROVE  newFacts'.module[q] = Fresh(head, graph, What(q), newFacts'.module[q].archive.from, q)
    BY <1>1, <2>2, <2>5, <2>8 DEF PinInv, Working, Stands
  <2>9. ASSUME since = moves, NEW e \in DOMAIN pool', NEW s \in pool'[e].subs
        PROVE  IsRecorded(newFacts', e, pool'[e].archive, s)
    <3>1. CASE e \in DOMAIN pool /\ s \in pool[e].subs
      <4>1. IsRecorded(newFacts, e, pool[e].archive, s)
        BY <1>1, <2>9, <3>1 DEF PinInv, Working
      <4>2. \A q \in DOMAIN newFacts.module : newFacts'.module[q] = newFacts.module[q]
        BY <2>2, <2>5, <2>9
      <4> QED
        BY <2>3, <2>5, <3>1, <4>1, <4>2 DEF IsRecorded
    <3>2. CASE ~(e \in DOMAIN pool /\ s \in pool[e].subs)
      <4>1. e = entry /\ s = k.sub
        BY <2>3, <2>9, <3>2
      <4> QED
        BY <2>4, <2>5, <4>1 DEF IsRecorded
    <3> QED
      BY <3>1, <3>2
  <2>10. \A q \in DOMAIN newFacts'.module : since = moves => Stands(q)'
    BY <1>1, <1>2, <1>3, <2>8 DEF Stands
  <2> QED
    BY <1>1, <1>2, <1>4, <2>6, <2>7, <2>9, <2>10 DEF PinInv, Working
<1> QED
  BY <1>1, <1>5, <1>6

LEMMA PinNext ==
  ASSUME OneRegistryEach, TypeInv, AskInv, PinInv, [Next]_vars
  PROVE  PinInv'
<1>1. ASSUME NEW k \in Key, Takes(k) PROVE PinInv'
  BY <1>1, PinTaken
<1>2. CASE UNCHANGED <<head, graph, facts, upgrade, newFacts, pool>> /\ (pc' \in {"tag", "work"} => pc \in {"tag", "work"})
           /\ (since' = moves' => since = moves)
  <2>1. \A q : FactKnown(q)' <=> FactKnown(q)
    BY <1>2 DEF FactKnown
  <2>2. \A q : What(q)' = What(q)
    BY <1>2 DEF What, _git_pin
  <2> QED
    BY <1>2, <2>1, <2>2 DEF PinInv, Working, Stands, IsRecorded
<1>3. ASSUME NEW list \in TagLists, NEW up \in BOOLEAN, Evaluate(list, up) PROVE PinInv'
  <2>1. DOMAIN NoFacts.version = {} /\ DOMAIN NoFacts.module = {} /\ DOMAIN <<>> = {}
    BY DEF NoFacts
  <2> QED
    BY <1>3, <2>1 DEF Evaluate, PinInv
<1>4. CASE Finish
  BY <1>4 DEF Finish, PinInv, Working
<1>5. CASE MayMove
  <2>1. since' # moves'
    BY <1>5 DEF MayMove, evaluation, TypeInv, WorldInv
  <2>2. \A q : FactKnown(q)' <=> FactKnown(q)
    BY <1>5 DEF FactKnown, MayMove, recorded, evaluation
  <2> QED
    BY <1>5, <2>1, <2>2 DEF MayMove, recorded, evaluation, product, PinInv, Working
<1>6. CASE StartTag \/ FinishTag \/ Fail \/ Interrupt \/ UNCHANGED vars
  BY <1>2, <1>6 DEF StartTag, FinishTag, Fail, Interrupt, vars, recorded, evaluation, product, world
<1> QED
  BY <1>1, <1>3, <1>4, <1>5, <1>6, PopTakes DEF Next, Publish, Withdraw, MoveBranch, Over

-------------------------------------------------------------------------------
(***************************************************************************)
(* The module half implements Pinning                                       *)
(***************************************************************************)
Record(k, f) == [pin |-> f.pin, archive |-> f.archive, sub |-> k.sub]

Recording(F, git) ==
  [k \in {k \in DOMAIN F.module : F.module[k].full /\ isGit(k) = git} |-> Record(k, F.module[k])]

Pooling(p) == UNION {{[pin |-> PinOf(e), archive |-> p[e].archive, sub |-> s] : s \in p[e].subs} : e \in DOMAIN p}

LEMMA RecordedIs == Recorded(TRUE) = Recording(facts, TRUE) /\ Recorded(FALSE) = Recording(facts, FALSE)
BY DEF Recorded, Recording, Record

LEMMA RecordingKeeps ==
  ASSUME NEW F, NEW G, NEW git \in BOOLEAN,
         \A k \in DOMAIN F.module \cap DOMAIN G.module : F.module[k].full /\ isGit(k) = git => G.module[k] = F.module[k]
  PROVE  Pins!Keeps(Recording(F, git), Recording(G, git))
BY DEF Pins!Keeps, Recording, Record

\* What is pooled is what is recorded: of a fact, the pool has the archive;
\* and of the pool, while upstream stands still, a fact.
LEMMA PooledIs ==
  ASSUME NEW F, NEW p, \A k \in DOMAIN F.module : F.module[k].full
  PROVE  LET kept == {Recording(F, TRUE)[k] : k \in DOMAIN Recording(F, TRUE)}
                     \cup {Recording(F, FALSE)[k] : k \in DOMAIN Recording(F, FALSE)}
         IN /\ (\A k \in DOMAIN F.module : IsPinned(p, k, F.module[k])) => kept \subseteq Pooling(p)
            /\ (\A e \in DOMAIN p : \A s \in p[e].subs : IsRecorded(F, e, p[e].archive, s)) => Pooling(p) \subseteq kept
<1> DEFINE kept == {Recording(F, TRUE)[k] : k \in DOMAIN Recording(F, TRUE)}
                   \cup {Recording(F, FALSE)[k] : k \in DOMAIN Recording(F, FALSE)}
<1>1. kept = {Record(k, F.module[k]) : k \in DOMAIN F.module}
  <2>1. \A k : isGit(k) \in BOOLEAN
    BY DEF isGit
  <2>2. \A git \in BOOLEAN : /\ DOMAIN Recording(F, git) = {k \in DOMAIN F.module : isGit(k) = git}
                             /\ \A k \in DOMAIN Recording(F, git) : Recording(F, git)[k] = Record(k, F.module[k])
    BY DEF Recording
  <2>3. \A k \in DOMAIN F.module : k \in DOMAIN Recording(F, TRUE) \/ k \in DOMAIN Recording(F, FALSE)
    BY <2>1, <2>2
  <2> QED
    BY <2>2, <2>3
<1> HIDE DEF kept
<1>2. ASSUME \A k \in DOMAIN F.module : IsPinned(p, k, F.module[k])
      PROVE  kept \subseteq Pooling(p)
  BY <1>1, <1>2 DEF IsPinned, Record, Pooling
<1>3. ASSUME \A e \in DOMAIN p : \A s \in p[e].subs : IsRecorded(F, e, p[e].archive, s)
      PROVE  Pooling(p) \subseteq kept
  BY <1>1, <1>3 DEF IsRecorded, Record, Pooling
<1> QED
  BY <1>2, <1>3 DEF kept

\* An answer, once recorded, is the answer until an upgrade asks anew; what is
\* not movable is the answer for ever; and each fact's archive is declared.
THEOREM PinningSafety == OneRegistryEach /\ Spec => KeepsItsPins
<1> SUFFICES ASSUME OneRegistryEach PROVE Spec => KeepsItsPins
  OBVIOUS
<1>1. Init => PinInv
  BY DEF Init, PinInv, Working
<1>2. TypeInv /\ AskInv /\ PinInv /\ [Next]_vars => PinInv'
  BY PinNext
<1>3. Init => Pins!Init
  <2> SUFFICES ASSUME Init PROVE Pins!Init
    OBVIOUS
  <2>1. DOMAIN last.pool = {} /\ upgrade \in BOOLEAN
    <3>1. last.pool = <<>> /\ upgrade = FALSE
      BY DEF Init
    <3>2. DOMAIN <<>> = {}
      OBVIOUS
    <3> QED
      BY <3>1, <3>2
  <2> QED
    BY <2>1 DEF Pins!Init
<1>4. TypeInv /\ PinInv /\ [Next]_vars => [Pins!Next]_<<upgrade, Pins!pins>>
  <2> SUFFICES ASSUME TypeInv, PinInv, [Next]_vars PROVE [Pins!Next]_<<upgrade, Pins!pins>>
    OBVIOUS
  <2>1. CASE UNCHANGED <<facts, last>>
    <3>1. UNCHANGED Pins!pins
      BY <2>1 DEF Pins!pins, Recorded
    <3>2. upgrade' = upgrade \/ upgrade' \in BOOLEAN
      BY Cases DEF Quiet, FinishTag, StartTag, Finish, Evaluate, Takes, Pop, evaluation
    <3> QED
      BY <3>1, <3>2 DEF Pins!Next, Pins!Ask
  <2>2. CASE Finish
    <3>1. /\ facts' = newFacts /\ last'.pool = pool /\ last'.still = (since = moves) /\ upgrade' = upgrade /\ pc = "tag"
      BY <2>2 DEF Finish, evaluation
    <3>2. ~upgrade => Pins!Keeps(facts.version, facts'.version)
      BY <3>1 DEF Pins!Keeps, PinInv, Working
    <3>3. \A git \in BOOLEAN : (git = FALSE \/ ~upgrade) => Pins!Keeps(Recording(facts, git), Recording(newFacts, git))
      BY <3>1, RecordingKeeps DEF PinInv, Working, FactKnown
    <3>4. /\ \A k \in DOMAIN newFacts.module : newFacts.module[k].full
          /\ \A k \in DOMAIN newFacts.module : IsPinned(pool, k, newFacts.module[k])
          /\ since = moves => \A e \in DOMAIN pool : \A s \in pool[e].subs : IsRecorded(newFacts, e, pool[e].archive, s)
      BY <3>1 DEF PinInv, Working, TypeInv, ProductInv
    <3> DEFINE kept == {Recording(newFacts, TRUE)[k] : k \in DOMAIN Recording(newFacts, TRUE)}
                       \cup {Recording(newFacts, FALSE)[k] : k \in DOMAIN Recording(newFacts, FALSE)}
    <3>5. kept \subseteq Pooling(pool) /\ (since = moves => kept = Pooling(pool))
      BY <3>4, PooledIs
    <3>6. Pins!archives' = kept
      BY <3>1 DEF Pins!archives, Recorded, Recording, Record
    <3> HIDE DEF kept
    <3>7. \A git \in BOOLEAN : Recording(newFacts, git) = Recording(facts', git) /\ Recording(facts, git) = Recorded(git)
      BY <3>1 DEF Recorded, Recording, Record
    <3>8. \A git \in BOOLEAN : (git = FALSE \/ ~upgrade) => Pins!Keeps(Recorded(git), Recording(facts', git))
      BY <3>3, <3>7
    <3>9. Recorded(TRUE)' = Recording(facts', TRUE) /\ Recorded(FALSE)' = Recording(facts', FALSE)
      BY DEF Recorded, Recording, Record
    <3>10. (~upgrade => Pins!Keeps(Recorded(TRUE), Recorded(TRUE)')) /\ Pins!Keeps(Recorded(FALSE), Recorded(FALSE)')
      BY <3>8, <3>9
    <3>11. kept \subseteq Pooling(last'.pool) /\ (last'.still => Pooling(last'.pool) = kept)
      BY <3>1, <3>5
    <3> QED
      BY <3>1, <3>2, <3>6, <3>10, <3>11 DEF Pins!Next, Pins!Settle, Pooling, PinOf
  <2> QED
    BY <2>1, <2>2, Cases DEF Quiet, FinishTag, StartTag, Evaluate, Takes, Pop, recorded
<1> QED
  BY <1>1, <1>2, <1>3, <1>4, Typed, Asked, PTL DEF Spec, KeepsItsPins, Pins!Spec

-------------------------------------------------------------------------------
(***************************************************************************)
(* The worklist, as the facts replay it                                     *)
(***************************************************************************)
PoolKey(reg, pin) ==
  [from |-> IF pin.source \in Remote THEN pin.source ELSE reg,
   source |-> pin.source, version |-> pin.version, tag |-> pin.tag]

MemberOf(reg, k, f) == [entry |-> PoolKey(reg, f.pin), sub |-> k.sub]

Asking(reg, r) == [registry |-> reg, source |-> r.source, want |-> r.want]

\* The key the facts give a reference.
Determines(F, reg, r, k) ==
  IF isGit(r) THEN k = _git_fact_key(r)
  ELSE IF r.kind = "range" THEN Asking(reg, r) \in DOMAIN F.version /\ k = _fact_key(r, F.version[Asking(reg, r)])
  ELSE \E v \in r.want : k = _fact_key(r, v)

StartOf(roots) == [pending |-> Unseen(roots, {}), queued |-> ToSet(roots), resolved |-> {}, members |-> {}]

Recalls(k, x, y) ==
  /\ k \in x.resolved
  /\ y = [pending |-> Tail(x.pending), queued |-> x.queued, resolved |-> x.resolved, members |-> x.members]

Learns(F, reg, k, x, y) ==
  /\ k \notin x.resolved /\ k \in DOMAIN F.module /\ F.module[k].full
  /\ isGit(Head(x.pending)) => ~Head(x.pending).versioned
  /\ y = [pending |-> Tail(x.pending) \o Unseen(F.module[k].deps, x.queued),
          queued |-> x.queued \cup ToSet(Unseen(F.module[k].deps, x.queued)),
          resolved |-> x.resolved \cup {k},
          members |-> x.members \cup {MemberOf(reg, k, F.module[k])}]

\* One reference of the worklist x, all of it from the facts.
Replays(F, reg, x, y) ==
  /\ x.pending # <<>>
  /\ \E k \in Key : Determines(F, reg, Head(x.pending), k) /\ (Recalls(k, x, y) \/ Learns(F, reg, k, x, y))

Walk(F, reg, roots, W, n) ==
  /\ W[0] = StartOf(roots)
  /\ \A i \in 0..(n - 1) : Replays(F, reg, W[i], W[i + 1])

Reaches(F, reg, roots, x, n) == \E W : Walk(F, reg, roots, W, n) /\ W[n] = x

\* The whole of a tag's worklist.
Whole(F, t, hub, W, n) ==
  /\ Walk(F, t.registry, t.roots, W, n) /\ n \in Nat /\ n <= Limit
  /\ W[n].pending = <<>> /\ W[n].members = hub

Current == [pending |-> pending, queued |-> queued, resolved |-> resolved, members |-> members[tag]]

Named(list, t) == list[t].name \notin Reserved \cup {list[n].name : n \in 1..(t - 1)}

Grows(F, G) ==
  /\ DOMAIN F.version \subseteq DOMAIN G.version /\ \A q \in DOMAIN F.version : G.version[q] = F.version[q]
  /\ DOMAIN F.module \subseteq DOMAIN G.module /\ \A k \in DOMAIN F.module : G.module[k] = F.module[k]

LEMMA ReplaysGrow ==
  ASSUME NEW F, NEW G, Grows(F, G), NEW reg, NEW x, NEW y, Replays(F, reg, x, y)
  PROVE  Replays(G, reg, x, y)
<1>1. \A r, k : Determines(F, reg, r, k) => Determines(G, reg, r, k)
  BY DEF Determines, Grows
<1>2. \A k : Learns(F, reg, k, x, y) => Learns(G, reg, k, x, y)
  BY DEF Learns, Grows
<1> QED
  BY <1>1, <1>2 DEF Replays

LEMMA WalkGrows ==
  ASSUME NEW F, NEW G, Grows(F, G), NEW reg, NEW roots, NEW W, NEW n, Walk(F, reg, roots, W, n)
  PROVE  Walk(G, reg, roots, W, n)
BY ReplaysGrow DEF Walk

LEMMA ReachesGrow ==
  ASSUME NEW F, NEW G, Grows(F, G), NEW reg, NEW roots, NEW x, NEW n, Reaches(F, reg, roots, x, n)
  PROVE  Reaches(G, reg, roots, x, n)
BY WalkGrows DEF Reaches

LEMMA ReachesOn ==
  ASSUME NEW F, NEW reg, NEW roots, NEW n \in Nat, NEW x, NEW y, Reaches(F, reg, roots, x, n), Replays(F, reg, x, y)
  PROVE  Reaches(F, reg, roots, y, n + 1)
<1> PICK W : Walk(F, reg, roots, W, n) /\ W[n] = x
  BY DEF Reaches
<1> DEFINE V == [i \in 0..(n + 1) |-> IF i = n + 1 THEN y ELSE W[i]]
<1>1. V[n + 1] = y /\ \A i \in 0..n : V[i] = W[i]
  OBVIOUS
<1> HIDE DEF V
<1>2. V[0] = StartOf(roots)
  BY <1>1 DEF Walk
<1>3. ASSUME NEW i \in 0..n PROVE Replays(F, reg, V[i], V[i + 1])
  <2>1. CASE i = n
    BY <1>1, <2>1
  <2>2. CASE i # n
    <3>1. i \in 0..(n - 1) /\ i \in 0..n /\ i + 1 \in 0..n
      BY <2>2
    <3>2. Replays(F, reg, W[i], W[i + 1])
      BY <3>1 DEF Walk
    <3> QED
      BY <1>1, <3>1, <3>2
  <2> QED
    BY <2>1, <2>2
<1>4. (n + 1) - 1 = n
  OBVIOUS
<1> QED
  BY <1>1, <1>2, <1>3, <1>4 DEF Walk, Reaches

\* Taking a reference replays it, once what was learnt is counted among the facts.
LEMMA TakeReplays ==
  ASSUME TypeInv, NEW k \in Key, Takes(k)
  PROVE  Replays(newFacts', registry, Current, Current')
<1>1. /\ WorkInv /\ ProductInv /\ pc = "work" /\ pending # <<>> /\ Meets(ref, k) /\ Answer(k) /\ tag' = tag
      /\ (Recall(k) \/ \E fact : NewFact(k, fact))
  BY DEF Takes, TypeInv, Popping, Pop
<1>2. Determines(newFacts', registry, ref, k)
  <2>1. CASE isGit(ref)
    BY <1>1, <2>1 DEF Meets, Determines
  <2>2. CASE ~isGit(ref) /\ ref.kind = "range"
    <3>1. PICK v \in _resolved_version(ref) :
            k = _fact_key(ref, v) /\ newFacts'.version = At(newFacts.version, _resolution_fact_key(ref), v)
      BY <1>1, <2>2 DEF Answer
    <3>2. _resolution_fact_key(ref) = Asking(registry, ref)
      BY DEF _resolution_fact_key, Asking
    <3>3. Asking(registry, ref) \in DOMAIN newFacts'.version /\ newFacts'.version[Asking(registry, ref)] = v
      BY <3>1, <3>2 DEF At
    <3> QED
      BY <2>2, <3>1, <3>3 DEF Determines
  <2>3. CASE ~isGit(ref) /\ ref.kind # "range"
    BY <1>1, <2>3 DEF Meets, Determines
  <2> QED
    BY <2>1, <2>2, <2>3
<1>3. CASE Recall(k)
  <2>1. Recalls(k, Current, Current')
    BY <1>1, <1>3 DEF Recall, Skip, Recalls, Current
  <2> QED
    BY <1>1, <1>2, <2>1 DEF Replays, Current, ref
<1>4. ASSUME NEW fact, NewFact(k, fact) PROVE Replays(newFacts', registry, Current, Current')
  <2>1. newFacts'.module[k] = fact /\ k \in DOMAIN newFacts'.module
    BY <1>4 DEF NewFact, At
  <2>2. fact.full = TRUE
    <3>1. Fits(head, graph, k, fact)
      BY <1>4, PoolGrows
    <3> QED
      BY <3>1 DEF Fits, Fact
  <2>3. /\ k \notin resolved /\ resolved' = resolved \cup {k}
        /\ pending' = Tail(pending) \o Unseen(fact.deps, queued)
        /\ queued' = queued \cup ToSet(Unseen(fact.deps, queued))
        /\ isGit(ref) => ~ref.versioned
    BY <1>4 DEF NewFact, Settle
  <2>4. members'[tag'] = members[tag] \cup {MemberOf(registry, k, fact)}
    <3>1. members' = [members EXCEPT ![tag] = @ \cup {[entry |-> _pool_key(fact.pin), sub |-> k.sub]}]
      BY <1>4 DEF NewFact, Settle
    <3>2. members \in Seq(SUBSET Member) /\ tag \in 1..Len(members)
      BY <1>1, RegistryIs DEF WorkInv
    <3>3. MemberOf(registry, k, fact) = [entry |-> _pool_key(fact.pin), sub |-> k.sub]
      BY DEF MemberOf, PoolKey, _pool_key
    <3> HIDE DEF MemberOf
    <3> QED
      BY <1>1, <3>1, <3>2, <3>3
  <2>5. Learns(newFacts', registry, k, Current, Current')
    BY <2>1, <2>2, <2>3, <2>4 DEF Learns, Current, ref
  <2> QED
    BY <1>1, <1>2, <2>5 DEF Replays, Current, ref
<1> QED
  BY <1>1, <1>3, <1>4

\* While upstream stands still a constraint that is not recorded has one answer.
IsNewest(q, v) ==
  /\ v \in published[<<q.registry, q.source>>] \cap q.want
  /\ \A w \in published[<<q.registry, q.source>>] \cap q.want : w <= v

\* What a constraint was found to mean, while upstream stands still.
VersionInv == Working /\ since = moves =>
  \A q \in DOMAIN newFacts.version :
    IF ~upgrade /\ q \in DOMAIN facts.version THEN newFacts.version[q] = facts.version[q] ELSE IsNewest(q, newFacts.version[q])

LEMMA VersionTaken ==
  ASSUME TypeInv, VersionInv, NEW k \in Key, Takes(k), since = moves
  PROVE  /\ VersionInv'
         /\ DOMAIN newFacts.version \subseteq DOMAIN newFacts'.version
         /\ \A q \in DOMAIN newFacts.version : newFacts'.version[q] = newFacts.version[q]
<1>1. /\ UNCHANGED <<facts, upgrade, since, moves, published>> /\ pc' = pc /\ pc = "work" /\ Answer(k)
      /\ WorkInv /\ WorldInv
  BY DEF Takes, Pop, Popping, world, recorded, evaluation, TypeInv
<1>2. CASE newFacts'.version = newFacts.version
  BY <1>1, <1>2 DEF VersionInv, Working, IsNewest
<1>3. ASSUME NEW v \in _resolved_version(ref), newFacts'.version = At(newFacts.version, _resolution_fact_key(ref), v)
      PROVE  /\ VersionInv'
             /\ DOMAIN newFacts.version \subseteq DOMAIN newFacts'.version
             /\ \A q \in DOMAIN newFacts.version : newFacts'.version[q] = newFacts.version[q]
  <2> PICK p : p = _resolution_fact_key(ref)
    OBVIOUS
  <2>1. p.registry = registry /\ p.source = ref.source /\ p.want = ref.want
    BY DEF _resolution_fact_key
  <2>2. IF ~upgrade /\ p \in DOMAIN facts.version THEN v = facts.version[p] ELSE IsNewest(p, v)
    BY <1>3, <2>1 DEF _resolved_version, ResolutionKnown, resolve_version, IsNewest
  <2>3. p \in DOMAIN newFacts.version => newFacts.version[p] = v
    <3> SUFFICES ASSUME p \in DOMAIN newFacts.version, ~(~upgrade /\ p \in DOMAIN facts.version)
                 PROVE  newFacts.version[p] = v
      BY <1>1, <2>2 DEF VersionInv, Working
    <3>1. IsNewest(p, v) /\ IsNewest(p, newFacts.version[p])
      BY <1>1, <2>2 DEF VersionInv, Working
    <3>2. published[<<p.registry, p.source>>] \cap p.want \subseteq Nat
      <4>1. ref \in Ref /\ registry \in Registry
        <5>1. pending \in Seq(Ref) /\ pending # <<>>
          BY DEF Takes, Popping, TypeInv, WorkInv
        <5> QED
          BY <1>1, <5>1, HeadOf, RegistryIs DEF ref
      <4>2. p.want \subseteq Version
        BY <2>1, <4>1 DEF Ref
      <4> QED
        BY <4>2, InputsAssumption
    <3>3. v \in Nat /\ newFacts.version[p] \in Nat /\ v <= newFacts.version[p] /\ newFacts.version[p] <= v
      BY <3>1, <3>2 DEF IsNewest
    <3> QED
      BY <3>3
  <2>4. newFacts'.version = At(newFacts.version, p, v)
    BY <1>3
  <2>5. \A q \in DOMAIN newFacts.version : newFacts'.version[q] = newFacts.version[q]
    BY <2>3, <2>4 DEF At
  <2>6. DOMAIN newFacts'.version = (DOMAIN newFacts.version) \cup {p} /\ newFacts'.version[p] = v
    BY <2>4 DEF At
  <2>7. \A q, w : IsNewest(q, w)' <=> IsNewest(q, w)
    BY <1>1 DEF IsNewest
  <2>8. VersionInv'
    BY <1>1, <2>2, <2>5, <2>6, <2>7 DEF VersionInv, Working
  <2> QED
    BY <2>5, <2>6, <2>8
<1> QED
  BY <1>1, <1>2, <1>3 DEF Answer

LEMMA FactsGrow ==
  ASSUME OneRegistryEach, TypeInv, AskInv, PinInv, VersionInv, NEW k \in Key, Takes(k), since = moves
  PROVE  Grows(newFacts, newFacts')
<1>1. /\ DOMAIN newFacts.version \subseteq DOMAIN newFacts'.version
      /\ \A q \in DOMAIN newFacts.version : newFacts'.version[q] = newFacts.version[q]
  BY VersionTaken
<1>2. CASE Recall(k)
  BY <1>1, <1>2 DEF Recall, Grows
<1>3. ASSUME NEW fact, NewFact(k, fact) PROVE Grows(newFacts, newFacts')
  <2>1. newFacts'.module = At(newFacts.module, k, fact) /\ (k \in DOMAIN newFacts.module => newFacts.module[k] = fact)
    BY <1>3, SameFact DEF NewFact
  <2> QED
    BY <1>1, <2>1 DEF Grows, At
<1> QED
  BY <1>2, <1>3 DEF Takes

\* While upstream stands still, the facts replay every worklist there was.
TraceInv == Working /\ since = moves =>
  /\ \A t \in 1..tag : Named(tags, t)
  /\ \A t \in 1..tag : t # tag => \E W, n : Whole(newFacts, tags[t], members[t], W, n)
  /\ tag # 0 => Reaches(newFacts, registry, tags[tag].roots, Current, pops)

LEMMA TraceDone ==
  ASSUME TypeInv, TraceInv, Working, since = moves, tag # 0, pending = <<>>
  PROVE  \E W, n : Whole(newFacts, tags[tag], members[tag], W, n)
<1>1. PICK W : Walk(newFacts, registry, tags[tag].roots, W, pops) /\ W[pops] = Current
  BY DEF TraceInv, Reaches
<1>2. pops \in Nat /\ pops <= Limit
  BY InputsAssumption DEF TypeInv, WorkInv
<1>3. Whole(newFacts, tags[tag], members[tag], W, pops)
  BY <1>1, <1>2 DEF Whole, Current, registry
<1> QED
  BY <1>3

LEMMA TraceTaken ==
  ASSUME OneRegistryEach, TypeInv, AskInv, PinInv, VersionInv, TraceInv, NEW k \in Key, Takes(k)
  PROVE  TraceInv'
<1>1. /\ UNCHANGED <<tags, tag, since, moves>> /\ pc' = pc /\ pc = "work" /\ pops' = pops + 1 /\ registry' = registry
      /\ WorkInv /\ tag \in 1..Len(tags) /\ pops \in Nat
  BY RegistryIs, InputsAssumption DEF Takes, Pop, Popping, world, evaluation, TypeInv, WorkInv, registry
<1> SUFFICES ASSUME since = moves PROVE TraceInv'
  BY <1>1 DEF TraceInv
<1>2. Grows(newFacts, newFacts')
  BY FactsGrow
<1>3. \A t \in 1..tag : t # tag => members'[t] = members[t]
  <2>1. members' = members \/ \E m : members' = [members EXCEPT ![tag] = m]
    BY DEF Takes, Recall, Skip, NewFact, Settle
  <2>2. 1..tag \subseteq DOMAIN members
    BY <1>1 DEF WorkInv
  <2> QED
    BY <2>1, <2>2
<1>4. \A t \in 1..tag : t # tag => \E W, n : Whole(newFacts', tags[t], members[t], W, n)
  BY <1>1, <1>2, WalkGrows DEF TraceInv, Working, Whole
<1>5. Reaches(newFacts, registry, tags[tag].roots, Current, pops)
  BY <1>1 DEF TraceInv, Working
<1>6. Reaches(newFacts', registry, tags[tag].roots, Current, pops)
  BY <1>2, <1>5, ReachesGrow
<1>7. Replays(newFacts', registry, Current, Current')
  BY TakeReplays
<1>8. Reaches(newFacts', registry, tags[tag].roots, Current', pops + 1)
  BY <1>1, <1>6, <1>7, ReachesOn
<1> QED
  BY <1>1, <1>3, <1>4, <1>8 DEF TraceInv, Working

LEMMA TraceStart ==
  ASSUME TypeInv, HubInv, TraceInv, StartTag
  PROVE  TraceInv'
<1>1. /\ UNCHANGED <<tags, newFacts, since, moves>> /\ tag' = tag + 1 /\ pops' = 0 /\ claim_hub_name(tag + 1) /\ pc = "tag"
      /\ pending' = Unseen(tags[tag + 1].roots, {}) /\ queued' = ToSet(tags[tag + 1].roots)
      /\ resolved' = {} /\ members' = Append(members, {}) /\ members \in Seq(SUBSET Member) /\ Len(members) = tag /\ tag \in Nat
      /\ pending = <<>>
  BY DEF StartTag, world, evaluation, TypeInv, WorkInv, HubInv
<1> SUFFICES ASSUME since = moves PROVE TraceInv'
  BY <1>1 DEF TraceInv
<1>2. members'[tag + 1] = {} /\ \A t \in 1..tag : members'[t] = members[t]
  BY <1>1
<1>3. \A t \in 1..tag' : Named(tags', t)
  <2>1. Named(tags, tag + 1)
    BY <1>1 DEF claim_hub_name, Named
  <2>2. \A t \in 1..tag : Named(tags, t)
    BY <1>1 DEF TraceInv, Working
  <2>3. \A t \in 1..tag' : t = tag + 1 \/ t \in 1..tag
    BY <1>1
  <2> QED
    BY <1>1, <2>1, <2>2, <2>3
<1>4. \A t \in 1..tag' : t # tag' => \E W, n : Whole(newFacts', tags'[t], members'[t], W, n)
  <2>1. \A t \in 1..tag : \E W, n : Whole(newFacts, tags[t], members[t], W, n)
    BY <1>1, TraceDone DEF TraceInv, Working
  <2>2. \A t \in 1..tag' : t # tag' => t \in 1..tag
    BY <1>1
  <2> QED
    BY <1>1, <1>2, <2>1, <2>2
<1>5. Reaches(newFacts', registry', tags'[tag'].roots, Current', pops')
  <2> DEFINE V == [i \in {0} |-> StartOf(tags[tag + 1].roots)]
  <2>1. V[0] = StartOf(tags[tag + 1].roots) /\ 0..(0 - 1) = {}
    OBVIOUS
  <2>2. Current' = StartOf(tags[tag + 1].roots)
    BY <1>1, <1>2 DEF Current, StartOf
  <2> HIDE DEF V
  <2>3. Walk(newFacts', registry', tags[tag + 1].roots, V, 0)
    BY <2>1 DEF Walk
  <2>4. Reaches(newFacts', registry', tags[tag + 1].roots, Current', 0)
    BY <2>1, <2>2, <2>3 DEF Reaches
  <2> QED
    BY <1>1, <2>4
<1> QED
  BY <1>3, <1>4, <1>5 DEF TraceInv

\* What the last evaluation handed on replays all its worklists.
LastInv == last.still =>
  \A t \in 1..Len(last.tags) :
    /\ Named(last.tags, t)
    /\ \E W, n : Whole(facts, last.tags[t], last.members[t], W, n)

LEMMA LastNext ==
  ASSUME TypeInv, HubInv, TraceInv, LastInv, [Next]_vars
  PROVE  LastInv'
<1>1. CASE UNCHANGED <<facts, last>>
  BY <1>1 DEF LastInv
<1>2. CASE Finish
  <2>1. /\ facts' = newFacts /\ last'.tags = tags /\ last'.members = members /\ last'.still = (since = moves)
        /\ pc = "tag" /\ tag = Len(tags) /\ pending = <<>>
    BY <1>2 DEF Finish, HubInv
  <2> SUFFICES ASSUME since = moves
               PROVE  \A t \in 1..Len(tags) : Named(tags, t) /\ \E W, n : Whole(newFacts, tags[t], members[t], W, n)
    BY <2>1 DEF LastInv
  <2> QED
    BY <2>1, TraceDone DEF TraceInv, Working
<1> QED
  BY <1>1, <1>2, Cases DEF Quiet, FinishTag, StartTag, Evaluate, Takes, Pop, recorded

LEMMA TraceNext ==
  ASSUME OneRegistryEach, TypeInv, HubInv, AskInv, PinInv, VersionInv, TraceInv, [Next]_vars
  PROVE  TraceInv' /\ VersionInv'
<1>1. ASSUME NEW k \in Key, Takes(k) PROVE TraceInv' /\ VersionInv'
  <2>1. since' = since /\ moves' = moves
    BY <1>1 DEF Takes, Pop, world, evaluation
  <2>2. VersionInv'
    BY <1>1, <2>1, VersionTaken DEF VersionInv
  <2> QED
    BY <1>1, <2>2, TraceTaken
<1>2. CASE /\ UNCHANGED <<tags, upgrade, facts, newFacts, members, pending, queued, resolved, tag, pops, published>>
           /\ (Working' => Working) /\ (since' = moves' => since = moves)
  <2>1. registry' = registry /\ Current' = Current
    BY <1>2 DEF registry, Current
  <2>2. TraceInv'
    BY <1>2, <2>1 DEF TraceInv
  <2>3. VersionInv'
    BY <1>2 DEF VersionInv, IsNewest
  <2> QED
    BY <2>2, <2>3
<1>3. ASSUME NEW list \in TagLists, NEW up \in BOOLEAN, Evaluate(list, up) PROVE TraceInv' /\ VersionInv'
  <2>1. DOMAIN NoFacts.version = {}
    BY DEF NoFacts
  <2> QED
    BY <1>3, <2>1 DEF Evaluate, TraceInv, VersionInv
<1>4. CASE Finish
  BY <1>4 DEF Finish, TraceInv, VersionInv, Working
<1>5. CASE MayMove
  <2>1. since' # moves'
    BY <1>5 DEF MayMove, evaluation, TypeInv, WorldInv
  <2> QED
    BY <2>1 DEF TraceInv, VersionInv
<1>6. CASE FinishTag \/ Fail \/ Interrupt \/ UNCHANGED vars
  BY <1>2, <1>6 DEF FinishTag, Fail, Interrupt, vars, recorded, evaluation, product, world, work, Working
<1>7. CASE StartTag
  <2>1. VersionInv'
    BY <1>7 DEF StartTag, VersionInv, IsNewest, Working, world, recorded, evaluation
  <2> QED
    BY <1>7, <2>1, TraceStart
<1> QED
  BY <1>1, <1>3, <1>4, <1>5, <1>6, <1>7, PopTakes DEF Next, Publish, Withdraw, MoveBranch, Over

-------------------------------------------------------------------------------
(***************************************************************************)
(* The pool is that of the hubs' members                                    *)
(***************************************************************************)
AllOf(hubs) == UNION {hubs[t] : t \in DOMAIN hubs}

IsPoolOf(p, hubs) ==
  /\ p = [e \in DOMAIN p |-> [archive |-> p[e].archive, subs |-> p[e].subs]]
  /\ DOMAIN p = {m.entry : m \in AllOf(hubs)}
  /\ \A e \in DOMAIN p : p[e].subs = {m.sub : m \in {m \in AllOf(hubs) : m.entry = e}}

\* Pools are determined by the members of their hubs.
MembersInv == IsPoolOf(pool, members) /\ IsPoolOf(last.pool, last.members)

LEMMA EmptyPool == IsPoolOf(<<>>, <<>>)
<1>1. DOMAIN <<>> = {}
  OBVIOUS
<1>2. <<>> = [e \in {} |-> [archive |-> <<>>[e].archive, subs |-> <<>>[e].subs]]
  OBVIOUS
<1>3. AllOf(<<>>) = {}
  BY <1>1 DEF AllOf
<1> QED
  BY <1>1, <1>2, <1>3 DEF IsPoolOf

\* Two pools of the same members are the same, as an archive is the one its
\* entry names.
LEMMA SamePool ==
  ASSUME NEW h, NEW g, NEW p, NEW q, NEW hubs, IsPoolOf(p, hubs), IsPoolOf(q, hubs),
         IsStock(h, p), IsStock(h, q), PoolIsAsked(g, p), PoolIsAsked(g, q)
  PROVE  p = q
<1>1. DOMAIN p = DOMAIN q
  BY DEF IsPoolOf
<1>2. \A e \in DOMAIN p : p[e].subs = q[e].subs
  BY <1>1 DEF IsPoolOf
<1>3. \A e \in DOMAIN p : p[e].archive = q[e].archive
  BY <1>1 DEF IsStock, PoolIsAsked
<1> QED
  BY <1>1, <1>2, <1>3 DEF IsPoolOf

LEMMA MembersTaken ==
  ASSUME TypeInv, MembersInv, NEW k \in Key, Takes(k)
  PROVE  MembersInv'
<1>1. /\ last' = last /\ WorkInv /\ tag \in 1..Len(members) /\ members \in Seq(SUBSET Member)
      /\ (Recall(k) \/ \E fact : NewFact(k, fact))
  BY RegistryIs DEF Takes, Pop, recorded, Popping, TypeInv, WorkInv
<1>2. CASE Recall(k)
  BY <1>1, <1>2 DEF Recall, Skip, MembersInv
<1>3. ASSUME NEW fact, NewFact(k, fact) PROVE MembersInv'
  <2> DEFINE entry == _pool_key(fact.pin)
             m == [entry |-> entry, sub |-> k.sub]
             subs == IF entry \in DOMAIN pool THEN pool[entry].subs ELSE {}
             archive == IF entry \in DOMAIN pool THEN pool[entry].archive ELSE fact.archive
  <2>1. pool' = At(pool, entry, [archive |-> archive, subs |-> subs \cup {k.sub}])
    BY <1>3 DEF NewFact, Settle
  <2>2. members' = [members EXCEPT ![tag] = @ \cup {m}]
    BY <1>3 DEF NewFact, Settle
  <2>3. m.entry = entry /\ m.sub = k.sub
    OBVIOUS
  <2> DEFINE value == [archive |-> archive, subs |-> subs \cup {k.sub}]
  <2>4. /\ pool' = At(pool, entry, value) /\ value = [archive |-> value.archive, subs |-> value.subs]
        /\ value.subs = subs \cup {k.sub}
    BY <2>1
  <2>5. subs = {n.sub : n \in {n \in AllOf(members) : n.entry = entry}}
    <3>1. CASE entry \in DOMAIN pool
      BY <3>1 DEF MembersInv, IsPoolOf
    <3>2. CASE entry \notin DOMAIN pool
      <4>1. \A n \in AllOf(members) : n.entry # entry
        BY <3>2 DEF MembersInv, IsPoolOf
      <4> QED
        BY <3>2, <4>1
    <3> QED
      BY <3>1, <3>2
  <2> HIDE DEF m, entry, value, subs, archive
  <2>6. AllOf(members') = AllOf(members) \cup {m}
    <3>1. DOMAIN members' = DOMAIN members /\ tag \in DOMAIN members
      BY <1>1, <2>2
    <3>2. \A t \in DOMAIN members : members'[t] = IF t = tag THEN members[t] \cup {m} ELSE members[t]
      BY <2>2, <3>1
    <3> QED
      BY <3>1, <3>2 DEF AllOf
  <2>7. /\ DOMAIN pool' = (DOMAIN pool) \cup {entry} /\ pool'[entry] = value
        /\ \A e \in DOMAIN pool : e # entry => pool'[e] = pool[e]
        /\ pool' = [e \in DOMAIN pool' |-> pool'[e]]
    BY <2>4 DEF At
  <2>8. pool' = [e \in DOMAIN pool' |-> [archive |-> pool'[e].archive, subs |-> pool'[e].subs]]
    <3>1. \A e \in DOMAIN pool : pool[e] = [archive |-> pool[e].archive, subs |-> pool[e].subs]
      BY DEF MembersInv, IsPoolOf
    <3>2. \A e \in DOMAIN pool' : pool'[e] = [archive |-> pool'[e].archive, subs |-> pool'[e].subs]
      BY <2>4, <2>7, <3>1
    <3> QED
      BY <2>7, <3>2
  <2>9. DOMAIN pool' = {n.entry : n \in AllOf(members')}
    BY <2>3, <2>6, <2>7 DEF MembersInv, IsPoolOf
  <2>10. ASSUME NEW e \in DOMAIN pool' PROVE pool'[e].subs = {n.sub : n \in {n \in AllOf(members') : n.entry = e}}
    <3>1. CASE e = entry
      BY <2>3, <2>4, <2>5, <2>6, <2>7, <3>1
    <3>2. CASE e # entry
      <4>1. e \in DOMAIN pool /\ pool'[e] = pool[e]
        BY <2>7, <3>2
      <4>2. {n \in AllOf(members') : n.entry = e} = {n \in AllOf(members) : n.entry = e}
        BY <2>3, <2>6, <3>2
      <4> QED
        BY <4>1, <4>2 DEF MembersInv, IsPoolOf
    <3> QED
      BY <3>1, <3>2
  <2> QED
    BY <1>1, <2>8, <2>9, <2>10 DEF MembersInv, IsPoolOf
<1> QED
  BY <1>1, <1>2, <1>3

LEMMA MembersNext ==
  ASSUME TypeInv, MembersInv, [Next]_vars
  PROVE  MembersInv'
<1>1. CASE Quiet \/ FinishTag
  BY <1>1 DEF Quiet, FinishTag, MembersInv, recorded, product
<1>2. CASE Finish
  BY <1>2 DEF Finish, MembersInv, product
<1>3. ASSUME NEW list \in TagLists, NEW up \in BOOLEAN, Evaluate(list, up) PROVE MembersInv'
  BY <1>3, EmptyPool DEF Evaluate, MembersInv
<1>4. CASE StartTag
  <2>1. members' = Append(members, {}) /\ members \in Seq(SUBSET Member) /\ UNCHANGED <<pool, last>>
    BY <1>4 DEF StartTag, recorded, TypeInv, WorkInv
  <2>2. AllOf(members') = AllOf(members)
    <3>1. /\ DOMAIN members' = (DOMAIN members) \cup {Len(members) + 1} /\ members'[Len(members) + 1] = {}
          /\ \A t \in DOMAIN members : members'[t] = members[t]
      BY <2>1
    <3> QED
      BY <3>1 DEF AllOf
  <2> QED
    BY <2>1, <2>2 DEF MembersInv, IsPoolOf
<1> QED
  BY <1>1, <1>2, <1>3, <1>4, MembersTaken, Cases

-------------------------------------------------------------------------------
(***************************************************************************)
(* A repeat replays the facts                                               *)
(***************************************************************************)
\* A repeat under way is a prefix of the walk by which its facts replay the tag.
RepeatInv == Working /\ Repeating /\ last.still =>
  /\ ~asked
  /\ \A t \in 1..tag : t # tag => members[t] = last.members[t]
  /\ tag # 0 => \E W, n : Whole(facts, tags[tag], last.members[tag], W, n) /\ pops <= n /\ W[pops] = Current

\* The key that the facts give the reference at hand is the one it is taken for.
LEMMA SameKey ==
  ASSUME ~upgrade, ref \in Ref, NEW k, NEW q, Determines(facts, registry, ref, q), Meets(ref, k), Answer(k)
  PROVE  k = q /\ (ref.kind = "range" => ResolutionKnown(ref))
<1>1. CASE isGit(ref)
  BY <1>1 DEF Meets, Determines, isGit
<1>2. CASE ~isGit(ref) /\ ref.kind = "range"
  <2>1. _resolution_fact_key(ref) = Asking(registry, ref)
    BY DEF _resolution_fact_key, Asking
  <2>2. Asking(registry, ref) \in DOMAIN facts.version /\ q = _fact_key(ref, facts.version[Asking(registry, ref)])
    BY <1>2 DEF Determines
  <2>3. ResolutionKnown(ref)
    BY <2>1, <2>2 DEF ResolutionKnown
  <2>4. PICK v \in _resolved_version(ref) : k = _fact_key(ref, v)
    BY <1>2 DEF Answer
  <2>5. v = facts.version[Asking(registry, ref)]
    BY <2>1, <2>3, <2>4 DEF _resolved_version
  <2> QED
    BY <2>2, <2>3, <2>4, <2>5
<1>3. CASE ~isGit(ref) /\ ref.kind # "range"
  <2>1. PICK v \in ref.want : k = _fact_key(ref, v)
    BY <1>3 DEF Meets
  <2>2. PICK w \in ref.want : q = _fact_key(ref, w)
    BY <1>3 DEF Determines
  <2>3. ref.kind = "exact"
    BY <1>3 DEF Ref, Kind, isGit
  <2>4. \E x \in Version : ref.want = {x}
    BY <2>3 DEF Ref
  <2> QED
    BY <1>3, <2>1, <2>2, <2>4
<1> QED
  BY <1>1, <1>2, <1>3

LEMMA ReplayTaken ==
  ASSUME TypeInv, NEW k \in Key, Takes(k), ~upgrade, NEW y, Replays(facts, registry, Current, y)
  PROVE  Current' = y /\ (asked' => asked)
<1>1. /\ pc = "work" /\ Meets(ref, k) /\ Answer(k) /\ tag' = tag /\ WorkInv
      /\ (Recall(k) \/ \E fact : NewFact(k, fact))
  BY DEF Takes, Popping, Pop, TypeInv
<1>2. ref \in Ref
  <2>1. pending \in Seq(Ref) /\ pending # <<>>
    BY DEF Takes, Popping, TypeInv, WorkInv
  <2> QED
    BY <2>1, HeadOf DEF ref
<1>3. PICK q \in Key : Determines(facts, registry, ref, q) /\ (Recalls(q, Current, y) \/ Learns(facts, registry, q, Current, y))
  BY DEF Replays, Current, ref
<1>4. k = q /\ ~Lookup
  BY <1>1, <1>2, <1>3, SameKey DEF Lookup
<1>5. CASE Recall(k)
  <2>1. Recalls(k, Current, y)
    BY <1>3, <1>4, <1>5 DEF Recall, Skip, Learns, Current
  <2> QED
    BY <1>1, <1>4, <1>5, <2>1 DEF Recall, Skip, Recalls, Current
<1>6. ASSUME NEW fact, NewFact(k, fact) PROVE Current' = y /\ (asked' => asked)
  <2>1. k \notin resolved
    BY <1>6 DEF NewFact, Settle
  <2>2. Learns(facts, registry, k, Current, y)
    BY <1>3, <1>4, <2>1 DEF Recalls, Current
  <2>3. FactKnown(k)
    BY <2>2 DEF Learns, FactKnown
  <2>4. fact = facts.module[k]
    BY <1>6, <2>3 DEF NewFact, ModuleFact
  <2>5. /\ resolved' = resolved \cup {k}
        /\ pending' = Tail(pending) \o Unseen(fact.deps, queued)
        /\ queued' = queued \cup ToSet(Unseen(fact.deps, queued))
    BY <1>6 DEF NewFact, Settle
  <2>6. members'[tag'] = members[tag] \cup {MemberOf(registry, k, fact)}
    <3>1. members' = [members EXCEPT ![tag] = @ \cup {[entry |-> _pool_key(fact.pin), sub |-> k.sub]}]
      BY <1>6 DEF NewFact, Settle
    <3>2. members \in Seq(SUBSET Member) /\ tag \in 1..Len(members)
      BY <1>1, RegistryIs DEF WorkInv
    <3>3. MemberOf(registry, k, fact) = [entry |-> _pool_key(fact.pin), sub |-> k.sub]
      BY DEF MemberOf, PoolKey, _pool_key
    <3> HIDE DEF MemberOf
    <3> QED
      BY <1>1, <3>1, <3>2, <3>3
  <2>7. Current' = y
    BY <2>2, <2>4, <2>5, <2>6 DEF Learns, Current
  <2> QED
    BY <1>4, <1>6, <2>3, <2>7 DEF NewFact
<1> QED
  BY <1>1, <1>5, <1>6

LEMMA ReplayResolves ==
  ASSUME TypeInv, pc = "work", pending # <<>>, ~upgrade, NEW y, Replays(facts, registry, Current, y)
  PROVE  ~Unresolvable(ref)
<1>1. PICK q \in Key : Determines(facts, registry, ref, q) /\ (Recalls(q, Current, y) \/ Learns(facts, registry, q, Current, y))
  BY DEF Replays, Current, ref
<1>2. ref \in Ref
  <2>1. pending \in Seq(Ref)
    BY DEF TypeInv, WorkInv
  <2> QED
    BY <2>1, HeadOf DEF ref
<1>3. q \in resolved \/ (ModuleFact(q, What(q)) # {} /\ FactKnown(q) /\ (isGit(ref) => ~ref.versioned))
  <2>1. CASE Recalls(q, Current, y)
    BY <2>1 DEF Recalls, Current
  <2>2. CASE Learns(facts, registry, q, Current, y)
    <3>1. FactKnown(q) /\ (isGit(ref) => ~ref.versioned)
      BY <2>2 DEF Learns, FactKnown, Current, ref
    <3> QED
      BY <3>1 DEF ModuleFact
  <2> QED
    BY <1>1, <2>1, <2>2
<1>4. CASE isGit(ref)
  BY <1>1, <1>3, <1>4 DEF Unresolvable, Determines
<1>5. CASE ~isGit(ref)
  <2>1. \E v : VersionOf(ref) = {v} /\ q = _fact_key(ref, v)
    <3>1. CASE ref.kind = "range"
      <4>1. _resolution_fact_key(ref) = Asking(registry, ref)
        BY DEF _resolution_fact_key, Asking
      <4>2. Asking(registry, ref) \in DOMAIN facts.version /\ q = _fact_key(ref, facts.version[Asking(registry, ref)])
        BY <1>1, <1>5, <3>1 DEF Determines
      <4>3. ResolutionKnown(ref)
        BY <4>1, <4>2 DEF ResolutionKnown
      <4> QED
        BY <3>1, <4>1, <4>2, <4>3 DEF VersionOf, _resolved_version
    <3>2. CASE ref.kind # "range"
      <4>1. ref.kind = "exact"
        BY <1>2, <1>5, <3>2 DEF Ref, Kind, isGit
      <4>2. \E x \in Version : ref.want = {x}
        BY <1>2, <4>1 DEF Ref
      <4> QED
        BY <1>1, <1>5, <3>2, <4>1, <4>2 DEF VersionOf, Determines
    <3> QED
      BY <3>1, <3>2
  <2>2. q \in resolved \/ \A what : ModuleFact(q, what) # {}
    BY <1>3 DEF ModuleFact
  <2> QED
    BY <1>5, <2>1, <2>2 DEF Unresolvable
<1> QED
  BY <1>4, <1>5

\* Before the worklist's end there is one more reference to replay.
LEMMA ReplayOn ==
  ASSUME TypeInv, RepeatInv, Working, Repeating, last.still, tag # 0
  PROVE  /\ pending = <<>> => members[tag] = last.members[tag]
         /\ pending # <<>> =>
              /\ pops < Limit
              /\ \E W, n : /\ Whole(facts, tags[tag], last.members[tag], W, n) /\ pops + 1 <= n /\ W[pops] = Current
                           /\ Replays(facts, registry, Current, W[pops + 1])
<1>1. PICK W, n : Whole(facts, tags[tag], last.members[tag], W, n) /\ pops <= n /\ W[pops] = Current
  BY DEF RepeatInv
<1>2. /\ n \in Nat /\ n <= Limit /\ W[n].pending = <<>> /\ W[n].members = last.members[tag]
      /\ \A i \in 0..(n - 1) : Replays(facts, registry, W[i], W[i + 1])
      /\ pops \in Nat /\ Limit \in Nat
  BY <1>1, InputsAssumption DEF Whole, Walk, registry, TypeInv, WorkInv
<1>3. Current.pending = pending /\ Current.members = members[tag]
  BY DEF Current
<1>4. ASSUME pops # n PROVE Replays(facts, registry, Current, W[pops + 1]) /\ pops + 1 <= n /\ pops < Limit
  <2>1. pops \in 0..(n - 1) /\ pops + 1 <= n /\ pops < Limit
    BY <1>1, <1>2, <1>4
  <2> QED
    BY <1>1, <1>2, <2>1
<1>5. CASE pending = <<>>
  <2>1. pops = n
    BY <1>3, <1>4, <1>5 DEF Replays
  <2> QED
    BY <1>1, <1>2, <1>3, <1>5, <2>1
<1>6. CASE pending # <<>>
  <2>1. pops # n
    BY <1>1, <1>2, <1>3, <1>6
  <2> QED
    BY <1>1, <1>4, <1>6, <2>1
<1> QED
  BY <1>5, <1>6

LEMMA RepeatTaken ==
  ASSUME TypeInv, RepeatInv, NEW k \in Key, Takes(k)
  PROVE  RepeatInv'
<1>1. /\ UNCHANGED <<tags, tag, upgrade, facts, last>> /\ pc' = pc /\ pc = "work" /\ pops' = pops + 1 /\ pending # <<>>
      /\ WorkInv /\ tag \in 1..Len(tags)
  BY RegistryIs DEF Takes, Pop, Popping, world, evaluation, recorded, TypeInv, WorkInv
<1> SUFFICES ASSUME Repeating, last.still PROVE RepeatInv'
  BY <1>1 DEF RepeatInv, Repeating
<1>2. PICK W, n : /\ Whole(facts, tags[tag], last.members[tag], W, n) /\ pops + 1 <= n /\ W[pops] = Current
                  /\ Replays(facts, registry, Current, W[pops + 1])
  BY <1>1, ReplayOn DEF Working
<1>3. Current' = W[pops + 1] /\ (asked' => asked)
  BY <1>1, <1>2, ReplayTaken DEF Repeating
<1>4. ~asked
  BY <1>1 DEF RepeatInv, Working
<1>5. \A t \in 1..tag : t # tag => members'[t] = last.members[t]
  <2>1. members' = members \/ \E m : members' = [members EXCEPT ![tag] = m]
    BY DEF Takes, Recall, Skip, NewFact, Settle
  <2>2. 1..tag \subseteq DOMAIN members
    BY <1>1 DEF WorkInv
  <2>3. \A t \in 1..tag : t # tag => members[t] = last.members[t]
    BY <1>1 DEF RepeatInv, Working
  <2> QED
    BY <2>1, <2>2, <2>3
<1>6. \E V, m : Whole(facts', tags'[tag'], last'.members[tag'], V, m) /\ pops' <= m /\ V[pops'] = Current'
  BY <1>1, <1>2, <1>3
<1> QED
  BY <1>1, <1>3, <1>4, <1>5, <1>6 DEF RepeatInv

LEMMA RepeatStart ==
  ASSUME TypeInv, HubInv, RepeatInv, LastInv, StartTag
  PROVE  RepeatInv'
<1>1. /\ UNCHANGED <<tags, upgrade, facts, last, asked>> /\ tag' = tag + 1 /\ pops' = 0 /\ pc = "tag"
      /\ pending' = Unseen(tags[tag + 1].roots, {}) /\ queued' = ToSet(tags[tag + 1].roots)
      /\ resolved' = {} /\ members' = Append(members, {}) /\ members \in Seq(SUBSET Member) /\ Len(members) = tag /\ tag \in Nat
      /\ pending = <<>> /\ tag + 1 \in 1..Len(tags)
  <2>1. tags \in Seq(DepsTag) /\ tag \in 0..Len(tags) /\ tag < Len(tags)
    BY DEF StartTag, TypeInv, WorkInv
  <2>2. tag + 1 \in 1..Len(tags) /\ tag \in Nat
    BY <2>1
  <2> QED
    BY <2>2 DEF StartTag, recorded, evaluation, TypeInv, WorkInv, HubInv
<1> SUFFICES ASSUME Repeating, last.still PROVE RepeatInv'
  BY <1>1 DEF RepeatInv, Repeating
<1>2. members'[tag + 1] = {} /\ \A t \in 1..tag : members'[t] = members[t]
  BY <1>1
<1>3. \A t \in 1..tag' : t # tag' => members'[t] = last'.members[t]
  <2>1. \A t \in 1..tag : members[t] = last.members[t]
    BY <1>1, ReplayOn DEF RepeatInv, Working
  <2>2. \A t \in 1..tag' : t # tag' => t \in 1..tag
    BY <1>1
  <2> QED
    BY <1>1, <1>2, <2>1, <2>2
<1>4. PICK W, n : Whole(facts, tags[tag + 1], last.members[tag + 1], W, n)
  BY <1>1 DEF LastInv, Repeating
<1>5. W[0] = Current' /\ 0 <= n
  <2>1. Current' = StartOf(tags[tag + 1].roots)
    BY <1>1, <1>2 DEF Current, StartOf
  <2> QED
    BY <1>4, <2>1 DEF Whole, Walk
<1>6. \E V, m : Whole(facts', tags'[tag'], last'.members[tag'], V, m) /\ pops' <= m /\ V[pops'] = Current'
  BY <1>1, <1>4, <1>5
<1>7. ~asked
  BY <1>1 DEF RepeatInv, Working
<1> QED
  BY <1>1, <1>3, <1>6, <1>7 DEF RepeatInv

LEMMA RepeatNext ==
  ASSUME TypeInv, HubInv, RepeatInv, LastInv, [Next]_vars
  PROVE  RepeatInv'
<1>1. CASE /\ UNCHANGED <<tags, upgrade, facts, last, asked, members, pending, queued, resolved, tag, pops>> /\ (Working' => Working)
  <2>1. Current' = Current
    BY <1>1 DEF Current
  <2> QED
    BY <1>1, <2>1 DEF RepeatInv, Repeating
<1>2. CASE Quiet \/ FinishTag
  BY <1>1, <1>2 DEF Quiet, FinishTag, recorded, evaluation, work, product, Working
<1>3. CASE Finish
  BY <1>3 DEF Finish, RepeatInv, Working
<1>4. ASSUME NEW list \in TagLists, NEW up \in BOOLEAN, Evaluate(list, up) PROVE RepeatInv'
  BY <1>4 DEF Evaluate, RepeatInv
<1> QED
  BY <1>2, <1>3, <1>4, RepeatStart, RepeatTaken, Cases

RepeatLocal ==
  Repeating /\ ~Resting /\ last.still =>
    /\ ~asked' /\ pc' # "failed"
    /\ Finishing => last'.pool = last.pool /\ last'.members = last.members

LEMMA RepeatStep ==
  ASSUME TypeInv, HubInv, AskInv, MembersInv, RepeatInv, LastInv, [Next]_vars
  PROVE  RepeatLocal
<1> SUFFICES ASSUME Repeating, ~Resting, last.still
             PROVE  /\ ~asked' /\ pc' # "failed"
                    /\ Finishing => last'.pool = last.pool /\ last'.members = last.members
  BY DEF RepeatLocal
<1>1. Working /\ pc \in {"tag", "work"} /\ tag \in 0..Len(tags) /\ tags \in Seq(DepsTag) /\ tag \in Nat
  BY DEF Resting, Working, TypeInv, WorkInv
<1>2. ~asked
  BY <1>1 DEF RepeatInv
<1>3. ~asked'
  <2>1. ASSUME NEW k \in Key, Takes(k) PROVE ~asked'
    <3>1. RepeatInv' /\ Working' /\ Repeating' /\ last'.still
      BY <1>1, <2>1, RepeatTaken DEF Takes, Pop, Working, Repeating, recorded, evaluation
    <3> QED
      BY <3>1 DEF RepeatInv
  <2> QED
    BY <1>1, <1>2, <2>1, Cases DEF Quiet, FinishTag, StartTag, Finish, Evaluate, Resting, product
<1>4. pc' # "failed"
  <2>1. ~(pc = "tag" /\ tag < Len(tags) /\ ~claim_hub_name(tag + 1))
    <3> SUFFICES ASSUME tag < Len(tags) PROVE claim_hub_name(tag + 1)
      OBVIOUS
    <3>1. tag + 1 \in 1..Len(tags)
      BY <1>1
    <3> QED
      BY <3>1 DEF LastInv, Repeating, Named, claim_hub_name
  <2>2. ~OverLimit /\ ~(Popping /\ Unresolvable(ref))
    <3> SUFFICES ASSUME pc = "work", pending # <<>> PROVE pops # Limit /\ ~Unresolvable(ref)
      BY DEF OverLimit, Popping
    <3>1. tag # 0
      BY DEF TypeInv, WorkInv
    <3>2. pops < Limit /\ \E y : Replays(facts, registry, Current, y)
      BY <1>1, <3>1, ReplayOn
    <3>3. ~Unresolvable(ref)
      <4>1. PICK y : Replays(facts, registry, Current, y)
        BY <3>2
      <4>2. ~upgrade
        BY DEF Repeating
      <4> QED
        BY <4>1, <4>2, ReplayResolves
    <3>4. pops # Limit
      BY <3>2, InputsAssumption DEF TypeInv, WorkInv
    <3> QED
      BY <3>3, <3>4
  <2>3. ~Fail
    BY <2>1, <2>2 DEF Fail
  <2>4. pc' = "failed" => Fail
    BY <1>1 DEF Next, vars, Publish, Withdraw, MoveBranch, MayMove, Evaluate, StartTag, FinishTag, Finish, ResolveRegistry, ResolveGit, Pop,
         Interrupt, Over, Resting
  <2> QED
    BY <2>3, <2>4
<1>5. ASSUME Finishing PROVE last'.pool = last.pool /\ last'.members = last.members
  <2>1. /\ last'.pool = pool /\ last'.members = members /\ tag = Len(tags) /\ pending = <<>> /\ tags = last.tags
    <3>1. Finish
      BY <1>5, OnlyFinish
    <3> QED
      BY <3>1 DEF Finish, HubInv, Repeating
  <2>2. members = last.members
    <3>1. /\ members \in Seq(SUBSET Member) /\ last.members \in Seq(SUBSET Member)
          /\ Len(members) = tag /\ Len(last.members) = tag
      BY <2>1 DEF TypeInv, WorkInv, RecordedInv
    <3>2. \A t \in 1..tag : members[t] = last.members[t]
      BY <1>1, <2>1, ReplayOn DEF RepeatInv
    <3> QED
      BY <3>1, <3>2
  <2>3. pool = last.pool
    <3>1. /\ IsPoolOf(pool, members) /\ IsPoolOf(last.pool, members)
          /\ IsStock(head, pool) /\ IsStock(head, last.pool)
          /\ PoolIsAsked(graph, pool) /\ PoolIsAsked(graph, last.pool)
      BY <2>2 DEF MembersInv, TypeInv, RecordedInv, ProductInv, AskInv
    <3> QED
      BY <3>1, SamePool
  <2> QED
    BY <2>1, <2>2, <2>3
<1> QED
  BY <1>3, <1>4, <1>5

\* An evaluation of the tags of one during which upstream stood still is
\* answered by its facts: it never asks the network, never fails, and declares
\* the same hubs over the same archives.
THEOREM RepeatSafety == OneRegistryEach /\ Spec => RepeatIsLocal
<1> SUFFICES ASSUME OneRegistryEach PROVE Spec => RepeatIsLocal
  OBVIOUS
<1>1. Init => HubInv /\ PinInv /\ VersionInv /\ TraceInv /\ LastInv /\ MembersInv /\ RepeatInv
  <2> SUFFICES ASSUME Init PROVE HubInv /\ PinInv /\ VersionInv /\ TraceInv /\ LastInv /\ MembersInv /\ RepeatInv
    OBVIOUS
  <2>1. HubInv /\ PinInv /\ VersionInv /\ TraceInv /\ RepeatInv
    BY DEF Init, HubInv, PinInv, VersionInv, TraceInv, RepeatInv, Working
  <2>2. last.tags = <<>> /\ last.pool = <<>> /\ last.members = <<>> /\ pool = <<>> /\ members = <<>>
    BY DEF Init
  <2>3. LastInv
    BY <2>2 DEF LastInv
  <2> QED
    BY <2>1, <2>2, <2>3, EmptyPool DEF MembersInv
<1>2. TypeInv /\ HubInv /\ [Next]_vars => HubInv'
  BY HubNext
<1>3. TypeInv /\ AskInv /\ PinInv /\ [Next]_vars => PinInv'
  BY PinNext
<1>4. TypeInv /\ HubInv /\ AskInv /\ PinInv /\ VersionInv /\ TraceInv /\ [Next]_vars => TraceInv' /\ VersionInv'
  BY TraceNext
<1>5. TypeInv /\ HubInv /\ TraceInv /\ LastInv /\ [Next]_vars => LastInv'
  BY LastNext
<1>6. TypeInv /\ MembersInv /\ [Next]_vars => MembersInv'
  BY MembersNext
<1>7. TypeInv /\ HubInv /\ RepeatInv /\ LastInv /\ [Next]_vars => RepeatInv'
  BY RepeatNext
<1>8. TypeInv /\ HubInv /\ AskInv /\ MembersInv /\ RepeatInv /\ LastInv /\ [Next]_vars => RepeatLocal
  BY RepeatStep
<1>9. RepeatIsLocal <=> [][RepeatLocal]_vars
  BY DEF RepeatIsLocal, RepeatLocal
<1> QED
  BY <1>1, <1>2, <1>3, <1>4, <1>5, <1>6, <1>7, <1>8, <1>9, Typed, Asked, PTL DEF Spec
===============================================================================
