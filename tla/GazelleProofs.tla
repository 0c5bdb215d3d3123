---------------------------- MODULE GazelleProofs -----------------------------
(***************************************************************************)
(* Proofs about Gazelle, for any directories, directives, BUILD files,      *)
(* edits and runs: the rules are those of a run from scratch, and a         *)
(* module's deps follow its calls.  Settled says of a directory's rules     *)
(* that generating them again changes nothing, Linked that resolving them   *)
(* again does not.                                                          *)
(***************************************************************************)
EXTENDS Gazelle, WellFoundedInduction, TLAPS

Dep == [dir : Dir, name : Name] \cup Hub

TypeInv ==
  /\ repo \in [Dir -> Files]
  /\ build \in [Dir -> SUBSET Rule] /\ work \in [Dir -> SUBSET Rule]
  /\ pc \in {"idle", "generate", "write"} /\ current \in BOOLEAN
  /\ update \subseteq Dir /\ todo \subseteq update

\* What is there is not stale, and what is missing has its name taken.
Settled(d, rs) ==
  /\ \A r \in rs : IsGenerated(d, r) => r.kind \in produced(r.engine, d)
  /\ \A e \in Loaded, k \in Kind : k \in produced(e, d) => \E r \in rs : r.name = nameOf(e, k, d)

\* The names under which a directory supplies its modules.
Names(rs, e) == {r.name : r \in {r \in rs : r.engine = e /\ r.kind = "module"}}

SameNames(as, bs) == \A e : Names(as, e) = Names(bs, e)

\* suppliers and Resolve over any rules.
SuppliersIn(W, e, path) == UNION {{[dir |-> d, name |-> n] : n \in Names(W[d], e)} : d \in {d \in Dir : d = path}}

ResolveIn(W, e, d) ==
  (UNION {s \in {SuppliersIn(W, e, Cleaned(c)) : c \in repo[d].calls} : Single(s)}) \cup hubsOf(d)

IsModule(d, r) == r.kind = "module" /\ IsGenerated(d, r) /\ Owns(r.engine, d)

Linked(d, rs, W) == \A r \in rs : IsModule(d, r) => r.deps = ResolveIn(W, r.engine, d)

\* What a run has done so far.
GenerateInv ==
  pc = "generate" =>
    /\ current => work = build
    /\ \A d \in Dir : d \in update \ todo => Settled(d, work[d])
    /\ \A d \in Dir : d \notin update \ todo => work[d] = build[d]

WriteInv ==
  pc = "write" =>
    /\ \A d \in update : Settled(d, work[d])
    /\ \A d \in Dir : d \notin update => work[d] = build[d]
    /\ \A d \in update \ todo :
         Settled(d, build[d]) /\ SameNames(build[d], work[d]) /\ Linked(d, build[d], work)

IdleInv == pc = "idle" => work = build

CurrentInv ==
  current =>
    /\ \A d \in Dir : Settled(d, build[d]) /\ Linked(d, build[d], build)
    /\ \A d \in Dir : SameNames(build[d], work[d])

IInv == TypeInv /\ GenerateInv /\ WriteInv /\ IdleInv /\ CurrentInv

\* No two rules of a BUILD file have one name, or, where a directory is called
\* what another target is called, no two of one engine and kind.
Unique(rs) == \A r, s \in rs : r.name = s.name /\ (NamesApart \/ Same(r, s)) => r = s

UniqueInv == \A d \in Dir : Unique(build[d]) /\ Unique(work[d])

-------------------------------------------------------------------------------
(***************************************************************************)
(* The operators                                                            *)
(***************************************************************************)

\* A non-empty set of natural numbers has a least element.
LEMMA Least ==
  ASSUME NEW S \in SUBSET Nat, S # {}
  PROVE  \E m \in S : \A n \in S : m <= n
<1> DEFINE smaller == {pair \in Nat \X Nat : pair[1] < pair[2]}
<1>1. IsWellFoundedOn(smaller, Nat)
  BY NatLessThanWellFounded, Zenon DEF OpToRel
<1>2. PICK m \in S : \A n \in S : <<n, m>> \notin smaller
  BY <1>1, WFMin
<1>3. \A n \in S : ~(n < m)
  BY <1>2
<1> QED BY <1>3

\* A directory's hubs are hubs.
LEMMA HubsType ==
  ASSUME repo \in [Dir -> Files], NEW d \in Dir
  PROVE  hubsOf(d) \subseteq Hub
<1> DEFINE set == {n \in 1..Len(up[d]) : repo[up[d][n]]["hubs"] # Unset}
           nearest == CHOOSE n \in set : \A o \in set : n <= o
<1>1. up[d] \in Seq(Dir)
  BY GazelleAssumption
<1>2. set # {} => repo[up[d][nearest]]["hubs"] \subseteq Hub
  <2> SUFFICES ASSUME set # {} PROVE repo[up[d][nearest]]["hubs"] \subseteq Hub
    OBVIOUS
  <2>1. set \in SUBSET Nat
    BY <1>1
  <2>2. \E n \in set : \A o \in set : n <= o
    BY <2>1, Least
  <2>3. nearest \in set
    BY <2>2
  <2> HIDE DEF nearest
  <2>4. nearest \in 1..Len(up[d]) /\ repo[up[d][nearest]]["hubs"] # Unset
    BY <2>3
  <2>5. repo[up[d][nearest]] \in Files
    BY <2>4, <1>1
  <2> QED BY <2>4, <2>5, GazelleAssumption DEF IsFiles
<1>3. Configure(d).hubs = IF set = {} THEN Unset ELSE repo[up[d][nearest]]["hubs"]
  BY DEF Configure, inherited
<1> HIDE DEF set, nearest
<1> QED BY <1>2, <1>3, GazelleAssumption DEF hubsOf

LEMMA NameType ==
  ASSUME NEW d \in Dir, NEW e \in Engine, NEW k \in Kind
  PROVE  nameOf(e, k, d) \in Name
<1>1. /\ nameOf(e, "module", d) = base[d] /\ nameOf(e, "binary", d) = e
      /\ nameOf(e, "updater", d) = "providers_lock.update" /\ nameOf(e, "test", d) = "providers_lock"
  BY DEF nameOf, moduleName
<1> QED BY <1>1, GazelleAssumption DEF Kind, LockNames

LEMMA GenerateType ==
  ASSUME NEW d \in Dir, NEW old \in SUBSET Rule
  PROVE  GenerateRules(d, old) \in SUBSET Rule
BY NameType, GazelleAssumption DEF GenerateRules, Rule

\* What GenerateRules leaves it would leave again.
LEMMA GenerateSettles ==
  ASSUME NEW d \in Dir, NEW old \in SUBSET Rule
  PROVE  Settled(d, GenerateRules(d, old))
<1> DEFINE kept == {r \in old : IsGenerated(d, r) => r.kind \notin empty(r.engine, d)}
           new == {[engine |-> e, kind |-> k, name |-> nameOf(e, k, d), deps |-> {}] : e \in Loaded, k \in Kind}
           added == {r \in new : r.kind \in produced(r.engine, d) /\ \A o \in kept : o.name # r.name}
<1>1. GenerateRules(d, old) = kept \cup added
  BY DEF GenerateRules
<1>2. ASSUME NEW r \in kept, IsGenerated(d, r) PROVE r.kind \in produced(r.engine, d)
  BY <1>2 DEF empty, Rule
<1>3. ASSUME NEW e \in Loaded, NEW k \in Kind, k \in produced(e, d)
      PROVE  \E r \in kept \cup added : r.name = nameOf(e, k, d)
  <2> DEFINE rule == [engine |-> e, kind |-> k, name |-> nameOf(e, k, d), deps |-> {}]
  <2>1. rule \in new
    OBVIOUS
  <2>2. rule.engine = e /\ rule.kind = k /\ rule.name = nameOf(e, k, d)
    OBVIOUS
  <2> HIDE DEF rule, new, kept
  <2>3. CASE \E o \in kept : o.name = rule.name
    BY <2>2, <2>3
  <2>4. CASE \A o \in kept : o.name # rule.name
    BY <1>3, <2>1, <2>2, <2>4
  <2> QED BY <2>3, <2>4
<1> HIDE DEF kept
<1>4. \A r \in added : r.kind \in produced(r.engine, d)
  OBVIOUS
<1> HIDE DEF added
<1> QED BY <1>1, <1>2, <1>3, <1>4 DEF Settled

LEMMA GenerateAgain ==
  ASSUME NEW d \in Dir, NEW old \in SUBSET Rule, Settled(d, old)
  PROVE  GenerateRules(d, old) = old
<1> DEFINE kept == {r \in old : IsGenerated(d, r) => r.kind \notin empty(r.engine, d)}
           new == {[engine |-> e, kind |-> k, name |-> nameOf(e, k, d), deps |-> {}] : e \in Loaded, k \in Kind}
           added == {r \in new : r.kind \in produced(r.engine, d) /\ \A o \in kept : o.name # r.name}
<1>1. GenerateRules(d, old) = kept \cup added
  BY DEF GenerateRules
<1>2. kept = old
  BY DEF Settled, empty
<1>3. added = {}
  BY <1>2 DEF Settled
<1> QED BY <1>1, <1>2, <1>3

\* The names of one engine's targets differ.
LEMMA NamesDiffer ==
  ASSUME NamesApart, NEW d \in Dir, NEW e \in Engine, NEW k \in Kind, NEW l \in Kind,
         nameOf(e, k, d) = nameOf(e, l, d)
  PROVE  k = l
<1>1. /\ nameOf(e, "module", d) = base[d] /\ nameOf(e, "binary", d) = e
      /\ nameOf(e, "updater", d) = "providers_lock.update" /\ nameOf(e, "test", d) = "providers_lock"
  BY DEF nameOf, moduleName
<1>2. base[d] \notin Engine \cup LockNames /\ Engine \cap LockNames = {}
  BY GazelleAssumption DEF NamesApart
<1> QED BY <1>1, <1>2 DEF Kind, LockNames

LEMMA GenerateUnique ==
  ASSUME NEW d \in Dir, NEW old \in SUBSET Rule, Unique(old)
  PROVE  Unique(GenerateRules(d, old))
<1> DEFINE kept == {r \in old : IsGenerated(d, r) => r.kind \notin empty(r.engine, d)}
           new == {[engine |-> e, kind |-> k, name |-> nameOf(e, k, d), deps |-> {}] : e \in Loaded, k \in Kind}
           added == {r \in new : r.kind \in produced(r.engine, d) /\ \A o \in kept : o.name # r.name}
<1>1. GenerateRules(d, old) = kept \cup added
  BY DEF GenerateRules
<1>2. \A r, s \in kept : r.name = s.name /\ (NamesApart \/ Same(r, s)) => r = s
  BY DEF Unique
<1>3. \A r \in kept, s \in added : r.name # s.name
  OBVIOUS
<1>4. ASSUME NEW r \in added, NEW s \in added, r.name = s.name, NamesApart \/ Same(r, s)
      PROVE  r = s
  <2>1. PICK e \in Loaded, k \in Kind : r = [engine |-> e, kind |-> k, name |-> nameOf(e, k, d), deps |-> {}]
    OBVIOUS
  <2>2. PICK f \in Loaded, l \in Kind : s = [engine |-> f, kind |-> l, name |-> nameOf(f, l, d), deps |-> {}]
    OBVIOUS
  <2>3. k \in produced(e, d) /\ l \in produced(f, d)
    BY <2>1, <2>2
  <2>4. e = f /\ e \in Engine
    BY <2>3, GazelleAssumption DEF produced, Owns
  <2>5. k = l
    BY <1>4, <2>1, <2>2, <2>4, NamesDiffer DEF Same
  <2> QED BY <2>1, <2>2, <2>4, <2>5
<1> HIDE DEF kept, added
<1> QED BY <1>1, <1>2, <1>3, <1>4 DEF Unique

LEMMA SuppliersAre ==
  ASSUME NEW e, NEW path
  PROVE  suppliers(e, path) = SuppliersIn(work, e, path)
BY DEF suppliers, SuppliersIn, Names

LEMMA ResolveIs ==
  ASSUME NEW e, NEW d
  PROVE  Resolve(e, d) = ResolveIn(work, e, d)
BY SuppliersAre DEF Resolve, ResolveIn

\* Only the names of the module rules decide what a call resolves to.
LEMMA ResolveSame ==
  ASSUME NEW V, NEW W, NEW e, NEW d, \A x \in Dir : Names(V[x], e) = Names(W[x], e)
  PROVE  ResolveIn(V, e, d) = ResolveIn(W, e, d)
<1>1. ASSUME NEW path PROVE SuppliersIn(V, e, path) = SuppliersIn(W, e, path)
  BY DEF SuppliersIn
<1> QED BY <1>1 DEF ResolveIn

LEMMA ResolveType ==
  ASSUME repo \in [Dir -> Files], NEW W \in [Dir -> SUBSET Rule], NEW e, NEW d \in Dir
  PROVE  ResolveIn(W, e, d) \in SUBSET Dep
<1>1. ASSUME NEW path PROVE SuppliersIn(W, e, path) \subseteq [dir : Dir, name : Name]
  BY DEF SuppliersIn, Names, Rule
<1> DEFINE sets == {s \in {SuppliersIn(W, e, Cleaned(c)) : c \in repo[d].calls} : Single(s)}
<1>2. \A s \in sets : s \subseteq [dir : Dir, name : Name]
  BY <1>1
<1>3. ResolveIn(W, e, d) = (UNION sets) \cup hubsOf(d)
  BY DEF ResolveIn
<1> HIDE DEF sets
<1>4. UNION sets \subseteq [dir : Dir, name : Name]
  BY <1>2
<1> QED BY <1>3, <1>4, HubsType DEF Dep

\* The rules Write leaves.
Written(d) ==
  {IF IsModule(d, r) THEN [r EXCEPT !.deps = Resolve(r.engine, d)] ELSE r : r \in work[d]}

\* Write changes the deps of the module rules, to what they resolve to.
LEMMA WriteRules ==
  ASSUME repo \in [Dir -> Files], work \in [Dir -> SUBSET Rule], NEW d \in Dir
  PROVE  /\ Written(d) \in SUBSET Rule
         /\ \A e : Names(Written(d), e) = Names(work[d], e)
         /\ Linked(d, Written(d), work)
         /\ \A s \in Written(d) : \E r \in work[d] : Same(s, r)
         /\ \A r \in work[d] : \E s \in Written(d) : Same(s, r)
         /\ Unique(work[d]) => Unique(Written(d))
<1> DEFINE new(r) == IF IsModule(d, r) THEN [r EXCEPT !.deps = Resolve(r.engine, d)] ELSE r
<1>1. Written(d) = {new(r) : r \in work[d]}
  BY DEF Written
<1>2. ASSUME NEW r \in work[d]
      PROVE  /\ new(r) \in Rule /\ Same(new(r), r)
             /\ IsModule(d, r) => new(r).deps = ResolveIn(work, r.engine, d)
  <2>1. r \in Rule
    OBVIOUS
  <2>2. Resolve(r.engine, d) \in SUBSET Dep
    BY ResolveIs, ResolveType
  <2>3. CASE IsModule(d, r)
    <3>1. new(r) = [engine |-> r.engine, kind |-> r.kind, name |-> r.name, deps |-> Resolve(r.engine, d)]
      BY <2>1, <2>3 DEF Rule
    <3> QED BY <3>1, <2>1, <2>2, ResolveIs DEF Rule, Dep, Same
  <2>4. CASE ~IsModule(d, r)
    BY <2>1, <2>4 DEF Same
  <2> QED BY <2>3, <2>4
<1> HIDE DEF new
<1>3. Written(d) \in SUBSET Rule
  BY <1>1, <1>2
<1>4. (\A s \in Written(d) : \E r \in work[d] : Same(s, r)) /\ (\A r \in work[d] : \E s \in Written(d) : Same(s, r))
  BY <1>1, <1>2
<1>5. \A e : Names(Written(d), e) = Names(work[d], e)
  BY <1>4 DEF Names, Same
<1>6. ASSUME NEW r \in work[d], IsModule(d, new(r))
      PROVE  new(r).deps = ResolveIn(work, new(r).engine, d)
  <2>1. new(r).engine = r.engine /\ new(r).kind = r.kind /\ new(r).name = r.name
    BY <1>2 DEF Same
  <2>2. IsModule(d, r)
    BY <1>6, <2>1 DEF IsModule, IsGenerated
  <2> QED BY <1>2, <2>1, <2>2
<1>7. Linked(d, Written(d), work)
  BY <1>1, <1>6 DEF Linked
<1>8. ASSUME Unique(work[d]), NEW r \in work[d], NEW s \in work[d],
             new(r).name = new(s).name, NamesApart \/ Same(new(r), new(s))
      PROVE  new(r) = new(s)
  <2>1. r.name = s.name /\ (NamesApart \/ Same(r, s))
    BY <1>2, <1>8 DEF Same
  <2> QED BY <2>1, <1>8 DEF Unique
<1>9. Unique(work[d]) => Unique(Written(d))
  BY <1>1, <1>8 DEF Unique
<1> QED BY <1>3, <1>4, <1>5, <1>7, <1>9

\* Rules that differ in their deps alone are settled alike.
LEMMA SameSettled ==
  ASSUME NEW d, NEW rs, NEW ss, Settled(d, rs),
         \A s \in ss : \E r \in rs : Same(s, r), \A r \in rs : \E s \in ss : Same(s, r)
  PROVE  Settled(d, ss)
<1>1. ASSUME NEW s \in ss, IsGenerated(d, s) PROVE s.kind \in produced(s.engine, d)
  <2>1. PICK r \in rs : Same(s, r)
    OBVIOUS
  <2>2. s.engine = r.engine /\ s.kind = r.kind /\ s.name = r.name
    BY <2>1 DEF Same
  <2>3. IsGenerated(d, r)
    BY <1>1, <2>2 DEF IsGenerated
  <2> QED BY <2>2, <2>3 DEF Settled
<1>2. ASSUME NEW e \in Loaded, NEW k \in Kind, k \in produced(e, d)
      PROVE  \E s \in ss : s.name = nameOf(e, k, d)
  BY <1>2 DEF Settled, Same
<1> QED BY <1>1, <1>2 DEF Settled

\* What the rules must be depends on the configuration alone.
LEMMA SameRepo ==
  ASSUME repo' = repo
  PROVE  /\ \A e, d : produced(e, d)' = produced(e, d) /\ (Owns(e, d)' <=> Owns(e, d))
         /\ \A d : hubsOf(d)' = hubsOf(d)
<1>1. \A d, field : inherited(d, field)' = inherited(d, field)
  BY DEF inherited
<1>2. \A d : Configure(d)' = Configure(d)
  BY <1>1 DEF Configure
<1>3. \A d : kindOf(d)' = kindOf(d) /\ owner(d)' = owner(d)
  BY <1>2 DEF kindOf, owner
<1>4. \A e, d : srcs(e, d)' = srcs(e, d)
  BY DEF srcs
<1>5. \A e, d : Owns(e, d)' <=> Owns(e, d)
  BY <1>3, <1>4 DEF Owns
<1>6. \A e, d : produced(e, d)' = produced(e, d)
  BY <1>3, <1>5 DEF produced
<1>7. \A d : hubsOf(d)' = hubsOf(d)
  BY <1>2, <1>3 DEF hubsOf
<1> QED BY <1>5, <1>6, <1>7

LEMMA SameRepoInvs ==
  ASSUME repo' = repo
  PROVE  /\ \A d : Settled(d, work[d])' <=> Settled(d, work'[d])
         /\ \A d : Settled(d, build[d])' <=> Settled(d, build'[d])
         /\ \A d : Linked(d, build[d], work)' <=> Linked(d, build'[d], work')
         /\ \A d : Linked(d, build[d], build)' <=> Linked(d, build'[d], build')
         /\ \A d : SameNames(build[d], work[d])' <=> SameNames(build'[d], work'[d])
<1>1. \A e, d : ResolveIn(work, e, d)' = ResolveIn(work', e, d) /\ ResolveIn(build, e, d)' = ResolveIn(build', e, d)
  BY SameRepo DEF ResolveIn
<1>2. \A d, r : IsModule(d, r)' <=> IsModule(d, r)
  BY SameRepo DEF IsModule
<1>3. \A d : Settled(d, work[d])' <=> Settled(d, work'[d])
  BY SameRepo DEF Settled
<1>4. \A d : Settled(d, build[d])' <=> Settled(d, build'[d])
  BY SameRepo DEF Settled
<1>5. \A d : Linked(d, build[d], work)' <=> Linked(d, build'[d], work')
  BY <1>1, <1>2 DEF Linked
<1>6. \A d : Linked(d, build[d], build)' <=> Linked(d, build'[d], build')
  BY <1>1, <1>2 DEF Linked
<1>7. \A d : SameNames(build[d], work[d])' <=> SameNames(build'[d], work'[d])
  BY DEF SameNames
<1> QED BY <1>3, <1>4, <1>5, <1>6, <1>7

LEMMA LinkedSame ==
  ASSUME NEW V, NEW W, \A x \in Dir : SameNames(V[x], W[x]), NEW d, NEW rs
  PROVE  Linked(d, rs, V) <=> Linked(d, rs, W)
BY ResolveSame DEF Linked, SameNames

LEMMA SameNamesEquivalence ==
  /\ \A rs : SameNames(rs, rs)
  /\ \A rs, ss : SameNames(rs, ss) => SameNames(ss, rs)
  /\ \A rs, ss, ts : SameNames(rs, ss) /\ SameNames(ss, ts) => SameNames(rs, ts)
BY DEF SameNames

-------------------------------------------------------------------------------
(***************************************************************************)
(* The inductive invariant                                                  *)
(***************************************************************************)

LEMMA InitIInv == Init => IInv
BY GazelleAssumption DEF Init, IInv, TypeInv, GenerateInv, WriteInv, IdleInv, CurrentInv

LEMMA StepEdit ==
  ASSUME IInv, NEW d \in Dir, NEW f \in Files, Edit(d, f)
  PROVE  IInv'
BY DEF Edit, IInv, TypeInv, GenerateInv, WriteInv, IdleInv, CurrentInv

LEMMA StepRun ==
  ASSUME IInv, NEW ds \in SUBSET Dir, Run(ds)
  PROVE  IInv'
<1> USE DEF Run, IInv
<1>1. repo' = repo /\ build' = build /\ work' = build /\ current' = current /\ work = build
      /\ pc' = "generate" /\ update' = ds /\ todo' = ds
  BY DEF IdleInv
<1>2. TypeInv'
  BY <1>1 DEF TypeInv
<1>3. GenerateInv' /\ WriteInv' /\ IdleInv'
  BY <1>1 DEF GenerateInv, WriteInv, IdleInv
<1>4. CurrentInv'
  BY <1>1, SameRepoInvs DEF CurrentInv
<1> QED BY <1>2, <1>3, <1>4

LEMMA StepGenerate ==
  ASSUME IInv, NEW d \in todo, Generate(d)
  PROVE  IInv'
<1>1. /\ TypeInv /\ d \in Dir /\ d \in update /\ pc = "generate" /\ pc' = "generate" /\ update' = update
      /\ todo' = todo \ {d} /\ repo' = repo /\ build' = build /\ current' = current
      /\ work' = [work EXCEPT ![d] = GenerateRules(d, work[d])]
  BY DEF Generate, IInv, TypeInv
<1>2. work'[d] = GenerateRules(d, work[d]) /\ \A x \in Dir : x # d => work'[x] = work[x]
  BY <1>1 DEF TypeInv
<1>3. TypeInv'
  <2>1. GenerateRules(d, work[d]) \in SUBSET Rule
    BY <1>1, GenerateType DEF TypeInv
  <2> QED BY <1>1, <2>1 DEF TypeInv
<1>4. current => work' = work
  <2> SUFFICES ASSUME current PROVE work' = work
    OBVIOUS
  <2>1. work = build /\ Settled(d, build[d]) /\ work[d] \in SUBSET Rule
    BY <1>1 DEF IInv, GenerateInv, CurrentInv, TypeInv
  <2>2. GenerateRules(d, work[d]) = work[d]
    BY <1>1, <2>1, GenerateAgain
  <2> QED BY <1>1, <2>2 DEF TypeInv
<1>5. GenerateInv'
  <2>1. (current => work = build)'
    BY <1>1, <1>4 DEF IInv, GenerateInv
  <2>2. ASSUME NEW x \in Dir, x \in update' \ todo' PROVE Settled(x, work'[x])
    <3>1. CASE x = d
      <4>1. work[d] \in SUBSET Rule
        BY <1>1 DEF TypeInv
      <4> QED BY <3>1, <4>1, <1>1, <1>2, GenerateSettles
    <3>2. CASE x # d
      BY <3>2, <2>2, <1>1, <1>2 DEF IInv, GenerateInv
    <3> QED BY <3>1, <3>2
  <2>3. \A x \in Dir : x \notin update' \ todo' => work'[x] = build'[x]
    BY <1>1, <1>2 DEF IInv, GenerateInv
  <2> QED BY <1>1, <2>1, <2>2, <2>3, SameRepoInvs DEF GenerateInv
<1>6. WriteInv' /\ IdleInv'
  BY <1>1 DEF WriteInv, IdleInv
<1>7. CurrentInv'
  BY <1>1, <1>4, SameRepoInvs DEF IInv, CurrentInv
<1> QED BY <1>3, <1>5, <1>6, <1>7 DEF IInv

LEMMA StepGenerated ==
  ASSUME IInv, Generated
  PROVE  IInv'
<1>1. /\ TypeInv /\ pc = "generate" /\ pc' = "write" /\ todo = {} /\ todo' = update /\ update' = update
      /\ repo' = repo /\ build' = build /\ work' = work /\ current' = current
  BY DEF Generated, IInv
<1>2. TypeInv'
  BY <1>1 DEF TypeInv
<1>3. GenerateInv' /\ IdleInv'
  BY <1>1 DEF GenerateInv, IdleInv
<1>4. WriteInv'
  <2>1. (\A x \in update : Settled(x, work[x])) /\ (\A x \in Dir : x \notin update => work[x] = build[x])
    BY <1>1 DEF IInv, GenerateInv, TypeInv
  <2> QED BY <1>1, <2>1, SameRepoInvs DEF WriteInv
<1>5. CurrentInv'
  BY <1>1, SameRepoInvs DEF IInv, CurrentInv
<1> QED BY <1>2, <1>3, <1>4, <1>5 DEF IInv

LEMMA StepWrite ==
  ASSUME IInv, NEW d \in todo, Write(d)
  PROVE  IInv'
<1>1. /\ TypeInv /\ d \in Dir /\ d \in update /\ pc = "write" /\ pc' = "write" /\ update' = update
      /\ todo' = todo \ {d} /\ repo' = repo /\ work' = work /\ current' = current
      /\ build' = [build EXCEPT ![d] = Written(d)]
  BY DEF Write, Written, IsModule, IInv, TypeInv
<1>2. build'[d] = Written(d) /\ \A x \in Dir : x # d => build'[x] = build[x]
  BY <1>1 DEF TypeInv
<1>3. /\ Written(d) \in SUBSET Rule /\ SameNames(Written(d), work[d]) /\ Linked(d, Written(d), work)
      /\ (Settled(d, work[d]) => Settled(d, Written(d)))
  <2>1. repo \in [Dir -> Files] /\ work \in [Dir -> SUBSET Rule]
    BY <1>1 DEF TypeInv
  <2> QED BY <1>1, <2>1, WriteRules, SameSettled DEF SameNames
<1>4. TypeInv'
  BY <1>1, <1>3 DEF TypeInv
<1>5. GenerateInv' /\ IdleInv'
  BY <1>1 DEF GenerateInv, IdleInv
<1>6. WriteInv'
  <2>1. ASSUME NEW x \in update' \ todo'
        PROVE  Settled(x, build'[x]) /\ SameNames(build'[x], work'[x]) /\ Linked(x, build'[x], work')
    <3>1. CASE x = d
      BY <3>1, <1>1, <1>2, <1>3 DEF IInv, WriteInv
    <3>2. CASE x # d
      <4>1. x \in Dir /\ x \in update \ todo
        BY <2>1, <3>2, <1>1 DEF TypeInv
      <4> QED BY <3>2, <4>1, <1>1, <1>2 DEF IInv, WriteInv
    <3> QED BY <3>1, <3>2
  <2>2. ASSUME NEW x \in Dir, x \notin update' PROVE work'[x] = build'[x]
    BY <2>2, <1>1, <1>2 DEF IInv, WriteInv
  <2>3. \A x \in update' : Settled(x, work'[x])
    BY <1>1 DEF IInv, WriteInv
  <2> QED BY <2>1, <2>2, <2>3, SameRepoInvs, <1>1 DEF WriteInv
<1>7. CurrentInv'
  <2> SUFFICES ASSUME current PROVE CurrentInv'
    BY <1>1 DEF CurrentInv
  <2>1. \A x \in Dir : Settled(x, build[x]) /\ Linked(x, build[x], build) /\ SameNames(build[x], work[x])
    BY DEF IInv, CurrentInv
  <2>2. \A x \in Dir : SameNames(build'[x], work'[x])
    BY <1>1, <1>2, <1>3, <2>1
  <2>3. \A x \in Dir : SameNames(build'[x], work[x]) /\ SameNames(build[x], work[x]) /\ SameNames(build'[x], build[x])
    BY <2>1, <2>2, <1>1, SameNamesEquivalence
  <2>4. ASSUME NEW x \in Dir PROVE Linked(x, build'[x], build')
    <3>1. CASE x = d
      BY <3>1, <1>2, <1>3, <2>3, LinkedSame
    <3>2. CASE x # d
      BY <3>2, <1>2, <2>1, <2>3, LinkedSame
    <3> QED BY <3>1, <3>2
  <2>5. \A x \in Dir : Settled(x, build'[x])
    BY <1>1, <1>2, <1>3, <2>1 DEF IInv, WriteInv
  <2> QED BY <2>2, <2>4, <2>5, <1>1, SameRepoInvs DEF CurrentInv
<1> QED BY <1>4, <1>5, <1>6, <1>7 DEF IInv

LEMMA StepFinish ==
  ASSUME IInv, Finish
  PROVE  IInv'
<1>1. /\ TypeInv /\ pc = "write" /\ pc' = "idle" /\ todo = {} /\ todo' = todo /\ update' = update
      /\ repo' = repo /\ build' = build /\ work' = build /\ current' = (current \/ update = Dir)
  BY DEF Finish, IInv
<1>2. TypeInv'
  BY <1>1 DEF TypeInv
<1>3. GenerateInv' /\ WriteInv' /\ IdleInv'
  BY <1>1 DEF GenerateInv, WriteInv, IdleInv
<1>4. CurrentInv'
  <2> SUFFICES ASSUME current' PROVE CurrentInv'
    BY DEF CurrentInv
  <2>1. ASSUME NEW x \in Dir PROVE Settled(x, build[x]) /\ Linked(x, build[x], build)
    <3>1. CASE current
      BY <3>1 DEF IInv, CurrentInv
    <3>2. CASE update = Dir
      <4>1. \A y \in Dir : Settled(y, build[y]) /\ SameNames(build[y], work[y]) /\ Linked(y, build[y], work)
        BY <3>2, <1>1 DEF IInv, WriteInv
      <4> QED BY <4>1, LinkedSame
    <3> QED BY <3>1, <3>2, <1>1
  <2>2. \A x \in Dir : SameNames(build'[x], work'[x])
    BY <1>1, SameNamesEquivalence
  <2> QED BY <2>1, <2>2, <1>1, SameRepoInvs DEF CurrentInv
<1> QED BY <1>2, <1>3, <1>4 DEF IInv

LEMMA StepStop ==
  ASSUME IInv, Stop
  PROVE  IInv'
<1>1. /\ TypeInv /\ pc' = "idle" /\ todo' = {} /\ update' = update /\ repo' = repo /\ build' = build
      /\ work' = build /\ current' = current
  BY DEF Stop, IInv
<1>2. TypeInv'
  BY <1>1 DEF TypeInv
<1>3. GenerateInv' /\ WriteInv' /\ IdleInv'
  BY <1>1 DEF GenerateInv, WriteInv, IdleInv
<1>4. CurrentInv'
  <2>1. \A x \in Dir : SameNames(build'[x], work'[x])
    BY <1>1, SameNamesEquivalence
  <2> QED BY <1>1, <2>1, SameRepoInvs DEF IInv, CurrentInv
<1> QED BY <1>2, <1>3, <1>4 DEF IInv

LEMMA StepStutter ==
  ASSUME IInv, UNCHANGED vars
  PROVE  IInv'
<1>1. /\ repo' = repo /\ build' = build /\ pc' = pc /\ update' = update /\ todo' = todo /\ work' = work
      /\ current' = current
  BY DEF vars
<1>2. TypeInv' /\ IdleInv'
  BY <1>1 DEF IInv, TypeInv, IdleInv
<1>3. GenerateInv' /\ WriteInv' /\ CurrentInv'
  BY <1>1, SameRepoInvs DEF IInv, GenerateInv, WriteInv, CurrentInv
<1> QED BY <1>2, <1>3 DEF IInv

LEMMA NextIInv == IInv /\ [Next]_vars => IInv'
<1> SUFFICES ASSUME IInv, [Next]_vars PROVE IInv'
  OBVIOUS
<1>1. ASSUME NEW d \in Dir, NEW f \in Files, Edit(d, f) PROVE IInv'
  BY <1>1, StepEdit
<1>2. ASSUME NEW ds \in {Dir} \cup {{d} : d \in Dir}, Run(ds) PROVE IInv'
  <2>1. ds \in SUBSET Dir
    OBVIOUS
  <2> QED BY <1>2, <2>1, StepRun
<1>3. ASSUME NEW d \in todo, Generate(d) PROVE IInv'
  BY <1>3, StepGenerate
<1>4. ASSUME NEW d \in todo, Write(d) PROVE IInv'
  BY <1>4, StepWrite
<1>5. Generated \/ Finish \/ Stop \/ Over => IInv'
  BY StepGenerated, StepFinish, StepStop, StepStutter DEF Over
<1>6. UNCHANGED vars => IInv'
  BY StepStutter
<1> QED BY <1>1, <1>2, <1>3, <1>4, <1>5, <1>6 DEF Next

LEMMA Invariance == Spec => []IInv
BY InitIInv, NextIInv, PTL DEF Spec

LEMMA InitUnique == Init => UniqueInv
BY GazelleAssumption DEF Init, UniqueInv, Unique

LEMMA NextUnique == IInv /\ UniqueInv /\ [Next]_vars => UniqueInv'
<1> SUFFICES ASSUME IInv, UniqueInv, [Next]_vars PROVE UniqueInv'
  OBVIOUS
<1>1. TypeInv /\ todo \subseteq Dir
  BY DEF IInv, TypeInv
<1>2. ASSUME NEW d \in todo, Generate(d) PROVE UniqueInv'
  <2>1. Unique(GenerateRules(d, work[d]))
    BY <1>1, GenerateUnique DEF TypeInv, UniqueInv
  <2>2. build' = build /\ work' = [work EXCEPT ![d] = GenerateRules(d, work[d])]
    BY <1>2 DEF Generate
  <2>3. \A x \in Dir : work'[x] = IF x = d THEN GenerateRules(d, work[d]) ELSE work[x]
    BY <1>1, <2>2 DEF TypeInv
  <2>4. \A x \in Dir : Unique(build'[x]) /\ Unique(work'[x])
    BY <2>1, <2>2, <2>3 DEF UniqueInv
  <2> QED BY <2>4 DEF UniqueInv, Unique
<1>3. ASSUME NEW d \in todo, Write(d) PROVE UniqueInv'
  <2>1. work' = work /\ build' = [build EXCEPT ![d] = Written(d)]
    BY <1>3 DEF Write, Written, IsModule
  <2>2. Unique(Written(d))
    BY <1>1, WriteRules DEF TypeInv, UniqueInv
  <2>3. \A x \in Dir : build'[x] = IF x = d THEN Written(d) ELSE build[x]
    BY <1>1, <2>1 DEF TypeInv
  <2>4. \A x \in Dir : Unique(build'[x]) /\ Unique(work'[x])
    BY <2>1, <2>2, <2>3 DEF UniqueInv
  <2> QED BY <2>4 DEF UniqueInv, Unique
<1>4. ASSUME build' = build, work' \in {work, build} PROVE UniqueInv'
  <2>1. \A x \in Dir : Unique(build'[x]) /\ Unique(work'[x])
    BY <1>4 DEF UniqueInv
  <2> QED BY <2>1 DEF UniqueInv, Unique
<1>5. ASSUME NEW d \in Dir, NEW f \in Files, Edit(d, f) PROVE UniqueInv'
  BY <1>4, <1>5 DEF Edit
<1>6. ASSUME NEW ds, Run(ds) PROVE UniqueInv'
  BY <1>4, <1>6 DEF Run
<1>7. Generated \/ Finish \/ Stop \/ Over \/ UNCHANGED vars => UniqueInv'
  BY <1>4 DEF Generated, Finish, Stop, Over, vars
<1> QED BY <1>2, <1>3, <1>5, <1>6, <1>7 DEF Next

LEMMA UniqueInvariance == Spec => []UniqueInv
<1>1. IInv /\ UniqueInv /\ [Next]_vars => UniqueInv'
  BY NextUnique
<1> QED BY InitUnique, <1>1, Invariance, PTL DEF Spec

-------------------------------------------------------------------------------
(***************************************************************************)
(* A run from scratch                                                       *)
(***************************************************************************)

\* Rules that are settled are those written by hand and those missing there.
LEMMA SettledFromScratch ==
  ASSUME NamesApart, NEW d \in Dir, NEW rs \in SUBSET Rule, Unique(rs), Settled(d, rs)
  PROVE  LET fresh == GenerateRules(d, ByHand(d, rs))
         IN /\ \A r \in rs : \E s \in fresh : Same(r, s)
            /\ \A s \in fresh : \E r \in rs : Same(r, s)
<1> DEFINE hand == ByHand(d, rs)
           kept == {r \in hand : IsGenerated(d, r) => r.kind \notin empty(r.engine, d)}
           new == {[engine |-> e, kind |-> k, name |-> nameOf(e, k, d), deps |-> {}] : e \in Loaded, k \in Kind}
           added == {r \in new : r.kind \in produced(r.engine, d) /\ \A o \in kept : o.name # r.name}
<1>1. GenerateRules(d, hand) = kept \cup added
  BY DEF GenerateRules
<1>2. kept = hand /\ hand = {r \in rs : ~IsGenerated(d, r)}
  BY DEF ByHand
<1>3. ASSUME NEW r \in rs PROVE \E s \in kept \cup added : Same(r, s)
  <2>1. CASE ~IsGenerated(d, r)
    BY <2>1, <1>2 DEF Same
  <2>2. CASE IsGenerated(d, r)
    <3> DEFINE s == [engine |-> r.engine, kind |-> r.kind, name |-> nameOf(r.engine, r.kind, d), deps |-> {}]
    <3>1. r.engine \in Loaded /\ r.kind \in Kind /\ r.name = nameOf(r.engine, r.kind, d)
          /\ r.kind \in produced(r.engine, d)
      BY <2>2 DEF IsGenerated, Settled, Rule
    <3>2. s.engine = r.engine /\ s.kind = r.kind /\ s.name = r.name
      BY <3>1
    <3>5. s \in new
      <4>1. \A e \in Loaded, k \in Kind :
              [engine |-> e, kind |-> k, name |-> nameOf(e, k, d), deps |-> {}] \in new
        OBVIOUS
      <4> HIDE DEF new
      <4> QED BY <4>1, <3>1
    <3>3. \A o \in kept : o.name # s.name
      BY <1>2, <2>2, <3>2 DEF Unique
    <3> HIDE DEF s, new, kept
    <3>4. s \in added
      BY <3>1, <3>2, <3>3, <3>5
    <3> QED BY <3>2, <3>4 DEF Same
  <2> QED BY <2>1, <2>2
<1>4. ASSUME NEW s \in added PROVE \E r \in rs : Same(r, s)
  <2>1. PICK e \in Loaded, k \in Kind : s = [engine |-> e, kind |-> k, name |-> nameOf(e, k, d), deps |-> {}]
    OBVIOUS
  <2>2. s.engine = e /\ s.kind = k /\ s.name = nameOf(e, k, d)
    BY <2>1
  <2>3. k \in produced(e, d) /\ \A o \in kept : o.name # s.name
    BY <2>2
  <2>4. PICK r \in rs : r.name = nameOf(e, k, d)
    BY <2>3 DEF Settled
  <2>5. IsGenerated(d, r)
    BY <1>2, <2>2, <2>3, <2>4
  <2>6. r.engine \in Loaded /\ r.kind \in Kind /\ r.name = nameOf(r.engine, r.kind, d)
        /\ r.kind \in produced(r.engine, d)
    BY <2>5 DEF IsGenerated, Settled, Rule
  <2>7. r.engine = e /\ e \in Engine
    BY <2>3, <2>6, GazelleAssumption DEF produced, Owns
  <2>8. r.kind = k
    <3>1. nameOf(e, r.kind, d) = nameOf(e, k, d)
      BY <2>4, <2>6, <2>7
    <3>2. r.kind \in Kind /\ k \in Kind /\ e \in Engine
      BY <2>1, <2>6, <2>7
    <3> HIDE DEF new, kept, hand, added
    <3> QED BY <3>1, <3>2, NamesDiffer
  <2> QED BY <2>2, <2>4, <2>7, <2>8 DEF Same
<1>5. \A s \in kept : \E r \in rs : Same(r, s)
  BY <1>2 DEF Same
<1> HIDE DEF kept, added
<1> QED BY <1>1, <1>3, <1>4, <1>5

\* After a run over everything, whatever was edited, stopped or run in part
\* before, the rules of every directory are those of a run from scratch
\* (GenerateRules, generate.go), where no directory is called what another
\* generated target is.
THEOREM ScratchSafety == NamesApart /\ Spec => []FromScratch
<1> SUFFICES ASSUME NamesApart PROVE Spec => []FromScratch
  OBVIOUS
<1>1. IInv /\ UniqueInv => FromScratch
  <2> SUFFICES ASSUME IInv, UniqueInv, current, NEW d \in Dir
               PROVE  LET fresh == GenerateRules(d, ByHand(d, build[d]))
                      IN /\ \A r \in build[d] : \E s \in fresh : Same(r, s)
                         /\ \A s \in fresh : \E r \in build[d] : Same(r, s)
    BY DEF FromScratch
  <2>1. build[d] \in SUBSET Rule /\ Unique(build[d]) /\ Settled(d, build[d])
    BY DEF IInv, TypeInv, UniqueInv, CurrentInv
  <2> QED BY <2>1, SettledFromScratch
<1> QED BY <1>1, Invariance, UniqueInvariance, PTL

\* And each module then depends on what its local sources name, as Resolve
\* (resolve.go) would find it in the BUILD files that were written.
THEOREM DepsSafety == Spec => []DepsFollowCalls
<1>1. IInv /\ UniqueInv => DepsFollowCalls
  <2> SUFFICES ASSUME IInv, UniqueInv, current, NEW d \in Dir, NEW r \in build[d], IsModule(d, r),
                      NEW c \in Dir \ {Top}
               PROVE  LET targets == {m \in build[c] : m.engine = r.engine /\ m.kind = "module"}
                      IN {l \in r.deps \ Hub : l.dir = c} =
                           IF c \in repo[d].calls /\ Single(targets)
                           THEN {[dir |-> c, name |-> m.name] : m \in targets} ELSE {}
    BY DEF DepsFollowCalls, IsModule
  <2> DEFINE e == r.engine
             found(x) == SuppliersIn(build, e, Cleaned(x))
             targets == {m \in build[c] : m.engine = e /\ m.kind = "module"}
             links == {[dir |-> c, name |-> m.name] : m \in targets}
  <2>1. TypeInv /\ r.deps = ResolveIn(build, e, d)
    BY DEF IInv, CurrentInv, Linked
  <2>2. repo[d].calls \subseteq Dir /\ hubsOf(d) \subseteq Hub
    <3>1. repo \in [Dir -> Files] /\ repo[d] \in Files
      BY <2>1 DEF TypeInv
    <3> QED BY <3>1, HubsType, GazelleAssumption DEF IsFiles
  <2>3. r.deps = (UNION {s \in {found(x) : x \in repo[d].calls} : Single(s)}) \cup hubsOf(d)
    BY <2>1 DEF ResolveIn
  <2>4. ASSUME NEW x \in Dir, x # Top PROVE found(x) = {[dir |-> x, name |-> n] : n \in Names(build[x], e)}
    BY <2>4 DEF SuppliersIn, Cleaned
  <2>5. found(Top) = {}
    BY GazelleAssumption DEF SuppliersIn, Cleaned
  <2>6. found(c) = links
    BY <2>4 DEF Names
  <2>7. \A l \in links : l \notin Hub /\ l.dir = c
    <3>1. \A m \in build[c] : m.name \in Name
      BY <2>1 DEF TypeInv, Rule
    <3> QED BY <3>1, GazelleAssumption
  <2>8. Single(links) <=> Single(targets)
    <3>1. ASSUME NEW m \in targets, NEW n \in targets, m.name = n.name PROVE m = n
      BY <3>1 DEF UniqueInv, Unique, Same
    <3>2. ASSUME NEW m \in targets, targets = {m} PROVE Single(links)
      <4>1. links = {[dir |-> c, name |-> m.name]}
        BY <3>2
      <4> QED BY <4>1 DEF Single
    <3>3. ASSUME NEW l \in links, links = {l} PROVE Single(targets)
      <4>1. PICK m \in targets : l = [dir |-> c, name |-> m.name]
        OBVIOUS
      <4>2. ASSUME NEW n \in targets PROVE n = m
        <5>1. [dir |-> c, name |-> n.name] = l
          BY <3>3
        <5>2. n.name = m.name
          BY <5>1, <4>1
        <5> QED BY <5>2, <3>1
      <4> QED BY <4>2 DEF Single
    <3> QED BY <3>2, <3>3 DEF Single
  <2>9. ASSUME NEW l \in r.deps \ Hub, l.dir = c
        PROVE  c \in repo[d].calls /\ Single(found(c)) /\ l \in found(c)
    <3>1. PICK x \in repo[d].calls : Single(found(x)) /\ l \in found(x)
      BY <2>2, <2>3
    <3>2. x \in Dir /\ x # Top
      BY <2>2, <2>5, <3>1
    <3>3. l.dir = x
      BY <2>4, <3>1, <3>2
    <3> QED BY <2>9, <3>1, <3>3
  <2>10. c \in repo[d].calls /\ Single(found(c)) => found(c) \subseteq r.deps
    BY <2>3
  <2> HIDE DEF e, found, targets, links
  <2>11. {l \in r.deps \ Hub : l.dir = c} = IF c \in repo[d].calls /\ Single(targets) THEN links ELSE {}
    BY <2>6, <2>7, <2>8, <2>9, <2>10
  <2> QED BY <2>11 DEF e, targets, links
<1> QED BY <1>1, Invariance, UniqueInvariance, PTL
===============================================================================
