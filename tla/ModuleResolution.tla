--------------------------- MODULE ModuleResolution ---------------------------
(***************************************************************************)
(* How the module extension (engine/modules_extension.bzl, driven by        *)
(* run_extension of extension_impl.bzl) resolves the registry and git       *)
(* modules the `deps` tags name, over successive evaluations: the worklist  *)
(* of a tag, the facts one evaluation hands to the next through             *)
(* MODULE.bazel.lock, and the pool of archives all tags share.              *)
(*                                                                         *)
(* The registries and git remotes are external: they publish and withdraw   *)
(* versions and move what a branch or a tag names.  How highest_matching    *)
(* orders versions is VersionChoice's subject; here versions are numbered   *)
(* in their order.  A registry source is one that names no host.            *)
(***************************************************************************)
EXTENDS Naturals, Sequences, FiniteSets, SequencesExt, FiniteSetsExt

CONSTANTS
  Registry,               \* registries a tag may name
  RegistrySource, Remote, \* registry modules and git remotes
  GitHub,                 \* the remotes fetched as GitHub archives
  Sub,                    \* directories inside a module's archive
  Version,                \* versions and commits, numbered from 1
  Graphs,                 \* what the modules call: [source, version, sub] to references
  Worlds,                 \* what is published, named and recorded at first
  TagLists,               \* the `deps` tags an evaluation may find
  Reserved,               \* hub names the extension keeps for itself
  Limit,                  \* _MAX_REGISTRY_MODULES
  MaxEvals,               \* bound: evaluations
  MaxMoves                \* bound: what upstream does in all

(***************************************************************************)
(* A reference as a `module` block writes it.  `want` is the set of         *)
(* versions a registry constraint admits, or the commit a git ref spells;   *)
(* `versioned` is whether a git block carries a `version` it may not have.  *)
(***************************************************************************)
Kind == {"exact", "range", "commit", "tag", "branch"}

isGit(r) == r.kind \in {"commit", "tag", "branch"}

Source == RegistrySource \cup Remote

Ref == {r \in [kind : Kind, source : Source, sub : Sub, want : SUBSET Version, versioned : BOOLEAN] :
  /\ isGit(r) <=> r.source \in Remote
  /\ r.kind \in {"exact", "commit"} => \E v \in Version : r.want = {v}
  /\ r.kind \in {"tag", "branch"} => r.want = {}}

DepsTag == [name : STRING, registry : Registry, roots : Seq(Ref)]

\* Facts there are at first were written before transitive resolution.
ASSUME InputsAssumption ==
  /\ GitHub \subseteq Remote /\ RegistrySource \cap Remote = {}
  /\ Version \subseteq Nat \ {0} /\ Limit \in Nat
  /\ TagLists \subseteq Seq(DepsTag)
  /\ Graphs \subseteq [Source \X Version \X Sub -> Seq(Ref)]
  /\ \A w \in Worlds :
       /\ w.published \in [Registry \X RegistrySource -> SUBSET Version]
       /\ w.head \in [Remote \X {"tag", "branch"} -> Version]
       /\ \A k \in DOMAIN w.facts.module : ~w.facts.module[k].full
       /\ \A k \in DOMAIN w.facts.version : w.facts.version[k] \in k.want

VARIABLES
  graph,      \* what each module calls
  published,  \* [registry, source] to versions
  head,       \* [remote, "tag" or "branch"] to the commit it names
  moves,      \* how often upstream moved
  facts,      \* the facts the last evaluation that succeeded returned
  last,       \* that evaluation: its tags and what it declared
  evals,      \* evaluations so far
  pc, tags, upgrade, since,                 \* the evaluation under way, and `moves` when it began
  tag, pending, queued, resolved, archives, pops, \* its tag, and that tag's worklist
  newFacts, pool, members,                  \* what it has produced
  asked                                     \* whether it needed the network

world == <<graph, published, head, moves>>
recorded == <<facts, last, evals>>
evaluation == <<tags, upgrade, since>>
work == <<tag, pending, queued, resolved, archives, pops>>
product == <<newFacts, pool, members, asked>>
vars == <<world, recorded, pc, evaluation, work, product>>

-------------------------------------------------------------------------------
NoFacts == [module |-> <<>>, version |-> <<>>]

\* An unpacked archive or checkout: where it is from and what it is.
Archive(from, source, version) == [from |-> from, source |-> source, version |-> version]

\* What is fetched: a version, a commit, or the archive of a tag.
Versioned(source, v) == [source |-> source, version |-> v, tag |-> FALSE]
Tagged(source) == [source |-> source, version |-> 0, tag |-> TRUE]

\* The references read from a module inside an archive, its local calls followed.
_external_refs(archive, sub) == graph[<<archive.source, archive.version, sub>>]

At(f, k, v) == [x \in (DOMAIN f) \cup {k} |-> IF x = k THEN v ELSE f[x]]

registry == tags[tag].registry

ref == Head(pending)

Resting == pc \in {"idle", "done", "failed"}

Init ==
  /\ graph \in Graphs
  /\ \E w \in Worlds : published = w.published /\ head = w.head /\ facts = w.facts
  /\ moves = 0 /\ evals = 0
  /\ last = [tags |-> <<>>, pool |-> <<>>, members |-> <<>>, still |-> TRUE]
  /\ pc = "idle" /\ tags = <<>> /\ upgrade = FALSE /\ since = 0
  /\ tag = 0 /\ pending = <<>> /\ queued = {} /\ resolved = {} /\ archives = <<>> /\ pops = 0
  /\ newFacts = NoFacts /\ pool = <<>> /\ members = <<>> /\ asked = FALSE

-------------------------------------------------------------------------------
(***************************************************************************)
(* Upstream                                                                 *)
(***************************************************************************)
MayMove ==
  /\ moves < MaxMoves
  /\ moves' = moves + 1
  /\ UNCHANGED <<graph, recorded, pc, evaluation, work, product>>

Publish(reg, source, v) ==
  /\ v \notin published[<<reg, source>>]
  /\ published' = [published EXCEPT ![<<reg, source>>] = @ \cup {v}]
  /\ MayMove /\ UNCHANGED head

Withdraw(reg, source, v) ==
  /\ v \in published[<<reg, source>>]
  /\ published' = [published EXCEPT ![<<reg, source>>] = @ \ {v}]
  /\ MayMove /\ UNCHANGED head

\* A branch moves; a tag that moved is refused at its next fetch.
MoveBranch(remote, commit) ==
  /\ head[<<remote, "branch">>] # commit
  /\ head' = [head EXCEPT ![<<remote, "branch">>] = commit]
  /\ MayMove /\ UNCHANGED published

-------------------------------------------------------------------------------
(***************************************************************************)
(* run_extension                                                            *)
(***************************************************************************)
Evaluate(list, up) ==
  /\ Resting /\ evals < MaxEvals
  /\ pc' = "tag" /\ tags' = list /\ upgrade' = up /\ since' = moves
  /\ tag' = 0 /\ pending' = <<>> /\ queued' = {} /\ resolved' = {} /\ archives' = <<>> /\ pops' = 0
  /\ newFacts' = NoFacts /\ pool' = <<>> /\ members' = <<>> /\ asked' = FALSE
  /\ evals' = evals + 1
  /\ UNCHANGED <<world, facts, last>>

claim_hub_name(t) ==
  tags[t].name \notin Reserved \cup {tags[n].name : n \in 1..(t - 1)}

\* A plausible bug: deduplicated at the pop only.
UnseenNever(refs, seen) == refs

\* The references of `refs` not yet queued, each once, in the order written.
Unseen(refs, seen) ==
  FoldLeft(LAMBDA list, r : IF r \in seen \cup ToSet(list) THEN list ELSE Append(list, r),
           <<>>, refs)

StartTag ==
  /\ pc = "tag" /\ tag < Len(tags) /\ claim_hub_name(tag + 1)
  /\ tag' = tag + 1
  /\ pending' = Unseen(tags[tag'].roots, {})
  /\ queued' = ToSet(tags[tag'].roots)
  /\ resolved' = {} /\ archives' = <<>> /\ pops' = 0
  /\ members' = Append(members, {})
  /\ pc' = "work"
  /\ UNCHANGED <<world, recorded, evaluation, newFacts, pool, asked>>

FinishTag ==
  /\ pc = "work" /\ pending = <<>>
  /\ pc' = "tag"
  /\ UNCHANGED <<world, recorded, evaluation, work, product>>

Finish ==
  /\ pc = "tag" /\ tag = Len(tags)
  /\ pc' = "done"
  /\ facts' = newFacts
  /\ last' = [tags |-> tags, pool |-> pool, members |-> members, still |-> since = moves]
  /\ UNCHANGED <<world, evals, evaluation, work, product>>

-------------------------------------------------------------------------------
(***************************************************************************)
(* resolve_registry_modules: one reference of the worklist.  Each of the    *)
(* sets below is empty when the code calls fail().                          *)
(***************************************************************************)
_resolution_fact_key(r) == [registry |-> registry, source |-> r.source, want |-> r.want]

\* A plausible bug: the recorded resolution of a constraint is not consulted.
ResolutionKnownNever(r) == FALSE

ResolutionKnown(r) == ~upgrade /\ _resolution_fact_key(r) \in DOMAIN facts.version

resolve_version(r) ==
  {v \in published[<<registry, r.source>>] \cap r.want :
     \A w \in published[<<registry, r.source>>] \cap r.want : w <= v}

_resolved_version(r) ==
  IF ResolutionKnown(r) THEN {facts.version[_resolution_fact_key(r)]} ELSE resolve_version(r)

VersionOf(r) == IF r.kind = "exact" THEN r.want ELSE _resolved_version(r)

\* Facts identity of a module: a registry one has no registry in it.
_fact_key(r, v) == [r EXCEPT !.kind = "exact", !.want = {v}, !.versioned = FALSE]
_git_fact_key(r) == [r EXCEPT !.versioned = FALSE]

_git_pin(r) ==
  CASE r.kind = "commit" -> Versioned(r.source, CHOOSE c \in r.want : TRUE)
    [] r.kind = "tag" -> Tagged(r.source)
    [] r.kind = "branch" -> Versioned(r.source, head[<<r.source, "branch">>])

Download(what) ==
  IF what.source \in Remote
  THEN {Archive(what.source, what.source, IF what.tag THEN head[<<what.source, "tag">>] ELSE what.version)}
  ELSE {Archive(registry, what.source, v) : v \in published[<<registry, what.source>>] \cap {what.version}}

_fetch(what) == IF what \in DOMAIN archives THEN {archives[what]} ELSE Download(what)

\* A plausible bug: the checkout's identity is the ref as written, not the commit.
PinnedByRef(what, archive) == IF what.source \in Remote THEN Tagged(what.source) ELSE what

\* A checkout is pinned by its commit, a GitHub archive by the ref.
Pinned(what, archive) ==
  IF what.source \in Remote \ GitHub THEN Versioned(what.source, archive.version) ELSE what

\* A plausible bug: a fact without `deps` is reused as if it had none.
FactKnownLegacy(key) == key \in DOMAIN facts.module /\ (isGit(key) => ~upgrade)

\* A plausible bug: git facts are reused under an upgrade.
FactKnownAlways(key) == key \in DOMAIN facts.module /\ facts.module[key].full

\* Facts written before transitive resolution have no `deps` and are not reused.
FactKnown(key) ==
  /\ key \in DOMAIN facts.module /\ facts.module[key].full
  /\ isGit(key) => ~upgrade

ModuleFact(key, what) ==
  IF FactKnown(key)
  THEN {facts.module[key]}
  ELSE {[archive |-> a, deps |-> _external_refs(a, key.sub), full |-> TRUE, pin |-> Pinned(what, a)] :
          a \in _fetch(what)}

_pool_key(pin) ==
  [from |-> IF pin.source \in Remote THEN pin.source ELSE registry,
   source |-> pin.source, version |-> pin.version, tag |-> pin.tag]

\* A plausible bug: children are read at the root of the archive, not in the subdirectory.
SettleRootOnly(key, what, fact) ==
  LET found == Unseen(graph[<<fact.archive.source, fact.archive.version, CHOOSE s \in Sub : TRUE>>], queued)
      entry == _pool_key(fact.pin)
      subs == IF entry \in DOMAIN pool THEN pool[entry].subs ELSE {}
  IN /\ key \notin resolved
     /\ resolved' = resolved \cup {key}
     /\ pending' = Tail(pending) \o found
     /\ queued' = queued \cup ToSet(found)
     /\ archives' = archives
     /\ pool' = At(pool, entry, [archive |-> fact.archive, subs |-> subs \cup {key.sub}])
     /\ members' = [members EXCEPT ![tag] = @ \cup {[entry |-> entry, sub |-> key.sub]}]

\* What follows once a reference has its fact: deps queued, archive pooled.
Settle(key, what, fact) ==
  LET found == Unseen(fact.deps, queued)
      entry == _pool_key(fact.pin)
      subs == IF entry \in DOMAIN pool THEN pool[entry].subs ELSE {}
      archive == IF entry \in DOMAIN pool THEN pool[entry].archive ELSE fact.archive
  IN /\ key \notin resolved
     /\ resolved' = resolved \cup {key}
     /\ pending' = Tail(pending) \o found
     /\ queued' = queued \cup ToSet(found)
     /\ archives' = IF FactKnown(key) THEN archives ELSE At(archives, what, fact.archive)
     /\ pool' = At(pool, entry, [archive |-> archive, subs |-> subs \cup {key.sub}])
     /\ members' = [members EXCEPT ![tag] = @ \cup {[entry |-> entry, sub |-> key.sub]}]

\* A key seen before under another constraint or through another block.
Skip(key) ==
  /\ key \in resolved
  /\ pending' = Tail(pending)
  /\ UNCHANGED <<resolved, queued, archives, pool, members>>

Popping ==
  /\ pc = "work" /\ pending # <<>> /\ pops < Limit

Pop ==
  /\ pops' = pops + 1
  /\ UNCHANGED <<world, recorded, pc, evaluation, tag>>

RecordVersion(v) ==
  IF ref.kind = "range" THEN At(newFacts.version, _resolution_fact_key(ref), v) ELSE newFacts.version

Lookup == ref.kind = "range" /\ ~ResolutionKnown(ref)

ResolveRegistry ==
  /\ Popping /\ ~isGit(ref)
  /\ \E v \in VersionOf(ref) : LET key == _fact_key(ref, v) IN
       \/ /\ Skip(key)
          /\ newFacts' = [newFacts EXCEPT !.version = RecordVersion(v)]
          /\ asked' = (asked \/ Lookup)
       \/ \E fact \in ModuleFact(key, Versioned(ref.source, v)) :
            /\ Settle(key, Versioned(ref.source, v), fact)
            /\ newFacts' = [version |-> RecordVersion(v), module |-> At(newFacts.module, key, fact)]
            /\ asked' = (asked \/ Lookup \/ ~FactKnown(key))
  /\ Pop

ResolveGit ==
  /\ Popping /\ isGit(ref)
  /\ LET key == _git_fact_key(ref) IN
       \/ Skip(key) /\ UNCHANGED <<newFacts, asked>>
       \/ \E fact \in ModuleFact(key, _git_pin(ref)) :
            /\ ~ref.versioned
            /\ Settle(key, _git_pin(ref), fact)
            /\ newFacts' = [newFacts EXCEPT !.module = At(@, key, fact)]
            /\ asked' = (asked \/ ~FactKnown(key))
  /\ Pop

Unresolvable(r) ==
  IF isGit(r)
  THEN _git_fact_key(r) \notin resolved /\ r.versioned
  ELSE \/ VersionOf(r) = {}
       \/ \E v \in VersionOf(r) :
            /\ _fact_key(r, v) \notin resolved
            /\ ModuleFact(_fact_key(r, v), Versioned(r.source, v)) = {}

OverLimit == pc = "work" /\ pending # <<>> /\ pops = Limit

Fail ==
  /\ \/ pc = "tag" /\ tag < Len(tags) /\ ~claim_hub_name(tag + 1)
     \/ Popping /\ Unresolvable(ref)
     \/ OverLimit
  /\ pc' = "failed"
  /\ UNCHANGED <<world, recorded, evaluation, work, product>>

\* Bazel is stopped, or the network fails a request: nothing is returned.
Interrupt ==
  /\ pc \in {"tag", "work"}
  /\ pc' = "idle"
  /\ UNCHANGED <<world, recorded, evaluation, work, product>>

Over == Resting /\ evals = MaxEvals /\ UNCHANGED vars

Next ==
  \/ \E reg \in Registry, s \in RegistrySource, v \in Version : Publish(reg, s, v) \/ Withdraw(reg, s, v)
  \/ \E r \in Remote, c \in Version : MoveBranch(r, c)
  \/ \E list \in TagLists, up \in BOOLEAN : Evaluate(list, up)
  \/ StartTag \/ FinishTag \/ Finish
  \/ ResolveRegistry \/ ResolveGit
  \/ Fail \/ Interrupt \/ Over

Spec == Init /\ [][Next]_vars

-------------------------------------------------------------------------------
(***************************************************************************)
(* Properties                                                               *)
(***************************************************************************)
IsPool(p) ==
  \A e \in DOMAIN p :
    /\ p[e].archive \in [from : Registry \cup Remote, source : Source, version : Version]
    /\ p[e].subs \subseteq Sub /\ p[e].subs # {}

\* The facts, the pool and the worklist have the shapes the code gives them.
TypeOK ==
  /\ pc \in {"idle", "tag", "work", "done", "failed"}
  /\ tag \in 0..Len(tags) /\ Len(members) = tag /\ pops \in 0..Limit
  /\ queued \cup resolved \cup (DOMAIN newFacts.module) \subseteq Ref
  /\ ToSet(pending) \subseteq queued
  /\ IsPool(pool) /\ IsPool(last.pool)
  /\ \A k \in DOMAIN newFacts.module : newFacts.module[k].full

\* Whether a hub's member is a module that a reference of tag `t` may mean.
Serves(m, r, t) ==
  /\ m.entry.source = r.source /\ m.sub = r.sub
  /\ ~isGit(r) => m.entry.from = t.registry /\ m.entry.version \in r.want
  /\ r.kind = "commit" => m.entry.version \in r.want

\* A hub is closed: it serves every reference of its roots, and every
\* reference of the modules it serves, as their pooled archives spell them;
\* the engine finds all it needs in the hub and never has to fetch.
HubsClosed ==
  \A t \in 1..Len(last.members) :
    LET hub == last.members[t]
        called == UNION {ToSet(_external_refs(last.pool[m.entry].archive, m.sub)) : m \in hub}
    IN \A r \in ToSet(last.tags[t].roots) \cup called : \E m \in hub : Serves(m, r, last.tags[t])

Repeating == ~upgrade /\ tags = last.tags

Finishing == pc' = "done" /\ pc # "done"

\* If upstream stood still while the facts were made, an evaluation of the same
\* tags is answered by them alone: it needs no network, no withdrawn version or
\* deleted ref can make it fail, and it declares the same archives and hubs,
\* whatever upstream did since and however many evaluations failed in between.
RepeatIsLocal ==
  [][Repeating /\ ~Resting /\ last.still =>
       /\ ~asked' /\ pc' # "failed"
       /\ Finishing => last'.pool = last.pool /\ last'.members = last.members]_vars

Recorded(git) ==
  [k \in {k \in DOMAIN facts.module : facts.module[k].full /\ isGit(k) = git} |->
     [pin |-> facts.module[k].pin, archive |-> facts.module[k].archive, sub |-> k.sub]]

\* What the facts pin: the versions chosen, checkouts, and registry archives.
Pins == INSTANCE Pinning WITH
  still <- last.still,
  choices <- facts.version, moving <- Recorded(TRUE), fixed <- Recorded(FALSE),
  declared <- UNION {{[pin |-> [source |-> e.source, version |-> e.version, tag |-> e.tag],
                       archive |-> last.pool[e].archive, sub |-> s] : s \in last.pool[e].subs} : e \in DOMAIN last.pool}

\* The module half keeps what it recorded: a constraint, a branch and a tag
\* their answer until an upgrade, a published version its archive for ever,
\* and the pool has, under the identity a fact names, the very archive whose
\* integrity or commit the fact holds.
KeepsItsPins == Pins!Spec

\* An upgrade leaves no stale answer: each constraint names the newest version
\* published, each branch and tag the commit it names now.
UpgradeResolvesAgain ==
  [][Finishing /\ upgrade /\ last'.still =>
       /\ \A k \in DOMAIN facts'.version :
            \A v \in published[<<k.registry, k.source>>] \cap k.want : v <= facts'.version[k]
       /\ \A k \in DOMAIN facts'.module : k.kind \in {"tag", "branch"} =>
            facts'.module[k].archive.version = head[<<k.source, k.kind>>]]_vars

\* The limit is on references that differ: a tag fails for it only when more
\* than Limit of them were met, however often and in whatever cycles they
\* call each other.
LimitCountsOnce == pc = "failed" /\ pops = Limit /\ pending # <<>> => Cardinality(queued) > Limit

\* A hub that names a registry has that registry's archives.
PoolFromItsRegistry == \A e \in DOMAIN last.pool : last.pool[e].archive.from = e.from
===============================================================================
