-------------------------- MODULE ProviderResolution --------------------------
(***************************************************************************)
(* How the extension turns the `toolchain` tags into an engine              *)
(* (declare_toolchains of engine/toolchain_extension.bzl) and the lock      *)
(* files of the `deps` tags into provider archives                          *)
(* (resolve_providers_from_lock_file of engine/provider_repo.bzl), driven   *)
(* by run_extension over successive evaluations: the lookups it makes, the  *)
(* facts that save them, the check of each answer against the lock, and the *)
(* pool the hubs alias.                                                     *)
(*                                                                         *)
(* A registry is external: it publishes platforms of a version, it may      *)
(* serve another archive than before, and it may not answer.  So is the     *)
(* list of checksums of an engine's release.                                *)
(***************************************************************************)
EXTENDS Naturals, Sequences, FiniteSets, SequencesExt

CONSTANTS
  Host,        \* private registries a lock entry may name
  Registry,    \* registries a tag may name for entries of the public ones
  Source,      \* namespace/name of a provider
  Version,     \* versions of providers
  Platforms,   \* the (os, arch) pairs asked for, in order
  Elsewhere,   \* platforms published and not asked for
  Sum,         \* SHA-256 sums of archives
  EngineVersion,   \* versions of the engine
  EnginePlatforms, \* the platforms an engine's binary is known for
  versions,        \* the shipped table: version to checksums
  default_version, \* the newest of them
  TagLists,    \* the tags an evaluation may find: versions, registries and locks
  Worlds,      \* what is published, served and recorded at first
  Public,      \* the host of an entry that names a public registry
  MaxEvals,    \* bound: evaluations
  MaxMoves     \* bound: what upstream does in all

Platform == ToSet(Platforms) \cup Elsewhere

\* What a registry identifies: a version of a provider.
Release == [registry : Registry \cup Host, source : Source, version : Version]

IsKey(k) == k \in Release \X Platform

LockEntry == [host : Host \cup {Public}, source : Source, version : Version, zh : SUBSET Sum]

DepsTag == [registry : Registry, lock : Seq(LockEntry)]

\* Facts there are at first may hold entries of lookups that failed; no list of
\* platforms was ever recorded empty: the extension fails on one instead.
ASSUME InputsAssumption ==
  /\ Public \notin Host /\ Platforms \in Seq(Platform) \ {<<>>}
  /\ DOMAIN versions \subseteq EngineVersion /\ default_version \in DOMAIN versions
  /\ \A list \in TagLists : list.deps \in Seq(DepsTag)
  /\ \A w \in Worlds :
       /\ w.published \in [Release -> SUBSET Platform] /\ w.served \in [Release \X Platform -> Sum]
       /\ \A k \in DOMAIN w.facts.archive :
            IsKey(k) /\ \E sum \in Sum : w.facts.archive[k] \in {{}, {sum}}
       /\ \A r \in DOMAIN w.facts.platforms : w.facts.platforms[r] # {}

VARIABLES
  published,  \* release to platforms
  served,     \* release and platform to the sum of its archive
  sums,       \* version of the engine to its list: platform to sum
  moves,      \* how often upstream moved
  facts,      \* the facts the last evaluation that succeeded returned
  last,       \* that evaluation, if there was one: its tags and what it declared
  evals,      \* evaluations so far
  pc, tags,   \* the evaluation under way
  tag, at, platform, answer, some, \* its tag, lock entry and platform; what it knows of the entry
  newFacts, toolchains, pool, hubs, \* what it has produced
  asked       \* whether it needed the network

world == <<published, served, sums, moves>>
recorded == <<facts, last, evals>>
position == <<tag, at, platform, answer, some>>
product == <<newFacts, toolchains, pool, hubs, asked>>
vars == <<world, recorded, pc, tags, position, product>>

-------------------------------------------------------------------------------
NoFacts == [checksums |-> <<>>, archive |-> <<>>, platforms |-> <<>>]

\* An archive fact of older evaluations: the lookup had failed.
Failed == {}

With(f, k, v) == [x \in DOMAIN f \cup {k} |-> IF x = k THEN v ELSE f[x]]

NoTags == [toolchain |-> <<>>, deps |-> <<>>]

Resting == pc \in {"idle", "done", "failed"}

provider == tags.deps[tag].lock[at]

provider_registry == IF provider.host = Public THEN tags.deps[tag].registry ELSE provider.host

release == [registry |-> provider_registry, source |-> provider.source, version |-> provider.version]

\* One archive: its fact's key, and the name of its repository in the pool.
_pool_repo_name(r, p) == <<r, p>>

\* Nothing of an evaluation outlives it but what Finish keeps.
Blank ==
  /\ tags' = NoTags
  /\ tag' = 0 /\ at' = 0 /\ platform' = 0 /\ answer' = {} /\ some' = FALSE
  /\ newFacts' = NoFacts /\ toolchains' = {} /\ pool' = <<>> /\ hubs' = <<>> /\ asked' = FALSE

Init ==
  /\ \E w \in Worlds :
       published = w.published /\ served = w.served /\ sums = w.sums /\ facts = w.facts
  /\ moves = 0 /\ evals = 0
  /\ last = [made |-> FALSE, tags |-> NoTags, toolchains |-> {}, pool |-> <<>>, hubs |-> <<>>]
  /\ pc = "idle" /\ tags = NoTags
  /\ tag = 0 /\ at = 0 /\ platform = 0 /\ answer = {} /\ some = FALSE
  /\ newFacts = NoFacts /\ toolchains = {} /\ pool = <<>> /\ hubs = <<>> /\ asked = FALSE

-------------------------------------------------------------------------------
(***************************************************************************)
(* Upstream                                                                 *)
(***************************************************************************)
MayMove ==
  /\ moves < MaxMoves
  /\ moves' = moves + 1
  /\ UNCHANGED <<recorded, pc, tags, position, product>>

PublishFor(r, p) ==
  /\ p \notin published[r]
  /\ published' = [published EXCEPT ![r] = @ \cup {p}]
  /\ MayMove /\ UNCHANGED <<served, sums>>

ServeAnother(r, p, sum) ==
  /\ p \in published[r] /\ served[<<r, p>>] # sum
  /\ served' = [served EXCEPT ![<<r, p>>] = sum]
  /\ MayMove /\ UNCHANGED <<published, sums>>

\* A list of checksums gains a platform, or is corrected.
Relist(v, p, sum) ==
  /\ v \in DOMAIN sums
  /\ sums' = [sums EXCEPT ![v] = With(@, p, sum)]
  /\ sums' # sums
  /\ MayMove /\ UNCHANGED <<published, served>>

-------------------------------------------------------------------------------
(***************************************************************************)
(* run_extension                                                            *)
(***************************************************************************)
Evaluate(list) ==
  /\ Resting /\ evals < MaxEvals
  /\ pc' = "toolchain" /\ tags' = list
  /\ evals' = evals + 1
  /\ UNCHANGED <<world, facts, last, position, product>>

\* The release the root module's tags name, or else the newest shipped.
version == IF tags.toolchain = <<>> THEN default_version ELSE tags.toolchain[1]

\* A plausible bug: the release is asked for its checksums every time.
recordedNever(v) == {}

\* The checksums an earlier evaluation recorded, if it recorded any.
recorded_checksums(v) ==
  IF v \in DOMAIN facts.checksums /\ facts.checksums[v] # <<>> THEN {facts.checksums[v]} ELSE {}

\* Of a list, what is for a known platform.
_parse_sha256sums(list) == [p \in DOMAIN list \cap EnginePlatforms |-> list[p]]

\* The checksums of a release that is not shipped; none if they cannot be had.
_checksums_for(v) ==
  IF recorded_checksums(v) # {} THEN recorded_checksums(v)
  ELSE {_parse_sha256sums(sums[u]) : u \in {v} \cap DOMAIN sums} \ {<<>>}

checksums == IF version \in DOMAIN versions THEN {versions[version]} ELSE _checksums_for(version)

OneRelease == \A n \in 1..Len(tags.toolchain) : tags.toolchain[n] \in {version} \cap EngineVersion

declare_toolchains ==
  /\ pc = "toolchain" /\ OneRelease
  /\ \E list \in checksums :
       /\ toolchains' = {<<version, p, list[p]>> : p \in DOMAIN list}
       /\ newFacts' = IF version \in DOMAIN versions THEN newFacts
                       ELSE [newFacts EXCEPT !.checksums = With(@, version, list)]
  /\ asked' = (version \notin DOMAIN versions /\ recorded_checksums(version) = {})
  /\ pc' = "tag"
  /\ UNCHANGED <<world, recorded, tags, position, pool, hubs>>

\* A plausible bug: the list of hubs is made anew for each tag.
StartTagAlone ==
  /\ pc = "tag" /\ tag < Len(tags.deps)
  /\ tag' = tag + 1 /\ at' = 0
  /\ hubs' = <<<<>>>>
  /\ pc' = "lock"
  /\ UNCHANGED <<world, recorded, tags, platform, answer, some, newFacts, toolchains, pool, asked>>

StartTag ==
  /\ pc = "tag" /\ tag < Len(tags.deps)
  /\ tag' = tag + 1 /\ at' = 0
  /\ hubs' = Append(hubs, <<>>)
  /\ pc' = "lock"
  /\ UNCHANGED <<world, recorded, tags, platform, answer, some, newFacts, toolchains, pool, asked>>

Finish ==
  /\ pc = "tag" /\ tag = Len(tags.deps)
  /\ pc' = "done"
  /\ facts' = newFacts
  /\ last' = [made |-> TRUE, tags |-> tags, toolchains |-> toolchains, pool |-> pool, hubs |-> hubs]
  /\ Blank /\ UNCHANGED <<world, evals>>

-------------------------------------------------------------------------------
(***************************************************************************)
(* resolve_providers_from_lock_file                                         *)
(***************************************************************************)
NextProvider ==
  /\ pc = "lock" /\ at < Len(tags.deps[tag].lock)
  /\ at' = at + 1 /\ platform' = 1 /\ answer' = {} /\ some' = FALSE
  /\ pc' = "provider"
  /\ UNCHANGED <<world, recorded, tags, tag, product>>

LockDone ==
  /\ pc = "lock" /\ at = Len(tags.deps[tag].lock)
  /\ pc' = "tag"
  /\ UNCHANGED <<world, recorded, tags, position, product>>

\* A plausible bug: only what earlier evaluations recorded is recalled.
_recallOld(part, key) == IF key \in DOMAIN facts[part] THEN {facts[part][key]} ELSE {}

\* A fact of this evaluation or else of the one before, if there is one.
_recall(part, key) ==
  IF key \in DOMAIN newFacts[part] THEN {newFacts[part][key]}
  ELSE IF key \in DOMAIN facts[part] THEN {facts[part][key]}
  ELSE {}

current == Platforms[platform]

Key == _pool_repo_name(release, current)

\* A plausible bug: the recorded archive is only looked for where it is new.
_cached_archiveNew == UNION (IF Key \in DOMAIN newFacts.archive THEN {newFacts.archive[Key]} ELSE {})

\* The sum recorded for this archive; none for an entry that failed.
_cached_archive == UNION _recall("archive", Key)

Trying == pc = "provider" /\ platform <= Len(Platforms)

\* Nothing is recorded: is the platform published at all?
_published_platforms ==
  /\ Trying /\ _cached_archive = {} /\ answer = {}
  /\ LET known == _recall("platforms", release)
     IN /\ known # {} \/ published[release] # {}
        /\ answer' = IF known = {} THEN {published[release]} ELSE known
        /\ newFacts' = [newFacts EXCEPT !.platforms = With(@, release, CHOOSE ps \in answer' : TRUE)]
        /\ asked' = (asked \/ known = {})
  /\ UNCHANGED <<world, recorded, pc, tags, tag, at, platform, some, toolchains, pool, hubs>>

\* A plausible bug: a lookup that fails is read as "not available".
OmitUnanswered ==
  /\ Trying /\ _cached_archive = {}
  /\ platform' = platform + 1
  /\ UNCHANGED <<world, recorded, pc, tags, tag, at, answer, some, product>>

Omit ==
  /\ Trying /\ _cached_archive = {}
  /\ \E ps \in answer : current \notin ps
  /\ platform' = platform + 1
  /\ UNCHANGED <<world, recorded, pc, tags, tag, at, answer, some, product>>

\* The registry's answer, by the facts or now.
_lookup_archive ==
  IF _cached_archive # {} THEN _cached_archive
  ELSE {served[<<release, p>>] : p \in {current} \cap published[release] \cap UNION answer}

Looking == Trying /\ (_cached_archive # {} \/ \E ps \in answer : current \in ps)

\* A plausible bug: a recorded sum is taken to have been checked.
_check_against_lockFresh(sum) == _cached_archive # {} \/ provider.zh = {} \/ sum \in provider.zh

_check_against_lock(sum) == provider.zh = {} \/ sum \in provider.zh

Resolve ==
  /\ Looking
  /\ \E sum \in _lookup_archive :
       /\ _check_against_lock(sum)
       /\ newFacts' = [newFacts EXCEPT !.archive = With(@, Key, {sum})]
       /\ pool' = IF Key \in DOMAIN pool THEN pool ELSE With(pool, Key, sum)
  /\ hubs' = [hubs EXCEPT ![tag] = With(@, <<provider.source, current>>, Key)]
  /\ asked' = (asked \/ _cached_archive = {})
  /\ some' = TRUE /\ platform' = platform + 1
  /\ UNCHANGED <<world, recorded, pc, tags, tag, at, answer, toolchains>>

ProviderDone ==
  /\ pc = "provider" /\ platform = Len(Platforms) + 1 /\ some
  /\ pc' = "lock"
  /\ UNCHANGED <<world, recorded, tags, position, product>>

Fail ==
  /\ \/ pc = "toolchain" /\ (~OneRelease \/ checksums = {})
     \/ Trying /\ _cached_archive = {} /\ answer = {}
        /\ _recall("platforms", release) = {} /\ published[release] = {}
     \/ Looking /\ \A sum \in _lookup_archive : ~_check_against_lock(sum)
     \/ pc = "provider" /\ platform = Len(Platforms) + 1 /\ ~some
  /\ pc' = "failed"
  /\ Blank /\ UNCHANGED <<world, recorded>>

\* Bazel is stopped, or the registry does not answer: nothing is returned.
Interrupt ==
  /\ ~Resting
  /\ pc' = "idle"
  /\ Blank /\ UNCHANGED <<world, recorded>>

Over == Resting /\ evals = MaxEvals /\ UNCHANGED vars

Next ==
  \/ \E r \in Release, p \in Platform : PublishFor(r, p)
  \/ \E r \in Release, p \in Platform, sum \in Sum : ServeAnother(r, p, sum)
  \/ \E v \in EngineVersion, p \in Platform, sum \in Sum : Relist(v, p, sum)
  \/ \E list \in TagLists : Evaluate(list)
  \/ declare_toolchains \/ StartTag \/ Finish \/ NextProvider \/ LockDone
  \/ _published_platforms \/ Omit \/ Resolve \/ ProviderDone
  \/ Fail \/ Interrupt \/ Over

Spec == Init /\ [][Next]_vars

-------------------------------------------------------------------------------
(***************************************************************************)
(* Properties                                                               *)
(***************************************************************************)
\* The pool, the hubs and the facts have the shapes the code gives them; an
\* entry of a lookup that failed is never handed on.
TypeOK ==
  /\ pc \in {"idle", "toolchain", "tag", "lock", "provider", "done", "failed"}
  /\ tag \in 0..Len(tags.deps) /\ Len(hubs) = tag
  /\ Cardinality(answer) <= 1
  /\ \A k \in DOMAIN pool : IsKey(k) /\ pool[k] \in Sum
  /\ \A k \in DOMAIN newFacts.archive : IsKey(k) /\ newFacts.archive[k] \subseteq Sum
  /\ \A k \in DOMAIN newFacts.archive : newFacts.archive[k] # Failed
  /\ \A r \in DOMAIN newFacts.platforms : r \in Release /\ newFacts.platforms[r] # {}

\* The release a lock entry means to tag `t`.
Meant(t, p) ==
  [registry |-> IF p.host = Public THEN t.registry ELSE p.host, source |-> p.source, version |-> p.version]

\* The entries of a lock that no other entry shares namespace and name with.
Entries(t) ==
  {t.lock[n] : n \in {n \in 1..Len(t.lock) :
                        \A o \in 1..Len(t.lock) : t.lock[o].source = t.lock[n].source => o = n}}

\* Whatever a hub offers was checked: its pooled archive is one its own lock
\* vouches for, also when another hub brought the archive in.
HubsVouched ==
  \A t \in 1..Len(last.hubs) : \A p \in Entries(last.tags.deps[t]), f \in Platform :
    <<p.source, f>> \in DOMAIN last.hubs[t] =>
      LET k == last.hubs[t][<<p.source, f>>]
      IN k = <<Meant(last.tags.deps[t], p), f>> /\ (p.zh # {} => last.pool[k] \in p.zh)

\* A platform is missing from a hub only where the registry's own list,
\* recorded beside the archives, leaves it out; an outage never thins a hub.
OmittedOnTheRegistrysWord ==
  \A t \in 1..Len(last.hubs) : \A p \in Entries(last.tags.deps[t]), f \in ToSet(Platforms) :
    <<p.source, f>> \notin DOMAIN last.hubs[t] =>
      LET r == Meant(last.tags.deps[t], p)
      IN r \in DOMAIN facts.platforms /\ f \notin facts.platforms[r]

\* An evaluation of the same tags is answered by the facts alone: it asks no
\* registry and no release, it succeeds, and it declares what the last one declared.
RepeatIsLocal ==
  [][last.made /\ tags = last.tags /\ ~Resting =>
       /\ ~asked' /\ pc' # "failed"
       /\ pc' = "done" =>
            last'.toolchains = last.toolchains /\ last'.pool = last.pool /\ last'.hubs = last.hubs]_vars

\* What the facts pin: the archives found, of providers and of the engine, and
\* the lists of platforms.
Found == {k \in DOMAIN facts.archive : facts.archive[k] # Failed}

Listed == UNION {{<<"engine", v, p>> : p \in DOMAIN facts.checksums[v]} : v \in DOMAIN facts.checksums}

pinned == [k \in Found \cup Listed |->
             <<k, IF k \in Found THEN facts.archive[k] ELSE {facts.checksums[k[2]][k[3]]}>>]

pinnedUse ==
  {<<k, {last.pool[k]}>> : k \in DOMAIN last.pool}
    \cup {<<<<"engine", t[1], t[2]>>, {t[3]}>> : t \in {t \in last.toolchains : t[1] \notin DOMAIN versions}}

Pins == INSTANCE Pinning WITH
  upgrade <- FALSE, still <- TRUE, moving <- <<>>,
  choices <- facts.platforms, fixed <- pinned, declared <- pinnedUse

\* The extension keeps what it recorded: an archive is the one declared, and a
\* list of platforms the one consulted, whatever a registry serves or a release
\* lists since and however many evaluations fail, for as long as it is asked for.
KeepsItsPins == Pins!Spec
===============================================================================
