# Verification of rules_terraform

TLA+ models of the parts of this repository that decide things: what the init
tool puts into a module tree and a provider directory, which version a
constraint means, which lock a lock check accepts, what a `bazel run` leaves in a
checkout, where state goes, what a module extension records and declares, and
which rules Gazelle keeps up to date. Each module is translated from the code it names; TLC
checks it on small instances and TLAPS proves the theorems listed below for all
values of the constants.

## 1. The system

rules_terraform builds Terraform and OpenTofu modules with Bazel. A module
extension resolves what a configuration needs from outside the workspace; rules
collect it; an *init tool* lays it out as `terraform init` would; a *runner*
executes engine commands in a staged copy of that layout, or writes the
`.terraform` directory next to the sources.

| Component | State it keeps | Operations | Talks to | Hard behaviour | What makes it correct |
|---|---|---|---|---|---|
| Extension driver (`engine/extension_impl.bzl`) | facts in `MODULE.bazel.lock`; claimed hub names | one evaluation: tags in order, hubs, facts at the end | module, provider and toolchain extensions; Bazel | an evaluation fails half-way; facts are all or nothing | same tags and facts declare the same repositories |
| Module extension (`modules_extension.bzl`, `registry.bzl`, `git_source.bzl`) | worklist, memo, facts, pool of archives | resolve a registry or git reference, fetch, read its calls | registries, git remotes, driver | upstream moves, withdraws, is away; cycles of modules; three identities of one archive | hubs are closed; a pin is kept until an upgrade; repeats are local; an upgrade leaves nothing stale |
| Provider extension (`provider_repo.bzl`, `lock_hcl.bzl`) | facts, pool | per lock entry and platform: recall, look up, check, pool | registries, driver | outage or absence; old facts; one archive for two locks | whatever a hub offers its lock vouches for; no silent omission |
| Toolchain extension (`toolchain_extension.bzl`) | checksum facts | checksums of releases, toolchain repositories | release hosts | stale or partial checksum facts | every declared archive is pinned, and pinned alike at every evaluation |
| Module rules (`terraform.bzl`, `providers.bzl`, `init.bzl`) | providers of a target | provider groups, lock choice, transitive deps | init aspect | which lock wins over providers named on their own | one provider group, one lock, and what is installed is what it vouches for |
| Init tool: local modules (`engine/init/init.go`, `init.bzl`, `util.bzl`) | the tree, the visited directories, the candidates used | recursive walk: reuse, match, install, descend | module rules, runner | a directory made by another copy answers for a module; `../`; cycles | no overlay, closed tree, every dep referenced, the walk ends |
| Init tool: `modules.json` (`init.go`) | records, references, roots of the next round | walk, match a reference to a dep, install, next round | semver, runner, lock check | packages that reach themselves; positions matched across rounds | the manifest is exactly the module tree |
| Init tool: providers and lock (`init.go`, `lockparse`, `providerhash`) | `.terraform/providers`, the lock | unpack, hash, rewrite `h1:` lines | runner | versions and hosts spelled in three places | the engine accepts what was unpacked |
| Semantic versions (`internal/semver`, `semver.bzl`) | none (a pass over a list) | compare, check constraints, highest matching | both extensions, init tool | prereleases, `~>` segments, two ports | a total order; the best satisfying version |
| Runner (`engine/runner/runner.go`, `internal/moduledir`) | staged directory, state files, saved outputs | run a command, a test, a plan test | the engine, Bazel's execroot | killed anywhere; state only in a directory about to be removed; exit code 2 | no state is lost, or lands where it goes with the directory |
| In-place init (`runner.go`, `internal/fsutil`) | `.terraform` and the lock in the checkout | remove, copy, hash, rewrite lock, engine init | the engine, another run | stopped between two writes; two runs at once | success means what was built is installed and verified |
| Lock checks (`lockcheck`, `lockref`) | none | read required providers, compare with the lock | manifest | modules of the manifest that are not there | accepts exactly sufficient locks |
| Gazelle language (`engine/gazelle`) | directives of each directory, Gazelle's rule index | configure, generate, resolve | BUILD files | two languages share a directory; an engine switch; runs over a part, or stopped | the rules are those of a run from scratch; deps follow the `module` blocks |
| Validation, formatting, CLI and rule plumbing, JUnit, version tables | none | one engine command, conversions, generated data | runner | none of their own | - |

The call chain is: extension -> hub repositories -> rules -> init aspect -> init
tool (local modules, then providers and lock, then `modules.json`) -> staged
directory -> runner or in-place init -> engine.

`PROJECT.json` lists every component with its status, and under `hazards` every
place where a test would hardly reach, with the properties that guard it.

## 2. Plan

Done, in this order:

1. `LocalModules`, `Semver`/`VersionChoice`, with their proofs;
2. `ModulesManifest`, `InPlaceInit` and `Runner`, with their proofs;
3. `ModuleResolution`, `ProviderResolution`, and the abstract specification both
   implement, `Pinning`; the toolchain's checksums as a third set of facts in
   `ProviderResolution`; the proofs of both;
4. `ProviderLock`, `ProviderInstall`, `LockCheck` and the module that composes them
   over one target, `ProviderChain`, with its proofs;
5. `Gazelle`, with its proofs.

Left, most useful first:

1. An abstract specification of the in-place lock - a set of hashes that only
   grows - implemented by `InPlaceInit`.
2. `ModulesManifest` composed with `LockCheck`: the check over the very manifest the
   rounds produce, instead of over a given set of trees.

## 3. Modules

### ModuleTree, LocalModules

`resolveLocalModules` (`engine/init/init.go`). `ModuleTree` holds the pure part:
paths as sequences of names, joins, tails. `LocalModules` is the recursion with an
explicit stack: one frame per call of `resolve`, holding the directory and the
blocks still to read. `visited`, `used` and the tree are the code's maps and the
disk. The actions are the branches of one block: the source is not local, it climbs
out, it names a directory that exists (`Reuse`), no candidate or several match, one
matches and is copied (`Install`), it is entered (`Descend`), the frame is done
(`Return`), and the final check of unreferenced deps (`Finish`). The input is
what the init aspect hands over: a root package, candidates with their
directories, and blocks of local sources.

### Semver, VersionChoice

`Semver` is the order and the constraint check of `internal/semver/semver.go`, with
the port of `semver.bzl` beside it; a version is a record of numbers, a prerelease
list and the number of segments it was written with. `VersionChoice` is the pass of
`highest_matching`/`Highest` over a list: one action per listed version, keeping
the best stable one and the best prerelease.

### ModulesManifest

`generateModulesManifest` (`init.go`): a walk of each root, depth first, that
records local and external `module` blocks; then a round in which each external
reference is matched to a dep (`matchExternal`), installed under a key, and
becomes a root of the next round; until no round adds anything. Records,
references and roots are kept apart as the code keeps them, by position. A
directory's blocks are those of all its files one after another, as the scanner
gives them, so two may have one name; both are then installed under one key. A copy
clears nothing (`copyManifestAll`): `laid` is what lies under a key after all copies
to it, `disk` the dep copied there last. Of a directory that two packages have,
their files are taken to have all the same names, or all other names.

### InPlaceInit

`runInit` and `addHostHashes` (`runner.go`). Every step that touches the disk is an
action: remove a directory, create a file, fill it, copy the lock, read it, hash
each package, truncate the lock, write it, hand over to the engine. A run can be
stopped between any two, another can start over what it left, or beside it. The
engine's own `init` is external, in two steps: it reads the lock when it begins
(`EngineRead`), and when it ends (`EngineInit`) it has verified each provider against
its `h1:` and replaces the lock by what it read with the providers it lacked added,
if there are any. Other runs may write in between.

### Runner

`run`, `runCommand`, `runTest`, `runPlanTest` with `Stage`, `HermeticEnv` and
`LocalStateFiles` of `internal/moduledir`. State files are records that say where
they are; a staged directory is removed or left at the end of an invocation.
Invocations follow each other and each can be killed at any step.

### ModuleResolution

`resolve_registry_modules`, `_resolve_git`, `_resolved_version` and the driver
loop. Variables: the facts of the last evaluation that succeeded, what that one
declared (`last`), and of the one under way the tags, the worklist of the tag
(`pending`, `queued`, `resolved`, `pops`), the memo of archives, the new facts and
the pool. `KeepsItsPins` states, by `Pins == INSTANCE Pinning WITH ...`, that the
whole is an implementation of `Pinning`. One action pops one reference: `ResolveRegistry` or `ResolveGit`, each
with its `Skip`; `Settle` is what both do once the fact is there. Upstream is the
environment: `Publish`, `Withdraw`, `MoveBranch`, at any time. References are
records (kind, source, directory, versions wanted), so that a constraint is the set
of versions it admits.

### Pinning

What `MODULE.bazel.lock` promises, without tags, pools or an order of lookups: a map
from references to archives; an evaluation that succeeds may add what was not
pinned, an upgrade may pin anew, and what an evaluation declares is what is pinned
when it is over. Its variables are three maps of pins (answers to questions such as a
constraint, archives of references that move, archives of those that do not), what
was declared, and whether the evaluation under way upgrades and whether upstream
stood still during the last; it has two actions. Both resolutions implement it.

### ProviderResolution

`run_extension` for the tags `toolchain` and `deps`. First `declare_toolchains`
(`toolchain_extension.bzl`): the release a tag asks for or the default, its
checksums from the table shipped with the rules, from the facts if they cover
every platform, or fetched, and the archives declared from them. Then
`resolve_providers_from_lock_file` with `_recall`, `_cached_archive`,
`_published_platforms`, `_lookup_archive` and `_check_against_lock`, one action
per lock entry and platform: ask for the published platforms, omit, resolve; then
the check that some platform was resolved. An evaluation that fails or is
interrupted returns no facts. Registries may publish a platform, and serve another
archive, and a release's list of checksums may change (`Relist`), at any time.

The two halves of a `deps` tag are modelled apart, in `ModuleResolution` and here:
they share the evaluation, but no key of the facts, no pool and no name.

### ProviderLock, ProviderInstall, LockCheck, ProviderChain

`ProviderLock` is the data: a lock's entries with host, source, version and
hashes, and how the two parsers (`lockparse.go`, `lock_hcl.bzl`) and the hub
(`deps_hub.bzl`) read a host and a source. `ProviderInstall` is what happens between
a target's attributes and its `.terraform/providers`: the choice among a hub, a
group and single providers with the `fail`s in `terraform.bzl`, then the init
aspect's inputs (`init.bzl`), `providerHostsFromLock`, `extractProviders` one
provider at a time, and `rewriteLockFileHashes`. An `h1:` stands for the package it
was computed from. `LockCheck` is `lockcheck.go`: it reads the directories of the
manifest in any order, collects what they require and compares it with the lock. A
block has the label its type begins with, which `ParseProviderUsage` (`tfparse.go`)
goes by, and the label the engine takes, which a `provider` argument may make
another. `ProviderChain` runs
both on one target and one lock, and adds, as external, what the engine itself
demands of a lock and a provider directory before it starts.

### Gazelle

`engine/gazelle`, with both languages loaded. `Configure`, `owner`, `kindOf`,
`produced` and `empty` are the functions of `config.go` and `generate.go`; `suppliers`
and `Resolve` those of `resolve.go`. A run is two passes, as in Gazelle: `Generate`
each directory it updates, merging with the file that is there, and then `Write`
each with its deps, resolved against the rules in memory. It may update some
directories only, and can be stopped anywhere. `Edit` is whoever changes the
repository between runs.

### MC modules

`MCX` extends `X` and defines the constants of the instances; each `.cfg` names one.
The theorems about `X`, with their proofs, are in `XProofs`; those about `VersionChoice`
in `ModulesManifestProofs`, whose blocks are matched by the same order and constraints.

## 4. Runs

| Run | What it shows | Bounds |
|---|---|---|
| `local_modules` | no overlay, one module per target, closed trees, each directory entered once, and the walk ends | two blocks in the root, one in each of two candidates, names `a`, `b`; paths to length 4, so a candidate can nest in another, climb and come back |
| `version_choice` | the pass returns the best satisfying version; the order's laws; a constraint admits an interval | every list of up to three versions from a set with prereleases on both sides of each boundary |
| `modules_manifest` | keys are unique; the manifest is complete and grounded; nothing is copied below itself; the rounds end | two blocks at the top, three deps: two versions of one source and a module that calls back; trees and packages with two blocks of one name |
| `in_place_init` | own lock only grows, but for a half-written one, success installs, hashes genuine while runs do not overlap, both runs end | two runs, one stop anywhere, eight checkouts, two builds: a stop, a rerun over its leftovers and an overlap all occur |
| `runner` | no state under the usual name is lost; a module that keeps its state has none in the staged directory, but what a command put there by name | three invocations of any kind, kills anywhere |
| `runner_vanishing_state` (violation) | `apply -state=...` loses its state | the same |
| `module_resolution` | closed hubs, local repeats, fresh upgrades, the limit, and that it implements `Pinning` | three evaluations (resolve, resolve again, upgrade, in any order), three moves upstream, five tag lists, a limit of five pops that some lists exceed, modules that call each other in a cycle |
| `module_two_registries` (violation) | one registry's archive is declared as another's | two evaluations |
| `provider_resolution` | hubs hold what their lock vouches for, omit only on the registry's word, repeat without a network; it implements `Pinning` | three evaluations, two moves upstream, six lists of toolchain and lock tags, three first states, one with an entry of a failed lookup; two platforms, so that a recorded release can lack one |
| `provider_chain` | the check accepts the locks a tree needs and no others, as far as the scanner sees what blocks take; a lock it accepts is one the engine can run on; each installed directory is the one its entry vouches for | eighteen targets (every way to name providers, alone and combined), ten locks of either engine and of private registries, twelve module trees of up to three directories, the reading of which can fail, four of them with blocks whose provider is not the one their type begins with |
| `provider_private_host` (violation) | a provider of a private registry is unpacked under the public host | the same |
| `gazelle` | the rules and deps of a run from scratch | three directories, one below another, two edits, three runs over all or one of them, each stopped anywhere: enough for an engine switch after a partial run |

Each property has a mutant in `PROJECT.json`: a form of one definition that a
plausible bug would give it, with which TLC finds the property violated.

Properties exclude what the model, or section 6, shows to fail, and say so:

- `HashesGenuine` and `SuccessInstalls` hold while runs do not overlap.
- `OwnLockKept` is for any number of runs, overlapping anywhere, and has two
  exceptions, which section 6 describes: a run stopped while it writes the lock, and
  an engine that reads the lock while another run writes it. The theorem shows that
  there is no third.
- `KeptStateIsOutside` is about the usual state name: `apply -state=...` puts a
  record where it says, also in the staged directory of a module that keeps its
  state. It says that no other record is there.
- `KeysUnique`, `ManifestComplete`, `ManifestGrounded` and `NoSpuriousCopy` are for trees and
  packages in which no directory names two blocks with a source alike
  (`NamesDistinct`). What the code does with the others is in the model (`Terminates` is
  checked of them too) and in section 6.
- `KeepsItsPins` and `RepeatIsLocal` of `module_resolution` are for lists of tags that
  come to each registry module with one registry; `module_two_registries` shows the
  other case.
- `UpgradeResolvesAgain` and, of modules, `RepeatIsLocal` speak of facts made while upstream
  stood still. Otherwise two references with one constraint, to two directories of a
  module, can be answered before and after a publication, and a repeat takes the
  second answer for both and has to fetch again (6).
- `HubsVouched` is for locks in which no two entries differ in their host alone.
- `AcceptedRuns` and `VouchedFor` are for *plain* locks: every entry on the engine's
  public host or on a private one that begins with `registry.`, each source and
  each hub package once, each entry with a version and an `h1:`.
- `CheckIsExact` is for trees that do not declare the built-in provider, and of locks
  the check accepts it says two things apart: they cover what the engine requires,
  unless some module names a provider in a `provider` argument and nowhere else
  (`Overlooks`); they hold nothing more, unless some block's type begins with a label
  no block takes (`Guesses`). `AcceptedRuns` excludes `Overlooks`.
- `DepsFollowCalls` is for calls of directories other than the top of the repository.

**Fairness.** `Terminates` (both init walks) assumes weak fairness of the walk as a
whole: it is one sequential loop of one process, which waits for nothing. `RunsEnd`
assumes weak fairness of each run's own steps: a run is a process the operating
system schedules, and takes no lock. Starting a run, stopping one and everything
upstream does are never assumed.

## 5. Proofs

From `InputsAssumption` alone - no bound on deps, blocks, versions or path lengths -
TLAPS proves:

`LocalModulesProofs`: `TypeCorrect`, `NoOverlaySafety`, `OneModuleSafety`,
`ClosureSafety`, `DemandSafety`, `ReferenceSafety`, `WalkedOnceSafety`. The
inductive invariant `IInv` adds to the types: the root module is placed
(`RootPlaced`), what was reached exists (`ReachedExist`), every frame of the stack
reads blocks of a module that is installed where the frame stands (`FramesReal`),
and each block of a reached directory was dealt with or is pending in a frame
(`DealtOrPending`). Without the last two, closure is not inductive: `Return` drops
a frame, and only they say that nothing was left in it. `WalkedOnce` rests on
`StackVisited`, that the walk is only inside directories it has marked.

`ProviderChainProofs`, from `HostsAssumption`, `LabelsAssumption`, `InstallAssumption`
and `ChainAssumption` - any number of hosts, sources, versions, targets and locks:
`TypeCorrect`, `CheckSafety`, `VouchedSafety`, `AcceptedSafety`. Two invariants carry
them. `CheckInv` says that what the check has collected is the union of what the
modules it has read require, which makes its verdict exact when none is left.
`InstallInv` says of every directory unpacked so far which provider of the target it
holds and under which name; lemmas about plain locks then show that no two
providers share a directory and that each name is the entry's.

`ProviderResolutionProofs`, from `InputsAssumption` - any number of tags, locks, platforms,
evaluations and moves: `TypeCorrect`; `PinningSafety`, that every step of the
specification is a step of `Pinning` or a stutter; `HubsSafety`, `OmittedSafety` and
`RepeatSafety`. `KeepsItsPins` is not inductive by
itself: `IInv` adds that the facts made so far agree with the facts recalled
(`FactsInv`), that what an evaluation is about to declare comes from them
(`ProductInv`, `PoolInv`), and the same of platforms and checksums (`PlatformsInv`,
`ChecksumsInv`, `EngineInv`). `HubsSafety` adds where the loop stands in its lock
(`PositionInv`) and that each hub is vouched for as far as it has come (`HubsInv`).

The other two are about every tag, entry and platform an evaluation has passed
(`Passed`). `PassedInv` says that the archive of each is in the pool and checked, or
the registry's list without its platform is among the facts (`Accounted`); that
the hubs offer exactly what is pooled, of several entries for one source the last
(`Offered`); and that each entry left behind has some platform (`Filled`).
`EntryInv` ties the answer the loop holds in hand to the facts. `LastInv` is the same of
all positions of the last evaluation that succeeded, which gives `OmittedSafety`.
`RepeatInv` says that a repeat has pooled, at the positions it has passed, exactly
what the last one pooled there: whatever it looks up the facts know
(`RepeatCached`), so no branch of `Fail` is open to it, and since `Offered` determines
the hubs from the pool, it ends with the same ones.

`RunnerProofs`, from `InputsAssumption` - any states, commands and number of
invocations: `TypeCorrect`, `RecordsSafety`, `KeptOutsideSafety`. `IInv` adds to the
types that no state file is in the directory before the user's command has run
(`FoundInv`), and that a module which keeps its state has the override in place
before any command that reaches for the state (`PlacedInv`). Without `PlacedInv` the
engine could create a record in a directory whose removal takes the only copy.
`AgeInv` dates the records: each is of an invocation that was begun, and of the one
under way only once its command has run. `KeptOutsideSafety` needs it to tell what this
invocation created from what was there before.

`InPlaceInitProofs`, from `InputsAssumption` - any packages, builds, checkouts and
stops: `TypeCorrect`; `InstallSafety`; `HashesSafety`, if the locks that are built and
checked out hold no hash of half a package (`GenuineInputs`); `OwnLockSafety`, for any
number of runs. `InstalledInv` says of a run alone that, of the packages staged for the
directory it copies, those it need not copy any more are all that is there, whole but
for the one that is open. `HashInv` says that while runs follow one another only one of them is
under way (`AloneInv`) and that the packages it hashes are those it has copied
whole (`WholeInv`). `OwnInv` says that, until one of
the two exceptions has happened, the lock has all of the module's own entries or none
(`TruncatedInv`), and that what a run or its engine is about to write has them all; what a
run has read may be the empty lock, but then it finds no block to add a hash to and
writes nothing (`ContentInv`, `AddedInv`, `CreatedInv`). An engine does add to an empty
lock: that is the second exception.

`ModulesManifestProofs`, from `InputsAssumption` - any packages, blocks, deps and
number of rounds: `TypeCorrect`; and, where names are distinct (`NamesDistinct`),
`KeysSafety`, `CopySafety`. That the blocks a frame has still to read have different
names (`NamesInv`) and that what lies under a key is what was copied there, untouched
by a second copy (`LaidInv`), are part of the invariant: each needs the uniqueness of
keys before the step to hold after it. Keys are unique because of
what is still to come: `WaitingInv` says that everything that waits - roots not
walked, blocks not read, references not installed - has a key that is neither above nor
below another's, and that nothing recorded is at or below what has no record
yet. Each step replaces one thing that waits by others below it, which keeps both.
`CopyInv` adds that the sources of a root are those of all that is installed at it or
above it (`RootSourcesInv`), and that the walk of a root passes nothing else that
is installed (`WalkInv`, `RoundInv`); only then does comparing a reference with the
sources of its root refuse every copy below a copy.

And if the deps are a list (`FinitelyManyDeps`: their versions have a bound, so the
highest that satisfies exists): `CompleteSafety` and `GroundedSafety`. The invariant looks at four sets: what is recorded, the roots
not walked, the blocks not read and the references not installed. `CoveredInv` says
that each block of a recorded module is answered by a record or is in one of the
last three, which are empty when the manifest is written; `GroundInv` that
whatever is in any of the four, a block of a recorded module calls for it. One lemma,
`Onward`, reduces each step to what it adds to these sets and what it takes out; it
rests on `Steady`, that no step changes what lies at a key in use, which is where
`KeysUnique` is needed.

In the same module, of `VersionChoice`, for every list and constraint: `ChoiceTypeCorrect`,
`OrderSafety`, `ChoiceSafety`, `IntervalSafety`. The order's laws are proved from the comparison of identifiers
upwards, prereleases of any length included; `ChoiceIsBest` from the loop invariant
`LoopInv`, that each of the two bests is the greatest of its kind among the
versions passed. `IntervalSafety` follows from the order and each operator.

`ModuleResolutionProofs`, from `InputsAssumption` - any registries, remotes, graphs of
modules, lists of tags, evaluations and moves: `TypeCorrect`, `LimitCounts`,
`UpgradeAsksAgain`, `HubsAreClosed`. `TypeInv` is more than types: a fact, a memo or a pool
entry is what upstream makes of the key it answers for. `UnseenOnce` says of the fold
that queues a module's references that it lists each new one once; `CountInv`, that
each reference queued was popped or waits, gives `LimitCounts`. `HubInv` says that
a reference queued waits or is served by the hub, and that what the hub's members
call is queued; it needs the texts of the pooled archives to be those the facts
were read from.

From `OneRegistryEach` besides - there is a map from modules to registries that every
hub's roots and every call respect, and it gives a registry module one: `PoolSafety`,
`PinningSafety`, `RepeatSafety`. The assumption is about the inputs alone; without it the
run `module_two_registries` refutes the first. `AskInv` says that what is queued,
recorded or pooled is of a registry its module is asked of, so a fact's key, which
has no registry in it, tells archives apart. `PinInv` then ties new facts to old ones
and to the pool, which gives the refinement of `Pinning`. `RepeatSafety` has to compare
two evaluations: `Replays` is one step of the worklist as a set of facts decides
it, `TraceInv` says that what was done for each tag is a walk of such steps by the facts
made so far, and `LastInv` that the facts handed on replay all of them. A repeat is
then a prefix of that walk (`RepeatInv`), whatever upstream has done since, and a pool
is determined by the members of its hubs (`MembersInv`).

`GazelleProofs`, from `GazelleAssumption` - any directories, directives, BUILD files without two
rules of one name, edits and runs: `DepsSafety`; and `ScratchSafety`, if no directory is
called what another generated target is (`NamesApart`). `Settled` says of a directory's
rules that none is stale and that the name of each that is missing is taken, `Linked` that the deps
are what they resolve to. `GenerateRules` makes every directory settled and leaves a
settled one alone, and resolving looks at nothing but the names of module rules; so a run
over a part, after a whole one, changes neither (`CurrentInv`), and a whole
one, whatever was stopped before it, ends with both everywhere (`GenerateInv`, `WriteInv`).
`UniqueInv` keeps names apart. Without `NamesApart` a root that becomes a library and then
a root again does not get its binary back: the kept module has its name.

Only model-checked: liveness. Liveness, ENABLED
and what a RECURSIVE operator computes for every input are out of this prover's
reach. `FoldLeft`, which the worklist uses, is a recursive function, and what is needed
of it is proved by taking the least counterexample.

## 6. Disagreements

With a run (see `findings` in `PROJECT.json`): the state of `apply -state=`; the
archive of another registry; the provider of a private registry whose host does
not begin with `registry.`.

Seen in a model while it was built, and excluded from its properties:

- `init.go:299`: `visited` is keyed by directory, so it does not stop a dep that is
  installed below itself: a cycle of `module` blocks with a climbing source grows
  until a path length ends it.
- `runner.go:542`: a run stopped between truncating and writing the lock leaves the
  module's own lock empty. Of two overlapping runs, the engine of one may read the
  lock the other has just truncated, and replace what the other then writes by its own
  entries alone: the module's own are lost with nobody stopped.
- `tfparse.go:96-114`: the scanner appends the blocks of every `.tf` and `.tofu` file of a
  directory, an override file's beside those it overrides, and both of `foo.tf` and
  `foo.tofu`. Where two of them name one external block, `init.go:868` copies both
  packages to one directory, the second over the first, `modules.json` gets two records
  of one key, and where two versions differ, the files of both lie there. (The engine
  takes such a manifest for corrupt.)
- `tfparse.go:163-171`, `lockcheck.go:139-149`: a block's `provider` argument is not read.
  `resource "google_x"` with `provider = google-beta` makes the check ask for
  `hashicorp/google`, and refuse the lock the engine needs; a provider that is named
  only in such an argument, and declared nowhere, is not asked for, and a lock without
  it accepted.
- `runner.go:523`: of two overlapping runs one may hash a package the other has half
  copied, and the hash enters the lock.

Read in the code while modelling:

- `init.go:337`: a dep whose target exists only as the parent of another module or
  of data files counts as installed and is not copied.
- `init.go:370`: the tree root is `""` for a dep and `.` for a source, and the two
  never compare equal.
- `init.go:496` and `init.go:581`: a `terraform_provider` without a version is unpacked
  under `0.0.0` and hashed in a directory without a version, so the init always fails.
- `init.go:610`: `h1:` lines are replaced, never added: an entry with only `zh:` hashes
  gets none.
- `init.go:879`: a record's source may carry the registry host, where `init.go:875`
  asks for the bare form.
- `init.bzl:139-141`: a provider without files is left out of the tree without a word.
- `terraform.bzl:126-133`: in a module with a group, a single provider of a source the
  group has is skipped, in another version too.
- `provider_group` written by hand may list two providers of one source; both are
  unpacked.
- `deps_hub.bzl:85`: the hub's packages of `foo/bar-baz` and `foo/bar_baz` have one name.
- `provider_repo.bzl:410`: a hub's map has no host in its key: of two lock entries
  `a/x/y` and `b/x/y` one hides the other.
- `lockcheck.go:141`: the comment says the built-in provider ships inside the engine,
  but a tree that declares `terraform.io/builtin/terraform` is refused. The check
  takes both engines' public hosts for one, where an engine looks only under its own.
- `semver.go:42`: a numeric identifier beyond 64 bits is a word in Go and a number in
  Starlark.
- `runner.go:453`: `-lockfile=readonly` does not stop the copy of a lock into a
  checkout that has none; `docs/src/index.md:193` says every lock write is forbidden.
- `modules_extension.bzl:450`: the facts made by the evaluation under way are not
  consulted, so two tags with one constraint ask twice; if the registry publishes
  in between they get two versions and the lock shows the second.
  `extension_impl.bzl:127-130` says that the first evaluation of a new reference is the
  only live one; after such a publication the next may have to fetch once more.
- `modules_extension.bzl:643`: after a GitHub tag moved, a directory read for the
  first time is recorded from the new archive and declared from the old. The model
  assumes tags do not move.
- `modules_extension.bzl:730`: a git block with a `version` is refused, unless a block
  with the same source came first.
- `gazelle/resolve.go:20`: a source that names the top of the repository is `.`, its
  module is registered as the empty path, and the dep is never resolved.
- `gazelle/generate.go:155`: a root in a directory named after the engine gets a module
  and a binary of one name; `ScratchSafety` excludes it by hypothesis. `generate.go:49-52`: the module at the top is named after
  the checkout directory. `generate.go:59`: the default hubs of `a/b` and `a-b` collide.

## 7. Not modelled

- Validation and formatting (`engine/validate`, `engine/format`): one engine command in
  a staged copy, a straight line of calls; what it stages is `Runner`'s `Stage`.
- The lock updater (`engine/lockref`): engine commands over staged copies and one file
  written at the end, without a choice of its own.
- CLI, rule and macro plumbing: declarations, attributes, argument serialisation.
- The JUnit conversion: from the engine's JSON stream to XML, a format.
- The version tables and the script that downloads them: generated data.
- Of Gazelle: the lists `srcs` and `data`, visibility, and Gazelle's own merge beyond
  what it keeps and removes.
- Of what is modelled: message texts, the parse of `.tf` and lock text beyond which
  blocks and labels it finds, URLs, the
  spelling of sources and of versions, target names inside a pool repository.
