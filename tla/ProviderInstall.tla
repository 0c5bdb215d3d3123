--------------------------- MODULE ProviderInstall ---------------------------
(***************************************************************************)
(* From a lock to a directory the engine runs on: the hub of a `deps` tag   *)
(* (engine/deps_hub.bzl), the module target that depends on it              *)
(* (_terraform_module_impl), and the init tool that unpacks the providers   *)
(* and rewrites the lock (extractProviders and rewriteLockFileHashes of     *)
(* engine/init/init.go).                                                    *)
(***************************************************************************)
EXTENDS ProviderLock

CONSTANTS
  Registry,       \* the registry of the tag, for entries of the public ones
  Workspace,      \* where a provider built in the repository is from
  subpackage,     \* source to its package in a hub: `<namespace>_<name>`, - as _
  Platform,       \* platforms
  target_platform,\* the one the build is for
  NoVersion,      \* a terraform_provider that gives none
  Zero,           \* 0.0.0
  NoLock,         \* a target without a lock
  Targets         \* the module targets: hub locks, single providers, `lock`

\* A provider as a dep carries it: where its files are from, what they are.
Archive ==
  [from : {Registry, Workspace} \cup Host, source : Source, version : Version, platform : Platform,
   files : {"binary", "other", "none"}]

\* An entry as it is written.  The h1: of a directory stands for the archives
\* unpacked in it; a lock's own are those of the registry's release.
Written == [host : Host, source : Source, version : Version, h1 : SUBSET (Hash \cup SUBSET Archive)]

ASSUME InstallAssumption ==
  /\ NoLock \notin Seq(Written)
  /\ NoVersion \in Version /\ Zero \in Version \ {NoVersion} /\ target_platform \in Platform
  /\ \A t \in Targets :
       /\ t.hubs \in Seq(Seq(Entry)) /\ t.singles \in Seq(Archive)
       /\ t.lock = NoLock \/ t.lock \in Seq(Entry)

VARIABLES
  target,    \* the module target
  step,      \* "rule", "hosts", "extract", "done" or "failed"
  lock,      \* TerraformInfo.lock, and in the end the lock that is written
  providers, \* TerraformInfo.providers
  hosts,     \* providerHosts: name to host
  todoInstall, \* providers not unpacked yet
  installed  \* what .terraform/providers holds: directory and archive

installVars == <<target, step, lock, providers, hosts, todoInstall, installed>>

-------------------------------------------------------------------------------
elements(s) == {s[n] : n \in 1..Len(s)}

\* Where dict keys stand: at the entry that first had the source.
firstOf(l, s) == CHOOSE n \in 1..Len(l) : l[n].source = s /\ \A o \in 1..(n - 1) : l[o].source # s

\* The entries a hub offers.  Its map is keyed by source: the last entry of
\* one wins.  A package holds one source: the one that comes last wins.
_provider_subpackages(l) ==
  {n \in 1..Len(l) :
     /\ \A o \in (n + 1)..Len(l) : l[o].source # l[n].source
     /\ \A s \in {l[o].source : o \in 1..Len(l)} \ {l[n].source} :
          subpackage[s] = subpackage[l[n].source] => firstOf(l, s) < firstOf(l, l[n].source)}

\* What a pool repository provides for an entry on this platform.
pooled(e) ==
  LET p == parse_lock_file(e)
  IN [from |-> IF p.host = NoHost THEN Registry ELSE p.host, source |-> p.source,
      version |-> e.version, platform |-> target_platform, files |-> "binary"]

hubProviders(l) == {pooled(l[n]) : n \in _provider_subpackages(l)}

\* Of single providers the first of each source.
firstSingles(ps) ==
  {ps[n] : n \in {n \in 1..Len(ps) : \A o \in 1..(n - 1) : ps[o].source # ps[n].source}}

grouped == target.hubs # <<>>

sourcesOf(ps) == {p.source : p \in ps}

depProviders == IF grouped THEN hubProviders(target.hubs[1]) ELSE firstSingles(target.singles)

\* A plausible bug: the target's own `lock` wins over its hub's.
depLockOwn == IF target.lock # NoLock \/ ~grouped THEN target.lock ELSE target.hubs[1]

depLock == IF grouped THEN target.hubs[1] ELSE target.lock

\* A plausible bug: providers need no lock.
AcceptableUnlocked ==
  Len(target.hubs) <= 1
    /\ (grouped => sourcesOf(elements(target.singles)) \subseteq sourcesOf(depProviders))

\* The three fail()s of the rule.
Acceptable ==
  /\ Len(target.hubs) <= 1
  /\ grouped => sourcesOf(elements(target.singles)) \subseteq sourcesOf(depProviders)
  /\ depProviders # {} => depLock # NoLock

\* The rule, and the init aspect, which leaves out a provider without files.
_terraform_module_impl ==
  /\ step = "rule" /\ Acceptable
  /\ providers' = {p \in depProviders : p.files # "none"} /\ todoInstall' = providers'
  /\ lock' = depLock
  /\ step' = "hosts"
  /\ UNCHANGED <<target, hosts, installed>>

-------------------------------------------------------------------------------
(***************************************************************************)
(* The init tool                                                            *)
(***************************************************************************)
\* The entry of a lock that names `n` last.
lastNamed(l, n) == CHOOSE m \in 1..Len(l) :
  /\ ReadProviderLock(l[m]).Source = n
  /\ \A o \in (m + 1)..Len(l) : ReadProviderLock(l[o]).Source # n

hostsOf(l) ==
  IF l = NoLock THEN <<>>
  ELSE [n \in {ReadProviderLock(e).Source : e \in elements(l)} |-> ReadProviderLock(l[lastNamed(l, n)]).RegistryHost]

providerHostsFromLock ==
  /\ step = "hosts"
  /\ hosts' = hostsOf(lock)
  /\ step' = "extract"
  /\ UNCHANGED <<target, lock, providers, todoInstall, installed>>

\* A plausible bug: every provider is unpacked under the default host.
hostOfDefault(p) == DefaultHost

hostOf(p) == IF Bare(p.source) \in DOMAIN hosts THEN hosts[Bare(p.source)] ELSE DefaultHost

\* <host>/<namespace>/<name>/<version>/<platform>
dirOf(p, v) == [host |-> hostOf(p), source |-> p.source, version |-> v, platform |-> p.platform]

unpackedDir(p) == dirOf(p, IF p.version = NoVersion THEN Zero ELSE p.version)

extractProvider(p) ==
  /\ step = "extract" /\ p \in todoInstall /\ p.files = "binary"
  /\ installed' = installed \cup {[dir |-> unpackedDir(p), archive |-> p]}
  /\ todoInstall' = todoInstall \ {p}
  /\ UNCHANGED <<target, step, lock, providers, hosts>>

\* The h1: of a directory, if it is there.
H1(d) == {f.archive : f \in {f \in installed : f.dir = d}}

\* The directory is looked for under the version as given, also when that is none.
hashedDir(p) == dirOf(p, p.version)

\* Every h1: line of an installed provider becomes its hash; an entry with
\* none gets none.
rewritten(e) ==
  LET of == {p \in providers : Bare(p.source) = registryPrefixRE(e)}
  IN IF of = {} \/ e.h1 = {} THEN e ELSE [e EXCEPT !.h1 = {H1(hashedDir(p)) : p \in of}]

rewriteLockFileHashes ==
  /\ step = "extract" /\ todoInstall = {}
  /\ \A p \in providers : H1(hashedDir(p)) # {}
  /\ lock' = IF lock = NoLock THEN NoLock ELSE [n \in 1..Len(lock) |-> rewritten(lock[n])]
  /\ step' = "done"
  /\ UNCHANGED <<target, providers, hosts, todoInstall, installed>>

\* fail() of the rule; in the tool, an archive without its binary, a directory
\* to hash that is not there, or any file operation.  Bazel drops the tree.
InstallFails ==
  /\ \/ step = "rule" /\ ~Acceptable
     \/ step \in {"hosts", "extract"}
  /\ step' = "failed"
  /\ UNCHANGED <<target, lock, providers, hosts, todoInstall, installed>>

InstallNext ==
  \/ _terraform_module_impl \/ providerHostsFromLock \/ rewriteLockFileHashes \/ InstallFails
  \/ \E p \in todoInstall : extractProvider(p)
===============================================================================
