------------------------- MODULE ProviderChainProofs -------------------------
(***************************************************************************)
(* The lock test, for every lock and every module tree: what it accepts is *)
(* what the engine requires, up to the labels it guesses from the types of  *)
(* the blocks.  A lock it accepts is one the engine can run on, for every   *)
(* plain lock: whatever the hosts, sources, versions and hashes are and     *)
(* however many.                                                           *)
(***************************************************************************)
EXTENDS ProviderChain, WellFoundedInduction, TLAPS

-------------------------------------------------------------------------------
\* A non-empty set of natural numbers has a least element.
LEMMA Least ==
  ASSUME NEW T \in SUBSET Nat, T # {}
  PROVE  \E n \in T : \A k \in T : n <= k
<1> DEFINE R == {ss \in Nat \X Nat : ss[1] < ss[2]}
<1>1. IsWellFoundedOn(R, Nat)
  BY NatLessThanWellFounded, Zenon DEF OpToRel
<1>2. PICK n \in T : \A k \in T : ~ (<<k, n>> \in R)
  BY <1>1, WFMin
<1>3. \A k \in T : ~ (k < n)
  BY <1>2
<1> QED
  BY <1>3

-------------------------------------------------------------------------------
(***************************************************************************)
(* The lock test                                                            *)
(***************************************************************************)

\* What the modules read so far require is what has been gathered.
CheckInv ==
  /\ modules \in Trees /\ checked \in Locks
  /\ todo \subseteq moduleDirs
  /\ verdict = "ready" => required = {}
  /\ verdict = "reading" =>
       required = UNION {requiredProviders(modules[k]) : k \in moduleDirs \ todo}
  /\ verdict \in {"match", "mismatch"} =>
       /\ required = UNION {requiredProviders(modules[k]) : k \in moduleDirs}
       /\ verdict = "match" <=> required = lockedSources

LEMMA CheckInvInit == Init => CheckInv
BY DEF Init, CheckInv

LEMMA CheckInvStep == CheckInv /\ [Next]_vars => CheckInv'
<1> SUFFICES ASSUME CheckInv, [Next]_vars PROVE CheckInv'
  OBVIOUS
<1>1. CASE UNCHANGED checkVars
  BY <1>1 DEF CheckInv, checkVars, moduleDirs, lockedSources
<1>2. CASE StartCheck
  BY <1>2 DEF StartCheck, CheckInv, moduleDirs
<1>3. ASSUME NEW key \in Key, CheckModule(key) PROVE CheckInv'
  <2>1. UNION {requiredProviders(modules[k]) : k \in moduleDirs \ (todo \ {key})}
          = (UNION {requiredProviders(modules[k]) : k \in moduleDirs \ todo}) \cup requiredProviders(modules[key])
    <3>1. moduleDirs \ (todo \ {key}) = (moduleDirs \ todo) \cup {key}
      BY <1>3 DEF CheckModule, CheckInv
    <3> QED
      BY <3>1
  <2> QED
    BY <1>3, <2>1 DEF CheckModule, CheckInv, moduleDirs
<1>4. CASE CheckFails
  BY <1>4 DEF CheckFails, CheckInv, moduleDirs
<1>5. CASE Report
  BY <1>5 DEF Report, CheckInv, moduleDirs, lockedSources
<1> QED
  BY <1>1, <1>2, <1>3, <1>4, <1>5 DEF Next, Install, Check, CheckNext, Ended, vars

\* The reader of the lock and the normal form give an entry one name.
LEMMA LockedNames ==
  ASSUME NEW e \in Entry
  PROVE  LET p == ReadProviderLock(e)
         IN (IF p.RegistryHost \in PublicHost THEN p.Source ELSE At(p.RegistryHost, p.Source.source))
              = canonicalProviderSource(At(e.host, e.source))
BY HostsAssumption DEF Entry, ReadProviderLock, registryPrefixRE, canonicalProviderSource, At, Bare

\* So the names the test compares are the normal forms of the addresses.
LEMMA LockedSources ==
  ASSUME checked \in Locks
  PROVE  lockedSources = {canonicalProviderSource(At(checked[n].host, checked[n].source)) : n \in 1..Len(checked)}
<1>1. \A n \in 1..Len(checked) : checked[n] \in Entry
  BY ChainAssumption
<1> QED
  BY <1>1, LockedNames DEF lockedSources

\* A module's requirements cover what the engine needs for it, where every
\* label a block takes is seen.
LEMMA NeedsAreRequired ==
  ASSUME NEW c \in Config, overlooked(c) = {}
  PROVE  {canonicalProviderSource(n) : n \in Needs(c)} \subseteq requiredProviders(c)
<1>1. \A l \in DOMAIN c.declared : sourceOf(c, l) = c.declared[l]
  BY DEF sourceOf
<1>2. taken(c) \ {Builtin} \subseteq DOMAIN c.declared \cup (ParseProviderUsage(c) \ {Builtin})
  BY DEF overlooked
<1> QED
  BY <1>1, <1>2 DEF Needs, requiredProviders

\* They are nothing else, where no label is guessed and none stands for the
\* provider the engine has inside.
LEMMA RequiredIsNeeded ==
  ASSUME NEW c \in Config, guessed(c) = {}, \A l \in DOMAIN c.declared : c.declared[l] # BuiltinName
  PROVE  requiredProviders(c) \subseteq {canonicalProviderSource(n) : n \in Needs(c)}
<1> DEFINE All == DOMAIN c.declared \cup (taken(c) \ {Builtin})
<1>1. \A l \in DOMAIN c.declared : sourceOf(c, l) = c.declared[l]
  BY DEF sourceOf
<1>2. ParseProviderUsage(c) \ {Builtin} \subseteq All
  BY DEF guessed
<1>3. \A l \in Label \ DOMAIN c.declared : sourceOf(c, l) # BuiltinName
  BY HostsAssumption, LabelsAssumption DEF sourceOf, Bare
<1>4. All \subseteq Label
  BY DEF Config, Block, taken
<1>5. \A l \in All : sourceOf(c, l) \in Needs(c)
  BY <1>1, <1>3, <1>4 DEF Needs
<1>6. requiredProviders(c) \subseteq {canonicalProviderSource(sourceOf(c, l)) : l \in All}
  BY <1>1, <1>2 DEF requiredProviders
<1> QED
  BY <1>5, <1>6

LEMMA TreeModules ==
  ASSUME modules \in Trees
  PROVE  \A k \in moduleDirs : modules[k] \in Config
BY ChainAssumption DEF moduleDirs

\* Whatever the engine needs is required, under its normal form.
LEMMA NeededIsRequired ==
  ASSUME CheckInv, ~Overlooks
  PROVE  neededSources \subseteq UNION {requiredProviders(modules[k]) : k \in moduleDirs}
<1>1. \A k \in moduleDirs : modules[k] \in Config
  BY TreeModules DEF CheckInv
<1>2. \A k \in moduleDirs :
        {canonicalProviderSource(n) : n \in Needs(modules[k])} \subseteq requiredProviders(modules[k])
  BY <1>1, NeedsAreRequired DEF Overlooks
<1> QED
  BY <1>2 DEF neededSources, Needed

\* And nothing else is.
LEMMA RequiredIsMeant ==
  ASSUME CheckInv, ~Guesses, ~DeclaresBuiltin
  PROVE  UNION {requiredProviders(modules[k]) : k \in moduleDirs} \subseteq neededSources
<1>1. \A k \in moduleDirs : modules[k] \in Config
  BY TreeModules DEF CheckInv
<1>2. \A k \in moduleDirs : \A l \in DOMAIN modules[k].declared : modules[k].declared[l] # BuiltinName
  BY <1>1 DEF DeclaresBuiltin, Config
<1>3. \A k \in moduleDirs :
        requiredProviders(modules[k]) \subseteq {canonicalProviderSource(n) : n \in Needs(modules[k])}
  BY <1>1, <1>2, RequiredIsNeeded DEF Guesses
<1> QED
  BY <1>3 DEF neededSources, Needed

(***************************************************************************)
(* For every lock, tree and order of reading: a lock the test accepts has an *)
(* entry for each provider the engine requires, unless a module names one in *)
(* a `provider` argument alone, and no other entry, unless a prefix is       *)
(* guessed wrong; where neither is so, the right lock is accepted.           *)
(***************************************************************************)
THEOREM CheckSafety == Spec => []CheckIsExact
<1>1. CheckInv => CheckIsExact
  <2> SUFFICES ASSUME CheckInv, verdict \in {"match", "mismatch"}, ~DeclaresBuiltin
               PROVE  /\ verdict = "match" /\ ~Overlooks => neededSources \subseteq entrySources
                      /\ verdict = "match" /\ ~Guesses => entrySources \subseteq neededSources
                      /\ ~Overlooks /\ ~Guesses /\ neededSources = entrySources => verdict = "match"
    BY DEF CheckIsExact
  <2>1. lockedSources = entrySources
    BY LockedSources DEF CheckInv, entrySources
  <2>2. /\ required = UNION {requiredProviders(modules[k]) : k \in moduleDirs}
        /\ verdict = "match" <=> required = entrySources
    BY <2>1 DEF CheckInv
  <2>3. ~Overlooks => neededSources \subseteq required
    BY <2>2, NeededIsRequired
  <2>4. ~Guesses => required \subseteq neededSources
    BY <2>2, RequiredIsMeant
  <2> QED
    BY <2>2, <2>3, <2>4
<1>2. Init /\ [][Next]_vars => []CheckInv
  BY CheckInvInit, CheckInvStep, PTL
<1> QED
  BY <1>1, <1>2, PTL DEF Spec

-------------------------------------------------------------------------------
(***************************************************************************)
(* The installation                                                         *)
(***************************************************************************)
Unpacked(p) == [dir |-> unpackedDir(p), archive |-> p]

writtenLock == IF depLock = NoLock THEN NoLock ELSE [n \in 1..Len(depLock) |-> rewritten(depLock[n])]

\* Each step of the installation has done its own part and undone none: the
\* providers and the lock are those of the deps, the hosts those of the lock,
\* and what is unpacked is each provider once, where the hosts say.
InstallInv ==
  /\ target \in Targets
  /\ step \in {"rule", "hosts", "extract", "done", "failed"}
  /\ step \in {"rule", "hosts"} => installed = {}
  /\ step \in {"hosts", "extract", "done"} =>
       Acceptable /\ providers = {p \in depProviders : p.files # "none"}
  /\ step \in {"hosts", "extract"} => lock = depLock
  /\ step = "hosts" => todoInstall = providers
  /\ step \in {"extract", "done"} =>
       /\ hosts = hostsOf(depLock)
       /\ todoInstall \subseteq providers
       /\ installed = {Unpacked(p) : p \in providers \ todoInstall}
  /\ step = "done" =>
       /\ todoInstall = {}
       /\ lock = writtenLock

LEMMA InstallInvInit == Init => InstallInv
BY DEF Init, InstallInv

LEMMA InstallInvStep == InstallInv /\ [Next]_vars => InstallInv'
<1> SUFFICES ASSUME InstallInv, [Next]_vars PROVE InstallInv'
  OBVIOUS
<1> USE DEF InstallInv
<1>1. target' = target => depProviders' = depProviders /\ depLock' = depLock /\ Acceptable' = Acceptable
  BY DEF depProviders, depLock, Acceptable, grouped
<1>2. target' = target /\ hosts' = hosts => \A p : Unpacked(p)' = Unpacked(p)
  BY DEF Unpacked, unpackedDir, dirOf, hostOf
<1>3. /\ target' = target /\ hosts' = hosts /\ providers' = providers /\ installed' = installed
      => writtenLock' = writtenLock
  BY DEF writtenLock, depLock, grouped, rewritten, H1, hashedDir, dirOf, hostOf
<1>4. CASE UNCHANGED installVars
  BY <1>1, <1>2, <1>3, <1>4 DEF installVars
<1>5. CASE _terraform_module_impl
  BY <1>1, <1>5 DEF _terraform_module_impl
<1>6. CASE providerHostsFromLock
  <2>1. installed' = {Unpacked(p)' : p \in providers' \ todoInstall'}
    BY <1>6 DEF providerHostsFromLock
  <2> QED
    BY <1>1, <1>6, <2>1 DEF providerHostsFromLock
<1>7. ASSUME NEW p \in todoInstall, extractProvider(p) PROVE InstallInv'
  <2>1. installed' = {Unpacked(q) : q \in providers \ todoInstall} \cup {Unpacked(p)}
    BY <1>7 DEF extractProvider, Unpacked
  <2>2. providers \ (todoInstall \ {p}) = (providers \ todoInstall) \cup {p}
    BY <1>7 DEF extractProvider
  <2>3. installed' = {Unpacked(q) : q \in providers \ (todoInstall \ {p})}
    BY <2>1, <2>2
  <2>4. installed' = {Unpacked(q)' : q \in providers' \ todoInstall'}
    BY <1>2, <1>7, <2>3 DEF extractProvider
  <2> QED
    BY <1>1, <1>7, <2>4 DEF extractProvider
<1>8. CASE rewriteLockFileHashes
  <2>1. installed' = {Unpacked(p)' : p \in providers' \ todoInstall'}
    BY <1>2, <1>8 DEF rewriteLockFileHashes
  <2>2. lock' = writtenLock'
    <3>1. lock' = writtenLock
      BY <1>8 DEF rewriteLockFileHashes, writtenLock
    <3> QED
      BY <1>3, <1>8, <3>1 DEF rewriteLockFileHashes
  <2> QED
    BY <1>1, <1>8, <2>1, <2>2 DEF rewriteLockFileHashes
<1>9. CASE InstallFails
  BY <1>9 DEF InstallFails
<1> QED
  BY <1>4, <1>5, <1>6, <1>7, <1>8, <1>9 DEF Next, Install, InstallNext, Check, Ended, vars

-------------------------------------------------------------------------------
(***************************************************************************)
(* A plain lock in a directory that was built                               *)
(***************************************************************************)
hub == target.hubs[1]

LEMMA HubIsLock ==
  ASSUME InstallInv, grouped, step \in {"hosts", "extract", "done"}
  PROVE  hub \in Seq(Entry) /\ depLock = hub /\ depProviders = hubProviders(hub)
<1>1. target.hubs \in Seq(Seq(Entry)) /\ target.hubs # <<>>
  BY InstallAssumption DEF InstallInv, grouped
<1>2. Len(target.hubs) > 0
  BY <1>1
<1> QED
  BY <1>1, <1>2 DEF hub, depLock, depProviders

\* The rewrite keeps entries in place and changes hashes only.
LEMMA WrittenInPlace ==
  ASSUME InstallInv, Ran, grouped
  PROVE  /\ Len(lock) = Len(hub) /\ hub \in Seq(Entry)
         /\ \A n \in 1..Len(hub) :
              /\ hub[n] \in Entry /\ lock[n] = rewritten(hub[n])
              /\ lock[n].host = hub[n].host /\ lock[n].source = hub[n].source
              /\ lock[n].version = hub[n].version
              /\ lock[n].h1 # {} => hub[n].h1 # {}
<1>1. hub \in Seq(Entry) /\ depLock = hub /\ lock = writtenLock /\ lock # NoLock
  BY HubIsLock DEF Ran, InstallInv
<1>2. lock = [n \in 1..Len(hub) |-> rewritten(hub[n])]
  BY <1>1 DEF writtenLock
<1>3. Len(hub) \in Nat
  BY <1>1
<1>4. Len(lock) = Len(hub)
  BY <1>2, <1>3
<1>5. \A n \in 1..Len(hub) : hub[n] \in Entry /\ lock[n] = rewritten(hub[n])
  BY <1>1, <1>2
<1>6. ASSUME NEW e \in Entry
      PROVE  /\ rewritten(e).host = e.host /\ rewritten(e).source = e.source
             /\ rewritten(e).version = e.version
             /\ rewritten(e).h1 # {} => e.h1 # {}
  BY DEF rewritten, Entry
<1> QED
  BY <1>1, <1>4, <1>5, <1>6

\* What Plain says of the written lock holds of the hub's.
LEMMA PlainHub ==
  ASSUME InstallInv, Ran, grouped, NEW n \in 1..Len(hub)
  PROVE  /\ hub[n] \in Entry /\ hub[n].host \in RegistryHost \ (PublicHost \ {EngineHost})
         /\ hub[n].version # NoVersion /\ hub[n].h1 # {}
         /\ \A o \in 1..Len(hub) : o # n =>
              hub[o].source # hub[n].source /\ subpackage[hub[o].source] # subpackage[hub[n].source]
BY WrittenInPlace DEF Ran, Plain

\* Every entry of a plain lock is offered, and installed for this platform.
LEMMA PlainProviders ==
  ASSUME InstallInv, Ran, grouped
  PROVE  providers = {pooled(hub[n]) : n \in 1..Len(hub)}
<1>1. \A n \in 1..Len(hub) : n \in _provider_subpackages(hub)
  <2> SUFFICES ASSUME NEW n \in 1..Len(hub) PROVE n \in _provider_subpackages(hub)
    OBVIOUS
  <2>1. \A o \in 1..Len(hub) : o # n =>
          hub[o].source # hub[n].source /\ subpackage[hub[o].source] # subpackage[hub[n].source]
    BY PlainHub
  <2>2. Len(hub) \in Nat
    BY WrittenInPlace
  <2>3. \A o \in (n + 1)..Len(hub) : hub[o].source # hub[n].source
    BY <2>1, <2>2
  <2>4. \A s \in {hub[o].source : o \in 1..Len(hub)} \ {hub[n].source} : subpackage[s] # subpackage[hub[n].source]
    BY <2>1
  <2> QED
    BY <2>3, <2>4 DEF _provider_subpackages
<1>2. _provider_subpackages(hub) = 1..Len(hub)
  BY <1>1 DEF _provider_subpackages
<1>3. depProviders = {pooled(hub[n]) : n \in 1..Len(hub)}
  BY <1>2, HubIsLock DEF hubProviders, Ran
<1>4. \A e : pooled(e).files = "binary"
  BY DEF pooled
<1> QED
  BY <1>3, <1>4 DEF InstallInv, Ran

\* The two readers name an entry alike, and the tool finds its host again.
LEMMA PlainHost ==
  ASSUME InstallInv, Ran, grouped, NEW n \in 1..Len(hub)
  PROVE  /\ pooled(hub[n]).source = hub[n].source
         /\ registryPrefixRE(hub[n]) = Bare(hub[n].source)
         /\ hostOf(pooled(hub[n])) = hub[n].host
<1>1. \A m \in 1..Len(hub) :
        /\ ReadProviderLock(hub[m]).Source = Bare(hub[m].source)
        /\ ReadProviderLock(hub[m]).RegistryHost = hub[m].host
  BY PlainHub DEF ReadProviderLock, registryPrefixRE
<1>2. pooled(hub[n]).source = hub[n].source
  BY DEF pooled, parse_lock_file, At
<1>3. registryPrefixRE(hub[n]) = Bare(hub[n].source)
  BY PlainHub DEF registryPrefixRE
<1> DEFINE name == Bare(hub[n].source)
<1>4. \A m \in 1..Len(hub) : ReadProviderLock(hub[m]).Source = name => m = n
  <2> SUFFICES ASSUME NEW m \in 1..Len(hub), m # n PROVE Bare(hub[m].source) # Bare(hub[n].source)
    BY <1>1
  <2>1. hub[m].source # hub[n].source
    BY PlainHub
  <2> QED
    BY <2>1 DEF Bare
<1>5. Len(hub) \in Nat
  BY WrittenInPlace
<1>6. /\ ReadProviderLock(hub[n]).Source = name
      /\ \A o \in (n + 1)..Len(hub) : ReadProviderLock(hub[o]).Source # name
  BY <1>1, <1>4, <1>5
<1>7. lastNamed(hub, name) = n
  BY <1>4, <1>6 DEF lastNamed
<1>8. depLock = hub /\ hosts = hostsOf(hub) /\ hub # NoLock
  <2>1. depLock = hub /\ hosts = hostsOf(hub)
    BY HubIsLock DEF InstallInv, Ran
  <2>2. lock = writtenLock /\ lock # NoLock
    BY DEF InstallInv, Ran
  <2> QED
    BY <2>1, <2>2 DEF writtenLock
<1>9. name \in {ReadProviderLock(e).Source : e \in elements(hub)}
  BY <1>6 DEF elements
<1> HIDE DEF name
<1>10. name \in DOMAIN hosts /\ hosts[name] = ReadProviderLock(hub[lastNamed(hub, name)]).RegistryHost
  BY <1>8, <1>9 DEF hostsOf
<1>11. hosts[name] = hub[n].host
  BY <1>1, <1>7, <1>10
<1> QED
  BY <1>2, <1>3, <1>10, <1>11 DEF hostOf, name

\* So it is unpacked, and hashed, where the engine looks.
LEMMA PlainDir ==
  ASSUME InstallInv, Ran, grouped, NEW n \in 1..Len(hub)
  PROVE  /\ unpackedDir(pooled(hub[n])) = lookedUp(lock[n])
         /\ hashedDir(pooled(hub[n])) = lookedUp(lock[n])
<1>1. /\ pooled(hub[n]).version = hub[n].version
      /\ pooled(hub[n]).platform = target_platform
  BY DEF pooled
<1> QED
  BY <1>1, PlainHost, PlainHub, WrittenInPlace DEF unpackedDir, hashedDir, dirOf, lookedUp

\* One directory, one archive; and its hash is all its entry lists.
LEMMA PlainHash ==
  ASSUME InstallInv, Ran, grouped, NEW n \in 1..Len(hub)
  PROVE  /\ H1(lookedUp(lock[n])) = {pooled(hub[n])}
         /\ lock[n].h1 = {{pooled(hub[n])}}
<1>1. installed = {Unpacked(p) : p \in providers}
  BY DEF InstallInv, Ran
<1>2. \A m \in 1..Len(hub) : unpackedDir(pooled(hub[m])) = lookedUp(lock[m])
  BY PlainDir
<1>3. installed = {[dir |-> lookedUp(lock[m]), archive |-> pooled(hub[m])] : m \in 1..Len(hub)}
  BY <1>1, <1>2, PlainProviders DEF Unpacked
<1>4. \A m \in 1..Len(hub) : lookedUp(lock[m]) = lookedUp(lock[n]) => m = n
  BY PlainHub, WrittenInPlace DEF lookedUp
<1>5. H1(lookedUp(lock[n])) = {pooled(hub[n])}
  <2> DEFINE at == {f \in installed : f.dir = lookedUp(lock[n])}
  <2>1. at = {[dir |-> lookedUp(lock[n]), archive |-> pooled(hub[n])]}
    BY <1>3, <1>4
  <2>2. H1(lookedUp(lock[n])) = {f.archive : f \in at}
    BY DEF H1
  <2> HIDE DEF at
  <2> QED
    BY <2>1, <2>2
<1>6. \A m \in 1..Len(hub) : Bare(pooled(hub[m]).source) = registryPrefixRE(hub[n]) <=> m = n
  <2> SUFFICES ASSUME NEW m \in 1..Len(hub)
               PROVE  Bare(pooled(hub[m]).source) = registryPrefixRE(hub[n]) <=> m = n
    OBVIOUS
  <2>1. pooled(hub[m]).source = hub[m].source /\ registryPrefixRE(hub[n]) = Bare(hub[n].source)
    BY PlainHost
  <2>2. m # n => hub[m].source # hub[n].source
    BY PlainHub
  <2> QED
    BY <2>1, <2>2 DEF Bare
<1>7. {p \in providers : Bare(p.source) = registryPrefixRE(hub[n])} = {pooled(hub[n])}
  BY <1>6, PlainProviders
<1>8. hub[n].h1 # {} /\ hub[n] \in Entry
  BY PlainHub
<1>9. rewritten(hub[n]) = [hub[n] EXCEPT !.h1 = {H1(hashedDir(pooled(hub[n])))}]
  BY <1>7, <1>8 DEF rewritten
<1>10. rewritten(hub[n]).h1 = {H1(hashedDir(pooled(hub[n])))}
  BY <1>8, <1>9 DEF Entry
<1> QED
  BY <1>5, <1>10, PlainDir, WrittenInPlace

LEMMA InstallInvAlways == Spec => []InstallInv
BY InstallInvInit, InstallInvStep, PTL DEF Spec

\* What the rule takes from its deps are archives and a lock.
LEMMA DepTypes ==
  ASSUME InstallInv
  PROVE  depProviders \subseteq Archive /\ (depLock = NoLock \/ depLock \in Seq(Entry))
<1>1. /\ target.hubs \in Seq(Seq(Entry)) /\ target.singles \in Seq(Archive)
      /\ target.lock = NoLock \/ target.lock \in Seq(Entry)
  BY InstallAssumption DEF InstallInv
<1>2. CASE grouped
  <2>1. Len(target.hubs) > 0
    BY <1>1, <1>2 DEF grouped
  <2>2. target.hubs[1] \in Seq(Entry)
    BY <1>1, <2>1
  <2>3. \A e \in Entry : pooled(e) \in Archive
    BY InstallAssumption, HostsAssumption DEF pooled, parse_lock_file, At, Entry, Archive
  <2>4. hubProviders(target.hubs[1]) \subseteq Archive
    BY <2>2, <2>3 DEF hubProviders, _provider_subpackages
  <2> QED
    BY <1>2, <2>2, <2>4 DEF depProviders, depLock
<1>3. CASE ~grouped
  <2>1. firstSingles(target.singles) \subseteq Archive
    BY <1>1 DEF firstSingles
  <2> QED
    BY <1>1, <1>3, <2>1 DEF depProviders, depLock
<1> QED
  BY <1>2, <1>3

LEMMA EntriesAreWritten == Seq(Entry) \subseteq Seq(Written)
<1>1. Entry \subseteq Written
  BY DEF Entry, Written
<1> QED
  BY <1>1

LEMMA HostTypes ==
  ASSUME NEW l, l = NoLock \/ l \in Seq(Entry)
  PROVE  \A n \in DOMAIN hostsOf(l) : n \in Name /\ hostsOf(l)[n] \in RegistryHost
<1>1. CASE l = NoLock
  BY <1>1 DEF hostsOf
<1>2. CASE l # NoLock
  <2> SUFFICES ASSUME NEW n \in DOMAIN hostsOf(l) PROVE n \in Name /\ hostsOf(l)[n] \in RegistryHost
    OBVIOUS
  <2> DEFINE P(m) == /\ ReadProviderLock(l[m]).Source = n
                     /\ \A o \in (m + 1)..Len(l) : ReadProviderLock(l[o]).Source # n
  <2>1. n \in {ReadProviderLock(e).Source : e \in elements(l)}
    BY <1>2 DEF hostsOf
  <2>2. l \in Seq(Entry) /\ Len(l) \in Nat
    BY <1>2
  <2>3. \A m \in 1..Len(l) : ReadProviderLock(l[m]).Source \in Name /\ ReadProviderLock(l[m]).RegistryHost \in RegistryHost
    <3>1. \A e \in Entry : ReadProviderLock(e).Source \in Name /\ ReadProviderLock(e).RegistryHost \in RegistryHost
      BY HostsAssumption DEF Entry, ReadProviderLock, registryPrefixRE, Bare, At, Name
    <3> QED
      BY <2>2, <3>1
  <2>4. \E m \in 1..Len(l) : P(m)
    <3> DEFINE Q == {k \in Nat : \E m \in 1..Len(l) : k = Len(l) - m /\ ReadProviderLock(l[m]).Source = n}
    <3>1. PICK m \in 1..Len(l) : ReadProviderLock(l[m]).Source = n
      BY <2>1 DEF elements
    <3>2. Q # {} /\ Q \in SUBSET Nat
      <4>1. Len(l) - m \in Nat
        BY <2>2
      <4> QED
        BY <3>1, <4>1
    <3>3. PICK k \in Q : \A j \in Q : k <= j
      BY <3>2, Least
    <3>4. PICK o \in 1..Len(l) : k = Len(l) - o /\ ReadProviderLock(l[o]).Source = n
      BY <3>3
    <3>5. ASSUME NEW q \in (o + 1)..Len(l), ReadProviderLock(l[q]).Source = n PROVE FALSE
      <4>1. q \in 1..Len(l) /\ Len(l) - q \in Nat /\ Len(l) - q < k
        BY <2>2, <3>4, <3>5
      <4>2. Len(l) - q \in Q
        BY <3>5, <4>1
      <4>3. k <= Len(l) - q
        BY <3>3, <4>2
      <4>4. k \in Nat
        BY <3>3
      <4> HIDE DEF Q
      <4> QED
        BY <4>1, <4>3, <4>4
    <3> QED
      BY <3>4, <3>5
  <2>5. lastNamed(l, n) \in 1..Len(l)
    BY <2>4 DEF lastNamed
  <2> QED
    BY <1>2, <2>1, <2>2, <2>3, <2>5 DEF hostsOf, elements
<1> QED
  BY <1>1, <1>2

(***************************************************************************)
(* For every plain lock, each directory is the one an entry of the written *)
(* lock vouches for, and it alone.                                          *)
(***************************************************************************)
THEOREM VouchedSafety == Spec => []VouchedFor
<1>1. InstallInv => VouchedFor
  <2> SUFFICES ASSUME InstallInv, Ran, grouped, NEW f \in installed
               PROVE  \E n \in 1..Len(lock) :
                        /\ lookedUp(lock[n]) = f.dir
                        /\ lock[n].h1 = {H1(f.dir)} /\ H1(f.dir) = {f.archive}
                        /\ f.archive.from = IF lock[n].host \in PublicHost THEN Registry ELSE lock[n].host
    BY DEF VouchedFor
  <2>1. PICK n \in 1..Len(hub) : f = Unpacked(pooled(hub[n]))
    BY PlainProviders DEF InstallInv, Ran
  <2>2. f.dir = lookedUp(lock[n]) /\ f.archive = pooled(hub[n])
    BY <2>1, PlainDir DEF Unpacked
  <2>3. lock[n].h1 = {H1(f.dir)} /\ H1(f.dir) = {f.archive}
    BY <2>2, PlainHash
  <2>4. n \in 1..Len(lock) /\ lock[n].host = hub[n].host /\ hub[n] \in Entry
    BY WrittenInPlace
  <2>5. pooled(hub[n]).from = IF hub[n].host \in PublicHost THEN Registry ELSE hub[n].host
    BY <2>4, HostsAssumption DEF pooled, parse_lock_file, At, Entry
  <2> QED
    BY <2>2, <2>3, <2>4, <2>5
<1> QED
  BY <1>1, InstallInvAlways, PTL

(***************************************************************************)
(* For every plain lock, what the test accepts the engine can run on, in a   *)
(* tree none of whose providers is named in an argument alone.               *)
(***************************************************************************)
THEOREM AcceptedSafety == Spec => []AcceptedRuns
<1>1. CheckInv /\ InstallInv => AcceptedRuns
  <2> SUFFICES ASSUME CheckInv, InstallInv, Ran, grouped, verdict = "match", checked = target.hubs[1],
                      ~Overlooks, NEW m \in Needed, addressOf(m).host \notin PublicHost \ {EngineHost}
               PROVE  \E n \in 1..Len(lock) :
                        At(lock[n].host, lock[n].source) = addressOf(m) /\ Verified(lock[n])
    BY DEF AcceptedRuns
  <2>1. canonicalProviderSource(m) \in lockedSources
    BY NeededIsRequired DEF neededSources, CheckInv
  <2>2. lockedSources = {canonicalProviderSource(At(hub[n].host, hub[n].source)) : n \in 1..Len(hub)}
    BY LockedSources DEF CheckInv, hub
  <2>3. PICK n \in 1..Len(hub) :
          canonicalProviderSource(m) = canonicalProviderSource(At(hub[n].host, hub[n].source))
    BY <2>1, <2>2
  <2>4. hub[n] \in Entry /\ hub[n].host \in RegistryHost \ (PublicHost \ {EngineHost})
    BY PlainHub
  <2>5. m \in Name
    <3>1. PICK k \in moduleDirs : m \in Needs(modules[k])
      BY DEF Needed
    <3>2. modules[k] \in Config
      BY TreeModules DEF CheckInv
    <3>3. PICK l \in Label : m = sourceOf(modules[k], l)
      BY <3>1, <3>2 DEF Needs, taken, Config, Block
    <3> QED
      BY <3>2, <3>3, LabelsAssumption DEF sourceOf, Config, Name, Bare
  <2>6. At(hub[n].host, hub[n].source) = addressOf(m)
    BY <2>3, <2>4, <2>5, HostsAssumption, ChainAssumption
       DEF canonicalProviderSource, addressOf, At, Bare, Name, Entry
  <2>7. Verified(lock[n])
    BY PlainHash DEF Verified
  <2> QED
    BY <2>6, <2>7, WrittenInPlace
<1>2. Spec => []CheckInv
  BY CheckInvInit, CheckInvStep, PTL DEF Spec
<1> QED
  BY <1>1, <1>2, InstallInvAlways, PTL

\* Hashes are sets of what was unpacked.
LEMMA RewrittenTypes ==
  ASSUME TypeOK, NEW e \in Entry
  PROVE  rewritten(e) \in Written
<1>1. \A d : H1(d) \subseteq Archive
  BY DEF H1, TypeOK
<1>2. e \in Written /\ {H1(hashedDir(p)) : p \in {p \in providers : Bare(p.source) = registryPrefixRE(e)}} \subseteq SUBSET Archive
  BY <1>1 DEF Entry, Written
<1> QED
  BY <1>2 DEF rewritten, Written

LEMMA RequiredTypes ==
  ASSUME NEW c \in Config
  PROVE  requiredProviders(c) \subseteq Name
BY LabelsAssumption
   DEF requiredProviders, ParseProviderUsage, sourceOf, canonicalProviderSource, Config, Block, Name, Bare

(***************************************************************************)
(* Type correctness, and no installed provider without a lock.             *)
(***************************************************************************)
THEOREM TypeCorrect == Spec => []TypeOK
<1>1. Init => TypeOK
  BY DEF Init, TypeOK
<1>2. TypeOK /\ InstallInv /\ CheckInv /\ [Next]_vars => TypeOK'
  <2> SUFFICES ASSUME TypeOK, InstallInv, CheckInv, [Next]_vars PROVE TypeOK'
    OBVIOUS
  <2>1. CASE UNCHANGED vars
    BY <2>1 DEF vars, installVars, checkVars, TypeOK, moduleDirs
  <2>2. CASE _terraform_module_impl /\ UNCHANGED checkVars
    <3>1. lock' = NoLock \/ lock' \in Seq(Written)
      BY <2>2, DepTypes, EntriesAreWritten DEF _terraform_module_impl
    <3>2. providers' \subseteq Archive /\ todoInstall' = providers' /\ (providers' # {} => lock' # NoLock)
      BY <2>2, DepTypes DEF _terraform_module_impl, Acceptable
    <3>3. installed' = {}
      BY <2>2 DEF _terraform_module_impl, InstallInv
    <3> QED
      BY <2>2, <3>1, <3>2, <3>3 DEF _terraform_module_impl, checkVars, TypeOK, moduleDirs
  <2>3. CASE providerHostsFromLock /\ UNCHANGED checkVars
    <3>1. \A n \in DOMAIN hosts' : n \in Name /\ hosts'[n] \in RegistryHost
      BY <2>3, DepTypes, HostTypes DEF providerHostsFromLock, InstallInv
    <3>2. installed' = {}
      BY <2>3 DEF providerHostsFromLock, InstallInv
    <3> QED
      BY <2>3, <3>1, <3>2 DEF providerHostsFromLock, checkVars, TypeOK, moduleDirs
  <2>4. ASSUME NEW p \in todoInstall, extractProvider(p), UNCHANGED checkVars PROVE TypeOK'
    <3>1. p \in providers /\ p \in Archive
      BY DEF TypeOK
    <3>2. hostOf(p) \in RegistryHost
      BY HostsAssumption DEF hostOf, TypeOK
    <3>3. unpackedDir(p) \in [host : RegistryHost, source : Source, version : Version \ {NoVersion}, platform : Platform]
      BY <3>1, <3>2, InstallAssumption DEF unpackedDir, dirOf, Archive
    <3> QED
      BY <2>4, <3>1, <3>3 DEF extractProvider, checkVars, TypeOK, moduleDirs
  <2>5. CASE rewriteLockFileHashes /\ UNCHANGED checkVars
    <3>1. lock' = IF lock = NoLock THEN NoLock ELSE [n \in 1..Len(lock) |-> rewritten(lock[n])]
      BY <2>5 DEF rewriteLockFileHashes
    <3>2. lock = NoLock \/ lock \in Seq(Entry)
      BY <2>5, DepTypes DEF rewriteLockFileHashes, InstallInv
    <3>3. lock # NoLock => lock' \in Seq(Written)
      BY <3>1, <3>2, RewrittenTypes
    <3>4. lock # NoLock => lock' # NoLock
      BY <3>3, InstallAssumption
    <3> QED
      BY <2>5, <3>1, <3>3, <3>4 DEF rewriteLockFileHashes, checkVars, TypeOK, moduleDirs
  <2>6. CASE InstallFails /\ UNCHANGED checkVars
    BY <2>6 DEF InstallFails, checkVars, TypeOK, moduleDirs
  <2>7. CASE CheckNext /\ UNCHANGED installVars
    <3>1. \A key \in todo : requiredProviders(modules[key]) \subseteq Name
      BY TreeModules, RequiredTypes DEF CheckInv
    <3>2. verdict' \in {"ready", "reading", "match", "mismatch", "error"}
      BY <2>7 DEF CheckNext, StartCheck, CheckModule, CheckFails, Report, TypeOK
    <3>3. todo' \subseteq moduleDirs' /\ required' \subseteq Name
      BY <2>7, <3>1 DEF CheckNext, StartCheck, CheckModule, CheckFails, Report, TypeOK, moduleDirs
    <3> QED
      BY <2>7, <3>2, <3>3 DEF installVars, TypeOK
  <2> QED
    BY <2>1, <2>2, <2>3, <2>4, <2>5, <2>6, <2>7 DEF Next, Install, InstallNext, Check, Ended
<1>3. Spec => []CheckInv
  BY CheckInvInit, CheckInvStep, PTL DEF Spec
<1> QED
  BY <1>1, <1>2, <1>3, InstallInvAlways, PTL DEF Spec

===============================================================================
