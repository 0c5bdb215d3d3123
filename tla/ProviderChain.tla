---------------------------- MODULE ProviderChain ----------------------------
(***************************************************************************)
(* ProviderInstall and LockCheck together: one lock is turned into a hub,   *)
(* installed into a module directory and rewritten there; the lock test     *)
(* reads the configuration of that directory; the engine then looks for     *)
(* every provider the configuration requires and verifies it.              *)
(***************************************************************************)
EXTENDS ProviderInstall, LockCheck

CONSTANTS
  EngineHost, \* the public registry of the engine that runs
  Trees,      \* configurations: manifest key to Config
  Locks       \* locks the test may be pointed at

ASSUME ChainAssumption ==
  /\ EngineHost \in PublicHost /\ Locks \subseteq Seq(Entry)
  /\ \A t \in Trees : Root \in DOMAIN t /\ DOMAIN t \subseteq Key /\ \A k \in DOMAIN t : t[k] \in Config

vars == <<installVars, checkVars>>

Init ==
  /\ target \in Targets /\ step = "rule" /\ lock = NoLock
  /\ providers = {} /\ hosts = <<>> /\ todoInstall = {} /\ installed = {}
  /\ checked \in Locks /\ modules \in Trees
  /\ todo = {} /\ required = {} /\ verdict = "ready"

Install == InstallNext /\ UNCHANGED checkVars

\* The test needs the directory: it runs once init has built it.
Check == step = "done" /\ CheckNext /\ UNCHANGED installVars

Ended == (step = "failed" \/ verdict \in {"match", "mismatch", "error"}) /\ UNCHANGED vars

Next == Install \/ Check \/ Ended

Spec == Init /\ [][Next]_vars

-------------------------------------------------------------------------------
\* Targets, the tree and the verdict have the shapes the code gives them; a
\* module whose providers are installed has a lock.
TypeOK ==
  /\ step \in {"rule", "hosts", "extract", "done", "failed"}
  /\ verdict \in {"ready", "reading", "match", "mismatch", "error"}
  /\ lock = NoLock \/ lock \in Seq(Written)
  /\ providers # {} => lock # NoLock
  /\ providers \subseteq Archive /\ todoInstall \subseteq providers
  /\ \A n \in DOMAIN hosts : n \in Name /\ hosts[n] \in RegistryHost
  /\ \A f \in installed :
       /\ f.archive \in providers \ todoInstall
       /\ f.dir \in [host : RegistryHost, source : Source, version : Version \ {NoVersion}, platform : Platform]
  /\ todo \subseteq moduleDirs /\ required \subseteq Name

-------------------------------------------------------------------------------
(***************************************************************************)
(* The engine (external): it looks for a provider at the address its        *)
(* configuration means, in the version the lock gives, for its platform,    *)
(* and takes it if the lock lists the directory's hash.                     *)
(***************************************************************************)
addressOf(n) == At(IF n.host = NoHost THEN EngineHost ELSE n.host, n.source)

lookedUp(e) == [host |-> e.host, source |-> e.source, version |-> e.version, platform |-> target_platform]

Verified(e) == H1(lookedUp(e)) # {} /\ H1(lookedUp(e)) \in e.h1

\* Locks on which the chain is known to work: every host is spelled
\* `registry.`, the public one is this engine's, no two entries share a
\* source or a hub package, each has a version and an h1: line.
Plain(l) ==
  \A n \in 1..Len(l) :
    /\ l[n].host \in RegistryHost \ (PublicHost \ {EngineHost})
    /\ l[n].version # NoVersion /\ l[n].h1 # {}
    /\ \A o \in 1..Len(l) : o # n =>
         l[o].source # l[n].source /\ subpackage[l[o].source] # subpackage[l[n].source]

Ran == step = "done" /\ lock # NoLock /\ Plain(lock)

\* A lock that is accepted is a lock that works: for a target with a hub, when
\* init succeeds and the test accepts the hub's lock, the engine finds each
\* provider that any module of the tree requires and verifies it, though
\* three readers have each spelled its name.  (In a tree whose blocks name a
\* provider in their arguments alone, the test cannot know of it.)
AcceptedRuns ==
  Ran /\ grouped /\ verdict = "match" /\ checked = target.hubs[1] /\ ~Overlooks =>
    \A a \in {addressOf(n) : n \in Needed} : a.host \notin PublicHost \ {EngineHost} =>
      \E n \in 1..Len(lock) : At(lock[n].host, lock[n].source) = a /\ Verified(lock[n])

\* Whatever a hub brought into the directory, its lock vouches for: each
\* directory holds one archive, and the written lock has an entry for that
\* address and version with this hash and no other.
VouchedFor ==
  Ran /\ grouped =>
    \A f \in installed : \E n \in 1..Len(lock) :
      /\ lookedUp(lock[n]) = f.dir
      /\ lock[n].h1 = {H1(f.dir)} /\ H1(f.dir) = {f.archive}
      /\ f.archive.from = IF lock[n].host \in PublicHost THEN Registry ELSE lock[n].host

\* A provider is installed under the host its lock declares it under.
InstalledWhereLocked ==
  step = "done" /\ grouped =>
    \A f \in installed : \E n \in 1..Len(target.hubs[1]) :
      /\ target.hubs[1][n].source = f.dir.source
      /\ target.hubs[1][n].host = f.dir.host
===============================================================================
