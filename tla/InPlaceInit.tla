----------------------------- MODULE InPlaceInit -----------------------------
(***************************************************************************)
(* `bazel run //pkg:terraform -- init`, the one command that writes into    *)
(* the checkout: runInit and addHostHashes of engine/runner/runner.go with  *)
(* the CopyDirectory, CopyFile, ReadProviderLock and AddH1Hash they call.   *)
(*                                                                         *)
(* Every step is what one call leaves on the disk, so that a run can stop   *)
(* between any two of them, killed or ended by an I/O error, and another    *)
(* can start over what it left, or alongside it.                            *)
(*                                                                         *)
(* Not modelled: the message texts, and the files of .terraform that no     *)
(* step touches (`environment`, the saved backend configuration).           *)
(***************************************************************************)
EXTENDS Naturals, FiniteSets

CONSTANTS
  Run,         \* invocations
  Name,        \* providers and modules
  Version,     \* their versions; of a module, what tells two builds of it apart
  Builds,      \* what the staged directory of a run may hold
  Checkouts,   \* what the module's source directory may hold at first
  MaxStops     \* bound: how many runs are stopped

\* A package is one directory under providers/ or modules/.
Package == Name \X Version

\* What the h1: of a package is computed from: the whole package for this
\* host, its build for another platform, or the part that was there.
Hash == Package \X {"whole", "elsewhere", "part"}

Entry == [version : Version, h1 : SUBSET Hash]

\* A lock names each provider at most once.
IsEntries(e) == DOMAIN e \subseteq Name /\ e \in [DOMAIN e -> Entry]

IsLock(l) == l.exists \in BOOLEAN /\ IsEntries(l.entries) /\ (l.exists \/ l.entries = <<>>)

NoLock    == [exists |-> FALSE, entries |-> <<>>]
EmptyLock == [exists |-> TRUE, entries |-> <<>>]

Subdir == {"providers", "modules"}

\* What is in a directory: packages, each with all its files or some of them.
IsPackages(f) == DOMAIN f \subseteq Package /\ f \in [DOMAIN f -> {"part", "whole"}]

IsDisk(d) == d = [s \in Subdir |-> d[s]] /\ \A s \in Subdir : IsPackages(d[s])

\* A build installs a provider once, in the version its lock names.
ASSUME InputsAssumption ==
  /\ MaxStops \in Nat
  /\ \A b \in Builds : /\ b.providers \subseteq Package /\ b.modules \subseteq Package
                       /\ \A p, q \in b.providers : p[1] = q[1] => p = q
                       /\ IsLock(b.lock)
  /\ \A c \in Checkouts : IsLock(c.lock) /\ IsDisk(c.disk)

VARIABLES
  disk,      \* .terraform/providers and .terraform/modules next to the sources
  lock,      \* .terraform.lock.hcl next to the sources
  pc, sub,   \* the step each run is at, and the directory it copies
  build,     \* what is staged for it
  readonly,  \* -lockfile=readonly
  todo,      \* packages still to copy, or to hash
  open,      \* the package being written, if any
  lost,      \* whether another run removed it meanwhile
  entries,   \* the entries it parsed
  content,   \* the lock it, or its engine, read to edit
  added,     \* whether it added a hash
  code,      \* its exit code
  stops,     \* how many runs were stopped
  torn,      \* whether a lock half written was left so, or read by an engine
  ownLock,   \* the lock the checkout had at first
  overlapped \* whether a run began before another had ended

runVars == <<pc, sub, build, readonly, todo, open, lost, entries, content, added, code>>
vars == <<disk, lock, runVars, stops, torn, ownLock, overlapped>>

-------------------------------------------------------------------------------
Active(r) == pc[r] \notin {"idle", "ended"}

NoBuild == [providers |-> {}, modules |-> {}, lock |-> NoLock]

Go(r, step) == pc' = [pc EXCEPT ![r] = step]

End(r, c) == /\ Go(r, "ended")
             /\ code' = [code EXCEPT ![r] = c]
             /\ todo' = [todo EXCEPT ![r] = {}] /\ open' = [open EXCEPT ![r] = {}]
             /\ lost' = [lost EXCEPT ![r] = FALSE] /\ added' = [added EXCEPT ![r] = FALSE]
             /\ entries' = [entries EXCEPT ![r] = <<>>] /\ content' = [content EXCEPT ![r] = <<>>]
             /\ build' = [build EXCEPT ![r] = NoBuild]
             /\ UNCHANGED <<sub, readonly>>

\* What is left behind stays: the runner undoes nothing.
Fail(r) == End(r, 1) /\ UNCHANGED <<disk, lock, stops, torn, ownLock, overlapped>>

Init ==
  /\ \E c \in Checkouts : disk = c.disk /\ lock = c.lock
  /\ ownLock = lock /\ overlapped = FALSE
  /\ pc = [r \in Run |-> "idle"]
  /\ sub = [r \in Run |-> "providers"]
  /\ build = [r \in Run |-> NoBuild]
  /\ readonly = [r \in Run |-> FALSE]
  /\ todo = [r \in Run |-> {}] /\ open = [r \in Run |-> {}] /\ lost = [r \in Run |-> FALSE]
  /\ entries = [r \in Run |-> <<>>] /\ content = [r \in Run |-> <<>>]
  /\ added = [r \in Run |-> FALSE]
  /\ code = [r \in Run |-> 0]
  /\ stops = 0 /\ torn = FALSE

-------------------------------------------------------------------------------
(***************************************************************************)
(* The arguments                                                            *)
(***************************************************************************)
MayStart(r) == pc[r] = "idle"

Start(r, b, ro) ==
  /\ MayStart(r)
  /\ Go(r, "remove")
  /\ build' = [build EXCEPT ![r] = b]
  /\ readonly' = [readonly EXCEPT ![r] = ro]
  /\ overlapped' = (overlapped \/ \E s \in Run : Active(s))
  /\ UNCHANGED <<disk, lock, sub, todo, open, lost, entries, content,
                 added, code, stops, torn, ownLock>>

\* A flag that is the build's business, no checkout, a module of another
\* repository, no configuration in the directory.
Refuse(r) == MayStart(r) /\ Fail(r)

-------------------------------------------------------------------------------
(***************************************************************************)
(* Copying .terraform/providers, then .terraform/modules                    *)
(***************************************************************************)
Staged(r) == build[r][sub[r]]

\* (Mutant of Remove: what was there stays.)
RemoveNothing(r) ==
  /\ pc[r] = "remove"
  /\ Go(r, "copy")
  /\ todo' = [todo EXCEPT ![r] = Staged(r)]
  /\ UNCHANGED <<disk, lock, sub, build, readonly, open, lost, entries, content, added, code,
                 stops, torn, ownLock, overlapped>>

\* The target goes first, also when nothing is staged to replace it; a file
\* another run has open there is unlinked.
Remove(r) ==
  /\ pc[r] = "remove"
  /\ Go(r, "copy")
  /\ disk' = [disk EXCEPT ![sub[r]] = <<>>]
  /\ todo' = [todo EXCEPT ![r] = Staged(r)]
  /\ lost' = [s \in Run |-> lost[s] \/ (open[s] # {} /\ sub[s] = sub[r])]
  /\ UNCHANGED <<lock, sub, build, readonly, open, entries, content, added, code, stops, torn, ownLock, overlapped>>

\* (Mutant of Create: the next package is begun before this one is done.)
CreateAhead(r, p) ==
  /\ pc[r] = "copy" /\ p \in todo[r]
  /\ disk' = [disk EXCEPT ![sub[r]] = [q \in DOMAIN @ \cup {p} |-> IF q = p THEN "part" ELSE @[q]]]
  /\ todo' = [todo EXCEPT ![r] = @ \ {p}]
  /\ open' = [open EXCEPT ![r] = @ \cup {p}]
  /\ lost' = [lost EXCEPT ![r] = FALSE]
  /\ UNCHANGED <<lock, pc, sub, build, readonly, entries, content, added, code, stops, torn, ownLock, overlapped>>

\* Create truncates, or makes, the files of a package.
Create(r, p) ==
  /\ pc[r] = "copy" /\ open[r] = {} /\ p \in todo[r]
  /\ disk' = [disk EXCEPT ![sub[r]] = [q \in DOMAIN @ \cup {p} |-> IF q = p THEN "part" ELSE @[q]]]
  /\ todo' = [todo EXCEPT ![r] = @ \ {p}]
  /\ open' = [open EXCEPT ![r] = {p}]
  /\ lost' = [lost EXCEPT ![r] = FALSE]
  /\ UNCHANGED <<lock, pc, sub, build, readonly, entries, content, added, code, stops, torn, ownLock, overlapped>>

Fill(r) ==
  /\ pc[r] = "copy" /\ open[r] # {} /\ open[r] \subseteq DOMAIN disk[sub[r]]
  /\ disk' = [disk EXCEPT ![sub[r]] =
                [q \in DOMAIN @ |-> IF q \in open[r] /\ ~lost[r] THEN "whole" ELSE @[q]]]
  /\ open' = [open EXCEPT ![r] = {}]
  /\ UNCHANGED <<lock, pc, sub, build, readonly, todo, lost, entries, content, added, code,
                 stops, torn, ownLock, overlapped>>

\* (Mutant of FailFill: the write waits for its file.)
FailFillWaits(r) ==
  /\ pc[r] = "copy" /\ open[r] # {} /\ ~(open[r] \subseteq DOMAIN disk[sub[r]])
  /\ UNCHANGED vars

\* The mode of a file that is gone cannot be set.
FailFill(r) ==
  /\ pc[r] = "copy" /\ open[r] # {} /\ ~(open[r] \subseteq DOMAIN disk[sub[r]])
  /\ Fail(r)

\* (Mutant of Copied: the last package is still being written.)
CopiedOpen(r) ==
  /\ pc[r] = "copy" /\ todo[r] = {}
  /\ IF sub[r] = "providers" THEN Go(r, "remove") /\ sub' = [sub EXCEPT ![r] = "modules"]
                             ELSE Go(r, "lock") /\ UNCHANGED sub
  /\ open' = [open EXCEPT ![r] = {}]
  /\ UNCHANGED <<disk, lock, build, readonly, todo, lost, entries, content, added, code,
                 stops, torn, ownLock, overlapped>>

Copied(r) ==
  /\ pc[r] = "copy" /\ open[r] = {} /\ todo[r] = {}
  /\ IF sub[r] = "providers" THEN Go(r, "remove") /\ sub' = [sub EXCEPT ![r] = "modules"]
                             ELSE Go(r, "lock") /\ UNCHANGED sub
  /\ UNCHANGED <<disk, lock, build, readonly, todo, open, lost, entries, content, added, code,
                 stops, torn, ownLock, overlapped>>

-------------------------------------------------------------------------------
(***************************************************************************)
(* The lock, for a module that has none                                     *)
(***************************************************************************)
KeepLock(r) ==
  /\ pc[r] = "lock"
  /\ lock.exists \/ ~build[r].lock.exists
  /\ Go(r, "entries")
  /\ UNCHANGED <<disk, lock, sub, build, readonly, todo, open, lost, entries, content, added, code,
                 stops, torn, ownLock, overlapped>>

CreateLock(r) ==
  /\ pc[r] = "lock"
  /\ ~lock.exists /\ build[r].lock.exists
  /\ lock' = EmptyLock
  /\ Go(r, "lock_write")
  /\ UNCHANGED <<disk, sub, build, readonly, todo, open, lost, entries, content, added, code,
                 stops, torn, ownLock, overlapped>>

WriteLock(r) ==
  /\ pc[r] = "lock_write"
  /\ lock' = build[r].lock
  /\ Go(r, "entries")
  /\ UNCHANGED <<disk, sub, build, readonly, todo, open, lost, entries, content, added, code,
                 stops, torn, ownLock, overlapped>>

-------------------------------------------------------------------------------
(***************************************************************************)
(* addHostHashes                                                            *)
(***************************************************************************)
\* A lock without entries is no lock, and is left to the engine.
ReadEntries(r) ==
  /\ pc[r] = "entries"
  /\ entries' = [entries EXCEPT ![r] = lock.entries]
  /\ Go(r, IF lock.entries = <<>> THEN "engine" ELSE "content")
  /\ UNCHANGED <<disk, lock, sub, build, readonly, todo, open, lost, content, added, code,
                 stops, torn, ownLock, overlapped>>

\* The lock is read a second time, and the installed packages are listed.
ReadContent(r) ==
  /\ pc[r] = "content"
  /\ content' = [content EXCEPT ![r] = lock.entries]
  /\ todo' = [todo EXCEPT ![r] = DOMAIN disk.providers]
  /\ Go(r, "hash")
  /\ UNCHANGED <<disk, lock, sub, build, readonly, open, lost, entries, added, code,
                 stops, torn, ownLock, overlapped>>

Hashing(r, p) == pc[r] = "hash" /\ p \in todo[r]

\* The package is one the lock names, in the lock's version.
Locked(r, p) == p[1] \in DOMAIN entries[r] /\ entries[r][p[1]].version = p[2]

Installed(p) == p \in DOMAIN disk.providers

H1(p) == <<p, disk.providers[p]>>

Recorded(r, p) == H1(p) \in entries[r][p[1]].h1

SkipPackage(r, p) ==
  /\ Hashing(r, p)
  /\ Locked(r, p) => Installed(p) /\ Recorded(r, p)
  /\ todo' = [todo EXCEPT ![r] = @ \ {p}]
  /\ UNCHANGED <<disk, lock, pc, sub, build, readonly, open, lost, entries, content, added, code,
                 stops, torn, ownLock, overlapped>>

\* (Mutant of AddHash: the hashes of the block are replaced.)
AddHashAlone(r, p) ==
  /\ Hashing(r, p) /\ Locked(r, p) /\ Installed(p) /\ ~Recorded(r, p)
  /\ ~readonly[r]
  /\ p[1] \in DOMAIN content[r]
  /\ content' = [content EXCEPT ![r][p[1]].h1 = {H1(p)}]
  /\ added' = [added EXCEPT ![r] = TRUE]
  /\ todo' = [todo EXCEPT ![r] = @ \ {p}]
  /\ UNCHANGED <<disk, lock, pc, sub, build, readonly, open, lost, entries, code, stops, torn, ownLock, overlapped>>

AddHash(r, p) ==
  /\ Hashing(r, p) /\ Locked(r, p) /\ Installed(p) /\ ~Recorded(r, p)
  /\ ~readonly[r]
  /\ p[1] \in DOMAIN content[r]
  /\ content' = [content EXCEPT ![r][p[1]].h1 = @ \cup {H1(p)}]
  /\ added' = [added EXCEPT ![r] = TRUE]
  /\ todo' = [todo EXCEPT ![r] = @ \ {p}]
  /\ UNCHANGED <<disk, lock, pc, sub, build, readonly, open, lost, entries, code, stops, torn, ownLock, overlapped>>

\* The package is gone, the flag forbids the hash, or the block is gone.
FailHash(r, p) ==
  /\ Hashing(r, p) /\ Locked(r, p)
  /\ \/ ~Installed(p)
     \/ Installed(p) /\ ~Recorded(r, p) /\ (readonly[r] \/ p[1] \notin DOMAIN content[r])
  /\ Fail(r)

Hashed(r) == pc[r] = "hash" /\ todo[r] = {}

NothingAdded(r) ==
  /\ Hashed(r) /\ ~added[r]
  /\ Go(r, "engine")
  /\ UNCHANGED <<disk, lock, sub, build, readonly, todo, open, lost, entries, content, added, code,
                 stops, torn, ownLock, overlapped>>

\* WriteFile truncates, then writes.
TruncateLock(r) ==
  /\ Hashed(r) /\ added[r]
  /\ lock' = EmptyLock
  /\ Go(r, "rewrite")
  /\ UNCHANGED <<disk, sub, build, readonly, todo, open, lost, entries, content, added, code,
                 stops, torn, ownLock, overlapped>>

RewriteLock(r) ==
  /\ pc[r] = "rewrite"
  /\ lock' = [exists |-> TRUE, entries |-> content[r]]
  /\ Go(r, "engine")
  /\ UNCHANGED <<disk, sub, build, readonly, todo, open, lost, entries, content, added, code,
                 stops, torn, ownLock, overlapped>>

-------------------------------------------------------------------------------
(***************************************************************************)
(* The engine's own init, as far as the runner relies on it: it refuses an  *)
(* unpacked package whose h1: the lock does not carry, and records those    *)
(* the lock does not name, which -lockfile=readonly makes an error.  It     *)
(* reads the lock when it begins and replaces it, by a rename, when it      *)
(* ends; what others wrote in between is gone.                              *)
(***************************************************************************)
Writing == \E r \in Run : pc[r] \in {"lock_write", "rewrite"}

EngineRead(r) ==
  /\ pc[r] = "engine"
  /\ content' = [content EXCEPT ![r] = lock.entries]
  /\ Go(r, "engine_write")
  /\ torn' = (torn \/ Writing)
  /\ UNCHANGED <<disk, lock, sub, build, readonly, todo, open, lost, entries, added, code,
                 stops, ownLock, overlapped>>

Verifies(r, p) ==
  /\ Installed(p)
  /\ p[1] \in DOMAIN content[r] =>
       /\ content[r][p[1]].version = p[2]
       /\ H1(p) \in content[r][p[1]].h1

Unlocked(r) == {p \in build[r].providers : p[1] \notin DOMAIN content[r]}

EngineInit(r) ==
  /\ pc[r] = "engine_write"
  /\ \A p \in build[r].providers : Verifies(r, p)
  /\ readonly[r] => Unlocked(r) = {}
  /\ lock' = IF Unlocked(r) = {} THEN lock
             ELSE [exists |-> TRUE,
                   entries |-> [n \in DOMAIN content[r] \cup {p[1] : p \in Unlocked(r)} |->
                     IF n \in DOMAIN content[r] THEN content[r][n]
                     ELSE LET p == CHOOSE q \in Unlocked(r) : q[1] = n
                          IN  [version |-> p[2], h1 |-> {H1(p)}]]]
  /\ End(r, 0)
  /\ UNCHANGED <<disk, stops, torn, ownLock, overlapped>>

\* Not verified, or a backend that cannot be reached: the runner returns its code.
EngineFails(r) == pc[r] \in {"engine", "engine_write"} /\ Fail(r)

-------------------------------------------------------------------------------
\* A run is killed, or a call of it fails: it exits and undoes nothing.
Stop(r) ==
  /\ Active(r) /\ stops < MaxStops
  /\ stops' = stops + 1
  /\ torn' = (torn \/ pc[r] \in {"lock_write", "rewrite"})
  /\ End(r, 1)
  /\ UNCHANGED <<disk, lock, ownLock, overlapped>>

Steps(r) ==
  \/ Remove(r) \/ (\E p \in todo[r] : Create(r, p)) \/ Fill(r) \/ FailFill(r) \/ Copied(r)
  \/ KeepLock(r) \/ CreateLock(r) \/ WriteLock(r)
  \/ ReadEntries(r) \/ ReadContent(r)
  \/ \E p \in todo[r] : SkipPackage(r, p) \/ AddHash(r, p) \/ FailHash(r, p)
  \/ NothingAdded(r) \/ TruncateLock(r) \/ RewriteLock(r)
  \/ EngineRead(r) \/ EngineInit(r) \/ EngineFails(r)

Ended == (\A r \in Run : pc[r] = "ended") /\ UNCHANGED vars

Next == (\E r \in Run : (\E b \in Builds, ro \in BOOLEAN : Start(r, b, ro)) \/ Refuse(r) \/ Steps(r) \/ Stop(r)) \/ Ended

Spec == Init /\ [][Next]_vars

\* A run that was started is a process of its own.
FairSpec == Spec /\ \A r \in Run : WF_vars(Steps(r))

-------------------------------------------------------------------------------
(***************************************************************************)
(* Properties                                                               *)
(***************************************************************************)
TypeOK ==
  /\ IsDisk(disk) /\ IsLock(lock)
  /\ pc \in [Run -> {"idle", "remove", "copy", "lock", "lock_write", "entries", "content", "hash",
                     "rewrite", "engine", "engine_write", "ended"}]
  /\ sub \in [Run -> Subdir]
  /\ todo \in [Run -> SUBSET Package] /\ open \in [Run -> SUBSET Package]
  /\ \A r \in Run : Cardinality(open[r]) <= 1
  /\ \A r \in Run : IsEntries(entries[r]) /\ IsEntries(content[r])
  /\ code \in [Run -> {0, 1}]

Succeeds(r) == pc[r] = "engine_write" /\ pc'[r] = "ended" /\ code'[r] = 0

(***************************************************************************)
(* A run alone that reports success has installed exactly what was built,   *)
(* whatever earlier builds and stopped runs left in the directory, and the  *)
(* lock verifies it (runner.go:405-410).                                    *)
(***************************************************************************)
SuccessInstalls ==
  [][\A r \in Run : Succeeds(r) /\ ~overlapped =>
       /\ disk'.providers = [p \in build[r].providers |-> "whole"]
       /\ disk'.modules = [p \in build[r].modules |-> "whole"]
       /\ \A p \in build[r].providers :
            /\ p[1] \in DOMAIN lock'.entries
            /\ lock'.entries[p[1]].version = p[2]
            /\ <<p, "whole">> \in lock'.entries[p[1]].h1]_vars

\* No hash in the lock is of half a package.
Genuine(e) == \A n \in DOMAIN e : \A h \in e[n].h1 : h[2] # "part"

(***************************************************************************)
(* While runs follow one another, no hash of a package that was not whole   *)
(* gets into the lock, wherever they were stopped: a hash that is in the    *)
(* lock says what the next engine accepts (runner.go:479-486).              *)
(***************************************************************************)
HashesGenuine == ~overlapped => Genuine(lock.entries)

\* Every entry and every hash of one lock is in the other.
Within(e, f) ==
  \A n \in DOMAIN e : n \in DOMAIN f /\ e[n].version = f[n].version /\ e[n].h1 \subseteq f[n].h1

(***************************************************************************)
(* The lock the module had is only added to, whatever reads and writes of   *)
(* how many runs fall between those of another (runner.go:404-410, 484),    *)
(* with two exceptions, both of a lock that is truncated and not yet        *)
(* written again (runner.go:542): the run that writes it is stopped, or the *)
(* engine of another reads it and replaces the lock by what follows from it.*)
(***************************************************************************)
OwnLockKept == ~Writing /\ ~torn => Within(ownLock.entries, lock.entries)

(***************************************************************************)
(* Every run that starts comes to an end, even when another removes what it *)
(* has just copied.                                                         *)
(***************************************************************************)
RunsEnd == \A r \in Run : Active(r) ~> pc[r] = "ended"

===============================================================================
