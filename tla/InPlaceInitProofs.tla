-------------------------- MODULE InPlaceInitProofs --------------------------
(***************************************************************************)
(* Proofs about InPlaceInit, for any builds, checkouts, packages and stops: *)
(* the types; that no hash of half a package enters the lock while runs     *)
(* follow one another; that a run alone installs what was built; and that   *)
(* of runs that overlap none loses what the module's lock had, unless a     *)
(* truncated lock was left behind or read by an engine.                     *)
(***************************************************************************)
EXTENDS InPlaceInit, FiniteSetTheorems, TLAPS

Entries == UNION {[N -> Entry] : N \in SUBSET Name}

Packages == UNION {[P -> {"part", "whole"}] : P \in SUBSET Package}

Step == {"idle", "remove", "copy", "lock", "lock_write", "entries", "content", "hash", "rewrite", "engine",
         "engine_write", "ended"}

DiskInv == disk \in [Subdir -> Packages]

LockInv == IsLock(lock) /\ IsLock(ownLock)

RunInv ==
  /\ pc \in [Run -> Step] /\ sub \in [Run -> Subdir] /\ code \in [Run -> {0, 1}]
  /\ build \in [Run -> Builds \cup {NoBuild}]
  /\ todo \in [Run -> SUBSET Package] /\ lost \in [Run -> BOOLEAN] /\ added \in [Run -> BOOLEAN]

EntriesInv == entries \in [Run -> Entries] /\ content \in [Run -> Entries]

\* A run has one package open at a time, and only while it copies.
OpenInv ==
  /\ open \in [Run -> SUBSET Package]
  /\ \A r \in Run : open[r] = {} \/ (pc[r] = "copy" /\ \E p \in Package : open[r] = {p})

TypeInv == DiskInv /\ LockInv /\ RunInv /\ EntriesInv /\ OpenInv

-------------------------------------------------------------------------------
LEMMA EntriesAre == \A e : IsEntries(e) <=> e \in Entries
BY DEF IsEntries, Entries

LEMMA PackagesAre == \A f : IsPackages(f) <=> f \in Packages
BY DEF IsPackages, Packages

LEMMA DiskIs == \A d : IsDisk(d) <=> d \in [Subdir -> Packages]
BY PackagesAre DEF IsDisk

LEMMA Nothing == <<>> \in Entries /\ <<>> \in Packages /\ DOMAIN <<>> = {}
<1>1. <<>> \in [{} -> Entry] /\ <<>> \in [{} -> {"part", "whole"}] /\ DOMAIN <<>> = {}
  OBVIOUS
<1> QED BY <1>1 DEF Entries, Packages

LEMMA Locks == IsLock(NoLock) /\ IsLock(EmptyLock)
BY Nothing, EntriesAre DEF IsLock, NoLock, EmptyLock

LEMMA EntryIs ==
  ASSUME NEW e \in Entries, NEW n \in DOMAIN e
  PROVE  n \in Name /\ e[n] \in Entry /\ e[n].version \in Version /\ e[n].h1 \subseteq Hash
BY DEF Entries, Entry

LEMMA BuildIs ==
  ASSUME NEW b \in Builds \cup {NoBuild}
  PROVE  b.providers \subseteq Package /\ b.modules \subseteq Package /\ IsLock(b.lock)
<1>1. CASE b \in Builds
  BY <1>1, InputsAssumption
<1>2. CASE b = NoBuild
  BY <1>2, Locks DEF NoBuild
<1> QED BY <1>1, <1>2

\* What a package on the disk hashes to.
LEMMA HashIs ==
  ASSUME TypeInv, NEW p, Installed(p)
  PROVE  H1(p) \in Hash /\ p \in Package /\ p[1] \in Name /\ p[2] \in Version
<1>1. disk["providers"] \in Packages
  BY DEF TypeInv, DiskInv, Subdir
<1>2. p \in Package /\ disk.providers[p] \in {"part", "whole"}
  BY <1>1 DEF Installed, Packages
<1> QED BY <1>2 DEF H1, Hash, Package

-------------------------------------------------------------------------------
LEMMA InitType == Init => TypeInv
<1> SUFFICES ASSUME Init PROVE TypeInv
  OBVIOUS
<1>1. PICK c \in Checkouts : disk = c.disk /\ lock = c.lock
  BY DEF Init
<1>2. DiskInv /\ LockInv
  BY <1>1, InputsAssumption, DiskIs DEF DiskInv, LockInv, Init
<1>3. RunInv /\ OpenInv
  BY DEF RunInv, OpenInv, Init, Step, Subdir
<1>4. EntriesInv
  BY Nothing DEF EntriesInv, Init
<1> QED BY <1>2, <1>3, <1>4 DEF TypeInv

LEMMA EndType ==
  ASSUME TypeInv, NEW r \in Run, NEW c \in {0, 1}, End(r, c), UNCHANGED <<disk, ownLock>>, IsLock(lock')
  PROVE  TypeInv'
<1>1. RunInv'
  BY DEF TypeInv, RunInv, End, Go, Step
<1>2. OpenInv'
  BY DEF TypeInv, RunInv, OpenInv, End, Go
<1>3. EntriesInv'
  BY Nothing DEF TypeInv, EntriesInv, End
<1>4. DiskInv' /\ LockInv'
  BY DEF TypeInv, DiskInv, LockInv, IsLock
<1> QED BY <1>1, <1>2, <1>3, <1>4 DEF TypeInv

LEMMA FailType == ASSUME TypeInv, NEW r \in Run, Fail(r) PROVE TypeInv'
BY EndType DEF Fail, TypeInv, LockInv, IsLock

LEMMA CopyType ==
  ASSUME TypeInv, NEW r \in Run,
         Remove(r) \/ (\E p \in todo[r] : Create(r, p)) \/ Fill(r) \/ Copied(r)
  PROVE  TypeInv'
<1>1. pc[r] \in {"remove", "copy"} /\ sub[r] \in Subdir /\ pc \in [Run -> Step] /\ disk[sub[r]] \in Packages
  BY DEF TypeInv, RunInv, DiskInv, Remove, Create, Fill, Copied
<1>2. LockInv' /\ EntriesInv'
  BY DEF TypeInv, LockInv, EntriesInv, IsLock, Remove, Create, Fill, Copied
<1>3. CASE Remove(r)
  <2>1. DiskInv'
    BY <1>3, Nothing DEF TypeInv, DiskInv, Remove
  <2>2. Staged(r) \subseteq Package
    BY <1>1, BuildIs DEF TypeInv, RunInv, Staged, Subdir
  <2>3. RunInv'
    BY <1>3, <2>2 DEF TypeInv, RunInv, Remove, Go, Step
  <2>4. OpenInv'
    BY <1>3 DEF TypeInv, RunInv, OpenInv, Remove, Go
  <2> QED BY <1>2, <2>1, <2>3, <2>4 DEF TypeInv
<1>4. CASE \E p \in todo[r] : Create(r, p)
  <2> PICK p \in todo[r] : Create(r, p)
    BY <1>4
  <2>1. p \in Package
    BY DEF TypeInv, RunInv
  <2>2. [q \in DOMAIN disk[sub[r]] \cup {p} |-> IF q = p THEN "part" ELSE disk[sub[r]][q]] \in Packages
    <3> DEFINE f == disk[sub[r]]
    <3> HIDE DEF f
    <3>1. PICK P \in SUBSET Package : f \in [P -> {"part", "whole"}]
      BY <1>1 DEF Packages, f
    <3>2. [q \in DOMAIN f \cup {p} |-> IF q = p THEN "part" ELSE f[q]] \in [P \cup {p} -> {"part", "whole"}]
      BY <3>1
    <3>3. [q \in DOMAIN f \cup {p} |-> IF q = p THEN "part" ELSE f[q]] \in Packages
      BY <2>1, <3>2 DEF Packages
    <3> QED BY <3>3 DEF f
  <2>3. DiskInv'
    BY <1>1, <2>2 DEF TypeInv, DiskInv, Create
  <2>4. RunInv'
    BY DEF TypeInv, RunInv, Create
  <2>5. OpenInv'
    BY <2>1 DEF TypeInv, OpenInv, Create
  <2> QED BY <1>2, <2>3, <2>4, <2>5 DEF TypeInv
<1>5. CASE Fill(r)
  <2>1. [q \in DOMAIN disk[sub[r]] |-> IF q \in open[r] /\ ~lost[r] THEN "whole" ELSE disk[sub[r]][q]] \in Packages
    BY <1>1 DEF Packages
  <2>2. DiskInv'
    BY <1>1, <1>5, <2>1 DEF TypeInv, DiskInv, Fill
  <2>3. RunInv' /\ OpenInv'
    BY <1>5 DEF TypeInv, RunInv, OpenInv, Fill
  <2> QED BY <1>2, <2>2, <2>3 DEF TypeInv
<1>6. CASE Copied(r)
  <2>1. DiskInv'
    BY <1>6 DEF TypeInv, DiskInv, Copied
  <2>2. RunInv'
    BY <1>6 DEF TypeInv, RunInv, Copied, Go, Step, Subdir
  <2>3. OpenInv'
    BY <1>6 DEF TypeInv, RunInv, OpenInv, Copied, Go
  <2> QED BY <1>2, <2>1, <2>2, <2>3 DEF TypeInv
<1> QED BY <1>3, <1>4, <1>5, <1>6

LEMMA LockType ==
  ASSUME TypeInv, NEW r \in Run,
         KeepLock(r) \/ CreateLock(r) \/ WriteLock(r) \/ NothingAdded(r) \/ TruncateLock(r) \/ RewriteLock(r)
  PROVE  TypeInv'
<1>1. DiskInv' /\ EntriesInv'
  BY DEF TypeInv, DiskInv, EntriesInv, KeepLock, CreateLock, WriteLock, NothingAdded, TruncateLock, RewriteLock
<1>2. RunInv'
  BY DEF TypeInv, RunInv, KeepLock, CreateLock, WriteLock, NothingAdded, TruncateLock, RewriteLock, Go, Step,
     Hashed
<1>3. OpenInv'
  BY DEF TypeInv, RunInv, OpenInv, KeepLock, CreateLock, WriteLock, NothingAdded, TruncateLock, RewriteLock, Go,
     Hashed
<1>4. IsLock(build[r].lock) /\ content[r] \in Entries
  BY BuildIs DEF TypeInv, RunInv, EntriesInv
<1>5. IsLock([exists |-> TRUE, entries |-> content[r]])
  BY <1>4, EntriesAre DEF IsLock
<1>6. IsLock(lock')
  BY <1>4, <1>5, Locks DEF TypeInv, LockInv, KeepLock, CreateLock, WriteLock, NothingAdded, TruncateLock,
     RewriteLock, Hashed
<1>7. ownLock' = ownLock
  BY DEF KeepLock, CreateLock, WriteLock, NothingAdded, TruncateLock, RewriteLock
<1> QED BY <1>1, <1>2, <1>3, <1>6, <1>7 DEF TypeInv, LockInv

LEMMA ReadType ==
  ASSUME TypeInv, NEW r \in Run, ReadEntries(r) \/ ReadContent(r) \/ EngineRead(r) PROVE TypeInv'
<1>1. lock.entries \in Entries
  BY EntriesAre DEF TypeInv, LockInv, IsLock
<1>2. EntriesInv'
  BY <1>1 DEF TypeInv, EntriesInv, ReadEntries, ReadContent, EngineRead
<1>3. DOMAIN disk.providers \subseteq Package
  BY DEF TypeInv, DiskInv, Subdir, Packages
<1>4. RunInv'
  BY <1>3 DEF TypeInv, RunInv, ReadEntries, ReadContent, EngineRead, Go, Step
<1>5. OpenInv'
  BY DEF TypeInv, RunInv, OpenInv, ReadEntries, ReadContent, EngineRead, Go
<1>6. DiskInv' /\ LockInv'
  BY DEF TypeInv, DiskInv, LockInv, IsLock, ReadEntries, ReadContent, EngineRead
<1> QED BY <1>2, <1>4, <1>5, <1>6 DEF TypeInv

\* The block of one provider with one more hash.
LEMMA Added ==
  ASSUME TypeInv, NEW r \in Run, NEW p \in todo[r], AddHash(r, p)
  PROVE  /\ p[1] \in DOMAIN content[r] /\ Installed(p)
         /\ content' = [content EXCEPT ![r] = [content[r] EXCEPT ![p[1]] =
              [version |-> content[r][p[1]].version, h1 |-> content[r][p[1]].h1 \cup {H1(p)}]]]
<1>1. p[1] \in DOMAIN content[r] /\ Installed(p) /\ content[r] \in Entries
  BY DEF TypeInv, EntriesInv, AddHash
<1>2. content[r][p[1]] \in Entry
  BY <1>1, EntryIs
<1>3. [content[r][p[1]] EXCEPT !.h1 = @ \cup {H1(p)}]
        = [version |-> content[r][p[1]].version, h1 |-> content[r][p[1]].h1 \cup {H1(p)}]
  BY <1>2 DEF Entry
<1>4. content' = [content EXCEPT ![r] = [content[r] EXCEPT ![p[1]] =
        [content[r][p[1]] EXCEPT !.h1 = @ \cup {H1(p)}]]]
  BY DEF AddHash
<1> QED BY <1>1, <1>3, <1>4

LEMMA HashType ==
  ASSUME TypeInv, NEW r \in Run, NEW p \in todo[r], SkipPackage(r, p) \/ AddHash(r, p)
  PROVE  TypeInv'
<1>1. DiskInv' /\ LockInv' /\ RunInv' /\ OpenInv'
  <2>1. UNCHANGED <<disk, lock, ownLock, pc, sub, build, code, open, lost>>
    BY DEF SkipPackage, AddHash
  <2>2. todo' \in [Run -> SUBSET Package]
    BY DEF TypeInv, RunInv, SkipPackage, AddHash
  <2>3. added' \in [Run -> BOOLEAN]
    BY DEF TypeInv, RunInv, SkipPackage, AddHash
  <2>4. DiskInv' /\ LockInv'
    BY <2>1 DEF TypeInv, DiskInv, LockInv, IsLock
  <2> QED BY <2>1, <2>2, <2>3, <2>4 DEF TypeInv, RunInv, OpenInv
<1>2. CASE SkipPackage(r, p)
  BY <1>1, <1>2 DEF TypeInv, EntriesInv, SkipPackage
<1>3. CASE AddHash(r, p)
  <2>1. content[r] \in Entries /\ p[1] \in DOMAIN content[r] /\ H1(p) \in Hash
    BY <1>3, Added, HashIs DEF TypeInv, EntriesInv
  <2>2. [version |-> content[r][p[1]].version, h1 |-> content[r][p[1]].h1 \cup {H1(p)}] \in Entry
    BY <2>1, EntryIs DEF Entry
  <2>3. [content[r] EXCEPT ![p[1]] =
          [version |-> content[r][p[1]].version, h1 |-> content[r][p[1]].h1 \cup {H1(p)}]] \in Entries
    BY <2>1, <2>2 DEF Entries
  <2>4. entries' = entries
    BY <1>3 DEF AddHash
  <2>5. EntriesInv'
    BY <1>3, <2>3, <2>4, Added DEF TypeInv, EntriesInv
  <2> QED BY <1>1, <2>5 DEF TypeInv
<1> QED BY <1>2, <1>3

\* What the engine writes is a lock, with the entries it has read and one for
\* each provider that had none.
LEMMA EngineLock ==
  ASSUME TypeInv, NEW r \in Run, EngineInit(r)
  PROVE  /\ IsLock(lock')
         /\ \/ lock' = lock
            \/ /\ lock'.exists
               /\ \A n \in DOMAIN content[r] : n \in DOMAIN lock'.entries /\ lock'.entries[n] = content[r][n]
               /\ \A n \in DOMAIN lock'.entries : n \notin DOMAIN content[r] =>
                    \E p : Installed(p) /\ lock'.entries[n] = [version |-> p[2], h1 |-> {H1(p)}]
<1>1. CASE Unlocked(r) = {}
  BY <1>1 DEF EngineInit, TypeInv, LockInv
<1>2. CASE Unlocked(r) # {}
  <2> DEFINE N == DOMAIN content[r] \cup {p[1] : p \in Unlocked(r)}
             of(n) == CHOOSE q \in Unlocked(r) : q[1] = n
             new == [n \in N |-> IF n \in DOMAIN content[r] THEN content[r][n]
                                 ELSE LET p == CHOOSE q \in Unlocked(r) : q[1] = n
                                      IN  [version |-> p[2], h1 |-> {H1(p)}]]
  <2>1. lock' = [exists |-> TRUE, entries |-> new]
    BY <1>2 DEF EngineInit
  <2>2. \A p \in Unlocked(r) : Installed(p)
    BY DEF EngineInit, Unlocked, Verifies
  <2>3. content[r] \in Entries
    BY DEF TypeInv, EntriesInv
  <2>4. N \subseteq Name
    BY <2>2, <2>3, HashIs, EntryIs
  <2>5. \A n \in N : n \notin DOMAIN content[r] =>
          of(n) \in Unlocked(r) /\ new[n] = [version |-> of(n)[2], h1 |-> {H1(of(n))}]
    OBVIOUS
  <2>6. \A n \in N : new[n] \in Entry
    <3> SUFFICES ASSUME NEW n \in N PROVE new[n] \in Entry
      OBVIOUS
    <3>1. CASE n \in DOMAIN content[r]
      BY <2>3, <3>1, EntryIs
    <3>2. CASE n \notin DOMAIN content[r]
      <4>1. Installed(of(n)) /\ new[n] = [version |-> of(n)[2], h1 |-> {H1(of(n))}]
        BY <2>2, <2>5, <3>2
      <4>2. of(n)[2] \in Version /\ H1(of(n)) \in Hash
        BY <4>1, HashIs
      <4> QED BY <4>1, <4>2 DEF Entry
    <3> QED BY <3>1, <3>2
  <2>7. new \in Entries
    <3>1. new \in [N -> Entry] /\ N \in SUBSET Name
      BY <2>4, <2>6
    <3> HIDE DEF new, N
    <3> QED BY <3>1 DEF Entries
  <2>8. IsLock(lock') /\ lock'.exists /\ lock'.entries = new
    BY <2>1, <2>7, EntriesAre DEF IsLock
  <2>9. \A n \in DOMAIN content[r] : n \in N /\ new[n] = content[r][n]
    OBVIOUS
  <2>10. DOMAIN new = N
    OBVIOUS
  <2>11. \A n \in N : n \notin DOMAIN content[r] =>
           \E p : Installed(p) /\ new[n] = [version |-> p[2], h1 |-> {H1(p)}]
    <3> HIDE DEF new, N, of
    <3> QED BY <2>2, <2>5
  <2> HIDE DEF new, N, of
  <2> QED BY <2>8, <2>9, <2>10, <2>11
<1> QED BY <1>1, <1>2

LEMMA NextType == ASSUME TypeInv, [Next]_vars PROVE TypeInv'
<1>1. ASSUME NEW r \in Run, NEW b \in Builds, NEW ro \in BOOLEAN, Start(r, b, ro) PROVE TypeInv'
  <2>1. RunInv' /\ OpenInv'
    BY <1>1 DEF TypeInv, RunInv, OpenInv, Start, MayStart, Go, Step
  <2>2. DiskInv' /\ LockInv' /\ EntriesInv'
    BY <1>1 DEF TypeInv, DiskInv, LockInv, IsLock, EntriesInv, Start
  <2> QED BY <2>1, <2>2 DEF TypeInv
<1>2. ASSUME NEW r \in Run, EngineInit(r) PROVE TypeInv'
  BY <1>2, EngineLock, EndType DEF EngineInit
<1>3. ASSUME NEW r \in Run, Stop(r) PROVE TypeInv'
  BY <1>3, EndType DEF Stop, TypeInv, LockInv
<1>4. ASSUME NEW r \in Run, Steps(r) PROVE TypeInv'
  BY <1>2, <1>4, FailType, CopyType, LockType, ReadType, HashType DEF Steps, FailFill, FailHash, EngineFails
<1>5. ASSUME NEW r \in Run, Refuse(r) PROVE TypeInv'
  BY <1>5, FailType DEF Refuse
<1>6. CASE UNCHANGED vars
  BY <1>6 DEF TypeInv, DiskInv, LockInv, IsLock, RunInv, EntriesInv, OpenInv, vars, runVars
<1> QED BY <1>1, <1>3, <1>4, <1>5, <1>6 DEF Next, Ended

LEMMA TypeInvariance == Spec => []TypeInv
<1>1. TypeInv /\ [Next]_vars => TypeInv'
  BY NextType
<1> QED BY <1>1, InitType, PTL DEF Spec

(***************************************************************************)
(* Whatever is stopped, removed or overlaps, the directory holds packages,  *)
(* the lock is a lock, and no run has two packages open.                    *)
(***************************************************************************)
THEOREM TypeCorrect == Spec => []TypeOK
<1>1. TypeInv => TypeOK
  <2> SUFFICES ASSUME TypeInv PROVE TypeOK
    OBVIOUS
  <2>1. \A r \in Run : Cardinality(open[r]) <= 1
    <3> SUFFICES ASSUME NEW r \in Run PROVE Cardinality(open[r]) <= 1
      OBVIOUS
    <3>1. open[r] = {} \/ \E p \in Package : open[r] = {p}
      BY DEF TypeInv, OpenInv
    <3>2. Cardinality({}) = 0 /\ \A p \in Package : Cardinality({p}) = 1
      BY FS_EmptySet, FS_Singleton, Zenon
    <3> QED BY <3>1, <3>2
  <2>2. IsDisk(disk)
    BY DiskIs DEF TypeInv, DiskInv
  <2>3. \A r \in Run : IsEntries(entries[r]) /\ IsEntries(content[r])
    BY EntriesAre DEF TypeInv, EntriesInv
  <2> QED BY <2>1, <2>2, <2>3 DEF TypeInv, LockInv, RunInv, OpenInv, Step, TypeOK
<1> QED BY <1>1, TypeInvariance, PTL

-------------------------------------------------------------------------------
\* What a step of one run leaves alone: the other runs, and who overlapped.
Others(r) ==
  /\ Active(r) /\ pc' = [pc EXCEPT ![r] = pc'[r]] /\ pc'[r] # "idle"
  /\ UNCHANGED <<ownLock, overlapped>>
  /\ \A s \in Run \ {r} :
       /\ sub'[s] = sub[s] /\ open'[s] = open[s] /\ content'[s] = content[s] /\ added'[s] = added[s]

LEMMA EndOthers ==
  ASSUME TypeInv, NEW r \in Run, NEW c, Active(r), End(r, c), UNCHANGED <<ownLock, overlapped>>
  PROVE  Others(r)
BY DEF TypeInv, RunInv, OpenInv, EntriesInv, End, Go, Others

LEMMA StepOthers ==
  ASSUME TypeInv, NEW r \in Run, Steps(r) \/ Stop(r)
  PROVE  Others(r)
<1> USE DEF TypeInv, RunInv, Others, Active, Go
<1>1. CASE Remove(r) \/ Copied(r) \/ KeepLock(r) \/ CreateLock(r) \/ WriteLock(r) \/ ReadEntries(r)
  BY <1>1 DEF Remove, Copied, KeepLock, CreateLock, WriteLock, ReadEntries
<1>2. CASE NothingAdded(r) \/ TruncateLock(r) \/ RewriteLock(r)
  BY <1>2 DEF NothingAdded, TruncateLock, RewriteLock, Hashed
<1>3. CASE (\E p \in todo[r] : Create(r, p)) \/ Fill(r)
  BY <1>3 DEF Create, Fill, OpenInv
<1>4. CASE ReadContent(r) \/ EngineRead(r)
  BY <1>4 DEF ReadContent, EngineRead, EntriesInv
<1>5. CASE \E p \in todo[r] : SkipPackage(r, p) \/ AddHash(r, p)
  BY <1>5 DEF SkipPackage, AddHash, Hashing, EntriesInv
<1>6. CASE FailFill(r) \/ EngineFails(r) \/ (\E p \in todo[r] : FailHash(r, p))
  <2>1. Active(r) /\ End(r, 1) /\ UNCHANGED <<ownLock, overlapped>>
    BY <1>6 DEF FailFill, EngineFails, FailHash, Hashing, Fail
  <2> QED BY <2>1, EndOthers
<1>7. CASE EngineInit(r)
  <2>1. Active(r) /\ End(r, 0) /\ UNCHANGED <<ownLock, overlapped>>
    BY <1>7 DEF EngineInit
  <2> QED BY <2>1, EndOthers
<1>8. CASE Stop(r)
  <2>1. Active(r) /\ End(r, 1) /\ UNCHANGED <<ownLock, overlapped>>
    BY <1>8 DEF Stop
  <2> QED BY <2>1, EndOthers
<1> QED BY <1>1, <1>2, <1>3, <1>4, <1>5, <1>6, <1>7, <1>8 DEF Steps

-------------------------------------------------------------------------------
(***************************************************************************)
(* Hashes: while runs follow one another, the packages a run hashes are     *)
(* those it has copied itself.                                              *)
(***************************************************************************)
GenuineInputs ==
  /\ \A b \in Builds : Genuine(b.lock.entries)
  /\ \A c \in Checkouts : Genuine(c.lock.entries)

AloneInv ==
  ~overlapped =>
    /\ \A r, s \in Run : Active(r) /\ Active(s) => r = s
    /\ \A r \in Run : lost[r] = FALSE

SubInv == \A r \in Run : pc[r] = "idle" => sub[r] = "providers"

\* A run that has copied the providers.
Copying(r) == pc[r] \in {"remove", "copy"}

Done(r) == Active(r) /\ (Copying(r) => sub[r] = "modules")

WholeInv ==
  ~overlapped => \A r \in Run, p \in DOMAIN disk.providers :
    /\ Done(r) => disk.providers[p] = "whole"
    /\ pc[r] = "copy" => disk.providers[p] = "whole" \/ p \in open[r]

GenuineInv == ~overlapped => Genuine(lock.entries) /\ \A r \in Run : Genuine(content[r])

HashInv == TypeInv /\ AloneInv /\ SubInv /\ WholeInv /\ GenuineInv

LEMMA InitHash == ASSUME GenuineInputs, Init PROVE HashInv
<1>1. TypeInv
  BY InitType
<1>2. AloneInv /\ SubInv /\ WholeInv
  BY DEF Init, AloneInv, SubInv, WholeInv, Done, Active
<1>3. Genuine(<<>>)
  BY Nothing DEF Genuine
<1>4. GenuineInv
  BY <1>3 DEF Init, GenuineInputs, GenuineInv
<1> QED BY <1>1, <1>2, <1>4 DEF HashInv

LEMMA StepAlone ==
  ASSUME TypeInv, AloneInv, SubInv, NEW r \in Run, Steps(r) \/ Stop(r)
  PROVE  AloneInv' /\ SubInv'
<1>1. Others(r)
  BY StepOthers
<1>2. SubInv'
  BY <1>1 DEF SubInv, Others, TypeInv, RunInv
<1>3. \A s \in Run : Active(s)' => Active(s)
  BY <1>1 DEF Others, Active, TypeInv, RunInv
<1>4. ASSUME ~overlapped, NEW s \in Run PROVE lost'[s] = FALSE
  <2>1. CASE Remove(r)
    <3>1. Active(r) /\ pc[r] # "copy" /\ lost[s] = FALSE
      BY <1>1, <1>4, <2>1 DEF Others, Remove, AloneInv
    <3>2. open[s] # {} => Active(s) /\ pc[s] = "copy"
      BY DEF TypeInv, OpenInv, Active
    <3>3. open[s] = {}
      BY <1>4, <3>1, <3>2 DEF AloneInv
    <3> QED BY <2>1, <3>1, <3>3 DEF Remove
  <2>2. CASE \E p \in todo[r] : Create(r, p)
    BY <1>4, <2>2 DEF Create, AloneInv, TypeInv, RunInv
  <2>3. ASSUME NEW c, End(r, c) PROVE lost'[s] = FALSE
    BY <1>4, <2>3 DEF End, AloneInv, TypeInv, RunInv
  <2>4. CASE FailFill(r) \/ EngineFails(r) \/ (\E p \in todo[r] : FailHash(r, p)) \/ EngineInit(r) \/ Stop(r)
    BY <2>3, <2>4 DEF FailFill, EngineFails, FailHash, Fail, EngineInit, Stop
  <2>5. CASE UNCHANGED lost
    BY <1>4, <2>5 DEF AloneInv
  <2> QED BY <2>1, <2>2, <2>4, <2>5 DEF Steps, Fill, Copied, KeepLock, CreateLock, WriteLock, ReadEntries,
        ReadContent, EngineRead, SkipPackage, AddHash, NothingAdded, TruncateLock, RewriteLock
<1>5. AloneInv'
  BY <1>1, <1>3, <1>4 DEF AloneInv, Others
<1> QED BY <1>2, <1>5

\* Only the run itself can be beyond the start, so it suffices to look at it.
LEMMA StepWhole ==
  ASSUME HashInv, NEW r \in Run, Steps(r) \/ Stop(r)
  PROVE  WholeInv'
<1>1. Others(r) /\ AloneInv'
  BY StepOthers, StepAlone DEF HashInv
<1> SUFFICES ASSUME ~overlapped', NEW s \in Run, NEW p \in (DOMAIN disk.providers)', Active(s)'
             PROVE  /\ Done(s)' => (disk.providers)'[p] = "whole"
                    /\ pc'[s] = "copy" => (disk.providers)'[p] = "whole" \/ p \in open'[s]
  BY DEF WholeInv, Done, Active
<1>2. s = r /\ ~overlapped /\ lost[r] = FALSE /\ pc[r] \in Step /\ sub[r] \in Subdir
  <2>1. Active(s) /\ Active(r) /\ ~overlapped
    BY <1>1 DEF Others, Active, HashInv, TypeInv, RunInv
  <2> QED BY <2>1 DEF HashInv, AloneInv, TypeInv, RunInv
<1>3. \A q \in DOMAIN disk.providers :
        /\ Done(r) => disk.providers[q] = "whole"
        /\ pc[r] = "copy" => disk.providers[q] = "whole" \/ q \in open[r]
  BY <1>2 DEF HashInv, WholeInv
<1>4. disk \in [Subdir -> Packages] /\ "providers" \in Subdir /\ "modules" \in Subdir
  BY DEF HashInv, TypeInv, DiskInv, Subdir
<1>5. open \in [Run -> SUBSET Package] /\ sub \in [Run -> Subdir] /\ pc \in [Run -> Step]
  BY DEF HashInv, TypeInv, OpenInv, RunInv
<1>6. CASE Remove(r)
  BY <1>2, <1>3, <1>4, <1>5, <1>6, Nothing DEF Remove, Go, Done, Copying, Active, Subdir
<1>7. CASE \E q \in todo[r] : Create(r, q)
  <2> PICK q \in todo[r] : Create(r, q)
    BY <1>7
  <2>1. pc'[r] = "copy" /\ sub'[r] = sub[r] /\ open[r] = {} /\ open'[r] = {q} /\ pc[r] = "copy"
    BY <1>5 DEF Create
  <2>2. CASE sub[r] = "providers"
    <3>1. disk'.providers = [x \in DOMAIN disk.providers \cup {q} |-> IF x = q THEN "part" ELSE disk.providers[x]]
      BY <1>4, <2>2 DEF Create
    <3>2. p = q \/ (p \in DOMAIN disk.providers /\ disk'.providers[p] = disk.providers[p])
      BY <3>1
    <3> QED BY <1>2, <1>3, <2>1, <2>2, <3>2 DEF Done, Copying
  <2>3. CASE sub[r] = "modules"
    <3>1. disk'.providers = disk.providers
      BY <1>4, <2>3 DEF Create
    <3> QED BY <1>2, <1>3, <2>1, <2>3, <3>1 DEF Done, Active
  <2> QED BY <1>2, <2>2, <2>3 DEF Subdir
<1>8. CASE Fill(r)
  <2>1. pc'[r] = "copy" /\ sub'[r] = sub[r] /\ pc[r] = "copy"
    BY <1>8 DEF Fill
  <2>2. CASE sub[r] = "providers"
    <3>1. disk'.providers =
            [x \in DOMAIN disk.providers |-> IF x \in open[r] /\ ~lost[r] THEN "whole" ELSE disk.providers[x]]
      BY <1>4, <1>8, <2>2 DEF Fill
    <3> QED BY <1>2, <1>3, <2>1, <2>2, <3>1
  <2>3. CASE sub[r] = "modules"
    <3>1. disk'.providers = disk.providers
      BY <1>4, <1>8, <2>3 DEF Fill
    <3> QED BY <1>2, <1>3, <2>1, <2>3, <3>1 DEF Done, Active
  <2> QED BY <1>2, <2>2, <2>3 DEF Subdir
<1>9. CASE Copied(r)
  <2>1. disk' = disk /\ pc[r] = "copy" /\ open[r] = {} /\ pc'[r] # "copy"
    BY <1>5, <1>9 DEF Copied, Go
  <2> QED BY <1>2, <1>3, <2>1
<1>10. ASSUME NEW c, End(r, c) PROVE FALSE
  BY <1>2, <1>5, <1>10 DEF End, Go, Active
<1>11. CASE FailFill(r) \/ EngineFails(r) \/ (\E q \in todo[r] : FailHash(r, q)) \/ EngineInit(r) \/ Stop(r)
  BY <1>10, <1>11 DEF FailFill, EngineFails, FailHash, Fail, EngineInit, Stop
<1>12. ASSUME ~Copying(r), disk' = disk, pc'[r] # "copy"
       PROVE  /\ Done(r)' => (disk.providers)'[p] = "whole"
              /\ pc'[r] = "copy" => (disk.providers)'[p] = "whole" \/ p \in open'[r]
  BY <1>1, <1>3, <1>12 DEF Done, Others
<1>13. CASE \/ KeepLock(r) \/ CreateLock(r) \/ WriteLock(r) \/ ReadEntries(r) \/ ReadContent(r)
            \/ NothingAdded(r) \/ TruncateLock(r) \/ RewriteLock(r) \/ EngineRead(r)
  <2>1. ~Copying(r) /\ disk' = disk /\ pc'[r] # "copy"
    BY <1>5, <1>13 DEF EngineRead, KeepLock, CreateLock, WriteLock, ReadEntries, ReadContent, NothingAdded, TruncateLock,
       RewriteLock, Hashed, Go, Copying
  <2> QED BY <1>2, <1>12, <2>1
<1>14. CASE \E q \in todo[r] : SkipPackage(r, q) \/ AddHash(r, q)
  <2>1. ~Copying(r) /\ disk' = disk /\ pc'[r] # "copy"
    BY <1>14 DEF SkipPackage, AddHash, Hashing, Copying
  <2> QED BY <1>2, <1>12, <2>1
<1> QED BY <1>6, <1>7, <1>8, <1>9, <1>11, <1>13, <1>14 DEF Steps

LEMMA StepGenuine ==
  ASSUME GenuineInputs, HashInv, NEW r \in Run, Steps(r) \/ Stop(r)
  PROVE  GenuineInv'
<1>1. Others(r)
  BY StepOthers DEF HashInv
<1> SUFFICES ASSUME ~overlapped PROVE Genuine(lock'.entries) /\ Genuine(content'[r])
  BY <1>1 DEF GenuineInv, HashInv, Others, Genuine
<1>2. Genuine(lock.entries) /\ Genuine(content[r]) /\ Genuine(<<>>)
  BY Nothing DEF HashInv, GenuineInv, Genuine
<1>3. content \in [Run -> Entries] /\ build[r] \in Builds \cup {NoBuild}
  BY DEF HashInv, TypeInv, EntriesInv, RunInv
<1>4. ASSUME NEW p, Installed(p), pc[r] \in {"hash", "engine_write"} PROVE H1(p)[2] = "whole"
  BY <1>4 DEF HashInv, WholeInv, Done, Active, Copying, H1, Installed
<1>5. CASE WriteLock(r)
  <2>1. Genuine(build[r].lock.entries)
    BY <1>2, <1>3 DEF GenuineInputs, NoBuild, NoLock
  <2> QED BY <1>2, <1>5, <2>1 DEF WriteLock
<1>6. CASE CreateLock(r) \/ TruncateLock(r) \/ RewriteLock(r)
  BY <1>2, <1>6 DEF CreateLock, TruncateLock, RewriteLock, EmptyLock
<1>7. CASE ReadContent(r) \/ EngineRead(r)
  BY <1>2, <1>3, <1>7 DEF ReadContent, EngineRead
<1>8. CASE \E p \in todo[r] : AddHash(r, p)
  <2> PICK p \in todo[r] : AddHash(r, p)
    BY <1>8
  <2>1. H1(p)[2] = "whole"
    BY <1>4 DEF AddHash, Hashing
  <2>2. content'[r] = [content[r] EXCEPT ![p[1]] =
          [version |-> content[r][p[1]].version, h1 |-> content[r][p[1]].h1 \cup {H1(p)}]]
    BY <1>3, Added DEF HashInv
  <2>3. Genuine(content'[r])
    BY <1>2, <2>1, <2>2 DEF Genuine
  <2> QED BY <1>2, <2>3 DEF AddHash
<1>9. ASSUME NEW c, End(r, c) PROVE Genuine(content'[r])
  BY <1>2, <1>3, <1>9 DEF End
<1>10. CASE EngineInit(r)
  <2>1. pc[r] = "engine_write" /\ TypeInv
    BY <1>10 DEF EngineInit, HashInv
  <2>2. CASE lock' = lock
    BY <1>2, <1>9, <1>10, <2>2 DEF EngineInit
  <2>4. CASE \A n \in DOMAIN lock'.entries :
               \/ n \in DOMAIN content[r] /\ lock'.entries[n] = content[r][n]
               \/ \E p : Installed(p) /\ lock'.entries[n] = [version |-> p[2], h1 |-> {H1(p)}]
    <3> SUFFICES ASSUME NEW n \in DOMAIN lock'.entries, NEW h \in lock'.entries[n].h1 PROVE h[2] # "part"
      BY <1>9, <1>10 DEF Genuine, EngineInit
    <3>1. CASE n \in DOMAIN content[r] /\ lock'.entries[n] = content[r][n]
      BY <1>2, <3>1 DEF Genuine
    <3>2. ASSUME NEW p, Installed(p), lock'.entries[n] = [version |-> p[2], h1 |-> {H1(p)}] PROVE h[2] # "part"
      <4>1. h = H1(p)
        BY <3>2
      <4>2. H1(p)[2] = "whole"
        BY <1>4, <2>1, <3>2
      <4> QED BY <4>1, <4>2
    <3> QED BY <2>4, <3>1, <3>2
  <2> QED BY <1>10, <2>1, <2>2, <2>4, EngineLock
<1>11. CASE FailFill(r) \/ EngineFails(r) \/ (\E p \in todo[r] : FailHash(r, p)) \/ Stop(r)
  BY <1>2, <1>9, <1>11 DEF FailFill, EngineFails, FailHash, Fail, Stop
<1>12. CASE UNCHANGED <<lock, content>>
  BY <1>2, <1>12
<1> QED BY <1>5, <1>6, <1>7, <1>8, <1>10, <1>11, <1>12 DEF Steps, Remove, Create, Fill, Copied, KeepLock,
      ReadEntries, SkipPackage, NothingAdded

LEMMA NextHash == ASSUME GenuineInputs, HashInv, [Next]_vars PROVE HashInv'
<1>1. TypeInv'
  BY NextType DEF HashInv
<1>2. ASSUME NEW r \in Run, Steps(r) \/ Stop(r) PROVE HashInv'
  BY <1>1, <1>2, StepAlone, StepWhole, StepGenuine DEF HashInv
<1>3. ASSUME NEW r \in Run, NEW b \in Builds, NEW ro \in BOOLEAN, Start(r, b, ro) PROVE HashInv'
  <2>1. /\ pc[r] = "idle" /\ pc' = [pc EXCEPT ![r] = "remove"] /\ UNCHANGED <<disk, lock, sub, open, lost, content>>
        /\ ~overlapped' => ~overlapped /\ \A s \in Run : ~Active(s)
    BY <1>3 DEF Start, MayStart, Go
  <2>2. pc \in [Run -> Step] /\ sub[r] = "providers"
    BY <2>1 DEF HashInv, TypeInv, RunInv, SubInv
  <2>3. AloneInv' /\ SubInv' /\ GenuineInv'
    BY <2>1, <2>2 DEF HashInv, AloneInv, SubInv, GenuineInv, Active
  <2>4. WholeInv'
    BY <2>1, <2>2 DEF HashInv, WholeInv, Done, Active, Copying
  <2> QED BY <1>1, <2>3, <2>4 DEF HashInv
<1>4. ASSUME NEW r \in Run, Refuse(r) PROVE HashInv'
  <2>1. /\ pc' = [pc EXCEPT ![r] = "ended"] /\ UNCHANGED <<disk, lock, sub, overlapped>>
        /\ open' = [open EXCEPT ![r] = {}] /\ lost' = [lost EXCEPT ![r] = FALSE]
        /\ content' = [content EXCEPT ![r] = <<>>]
    BY <1>4 DEF Refuse, Fail, End, Go
  <2>2. pc \in [Run -> Step] /\ open \in [Run -> SUBSET Package] /\ lost \in [Run -> BOOLEAN]
        /\ content \in [Run -> Entries]
    BY DEF HashInv, TypeInv, RunInv, OpenInv, EntriesInv
  <2>3. Genuine(<<>>)
    BY Nothing DEF Genuine
  <2>4. AloneInv' /\ SubInv' /\ GenuineInv'
    BY <2>1, <2>2, <2>3 DEF HashInv, AloneInv, SubInv, GenuineInv, Active
  <2>5. WholeInv'
    BY <2>1, <2>2 DEF HashInv, WholeInv, Done, Active, Copying
  <2> QED BY <1>1, <2>4, <2>5 DEF HashInv
<1>5. CASE UNCHANGED vars
  BY <1>1, <1>5 DEF HashInv, AloneInv, SubInv, WholeInv, GenuineInv, Done, Active, Copying, vars, runVars
<1> QED BY <1>2, <1>3, <1>4, <1>5 DEF Next, Ended

(***************************************************************************)
(* If the locks that are built and checked out hold no hash of half a       *)
(* package, none is ever added while runs follow one another, wherever they *)
(* are stopped (runner.go:479-486).                                         *)
(***************************************************************************)
THEOREM HashesSafety == GenuineInputs /\ Spec => []HashesGenuine
<1>1. GenuineInputs /\ HashInv /\ [Next]_vars => HashInv'
  BY NextHash
<1>2. GenuineInputs /\ Init => HashInv
  BY InitHash
<1>3. HashInv => HashesGenuine
  BY DEF HashInv, GenuineInv, HashesGenuine
<1> SUFFICES ASSUME GenuineInputs PROVE Spec => []HashesGenuine
  OBVIOUS
<1>4. HashInv /\ [Next]_vars => HashInv'
  BY <1>1
<1>5. Init => HashInv
  BY <1>2
<1> QED BY <1>3, <1>4, <1>5, PTL DEF Spec

-------------------------------------------------------------------------------
(***************************************************************************)
(* The module's own lock, with runs that may overlap.                       *)
(***************************************************************************)
Own(e) == Within(ownLock.entries, e)

\* A lock is created only where the module had none.
CreatedInv ==
  /\ ownLock.exists => lock.exists
  /\ \A r \in Run : pc[r] = "lock_write" => ~ownLock.exists

AddedInv == \A r \in Run : added[r] => pc[r] \in {"hash", "rewrite", "engine", "engine_write"}

\* What a run or its engine is about to write has the module's entries; what a
\* run read may also be the empty lock another is about to fill, and then it
\* finds no block to add a hash to.
ContentInv ==
  ~torn => \A r \in Run :
    /\ pc[r] \in {"rewrite", "engine_write"} => Own(content[r])
    /\ pc[r] = "hash" => Own(content[r]) \/ (content[r] = <<>> /\ ~added[r])

\* The lock is never a part of what the module had.
TruncatedInv == ~torn => Own(lock.entries) \/ lock.entries = <<>>

OwnInv == TypeInv /\ AddedInv /\ CreatedInv /\ ContentInv /\ TruncatedInv /\ OwnLockKept

LEMMA WithinSame == \A e : Within(e, e)
BY DEF Within

LEMMA OwnGrows ==
  ASSUME NEW e, NEW f, Own(e), \A n \in DOMAIN e : n \in DOMAIN f /\ f[n] = e[n]
  PROVE  Own(f)
BY DEF Own, Within

LEMMA NoOwn == ASSUME TypeInv, ~ownLock.exists PROVE \A e : Own(e)
BY Nothing DEF TypeInv, LockInv, IsLock, Own, Within

LEMMA InitOwn == Init => OwnInv
<1> SUFFICES ASSUME Init PROVE OwnInv
  OBVIOUS
<1>1. TypeInv /\ AddedInv
  BY InitType DEF Init, AddedInv
<1>2. CreatedInv /\ ContentInv /\ TruncatedInv
  BY WithinSame DEF Init, CreatedInv, ContentInv, TruncatedInv, Own
<1>3. OwnLockKept
  BY WithinSame DEF Init, OwnLockKept
<1> QED BY <1>1, <1>2, <1>3 DEF OwnInv

LEMMA NextAdded == ASSUME TypeInv, AddedInv, [Next]_vars PROVE AddedInv'
<1>1. pc \in [Run -> Step] /\ added \in [Run -> BOOLEAN]
  BY DEF TypeInv, RunInv
<1>2. ASSUME NEW r \in Run, NEW c, End(r, c) PROVE AddedInv'
  BY <1>1, <1>2 DEF AddedInv, End, Go
<1>3. ASSUME NEW r \in Run, Steps(r) PROVE AddedInv'
  <2>1. CASE FailFill(r) \/ EngineFails(r) \/ (\E p \in todo[r] : FailHash(r, p)) \/ EngineInit(r)
    BY <1>2, <2>1 DEF FailFill, EngineFails, FailHash, Fail, EngineInit
  <2>2. CASE \E p \in todo[r] : SkipPackage(r, p) \/ AddHash(r, p)
    BY <1>1, <2>2 DEF AddedInv, SkipPackage, AddHash, Hashing
  <2>3. CASE \/ Remove(r) \/ (\E p \in todo[r] : Create(r, p)) \/ Fill(r) \/ Copied(r) \/ KeepLock(r)
             \/ CreateLock(r) \/ WriteLock(r) \/ ReadEntries(r) \/ ReadContent(r)
             \/ NothingAdded(r) \/ TruncateLock(r) \/ RewriteLock(r) \/ EngineRead(r)
    BY <1>1, <2>3 DEF AddedInv, EngineRead, Remove, Create, Fill, Copied, KeepLock, CreateLock, WriteLock, ReadEntries,
       ReadContent, NothingAdded, TruncateLock, RewriteLock, Hashed, Go
  <2> QED BY <1>3, <2>1, <2>2, <2>3 DEF Steps
<1>4. ASSUME NEW r \in Run, Refuse(r) \/ Stop(r) PROVE AddedInv'
  BY <1>2, <1>4 DEF Refuse, Fail, Stop
<1>5. ASSUME NEW r \in Run, NEW b \in Builds, NEW ro \in BOOLEAN, Start(r, b, ro) PROVE AddedInv'
  BY <1>1, <1>5 DEF AddedInv, Start, MayStart, Go
<1>6. CASE UNCHANGED vars
  BY <1>6 DEF AddedInv, vars, runVars
<1> QED BY <1>3, <1>4, <1>5, <1>6 DEF Next, Ended

\* A step that leaves the lock alone and begins and ends no writing.
LEMMA OwnKept ==
  ASSUME OwnInv, TypeInv', AddedInv', NEW r \in Run, UNCHANGED <<lock, ownLock>>, ~torn' => ~torn,
         pc' = [pc EXCEPT ![r] = pc'[r]], pc[r] \notin {"lock_write", "rewrite"},
         pc'[r] \notin {"lock_write", "rewrite"},
         \A s \in Run \ {r} : content'[s] = content[s] /\ added'[s] = added[s],
         ~torn' /\ pc'[r] = "hash" => Own(content'[r]) \/ (content'[r] = <<>> /\ ~added'[r]),
         ~torn' /\ pc'[r] = "engine_write" => Own(content'[r])
  PROVE  OwnInv'
<1>1. pc \in [Run -> Step]
  BY DEF OwnInv, TypeInv, RunInv
<1>2. CreatedInv'
  BY <1>1 DEF OwnInv, CreatedInv
<1>3. ContentInv'
  BY <1>1 DEF OwnInv, ContentInv, Own
<1>4. TruncatedInv'
  BY <1>1 DEF OwnInv, TruncatedInv, Own
<1>5. Writing' <=> Writing
  BY <1>1 DEF Writing
<1>6. OwnLockKept'
  BY <1>5 DEF OwnInv, OwnLockKept
<1> QED BY <1>2, <1>3, <1>4, <1>6 DEF OwnInv

\* A step that writes the lock: all of it, or nothing of it yet.
LEMMA OwnWritten ==
  ASSUME OwnInv, TypeInv', AddedInv', NEW r \in Run, Others(r), torn' = torn, lock'.exists,
         pc'[r] = "lock_write" => ~ownLock.exists,
         pc'[r] \notin {"hash", "engine_write"}, ~torn /\ pc'[r] = "rewrite" => Own(content'[r]),
         ~torn => \/ Own(lock'.entries)
                  \/ pc'[r] \in {"lock_write", "rewrite"} /\ lock'.entries = <<>>
  PROVE  OwnInv'
<1>1. pc \in [Run -> Step] /\ pc' = [pc EXCEPT ![r] = pc'[r]] /\ ownLock' = ownLock
  BY DEF OwnInv, TypeInv, RunInv, Others
<1>2. CreatedInv'
  BY <1>1 DEF OwnInv, CreatedInv
<1>3. ContentInv'
  BY <1>1 DEF OwnInv, ContentInv, Own, Others
<1>4. TruncatedInv'
  BY <1>1 DEF TruncatedInv, Own
<1>5. OwnLockKept'
  BY <1>1 DEF OwnLockKept, Own, Writing
<1> QED BY <1>2, <1>3, <1>4, <1>5 DEF OwnInv

LEMMA StepOwn ==
  ASSUME OwnInv, TypeInv', AddedInv', NEW r \in Run, Steps(r) \/ Stop(r)
  PROVE  OwnInv'
<1>1. Others(r) /\ TypeInv
  BY StepOthers DEF OwnInv
<1>2. pc \in [Run -> Step] /\ content \in [Run -> Entries] /\ build \in [Run -> Builds \cup {NoBuild}]
      /\ added \in [Run -> BOOLEAN] /\ lock.entries \in Entries
  BY <1>1, EntriesAre DEF TypeInv, RunInv, EntriesInv, LockInv, IsLock
<1>3. pc[r] # "ended"
  BY <1>1 DEF Others, Active
<1>4. CASE CreateLock(r)
  BY <1>1, <1>2, <1>4, OwnWritten DEF CreateLock, OwnInv, CreatedInv, EmptyLock, Go
<1>5. CASE WriteLock(r)
  <2>1. ~ownLock.exists
    BY <1>5 DEF WriteLock, OwnInv, CreatedInv
  <2>2. pc'[r] = "entries" /\ torn' = torn /\ lock' = build[r].lock
    BY <1>2, <1>5 DEF WriteLock, Go
  <2>3. Own(lock'.entries)
    BY <1>1, <2>1, NoOwn
  <2>4. CreatedInv'
    BY <1>1, <1>2, <2>1, <2>2 DEF OwnInv, CreatedInv, Others
  <2>5. ContentInv'
    BY <1>1, <1>2, <2>2 DEF OwnInv, ContentInv, Own, Others
  <2>6. TruncatedInv' /\ OwnLockKept'
    BY <1>1, <2>3 DEF TruncatedInv, OwnLockKept, Own, Others
  <2> QED BY <2>4, <2>5, <2>6 DEF OwnInv
<1>6. CASE ReadContent(r)
  <2>1. pc'[r] = "hash" /\ pc[r] = "content" /\ content'[r] = lock.entries /\ UNCHANGED <<lock, torn, added>>
    BY <1>2, <1>6 DEF ReadContent, Go
  <2>2. ~torn => Own(lock.entries) \/ lock.entries = <<>>
    BY DEF OwnInv, TruncatedInv
  <2>3. lock.entries = <<>> /\ ~Own(lock.entries) => ~added[r]
    BY <2>1 DEF OwnInv, AddedInv
  <2> QED BY <1>1, <1>2, <2>1, <2>2, <2>3, OwnKept DEF Others
<1>7. CASE TruncateLock(r)
  <2>1. pc[r] = "hash" /\ added[r] /\ pc'[r] = "rewrite" /\ UNCHANGED <<torn, content>> /\ lock' = EmptyLock
    BY <1>2, <1>7 DEF TruncateLock, Hashed, Go
  <2>2. ~torn => Own(content'[r])
    BY <2>1 DEF OwnInv, ContentInv
  <2> QED BY <1>1, <2>1, <2>2, OwnWritten DEF EmptyLock
<1>8. CASE RewriteLock(r)
  <2>1. pc[r] = "rewrite" /\ pc'[r] = "engine" /\ torn' = torn /\ lock'.exists /\ lock'.entries = content[r]
    BY <1>2, <1>8 DEF RewriteLock, Go
  <2>2. ~torn => Own(lock'.entries)
    BY <2>1 DEF OwnInv, ContentInv
  <2> QED BY <1>1, <2>1, <2>2, OwnWritten
<1>9. CASE EngineInit(r)
  <2>1. pc[r] = "engine_write" /\ pc'[r] = "ended" /\ torn' = torn
    BY <1>2, <1>9 DEF EngineInit, End, Go
  <2>2. CASE lock' = lock
    BY <1>1, <1>2, <2>1, <2>2, OwnKept DEF Others
  <2>3. CASE /\ lock'.exists
             /\ \A n \in DOMAIN content[r] : n \in DOMAIN lock'.entries /\ lock'.entries[n] = content[r][n]
    <3>1. ~torn => Own(lock'.entries)
      BY <2>1, <2>3, OwnGrows DEF OwnInv, ContentInv
    <3> QED BY <1>1, <2>1, <2>3, <3>1, OwnWritten
  <2> QED BY <1>1, <1>9, <2>2, <2>3, EngineLock
<1>16. CASE EngineRead(r)
  <2>1. /\ pc[r] = "engine" /\ pc'[r] = "engine_write" /\ content'[r] = lock.entries /\ lock' = lock
        /\ ~torn' => ~torn /\ ~Writing
    BY <1>2, <1>16 DEF EngineRead, Go
  <2>2. ~torn' => Own(content'[r])
    BY <2>1 DEF OwnInv, OwnLockKept, Own
  <2> QED BY <1>1, <2>1, <2>2, OwnKept DEF Others
<1>10. CASE \E p \in todo[r] : AddHash(r, p)
  <2> PICK p \in todo[r] : AddHash(r, p)
    BY <1>10
  <2>1. pc[r] = "hash" /\ pc' = pc /\ UNCHANGED <<lock, torn>>
    BY DEF AddHash, Hashing
  <2>2. p[1] \in DOMAIN content[r]
        /\ content'[r] = [content[r] EXCEPT ![p[1]] =
             [version |-> content[r][p[1]].version, h1 |-> content[r][p[1]].h1 \cup {H1(p)}]]
    BY <1>1, <1>2, Added
  <2>3. ~torn => Own(content[r])
    BY <2>1, <2>2, Nothing DEF OwnInv, ContentInv
  <2>4. Own(content[r]) => Own(content'[r])
    BY <2>2 DEF Own, Within
  <2> QED BY <1>1, <1>2, <2>1, <2>3, <2>4, OwnKept DEF Others
<1>11. ASSUME NEW c, End(r, c), lock' = lock, ~torn' => ~torn, pc[r] \notin {"lock_write", "rewrite"} PROVE OwnInv'
  BY <1>1, <1>2, <1>11, OwnKept DEF End, Go, Others
<1>12. CASE FailFill(r) \/ EngineFails(r) \/ (\E p \in todo[r] : FailHash(r, p))
  BY <1>11, <1>12 DEF FailFill, EngineFails, FailHash, Hashing, Fail
<1>13. CASE Stop(r)
  <2>1. CASE pc[r] \in {"lock_write", "rewrite"}
    <3>1. torn' = TRUE /\ lock' = lock /\ pc'[r] = "ended"
      BY <1>2, <1>13, <2>1 DEF Stop, End, Go
    <3>2. CreatedInv'
      BY <1>1, <1>2, <3>1 DEF OwnInv, CreatedInv, Others
    <3> QED BY <3>1, <3>2 DEF OwnInv, ContentInv, TruncatedInv, OwnLockKept
  <2>2. CASE pc[r] \notin {"lock_write", "rewrite"}
    BY <1>11, <1>13, <2>2 DEF Stop
  <2> QED BY <2>1, <2>2
<1>14. CASE \/ Remove(r) \/ (\E p \in todo[r] : Create(r, p)) \/ Fill(r) \/ Copied(r)
            \/ KeepLock(r) \/ ReadEntries(r)
  <2>1. UNCHANGED <<lock, torn>> /\ pc[r] \notin {"lock_write", "rewrite"}
        /\ pc'[r] \notin {"lock_write", "rewrite", "hash", "engine_write"}
    BY <1>2, <1>14 DEF Remove, Create, Fill, Copied, KeepLock, ReadEntries, Go
  <2> QED BY <1>1, <1>3, <2>1, OwnKept DEF Others
<1>15. CASE NothingAdded(r) \/ \E p \in todo[r] : SkipPackage(r, p)
  <2>1. UNCHANGED <<lock, torn, content, added>> /\ pc[r] = "hash" /\ pc'[r] \in {"hash", "engine"}
    BY <1>2, <1>15 DEF NothingAdded, Hashed, SkipPackage, Hashing, Go
  <2>2. ~torn => Own(content[r]) \/ (content[r] = <<>> /\ ~added[r])
    BY <2>1 DEF OwnInv, ContentInv
  <2> QED BY <1>1, <1>3, <2>1, <2>2, OwnKept DEF Others
<1> QED BY <1>4, <1>5, <1>6, <1>7, <1>8, <1>9, <1>10, <1>12, <1>13, <1>14, <1>15,
         <1>16 DEF Steps

LEMMA NextOwn == ASSUME OwnInv, [Next]_vars PROVE OwnInv'
<1>1. TypeInv' /\ AddedInv'
  BY NextType, NextAdded DEF OwnInv
<1>2. ASSUME NEW r \in Run, Steps(r) \/ Stop(r) PROVE OwnInv'
  BY <1>1, <1>2, StepOwn
<1>3. ASSUME NEW r \in Run, NEW b \in Builds, NEW ro \in BOOLEAN, Start(r, b, ro) PROVE OwnInv'
  BY <1>1, <1>3, OwnKept DEF Start, MayStart, Go, OwnInv, TypeInv, RunInv
<1>4. ASSUME NEW r \in Run, Refuse(r) PROVE OwnInv'
  BY <1>1, <1>4, OwnKept DEF Refuse, MayStart, Fail, End, Go, OwnInv, TypeInv, RunInv, EntriesInv
<1>5. CASE UNCHANGED vars
  BY <1>1, <1>5 DEF OwnInv, CreatedInv, ContentInv, TruncatedInv, OwnLockKept, Own, Writing, vars, runVars
<1> QED BY <1>2, <1>3, <1>4, <1>5 DEF Next, Ended

(***************************************************************************)
(* Any number of runs, overlapping and stopped anywhere, lose no entry and  *)
(* no hash of the lock the module had, unless a run was stopped while it    *)
(* had the lock truncated or an engine read it then (runner.go:404-410,     *)
(* 484, 542).                                                               *)
(***************************************************************************)
THEOREM OwnLockSafety == Spec => []OwnLockKept
<1>1. OwnInv /\ [Next]_vars => OwnInv'
  BY NextOwn
<1>2. OwnInv => OwnLockKept
  BY DEF OwnInv
<1> QED BY <1>1, <1>2, InitOwn, PTL DEF Spec

-------------------------------------------------------------------------------
(***************************************************************************)
(* What a run alone installs                                                *)
(***************************************************************************)
\* Of the packages staged for the directory it copies, a run that is alone has
\* in place what it need not copy any more, all of it whole but what is open.
InstalledInv ==
  ~overlapped => \A r \in Run :
    /\ Done(r) => disk.providers = [p \in build[r].providers |-> "whole"]
    /\ Active(r) /\ ~Copying(r) => disk.modules = [p \in build[r].modules |-> "whole"]
    /\ pc[r] = "engine_write" => content[r] = lock.entries
    /\ pc[r] = "copy" =>
         /\ todo[r] \subseteq Staged(r) /\ DOMAIN disk[sub[r]] = Staged(r) \ todo[r]
         /\ \A p \in DOMAIN disk[sub[r]] : p \notin open[r] => disk[sub[r]][p] = "whole"

OneInv == TypeInv /\ AloneInv /\ SubInv /\ InstalledInv

LEMMA InitOne == Init => OneInv
<1>1. Init => AloneInv /\ SubInv /\ InstalledInv
  BY DEF Init, AloneInv, SubInv, InstalledInv, Done, Active
<1> QED BY <1>1, InitType DEF OneInv

LEMMA StepInstalled ==
  ASSUME OneInv, NEW r \in Run, Steps(r) \/ Stop(r)
  PROVE  InstalledInv'
<1>1. Others(r) /\ AloneInv'
  BY StepOthers, StepAlone DEF OneInv
<1> DEFINE Good(s) ==
      /\ Done(s) => disk.providers = [p \in build[s].providers |-> "whole"]
      /\ Active(s) /\ ~Copying(s) => disk.modules = [p \in build[s].modules |-> "whole"]
      /\ pc[s] = "engine_write" => content[s] = lock.entries
      /\ pc[s] = "copy" =>
           /\ todo[s] \subseteq Staged(s) /\ DOMAIN disk[sub[s]] = Staged(s) \ todo[s]
           /\ \A p \in DOMAIN disk[sub[s]] : p \notin open[s] => disk[sub[s]][p] = "whole"
<1> SUFFICES ASSUME ~overlapped', Active(r)' PROVE Good(r)'
  <2>1. \A s \in Run : Active(s)' => Active(s)
    BY <1>1 DEF Others, Active, OneInv, TypeInv, RunInv
  <2>2. ~overlapped' => ~overlapped /\ Active(r)
    BY <1>1 DEF Others
  <2>3. \A s \in Run : ~overlapped' /\ Active(s)' => s = r
    BY <2>1, <2>2 DEF OneInv, AloneInv
  <2>4. \A s \in Run : ~Active(s)' => Good(s)'
    BY DEF Done, Active
  <2> HIDE DEF Good
  <2>5. ~overlapped' => \A s \in Run : Good(s)'
    BY <2>3, <2>4
  <2> QED BY <2>5 DEF InstalledInv, Good
<1>2. /\ ~overlapped /\ Active(r) /\ lost[r] = FALSE /\ pc[r] \in Step /\ sub[r] \in Subdir
      /\ disk \in [Subdir -> Packages]
  BY <1>1 DEF Others, OneInv, AloneInv, TypeInv, RunInv, DiskInv
<1>3. Good(r)
  BY <1>2 DEF OneInv, InstalledInv
<1>4. /\ open \in [Run -> SUBSET Package] /\ sub \in [Run -> Subdir] /\ pc \in [Run -> Step]
      /\ todo \in [Run -> SUBSET Package] /\ Subdir = {"providers", "modules"}
  BY DEF OneInv, TypeInv, OpenInv, RunInv, Subdir
<1>5. ASSUME NEW c, End(r, c) PROVE FALSE
  BY <1>4, <1>5 DEF End, Go, Active
<1>6. CASE FailFill(r) \/ EngineFails(r) \/ (\E q \in todo[r] : FailHash(r, q)) \/ EngineInit(r) \/ Stop(r)
  BY <1>5, <1>6 DEF FailFill, EngineFails, FailHash, Fail, EngineInit, Stop
<1>7. CASE Remove(r)
  <2>1. /\ pc[r] = "remove" /\ pc'[r] = "copy" /\ UNCHANGED <<sub, build, open>>
        /\ todo'[r] = Staged(r) /\ disk' = [disk EXCEPT ![sub[r]] = <<>>]
    BY <1>4, <1>7 DEF Remove, Go
  <2>2. DOMAIN disk'[sub'[r]] = {} /\ Staged(r)' = Staged(r)
    BY <1>2, <2>1, Nothing DEF Staged
  <2>3. Done(r)' => Done(r) /\ disk'.providers = disk.providers
    BY <1>2, <1>4, <2>1 DEF Done, Copying
  <2> QED BY <1>3, <2>1, <2>2, <2>3 DEF Copying
<1>8. CASE \E q \in todo[r] : Create(r, q)
  <2> PICK q \in todo[r] : Create(r, q)
    BY <1>8
  <2>1. /\ pc[r] = "copy" /\ pc' = pc /\ UNCHANGED <<sub, build>> /\ open'[r] = {q} /\ open[r] = {}
        /\ todo'[r] = todo[r] \ {q}
        /\ disk' = [disk EXCEPT ![sub[r]] = [x \in DOMAIN @ \cup {q} |-> IF x = q THEN "part" ELSE @[x]]]
    BY <1>4 DEF Create
  <2>2. disk'[sub[r]] = [x \in DOMAIN disk[sub[r]] \cup {q} |-> IF x = q THEN "part" ELSE disk[sub[r]][x]]
    BY <1>2, <2>1
  <2>3. Staged(r)' = Staged(r)
    BY <2>1 DEF Staged
  <2>4. Done(r)' => Done(r) /\ disk'.providers = disk.providers
    BY <1>2, <1>4, <2>1 DEF Done, Copying, Active
  <2>5. DOMAIN disk'[sub[r]] = Staged(r) \ (todo[r] \ {q})
    BY <1>3, <2>1, <2>2
  <2>6. \A p \in DOMAIN disk'[sub[r]] : p \notin {q} => disk'[sub[r]][p] = "whole"
    BY <1>3, <2>1, <2>2
  <2> QED BY <1>3, <2>1, <2>3, <2>4, <2>5, <2>6 DEF Copying
<1>9. CASE Fill(r)
  <2>1. /\ pc[r] = "copy" /\ pc' = pc /\ UNCHANGED <<sub, build, todo>> /\ open'[r] = {}
        /\ disk' = [disk EXCEPT ![sub[r]] = [x \in DOMAIN @ |-> IF x \in open[r] /\ ~lost[r] THEN "whole" ELSE @[x]]]
    BY <1>4, <1>9 DEF Fill
  <2>2. disk'[sub[r]] =
          [x \in DOMAIN disk[sub[r]] |-> IF x \in open[r] /\ ~lost[r] THEN "whole" ELSE disk[sub[r]][x]]
    BY <1>2, <2>1
  <2>3. Staged(r)' = Staged(r)
    BY <2>1 DEF Staged
  <2>4. Done(r)' => Done(r) /\ disk'.providers = disk.providers
    BY <1>2, <1>4, <2>1 DEF Done, Copying, Active
  <2>5. \A p \in DOMAIN disk'[sub[r]] : disk'[sub[r]][p] = "whole"
    BY <1>2, <1>3, <2>1, <2>2
  <2> QED BY <1>3, <2>1, <2>2, <2>3, <2>4, <2>5 DEF Copying
<1>10. CASE Copied(r)
  <2>1. pc[r] = "copy" /\ open[r] = {} /\ todo[r] = {} /\ UNCHANGED <<disk, build>>
    BY <1>10 DEF Copied
  <2>2. disk[sub[r]] = [p \in Staged(r) |-> "whole"]
    <3>1. DOMAIN disk[sub[r]] = Staged(r) /\ \A p \in Staged(r) : disk[sub[r]][p] = "whole"
      BY <1>3, <2>1
    <3>2. disk[sub[r]] \in Packages
      BY <1>2
    <3> QED BY <3>1, <3>2 DEF Packages
  <2>3. CASE sub[r] = "providers"
    <3>1. pc'[r] = "remove"
      BY <1>4, <1>10, <2>3 DEF Copied, Go
    <3>2. disk.providers = [p \in build[r].providers |-> "whole"]
      BY <2>2, <2>3 DEF Staged
    <3> QED BY <2>1, <3>1, <3>2 DEF Copying
  <2>4. CASE sub[r] = "modules"
    <3>1. pc'[r] = "lock"
      BY <1>4, <1>10, <2>4 DEF Copied, Go
    <3>2. disk.modules = [p \in build[r].modules |-> "whole"]
      BY <2>2, <2>4 DEF Staged
    <3>3. disk.providers = [p \in build[r].providers |-> "whole"]
      BY <1>2, <1>3, <2>1, <2>4 DEF Done
    <3> QED BY <2>1, <3>1, <3>2, <3>3
  <2> QED BY <1>2, <1>4, <2>3, <2>4
<1>11. ASSUME ~Copying(r), UNCHANGED <<disk, build>>, pc'[r] # "copy",
              pc'[r] = "engine_write" => content'[r] = lock'.entries
       PROVE  Good(r)'
  BY <1>2, <1>3, <1>11 DEF Done, Copying
<1>14. CASE EngineRead(r)
  <2>1. ~Copying(r) /\ UNCHANGED <<disk, build>> /\ pc'[r] # "copy" /\ content'[r] = lock'.entries
    BY <1>4, <1>14 DEF EngineRead, Go, Copying, OneInv, TypeInv, EntriesInv
  <2> QED BY <1>11, <2>1
<1>12. CASE \/ KeepLock(r) \/ CreateLock(r) \/ WriteLock(r) \/ ReadEntries(r) \/ ReadContent(r)
            \/ NothingAdded(r) \/ TruncateLock(r) \/ RewriteLock(r)
  <2>1. ~Copying(r) /\ UNCHANGED <<disk, build>> /\ pc'[r] \notin {"copy", "engine_write"}
    BY <1>4, <1>12 DEF KeepLock, CreateLock, WriteLock, ReadEntries, ReadContent, NothingAdded, TruncateLock,
       RewriteLock, Hashed, Go, Copying
  <2> QED BY <1>11, <2>1
<1>13. CASE \E q \in todo[r] : SkipPackage(r, q) \/ AddHash(r, q)
  <2>1. ~Copying(r) /\ UNCHANGED <<disk, build>> /\ pc'[r] \notin {"copy", "engine_write"}
    BY <1>13 DEF SkipPackage, AddHash, Hashing, Copying
  <2> QED BY <1>11, <2>1
<1> HIDE DEF Good
<1> QED BY <1>6, <1>7, <1>8, <1>9, <1>10, <1>12, <1>13, <1>14 DEF Steps

LEMMA NextOne == ASSUME OneInv, [Next]_vars PROVE OneInv'
<1>1. TypeInv'
  BY NextType DEF OneInv
<1>2. ASSUME NEW r \in Run, Steps(r) \/ Stop(r) PROVE OneInv'
  BY <1>1, <1>2, StepAlone, StepInstalled DEF OneInv
<1>3. ASSUME NEW r \in Run, NEW b \in Builds, NEW ro \in BOOLEAN, Start(r, b, ro) PROVE OneInv'
  <2>1. /\ pc[r] = "idle" /\ pc' = [pc EXCEPT ![r] = "remove"] /\ UNCHANGED <<disk, sub, open, lost>>
        /\ ~overlapped' => ~overlapped /\ \A s \in Run : ~Active(s)
    BY <1>3 DEF Start, MayStart, Go
  <2>2. pc \in [Run -> Step] /\ sub[r] = "providers"
    BY <2>1 DEF OneInv, TypeInv, RunInv, SubInv
  <2>3. AloneInv' /\ SubInv'
    BY <2>1, <2>2 DEF OneInv, AloneInv, SubInv, Active
  <2>4. ~overlapped' => \A s \in Run : ~Done(s)' /\ pc'[s] \notin {"copy", "engine_write"} /\ (Active(s)' => Copying(s)')
    BY <2>1, <2>2 DEF Done, Active, Copying
  <2>5. InstalledInv'
    BY <2>4 DEF InstalledInv
  <2> QED BY <1>1, <2>3, <2>5 DEF OneInv
<1>4. ASSUME NEW r \in Run, Refuse(r) PROVE OneInv'
  <2>1. /\ pc' = [pc EXCEPT ![r] = "ended"] /\ UNCHANGED <<disk, sub, overlapped>>
        /\ open' = [open EXCEPT ![r] = {}] /\ lost' = [lost EXCEPT ![r] = FALSE]
        /\ todo' = [todo EXCEPT ![r] = {}] /\ build' = [build EXCEPT ![r] = NoBuild]
        /\ content' = [content EXCEPT ![r] = <<>>] /\ lock' = lock
    BY <1>4 DEF Refuse, Fail, End, Go
  <2>2. pc \in [Run -> Step] /\ open \in [Run -> SUBSET Package] /\ lost \in [Run -> BOOLEAN]
        /\ todo \in [Run -> SUBSET Package] /\ build \in [Run -> Builds \cup {NoBuild}]
        /\ content \in [Run -> Entries]
    BY DEF OneInv, TypeInv, RunInv, OpenInv, EntriesInv
  <2>3. AloneInv' /\ SubInv'
    BY <2>1, <2>2 DEF OneInv, AloneInv, SubInv, Active
  <2>4. ~Done(r)' /\ ~Active(r)' /\ pc'[r] \notin {"copy", "engine_write"}
    BY <2>1, <2>2 DEF Done, Active
  <2>5. \A s \in Run \ {r} : /\ pc'[s] = pc[s] /\ sub'[s] = sub[s] /\ open'[s] = open[s]
                             /\ todo'[s] = todo[s] /\ build'[s] = build[s] /\ content'[s] = content[s]
    BY <2>1, <2>2
  <2>6. InstalledInv'
    BY <2>1, <2>4, <2>5 DEF OneInv, InstalledInv, Done, Active, Copying, Staged
  <2> QED BY <1>1, <2>3, <2>6 DEF OneInv
<1>5. CASE UNCHANGED vars
  BY <1>1, <1>5 DEF OneInv, AloneInv, SubInv, InstalledInv, Done, Active, Copying, Staged, vars, runVars
<1> QED BY <1>2, <1>3, <1>4, <1>5 DEF Next, Ended

\* Of each package the engine accepts, the lock it leaves has the hash, if
\* nobody wrote it meanwhile.
LEMMA EngineVouches ==
  ASSUME OneInv, NEW r \in Run, EngineInit(r), NEW p \in build[r].providers, content[r] = lock.entries
  PROVE  /\ p[1] \in DOMAIN lock'.entries /\ lock'.entries[p[1]].version = p[2]
         /\ H1(p) \in lock'.entries[p[1]].h1
<1>1. Verifies(r, p)
  BY DEF EngineInit
<1>2. CASE p[1] \in DOMAIN content[r]
  <2>1. p[1] \in DOMAIN lock'.entries /\ lock'.entries[p[1]] = content[r][p[1]]
    BY <1>2 DEF EngineInit
  <2> QED BY <1>1, <1>2, <2>1 DEF Verifies
<1>3. CASE p[1] \notin DOMAIN content[r]
  <2>1. p \in Unlocked(r)
    BY <1>3 DEF Unlocked
  <2>2. \A q \in Unlocked(r) : q[1] = p[1] => q = p
    <3>1. build[r] \in Builds \cup {NoBuild}
      BY DEF OneInv, TypeInv, RunInv
    <3>2. \A q \in build[r].providers : q[1] = p[1] => q = p
      BY <3>1, InputsAssumption DEF NoBuild
    <3> QED BY <3>2 DEF Unlocked
  <2> DEFINE N == DOMAIN content[r] \cup {q[1] : q \in Unlocked(r)}
             of(n) == CHOOSE q \in Unlocked(r) : q[1] = n
             new(n) == IF n \in DOMAIN content[r] THEN content[r][n]
                       ELSE [version |-> of(n)[2], h1 |-> {H1(of(n))}]
  <2>3. of(p[1]) = p
    BY <2>1, <2>2
  <2>4. lock'.entries = [n \in N |-> new(n)] /\ p[1] \in N
    BY <2>1 DEF EngineInit
  <2> HIDE DEF of
  <2>5. new(p[1]) = [version |-> p[2], h1 |-> {H1(p)}]
    BY <1>3, <2>3
  <2> HIDE DEF new, N
  <2>6. p[1] \in DOMAIN lock'.entries /\ lock'.entries[p[1]] = new(p[1])
    BY <2>4
  <2> QED BY <2>5, <2>6
<1> QED BY <1>2, <1>3

(***************************************************************************)
(* A run alone that reports success has installed exactly what was built    *)
(* and has a lock that verifies it (runner.go:405-410), for any builds and  *)
(* whatever other builds and stopped runs left in the directory.            *)
(***************************************************************************)
THEOREM InstallSafety == Spec => SuccessInstalls
<1>1. ASSUME OneInv, [Next]_vars, NEW r \in Run, Succeeds(r), ~overlapped
      PROVE  /\ disk'.providers = [p \in build[r].providers |-> "whole"]
             /\ disk'.modules = [p \in build[r].modules |-> "whole"]
             /\ \A p \in build[r].providers :
                  /\ p[1] \in DOMAIN lock'.entries
                  /\ lock'.entries[p[1]].version = p[2]
                  /\ <<p, "whole">> \in lock'.entries[p[1]].h1
  <2>1. EngineInit(r)
    <3>1. pc[r] = "engine_write" /\ pc'[r] = "ended" /\ code'[r] = 0
      BY <1>1 DEF Succeeds
    <3>2. pc \in [Run -> Step] /\ code \in [Run -> {0, 1}]
      BY <1>1 DEF OneInv, TypeInv, RunInv
    <3>3. ASSUME NEW s \in Run, Steps(s) \/ Stop(s) PROVE s = r
      BY <3>1, <3>2, <3>3, StepOthers, <1>1 DEF Others, OneInv
    <3>4. ASSUME End(r, 1) PROVE FALSE
      BY <3>1, <3>2, <3>4 DEF End
    <3>5. Steps(r) \/ Stop(r)
      <4>1. ~(\E s \in Run, b \in Builds, ro \in BOOLEAN : Start(s, b, ro))
        BY <3>1, <3>2 DEF Start, MayStart, Go
      <4>2. ~(\E s \in Run : Refuse(s))
        BY <3>1, <3>2 DEF Refuse, MayStart, Fail, End, Go
      <4>3. ~Ended /\ ~UNCHANGED vars
        BY <3>1 DEF Ended, vars, runVars
      <4> QED BY <1>1, <3>3, <4>1, <4>2, <4>3 DEF Next
    <3> QED BY <3>1, <3>4, <3>5 DEF Steps, Stop, Remove, Create, Fill, FailFill, Copied, KeepLock, CreateLock, WriteLock,
          ReadEntries, ReadContent, SkipPackage, AddHash, FailHash, Hashing, NothingAdded, TruncateLock, RewriteLock,
          Hashed, EngineRead, EngineFails, Fail
  <2>2. pc[r] = "engine_write" /\ disk' = disk
    BY <2>1 DEF EngineInit
  <2>3. /\ disk.providers = [p \in build[r].providers |-> "whole"]
        /\ disk.modules = [p \in build[r].modules |-> "whole"]
        /\ content[r] = lock.entries
    BY <1>1, <2>2 DEF OneInv, InstalledInv, Done, Active, Copying
  <2>4. \A p \in build[r].providers : H1(p) = <<p, "whole">>
    BY <2>3 DEF H1
  <2> QED BY <1>1, <2>1, <2>2, <2>3, <2>4, EngineVouches
<1>2. OneInv /\ [Next]_vars => OneInv'
  BY NextOne
<1> DEFINE Installs ==
      \A r \in Run : Succeeds(r) /\ ~overlapped =>
        /\ disk'.providers = [p \in build[r].providers |-> "whole"]
        /\ disk'.modules = [p \in build[r].modules |-> "whole"]
        /\ \A p \in build[r].providers :
             /\ p[1] \in DOMAIN lock'.entries
             /\ lock'.entries[p[1]].version = p[2]
             /\ <<p, "whole">> \in lock'.entries[p[1]].h1
<1>3. OneInv /\ [Next]_vars => Installs
  BY <1>1
<1> QED BY InitOne, <1>2, <1>3, PTL DEF Spec, SuccessInstalls

===============================================================================
