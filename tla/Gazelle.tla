------------------------------- MODULE Gazelle -------------------------------
(***************************************************************************)
(* The Gazelle language (engine/gazelle): which rules a directory of        *)
(* configuration gets from each engine's language, which of the rules       *)
(* already there are stale, and which targets a module depends on, over a   *)
(* repository that is edited between runs.  Gazelle itself - merging rules  *)
(* into a BUILD file, its index of rules, writing the files one by one - is *)
(* external.  `srcs`, `data` and `visibility`, sources that leave the       *)
(* repository, and the engine's own directories, which get no rule, are     *)
(* left out.                                                                *)
(***************************************************************************)
EXTENDS Naturals, Sequences

CONSTANTS
  Dir, Top,      \* the directories, and the one that is the repository
  up,            \* each directory's way to the top, itself first
  Engine,        \* "terraform" and "tofu"
  Loaded,        \* the languages the gazelle_binary has
  Name, base,    \* what rules may be called; the name of a directory
  Hub, defaultHub, \* hubs; `tf_<path>`
  Unset,         \* a directive that is not there
  Files,         \* what a directory may hold
  Repositories, Builds, \* what is there at first
  MaxEdits, MaxRuns     \* bounds: edits, runs

Kind == {"module", "binary", "updater", "test"}

\* A rule of a BUILD file; `deps` are the modules and hubs it names.
Rule == [engine : Engine, kind : Kind, name : Name, deps : SUBSET ([dir : Dir, name : Name] \cup Hub)]

IsFiles(f) ==
  /\ f.sources \subseteq {"tf", "tofu"} /\ f.backend \in BOOLEAN /\ f.lock \in BOOLEAN /\ f.calls \subseteq Dir
  /\ f.engine \in Engine \cup {Unset} /\ f.kind \in {"auto", "root", "module", Unset}
  /\ f.hubs = Unset \/ f.hubs \subseteq Hub

LockNames == {"providers_lock", "providers_lock.update"}

ASSUME GazelleAssumption ==
  /\ Top \in Dir /\ "." \notin Dir /\ Loaded \subseteq Engine /\ {"terraform", "tofu"} \subseteq Engine
  /\ \A d \in Dir : up[d] \in Seq(Dir) /\ base[d] \in Name /\ defaultHub[d] \in Hub
  /\ Engine \cup LockNames \subseteq Name /\ Engine \cap LockNames = {}
  /\ \A h \in Hub : h \notin [dir : Dir, name : Name]
  /\ \A f \in Files : IsFiles(f)
  /\ \A r \in Repositories : r \in [Dir -> Files]
  /\ \A b \in Builds : b \in [Dir -> SUBSET Rule] /\ \A d \in Dir : \A r, s \in b[d] : r.name = s.name => r = s

VARIABLES
  repo,      \* the configuration, locks and directives of each directory
  build,     \* the BUILD files
  pc,        \* "idle", "generate" or "write"
  update,    \* the directories this run updates
  todo,      \* those of them not dealt with
  work,      \* the rules in memory, with those this run generated
  current,   \* whether a run has updated everything since the last edit
  edits, runs

vars == <<repo, build, pc, update, todo, work, current, edits, runs>>

-------------------------------------------------------------------------------
\* What a directive is set to: here or at the nearest directory above.
inherited(d, field) ==
  LET set == {n \in 1..Len(up[d]) : repo[up[d][n]][field] # Unset}
  IN IF set = {} THEN Unset ELSE repo[up[d][CHOOSE n \in set : \A o \in set : n <= o]][field]

Configure(d) == [field \in {"engine", "kind", "hubs"} |-> inherited(d, field)]

owner(d) ==
  IF Configure(d).engine # Unset THEN Configure(d).engine
  ELSE IF "tofu" \in repo[d].sources THEN "tofu" ELSE "terraform"

\* OpenTofu loads `.tf` files too.
srcs(e, d) == IF e = "tofu" THEN repo[d].sources ELSE repo[d].sources \cap {"tf"}

kindOf(d) ==
  IF Configure(d).kind \in {"root", "module"} THEN Configure(d).kind
  ELSE IF repo[d].backend THEN "root" ELSE "module"

moduleName(d) == base[d]

nameOf(e, k, d) ==
  CASE k = "module" -> moduleName(d) [] k = "binary" -> e
    [] k = "updater" -> "providers_lock.update" [] k = "test" -> "providers_lock"

\* A rule a loaded language writes or deletes.
IsGenerated(d, r) == r.engine \in Loaded /\ r.name = nameOf(r.engine, r.kind, d)

Owns(e, d) == srcs(e, d) # {} /\ owner(d) = e

\* The kinds of rules one language generates for a directory.
produced(e, d) ==
  IF ~Owns(e, d) THEN {}
  ELSE {k \in Kind :
          \/ k = "module"
          \/ k = "binary" /\ kindOf(d) = "root"
          \/ k = "test" /\ repo[d].lock
          \/ k = "updater" /\ (repo[d].lock \/ kindOf(d) = "root")}

\* A plausible bug: a directory a language does not own is left as it is.
emptyOwned(e, d) == IF Owns(e, d) THEN Kind \ produced(e, d) ELSE {}

\* The rules that are stale if they exist.
empty(e, d) == Kind \ produced(e, d)

\* Gazelle's merge: stale rules go, generated ones that are missing come, but
\* for one whose name a rule of another kind has.
GenerateRules(d, old) ==
  LET kept == {r \in old : IsGenerated(d, r) => r.kind \notin empty(r.engine, d)}
      new == {[engine |-> e, kind |-> k, name |-> nameOf(e, k, d), deps |-> {}] : e \in Loaded, k \in Kind}
  IN kept \cup {r \in new : r.kind \in produced(r.engine, d) /\ \A o \in kept : o.name # r.name}

hubsOf(d) ==
  IF Configure(d).hubs # Unset THEN Configure(d).hubs
  ELSE IF kindOf(d) = "root" /\ repo[d].lock THEN {defaultHub[d]} ELSE {}

\* The path of a directory as a local source gives it: the top is ".".
Cleaned(d) == IF d = Top THEN "." ELSE d

\* A plausible bug: the index has the rules of the BUILD files as they were.
suppliersBefore(e, path) ==
  UNION {{[dir |-> d, name |-> r.name] : r \in {r \in build[d] : r.engine = e /\ r.kind = "module"}} :
           d \in {d \in Dir : d = path}}

\* The module rules of one engine registered under a path (Imports); the top
\* is registered as "".
suppliers(e, path) ==
  UNION {{[dir |-> d, name |-> r.name] : r \in {r \in work[d] : r.engine = e /\ r.kind = "module"}} :
           d \in {d \in Dir : d = path}}

Single(s) == \E m \in s : s = {m}

\* A path that none or several targets supply is reported and left out.
Resolve(e, d) ==
  (UNION {s \in {suppliers(e, Cleaned(c)) : c \in repo[d].calls} : Single(s)}) \cup hubsOf(d)

-------------------------------------------------------------------------------
Init ==
  /\ repo \in Repositories /\ build \in Builds
  /\ pc = "idle" /\ update = {} /\ todo = {} /\ work = build
  /\ current = FALSE /\ edits = 0 /\ runs = 0

Edit(d, f) ==
  /\ pc = "idle" /\ edits < MaxEdits /\ repo[d] # f
  /\ repo' = [repo EXCEPT ![d] = f]
  /\ current' = FALSE /\ edits' = edits + 1
  /\ UNCHANGED <<build, pc, update, todo, work, runs>>

\* A run over the whole repository, or over some directories of it.
Run(ds) ==
  /\ pc = "idle" /\ runs < MaxRuns
  /\ pc' = "generate" /\ update' = ds /\ todo' = ds /\ work' = build
  /\ runs' = runs + 1
  /\ UNCHANGED <<repo, build, current, edits>>

Generate(d) ==
  /\ pc = "generate" /\ d \in todo
  /\ work' = [work EXCEPT ![d] = GenerateRules(d, @)]
  /\ todo' = todo \ {d}
  /\ UNCHANGED <<repo, build, pc, update, current, edits, runs>>

Generated ==
  /\ pc = "generate" /\ todo = {}
  /\ pc' = "write" /\ todo' = update
  /\ UNCHANGED <<repo, build, update, work, current, edits, runs>>

\* The rules this run generated are resolved, and the file is written.
Write(d) ==
  /\ pc = "write" /\ d \in todo
  /\ build' = [build EXCEPT ![d] =
       {IF r.kind = "module" /\ IsGenerated(d, r) /\ Owns(r.engine, d)
        THEN [r EXCEPT !.deps = Resolve(r.engine, d)] ELSE r : r \in work[d]}]
  /\ todo' = todo \ {d}
  /\ UNCHANGED <<repo, pc, update, work, current, edits, runs>>

Finish ==
  /\ pc = "write" /\ todo = {}
  /\ pc' = "idle" /\ work' = build
  /\ current' = (current \/ update = Dir)
  /\ UNCHANGED <<repo, build, update, todo, edits, runs>>

\* The run is stopped: some files are written.
Stop ==
  /\ pc # "idle"
  /\ pc' = "idle" /\ todo' = {} /\ work' = build
  /\ UNCHANGED <<repo, build, update, current, edits, runs>>

Over == pc = "idle" /\ runs = MaxRuns /\ UNCHANGED vars

Next ==
  \/ \E d \in Dir, f \in Files : Edit(d, f)
  \/ \E ds \in {Dir} \cup {{d} : d \in Dir} : Run(ds)
  \/ \E d \in todo : Generate(d) \/ Write(d)
  \/ Generated \/ Finish \/ Stop \/ Over

Spec == Init /\ [][Next]_vars

-------------------------------------------------------------------------------
Same(a, b) == a.engine = b.engine /\ a.kind = b.kind /\ a.name = b.name

\* Rules no loaded language ever writes: no run touches them.
ByHand(d, rs) == {r \in rs : ~IsGenerated(d, r)}

\* No directory is called what a generated target of another kind is called.
NamesApart == \A d \in Dir : base[d] \notin Engine \cup LockNames

\* Once a run has updated everything, the rules of a directory are those a
\* run over a repository without BUILD files would write, and what was there
\* by hand: no edit, engine switch, run over a part or run that was stopped
\* leaves a stale rule of either engine behind, or keeps a new one away.
FromScratch ==
  current /\ pc = "idle" =>
    \A d \in Dir :
      LET fresh == GenerateRules(d, ByHand(d, build[d]))
      IN /\ \A r \in build[d] : \E s \in fresh : Same(r, s)
         /\ \A s \in fresh : \E r \in build[d] : Same(r, s)

\* Then, too, each module depends on exactly the modules its local sources
\* name, wherever one target of its engine supplies the directory, and on no
\* target that is gone.
DepsFollowCalls ==
  current /\ pc = "idle" =>
    \A d \in Dir, r \in UNION {build[x] : x \in Dir} :
      r \in build[d] /\ r.kind = "module" /\ IsGenerated(d, r) /\ Owns(r.engine, d) =>
        \A c \in Dir \ {Top} :
          LET targets == {m \in build[c] : m.engine = r.engine /\ m.kind = "module"}
          IN {l \in r.deps \ Hub : l.dir = c} =
               IF c \in repo[d].calls /\ Single(targets)
               THEN {[dir |-> c, name |-> m.name] : m \in targets} ELSE {}
===============================================================================
