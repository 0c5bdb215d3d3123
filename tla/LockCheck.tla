------------------------------ MODULE LockCheck ------------------------------
(***************************************************************************)
(* The test that a lock covers what a module tree requires and nothing      *)
(* else (checkProviders of engine/lockcheck/lockcheck.go).  It reads every  *)
(* module directory of the tree's manifest, in whatever order Go ranges     *)
(* over the map, and compares both ways.  It takes a block to use the       *)
(* provider its type begins with; the engine also reads the block's         *)
(* `provider` argument, which the test does not.                            *)
(***************************************************************************)
EXTENDS ProviderLock

CONSTANTS
  Label,      \* local names of providers
  Key,        \* keys of a manifest
  Root,       \* the root module's key
  Builtin,    \* the label `terraform`, of the provider inside the engine
  BuiltinName,\* terraform.io/builtin/terraform
  implied     \* the source of a label nobody declares: hashicorp/<label>

ASSUME LabelsAssumption ==
  Builtin \in Label /\ implied \in [Label -> Source] /\ Root \in Key
  /\ BuiltinName \in [host : Host, source : Source]

\* A resource, data, ephemeral or provider block: the label its type begins
\* with (a provider block's own name), and the label the engine takes, that of
\* its `provider` argument when it has one.
Block == [prefix : Label, provider : Label]

\* What one directory's files say: the name each label is declared under, and
\* the blocks.
Config == [declared : UNION {[L -> Name] : L \in SUBSET Label}, blocks : SUBSET Block]

VARIABLES
  checked,    \* the lock under test
  modules,    \* the manifest with its directories read: key to Config
  todo,       \* the keys not read yet
  required,   \* the names required by the modules read so far
  verdict     \* "ready", "reading", "match", "mismatch" or "error"

checkVars == <<checked, modules, todo, required, verdict>>

-------------------------------------------------------------------------------
\* Every directory of the manifest; without one, the root module alone.
moduleDirs == {Root} \cup DOMAIN modules

sourceOf(c, l) == IF l \in DOMAIN c.declared THEN c.declared[l] ELSE Bare(implied[l])

\* A plausible bug: what is used but not declared is not required.
requiredProvidersDeclared(c) == {canonicalProviderSource(c.declared[l]) : l \in DOMAIN c.declared}

\* What the scanner calls used: the prefixes, and nothing of the arguments.
ParseProviderUsage(c) == {b.prefix : b \in c.blocks}

requiredProviders(c) ==
  {canonicalProviderSource(c.declared[l]) : l \in DOMAIN c.declared}
    \cup {canonicalProviderSource(sourceOf(c, l)) : l \in ParseProviderUsage(c) \ {Builtin}}

\* The lock's names: the host stays when it is not a public one.
lockedSources ==
  {LET p == ReadProviderLock(e)
   IN IF p.RegistryHost \in PublicHost THEN p.Source ELSE At(p.RegistryHost, p.Source.source) :
     e \in {checked[n] : n \in 1..Len(checked)}}

StartCheck ==
  /\ verdict = "ready"
  /\ verdict' = "reading" /\ todo' = moduleDirs
  /\ UNCHANGED <<checked, modules, required>>

\* A plausible bug: a module's requirements replace those read before it.
CheckModuleAlone(key) ==
  /\ verdict = "reading" /\ key \in todo
  /\ todo' = todo \ {key}
  /\ required' = requiredProviders(modules[key])
  /\ UNCHANGED <<checked, modules, verdict>>

CheckModule(key) ==
  /\ verdict = "reading" /\ key \in todo
  /\ todo' = todo \ {key}
  /\ required' = required \cup requiredProviders(modules[key])
  /\ UNCHANGED <<checked, modules, verdict>>

\* The manifest, a directory or a file of it cannot be read: exit code 2.
CheckFails ==
  /\ verdict = "reading" /\ verdict' = "error"
  /\ UNCHANGED <<checked, modules, todo, required>>

Report ==
  /\ verdict = "reading" /\ todo = {}
  /\ verdict' = IF required = lockedSources THEN "match" ELSE "mismatch"
  /\ UNCHANGED <<checked, modules, todo, required>>

CheckNext == StartCheck \/ CheckFails \/ Report \/ \E key \in Key : CheckModule(key)

-------------------------------------------------------------------------------
(***************************************************************************)
(* What the engine requires (external): an address for every label that is  *)
(* declared or that a block takes, save the provider it has inside.         *)
(***************************************************************************)
taken(c) == {b.provider : b \in c.blocks}

Needs(c) == {sourceOf(c, l) : l \in DOMAIN c.declared \cup (taken(c) \ {Builtin})} \ {BuiltinName}

Needed == UNION {Needs(modules[k]) : k \in moduleDirs}

DeclaresBuiltin == \E k \in moduleDirs, l \in Label :
  l \in DOMAIN modules[k].declared /\ modules[k].declared[l] = BuiltinName

\* Labels of one directory that the test does not see (named by an argument and
\* nowhere else), and labels it sees that no block takes.
overlooked(c) == taken(c) \ (ParseProviderUsage(c) \cup DOMAIN c.declared \cup {Builtin})
guessed(c) == ParseProviderUsage(c) \ (taken(c) \cup DOMAIN c.declared \cup {Builtin})

Overlooks == \E k \in moduleDirs : overlooked(modules[k]) # {}
Guesses == \E k \in moduleDirs : guessed(modules[k]) # {}

neededSources == {canonicalProviderSource(n) : n \in Needed}
entrySources == {canonicalProviderSource(At(checked[n].host, checked[n].source)) : n \in 1..Len(checked)}

\* A lock the check accepts has an entry for every provider the engine requires
\* for some module of the tree, unless a module names one in a `provider`
\* argument alone; it has no other entry, unless a prefix is guessed wrong; and
\* where neither is so, the lock with just those entries is accepted, whichever
\* of the two engines spelled the public addresses and in whatever order the
\* modules are read.  (It refuses every tree that declares the built-in
\* provider.)
CheckIsExact ==
  verdict \in {"match", "mismatch"} /\ ~DeclaresBuiltin =>
    /\ verdict = "match" /\ ~Overlooks => neededSources \subseteq entrySources
    /\ verdict = "match" /\ ~Guesses => entrySources \subseteq neededSources
    /\ ~Overlooks /\ ~Guesses /\ neededSources = entrySources => verdict = "match"
===============================================================================
