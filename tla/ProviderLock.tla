----------------------------- MODULE ProviderLock -----------------------------
(***************************************************************************)
(* A provider lock file (.terraform.lock.hcl) and the names its readers     *)
(* give a provider.  The lock writes an address: a host and a source        *)
(* (`<namespace>/<name>`).  Three readers take it apart: parse_lock_file    *)
(* (engine/lock_hcl.bzl) for the hubs, ReadProviderLock (lockparse.go) for  *)
(* the init tool and the check, and registryPrefixRE (init.go) for the      *)
(* rewrite of the hashes.                                                   *)
(***************************************************************************)
EXTENDS Naturals, Sequences, FiniteSets

CONSTANTS
  Host,          \* every host a lock or a configuration may name
  RegistryHost,  \* the ones spelled `registry.<...>`
  PublicHost,    \* registry.terraform.io and registry.opentofu.org
  DefaultHost,   \* registry.terraform.io
  NoHost,        \* stands where a name has no host
  Source,        \* `<namespace>/<name>`
  Version,       \* provider versions
  Hash           \* the h1: hashes a lock may list

ASSUME HostsAssumption ==
  /\ PublicHost \subseteq RegistryHost /\ RegistryHost \subseteq Host
  /\ DefaultHost \in PublicHost /\ NoHost \notin Host

\* An entry of the lock.  Its zh: hashes are the extension's subject.
Entry == [host : Host, source : Source, version : Version, h1 : SUBSET Hash]

\* A provider as a name: `hashicorp/null`, or `<host>/hashicorp/null`.
Name == [host : Host \cup {NoHost}, source : Source]

Bare(s) == [host |-> NoHost, source |-> s]

At(h, s) == [host |-> h, source |-> s]

\* The Starlark reader: the host is split off whatever it is, and kept when
\* it is not a public one.
parse_lock_file(e) == At(IF e.host \in PublicHost THEN NoHost ELSE e.host, e.source)

\* A plausible bug: the Starlark reader's rule, any host is stripped.
registryPrefixREAny(e) == Bare(e.source)

\* What is left of the address without its `registry.<...>/` prefix.
registryPrefixRE(e) == IF e.host \in RegistryHost THEN Bare(e.source) ELSE At(e.host, e.source)

\* The Go reader: only `registry.<...>` is a host; any other stays in the
\* source, under the default host.
ReadProviderLock(e) ==
  [Source |-> registryPrefixRE(e),
   RegistryHost |-> IF e.host \in RegistryHost THEN e.host ELSE DefaultHost]

\* A name without a host, if the host is a public registry's.
canonicalProviderSource(n) == IF n.host \in PublicHost THEN Bare(n.source) ELSE n
===============================================================================
