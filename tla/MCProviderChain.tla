--------------------------- MODULE MCProviderChain ---------------------------
(***************************************************************************)
(* Small instances of ProviderChain.  OpenTofu runs; the locks name its     *)
(* registry, Terraform's, a private one spelled `registry.` and one that is *)
(* not; two sources share a hub package; the trees have up to three         *)
(* modules.                                                                 *)
(***************************************************************************)
EXTENDS ProviderChain, TLC

CONSTANTS release, source_lock   \* h1: hashes; they stand for themselves

tf == "registry.terraform.io"
tofu == "registry.opentofu.org"
corp == "registry.corp.io"
app == "app.terraform.io"

MCHost == {tf, tofu, corp, app, "terraform.io"}
MCRegistryHost == {tf, tofu, corp}
MCPublicHost == {tf, tofu}

null == "hashicorp/null"
a_b == "acme/a_b"
a__b == "acme/a-b"

MCSource == {null, a_b, a__b, "hashicorp/ab", "hashicorp/terraform", "builtin/terraform"}
MCsubpackage == [s \in MCSource |-> IF s = a__b THEN a_b ELSE s]

MCLabel == {"null", "ab", "terraform"}
MCimplied == [null |-> null, ab |-> "hashicorp/ab", terraform |-> "hashicorp/terraform"]
MCBuiltinName == At("terraform.io", "builtin/terraform")
MCKey == {"", "net", "net.dns"}

E(h, s) == [host |-> h, source |-> s, version |-> "1", h1 |-> {release}]
Unhashed == [E(tofu, null) EXCEPT !.h1 = {}]
Older == [E(tofu, null) EXCEPT !.version = "0.9", !.h1 = {source_lock}]

MCLocks ==
  {<<>>, <<E(tofu, null)>>, <<E(tf, null)>>, <<Unhashed>>,
   <<E(tofu, null), E(corp, a__b)>>, <<E(app, a__b), E(tofu, null)>>,
   <<E(tofu, a__b), E(tofu, a_b)>>, <<Older, E(corp, null)>>, <<E(tf, null), E(tofu, null)>>,
   <<E(tofu, null), E(tofu, "hashicorp/ab")>>}

Built(s, v, f) == [from |-> "here", source |-> s, version |-> v, platform |-> "linux", files |-> f]

T(h, s, l) == [hubs |-> h, singles |-> s, lock |-> l]

MCTargets ==
  {T(<<l>>, <<>>, NoLock) : l \in MCLocks}
    \cup {T(<<<<E(tofu, null), E(corp, a__b)>>>>, <<Built(null, "2", "binary")>>, <<Older>>),
          T(<<<<E(tofu, null)>>>>, <<Built(a_b, "2", "binary")>>, NoLock),
          T(<<<<E(tofu, null)>>, <<E(tofu, a_b)>>>>, <<>>, NoLock),
          T(<<>>, <<>>, NoLock), T(<<>>, <<Built(null, "2", "binary")>>, NoLock),
          T(<<>>, <<Built(null, "2", "binary"), Built(null, "1", "binary"), Built(a_b, "1", "none")>>,
            <<E(tofu, null)>>),
          T(<<>>, <<Built(null, "", "binary")>>, <<E(tofu, null)>>),
          T(<<>>, <<Built(null, "1", "other")>>, <<E(tofu, null)>>)}

\* Blocks that take the label their type begins with, and one that does not.
Blocks(u) == {[prefix |-> l, provider |-> l] : l \in u}
Through(p, l) == [prefix |-> p, provider |-> l]
Uses(u) == [declared |-> <<>>, blocks |-> Blocks(u)]
Declares(l, n, u) == [declared |-> l :> n, blocks |-> Blocks(u)]

MCTrees ==
  {"" :> Uses({}), "" :> Uses({"null", "terraform"}),
   "" :> Uses({"null"}) @@ "net" :> Declares("ab", At(corp, a__b), {"ab"}),
   "" :> Uses({}) @@ "net" :> Uses({"null"}) @@ "net.dns" :> Declares("ab", Bare(a_b), {}),
   "" :> Declares("null", At(tofu, null), {"null"}) @@ "net" :> Declares("null", At(corp, null), {"null"}),
   "" :> Declares("null", At(tf, null), {}) @@ "net" :> Declares("ab", At(app, a__b), {"ab", "null"}),
   "" :> Declares("terraform", MCBuiltinName, {"terraform", "null"}),
   "" :> Declares("ab", Bare(a__b), {"ab"}) @@ "net" :> Declares("ab", Bare(a_b), {"ab"}),
   "" :> [declared |-> "ab" :> Bare(null), blocks |-> {Through("null", "ab"), Through("ab", "terraform")}],
   "" :> [declared |-> "null" :> Bare(null), blocks |-> {Through("ab", "null")}],
   "" :> [declared |-> <<>>, blocks |-> Blocks({"null"}) \cup {Through("null", "ab")}],
   "" :> Uses({}) @@ "net" :> [declared |-> <<>>, blocks |-> {Through("null", "ab")}]}

MCVersion == {"", "0.0.0", "0.9", "1", "2"}
===============================================================================
