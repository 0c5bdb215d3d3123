-------------------------------- MODULE Semver --------------------------------
(***************************************************************************)
(* Semantic versions and Terraform's version constraints, as the Go         *)
(* package engine/internal/semver and its Starlark port engine/semver.bzl   *)
(* compute them.  The two differ in one thing: an integer is 64 bits wide   *)
(* in Go and has no bound in Starlark, so every operator takes the port.    *)
(*                                                                         *)
(* A prerelease is the sequence of its dot-separated identifiers, <<>> for  *)
(* a release.  An identifier is what the order looks at: whether it is all  *)
(* digits, its value if so, and its place among all strings.                *)
(***************************************************************************)
EXTENDS Integers, Sequences

CONSTANT MaxInt   \* the largest int of the Go tools

ASSUME MaxIntAssumption == MaxInt \in Nat

Ports == {"go", "starlark"}

Ident == [digits : BOOLEAN, value : Nat, text : Nat]

\* `segments` is how many numbers were written, which `~>` looks at.
Version == [major : Nat, minor : Nat, patch : Nat, pre : Seq(Ident), segments : 1..3]

Ops == {">=", "<=", "~>", "!=", ">", "<", "="}

Constraint == [op : Ops, version : Version]

-------------------------------------------------------------------------------
CmpInt(a, b) == IF a < b THEN -1 ELSE IF a > b THEN 1 ELSE 0

IsNum(port, x) == x.digits /\ (port = "go" => x.value <= MaxInt)

\* (Mutant of CompareIdent: a number against a name is left undecided.)
CompareIdentMixed(port, a, b) ==
  IF IsNum(port, a) = IsNum(port, b)
  THEN IF IsNum(port, a) THEN CmpInt(a.value, b.value) ELSE CmpInt(a.text, b.text)
  ELSE 0

CompareIdent(port, a, b) ==
  IF IsNum(port, a) = IsNum(port, b)
  THEN IF IsNum(port, a) THEN CmpInt(a.value, b.value) ELSE CmpInt(a.text, b.text)
  ELSE IF IsNum(port, a) THEN -1 ELSE 1

\* Identifier n is the first one in which the prereleases differ, by c.
FirstDiffer(port, a, b, n, c) ==
  /\ n <= Len(a) /\ n <= Len(b)
  /\ CompareIdent(port, a[n], b[n]) = c
  /\ \A k \in 1..n-1 : CompareIdent(port, a[k], b[k]) = 0

ComparePre(port, a, b) ==
  IF a = b THEN 0
  ELSE IF a = <<>> THEN 1
  ELSE IF b = <<>> THEN -1
  ELSE IF \E n \in 1..Len(a) : FirstDiffer(port, a, b, n, -1) THEN -1
  ELSE IF \E n \in 1..Len(a) : FirstDiffer(port, a, b, n, 1) THEN 1
  ELSE CmpInt(Len(a), Len(b))

Compare(port, a, b) ==
  IF a.major # b.major THEN CmpInt(a.major, b.major)
  ELSE IF a.minor # b.minor THEN CmpInt(a.minor, b.minor)
  ELSE IF a.patch # b.patch THEN CmpInt(a.patch, b.patch)
  ELSE ComparePre(port, a.pre, b.pre)

\* The segments but the rightmost written one agree.
SameSeries(base, v) ==
  /\ base.segments >= 2 => v.major = base.major
  /\ base.segments = 3 => v.minor = base.minor

\* (Mutant of CheckOne: `~>` compares the minor alone.)
CheckOneSeriesSplit(port, c, v) ==
  LET cmp == Compare(port, v, c.version)
  IN  CASE c.op = "="  -> cmp = 0
        [] c.op = "!=" -> cmp # 0
        [] c.op = ">"  -> cmp > 0
        [] c.op = ">=" -> cmp >= 0
        [] c.op = "<"  -> cmp < 0
        [] c.op = "<=" -> cmp <= 0
        [] c.op = "~>" -> cmp >= 0 /\ v.minor = c.version.minor

CheckOne(port, c, v) ==
  LET cmp == Compare(port, v, c.version)
  IN  CASE c.op = "="  -> cmp = 0
        [] c.op = "!=" -> cmp # 0
        [] c.op = ">"  -> cmp > 0
        [] c.op = ">=" -> cmp >= 0
        [] c.op = "<"  -> cmp < 0
        [] c.op = "<=" -> cmp <= 0
        [] c.op = "~>" -> cmp >= 0 /\ SameSeries(c.version, v)

\* A version satisfies every clause; an empty list matches anything.
Check(port, constraints, v) ==
  \A n \in 1..Len(constraints) : CheckOne(port, constraints[n], v)

===============================================================================
