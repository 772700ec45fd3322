------------------------------- MODULE MCIntel -------------------------------
(***************************************************************************)
(* Intel for TLC: one host with git, which the NVD lists between two       *)
(* bounds, and firefox, of which it lists an exact version, all versions,  *)
(* a bound that cannot be read and another product's range.                *)
(***************************************************************************)
EXTENDS Intel, Functions, TLC

V(core, form) == [core |-> core, form |-> form]

MCProductOf == "c-git" :> "git" @@ "c-fox" :> "firefox"

Between(p, start, startInc, end, endInc) ==
  [product |-> p, vulnerable |-> TRUE, exact |-> NoRaw, start |-> start, startInc |-> startInc,
   end |-> end, endInc |-> endInc]

Exactly(p, exact) == [Between(p, NoRaw, TRUE, NoRaw, TRUE) EXCEPT !.exact = exact]

MCNvdOf ==
  "c-git" :> {Between("git", V(<<2>>, "release"), TRUE, V(<<2, 5>>, "release"), FALSE)}
  @@ "c-fox" :> {Exactly("firefox", V(<<9, 1>>, "release")), Between("firefox", NoRaw, TRUE, V(<<1>>, "stub"), TRUE),
                 Between("firefox", NoRaw, TRUE, NoRaw, TRUE),
                 Between("git", V(<<1>>, "release"), TRUE, NoRaw, TRUE)}

MCVersionsOf ==
  "git" :> {V(<<2, 5>>, "pre"), V(<<2, 5, 0>>, "revision"), V(<<2, 0>>, "release"), V(<<2, 5>>, "really")}
  @@ "firefox" :> {V(<<9, 1>>, "revision"), V(<<1>>, "stub")}

Has(p, v) == [agent |-> "a1", product |-> p, raw |-> v]

MCFleets ==
  {{Has("git", V(<<2, 0>>, "release")), Has("firefox", V(<<9, 2>>, "release"))}}

\* The ranges of the code against the order of versions stated apart from it: every version
\* and bound of up to two parts, and every way to include one.
Numbers == {<<x>> : x \in 1..2} \cup {<<x, y>> : x \in 1..2, y \in 0..2}

Bound == {V(core, "release") : core \in Numbers} \cup {NoRaw, V(<<1>>, "stub")}

ASSUME VersionAssumption ==
  \A core \in Numbers, start, end \in Bound, startInc, endInc \in BOOLEAN :
    LET m == Between("git", start, startInc, end, endInc)
        raw == V(core, "revision")
    IN  Bounded(m) => (InRange(Normalize(raw), RangeOf(m)) <=> Affects(m, raw))

\* The order of versions against numbers: a version as one number of three digits, a
\* pre-release just below its release.
Weight(core) == FoldFunction(+, 0, [i \in 1..3 |-> Part(core, i) * (IF i = 1 THEN 100 ELSE IF i = 2 THEN 10 ELSE 1)])

Rank(raw) == 2 * Weight(raw.core) - (IF raw.form = "pre" THEN 1 ELSE 0)

Samples == {V(core, form) : core \in Numbers \cup {<<1, 0, 0>>, <<1, 0, 1>>, <<2, 1, 0>>, <<>>}, form \in {"release", "pre"}}

ASSUME OrderAssumption ==
  \A x, y \in Samples : (Earlier(x, y) <=> Rank(x) < Rank(y)) /\ (Even(x, y) <=> Rank(x) = Rank(y))
=============================================================================
