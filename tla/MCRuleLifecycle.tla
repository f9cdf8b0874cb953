--------------------------- MODULE MCRuleLifecycle --------------------------
(* Small instances of RuleLifecycle for TLC.                               *)
EXTENDS RuleLifecycleProps, TLC

CONSTANTS s1, s2

Sent(enabled, deps, compiles, scoped, name) ==
  [enabled |-> enabled, deps |-> deps, compiles |-> compiles, scoped |-> scoped,
   name |-> name]

(* Two good versions that depend on different streams, a disabled one, one *)
(* that does not compile, one without a scope, and one that is disabled    *)
(* and does not compile.                                                   *)
Old == Sent(TRUE, {s1}, TRUE, TRUE, "old")
New == Sent(TRUE, {s2}, TRUE, TRUE, "new")
Off == Sent(FALSE, {s1}, TRUE, TRUE, "new")
Bad == Sent(TRUE, {s1}, FALSE, TRUE, "new")
Bare == Sent(TRUE, {s1}, TRUE, FALSE, "new")
OffBad == Sent(FALSE, {s1}, FALSE, TRUE, "new")

AllBodies == {Old, New, Off, Bad, Bare, OffBad}
GoodBodies == {Old, New}

(* A new version that depends on the same streams.                         *)
Renamed == {Old, Sent(TRUE, {s1}, TRUE, TRUE, "new")}

Symmetry == Permutations(Clients) \union Permutations(Rules)

=============================================================================
