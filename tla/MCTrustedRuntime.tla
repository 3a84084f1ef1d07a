-------------------------- MODULE MCTrustedRuntime --------------------------
(* TrustedRuntime for TLC: three mods, of which two match the same           *)
(* instruction and one has no shutdown handler.                              *)
EXTENDS TrustedRuntime, TLC

CONSTANTS m1, m2, m3

ThreeMods == {m1, m2, m3}
TwoSites == (m1 :> "a") @@ (m2 :> "a") @@ (m3 :> "b")
Symmetry == Permutations(Cores) \cup Permutations(Unloaders)
=============================================================================
