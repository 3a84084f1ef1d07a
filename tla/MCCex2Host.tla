----------------------------- MODULE MCCex2Host -----------------------------
(* Cex2Host for TLC: correlation ids and workers are interchangeable.        *)
EXTENDS Cex2Host, TLC

Symmetry == Permutations(Correlations) \cup Permutations(Workers)
=============================================================================
