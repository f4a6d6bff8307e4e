--------------------------- MODULE MCBranchBinding ---------------------------
(* Instances of BranchBinding for TLC.                                     *)
EXTENDS BranchBinding, TLC

CONSTANTS w1, w2, m1, m2, c1, c2

\* Workers, messages and commits are interchangeable.
Symmetry == Permutations({w1, w2}) \cup Permutations({m1, m2}) \cup Permutations({c1, c2})

\* A refusal a new owner lifts, and one that leaves the reconciler in doubt.
OneRefusal == {"OWNER_INELIGIBLE"}
TwoRefusals == {"OWNER_INELIGIBLE", "CONNECTOR_UNAVAILABLE"}
=============================================================================
