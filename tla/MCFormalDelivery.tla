--------------------------- MODULE MCFormalDelivery ---------------------------
(* Instances of FormalDelivery for TLC.                                    *)
EXTENDS FormalDelivery, TLC

CONSTANTS w1, w2, i1, i2

\* Workers are interchangeable, and so are work items.
Symmetry == Permutations({w1, w2}) \cup Permutations({i1, i2})
=============================================================================
