------------------------ MODULE MCIntegrationDelivery ------------------------
(* Instances of IntegrationDelivery for TLC.                               *)
EXTENDS IntegrationDelivery, TLC

CONSTANTS w1, w2

\* Workers are interchangeable.
Symmetry == Permutations({w1, w2})
=============================================================================
