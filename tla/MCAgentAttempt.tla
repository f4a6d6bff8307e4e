---------------------------- MODULE MCAgentAttempt ----------------------------
(* Instances of AgentAttempt for TLC.                                      *)
EXTENDS AgentAttempt, TLC

CONSTANTS w1, w2

Symmetry == Permutations({w1, w2})
=============================================================================
