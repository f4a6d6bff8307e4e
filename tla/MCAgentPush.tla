----------------------------- MODULE MCAgentPush -----------------------------
(* Instances of AgentPush for TLC.                                         *)
EXTENDS AgentPush, TLC

CONSTANTS p1, a1, b1, c0, c1

Ask(a, g, b, from, to) == [attempt |-> a, gen |-> g, branch |-> b, from |-> from, to |-> to]

\* One push, of the second generation of its attempt.
OnePush == p1 :> Ask(a1, 2, b1, c0, c1)

AtFirst == [b \in Branches |-> c0]
=============================================================================
