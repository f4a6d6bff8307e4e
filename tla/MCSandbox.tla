----------------------------- MODULE MCSandbox -----------------------------
(* Instances of Sandbox for TLC: which commands the callers may issue.     *)
EXTENDS Sandbox, TLC

CONSTANTS e1, e2, s1, s2, p1, p2, w1, rel, fin, can, tmo, rec, hand

Symmetry == Permutations({s1, s2})

\* The snapshot in force and a successor that admits nothing.
Generous == [enabled |-> TRUE, limit |-> 1, units |-> 2]
Tight    == [enabled |-> TRUE, limit |-> 2, units |-> 1]
Disabled == [enabled |-> FALSE, limit |-> 1, units |-> 1]

OnePolicy == {Generous}
ThreePolicies == {Generous, Tight, Disabled}

OneExecution(commands) == [c \in commands |-> e1]

\* Provisioning, cancellation and reconciliation of one materialization.
RecoveryCommands == {p1, can, rec}
RecoveryOp == p1 :> "provision" @@ can :> "cancel" @@ rec :> "reconcile"
RecoveryTarget == OneExecution(RecoveryCommands)

\* With a second provision of the execution: generations follow one another.
ReissueCommands == {p1, p2, can, rec}
ReissueOp == p2 :> "provision" @@ RecoveryOp
ReissueTarget == OneExecution(ReissueCommands)

\* The guarded operations race with each other and with a timeout, while a second
\* execution competes for the ledger.
GuardCommands == {p1, p2, w1, rel, tmo}
GuardOp ==
  p1 :> "provision" @@ p2 :> "provision" @@ w1 :> "preview" @@ rel :> "release"
    @@ tmo :> "timeout"
GuardTarget == p2 :> e2 @@ OneExecution(GuardCommands)

\* One materialization is provisioned, handed off, finalized and reconciled.
CompletionCommands == {p1, fin, hand, rec}
CompletionOp ==
  p1 :> "provision" @@ fin :> "finalize" @@ hand :> "handoff" @@ rec :> "reconcile"
CompletionTarget == OneExecution(CompletionCommands)
=============================================================================
