--------------------------- MODULE BranchContract ---------------------------
(***************************************************************************)
(* What source_control promises for the branch of a work item: the commit  *)
(* is chosen once, before anything is created; the branch is created once; *)
(* there is one verdict, and success only of a branch that exists; the     *)
(* work item is bound only after success, and then for good.               *)
(***************************************************************************)
CONSTANTS Commits, NoCommit

VARIABLES
  plan,     \* the commit the branch is to start at
  created,  \* the branch exists
  verdict,  \* OPEN, SUCCEEDED or BLOCKED
  shown     \* what the work item shows

contract == <<plan, created, verdict, shown>>

Init ==
  /\ plan = NoCommit /\ created = FALSE
  /\ verdict = "OPEN" /\ shown = "WAITING"

Choose ==
  /\ plan = NoCommit /\ plan' \in Commits
  /\ UNCHANGED <<created, verdict, shown>>

\* A request may arrive after the verdict.
Create ==
  /\ plan # NoCommit /\ ~created /\ created' = TRUE
  /\ UNCHANGED <<plan, verdict, shown>>

Prove ==
  /\ verdict = "OPEN" /\ created /\ verdict' = "SUCCEEDED"
  /\ UNCHANGED <<plan, created, shown>>

Refuse ==
  /\ verdict = "OPEN" /\ plan # NoCommit /\ verdict' = "BLOCKED"
  /\ UNCHANGED <<plan, created, shown>>

Bind ==
  /\ verdict = "SUCCEEDED" /\ shown # "BOUND" /\ shown' = "BOUND"
  /\ UNCHANGED <<plan, created, verdict>>

Hinder ==
  /\ shown = "WAITING" /\ shown' = "BLOCKED"
  /\ UNCHANGED <<plan, created, verdict>>

Reopen ==
  /\ shown = "BLOCKED" /\ shown' = "WAITING"
  /\ UNCHANGED <<plan, created, verdict>>

Next ==
  Choose \/ Create \/ Prove \/ Refuse \/ Bind \/ Hinder \/ Reopen

Spec == Init /\ [][Next]_contract
=============================================================================
