--------------------------- MODULE AttemptContract ---------------------------
(***************************************************************************)
(* What an agent run promises: it works generation after generation, each  *)
(* started or resumed by a command of its own, until it ends for good; a   *)
(* command takes effect at most once, only after it was decided on, and    *)
(* what is recorded of it is what became of it.                            *)
(***************************************************************************)
EXTENDS Naturals

VARIABLES
  phase,    \* of the run
  gen,      \* its generation
  owed,     \* the commands decided on
  done,     \* what became of those the orchestrator took up, by key
  settled   \* what is recorded of them, by key

\* The function f, which is not defined at k, with the value v there.
Adding(f, k, v) == [x \in DOMAIN f \cup {k} |-> IF x = k THEN v ELSE f[x]]

contract == <<phase, gen, owed, done, settled>>

Init ==
  /\ phase = "none" /\ gen = 0
  /\ owed = {} /\ done = <<>> /\ settled = <<>>

Begin ==
  /\ phase = "none" /\ phase' = "active"
  /\ gen' = 1 /\ owed' = {<<"START", 1>>}
  /\ UNCHANGED <<done, settled>>

Wait ==
  /\ phase = "active" /\ phase' = "waiting"
  /\ UNCHANGED <<gen, owed, done, settled>>

Resume ==
  /\ phase = "waiting" /\ phase' = "active"
  /\ gen' = gen + 1 /\ owed' = owed \cup {<<"RESUME", gen'>>}
  /\ UNCHANGED <<done, settled>>

Cancel ==
  /\ phase \in {"active", "waiting"} /\ phase' = "canceling"
  /\ owed' = owed \cup {<<"CANCEL", gen>>}
  /\ UNCHANGED <<gen, done, settled>>

End ==
  /\ phase \in {"active", "canceling"} /\ phase' = "ended"
  /\ UNCHANGED <<gen, owed, done, settled>>

Effect ==
  /\ \E k \in owed \ DOMAIN done, o \in {"ACCEPTED", "REJECTED"} : done' = Adding(done, k, o)
  /\ UNCHANGED <<phase, gen, owed, settled>>

Settle ==
  /\ \E k \in DOMAIN done \ DOMAIN settled : settled' = Adding(settled, k, done[k])
  /\ UNCHANGED <<phase, gen, owed, done>>

Next == Begin \/ Wait \/ Resume \/ Cancel \/ End \/ Effect \/ Settle

Spec == Init /\ [][Next]_contract
=============================================================================
