---------------------------- MODULE PushContract ----------------------------
(***************************************************************************)
(* What the delivery of agents' pushes promises: a push is admitted, works *)
(* only where no fence covers it, and ends once; what was confirmed was    *)
(* never fenced and what was fenced is never confirmed; a fence only       *)
(* rises, and what it withdrew from the broker stays withdrawn until it    *)
(* rises again.                                                            *)
(***************************************************************************)
EXTENDS Naturals

CONSTANTS Requests, Attempts, Generations, AttemptOf, GenerationOf

VARIABLES
  phase,      \* of each push
  told,       \* the fact the rest of the system is told of it
  fenced,     \* the highest generation fenced, by attempt
  withdrawn   \* attempts whose fenced generations the broker admits no more

contract == <<phase, told, fenced, withdrawn>>

Init ==
  /\ phase = [r \in Requests |-> "NONE"] /\ told = [r \in Requests |-> "NONE"]
  /\ fenced = [a \in Attempts |-> 0] /\ withdrawn = {}

Open == {"AUTHORIZED", "WORKING"}
Fenced(r) == fenced[AttemptOf[r]] >= GenerationOf[r]

Admit(r) ==
  /\ phase[r] = "NONE" /\ phase' = [phase EXCEPT ![r] = "AUTHORIZED"]
  /\ UNCHANGED <<told, fenced, withdrawn>>

Work(r) ==
  /\ phase[r] = "AUTHORIZED" /\ ~Fenced(r)
  /\ phase' = [phase EXCEPT ![r] = "WORKING"]
  /\ UNCHANGED <<told, fenced, withdrawn>>

Confirm(r) ==
  /\ phase[r] = "WORKING" /\ told[r] = "NONE"
  /\ phase' = [phase EXCEPT ![r] = "SUCCEEDED"]
  /\ told' = [told EXCEPT ![r] = "CONFIRMED"]
  /\ UNCHANGED <<fenced, withdrawn>>

Refuse(r) ==
  /\ phase[r] \in Open /\ phase' = [phase EXCEPT ![r] = "BLOCKED"]
  /\ UNCHANGED <<told, fenced, withdrawn>>

Withhold(r) ==
  /\ phase[r] = "WORKING" /\ phase' = [phase EXCEPT ![r] = "FENCED"]
  /\ UNCHANGED <<told, fenced, withdrawn>>

Report(r) ==
  /\ phase[r] = "FENCED" /\ told[r] = "NONE"
  /\ told' = [told EXCEPT ![r] = "FENCED"]
  /\ UNCHANGED <<phase, fenced, withdrawn>>

\* A fence raised to g, or called again at g, shuts pushes it covers.
Fence(a, g) ==
  /\ g >= fenced[a] /\ fenced' = [fenced EXCEPT ![a] = g]
  /\ \E shut \in SUBSET {r \in Requests :
                          AttemptOf[r] = a /\ GenerationOf[r] <= g /\ phase[r] \in Open} :
       phase' = [r \in Requests |-> IF r \in shut THEN "FENCED" ELSE phase[r]]
  /\ withdrawn' = IF g > fenced[a] THEN withdrawn \ {a} ELSE withdrawn
  /\ UNCHANGED told

Withdraw(a) ==
  /\ fenced[a] > 0 /\ withdrawn' = withdrawn \cup {a}
  /\ UNCHANGED <<phase, told, fenced>>

Next ==
  \/ \E r \in Requests :
       Admit(r) \/ Work(r) \/ Confirm(r) \/ Refuse(r) \/ Withhold(r) \/ Report(r)
  \/ \E a \in Attempts : Withdraw(a) \/ \E g \in Generations : Fence(a, g)

Spec == Init /\ [][Next]_contract
=============================================================================
