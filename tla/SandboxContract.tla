--------------------------- MODULE SandboxContract ---------------------------
(***************************************************************************)
(* What the Sandbox Controller promises its callers: one materialization   *)
(* at a time per execution, served by a runner that exists; a cleanup that *)
(* fences the runner before it gives the capacity back, and destroys it    *)
(* before it reports the outcome it was begun with.                        *)
(***************************************************************************)
EXTENDS Naturals

CONSTANTS Executions, MaxGeneration

Mats == Executions \X (1..MaxGeneration)
Outcomes == {"RELEASED", "FINALIZED", "CANCELED", "TIMED_OUT", "FAILED"}

VARIABLES
  phase,    \* how far the materialization has come
  outcome,  \* the terminal state its cleanup was begun with
  held,     \* the materializations that hold capacity
  runner    \* what exists outside the platform's records

contract == <<phase, outcome, held, runner>>

Init ==
  /\ phase = [m \in Mats |-> "free"]
  /\ outcome = [m \in Mats |-> "NONE"]
  /\ held = {}
  /\ runner = [m \in Mats |-> "absent"]

Admit(m) ==
  /\ phase[m] = "free"
  /\ \A n \in 1..MaxGeneration : n < m[2] => phase[<<m[1], n>>] = "closed"
  /\ phase' = [phase EXCEPT ![m] = "starting"]
  /\ held' = held \cup {m}
  /\ UNCHANGED <<outcome, runner>>

Start(m) ==
  /\ phase[m] = "starting" /\ runner[m] = "absent"
  /\ runner' = [runner EXCEPT ![m] = "running"]
  /\ UNCHANGED <<phase, outcome, held>>

Serve(m) ==
  /\ phase[m] = "starting" /\ runner[m] = "running"
  /\ phase' = [phase EXCEPT ![m] = "serving"]
  /\ UNCHANGED <<outcome, held, runner>>

\* A materialization that never served can only fail; one that did, only not.
Close(m, o) ==
  /\ \/ phase[m] = "starting" /\ o = "FAILED"
     \/ phase[m] = "serving" /\ o # "FAILED"
  /\ phase' = [phase EXCEPT ![m] = "closing"]
  /\ outcome' = [outcome EXCEPT ![m] = o]
  /\ UNCHANGED <<held, runner>>

Fence(m) ==
  /\ phase[m] = "closing" /\ runner[m] = "running"
  /\ runner' = [runner EXCEPT ![m] = "fenced"]
  /\ UNCHANGED <<phase, outcome, held>>

Free(m) ==
  /\ phase[m] = "closing" /\ m \in held /\ runner[m] # "running"
  /\ held' = held \ {m}
  /\ UNCHANGED <<phase, outcome, runner>>

Destroy(m) ==
  /\ phase[m] = "closing" /\ m \notin held /\ runner[m] = "fenced"
  /\ runner' = [runner EXCEPT ![m] = "gone"]
  /\ UNCHANGED <<phase, outcome, held>>

Finish(m) ==
  /\ phase[m] = "closing" /\ m \notin held /\ runner[m] \in {"absent", "gone"}
  /\ phase' = [phase EXCEPT ![m] = "closed"]
  /\ UNCHANGED <<outcome, held, runner>>

Next ==
  \E m \in Mats :
    \/ Admit(m) \/ Start(m) \/ Serve(m)
    \/ Fence(m) \/ Free(m) \/ Destroy(m) \/ Finish(m)
    \/ \E o \in Outcomes : Close(m, o)

Spec == Init /\ [][Next]_contract
=============================================================================
