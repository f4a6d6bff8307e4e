--------------------------- MODULE DeliveryContract ---------------------------
(***************************************************************************)
(* What an integration delivery promises: a merge request is proposed once *)
(* somebody asked; the platform merges only what a human asked it to merge;*)
(* the work item shows INTEGRATED only of what is merged, and keeps it     *)
(* until it is taken up again.  People may merge at any time.              *)
(***************************************************************************)
CONSTANTS Bindings, None

VARIABLES
  phase,     \* what the work item shows
  subject,   \* the binding it shows it of
  proposed,  \* bindings there are
  wanted,    \* bindings a human asked to merge
  landed,    \* bindings merged by the platform
  merged     \* bindings merged by anybody

contract == <<phase, subject, proposed, wanted, landed, merged>>

Init ==
  /\ phase = "work" /\ subject = None
  /\ proposed = {} /\ wanted = {} /\ landed = {} /\ merged = {}

Ask ==
  /\ phase = "work" /\ phase' = "asked"
  /\ UNCHANGED <<subject, proposed, wanted, landed, merged>>

\* A merge request that people opened, even merged, may be adopted.
Propose(b) ==
  /\ b \notin proposed /\ proposed' = proposed \cup {b}
  /\ merged' \in {merged, merged \cup {b}}
  /\ UNCHANGED <<phase, subject, wanted, landed>>

Open(b) ==
  /\ phase \in {"asked", "held"} /\ subject \in {None, b} /\ b \in proposed
  /\ phase' = "open" /\ subject' = b
  /\ UNCHANGED <<proposed, wanted, landed, merged>>

AskMerge ==
  /\ phase = "open" /\ phase' = "merging"
  /\ wanted' = wanted \cup {subject}
  /\ UNCHANGED <<subject, proposed, landed, merged>>

Land(b) ==
  /\ b \in wanted \ merged
  /\ landed' = landed \cup {b} /\ merged' = merged \cup {b}
  /\ UNCHANGED <<phase, subject, proposed, wanted>>

Overtake(b) ==
  /\ b \in proposed \ merged
  /\ merged' = merged \cup {b}
  /\ UNCHANGED <<phase, subject, proposed, wanted, landed>>

Integrate ==
  /\ phase \in {"merging", "held"} /\ subject \in wanted \cap merged
  /\ phase' = "integrated"
  /\ UNCHANGED <<subject, proposed, wanted, landed, merged>>

Hold ==
  /\ phase \in {"asked", "open", "merging", "held"} /\ phase' = "held"
  /\ subject' \in IF subject = None THEN proposed \cup {None} ELSE {subject}
  /\ UNCHANGED <<proposed, wanted, landed, merged>>

GiveBack ==
  /\ \/ phase = "asked"
     \/ phase = "integrated"
  /\ phase' = "work" /\ subject' = None
  /\ UNCHANGED <<proposed, wanted, landed, merged>>

Next ==
  \/ Ask \/ AskMerge \/ Integrate \/ Hold \/ GiveBack
  \/ \E b \in Bindings : Propose(b) \/ Open(b) \/ Land(b) \/ Overtake(b)

Spec == Init /\ [][Next]_contract
=============================================================================
