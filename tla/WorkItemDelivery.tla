--------------------------- MODULE WorkItemDelivery ---------------------------
(***************************************************************************)
(* The requirement module's side of an integration delivery: the human     *)
(* commands on one work item, the requests they leave in the outbox, and   *)
(* the five callbacks by which source_control reports.                     *)
(*                                                                         *)
(* Every command runs in one transaction under the locks of the            *)
(* requirement and of the work item.  The requirement has one required     *)
(* work item.  Callbacks are idempotent by key: a used key answers as the  *)
(* first time to the same request and is refused to any other.             *)
(***************************************************************************)
EXTENDS Integers, Sequences

CONSTANTS
  Heads,        \* commits the task branch may stand at, base included
  MaxRequests,  \* bound on the requests a work item makes
  NoBinding

ASSUME DeliveryAssumption ==
  {0, 1} \subseteq Heads /\ Heads \subseteq Nat /\ MaxRequests \in Nat /\ NoBinding \notin Heads

VARIABLES
  req,       \* requirement.requirement.state
  item,      \* the delivery projection of the work item
  answers,   \* requirement.idempotency_record of the callbacks
  requests   \* outbox messages with the delivery_request_inbox rows they become

delivery == <<req, item, answers>>

\* A binding is named by the create effect it belongs to, an effect by the head.
Bindings == Heads \cup {NoBinding}
Reasons ==
  {"NO_DELIVERY_COMMIT", "BRANCH_BINDING_MISSING", "REPOSITORY_NOT_AUTHORIZED",
   "HEAD_SHA_CHANGED", "MR_CONFLICT", "MR_CLOSED", "MR_CHECKS_BLOCKED",
   "MERGE_CONFLICT", "EXTERNAL_MERGE_DRIFT", "SOURCE_BRANCH_MISSING"}
DeliveryStates ==
  {"NOT_STARTED", "IMPLEMENTING", "MR_PENDING", "MR_OPEN", "MERGE_PENDING",
   "INTEGRATED", "BLOCKED", "RECONCILIATION_PENDING"}
Items ==
  [state : {"READY", "IN_PROGRESS", "VERIFYING"}, delivery : DeliveryStates,
   why : Reasons \cup {"NONE"}, binding : Bindings, rev : Nat]
Requests ==
  [kind : {"CREATE", "MERGE"}, rev : Nat, binding : Bindings,
   state : {"SENT", "RECEIVED", "PROCESSING", "FAILED", "PROCESSED"},
   due : BOOLEAN, tries : Nat, why : Reasons \cup {"NONE"}]

DeliveryInit ==
  /\ req = "READY"
  /\ item = [state |-> "READY", delivery |-> "NOT_STARTED", why |-> "NONE",
             binding |-> NoBinding, rev |-> 1]
  /\ answers = {}
  /\ requests = <<>>
-----------------------------------------------------------------------------
(* The commands of the work item's owner and of a merger.                  *)

StartWorkItem ==
  /\ req = "READY" /\ item.state = "READY" /\ item.delivery = "NOT_STARTED"
  /\ req' = "IN_PROGRESS"
  /\ item' = [item EXCEPT !.state = "IN_PROGRESS", !.delivery = "IMPLEMENTING",
                          !.rev = @ + 1]
  /\ UNCHANGED <<answers, requests>>

Send(kind) ==
  /\ Len(requests) < MaxRequests
  /\ requests' = Append(requests,
       [kind |-> kind, rev |-> item'.rev, binding |-> item.binding, state |-> "SENT",
        due |-> TRUE, tries |-> 0, why |-> "NONE"])

RequestMergeRequest ==
  /\ req = "IN_PROGRESS" /\ item.state = "IN_PROGRESS" /\ item.delivery = "IMPLEMENTING"
  /\ item' = [item EXCEPT !.delivery = "MR_PENDING", !.rev = @ + 1]
  /\ Send("CREATE")
  /\ UNCHANGED <<req, answers>>

RequestMerge ==
  /\ req = "VERIFYING" /\ item.state = "VERIFYING" /\ item.delivery = "MR_OPEN"
  /\ item.binding # NoBinding
  /\ item' = [item EXCEPT !.delivery = "MERGE_PENDING", !.rev = @ + 1]
  /\ Send("MERGE")
  /\ UNCHANGED <<req, answers>>

\* The integrated baseline is selected, put to acceptance and not approved.
Rework ==
  /\ req = "VERIFYING" /\ item.delivery = "INTEGRATED" /\ Len(requests) < MaxRequests
  /\ req' = "IN_PROGRESS"
  /\ item' = [item EXCEPT !.state = "IN_PROGRESS", !.delivery = "IMPLEMENTING",
                          !.binding = NoBinding, !.why = "NONE", !.rev = @ + 1]
  /\ UNCHANGED <<answers, requests>>
-----------------------------------------------------------------------------
(* Callbacks.  A telling t says kind, binding, why, rev under t.key.       *)

Reported(t) ==
  /\ item.delivery \in
       {"MR_PENDING", "MR_OPEN", "MERGE_PENDING", "BLOCKED", "RECONCILIATION_PENDING"}
  /\ \/ t.binding = item.binding
     \/ /\ item.binding = NoBinding /\ item.delivery = "MR_PENDING"
        /\ t.kind = "blocked" /\ t.why = "MR_CLOSED"

Admits(t) ==
  CASE t.kind = "ready" ->
         /\ item.delivery \in {"MR_PENDING", "BLOCKED", "RECONCILIATION_PENDING"}
         /\ item.binding \in {NoBinding, t.binding}
    [] t.kind \in {"blocked", "pending"} -> Reported(t)
    [] OTHER ->
         \/ /\ t.binding = item.binding /\ item.binding # NoBinding
            /\ item.state = "VERIFYING"
            /\ item.delivery \in {"MERGE_PENDING", "BLOCKED", "RECONCILIATION_PENDING"}
         \/ /\ t.kind = "drift" /\ item.binding = NoBinding
            /\ item.state = "IN_PROGRESS" /\ item.delivery = "MR_PENDING"

Unbuilt(t) ==
  /\ t.kind = "blocked" /\ t.why = "NO_DELIVERY_COMMIT" /\ t.binding = NoBinding
  /\ item.delivery = "MR_PENDING" /\ item.binding = NoBinding

Shown(t) ==
  CASE t.kind = "ready"   -> "MR_OPEN"
    [] t.kind = "pending" -> "RECONCILIATION_PENDING"
    [] t.kind = "merged"  -> "INTEGRATED"
    [] Unbuilt(t)         -> "IMPLEMENTING"
    [] OTHER              -> "BLOCKED"

Verifies(t) == t.kind \in {"ready", "merged", "drift"}

\* _update_projection: an integrated delivery does not regress.
Projected(t) ==
  [state |-> IF Verifies(t) THEN "VERIFYING"
             ELSE IF Unbuilt(t) THEN "IN_PROGRESS" ELSE item.state,
   delivery |-> Shown(t),
   why |-> IF Shown(t) # "BLOCKED" THEN "NONE" ELSE t.why,
   binding |-> IF item.binding # NoBinding THEN item.binding ELSE t.binding,
   rev |-> item.rev + 1]

Used(t) == \E a \in answers : a.key = t.key /\ a.kind = t.kind

\* Mutant: keys are not remembered.
AcceptsFresh(t) == item.rev = t.rev /\ Admits(t)

Accepts(t) ==
  IF Used(t) THEN t \in answers ELSE item.rev = t.rev /\ Admits(t)

Record(t) ==
  /\ answers' = answers \cup {t}
  /\ item' = IF Used(t) THEN item ELSE Projected(t)
  /\ req' = IF ~Used(t) /\ t.kind \in {"ready", "drift"} /\ item.state = "IN_PROGRESS"
            THEN "VERIFYING" ELSE req

\* The outbox relay; a redelivered message is accepted as the same row.
Relay(m) ==
  /\ requests[m].state = "SENT"
  /\ requests' = [requests EXCEPT ![m].state = "RECEIVED"]
  /\ UNCHANGED delivery
=============================================================================
