----------------------------- MODULE FormalGates -----------------------------
(***************************************************************************)
(* The requirement module's side of the formal delivery: once all work     *)
(* items of a requirement are integrated, their evidence is selected and   *)
(* accepted, each is proposed to main, reviewed and merged, and whatever   *)
(* contradicts the evidence takes the whole acceptance back.               *)
(*                                                                         *)
(* A cycle is a selection with the acceptance gate on it.  A work item has *)
(* at most one formal merge request, so its binding is a Boolean.  Asking  *)
(* for the baseline, generating its evidence and selecting it are one      *)
(* step, for no command leads out of VERIFYING in between.  A request is   *)
(* written with its message, and the relay only delays its claim.  The     *)
(* integration of reworked items (IntegrationDelivery) and the first       *)
(* validation of a new head are one step.                                  *)
(***************************************************************************)
EXTENDS Integers, Sequences, FiniteSets

CONSTANTS
  Items,        \* the required work items
  Heads,        \* commits of a task branch, later ones greater
  MaxRequests,  \* bound on the deliveries asked for
  MaxCycles     \* bound on the selections

ASSUME GatesAssumption ==
  Heads \subseteq Nat /\ 1 \in Heads /\ MaxRequests \in Nat /\ MaxCycles \in Nat

VARIABLES
  req,         \* requirement.requirement.state
  acceptance,  \* the decision on the current selection
  cycle,       \* [now |-> current selection or 0, last |-> the last one made]
  proof,       \* evidence of the last selection: the head of each work item
  late,        \* work items with a validation that source_control has not seen
  stale,       \* the evidence lacks a validation source_control has seen
  items,       \* requirement.work_item, with its formal projection
  gates,       \* requirement.delivery_gate of the reviews with their decisions
  answers,     \* requirement.idempotency_record of the callbacks, by request
  requests     \* outbox messages with the formal_delivery_request_inbox rows

\* The function f with the value v at k.
With(f, k, v) == [x \in DOMAIN f \cup {k} |-> IF x = k THEN v ELSE f[x]]

evidence == <<cycle, proof, late, stale>>
formal == <<req, acceptance, evidence, items, gates, answers>>

Pending == {"MR_PENDING", "MERGE_PENDING", "RECONCILIATION_PENDING"}
Reasons == {"NONE", "REFUSED", "HEAD_SHA_CHANGED"}  \* as far as they are told apart

ItemRows ==
  [state : {"IN_PROGRESS", "VERIFYING", "AWAITING_MERGE", "COMPLETED"},
   integrated : BOOLEAN, formal : {"NOT_STARTED", "MR_OPEN", "MERGED", "BLOCKED"} \cup Pending,
   why : Reasons, bound : BOOLEAN, rev : Nat]
Gates ==
  [head : Heads, state : {"OPEN", "DECIDED", "INVALIDATED"},
   outcome : {"NONE", "APPROVED", "REJECTED"}]
Requests ==
  [kind : {"CREATE", "MERGE"}, item : Items, rev : Nat, cycle : Nat, head : Heads,
   bound : BOOLEAN, state : {"RECEIVED", "PROCESSING", "FAILED", "PROCESSED"}, tries : Nat]

GatesInit ==
  /\ req = "VERIFYING" /\ acceptance = "NONE"
  /\ cycle = [now |-> 0, last |-> 0] /\ proof = [i \in Items |-> 1]
  /\ late = {} /\ stale = FALSE
  /\ items = [i \in Items |-> [state |-> "VERIFYING", integrated |-> TRUE,
                formal |-> "NOT_STARTED", why |-> "NONE", bound |-> FALSE, rev |-> 1]]
  /\ gates = <<>> /\ answers = {} /\ requests = <<>>
-----------------------------------------------------------------------------
(* What the commands and callbacks ask of the requirement.                 *)

\* _current_evidence_item: the acceptance stands and its evidence is current.
Current ==
  req \in {"AWAITING_MERGE", "COMPLETED"} /\ acceptance = "APPROVED" /\ ~stale

\* The review the delivery context shows: the latest of the work item.
Reviews(i) == {c \in 1 .. cycle.last : <<i, c>> \in DOMAIN gates}
Latest(i) == CHOOSE c \in Reviews(i) : \A d \in Reviews(i) : d <= c
Review(i) == gates[<<i, Latest(i)>>]
Reviewed(i) == Reviews(i) # {} /\ Review(i).state = "DECIDED"
Approved(i) == Reviewed(i) /\ Review(i).outcome = "APPROVED" /\ Review(i).head = proof[i]
\* A review of an earlier selection that was decided, and lost with it.
Outdated(i) ==
  /\ Reviews(i) # {} /\ Latest(i) # cycle.now
  /\ Review(i).state = "INVALIDATED" /\ Review(i).outcome # "NONE"

Busy(rows) == \E i \in Items : rows[i].formal \in Pending
Contradicted(rows) ==
  \E i \in Items : rows[i].formal = "BLOCKED" /\ rows[i].why = "HEAD_SHA_CHANGED"

Reopen(row) ==
  [row EXCEPT !.state = "IN_PROGRESS", !.integrated = FALSE, !.why = "NONE",
              !.formal = IF row.bound THEN "MR_OPEN" ELSE "NOT_STARTED", !.rev = @ + 1]

\* invalidate_current_delivery_evidence on rows and reviews just written; it is
\* refused, and its caller with it, while a delivery is pending.
Invalidate(rows, reviews) ==
  /\ items' = [i \in Items |->
       IF rows[i].state = "AWAITING_MERGE" /\ rows[i].integrated
       THEN [rows[i] EXCEPT !.state = "VERIFYING", !.rev = @ + 1] ELSE rows[i]]
  /\ gates' = [g \in DOMAIN reviews |-> [reviews[g] EXCEPT !.state = "INVALIDATED"]]
  /\ cycle' = [cycle EXCEPT !.now = 0] /\ acceptance' = "NONE"
-----------------------------------------------------------------------------
(* The human commands on the way to an acceptance.                         *)

Settled(row) == row.state \in {"VERIFYING", "COMPLETED"}

\* A reworked item is delivered at a new head.
Reintegrate(i, head) ==
  /\ req = "IN_PROGRESS" /\ items[i].state = "IN_PROGRESS" /\ ~items[i].integrated
  /\ head > proof[i]
  /\ items' = [items EXCEPT ![i].state = "VERIFYING", ![i].integrated = TRUE,
                            ![i].rev = @ + 1]
  /\ req' = IF \A j \in Items : Settled(items'[j]) THEN "VERIFYING" ELSE "IN_PROGRESS"
  /\ proof' = [proof EXCEPT ![i] = head] /\ late' = late \ {i}
  /\ UNCHANGED <<acceptance, cycle, stale, gates, answers, requests>>

Select ==
  /\ req = "VERIFYING" /\ cycle.last < MaxCycles
  /\ \A i \in Items :
       /\ items[i].integrated
       /\ items[i].state = "VERIFYING" \/ items[i].formal = "MERGED"
  /\ req' = "AWAITING_ACCEPTANCE" /\ acceptance' = "OPEN" /\ stale' = FALSE
  /\ cycle' = [now |-> cycle.last + 1, last |-> cycle.last + 1]
  /\ UNCHANGED <<proof, late, items, gates, answers, requests>>

Accept ==
  /\ req = "AWAITING_ACCEPTANCE" /\ acceptance = "OPEN" /\ ~stale
  /\ req' = "AWAITING_MERGE" /\ acceptance' = "APPROVED"
  /\ UNCHANGED <<evidence, items, gates, answers, requests>>

\* Every integrated item that is not merged goes back to work.
Decline ==
  /\ req = "AWAITING_ACCEPTANCE" /\ acceptance = "OPEN" /\ ~stale
  /\ ~Busy(items) /\ \E i \in Items : items[i].integrated /\ items[i].formal # "MERGED"
  /\ req' = "IN_PROGRESS"
  /\ Invalidate([i \in Items |-> IF items[i].integrated /\ items[i].formal # "MERGED"
                                 THEN Reopen(items[i]) ELSE items[i]], gates)
  /\ UNCHANGED <<proof, late, stale, answers, requests>>

\* Mutant: the validation does not ask whether a delivery is under way.
SubmitUnasked(i) ==
  /\ req \in {"VERIFYING", "AWAITING_ACCEPTANCE", "AWAITING_MERGE"}
  /\ items[i].state = "VERIFYING" /\ items[i].integrated
  /\ req' = "VERIFYING" /\ late' = late \cup {i}
  /\ Invalidate(items, gates)
  /\ UNCHANGED <<proof, stale, answers, requests>>

SubmitValidation(i) ==
  /\ req \in {"VERIFYING", "AWAITING_ACCEPTANCE", "AWAITING_MERGE"}
  /\ items[i].state = "VERIFYING" /\ items[i].integrated /\ ~Busy(items)
  /\ req' = "VERIFYING" /\ late' = late \cup {i}
  /\ Invalidate(items, gates)
  /\ UNCHANGED <<proof, stale, answers, requests>>

\* The relay hands a validation to source_control, after which evidence that was
\* generated and selected before lacks it.
ReceiveValidation(i) ==
  /\ i \in late /\ late' = late \ {i} /\ stale' = (stale \/ cycle.now # 0)
  /\ UNCHANGED <<req, acceptance, cycle, proof, items, gates, answers, requests>>
-----------------------------------------------------------------------------
(* The deliveries asked for, and the reviews.                              *)

\* A merge request is asked for, or asked for again under a new selection.
MayCreate(i) ==
  \/ items[i].formal \in {"NOT_STARTED", "BLOCKED"} /\ ~items[i].bound
  \/ items[i].formal \in {"MR_OPEN", "BLOCKED"} /\ items[i].bound /\ Outdated(i)
MayMerge(i) ==
  items[i].formal \in {"MR_OPEN", "BLOCKED"} /\ items[i].bound /\ Approved(i)

Request(i, kind) ==
  /\ ~Contradicted(items) /\ Current /\ items[i].integrated
  /\ IF kind = "CREATE" THEN MayCreate(i) ELSE MayMerge(i)
  /\ Len(requests) < MaxRequests
  /\ items' = [items EXCEPT ![i].state = "AWAITING_MERGE", ![i].why = "NONE",
       ![i].formal = IF kind = "CREATE" THEN "MR_PENDING" ELSE "MERGE_PENDING",
       ![i].rev = @ + 1]
  /\ requests' = Append(requests,
       [kind |-> kind, item |-> i, rev |-> items[i].rev + 1, cycle |-> cycle.now,
        head |-> proof[i], bound |-> items[i].bound, state |-> "RECEIVED", tries |-> 0])
  /\ UNCHANGED <<req, acceptance, evidence, gates, answers>>

Reviewable(i) ==
  /\ Reviews(i) # {} /\ Review(i).state = "OPEN" /\ Current
  /\ items[i].formal = "MR_OPEN" /\ items[i].bound /\ Review(i).head = proof[i]

Approve(i) ==
  /\ Reviewable(i)
  /\ gates' = [gates EXCEPT ![<<i, Latest(i)>>].state = "DECIDED",
                            ![<<i, Latest(i)>>].outcome = "APPROVED"]
  /\ UNCHANGED <<req, acceptance, evidence, items, answers, requests>>

Reject(i) ==
  /\ Reviewable(i) /\ ~Busy(items)
  /\ req' = "IN_PROGRESS"
  /\ Invalidate([items EXCEPT ![i] = Reopen(@)],
                [gates EXCEPT ![<<i, Latest(i)>>].outcome = "REJECTED"])
  /\ UNCHANGED <<proof, late, stale, answers, requests>>
-----------------------------------------------------------------------------
(* The callbacks: source_control tells the outcome t of the request t.m.   *)

\* A pending notice is counted in the revision the later callbacks expect.
Due(t) ==
  items[t.item].rev = t.rev
    + (IF items[t.item].formal = "RECONCILIATION_PENDING" THEN 1 ELSE 0)

Admits(t) ==
  LET row == items[t.item] IN
  CASE t.kind = "pending" ->
         /\ row.rev = t.rev /\ row.formal \in {"MR_PENDING", "MERGE_PENDING"}
         /\ row.bound = t.bound
    [] t.kind = "blocked" ->
         /\ Due(t) /\ row.formal \in Pending
         /\ row.bound \/ row.formal = "MERGE_PENDING" => t.bound
         /\ row.formal = "MERGE_PENDING" => row.bound
    [] t.kind = "ready" ->
         /\ Due(t) /\ Current /\ row.formal \in {"MR_PENDING", "RECONCILIATION_PENDING"}
         /\ proof[t.item] = t.head /\ <<t.item, cycle.now>> \notin DOMAIN gates
    [] OTHER ->
         /\ Due(t) /\ Current /\ row.formal \in {"MERGE_PENDING", "RECONCILIATION_PENDING"}
         /\ row.bound /\ proof[t.item] = t.head /\ Approved(t.item)

Shown(t) ==
  CASE t.kind = "pending" -> "RECONCILIATION_PENDING"
    [] t.kind = "blocked" -> "BLOCKED"
    [] t.kind = "ready"   -> "MR_OPEN"
    [] OTHER              -> "MERGED"

Projected(t) ==
  [items EXCEPT ![t.item].formal = Shown(t),
     ![t.item].state = IF t.kind = "merged" THEN "COMPLETED" ELSE "AWAITING_MERGE",
     ![t.item].why = IF t.kind = "blocked" THEN t.why ELSE "NONE",
     ![t.item].bound = @ \/ t.bound, ![t.item].rev = @ + 1]

\* Mutant: a merge request that gets ready does not look for a contradiction.
ConcludesUnlessReady(t, rows) == t.kind \notin {"pending", "ready"} /\ Contradicted(rows) /\ ~Busy(rows)

\* The last callback of a cycle applies what contradicted its evidence.
Concludes(t, rows) == t.kind # "pending" /\ Contradicted(rows) /\ ~Busy(rows)

\* The last merge completes the requirement.
Completes(t, rows) == t.kind = "merged" /\ \A i \in Items : rows[i].formal = "MERGED"

Key(t) == <<t.kind, t.m>>
Accepts(t) == Key(t) \in answers \/ Admits(t)

WithGate(t) ==
  IF t.kind = "ready"
  THEN With(gates, <<t.item, cycle.now>>, [head |-> t.head, state |-> "OPEN", outcome |-> "NONE"])
  ELSE gates

Record(t) ==
  /\ answers' = answers \cup {Key(t)}
  /\ IF Key(t) \in answers THEN UNCHANGED <<req, acceptance, evidence, items, gates>>
     ELSE LET rows == Projected(t) IN
          IF Concludes(t, rows)
          THEN /\ req' = "IN_PROGRESS"
               /\ Invalidate([i \in Items |->
                    IF rows[i].formal = "BLOCKED" /\ rows[i].why = "HEAD_SHA_CHANGED"
                    THEN Reopen(rows[i]) ELSE rows[i]], WithGate(t))
               /\ UNCHANGED <<proof, late, stale>>
          ELSE /\ items' = rows /\ gates' = WithGate(t)
               /\ req' = IF Completes(t, rows) THEN "COMPLETED"
                         ELSE IF t.kind \in {"pending", "ready"} THEN req ELSE "AWAITING_MERGE"
               /\ UNCHANGED <<acceptance, evidence>>
=============================================================================
