----------------------------- MODULE FormalTyping -----------------------------
(***************************************************************************)
(* The rows of the formal delivery keep their types (Typed), and the       *)
(* acceptance stands while a delivery is under way (Standing), for any     *)
(* number of work items, workers, heads and faults.                        *)
(***************************************************************************)
EXTENDS FormalDelivery, FiniteSetTheorems, SequenceTheorems, WellFoundedInduction, TLAPS

\* The tables and locals, each with its own rows (FormalDelivery.TypeOK).
ReqTyped ==
  /\ req \in {"IN_PROGRESS", "VERIFYING", "AWAITING_ACCEPTANCE", "AWAITING_MERGE", "COMPLETED"}
  /\ acceptance \in {"NONE", "OPEN", "APPROVED"} /\ (acceptance = "NONE" <=> cycle.now = 0)
CycleTyped ==
  /\ cycle \in [now : Nat, last : Nat] /\ cycle.now \in {0, cycle.last}
EvidenceTyped ==
  /\ proof \in [Items -> Heads] /\ late \subseteq Items /\ stale \in BOOLEAN
ItemsTyped == items \in [Items -> ItemRows]
GatesTyped ==
  /\ DOMAIN gates \subseteq Items \X (1 .. cycle.last)
  /\ \A g \in DOMAIN gates : gates[g] \in Gates
FormalTyped == ReqTyped /\ CycleTyped /\ EvidenceTyped /\ ItemsTyped /\ GatesTyped

RequestsTyped == requests \in Seq(Requests)
EffectsTyped ==
  /\ DOMAIN effects \subseteq DOMAIN requests
  /\ \A m \in DOMAIN effects : effects[m] \in Effects
BindingsTyped ==
  DOMAIN bindings \subseteq Items /\ \A i \in DOMAIN bindings : bindings[i] \in BindingRows
RowsTyped == RequestsTyped /\ EffectsTyped /\ BindingsTyped

GitlabTyped ==
  mrs \in [Items -> Seq(MergeRequests)] /\ branch \in [Items -> Heads \cup {Gone}]
CallTyped == call \in [Workers -> CallRows]

\* A worker works for a request, and stores a head it compared with the request's.
Fits(c) ==
  /\ c.at # "idle" => c.m \in DOMAIN requests
  /\ c.at = "settle" => c.seen.head \in Heads
CallsFit == \A w \in Workers : Fits(call[w])

Typed == FormalTyped /\ RowsTyped /\ GitlabTyped /\ CallTyped /\ CallsFit

\* What no step changes of a request.
Kept ==
  /\ DOMAIN requests \subseteq DOMAIN requests'
  /\ \A m \in DOMAIN requests :
       /\ requests'[m].kind = requests[m].kind /\ requests'[m].item = requests[m].item
       /\ requests'[m].rev = requests[m].rev /\ requests'[m].cycle = requests[m].cycle
       /\ requests'[m].head = requests[m].head /\ requests'[m].bound = requests[m].bound
-----------------------------------------------------------------------------
\* A claim's number is a number (claim_formal_request counts attempts).
LEMMA FreshTyped ==
  ASSUME NEW S, IsFiniteSet(S)
  PROVE  Fresh(S) \in Nat
<1> DEFINE k == Cardinality(S) + 1
<1>1. k \in Nat /\ k > Cardinality(S) /\ Cardinality(S) \in Nat
  BY FS_CardinalityType, SMT
<1>2. IsFiniteSet(1 .. k) /\ Cardinality(1 .. k) = k
  <2>1. 1 \in Int /\ k \in Int /\ ~(1 > k) /\ k - 1 + 1 = k
    BY <1>1, SMT
  <2> HIDE DEF k
  <2> QED BY <2>1, FS_Interval, Zenon
<1>3. ~(1 .. k \subseteq S)
  <2> SUFFICES ASSUME 1 .. k \subseteq S PROVE FALSE
    OBVIOUS
  <2>1. Cardinality(1 .. k) <= Cardinality(S)
    BY FS_Subset
  <2> QED BY <2>1, <1>1, <1>2, SMT
<1>4. \E n \in 1 .. k : n \notin S
  BY <1>3
<1>5. Fresh(S) \in 1 .. k
  BY <1>4 DEF Fresh
<1> QED BY <1>5, <1>1, SMT

\* The copies that workers hold are finitely many.
LEMMA CopiesFinite ==
  ASSUME NEW f, NEW W \in SUBSET Workers
  PROVE  IsFiniteSet({f[v] : v \in W})
<1>1. IsFiniteSet(W)
  BY FS_Subset, FormalAssumption DEF FormalAssumption
<1> DEFINE g == [v \in W |-> f[v]]
<1>2. g \in Surjection(W, {f[v] : v \in W})
  BY DEF Surjection
<1> QED BY <1>1, <1>2, FS_Surjection DEF ExistsSurjection

-----------------------------------------------------------------------------
(* Edits of the rows.                                                      *)

\* What a step does not touch keeps its type.
LEMMA FormalStays ==
  ASSUME FormalTyped, UNCHANGED formal
  PROVE  FormalTyped'
  BY DEF FormalTyped, formal, evidence, ReqTyped, CycleTyped, EvidenceTyped, ItemsTyped, GatesTyped

\* A step that leaves GitLab alone keeps its types.
LEMMA GitlabStays ==
  ASSUME GitlabTyped, UNCHANGED gitlab
  PROVE  GitlabTyped'
  BY DEF GitlabTyped, gitlab

\* A step that leaves the inbox alone keeps its types and its requests.
LEMMA RequestsStay ==
  ASSUME RequestsTyped, UNCHANGED requests
  PROVE  RequestsTyped' /\ Kept /\ DOMAIN requests' = DOMAIN requests
  BY DEF RequestsTyped, Kept

\* So does one that leaves source_control's rows alone.
LEMMA RowsStay ==
  ASSUME RowsTyped, UNCHANGED rows
  PROVE  RowsTyped' /\ Kept
  BY RequestsStay DEF RowsTyped, rows, EffectsTyped, BindingsTyped

\* An inbox row claimed, marked or completed (claim, fail, complete_formal_request).
LEMMA RequestEdit ==
  ASSUME RequestsTyped, NEW m \in DOMAIN requests,
         NEW state \in {"RECEIVED", "PROCESSING", "FAILED", "PROCESSED"}, NEW tries \in Nat,
         requests' = Marked(m, state, tries)
  PROVE  RequestsTyped' /\ Kept /\ DOMAIN requests' = DOMAIN requests
<1> DEFINE e == [requests[m] EXCEPT !.state = state, !.tries = tries]
<1>1. requests \in Seq(Requests) /\ requests[m] \in Requests
  BY ElementOfSeq DEF RequestsTyped
<1>2. e \in Requests /\ e.kind = requests[m].kind /\ e.item = requests[m].item
      /\ e.rev = requests[m].rev /\ e.cycle = requests[m].cycle
      /\ e.head = requests[m].head /\ e.bound = requests[m].bound
  BY <1>1 DEF Requests
<1>3. requests' = [requests EXCEPT ![m] = e]
  BY DEF Marked
<1> HIDE DEF e
<1>4. RequestsTyped' /\ DOMAIN requests' = DOMAIN requests
  BY <1>1, <1>2, <1>3, ExceptSeq DEF RequestsTyped
<1>5. Kept
  BY <1>1, <1>2, <1>3, <1>4 DEF Kept
<1> QED BY <1>4, <1>5

\* An effect transitioned (transition_effect, claim_effects).
LEMMA EffectEdit ==
  ASSUME EffectsTyped, DOMAIN requests \subseteq DOMAIN requests', NEW m,
         NEW e \in Effects, effects' = [effects EXCEPT ![m] = e]
  PROVE  EffectsTyped'
  BY DEF EffectsTyped

\* An effect changes its state and attempts under a claim or a doubt.
LEMMA EffectTurn ==
  ASSUME EffectsTyped, DOMAIN requests \subseteq DOMAIN requests', NEW m,
         NEW state \in {"PLANNED"} \cup Unsettled \cup Final, NEW tries \in Nat,
         effects' = Turned(m, state, tries)
  PROVE  EffectsTyped'
<1>1. CASE m \in DOMAIN effects
  <2> DEFINE e == [effects[m] EXCEPT !.state = state, !.tries = tries]
  <2>1. effects[m] \in Effects
    BY <1>1 DEF EffectsTyped
  <2>2. e \in Effects
    BY <2>1 DEF Effects, Unsettled, Final
  <2>3. effects' = [effects EXCEPT ![m] = e]
    BY DEF Turned
  <2> HIDE DEF e
  <2> QED BY <2>2, <2>3, EffectEdit
<1>2. CASE m \notin DOMAIN effects
  BY <1>2 DEF Turned, EffectsTyped
<1> QED BY <1>1, <1>2

\* An effect given back keeps its claim's number.
LEMMA EffectBack ==
  ASSUME EffectsTyped, DOMAIN requests \subseteq DOMAIN requests', NEW m,
         effects' = Turned(m, "UNKNOWN", effects[m].tries)
  PROVE  EffectsTyped'
<1>1. CASE m \in DOMAIN effects
  <2>1. effects[m] \in Effects
    BY <1>1 DEF EffectsTyped
  <2>2. effects[m].tries \in Nat
    BY <2>1 DEF Effects
  <2> QED BY <2>2, EffectTurn DEF Unsettled
<1>2. CASE m \notin DOMAIN effects
  BY <1>2 DEF Turned, EffectsTyped
<1> QED BY <1>1, <1>2

\* One worker moves at a time, to locals that fit.
LEMMA Moved ==
  ASSUME CallTyped, CallsFit, NEW w \in Workers, NEW c \in CallRows, Moves(w, c),
         DOMAIN requests \subseteq DOMAIN requests',
         c.at # "idle" => c.m \in DOMAIN requests',
         c.at = "settle" => c.seen.head \in Heads
  PROVE  CallTyped' /\ CallsFit'
<1>1. CallTyped'
  BY DEF CallTyped, Moves
<1>2. ASSUME NEW v \in Workers PROVE Fits(call[v])'
  BY <1>2 DEF CallTyped, CallsFit, Moves, Fits, CallRows
<1> QED BY <1>1, <1>2 DEF CallsFit

\* A worker between two calls is at no place.
LEMMA IdleTyped == IdleCall \in CallRows /\ IdleCall.at = "idle"
  BY DEF IdleCall, CallRows, Reasons

\* A call that returned or was unwound.
LEMMA Left ==
  ASSUME CallTyped, CallsFit, NEW w \in Workers, Leave(w),
         DOMAIN requests \subseteq DOMAIN requests'
  PROVE  CallTyped' /\ CallsFit'
<1>1. IdleCall \in CallRows /\ IdleCall.at = "idle" /\ Moves(w, IdleCall)
  BY IdleTyped DEF Leave
<1> QED BY <1>1, Moved

\* A call without a step of the request's (_process_formal_delivery_request).
LEMMA Stayed ==
  ASSUME CallTyped, CallsFit, UNCHANGED call, DOMAIN requests \subseteq DOMAIN requests'
  PROVE  CallTyped' /\ CallsFit'
  BY DEF CallTyped, CallsFit, Fits
-----------------------------------------------------------------------------
(* The commands of the requirement.                                        *)

\* A work item's row with another revision and state (WorkItemRow.revision).
LEMMA RowEdits ==
  ASSUME NEW row \in ItemRows, NEW n \in Nat
  PROVE  /\ [row EXCEPT !.state = "VERIFYING", !.rev = n] \in ItemRows
         /\ [row EXCEPT !.state = "VERIFYING", !.integrated = TRUE, !.rev = n] \in ItemRows
         /\ [row EXCEPT !.state = "IN_PROGRESS", !.integrated = FALSE, !.why = "NONE",
                        !.formal = IF row.bound THEN "MR_OPEN" ELSE "NOT_STARTED", !.rev = n]
            \in ItemRows
  BY DEF ItemRows, Reasons, Pending

\* A revision counted up is a number.
LEMMA NextRevision ==
  ASSUME NEW row \in ItemRows
  PROVE  row.rev + 1 \in Nat
  BY DEF ItemRows

\* An acceptance taken back (invalidate_current_delivery_evidence) leaves typed rows.
LEMMA InvalidateTyped ==
  ASSUME CycleTyped, NEW rs \in [Items -> ItemRows], NEW reviews,
         DOMAIN reviews \subseteq Items \X (1 .. cycle.last),
         \A g \in DOMAIN reviews : reviews[g] \in Gates,
         Invalidate(rs, reviews)
  PROVE  ItemsTyped' /\ GatesTyped' /\ CycleTyped' /\ acceptance' = "NONE" /\ cycle'.now = 0
<1>1. ItemsTyped'
  <2> SUFFICES ASSUME NEW i \in Items
               PROVE  (IF rs[i].state = "AWAITING_MERGE" /\ rs[i].integrated
                       THEN [rs[i] EXCEPT !.state = "VERIFYING", !.rev = @ + 1] ELSE rs[i]) \in ItemRows
    BY DEF Invalidate, ItemsTyped
  <2>1. rs[i] \in ItemRows /\ rs[i].rev + 1 \in Nat
    BY NextRevision
  <2> QED BY <2>1, RowEdits, Zenon
<1>2. CycleTyped' /\ cycle'.now = 0 /\ cycle'.last = cycle.last /\ acceptance' = "NONE"
  BY DEF Invalidate, CycleTyped
<1>3. GatesTyped'
  <2>1. gates' = [g \in DOMAIN reviews |-> [reviews[g] EXCEPT !.state = "INVALIDATED"]]
    BY DEF Invalidate
  <2>2. ASSUME NEW g \in DOMAIN reviews PROVE [reviews[g] EXCEPT !.state = "INVALIDATED"] \in Gates
    <3>1. reviews[g] \in Gates
      OBVIOUS
    <3> QED BY <3>1 DEF Gates
  <2> QED BY <2>1, <2>2, <1>2 DEF GatesTyped
<1> QED BY <1>1, <1>2, <1>3

\* A work item sent back to work (reopen_work_item_for_rework) is a typed row.
LEMMA ReopenTyped ==
  ASSUME NEW row \in ItemRows
  PROVE  Reopen(row) \in ItemRows
  BY NextRevision, RowEdits, Zenon DEF Reopen

\* A reworked head keeps the types of the requirement's rows.
LEMMA ReintegrateTyped ==
  ASSUME FormalTyped, NEW i \in Items, NEW h \in Heads, Reintegrate(i, h)
  PROVE  FormalTyped' /\ UNCHANGED requests
<1> DEFINE row == [items[i] EXCEPT !.state = "VERIFYING", !.integrated = TRUE, !.rev = @ + 1]
<1>1. items[i] \in ItemRows
  BY DEF FormalTyped, ItemsTyped
<1>2. row \in ItemRows
  BY <1>1, NextRevision, RowEdits, Zenon
<1>3. items' = [items EXCEPT ![i] = row]
  BY DEF Reintegrate
<1> HIDE DEF row
<1>4. ItemsTyped'
  BY <1>2, <1>3 DEF FormalTyped, ItemsTyped
<1>5. ReqTyped' /\ EvidenceTyped' /\ CycleTyped' /\ GatesTyped'
  BY DEF Reintegrate, FormalTyped, ReqTyped, EvidenceTyped, CycleTyped, GatesTyped
<1> QED BY <1>4, <1>5 DEF FormalTyped, Reintegrate

\* A new selection opens the next cycle and keeps the types.
LEMMA SelectTyped ==
  ASSUME FormalTyped, Select
  PROVE  FormalTyped' /\ UNCHANGED requests
<1>1. CycleTyped' /\ cycle'.now = cycle.last + 1 /\ cycle'.last = cycle.last + 1
  BY DEF Select, FormalTyped, CycleTyped
<1>2. GatesTyped'
  <2>1. 1 .. cycle.last \subseteq 1 .. cycle'.last
    BY <1>1 DEF FormalTyped, CycleTyped
  <2> QED BY <2>1 DEF Select, FormalTyped, GatesTyped
<1>3. ReqTyped'
  BY <1>1 DEF Select, FormalTyped, ReqTyped, CycleTyped
<1>4. EvidenceTyped' /\ ItemsTyped'
  BY DEF Select, FormalTyped, EvidenceTyped, ItemsTyped
<1> QED BY <1>1, <1>2, <1>3, <1>4 DEF FormalTyped, Select

\* An acceptance keeps the types.
LEMMA AcceptTyped ==
  ASSUME FormalTyped, Accept
  PROVE  FormalTyped' /\ UNCHANGED requests
  BY DEF Accept, FormalTyped, evidence, ReqTyped, CycleTyped, EvidenceTyped, ItemsTyped, GatesTyped

\* A declined acceptance sends the items back with typed rows.
LEMMA DeclineTyped ==
  ASSUME FormalTyped, Decline
  PROVE  FormalTyped' /\ UNCHANGED requests
<1> DEFINE rs == [i \in Items |-> IF items[i].integrated /\ items[i].formal # "MERGED"
                                  THEN Reopen(items[i]) ELSE items[i]]
<1>1. rs \in [Items -> ItemRows]
  BY ReopenTyped DEF FormalTyped, ItemsTyped
<1>2. Invalidate(rs, gates)
  BY DEF Decline
<1> HIDE DEF rs
<1>3. ItemsTyped' /\ GatesTyped' /\ CycleTyped' /\ acceptance' = "NONE" /\ cycle'.now = 0
  BY <1>1, <1>2, InvalidateTyped DEF FormalTyped, GatesTyped
<1> QED BY <1>3 DEF Decline, FormalTyped, ReqTyped, EvidenceTyped

\* A late validation takes the selection back with typed rows.
LEMMA SubmitTyped ==
  ASSUME FormalTyped, NEW i \in Items, SubmitValidation(i)
  PROVE  FormalTyped' /\ UNCHANGED requests
<1>1. ItemsTyped' /\ GatesTyped' /\ CycleTyped' /\ acceptance' = "NONE" /\ cycle'.now = 0
  BY InvalidateTyped DEF SubmitValidation, FormalTyped, GatesTyped, ItemsTyped
<1> QED BY <1>1 DEF SubmitValidation, FormalTyped, ReqTyped, EvidenceTyped

\* The arrival of a validation keeps the types.
LEMMA ReceiveTyped ==
  ASSUME FormalTyped, NEW i \in Items, ReceiveValidation(i)
  PROVE  FormalTyped' /\ UNCHANGED requests
  BY DEF ReceiveValidation, FormalTyped, ReqTyped, CycleTyped, EvidenceTyped, ItemsTyped, GatesTyped

\* The review shown is one there is.
LEMMA ReviewThere ==
  ASSUME CycleTyped, NEW i \in Items, Reviews(i) # {}
  PROVE  /\ <<i, Latest(i)>> \in DOMAIN gates /\ Latest(i) \in Reviews(i)
         /\ \A d \in Reviews(i) : d <= Latest(i)
<1> DEFINE Bounds == {n \in Nat : \A d \in Reviews(i) : d <= n}
<1>1. Reviews(i) \subseteq Nat \ {0} /\ cycle.last \in Bounds
  BY DEF CycleTyped, Reviews
<1>2. PICK n \in Bounds : \A k \in Bounds : n <= k
  <2>1. \E x \in Bounds : \A y \in Bounds : ~ (<<y, x>> \in OpToRel(<, Nat))
    BY <1>1, NatLessThanWellFounded, WFMin
  <2>2. ASSUME NEW x \in Nat, NEW y \in Nat, y < x PROVE <<y, x>> \in OpToRel(<, Nat)
    BY <2>2 DEF OpToRel
  <2>3. PICK x \in Bounds : \A y \in Bounds : ~ (<<y, x>> \in OpToRel(<, Nat))
    BY <2>1
  <2>4. Bounds \subseteq Nat
    OBVIOUS
  <2>5. ASSUME NEW y \in Bounds PROVE x <= y
    <3>1. ~ (y < x)
      BY <2>2, <2>3, <2>4, Zenon
    <3> QED BY <3>1, <2>4
  <2> QED BY <2>5
<1>3. n \in Reviews(i)
  <2> SUFFICES ASSUME n \notin Reviews(i) PROVE FALSE
    OBVIOUS
  <2>1. n - 1 \in Bounds
    BY <1>1, <1>2
  <2> QED BY <2>1, <1>2
<1>4. \E c \in Reviews(i) : \A d \in Reviews(i) : d <= c
  BY <1>2, <1>3
<1>5. Latest(i) \in Reviews(i) /\ \A d \in Reviews(i) : d <= Latest(i)
  BY <1>4 DEF Latest
<1> QED BY <1>5 DEF Reviews

\* A request is typed as it is written, and the earlier ones are kept.
LEMMA RequestTyped ==
  ASSUME FormalTyped, RequestsTyped, NEW i \in Items, NEW kind \in {"CREATE", "MERGE"},
         Request(i, kind)
  PROVE  FormalTyped' /\ RequestsTyped' /\ Kept
<1> DEFINE row == [items[i] EXCEPT !.state = "AWAITING_MERGE", !.why = "NONE",
                     !.formal = IF kind = "CREATE" THEN "MR_PENDING" ELSE "MERGE_PENDING",
                     !.rev = @ + 1]
           r == [kind |-> kind, item |-> i, rev |-> items[i].rev + 1, cycle |-> cycle.now,
                 head |-> proof[i], bound |-> items[i].bound, state |-> "RECEIVED", tries |-> 0]
<1>1. items[i] \in ItemRows /\ items[i].rev + 1 \in Nat /\ items[i].bound \in BOOLEAN
  <2>1. items[i] \in ItemRows
    BY DEF FormalTyped, ItemsTyped
  <2> QED BY <2>1, NextRevision DEF ItemRows
<1>2. ASSUME NEW n \in Nat
      PROVE  [items[i] EXCEPT !.state = "AWAITING_MERGE", !.why = "NONE",
                !.formal = IF kind = "CREATE" THEN "MR_PENDING" ELSE "MERGE_PENDING",
                !.rev = n] \in ItemRows
  BY <1>1 DEF ItemRows, Reasons, Pending
<1>3. row \in ItemRows
  BY <1>1, <1>2, Zenon
<1>4. cycle.now \in Nat /\ proof[i] \in Heads
  BY DEF FormalTyped, CycleTyped, EvidenceTyped
<1>5. r \in Requests
  BY <1>1, <1>4 DEF Requests
<1>6. items' = [items EXCEPT ![i] = row] /\ requests' = Append(requests, r)
  BY DEF Request
<1>7. UNCHANGED <<req, acceptance, evidence, gates>>
  BY DEF Request
<1> HIDE DEF row, r
<1>8. ItemsTyped'
  BY <1>3, <1>6 DEF FormalTyped, ItemsTyped
<1>9. ReqTyped' /\ EvidenceTyped' /\ CycleTyped' /\ GatesTyped'
  BY <1>7 DEF FormalTyped, ReqTyped, EvidenceTyped, CycleTyped, GatesTyped, evidence
<1>10. RequestsTyped' /\ Kept
  <2>1. requests \in Seq(Requests)
    BY DEF RequestsTyped
  <2>2. requests' \in Seq(Requests) /\ Len(requests') = Len(requests) + 1
        /\ \A m \in 1 .. Len(requests) : requests'[m] = requests[m]
    BY <2>1, <1>5, <1>6, AppendProperties
  <2>3. DOMAIN requests = 1 .. Len(requests) /\ DOMAIN requests' = 1 .. Len(requests')
        /\ Len(requests) \in Nat
    BY <2>1, <2>2
  <2> QED BY <2>2, <2>3 DEF RequestsTyped, Kept
<1> QED BY <1>8, <1>9, <1>10 DEF FormalTyped

\* Decisions on the review keep its head (DeliveryGateRow).
LEMMA GateEdit ==
  ASSUME NEW gate \in Gates
  PROVE  /\ [gate EXCEPT !.state = "DECIDED", !.outcome = "APPROVED"] \in Gates
         /\ [gate EXCEPT !.outcome = "REJECTED"] \in Gates
  BY DEF Gates

\* An approval decides the gate that was shown, with typed rows.
LEMMA ApproveTyped ==
  ASSUME FormalTyped, NEW i \in Items, Approve(i)
  PROVE  FormalTyped' /\ UNCHANGED requests
<1> DEFINE k == <<i, Latest(i)>>
           gate == [gates[k] EXCEPT !.state = "DECIDED", !.outcome = "APPROVED"]
<1>1. k \in DOMAIN gates
  BY ReviewThere DEF Approve, Reviewable, FormalTyped
<1>2. gates[k] \in Gates
  BY <1>1 DEF FormalTyped, GatesTyped
<1>3. gate \in Gates
  BY <1>2, GateEdit, Zenon
<1>4. gates' = [gates EXCEPT ![k] = gate]
  BY DEF Approve
<1>5. UNCHANGED <<req, acceptance, evidence, items, requests>>
  BY DEF Approve
<1> HIDE DEF gate, k
<1>6. GatesTyped'
  BY <1>3, <1>4, <1>5 DEF FormalTyped, GatesTyped, evidence
<1> QED
  BY <1>5, <1>6 DEF FormalTyped, ReqTyped, EvidenceTyped, CycleTyped, ItemsTyped, evidence

\* A rejection sends its item back and takes the selection back, with typed rows.
LEMMA RejectTyped ==
  ASSUME FormalTyped, NEW i \in Items, Reject(i)
  PROVE  FormalTyped' /\ UNCHANGED requests
<1> DEFINE k == <<i, Latest(i)>>
           gate == [gates[k] EXCEPT !.outcome = "REJECTED"]
           rs == [items EXCEPT ![i] = Reopen(@)]
           reviews == [gates EXCEPT ![k] = gate]
<1>1. k \in DOMAIN gates
  BY ReviewThere DEF Reject, Reviewable, FormalTyped
<1>2. gates[k] \in Gates
  BY <1>1 DEF FormalTyped, GatesTyped
<1>3. gate \in Gates
  BY <1>2, GateEdit, Zenon
<1>4. Invalidate(rs, reviews)
  BY DEF Reject
<1>5. rs \in [Items -> ItemRows]
  BY ReopenTyped DEF FormalTyped, ItemsTyped
<1> HIDE DEF gate, k
<1>6. DOMAIN reviews \subseteq Items \X (1 .. cycle.last) /\ \A g \in DOMAIN reviews : reviews[g] \in Gates
  BY <1>3 DEF FormalTyped, GatesTyped
<1> HIDE DEF rs, reviews
<1>7. ItemsTyped' /\ GatesTyped' /\ CycleTyped' /\ acceptance' = "NONE" /\ cycle'.now = 0
  BY <1>4, <1>5, <1>6, InvalidateTyped DEF FormalTyped
<1> QED BY <1>7 DEF Reject, FormalTyped, ReqTyped, EvidenceTyped
-----------------------------------------------------------------------------
(* The callbacks.                                                          *)

\* An outcome as source_control tells it.
Tellings ==
  [kind : {"pending", "blocked", "ready", "merged"}, m : Nat, item : Items, rev : Nat,
   head : Heads, bound : BOOLEAN, why : Reasons]

\* What a callback projects is a typed row.
LEMMA ProjectedTyped ==
  ASSUME ItemsTyped, NEW t \in Tellings
  PROVE  Projected(t) \in [Items -> ItemRows]
<1> DEFINE i == t.item
           f == Shown(t)
           s == IF t.kind = "merged" THEN "COMPLETED" ELSE "AWAITING_MERGE"
           y == IF t.kind = "blocked" THEN t.why ELSE "NONE"
           b == items[i].bound \/ t.bound
           n == items[i].rev + 1
           row == [items[i] EXCEPT !.formal = f, !.state = s, !.why = y, !.bound = b, !.rev = n]
<1>1. i \in Items /\ s \in {"COMPLETED", "AWAITING_MERGE"} /\ y \in Reasons
      /\ f \in {"RECONCILIATION_PENDING", "BLOCKED", "MR_OPEN", "MERGED"}
  BY DEF Tellings, Shown, Reasons
<1>2. items[i] \in ItemRows
  BY <1>1 DEF ItemsTyped
<1>3. n \in Nat /\ b \in BOOLEAN
  BY <1>2, NextRevision
<1>4. Projected(t) = [items EXCEPT ![i] = row]
  BY DEF Projected
<1> HIDE DEF i, f, s, y, b, n
<1>5. row \in ItemRows
  BY <1>1, <1>2, <1>3 DEF ItemRows, Pending
<1> HIDE DEF row
<1> QED BY <1>1, <1>4, <1>5 DEF ItemsTyped

\* The gate a ready merge request opens is one of the current cycle.
LEMMA WithGateTyped ==
  ASSUME FormalTyped, NEW t \in Tellings, Admits(t)
  PROVE  /\ DOMAIN WithGate(t) \subseteq Items \X (1 .. cycle.last)
         /\ \A g \in DOMAIN WithGate(t) : WithGate(t)[g] \in Gates
<1> DEFINE k == <<t.item, cycle.now>>
           gate == [head |-> t.head, state |-> "OPEN", outcome |-> "NONE"]
<1>1. CASE t.kind = "ready"
  <2>1. Current
    BY <1>1 DEF Admits
  <2>2. cycle.now \in 1 .. cycle.last
    BY <2>1 DEF Current, FormalTyped, ReqTyped, CycleTyped
  <2>3. k \in Items \X (1 .. cycle.last)
    BY <2>2 DEF Tellings
  <2>4. gate \in Gates
    BY DEF Tellings, Gates
  <2>5. WithGate(t) = With(gates, k, gate)
    BY <1>1 DEF WithGate
  <2> HIDE DEF k, gate
  <2> QED BY <2>3, <2>4, <2>5 DEF With, FormalTyped, GatesTyped
<1>2. CASE t.kind # "ready"
  BY <1>2 DEF WithGate, FormalTyped, GatesTyped
<1> QED BY <1>1, <1>2

\* Whatever the callback concludes, it leaves typed rows (project_formal_* with
\* _apply_cycle_conclusion).
LEMMA RecordTyped ==
  ASSUME FormalTyped, NEW t \in Tellings, Accepts(t), Record(t)
  PROVE  FormalTyped'
<1>1. CASE Key(t) \in answers
  BY <1>1 DEF Record, FormalTyped, evidence, ReqTyped, CycleTyped, EvidenceTyped, ItemsTyped, GatesTyped
<1>2. CASE Key(t) \notin answers /\ Concludes(t, Projected(t))
  <2> DEFINE rows0 == Projected(t)
             rs == [i \in Items |-> IF rows0[i].formal = "BLOCKED" /\ rows0[i].why = "HEAD_SHA_CHANGED"
                                    THEN Reopen(rows0[i]) ELSE rows0[i]]
  <2>1. rows0 \in [Items -> ItemRows]
    BY ProjectedTyped DEF FormalTyped
  <2>2. Invalidate(rs, WithGate(t)) /\ req' = "IN_PROGRESS" /\ UNCHANGED <<proof, late, stale>>
    BY <1>2 DEF Record
  <2> HIDE DEF rows0
  <2>3. rs \in [Items -> ItemRows]
    BY <2>1, ReopenTyped
  <2> HIDE DEF rs
  <2>4. Admits(t)
    BY <1>2 DEF Accepts
  <2>5. ItemsTyped' /\ GatesTyped' /\ CycleTyped' /\ acceptance' = "NONE" /\ cycle'.now = 0
    BY <2>2, <2>3, <2>4, WithGateTyped, InvalidateTyped DEF FormalTyped
  <2> QED BY <2>2, <2>5 DEF FormalTyped, ReqTyped, EvidenceTyped
<1>3. CASE Key(t) \notin answers /\ ~Concludes(t, Projected(t))
  <2>1. /\ items' = Projected(t) /\ gates' = WithGate(t)
        /\ req' = IF Completes(t, Projected(t)) THEN "COMPLETED"
                  ELSE IF t.kind \in {"pending", "ready"} THEN req ELSE "AWAITING_MERGE"
        /\ UNCHANGED <<acceptance, evidence>>
    BY <1>3 DEF Record
  <2>2. Admits(t)
    BY <1>3 DEF Accepts
  <2>3. req' \in {req, "COMPLETED", "AWAITING_MERGE"}
    BY <2>1
  <2>4. ReqTyped' /\ EvidenceTyped' /\ CycleTyped'
    BY <2>1, <2>3 DEF FormalTyped, ReqTyped, EvidenceTyped, CycleTyped, evidence
  <2>5. ItemsTyped'
    BY <2>1, ProjectedTyped DEF FormalTyped, ItemsTyped
  <2>6. GatesTyped'
    <3>1. UNCHANGED cycle
      BY <2>1 DEF evidence
    <3> QED BY <2>1, <2>2, <3>1, WithGateTyped DEF GatesTyped
  <2> QED BY <2>4, <2>5, <2>6 DEF FormalTyped
<1> QED BY <1>1, <1>2, <1>3

\* What is told of an effect is a telling of a request there is.
LEMMA TellingTyped ==
  ASSUME RowsTyped, NEW m \in DOMAIN effects
  PROVE  Telling(m) \in Tellings
<1>1. effects[m] \in Effects /\ requests[m] \in Requests /\ m \in Nat
  <2>1. m \in DOMAIN requests
    BY DEF RowsTyped, EffectsTyped
  <2>2. requests \in Seq(Requests)
    BY DEF RowsTyped, RequestsTyped
  <2> QED BY <2>1, <2>2, ElementOfSeq DEF RowsTyped, EffectsTyped
<1> DEFINE kind == CASE effects[m].state = "SUCCEEDED" -> IF requests[m].kind = "CREATE" THEN "ready" ELSE "merged"
                     [] effects[m].state = "BLOCKED"   -> "blocked"
                     [] OTHER                          -> "pending"
<1>2. kind \in {"pending", "blocked", "ready", "merged"}
  OBVIOUS
<1>3. Telling(m) = [kind |-> kind, m |-> m, item |-> requests[m].item, rev |-> requests[m].rev,
                    head |-> requests[m].head,
                    bound |-> kind = "ready" \/ requests[m].bound, why |-> effects[m].why]
  BY DEF Telling
<1> HIDE DEF kind
<1> QED BY <1>1, <1>2, <1>3 DEF Tellings, Effects, Requests
-----------------------------------------------------------------------------
(* The workers.                                                            *)

Places ==
  {"admit", "launch", "agree", "discover", "post", "prove", "check", "put", "block", "unknown"}
Working == RowsTyped /\ CallTyped /\ CallsFit
\* What every step of a worker leaves: typed rows and locals, and the requests it found.
Worked == RowsTyped' /\ CallTyped' /\ CallsFit' /\ Kept

\* A worker goes on in its request.
LEMMA Went ==
  ASSUME CallTyped, CallsFit, NEW w \in Workers, call[w].at # "idle", NEW at \in Places,
         Goto(w, at), DOMAIN requests \subseteq DOMAIN requests'
  PROVE  CallTyped' /\ CallsFit'
<1> DEFINE c == [call[w] EXCEPT !.at = at]
<1>1. call[w] \in CallRows /\ call[w].m \in DOMAIN requests
  BY DEF CallTyped, CallsFit, Fits
<1>2. c \in CallRows /\ c.m = call[w].m /\ c.at = at
  BY <1>1 DEF CallRows, Places
<1>3. Moves(w, c)
  BY DEF Goto
<1>4. c.at # "settle"
  BY <1>2 DEF Places
<1> HIDE DEF c
<1> QED BY <1>1, <1>2, <1>3, <1>4, Moved

\* A worker that goes on with a reason keeps the calls typed.
LEMMA WentFor ==
  ASSUME CallTyped, CallsFit, NEW w \in Workers, call[w].at # "idle", NEW why \in Reasons,
         NEW at \in {"block", "launch"}, Moves(w, [call[w] EXCEPT !.at = at, !.why = why]),
         DOMAIN requests \subseteq DOMAIN requests'
  PROVE  CallTyped' /\ CallsFit'
<1> DEFINE c == [call[w] EXCEPT !.at = at, !.why = why]
<1>1. call[w] \in CallRows /\ call[w].m \in DOMAIN requests
  BY DEF CallTyped, CallsFit, Fits
<1>2. c \in CallRows /\ c.m = call[w].m /\ c.at = at
  BY <1>1 DEF CallRows
<1>3. Moves(w, c)
  OBVIOUS
<1> HIDE DEF c
<1> QED BY <1>1, <1>2, <1>3, Moved

\* A worker goes on with the head it saw.
LEMMA WentSeen ==
  ASSUME CallTyped, CallsFit, NEW w \in Workers, call[w].at # "idle",
         NEW at \in {"settle", "prove"}, NEW mr \in Nat, NEW h \in Heads,
         NEW state \in {"opened", "merged"},
         Moves(w, [call[w] EXCEPT !.at = at, !.mr = mr, !.seen = [state |-> state, head |-> h]]),
         DOMAIN requests \subseteq DOMAIN requests'
  PROVE  CallTyped' /\ CallsFit'
<1> DEFINE c == [call[w] EXCEPT !.at = at, !.mr = mr, !.seen = [state |-> state, head |-> h]]
<1>1. call[w] \in CallRows /\ call[w].m \in DOMAIN requests
  BY DEF CallTyped, CallsFit, Fits
<1>2. h \in Nat
  BY GatesAssumption DEF GatesAssumption
<1>3. c \in CallRows /\ c.m = call[w].m /\ c.seen.head = h
  BY <1>1, <1>2 DEF CallRows
<1>4. Moves(w, c)
  OBVIOUS
<1> HIDE DEF c
<1> QED BY <1>1, <1>3, <1>4, Moved

\* A call that raises keeps the rows and calls typed.
LEMMA RaiseTyped ==
  ASSUME Working, NEW w \in Workers, call[w].at # "idle", Raise(w)
  PROVE  Worked
<1> DEFINE m == call[w].m
<1>1. m \in DOMAIN requests
  BY DEF Working, CallsFit, Fits
<1>2. RequestsTyped' /\ Kept /\ DOMAIN requests' = DOMAIN requests
  <2>1. CASE requests' = requests
    BY <2>1, RequestsStay DEF Working, RowsTyped
  <2>2. CASE requests' = Marked(m, "FAILED", 0)
    <3>1. 0 \in Nat
      OBVIOUS
    <3> QED BY <1>1, <2>2, <3>1, RequestEdit, Zenon DEF Working, RowsTyped
  <2> QED BY <2>1, <2>2 DEF Raise
<1>3. EffectsTyped'
  <2>1. CASE effects' = effects
    BY <1>2, <2>1 DEF Working, RowsTyped, EffectsTyped
  <2>2. CASE effects' = Turned(m, "UNKNOWN", Row(w).tries)
    BY <1>2, <2>2, EffectBack DEF Working, RowsTyped, Row
  <2> QED BY <2>1, <2>2 DEF Raise
<1>4. BindingsTyped'
  BY DEF Raise, Working, RowsTyped, BindingsTyped
<1>5. CallTyped' /\ CallsFit'
  BY <1>2, Left DEF Raise, Working
<1> QED BY <1>2, <1>3, <1>4, <1>5 DEF Worked, RowsTyped

\* Steps of a worker that leave the rows alone.
LEMMA RowsKept ==
  ASSUME Working, UNCHANGED rows
  PROVE  RowsTyped' /\ Kept /\ DOMAIN requests \subseteq DOMAIN requests'
  BY RowsStay DEF Working, rows

\* A worker that goes on and writes nothing keeps them typed.
LEMMA GoTyped ==
  ASSUME Working, NEW w \in Workers, call[w].at # "idle", UNCHANGED rows,
         \/ \E at \in Places : Goto(w, at)
         \/ \E why \in Reasons : Blocks(w, why)
  PROVE  Worked
<1>1. CASE \E at \in Places : Goto(w, at)
  BY <1>1, RowsKept, Went DEF Working, Worked
<1>2. CASE \E why \in Reasons : Blocks(w, why)
  <2>1. PICK why \in Reasons : Blocks(w, why)
    BY <1>2
  <2>2. Moves(w, [call[w] EXCEPT !.at = "block", !.why = why])
    BY <2>1 DEF Blocks
  <2>3. CallTyped' /\ CallsFit'
    BY <2>2, RowsKept, WentFor DEF Working
  <2> QED BY <2>3, RowsKept DEF Worked
<1> QED BY <1>1, <1>2

\* So does one that goes on with what it read in GitLab.
LEMMA SeeTyped ==
  ASSUME Working, NEW w \in Workers, call[w].at # "idle", UNCHANGED rows,
         NEW at \in {"settle", "prove"}, NEW mr \in Nat, NEW h \in Heads,
         NEW state \in {"opened", "merged"},
         Moves(w, [call[w] EXCEPT !.at = at, !.mr = mr, !.seen = [state |-> state, head |-> h]])
  PROVE  Worked
  BY RowsKept, WentSeen DEF Working, Worked

\* The locals a claim starts with.
LEMMA TakeTyped ==
  ASSUME Working, NEW w \in Workers, NEW m \in DOMAIN requests, NEW tries \in Nat,
         DOMAIN requests \subseteq DOMAIN requests',
         \/ Moves(w, [IdleCall EXCEPT !.at = "admit", !.job = "request", !.m = m, !.mtries = tries])
         \/ Moves(w, [IdleCall EXCEPT !.at = "agree", !.job = "reconcile", !.m = m,
                                      !.state = "RECONCILIATION", !.tries = tries])
  PROVE  CallTyped' /\ CallsFit'
<1> DEFINE c == [IdleCall EXCEPT !.at = "admit", !.job = "request", !.m = m, !.mtries = tries]
           d == [IdleCall EXCEPT !.at = "agree", !.job = "reconcile", !.m = m,
                                      !.state = "RECONCILIATION", !.tries = tries]
<1>1. m \in Nat
  BY DEF Working, RowsTyped, RequestsTyped
<1>2. c \in CallRows /\ c.m = m /\ c.at = "admit"
  BY <1>1 DEF CallRows, IdleCall, Reasons
<1>3. d \in CallRows /\ d.m = m /\ d.at = "agree"
  BY <1>1 DEF CallRows, IdleCall, Reasons
<1>4. Moves(w, c) \/ Moves(w, d)
  OBVIOUS
<1> HIDE DEF c, d
<1>5. CASE Moves(w, c)
  BY <1>2, <1>5, Moved DEF Working
<1>6. CASE Moves(w, d)
  BY <1>3, <1>6, Moved DEF Working
<1> QED BY <1>4, <1>5, <1>6

\* A claim of a request keeps the rows and calls typed.
LEMMA TakeRequestTyped ==
  ASSUME Working, NEW w \in Workers, NEW m \in DOMAIN requests, TakeRequest(w, m)
  PROVE  Worked
<1> DEFINE W == {u \in Workers : call[u].m = m}
           tries == Fresh({call[v].mtries : v \in W})
<1>1. IsFiniteSet({call[v].mtries : v \in W})
  <2> DEFINE f == [v \in Workers |-> call[v].mtries]
  <2>1. IsFiniteSet({f[v] : v \in W})
    BY CopiesFinite, Zenon
  <2> QED BY <2>1
<1>2. tries \in Nat
  BY <1>1, FreshTyped, Zenon
<1>3. /\ requests' = Marked(m, "PROCESSING", tries)
      /\ Moves(w, [IdleCall EXCEPT !.at = "admit", !.job = "request", !.m = m, !.mtries = tries])
      /\ UNCHANGED <<effects, bindings>>
  BY DEF TakeRequest
<1> HIDE DEF tries
<1>4. RequestsTyped' /\ Kept /\ DOMAIN requests' = DOMAIN requests
  BY <1>2, <1>3, RequestEdit DEF Working, RowsTyped
<1>5. CallTyped' /\ CallsFit'
  BY <1>2, <1>3, <1>4, TakeTyped
<1>6. EffectsTyped' /\ BindingsTyped'
  BY <1>3, <1>4 DEF Working, RowsTyped, EffectsTyped, BindingsTyped
<1> QED BY <1>4, <1>5, <1>6 DEF Worked, RowsTyped

\* A claim of an effect keeps them typed.
LEMMA TakeEffectTyped ==
  ASSUME Working, NEW w \in Workers, NEW m \in DOMAIN effects, TakeEffect(w, m)
  PROVE  Worked
<1> DEFINE W == {u \in Workers : call[u].m = m}
           tries == Fresh({call[v].tries : v \in W})
<1>1. IsFiniteSet({call[v].tries : v \in W})
  <2> DEFINE f == [v \in Workers |-> call[v].tries]
  <2>1. IsFiniteSet({f[v] : v \in W})
    BY CopiesFinite, Zenon
  <2> QED BY <2>1
<1>2. tries \in Nat
  BY <1>1, FreshTyped, Zenon
<1>3. /\ effects' = Turned(m, "RECONCILIATION", tries)
      /\ Moves(w, [IdleCall EXCEPT !.at = "agree", !.job = "reconcile", !.m = m,
                                  !.state = "RECONCILIATION", !.tries = tries])
      /\ UNCHANGED <<requests, bindings>>
  BY DEF TakeEffect
<1> HIDE DEF tries
<1>4. m \in DOMAIN requests
  BY DEF Working, RowsTyped, EffectsTyped
<1>5. RequestsTyped' /\ Kept /\ DOMAIN requests' = DOMAIN requests
  BY <1>3, RequestsStay DEF Working, RowsTyped
<1>6. CallTyped' /\ CallsFit'
  BY <1>2, <1>3, <1>4, <1>5, TakeTyped
<1>7. EffectsTyped' /\ BindingsTyped'
  BY <1>2, <1>3, <1>5, EffectTurn DEF Working, RowsTyped, BindingsTyped, Unsettled
<1> QED BY <1>5, <1>6, <1>7 DEF Worked, RowsTyped

\* A completed inbox row is a typed row of the same request.
LEMMA ClosedTyped ==
  ASSUME RequestsTyped, NEW m \in DOMAIN requests,
         requests' = Closed(m) \/ requests' = requests
  PROVE  RequestsTyped' /\ Kept /\ DOMAIN requests' = DOMAIN requests
<1>1. CASE requests' = requests
  BY <1>1, RequestsStay
<1>2. CASE requests' = Marked(m, "PROCESSED", 0)
  <2>1. 0 \in Nat
    OBVIOUS
  <2> QED BY <1>2, <2>1, RequestEdit, Zenon
<1> QED BY <1>1, <1>2 DEF Closed

\* The plan of an effect, however it ends, keeps the rows and calls typed.
LEMMA PlanTyped ==
  ASSUME Working, NEW w \in Workers, call[w].at = "admit", NEW why \in Reasons, Plan(w, why)
  PROVE  Worked
<1> DEFINE m == call[w].m
           e == [state |-> "PLANNED", tries |-> 0, acked |-> FALSE, why |-> "NONE"]
           launches == Moves(w, [call[w] EXCEPT !.at = "launch", !.why = why])
<1>1. m \in DOMAIN requests /\ call[w].at # "idle"
  BY DEF Working, CallsFit, Fits
<1>2. CASE effects' = With(effects, m, e) /\ launches /\ UNCHANGED <<requests, bindings>>
  <2>1. RequestsTyped' /\ Kept /\ DOMAIN requests' = DOMAIN requests
    BY <1>2, RequestsStay DEF Working, RowsTyped
  <2>2. e \in Effects
    BY DEF Effects, Reasons
  <2>3. effects' = With(effects, m, e)
    BY <1>2
  <2>4. CallTyped' /\ CallsFit'
    BY <1>1, <1>2, <2>1, WentFor DEF Working
  <2> HIDE DEF e
  <2>5. EffectsTyped'
    BY <1>1, <2>1, <2>2, <2>3 DEF With, Working, RowsTyped, EffectsTyped
  <2> QED BY <1>2, <2>1, <2>4, <2>5 DEF Worked, Working, RowsTyped, BindingsTyped
<1>3. CASE launches /\ UNCHANGED rows
  BY <1>1, <1>3, RowsKept, WentFor DEF Working, Worked
<1>4. CASE requests' = Closed(m) /\ Leave(w) /\ UNCHANGED <<effects, bindings>>
  <2>1. RequestsTyped' /\ Kept /\ DOMAIN requests' = DOMAIN requests
    BY <1>1, <1>4, ClosedTyped DEF Working, RowsTyped
  <2>2. CallTyped' /\ CallsFit'
    BY <1>4, <2>1, Left DEF Working
  <2> QED BY <1>4, <2>1, <2>2 DEF Worked, Working, RowsTyped, EffectsTyped, BindingsTyped
<1>5. CASE Raise(w)
  BY <1>1, <1>5, RaiseTyped
<1>6. \/ effects' = With(effects, m, e) /\ launches /\ UNCHANGED <<requests, bindings>>
      \/ launches /\ UNCHANGED rows
      \/ requests' = Closed(m) /\ Leave(w) /\ UNCHANGED <<effects, bindings>>
      \/ Raise(w)
  BY Zenon DEF Plan
<1> QED BY <1>2, <1>3, <1>4, <1>5, <1>6

\* The admission keeps the rows and calls typed.
LEMMA AdmitTyped ==
  ASSUME Working, NEW w \in Workers, Admit(w)
  PROVE  Worked
<1>1. call[w].at = "admit" /\ call[w].at # "idle"
  BY DEF Admit
<1>2. Raise(w) \/ \E why \in Reasons : Plan(w, why)
  <2>1. {"NONE", "HEAD_SHA_CHANGED", "REFUSED"} \subseteq Reasons
    BY DEF Reasons
  <2>2. \/ Raise(w) \/ Plan(w, "NONE") \/ Plan(w, "HEAD_SHA_CHANGED") \/ Plan(w, "REFUSED")
    BY Zenon DEF Admit
  <2> QED BY <2>1, <2>2, Zenon
<1> QED BY <1>1, <1>2, RaiseTyped, PlanTyped

\* The take-off of an effect keeps them typed.
LEMMA LaunchTyped ==
  ASSUME Working, NEW w \in Workers, Launch(w)
  PROVE  Worked
<1> DEFINE m == call[w].m
           at == IF call[w].why # "NONE" THEN "block"
                 ELSE IF Mine(w).kind = "CREATE" THEN "discover" ELSE "check"
           c == [call[w] EXCEPT !.state = "IN_FLIGHT", !.tries = 1, !.at = at]
<1>1. call[w].at = "launch" /\ call[w].at # "idle"
  BY DEF Launch
<1>2. m \in DOMAIN requests /\ call[w] \in CallRows
  BY <1>1 DEF Working, CallsFit, Fits, CallTyped
<1>3. CASE Raise(w)
  BY <1>1, <1>3, RaiseTyped
<1>4. CASE effects' = Turned(m, "IN_FLIGHT", 1) /\ Moves(w, c) /\ UNCHANGED <<requests, bindings>>
  <2>1. RequestsTyped' /\ Kept /\ DOMAIN requests' = DOMAIN requests
    BY <1>4, RequestsStay DEF Working, RowsTyped
  <2>2. EffectsTyped'
    BY <1>4, <2>1, EffectTurn DEF Working, RowsTyped, Unsettled
  <2>3. Moves(w, c)
    BY <1>4
  <2>4. at \in {"block", "discover", "check"}
    OBVIOUS
  <2> HIDE DEF at
  <2>5. c \in CallRows /\ c.m = m /\ c.at = at
    BY <1>2, <2>4 DEF CallRows
  <2> HIDE DEF c
  <2>6. CallTyped' /\ CallsFit'
    BY <1>2, <2>1, <2>3, <2>4, <2>5, Moved DEF Working
  <2> QED BY <1>4, <2>1, <2>2, <2>6 DEF Worked, Working, RowsTyped, BindingsTyped
<1>5. Raise(w) \/ (effects' = Turned(m, "IN_FLIGHT", 1) /\ Moves(w, c) /\ UNCHANGED <<requests, bindings>>)
  BY DEF Launch
<1> QED BY <1>3, <1>4, <1>5

\* The reconciler's admission keeps them typed.
LEMMA AgreeTyped ==
  ASSUME Working, NEW w \in Workers, Agree(w)
  PROVE  Worked
<1>1. call[w].at # "idle"
  BY DEF Agree
<1>2. Raise(w) \/ (UNCHANGED rows /\ \E at \in Places : Goto(w, at))
  BY DEF Agree, Places
<1> QED BY <1>1, <1>2, RaiseTyped, GoTyped

\* Reads that fail, and refusals.
LEMMA UnreadTyped ==
  ASSUME Working, NEW w \in Workers, call[w].at # "idle",
         Unread(w, "raise") \/ Unread(w, "unknown")
  PROVE  Worked
<1>1. Raise(w) \/ (Goto(w, "unknown") /\ UNCHANGED rows)
  BY DEF Unread
<1>2. "unknown" \in Places
  BY DEF Places
<1> QED BY <1>1, <1>2, RaiseTyped, GoTyped

\* A refusal kept for the next transaction writes nothing yet.
LEMMA RefusedTyped ==
  ASSUME Working, NEW w \in Workers, call[w].at # "idle",
         Deny(w) \/ Refused(w, "REFUSED") \/ Refused(w, "HEAD_SHA_CHANGED")
  PROVE  Worked
<1>1. UNCHANGED rows /\ \E why \in Reasons : Blocks(w, why)
  BY DEF Deny, Refused, Reasons
<1> QED BY <1>1, GoTyped

\* The discovery of the merge request keeps the rows and calls typed.
LEMMA DiscoverTyped ==
  ASSUME Working, GitlabTyped, NEW w \in Workers, Discover(w)
  PROVE  Worked
<1> DEFINE i == Item(w)
           list == mrs[i]
           found == /\ list \in Seq(MergeRequests) /\ Len(list) = 1 /\ UNCHANGED rows
                    /\ Moves(w, [call[w] EXCEPT !.at = "settle", !.mr = 1,
                                   !.seen = [state |-> "opened", head |-> list[1].head]])
<1>1. call[w].at # "idle" /\ call[w].m \in DOMAIN requests
  BY DEF Discover, Working, CallsFit, Fits
<1>2. requests[call[w].m] \in Requests
  BY <1>1, ElementOfSeq DEF Working, RowsTyped, RequestsTyped
<1>3. i \in Items
  BY <1>2 DEF Item, Mine, Requests
<1>4. list \in Seq(MergeRequests)
  BY <1>3 DEF GitlabTyped
<1>5. \/ Unread(w, "raise") \/ Unread(w, "unknown")
      \/ Deny(w) \/ Refused(w, "REFUSED") \/ Refused(w, "HEAD_SHA_CHANGED")
      \/ UNCHANGED rows /\ \E at \in Places : Goto(w, at)
      \/ found
  <2>1. "post" \in Places /\ "unknown" \in Places
    BY DEF Places
  <2> QED BY <1>4, <2>1, Zenon DEF Discover
<1>6. CASE found
  <2>1. list[1] \in MergeRequests
    BY <1>4, <1>6, ElementOfSeq
  <2>2. list[1].head \in Heads /\ 1 \in Nat
    BY <2>1 DEF MergeRequests
  <2> QED BY <1>1, <1>6, <2>2, SeeTyped
<1> QED BY <1>1, <1>5, <1>6, UnreadTyped, RefusedTyped, GoTyped

\* The last look before settling compares the heads, so what is stored is typed.
LEMMA ProveTyped ==
  ASSUME Working, NEW w \in Workers, Prove(w)
  PROVE  Worked
<1> DEFINE settles == Goto(w, "settle") /\ UNCHANGED rows /\ call[w].seen.head = Mine(w).head
<1>1. call[w].at # "idle" /\ call[w].m \in DOMAIN requests /\ call[w] \in CallRows
  BY DEF Prove, Working, CallsFit, Fits, CallTyped
<1>2. requests[call[w].m] \in Requests
  BY <1>1, ElementOfSeq DEF Working, RowsTyped, RequestsTyped
<1>3. \/ Unread(w, "unknown") \/ Refused(w, "REFUSED") \/ Refused(w, "HEAD_SHA_CHANGED")
      \/ settles
  BY Zenon DEF Prove
<1>4. CASE settles
  <2> DEFINE c == [call[w] EXCEPT !.at = "settle"]
  <2>1. c \in CallRows /\ c.m = call[w].m /\ c.at = "settle" /\ c.seen.head = call[w].seen.head
    BY <1>1 DEF CallRows
  <2>2. Moves(w, c)
    BY <1>4 DEF Goto
  <2>3. call[w].seen.head \in Heads
    BY <1>2, <1>4 DEF Requests, Mine
  <2> HIDE DEF c
  <2>4. RowsTyped' /\ Kept /\ DOMAIN requests \subseteq DOMAIN requests'
    BY <1>4, RowsKept
  <2>5. CallTyped' /\ CallsFit'
    BY <1>1, <2>1, <2>2, <2>3, <2>4, Moved DEF Working
  <2> QED BY <2>4, <2>5 DEF Worked
<1> QED BY <1>1, <1>3, <1>4, UnreadTyped, RefusedTyped

\* GitLab's list of merge requests of a branch.
LEMMA ListEdit ==
  ASSUME GitlabTyped, NEW i \in Items, NEW list \in Seq(MergeRequests),
         mrs' = [mrs EXCEPT ![i] = list], branch' \in [Items -> Heads \cup {Gone}]
  PROVE  GitlabTyped'
  BY DEF GitlabTyped

\* A new merge request is at the head of its branch.
LEMMA OpenTyped ==
  ASSUME GitlabTyped, NEW i \in Items, NewMergeRequest(i), UNCHANGED branch
  PROVE  GitlabTyped' /\ branch[i] \in Heads /\ Len(mrs'[i]) \in Nat
<1> DEFINE row == [state |-> "opened", head |-> branch[i], mergedBy |-> "nobody"]
           list == Append(mrs[i], row)
<1>1. branch[i] \in Heads /\ mrs[i] \in Seq(MergeRequests)
  BY DEF NewMergeRequest, Openable, GitlabTyped
<1>2. row \in MergeRequests
  BY <1>1 DEF MergeRequests
<1>3. mrs' = [mrs EXCEPT ![i] = list]
  BY DEF NewMergeRequest
<1> HIDE DEF row
<1>4. list \in Seq(MergeRequests) /\ Len(list) \in Nat
  BY <1>1, <1>2
<1> HIDE DEF list
<1>5. mrs'[i] = list
  BY <1>3 DEF GitlabTyped
<1> QED BY <1>1, <1>3, <1>4, <1>5, ListEdit DEF GitlabTyped

\* A merge keeps GitLab's rows typed.
LEMMA MergesTyped ==
  ASSUME GitlabTyped, NEW i \in Items, NEW k \in DOMAIN mrs[i],
         NEW who \in {"platform", "people"}, Merges(i, k, who)
  PROVE  GitlabTyped'
<1> DEFINE row == [mrs[i][k] EXCEPT !.state = "merged", !.mergedBy = who]
           list == [mrs[i] EXCEPT ![k] = row]
<1>1. mrs[i] \in Seq(MergeRequests) /\ mrs[i][k] \in MergeRequests
  BY ElementOfSeq DEF GitlabTyped
<1>2. row \in MergeRequests
  BY <1>1 DEF MergeRequests
<1>3. mrs' = [mrs EXCEPT ![i] = list] /\ branch' = [branch EXCEPT ![i] = Gone]
  BY DEF Merges
<1> HIDE DEF row
<1>4. list \in Seq(MergeRequests)
  BY <1>1, <1>2, ExceptSeq
<1> HIDE DEF list
<1>5. branch' \in [Items -> Heads \cup {Gone}]
  BY <1>3 DEF GitlabTyped
<1> QED BY <1>3, <1>4, <1>5, ListEdit

\* A push keeps GitLab's rows typed.
LEMMA PushedTyped ==
  ASSUME GitlabTyped, NEW i \in Items, NEW h \in Heads, Pushed(i, h)
  PROVE  GitlabTyped'
<1> DEFINE row(k) == IF mrs[i][k].state = "opened" THEN [mrs[i][k] EXCEPT !.head = h] ELSE mrs[i][k]
           list == [k \in DOMAIN mrs[i] |-> row(k)]
<1>1. mrs[i] \in Seq(MergeRequests)
  BY DEF GitlabTyped
<1>2. ASSUME NEW k \in DOMAIN mrs[i] PROVE row(k) \in MergeRequests
  <2>1. mrs[i][k] \in MergeRequests
    BY <1>1, ElementOfSeq
  <2> QED BY <2>1 DEF MergeRequests
<1>3. mrs' = [mrs EXCEPT ![i] = list] /\ branch' = [branch EXCEPT ![i] = h]
  BY DEF Pushed
<1> HIDE DEF row
<1>4. list \in Seq(MergeRequests)
  <2>1. DOMAIN mrs[i] = 1 .. Len(mrs[i]) /\ Len(mrs[i]) \in Nat
    BY <1>1
  <2>2. list = [k \in 1 .. Len(mrs[i]) |-> row(k)]
    BY <2>1
  <2>3. ASSUME NEW k \in 1 .. Len(mrs[i]) PROVE row(k) \in MergeRequests
    BY <1>2, <2>1
  <2> QED BY <2>1, <2>2, <2>3, IsASeq
<1> HIDE DEF list
<1>5. branch' \in [Items -> Heads \cup {Gone}]
  BY <1>3 DEF GitlabTyped
<1> QED BY <1>3, <1>4, <1>5, ListEdit

\* The request a worker works for.
LEMMA MineTyped ==
  ASSUME Working, NEW w \in Workers, call[w].at # "idle"
  PROVE  /\ call[w].m \in DOMAIN requests /\ call[w] \in CallRows
         /\ Mine(w) \in Requests /\ Item(w) \in Items /\ Mine(w).head \in Heads
<1>1. call[w].m \in DOMAIN requests /\ call[w] \in CallRows
  BY DEF Working, CallsFit, Fits, CallTyped
<1>2. requests[call[w].m] \in Requests
  BY <1>1, ElementOfSeq DEF Working, RowsTyped, RequestsTyped
<1> QED BY <1>1, <1>2 DEF Item, Mine, Requests

\* The POST of the merge request keeps all rows and calls typed.
LEMMA PostTyped ==
  ASSUME Working, GitlabTyped, NEW w \in Workers, Post(w)
  PROVE  Worked /\ GitlabTyped'
<1> DEFINE i == Item(w)
           found == /\ NewMergeRequest(i)
                    /\ Moves(w, [call[w] EXCEPT !.at = "prove", !.mr = Len(mrs'[i]),
                                   !.seen = [state |-> "opened", head |-> branch[i]]])
<1>1. call[w].at # "idle" /\ i \in Items /\ UNCHANGED rows /\ UNCHANGED branch
  BY MineTyped DEF Post
<1>2. NewMergeRequest(i) \/ UNCHANGED mrs
  BY Zenon DEF Post
<1>3. GitlabTyped'
  BY <1>1, <1>2, OpenTyped, GitlabStays DEF gitlab
<1>4. \/ \E at \in Places : Goto(w, at)
      \/ \E why \in Reasons : Blocks(w, why)
      \/ found
  <2>1. "unknown" \in Places /\ "REFUSED" \in Reasons
    BY DEF Places, Reasons
  <2> QED BY <2>1, Zenon DEF Post
<1>5. ASSUME found PROVE Worked
  <2>1. branch[i] \in Heads /\ Len(mrs'[i]) \in Nat
    BY <1>1, <1>5, OpenTyped
  <2> QED BY <1>1, <1>5, <2>1, SeeTyped
<1> QED BY <1>1, <1>3, <1>4, <1>5, GoTyped

\* A merge is asked for only under the binding of the work item.
LEMMA CheckTyped ==
  ASSUME Working, NEW w \in Workers, Item(w) \in DOMAIN bindings, Check(w)
  PROVE  Worked
<1> DEFINE i == Item(w)
           mr == mrs[i][bindings[i].mr]
           found == /\ UNCHANGED rows /\ mr.head = Mine(w).head /\ mr.state = "merged"
                    /\ Moves(w, [call[w] EXCEPT !.at = "settle", !.mr = bindings[i].mr,
                                   !.seen = [state |-> mr.state, head |-> mr.head]])
           puts == UNCHANGED rows /\ Moves(w, [call[w] EXCEPT !.at = "put", !.mr = bindings[i].mr])
<1>1. call[w].at # "idle" /\ call[w].m \in DOMAIN requests /\ call[w] \in CallRows
      /\ Mine(w).head \in Heads
  BY MineTyped DEF Check
<1>2. bindings[i] \in BindingRows
  BY DEF Working, RowsTyped, BindingsTyped
<1>3. bindings[i].mr \in Nat
  BY <1>2 DEF BindingRows
<1>4. \/ Unread(w, "raise") \/ Unread(w, "unknown")
      \/ Deny(w) \/ Refused(w, "REFUSED") \/ Refused(w, "HEAD_SHA_CHANGED")
      \/ found \/ puts
  BY Zenon DEF Check
<1>5. CASE found
  <2>1. Moves(w, [call[w] EXCEPT !.at = "settle", !.mr = bindings[i].mr,
                    !.seen = [state |-> "merged", head |-> Mine(w).head]])
    BY <1>5, Zenon
  <2> QED BY <1>1, <1>3, <1>5, <2>1, SeeTyped
<1>6. CASE puts
  <2> DEFINE c == [call[w] EXCEPT !.at = "put", !.mr = bindings[i].mr]
  <2>1. Moves(w, c)
    BY <1>6
  <2>2. c \in CallRows /\ c.m = call[w].m /\ c.at = "put"
    BY <1>1, <1>3 DEF CallRows
  <2> HIDE DEF c
  <2>3. RowsTyped' /\ Kept /\ DOMAIN requests \subseteq DOMAIN requests'
    BY <1>6, RowsKept
  <2>4. CallTyped' /\ CallsFit'
    BY <1>1, <2>1, <2>2, <2>3, Moved DEF Working
  <2> QED BY <2>3, <2>4 DEF Worked
<1> QED BY <1>1, <1>4, <1>5, <1>6, UnreadTyped, RefusedTyped

\* The PUT of the merge keeps all rows and calls typed.
LEMMA PutTyped ==
  ASSUME Working, GitlabTyped, NEW w \in Workers, call[w].mr \in DOMAIN mrs[Item(w)], Put(w)
  PROVE  Worked /\ GitlabTyped'
<1> DEFINE i == Item(w)
           k == call[w].mr
           mr == mrs[i][k]
           merged == /\ mr.head = Mine(w).head
                     /\ Moves(w, [call[w] EXCEPT !.at = "settle",
                                    !.seen = [state |-> "merged", head |-> mr.head]])
<1>1. call[w].at # "idle" /\ call[w].m \in DOMAIN requests /\ call[w] \in CallRows
      /\ Mine(w).head \in Heads /\ i \in Items /\ UNCHANGED rows
  BY MineTyped DEF Put
<1>2. Merges(i, k, "platform") \/ UNCHANGED gitlab
  BY Zenon DEF Put, gitlab
<1>3. GitlabTyped'
  BY <1>1, <1>2, MergesTyped, GitlabStays
<1>4. \/ \E at \in Places : Goto(w, at)
      \/ \E why \in Reasons : Blocks(w, why)
      \/ merged
  <2>1. "unknown" \in Places /\ "REFUSED" \in Reasons /\ "HEAD_SHA_CHANGED" \in Reasons
    BY DEF Places, Reasons
  <2> QED BY <2>1, Zenon DEF Put
<1>5. ASSUME merged PROVE Worked
  <2> DEFINE c == [call[w] EXCEPT !.at = "settle", !.seen = [state |-> "merged", head |-> Mine(w).head]]
  <2>1. Moves(w, c)
    BY <1>5, Zenon
  <2>2. Mine(w).head \in Nat
    BY <1>1, GatesAssumption DEF GatesAssumption
  <2>3. c \in CallRows /\ c.m = call[w].m /\ c.seen.head = Mine(w).head /\ c.at = "settle"
    BY <1>1, <2>2 DEF CallRows
  <2> HIDE DEF c
  <2>4. RowsTyped' /\ Kept /\ DOMAIN requests \subseteq DOMAIN requests'
    BY <1>1, RowsKept
  <2>5. CallTyped' /\ CallsFit'
    BY <1>1, <2>1, <2>3, <2>4, Moved DEF Working
  <2> QED BY <2>4, <2>5 DEF Worked
<1> QED BY <1>1, <1>3, <1>4, <1>5, GoTyped

\* Outcomes (settle_*_effect, block_effect) and doubts.
LEMMA FinishTyped ==
  ASSUME EffectsTyped, DOMAIN requests \subseteq DOMAIN requests', NEW m, NEW why \in Reasons,
         NEW state \in Final, effects' = Finish(m, state, why)
  PROVE  EffectsTyped'
<1> DEFINE e == [state |-> state, why |-> why, tries |-> 0, acked |-> FALSE]
<1>1. e \in Effects
  BY DEF Effects
<1>2. effects' = [effects EXCEPT ![m] = e]
  BY DEF Finish
<1> HIDE DEF e
<1> QED BY <1>1, <1>2, EffectEdit

\* The settling of an effect keeps the rows and calls typed.
LEMMA SettleTyped ==
  ASSUME Working, NEW w \in Workers, Settle(w)
  PROVE  Worked
<1> DEFINE c == call[w]
           r == Mine(w)
           made == With(bindings, r.item, [mr |-> c.mr, seen |-> c.seen, cycle |-> r.cycle])
           seen == [bindings EXCEPT ![r.item].seen = c.seen]
           settles == /\ effects' = Finish(c.m, "SUCCEEDED", "NONE") /\ Leave(w)
                      /\ requests' = Closed(c.m) \/ requests' = requests
                      /\ bindings' = made \/ bindings' = seen
<1>1. call[w].at # "idle" /\ call[w].at = "settle"
  BY DEF Settle
<1>2. c.m \in DOMAIN requests /\ c \in CallRows /\ r \in Requests /\ c.seen.head \in Heads
  BY <1>1, MineTyped DEF Working, CallsFit, Fits
<1>3. settles \/ Raise(w)
  BY Zenon DEF Settle
<1>4. CASE settles
  <2>1. RequestsTyped' /\ Kept /\ DOMAIN requests' = DOMAIN requests
    BY <1>2, <1>4, ClosedTyped DEF Working, RowsTyped
  <2>2. EffectsTyped'
    BY <1>4, <2>1, FinishTyped DEF Working, RowsTyped, Reasons, Final
  <2>3. CallTyped' /\ CallsFit'
    BY <1>4, <2>1, Left DEF Working
  <2>4. BindingsTyped'
    <3> DEFINE b == [mr |-> c.mr, seen |-> c.seen, cycle |-> r.cycle]
               d == [bindings[r.item] EXCEPT !.seen = c.seen]
    <3>1. b \in BindingRows /\ r.item \in Items
      BY <1>2 DEF BindingRows, CallRows, Requests
    <3>2. CASE bindings' = made
      <4>1. bindings' = With(bindings, r.item, b)
        BY <3>2
      <4> HIDE DEF b
      <4> QED BY <3>1, <4>1 DEF With, Working, RowsTyped, BindingsTyped
    <3>3. CASE bindings' = seen /\ r.item \in DOMAIN bindings
      <4>1. bindings' = [bindings EXCEPT ![r.item] = d]
        BY <3>3
      <4>2. bindings[r.item] \in BindingRows
        BY <3>3 DEF Working, RowsTyped, BindingsTyped
      <4>3. d \in BindingRows
        BY <1>2, <4>2 DEF BindingRows, CallRows
      <4> HIDE DEF d
      <4> QED BY <4>1, <4>3 DEF Working, RowsTyped, BindingsTyped
    <3>4. CASE bindings' = seen /\ r.item \notin DOMAIN bindings
      BY <3>4 DEF Working, RowsTyped, BindingsTyped
    <3> QED BY <1>4, <3>2, <3>3, <3>4
  <2> QED BY <2>1, <2>2, <2>3, <2>4 DEF Worked, RowsTyped
<1> QED BY <1>1, <1>3, <1>4, RaiseTyped

\* The blocking of an effect keeps them typed.
LEMMA BlockTyped ==
  ASSUME Working, NEW w \in Workers, Block(w)
  PROVE  Worked
<1> DEFINE c == call[w]
           blocks == /\ effects' = Finish(c.m, "BLOCKED", c.why) /\ Leave(w) /\ UNCHANGED bindings
                     /\ requests' = Closed(c.m) \/ requests' = requests
<1>1. c.at # "idle" /\ c.m \in DOMAIN requests /\ c \in CallRows
  BY MineTyped DEF Block
<1>2. blocks \/ Raise(w) \/ (Leave(w) /\ UNCHANGED rows)
  BY Zenon DEF Block
<1>3. CASE blocks
  <2>1. RequestsTyped' /\ Kept /\ DOMAIN requests' = DOMAIN requests
    BY <1>1, <1>3, ClosedTyped DEF Working, RowsTyped
  <2>2. c.why \in Reasons
    BY <1>1 DEF CallRows
  <2>3. EffectsTyped'
    BY <1>3, <2>1, <2>2, FinishTyped DEF Working, RowsTyped, Final
  <2>4. CallTyped' /\ CallsFit'
    BY <1>3, <2>1, Left DEF Working
  <2> QED BY <1>3, <2>1, <2>3, <2>4 DEF Worked, Working, RowsTyped, BindingsTyped
<1>4. CASE Leave(w) /\ UNCHANGED rows
  BY <1>4, RowsKept, Left DEF Working, Worked
<1> QED BY <1>1, <1>2, <1>3, <1>4, RaiseTyped

\* An unknown outcome keeps them typed.
LEMMA DoubtTyped ==
  ASSUME Working, NEW w \in Workers, Doubt(w)
  PROVE  Worked
<1> DEFINE c == call[w]
           doubts == /\ effects' = Turned(c.m, "UNKNOWN", effects[c.m].tries) /\ Leave(w)
                     /\ UNCHANGED bindings /\ requests' = Closed(c.m)
<1>1. c.at # "idle" /\ c.m \in DOMAIN requests
  BY MineTyped DEF Doubt
<1>2. doubts \/ Raise(w)
  BY Zenon DEF Doubt, Row
<1>3. CASE doubts
  <2>1. RequestsTyped' /\ Kept /\ DOMAIN requests' = DOMAIN requests
    BY <1>1, <1>3, ClosedTyped DEF Working, RowsTyped
  <2>2. EffectsTyped'
    BY <1>3, <2>1, EffectBack DEF Working, RowsTyped
  <2>3. CallTyped' /\ CallsFit'
    BY <1>3, <2>1, Left DEF Working
  <2> QED BY <1>3, <2>1, <2>2, <2>3 DEF Worked, Working, RowsTyped, BindingsTyped
<1> QED BY <1>1, <1>2, <1>3, RaiseTyped

\* An acknowledgement touches the effect alone.
LEMMA TellTyped ==
  ASSUME FormalTyped, Working, NEW m \in DOMAIN effects, Tell(m)
  PROVE  FormalTyped' /\ Worked
<1>1. FormalTyped'
  BY TellingTyped, RecordTyped DEF Tell, Working
<1>2. UNCHANGED <<requests, bindings, call>>
  BY DEF Tell
<1>3. RequestsTyped' /\ Kept /\ DOMAIN requests' = DOMAIN requests
  BY <1>2, RequestsStay DEF Working, RowsTyped
<1>4. EffectsTyped'
  <2> DEFINE e == [effects[m] EXCEPT !.acked = TRUE]
  <2>1. effects[m] \in Effects
    BY DEF Working, RowsTyped, EffectsTyped
  <2>2. e \in Effects
    BY <2>1 DEF Effects
  <2>3. effects' = [effects EXCEPT ![m] = e] \/ effects' = effects
    BY DEF Tell
  <2> HIDE DEF e
  <2> QED BY <1>3, <2>2, <2>3 DEF Working, RowsTyped, EffectsTyped
<1>5. CallTyped' /\ CallsFit'
  BY <1>2, <1>3, Stayed DEF Working
<1> QED BY <1>1, <1>2, <1>3, <1>4, <1>5 DEF Worked, Working, RowsTyped, BindingsTyped

\* What people ask and do leaves the rows and the calls to the workers.
LEMMA OthersTyped ==
  ASSUME Working, UNCHANGED <<effects, bindings, call>>, RequestsTyped', Kept
  PROVE  Worked
<1>1. CallTyped' /\ CallsFit'
  BY Stayed DEF Working, Kept
<1> QED BY <1>1 DEF Worked, Working, RowsTyped, EffectsTyped, BindingsTyped, Kept

\* What people ask keeps all of it typed.
LEMMA AsksTyped ==
  ASSUME Typed, Asks
  PROVE  FormalTyped' /\ Worked
<1>1. FormalTyped /\ Working /\ RequestsTyped
  BY DEF Typed, Working, RowsTyped
<1>2. ASSUME NEW i \in Items, NEW kind \in {"CREATE", "MERGE"}, Request(i, kind)
      PROVE  FormalTyped' /\ RequestsTyped' /\ Kept
  BY <1>1, <1>2, RequestTyped
<1>3. ASSUME UNCHANGED requests PROVE RequestsTyped' /\ Kept
  BY <1>1, <1>3, RequestsStay
<1>4. FormalTyped' /\ RequestsTyped' /\ Kept
  <2>1. CASE Select
    BY <1>1, <1>3, <2>1, SelectTyped
  <2>2. CASE Accept
    BY <1>1, <1>3, <2>2, AcceptTyped
  <2>3. CASE Decline
    BY <1>1, <1>3, <2>3, DeclineTyped
  <2>4. CASE \E i \in Items : Approve(i)
    BY <1>1, <1>3, <2>4, ApproveTyped
  <2>5. CASE \E i \in Items : Reject(i)
    BY <1>1, <1>3, <2>5, RejectTyped
  <2>6. CASE \E i \in Items : ReceiveValidation(i)
    BY <1>1, <1>3, <2>6, ReceiveTyped
  <2>7. CASE \E i \in Items : SubmitValidation(i)
    BY <1>1, <1>3, <2>7, SubmitTyped
  <2>8. CASE \E i \in Items, kind \in {"CREATE", "MERGE"} : Request(i, kind)
    BY <1>2, <2>8
  <2> QED BY <2>1, <2>2, <2>3, <2>4, <2>5, <2>6, <2>7, <2>8 DEF Asks
<1>5. UNCHANGED <<effects, bindings, call>>
  BY DEF Asks
<1> QED BY <1>1, <1>4, <1>5, OthersTyped
-----------------------------------------------------------------------------
(* The requirement alone: the acceptance and what is under way.            *)

\* An open review has no decision yet, and a completed requirement nothing to deliver.
Standing ==
  /\ PendingKeepsAcceptance /\ InvalidationApplied
  /\ req = "COMPLETED" => \A i \in Items : items[i].formal = "MERGED"
  /\ \A g \in DOMAIN gates : gates[g].state = "OPEN" => gates[g].outcome = "NONE"
-----------------------------------------------------------------------------
(* The acceptance and what is under way.                                   *)

\* Taking the evidence back leaves the projections and the decisions alone.
LEMMA InvalidateShown ==
  ASSUME NEW rs \in [Items -> ItemRows], NEW reviews,
         \A g \in DOMAIN reviews : reviews[g] \in Gates,
         Invalidate(rs, reviews)
  PROVE  /\ \A i \in Items : items'[i].formal = rs[i].formal /\ items'[i].why = rs[i].why
                            /\ items'[i].bound = rs[i].bound
         /\ DOMAIN gates' = DOMAIN reviews
         /\ \A g \in DOMAIN reviews :
              /\ gates'[g].state = "INVALIDATED" /\ gates'[g].head = reviews[g].head
              /\ gates'[g].outcome = reviews[g].outcome
<1>1. ASSUME NEW i \in Items
      PROVE  items'[i].formal = rs[i].formal /\ items'[i].why = rs[i].why
             /\ items'[i].bound = rs[i].bound
  <2> DEFINE row == rs[i]
             n == row.rev + 1
             r == [row EXCEPT !.state = "VERIFYING", !.rev = n]
  <2>1. items'[i] \in {r, row}
    BY DEF Invalidate
  <2>2. row \in ItemRows /\ n \in Nat
    BY NextRevision
  <2> HIDE DEF n
  <2>3. r.formal = row.formal /\ r.why = row.why /\ r.bound = row.bound
    BY <2>2 DEF ItemRows
  <2> HIDE DEF r
  <2> QED BY <2>1, <2>3
<1>2. DOMAIN gates' = DOMAIN reviews
  BY DEF Invalidate
<1>3. ASSUME NEW g \in DOMAIN reviews
      PROVE  /\ gates'[g].state = "INVALIDATED" /\ gates'[g].head = reviews[g].head
             /\ gates'[g].outcome = reviews[g].outcome
  <2>1. gates'[g] = [reviews[g] EXCEPT !.state = "INVALIDATED"]
    BY DEF Invalidate
  <2>2. reviews[g] \in Gates
    OBVIOUS
  <2>3. ASSUME NEW gate \in Gates
        PROVE  LET h == [gate EXCEPT !.state = "INVALIDATED"]
               IN  h.state = "INVALIDATED" /\ h.head = gate.head /\ h.outcome = gate.outcome
    BY DEF Gates
  <2> QED BY <2>1, <2>2, <2>3, Zenon
<1> QED BY <1>1, <1>2, <1>3

\* A work item sent back is neither under way nor contradicted.
LEMMA ReopenShown ==
  ASSUME NEW row \in ItemRows
  PROVE  /\ Reopen(row).formal \in {"MR_OPEN", "NOT_STARTED"} /\ Reopen(row).why = "NONE"
         /\ Reopen(row).bound = row.bound
<1>1. row.rev + 1 \in Nat
  BY NextRevision
<1>2. ASSUME NEW n \in Nat
      PROVE  LET r == [row EXCEPT !.state = "IN_PROGRESS", !.integrated = FALSE, !.why = "NONE",
                        !.formal = IF row.bound THEN "MR_OPEN" ELSE "NOT_STARTED", !.rev = n]
             IN  r.formal \in {"MR_OPEN", "NOT_STARTED"} /\ r.why = "NONE" /\ r.bound = row.bound
  BY DEF ItemRows
<1> QED BY <1>1, <1>2, Zenon DEF Reopen

\* The evidence is taken back when nothing is under way, and nothing is contradicted
\* after it: what every caller of invalidate_current_delivery_evidence relies on.
LEMMA InvalidateStands ==
  ASSUME CycleTyped, NEW rs \in [Items -> ItemRows], NEW reviews,
         \A g \in DOMAIN reviews : reviews[g] \in Gates,
         Invalidate(rs, reviews), ~Busy(rs), ~Contradicted(rs), req' # "COMPLETED"
  PROVE  Standing'
<1>1. ~Busy(items') /\ ~Contradicted(items')
  BY InvalidateShown DEF Busy, Contradicted
<1>2. \A g \in DOMAIN gates' : gates'[g].state # "OPEN"
  BY InvalidateShown
<1> QED BY <1>1, <1>2 DEF Standing, PendingKeepsAcceptance, InvalidationApplied, Busy, Contradicted

\* A reworked head shows no other delivery of any work item.
LEMMA ReintegrateStands ==
  ASSUME FormalTyped, Standing, NEW i \in Items, NEW h \in Heads, Reintegrate(i, h)
  PROVE  Standing'
<1> DEFINE row == [items[i] EXCEPT !.state = "VERIFYING", !.integrated = TRUE, !.rev = @ + 1]
<1>1. items[i] \in ItemRows
  BY DEF FormalTyped, ItemsTyped
<1>2. row.formal = items[i].formal /\ row.why = items[i].why
  <2>1. ASSUME NEW n \in Nat
        PROVE  LET r == [items[i] EXCEPT !.state = "VERIFYING", !.integrated = TRUE, !.rev = n]
               IN  r.formal = items[i].formal /\ r.why = items[i].why
    BY <1>1 DEF ItemRows
  <2> QED BY <1>1, <2>1, NextRevision, Zenon
<1>3. items' = [items EXCEPT ![i] = row]
  BY DEF Reintegrate
<1> HIDE DEF row
<1>4. \A j \in Items : items'[j].formal = items[j].formal /\ items'[j].why = items[j].why
  BY <1>2, <1>3 DEF FormalTyped, ItemsTyped
<1>5. req = "IN_PROGRESS" /\ req' # "COMPLETED" /\ UNCHANGED gates
  BY DEF Reintegrate
<1> QED
  BY <1>4, <1>5 DEF Standing, PendingKeepsAcceptance, InvalidationApplied, Busy, Contradicted

\* A selection is made where nothing is under way.
LEMMA SelectStands ==
  ASSUME Standing, Select
  PROVE  Standing'
  BY DEF Select, Standing, PendingKeepsAcceptance, InvalidationApplied, Busy, Contradicted

\* An acceptance decides where nothing is under way.
LEMMA AcceptStands ==
  ASSUME Standing, Accept
  PROVE  Standing'
  BY DEF Accept, Standing, PendingKeepsAcceptance, InvalidationApplied, Busy, Contradicted

\* The arrival of a validation changes no projection.
LEMMA ReceiveStands ==
  ASSUME Standing, NEW i \in Items, ReceiveValidation(i)
  PROVE  Standing'
  BY DEF ReceiveValidation, Standing, PendingKeepsAcceptance, InvalidationApplied, Busy, Contradicted

\* A late validation is refused while a delivery is under way.
LEMMA SubmitStands ==
  ASSUME FormalTyped, Standing, NEW i \in Items, SubmitValidation(i)
  PROVE  Standing'
<1>1. ~Busy(items) /\ ~Contradicted(items) /\ req' # "COMPLETED" /\ Invalidate(items, gates)
  BY DEF SubmitValidation, Standing, InvalidationApplied
<1> QED BY <1>1, InvalidateStands DEF FormalTyped, ItemsTyped, GatesTyped

\* So is a declined acceptance, and what it sends back contradicts nothing.
LEMMA DeclineStands ==
  ASSUME FormalTyped, Standing, Decline
  PROVE  Standing'
<1> DEFINE rs == [i \in Items |-> IF items[i].integrated /\ items[i].formal # "MERGED"
                                  THEN Reopen(items[i]) ELSE items[i]]
<1>1. items \in [Items -> ItemRows]
  BY DEF FormalTyped, ItemsTyped
<1>2. rs \in [Items -> ItemRows]
  BY <1>1, ReopenTyped
<1>3. Invalidate(rs, gates) /\ ~Busy(items) /\ ~Contradicted(items) /\ req' # "COMPLETED"
  BY DEF Decline, Standing, InvalidationApplied
<1>4. \A i \in Items : \/ rs[i].formal \in {"MR_OPEN", "NOT_STARTED"} /\ rs[i].why = "NONE"
                       \/ rs[i] = items[i]
  BY <1>1, ReopenShown
<1> HIDE DEF rs
<1>5. ~Busy(rs) /\ ~Contradicted(rs)
  BY <1>3, <1>4 DEF Busy, Contradicted, Pending
<1> QED BY <1>2, <1>3, <1>5, InvalidateStands DEF FormalTyped, GatesTyped

\* A request is made under an acceptance that stands and is not contradicted.
LEMMA RequestStands ==
  ASSUME FormalTyped, Standing, NEW i \in Items, NEW kind \in {"CREATE", "MERGE"},
         Request(i, kind)
  PROVE  Standing'
<1> DEFINE f == IF kind = "CREATE" THEN "MR_PENDING" ELSE "MERGE_PENDING"
           n == items[i].rev + 1
           row == [items[i] EXCEPT !.state = "AWAITING_MERGE", !.why = "NONE", !.formal = f, !.rev = n]
<1>1. items[i] \in ItemRows
  BY DEF FormalTyped, ItemsTyped
<1>2. n \in Nat /\ f \in Pending
  BY <1>1, NextRevision DEF Pending
<1>3. items' = [items EXCEPT ![i] = row]
  BY DEF Request
<1> HIDE DEF n, f
<1>4. row.formal \in Pending
  BY <1>1, <1>2 DEF ItemRows
<1> HIDE DEF row
<1>5. Busy(items')
  BY <1>3, <1>4 DEF Busy, FormalTyped, ItemsTyped
<1>6. req = "AWAITING_MERGE" /\ acceptance = "APPROVED"
  <2>1. items[i].formal # "MERGED"
    BY DEF Request, MayCreate, MayMerge
  <2> QED BY <2>1 DEF Request, Current, Standing
<1>7. UNCHANGED <<req, acceptance, gates>>
  BY DEF Request
<1> QED
  BY <1>5, <1>6, <1>7 DEF Standing, PendingKeepsAcceptance, InvalidationApplied, Busy, Contradicted

\* An approval leaves no gate open with a decision.
LEMMA ApproveStands ==
  ASSUME FormalTyped, Standing, NEW i \in Items, Approve(i)
  PROVE  Standing'
<1> DEFINE k == <<i, Latest(i)>>
           gate == [gates[k] EXCEPT !.state = "DECIDED", !.outcome = "APPROVED"]
<1>1. k \in DOMAIN gates
  BY ReviewThere DEF Approve, Reviewable, FormalTyped
<1>2. gates[k] \in Gates
  BY <1>1 DEF FormalTyped, GatesTyped
<1>3. gate.state = "DECIDED"
  BY <1>2 DEF Gates
<1>4. gates' = [gates EXCEPT ![k] = gate] /\ UNCHANGED <<req, acceptance, items>>
  BY DEF Approve
<1> HIDE DEF gate, k
<1>5. \A g \in DOMAIN gates' : gates'[g].state = "OPEN" => gates'[g].outcome = "NONE"
  BY <1>3, <1>4 DEF Standing
<1> QED BY <1>4, <1>5 DEF Standing, PendingKeepsAcceptance, InvalidationApplied, Busy, Contradicted

\* A rejection is refused while a delivery is under way.
LEMMA RejectStands ==
  ASSUME FormalTyped, Standing, NEW i \in Items, Reject(i)
  PROVE  Standing'
<1> DEFINE k == <<i, Latest(i)>>
           gate == [gates[k] EXCEPT !.outcome = "REJECTED"]
           rs == [items EXCEPT ![i] = Reopen(@)]
           reviews == [gates EXCEPT ![k] = gate]
<1>1. k \in DOMAIN gates
  BY ReviewThere DEF Reject, Reviewable, FormalTyped
<1>2. gates[k] \in Gates
  BY <1>1 DEF FormalTyped, GatesTyped
<1>3. gate \in Gates
  BY <1>2, GateEdit, Zenon
<1>4. Invalidate(rs, reviews) /\ ~Busy(items) /\ ~Contradicted(items) /\ req' # "COMPLETED"
  BY DEF Reject, Standing, InvalidationApplied
<1>5. rs \in [Items -> ItemRows] /\ rs[i].formal \in {"MR_OPEN", "NOT_STARTED"}
      /\ \A j \in Items \ {i} : rs[j] = items[j]
  BY ReopenTyped, ReopenShown DEF FormalTyped, ItemsTyped
<1> HIDE DEF gate, k
<1>6. \A g \in DOMAIN reviews : reviews[g] \in Gates
  BY <1>3 DEF FormalTyped, GatesTyped
<1> HIDE DEF rs, reviews
<1>7. ~Busy(rs) /\ ~Contradicted(rs)
  BY <1>4, <1>5 DEF Busy, Contradicted, Pending
<1> QED BY <1>4, <1>5, <1>6, <1>7, InvalidateStands DEF FormalTyped

\* What a callback shows of its work item, the others left alone.
LEMMA ProjectedShown ==
  ASSUME ItemsTyped, NEW t \in Tellings
  PROVE  /\ \A j \in Items \ {t.item} : Projected(t)[j] = items[j]
         /\ Projected(t)[t.item].formal = Shown(t)
         /\ Projected(t)[t.item].bound = (items[t.item].bound \/ t.bound)
<1> DEFINE i == t.item
           f == Shown(t)
           s == IF t.kind = "merged" THEN "COMPLETED" ELSE "AWAITING_MERGE"
           y == IF t.kind = "blocked" THEN t.why ELSE "NONE"
           b == items[i].bound \/ t.bound
           n == items[i].rev + 1
           row == [items[i] EXCEPT !.formal = f, !.state = s, !.why = y, !.bound = b, !.rev = n]
<1>1. i \in Items /\ items[i] \in ItemRows
  BY DEF Tellings, ItemsTyped
<1>2. Projected(t) = [items EXCEPT ![i] = row]
  BY DEF Projected
<1>3. n \in Nat /\ b \in BOOLEAN
  BY <1>1, NextRevision
<1> HIDE DEF f, s, y, b, n, i
<1>4. row.formal = f /\ row.bound = b
  BY <1>1, <1>3 DEF ItemRows
<1> HIDE DEF row
<1>5. /\ \A j \in Items \ {i} : Projected(t)[j] = items[j]
      /\ Projected(t)[i].formal = f /\ Projected(t)[i].bound = b
  BY <1>1, <1>2, <1>4 DEF ItemsTyped
<1> QED BY <1>5, Zenon DEF i, f, b

\* A callback is admitted only for a delivery that is under way.
LEMMA AdmitsPending ==
  ASSUME Standing, NEW t \in Tellings, Admits(t)
  PROVE  items[t.item].formal \in Pending /\ req = "AWAITING_MERGE" /\ acceptance = "APPROVED"
<1>1. items[t.item].formal \in Pending
  BY DEF Admits, Pending
<1>2. Busy(items)
  BY <1>1 DEF Busy, Tellings
<1> QED BY <1>1, <1>2 DEF Standing, PendingKeepsAcceptance

\* The last callback of a cycle takes contradicted evidence back, any other
\* leaves a delivery under way.
LEMMA RecordStands ==
  ASSUME FormalTyped, Standing, NEW t \in Tellings, Accepts(t), Record(t)
  PROVE  Standing'
<1>1. CASE Key(t) \in answers
  BY <1>1 DEF Record, Standing, PendingKeepsAcceptance, InvalidationApplied, Busy, Contradicted
<1>2. CASE Key(t) \notin answers /\ Concludes(t, Projected(t))
  <2> DEFINE rows0 == Projected(t)
             rs == [i \in Items |-> IF rows0[i].formal = "BLOCKED" /\ rows0[i].why = "HEAD_SHA_CHANGED"
                                    THEN Reopen(rows0[i]) ELSE rows0[i]]
  <2>1. rows0 \in [Items -> ItemRows]
    BY ProjectedTyped DEF FormalTyped
  <2>2. Invalidate(rs, WithGate(t)) /\ req' # "COMPLETED" /\ ~Busy(rows0)
    BY <1>2 DEF Record, Concludes
  <2> HIDE DEF rows0
  <2>3. rs \in [Items -> ItemRows]
    BY <2>1, ReopenTyped
  <2>4. \A i \in Items : \/ rs[i].formal \in {"MR_OPEN", "NOT_STARTED"}
                         \/ rs[i] = rows0[i] /\ ~(rows0[i].formal = "BLOCKED" /\ rows0[i].why = "HEAD_SHA_CHANGED")
    BY <2>1, ReopenShown
  <2> HIDE DEF rs
  <2>5. ~Busy(rs) /\ ~Contradicted(rs)
    BY <2>2, <2>4 DEF Busy, Contradicted, Pending
  <2>6. Admits(t)
    BY <1>2 DEF Accepts
  <2> QED BY <2>2, <2>3, <2>5, <2>6, WithGateTyped, InvalidateStands DEF FormalTyped
<1>3. CASE Key(t) \notin answers /\ ~Concludes(t, Projected(t))
  <2>1. /\ items' = Projected(t) /\ gates' = WithGate(t)
        /\ req' = IF Completes(t, Projected(t)) THEN "COMPLETED"
                  ELSE IF t.kind \in {"pending", "ready"} THEN req ELSE "AWAITING_MERGE"
        /\ UNCHANGED <<acceptance, evidence>>
    BY <1>3 DEF Record
  <2>2. items[t.item].formal \in Pending /\ req = "AWAITING_MERGE" /\ acceptance = "APPROVED"
    BY <1>3, AdmitsPending DEF Accepts
  <2>3. req' = "AWAITING_MERGE" \/ (req' = "COMPLETED" /\ \A i \in Items : items'[i].formal = "MERGED")
    BY <2>1, <2>2 DEF Completes
  <2>4. \A i \in Items : items'[i].formal = "MERGED" => items'[i].formal \notin Pending
    BY DEF Pending
  <2>5. PendingKeepsAcceptance' /\ (req' = "COMPLETED" => \A i \in Items : items'[i].formal = "MERGED")
    BY <2>1, <2>2, <2>3, <2>4 DEF PendingKeepsAcceptance, Busy
  <2>6. InvalidationApplied'
    <3>1. CASE t.kind = "pending"
      <4>1. items'[t.item].formal \in Pending
        BY <2>1, <3>1, ProjectedShown DEF FormalTyped, Shown, Pending
      <4> QED BY <4>1 DEF InvalidationApplied, Busy, Tellings
    <3>2. CASE t.kind # "pending"
      <4>1. ~(Contradicted(items') /\ ~Busy(items'))
        BY <1>3, <2>1, <3>2 DEF Concludes
      <4> QED BY <4>1 DEF InvalidationApplied, Busy, Contradicted
    <3> QED BY <3>1, <3>2
  <2>7. \A g \in DOMAIN gates' : gates'[g].state = "OPEN" => gates'[g].outcome = "NONE"
    BY <2>1 DEF WithGate, With, Standing
  <2> QED BY <2>5, <2>6, <2>7 DEF Standing
<1> QED BY <1>1, <1>2, <1>3

\* What source_control and GitLab do leaves all this alone.
LEMMA StandingStays ==
  ASSUME Standing, UNCHANGED formal
  PROVE  Standing'
  BY DEF formal, Standing, PendingKeepsAcceptance, InvalidationApplied, Busy, Contradicted

\* The acceptance stands after every step.
LEMMA StandingNext ==
  ASSUME Typed, Standing, [Next]_vars
  PROVE  Standing'
<1>1. FormalTyped /\ Working
  BY DEF Typed, Working
<1>2. ASSUME Asks PROVE Standing'
  BY <1>1, <1>2, SelectStands, AcceptStands, DeclineStands, ApproveStands, RejectStands,
     ReceiveStands, RequestStands, SubmitStands DEF Asks
<1>3. ASSUME NEW w \in Workers, Work(w) \/ Crash(w) PROVE UNCHANGED formal
  BY <1>3 DEF Work, Crash, Admit, Launch, Agree, Discover, Post, Prove, Check, Put, Settle, Block, Doubt
<1>4. ASSUME NEW w \in Workers, NEW m, TakeRequest(w, m) \/ TakeEffect(w, m) PROVE UNCHANGED formal
  BY <1>4 DEF TakeRequest, TakeEffect
<1>5. ASSUME NEW m \in DOMAIN effects, Tell(m) PROVE Standing'
  BY <1>1, <1>5, TellingTyped, RecordStands DEF Tell, Working
<1>6. ASSUME NEW i \in Items, Rework(i) PROVE Standing'
  BY <1>1, <1>6, ReintegrateStands DEF Rework
<1>7. ASSUME NEW i \in Items, Push(i) \/ Person(i) PROVE UNCHANGED formal
  BY <1>7 DEF Push, Person
<1>8. ASSUME UNCHANGED vars PROVE UNCHANGED formal
  BY <1>8 DEF vars, formal, evidence
<1> QED BY <1>2, <1>3, <1>4, <1>5, <1>6, <1>7, <1>8, StandingStays DEF Next
=============================================================================
