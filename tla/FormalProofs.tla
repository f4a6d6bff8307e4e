----------------------------- MODULE FormalProofs -----------------------------
(***************************************************************************)
(* Theorems of the formal delivery, for any number of work items, workers, *)
(* heads, requests and faults.                                             *)
(*                                                                         *)
(* Requests, effects and calls agree with the merge request they are about *)
(* (Placed); this is inductive because bindings, merges and approvals are  *)
(* never taken back (Grows).  The inductive invariant joins it to the      *)
(* types and to what Standing says of the requirement; to these it adds    *)
(* that a merged work item is merged where its review approved it          *)
(* (Delivered), and that what was told is what happened (AckedIsTrue).     *)
(***************************************************************************)
EXTENDS FormalTyping

\* The merge request of a work item, and whether it is merged at a head.
MergeRequest(i) == mrs[i][bindings[i].mr]
MergedAt(i, h) ==
  i \in DOMAIN bindings /\ MergeRequest(i).state = "merged" /\ MergeRequest(i).head = h

\* A review of the work item approved the head.
Approves(i, h) ==
  \E g \in DOMAIN gates : g[1] = i /\ gates[g].outcome = "APPROVED" /\ gates[g].head = h

Bound ==
  /\ \A i \in Items : items[i].bound => i \in DOMAIN bindings
  /\ \A i \in DOMAIN bindings : bindings[i].mr \in DOMAIN mrs[i]
RequestFits(m) ==
  LET r == requests[m] IN
  /\ r.bound => r.item \in DOMAIN bindings
  /\ r.kind = "MERGE" => r.bound /\ Approves(r.item, r.head)
EffectFits(m) ==
  LET r == requests[m] IN
  effects[m].state = "SUCCEEDED" =>
    IF r.kind = "CREATE" THEN r.item \in DOMAIN bindings ELSE MergedAt(r.item, r.head)
Goes(w) ==
  LET c == call[w]  r == Mine(w) IN
  /\ c.at \in {"check", "put"} => r.kind = "MERGE"
  /\ c.at \in {"discover", "post", "prove"} => r.kind = "CREATE"
  /\ c.at = "put" => c.mr = bindings[r.item].mr
  /\ c.at = "prove" => c.mr \in DOMAIN mrs[r.item]
  /\ c.at = "settle" => IF r.kind = "CREATE" THEN c.mr \in DOMAIN mrs[r.item]
                        ELSE MergedAt(r.item, r.head)

Placed ==
  /\ Bound
  /\ \A m \in DOMAIN requests : RequestFits(m)
  /\ \A m \in DOMAIN effects : EffectFits(m)
  /\ \A w \in Workers : Goes(w)

\* What no step takes back.
BindingsGrow ==
  /\ DOMAIN bindings \subseteq DOMAIN bindings'
  /\ \A i \in DOMAIN bindings : bindings'[i].mr = bindings[i].mr
ListGrows(i) ==
  /\ DOMAIN mrs[i] \subseteq DOMAIN mrs'[i]
  /\ \A k \in DOMAIN mrs[i] : mrs[i][k].state = "merged" => mrs'[i][k] = mrs[i][k]
MrsGrow == \A i \in Items : ListGrows(i)
GatesGrow ==
  \A g \in DOMAIN gates :
    gates[g].outcome = "APPROVED" =>
      g \in DOMAIN gates' /\ gates'[g].outcome = "APPROVED" /\ gates'[g].head = gates[g].head
Grows == Kept /\ BindingsGrow /\ MrsGrow /\ GatesGrow
-----------------------------------------------------------------------------
(* GitLab: a merged merge request stays as it is.                          *)

\* GitLab left alone takes nothing back.
LEMMA MrsStay ==
  ASSUME UNCHANGED mrs
  PROVE  MrsGrow
  BY DEF MrsGrow, ListGrows

\* A new merge request comes after those there are.
LEMMA OpenGrows ==
  ASSUME GitlabTyped, NEW i \in Items, NewMergeRequest(i)
  PROVE  MrsGrow /\ Len(mrs'[i]) \in DOMAIN mrs'[i]
<1> DEFINE row == [state |-> "opened", head |-> branch[i], mergedBy |-> "nobody"]
           list == Append(mrs[i], row)
<1>1. mrs[i] \in Seq(MergeRequests)
  BY DEF GitlabTyped
<1>2. branch[i] \in Heads
  BY DEF NewMergeRequest, Openable, GitlabTyped
<1>3. row \in MergeRequests
  BY <1>2 DEF MergeRequests
<1>4. mrs' = [mrs EXCEPT ![i] = list]
  BY DEF NewMergeRequest
<1> HIDE DEF row
<1>5. /\ list \in Seq(MergeRequests) /\ Len(list) = Len(mrs[i]) + 1 /\ Len(mrs[i]) \in Nat
      /\ \A k \in 1 .. Len(mrs[i]) : list[k] = mrs[i][k]
  BY <1>1, <1>3, AppendProperties
<1>6. DOMAIN mrs[i] = 1 .. Len(mrs[i]) /\ DOMAIN list = 1 .. Len(list)
  BY <1>1, <1>5
<1> HIDE DEF list
<1>7. MrsGrow /\ mrs'[i] = list
  BY <1>4, <1>5, <1>6 DEF GitlabTyped, MrsGrow, ListGrows
<1> QED BY <1>5, <1>6, <1>7

\* An open merge request is edited, merged or closed.
LEMMA RowEditGrows ==
  ASSUME GitlabTyped, NEW i \in Items, NEW k \in DOMAIN mrs[i], NEW row,
         mrs[i][k].state = "opened", mrs' = [mrs EXCEPT ![i] = [@ EXCEPT ![k] = row]]
  PROVE  MrsGrow /\ mrs'[i][k] = row
<1> DEFINE list == [mrs[i] EXCEPT ![k] = row]
<1>1. mrs' = [mrs EXCEPT ![i] = list]
  OBVIOUS
<1>2. /\ DOMAIN list = DOMAIN mrs[i] /\ list[k] = row
      /\ \A j \in DOMAIN mrs[i] : mrs[i][j].state = "merged" => list[j] = mrs[i][j]
  OBVIOUS
<1> HIDE DEF list
<1> QED BY <1>1, <1>2 DEF GitlabTyped, MrsGrow, ListGrows

\* A merge of an open merge request leaves the merged ones, and its head.
LEMMA MergesGrow ==
  ASSUME GitlabTyped, NEW i \in Items, NEW k \in DOMAIN mrs[i], NEW who,
         mrs[i][k].state = "opened", Merges(i, k, who)
  PROVE  MrsGrow /\ mrs'[i][k].state = "merged" /\ mrs'[i][k].head = mrs[i][k].head
<1> DEFINE row == [mrs[i][k] EXCEPT !.state = "merged", !.mergedBy = who]
<1>1. mrs[i][k] \in MergeRequests
  BY ElementOfSeq DEF GitlabTyped
<1>2. row.state = "merged" /\ row.head = mrs[i][k].head
  BY <1>1 DEF MergeRequests
<1>3. mrs' = [mrs EXCEPT ![i] = [@ EXCEPT ![k] = row]]
  BY DEF Merges
<1> HIDE DEF row
<1> QED BY <1>2, <1>3, RowEditGrows

\* A push moves open merge requests only.
LEMMA PushedGrows ==
  ASSUME GitlabTyped, NEW i \in Items, NEW h \in Heads, Pushed(i, h)
  PROVE  MrsGrow
<1> DEFINE row(k) == IF mrs[i][k].state = "opened" THEN [mrs[i][k] EXCEPT !.head = h] ELSE mrs[i][k]
           list == [k \in DOMAIN mrs[i] |-> row(k)]
<1>1. mrs' = [mrs EXCEPT ![i] = list]
  BY DEF Pushed
<1>2. \A k \in DOMAIN mrs[i] : mrs[i][k].state = "merged" => row(k) = mrs[i][k]
  OBVIOUS
<1> HIDE DEF row
<1>3. DOMAIN list = DOMAIN mrs[i] /\ \A k \in DOMAIN mrs[i] : list[k] = row(k)
  OBVIOUS
<1> HIDE DEF list
<1> QED BY <1>1, <1>2, <1>3 DEF GitlabTyped, MrsGrow, ListGrows

\* What a person does leaves the merged ones.
LEMMA PersonGrows ==
  ASSUME GitlabTyped, NEW i \in Items, Person(i)
  PROVE  MrsGrow
<1>1. CASE NewMergeRequest(i)
  BY <1>1, OpenGrows
<1>2. ASSUME NEW k \in DOMAIN mrs[i], mrs[i][k].state = "opened",
             mrs' = [mrs EXCEPT ![i][k].state = "closed"]
      PROVE  MrsGrow
  <2> DEFINE row == [mrs[i][k] EXCEPT !.state = "closed"]
  <2>1. mrs' = [mrs EXCEPT ![i] = [@ EXCEPT ![k] = row]]
    BY <1>2
  <2>2. mrs[i][k].state = "opened"
    BY <1>2
  <2> HIDE DEF row
  <2> QED BY <2>1, <2>2, RowEditGrows
<1>3. ASSUME NEW k \in DOMAIN mrs[i], mrs[i][k].state = "opened", Merges(i, k, "people")
      PROVE  MrsGrow
  BY <1>3, MergesGrow
<1> QED BY <1>1, <1>2, <1>3 DEF Person
-----------------------------------------------------------------------------
(* The reviews: an approval is not taken back, though its selection may be. *)

\* Gates left alone keep their approvals.
LEMMA GatesStay ==
  ASSUME UNCHANGED gates
  PROVE  GatesGrow
  BY DEF GatesGrow

\* Selections taken back keep the decisions of their gates.
LEMMA InvalidateGrows ==
  ASSUME NEW rs \in [Items -> ItemRows], NEW reviews,
         \A g \in DOMAIN reviews : reviews[g] \in Gates,
         Invalidate(rs, reviews),
         \A g \in DOMAIN gates : gates[g].outcome = "APPROVED" =>
           /\ g \in DOMAIN reviews /\ reviews[g].outcome = "APPROVED"
           /\ reviews[g].head = gates[g].head
  PROVE  GatesGrow
  BY InvalidateShown DEF GatesGrow

\* A declined acceptance takes no approval back.
LEMMA DeclineGrows ==
  ASSUME FormalTyped, Decline
  PROVE  GatesGrow
<1> DEFINE rs == [i \in Items |-> IF items[i].integrated /\ items[i].formal # "MERGED"
                                  THEN Reopen(items[i]) ELSE items[i]]
<1>1. rs \in [Items -> ItemRows]
  BY ReopenTyped DEF FormalTyped, ItemsTyped
<1>2. Invalidate(rs, gates)
  BY DEF Decline
<1> HIDE DEF rs
<1> QED BY <1>1, <1>2, InvalidateGrows DEF FormalTyped, GatesTyped

\* Nor does a late validation.
LEMMA SubmitGrows ==
  ASSUME FormalTyped, NEW i \in Items, SubmitValidation(i)
  PROVE  GatesGrow
  BY InvalidateGrows DEF SubmitValidation, FormalTyped, GatesTyped, ItemsTyped

\* An approval takes no other back.
LEMMA ApproveGrows ==
  ASSUME FormalTyped, NEW i \in Items, Approve(i)
  PROVE  GatesGrow
<1> DEFINE k == <<i, Latest(i)>>
           gate == [gates[k] EXCEPT !.state = "DECIDED", !.outcome = "APPROVED"]
<1>1. k \in DOMAIN gates
  BY ReviewThere DEF Approve, Reviewable, FormalTyped
<1>2. gates[k] \in Gates
  BY <1>1 DEF FormalTyped, GatesTyped
<1>3. gate.outcome = "APPROVED" /\ gate.head = gates[k].head
  BY <1>2 DEF Gates
<1>4. gates' = [gates EXCEPT ![k] = gate]
  BY DEF Approve
<1> HIDE DEF gate, k
<1> QED BY <1>3, <1>4 DEF GatesGrow

\* A rejection decides a gate that had no decision.
LEMMA RejectGrows ==
  ASSUME FormalTyped, Standing, NEW i \in Items, Reject(i)
  PROVE  GatesGrow
<1> DEFINE k == <<i, Latest(i)>>
           gate == [gates[k] EXCEPT !.outcome = "REJECTED"]
           rs == [items EXCEPT ![i] = Reopen(@)]
           reviews == [gates EXCEPT ![k] = gate]
<1>1. k \in DOMAIN gates /\ gates[k].state = "OPEN"
  BY ReviewThere DEF Reject, Reviewable, Review, FormalTyped
<1>2. gates[k] \in Gates /\ gates[k].outcome # "APPROVED"
  BY <1>1 DEF FormalTyped, GatesTyped, Standing
<1>3. gate \in Gates
  BY <1>2, GateEdit, Zenon
<1>4. Invalidate(rs, reviews)
  BY DEF Reject
<1>5. rs \in [Items -> ItemRows]
  BY ReopenTyped DEF FormalTyped, ItemsTyped
<1> HIDE DEF gate, k
<1>6. /\ \A g \in DOMAIN reviews : reviews[g] \in Gates
      /\ \A g \in DOMAIN gates : gates[g].outcome = "APPROVED" =>
           g \in DOMAIN reviews /\ reviews[g] = gates[g]
  BY <1>2, <1>3 DEF FormalTyped, GatesTyped
<1> HIDE DEF rs, reviews
<1> QED BY <1>4, <1>5, <1>6, InvalidateGrows

\* A callback opens a gate where there was none.
LEMMA RecordGrows ==
  ASSUME FormalTyped, NEW t \in Tellings, Accepts(t), Record(t)
  PROVE  GatesGrow
<1>1. CASE Key(t) \in answers
  BY <1>1, GatesStay DEF Record
<1> SUFFICES ASSUME Key(t) \notin answers PROVE GatesGrow
  BY <1>1
<1>2. Admits(t)
  BY DEF Accepts
<1>3. \A g \in DOMAIN gates : g \in DOMAIN WithGate(t) /\ WithGate(t)[g] = gates[g]
  BY <1>2 DEF WithGate, With, Admits
<1>4. CASE Concludes(t, Projected(t))
  <2> DEFINE rows0 == Projected(t)
             rs == [i \in Items |-> IF rows0[i].formal = "BLOCKED" /\ rows0[i].why = "HEAD_SHA_CHANGED"
                                    THEN Reopen(rows0[i]) ELSE rows0[i]]
  <2>1. rows0 \in [Items -> ItemRows]
    BY ProjectedTyped DEF FormalTyped
  <2>2. Invalidate(rs, WithGate(t))
    BY <1>4 DEF Record
  <2> HIDE DEF rows0
  <2>3. rs \in [Items -> ItemRows]
    BY <2>1, ReopenTyped
  <2> HIDE DEF rs
  <2> QED BY <1>2, <1>3, <2>2, <2>3, WithGateTyped, InvalidateGrows
<1>5. CASE ~Concludes(t, Projected(t))
  <2>1. gates' = WithGate(t)
    BY <1>5 DEF Record
  <2> QED BY <1>3, <2>1 DEF GatesGrow
<1> QED BY <1>4, <1>5
-----------------------------------------------------------------------------
(* The bindings and the requests.                                          *)

\* Bindings left alone are kept.
LEMMA BindingsStay ==
  ASSUME UNCHANGED bindings
  PROVE  BindingsGrow
  BY DEF BindingsGrow

\* A call that raises or is refused leaves the bindings.
LEMMA SettleGrows ==
  ASSUME Working, NEW w \in Workers, Settle(w)
  PROVE  BindingsGrow
<1> DEFINE c == call[w]
           r == Mine(w)
           b == [mr |-> c.mr, seen |-> c.seen, cycle |-> r.cycle]
           d == [bindings[r.item] EXCEPT !.seen = c.seen]
<1>1. \/ UNCHANGED bindings
      \/ Bindable(w) /\ bindings' = With(bindings, r.item, b)
      \/ bindings' = [bindings EXCEPT ![r.item] = d]
  BY Zenon DEF Settle, Raise
<1>2. CASE Bindable(w) /\ bindings' = With(bindings, r.item, b)
  <2>1. r.item \in DOMAIN bindings => b.mr = bindings[r.item].mr
    BY <1>2 DEF Bindable, Item
  <2>2. bindings' = With(bindings, r.item, b)
    BY <1>2
  <2> HIDE DEF b
  <2> QED BY <2>1, <2>2 DEF With, BindingsGrow
<1>3. CASE bindings' = [bindings EXCEPT ![r.item] = d]
  <2>1. r.item \in DOMAIN bindings => d.mr = bindings[r.item].mr
    <3> SUFFICES ASSUME r.item \in DOMAIN bindings PROVE d.mr = bindings[r.item].mr
      OBVIOUS
    <3>1. bindings[r.item] \in BindingRows
      BY DEF Working, RowsTyped, BindingsTyped
    <3> QED BY <3>1 DEF BindingRows
  <2>2. bindings' = [bindings EXCEPT ![r.item] = d]
    BY <1>3
  <2> HIDE DEF d
  <2> QED BY <2>1, <2>2 DEF BindingsGrow
<1> QED BY <1>1, <1>2, <1>3, BindingsStay
-----------------------------------------------------------------------------
(* Every step keeps the types and takes none of this back.                 *)

\* A merge is checked and put under the binding of its work item.
LEMMA MergeBound ==
  ASSUME Working, Placed, NEW w \in Workers, call[w].at \in {"check", "put"}
  PROVE  /\ Item(w) \in Items /\ Item(w) \in DOMAIN bindings /\ Mine(w).kind = "MERGE"
         /\ bindings[Item(w)].mr \in DOMAIN mrs[Item(w)]
         /\ call[w].at = "put" => call[w].mr = bindings[Item(w)].mr
<1>1. call[w].m \in DOMAIN requests /\ Item(w) \in Items
  BY MineTyped
<1>2. Mine(w).kind = "MERGE" /\ (call[w].at = "put" => call[w].mr = bindings[Item(w)].mr)
  BY DEF Placed, Goes, Item
<1>3. Item(w) \in DOMAIN bindings
  BY <1>1, <1>2 DEF Placed, RequestFits, Mine, Item
<1> QED BY <1>1, <1>2, <1>3 DEF Placed, Bound

\* A worker's step keeps every type and takes nothing back.
LEMMA WorkTyped ==
  ASSUME Typed, Placed, NEW w \in Workers, Work(w)
  PROVE  Typed' /\ Kept /\ MrsGrow /\ BindingsGrow /\ UNCHANGED formal
<1>1. Working /\ GitlabTyped /\ FormalTyped
  BY DEF Typed, Working
<1>2. UNCHANGED formal
  BY DEF Work, Admit, Launch, Agree, Discover, Post, Prove, Check, Put, Settle, Block, Doubt
<1>3. FormalTyped'
  BY <1>1, <1>2, FormalStays
<1>4. ASSUME ~Post(w), ~Put(w) PROVE UNCHANGED gitlab
  BY <1>4 DEF Work, Admit, Launch, Agree, Discover, Prove, Check, Settle, Block, Doubt, gitlab
<1>5. ASSUME ~Settle(w) PROVE UNCHANGED bindings
  <2>1. ASSUME NEW why, Plan(w, why) PROVE UNCHANGED bindings
    BY <2>1, Zenon DEF Plan, Raise, rows
  <2>2. CASE Admit(w)
    BY <2>1, <2>2, Zenon DEF Admit, Raise
  <2>3. CASE Launch(w) \/ Agree(w) \/ Prove(w) \/ Block(w) \/ Doubt(w) \/ Put(w) \/ Post(w)
    BY <2>3, Zenon DEF Launch, Agree, Prove, Block, Doubt, Put, Post, Raise, Unread, Refused, rows
  <2>4. CASE Discover(w) \/ Check(w)
    BY <2>4, Zenon DEF Discover, Check, Raise, Unread, Refused, Deny, rows
  <2> QED BY <1>5, <2>2, <2>3, <2>4 DEF Work
<1>6. BindingsGrow
  BY <1>1, <1>5, SettleGrows, BindingsStay
<1>7. CASE Post(w)
  <2>1. Item(w) \in Items
    BY <1>1, <1>7, MineTyped DEF Post
  <2>2. MrsGrow
    <3>1. NewMergeRequest(Item(w)) \/ UNCHANGED mrs
      BY <1>7, Zenon DEF Post
    <3> QED BY <1>1, <2>1, <3>1, OpenGrows, MrsStay
  <2> QED BY <1>1, <1>2, <1>3, <1>6, <1>7, <2>2, PostTyped DEF Worked, Typed
<1>8. CASE Put(w)
  <2>1. Item(w) \in Items /\ call[w].mr \in DOMAIN mrs[Item(w)]
    BY <1>1, <1>8, MergeBound DEF Put
  <2>2. MrsGrow
    <3>1. \/ mrs[Item(w)][call[w].mr].state = "opened" /\ Merges(Item(w), call[w].mr, "platform")
          \/ UNCHANGED mrs
      BY <1>8, Zenon DEF Put, gitlab
    <3> QED BY <1>1, <2>1, <3>1, MergesGrow, MrsStay
  <2> QED BY <1>1, <1>2, <1>3, <1>6, <1>8, <2>1, <2>2, PutTyped DEF Worked, Typed
<1>9. CASE ~Post(w) /\ ~Put(w)
  <2>1. GitlabTyped' /\ MrsGrow
    BY <1>1, <1>4, <1>9, GitlabStays, MrsStay DEF gitlab
  <2>2. Check(w) => Item(w) \in DOMAIN bindings
    BY <1>1, MergeBound DEF Check
  <2>3. Worked
    BY <1>1, <1>9, <2>2, AdmitTyped, LaunchTyped, AgreeTyped, DiscoverTyped, ProveTyped, CheckTyped,
       SettleTyped, BlockTyped, DoubtTyped DEF Work
  <2> QED BY <1>2, <1>3, <1>6, <2>1, <2>3 DEF Worked, Typed
<1> QED BY <1>7, <1>8, <1>9

\* The other steps of the workers: a crash, and the claims.
LEMMA ClaimTyped ==
  ASSUME Typed, NEW w \in Workers,
         \/ Crash(w)
         \/ \E m \in DOMAIN requests : TakeRequest(w, m)
         \/ \E m \in DOMAIN effects : TakeEffect(w, m)
  PROVE  Typed' /\ Kept /\ UNCHANGED <<formal, bindings, gitlab>>
<1>1. Working /\ GitlabTyped /\ FormalTyped
  BY DEF Typed, Working
<1>2. UNCHANGED <<formal, bindings, gitlab>>
  BY DEF Crash, TakeRequest, TakeEffect, rows
<1>3. Worked
  <2>1. CASE Crash(w)
    BY <1>1, <2>1, RowsKept, Left DEF Crash, Working, Worked
  <2> QED BY <1>1, <2>1, TakeRequestTyped, TakeEffectTyped
<1> QED BY <1>1, <1>2, <1>3, FormalStays, GitlabStays DEF Worked, Typed

\* What people do.
LEMMA PeopleTyped ==
  ASSUME Typed, Standing,
         Asks \/ \E i \in Items : Rework(i) \/ Push(i) \/ Person(i)
  PROVE  Typed' /\ Kept /\ MrsGrow /\ GatesGrow /\ UNCHANGED <<effects, bindings, call>>
<1>1. Working /\ GitlabTyped /\ FormalTyped
  BY DEF Typed, Working
<1>2. CASE Asks
  <2>1. UNCHANGED <<effects, bindings, call, gitlab>>
    BY <1>2 DEF Asks
  <2>2. GatesGrow
    <3>1. ASSUME ~Decline, ~(\E i \in Items : Approve(i) \/ Reject(i) \/ SubmitValidation(i))
          PROVE  UNCHANGED gates
      BY <1>2, <3>1 DEF Asks, Select, Accept, ReceiveValidation, Request
    <3> QED BY <1>1, <3>1, GatesStay, DeclineGrows, ApproveGrows, RejectGrows, SubmitGrows
  <2>3. FormalTyped' /\ Worked
    BY <1>2, AsksTyped
  <2> QED BY <1>1, <2>1, <2>2, <2>3, GitlabStays, MrsStay DEF Worked, Typed, gitlab
<1>3. ASSUME NEW i \in Items, Rework(i)
      PROVE  Typed' /\ Kept /\ MrsGrow /\ GatesGrow /\ UNCHANGED <<effects, bindings, call>>
  <2>1. PICK h \in Heads : (UNCHANGED gitlab \/ Pushed(i, h)) /\ Reintegrate(i, h)
    BY <1>3, Zenon DEF Rework
  <2>2. UNCHANGED <<effects, bindings, call>> /\ UNCHANGED <<gates, requests>>
    BY <1>3 DEF Rework, Reintegrate
  <2>3. GitlabTyped' /\ MrsGrow
    BY <1>1, <2>1, PushedTyped, PushedGrows, GitlabStays, MrsStay DEF gitlab
  <2>4. Worked
    BY <1>1, <2>2, RequestsStay, OthersTyped DEF Working, RowsTyped
  <2> QED BY <1>1, <2>1, <2>2, <2>3, <2>4, ReintegrateTyped, GatesStay DEF Worked, Typed
<1>4. ASSUME NEW i \in Items, Push(i) \/ Person(i)
      PROVE  Typed' /\ Kept /\ MrsGrow /\ GatesGrow /\ UNCHANGED <<effects, bindings, call>>
  <2>1. UNCHANGED formal /\ UNCHANGED rows /\ UNCHANGED call
    BY <1>4 DEF Push, Person
  <2>2. GitlabTyped' /\ MrsGrow
    <3>1. CASE Push(i)
      BY <1>1, <3>1, PushedTyped, PushedGrows DEF Push
    <3>2. CASE Person(i)
      <4>1. \/ NewMergeRequest(i) /\ UNCHANGED branch
            \/ \E k \in DOMAIN mrs[i] : Merges(i, k, "people")
            \/ \E k \in DOMAIN mrs[i] : mrs' = [mrs EXCEPT ![i][k].state = "closed"] /\ UNCHANGED branch
        BY <3>2 DEF Person
      <4>2. ASSUME NEW k \in DOMAIN mrs[i], mrs' = [mrs EXCEPT ![i][k].state = "closed"], UNCHANGED branch
            PROVE  GitlabTyped'
        <5> DEFINE row == [mrs[i][k] EXCEPT !.state = "closed"]
                   list == [mrs[i] EXCEPT ![k] = row]
        <5>1. mrs[i] \in Seq(MergeRequests) /\ mrs[i][k] \in MergeRequests
          BY <1>1, ElementOfSeq DEF GitlabTyped
        <5>2. row \in MergeRequests
          BY <5>1 DEF MergeRequests
        <5>3. mrs' = [mrs EXCEPT ![i] = list] /\ UNCHANGED branch
          BY <4>2
        <5> HIDE DEF row
        <5>4. list \in Seq(MergeRequests)
          BY <5>1, <5>2, ExceptSeq
        <5> HIDE DEF list
        <5> QED BY <1>1, <5>3, <5>4 DEF GitlabTyped
      <4> QED BY <1>1, <3>2, <4>1, <4>2, OpenTyped, MergesTyped, PersonGrows
    <3> QED BY <1>4, <3>1, <3>2
  <2>3. Worked
    BY <1>1, <2>1, RequestsStay, OthersTyped DEF Working, RowsTyped, rows
  <2> QED BY <1>1, <2>1, <2>2, <2>3, FormalStays, GatesStay DEF Worked, Typed, formal, rows
<1> QED BY <1>2, <1>3, <1>4

\* Every step keeps the types and takes nothing back.
LEMMA NextTyped ==
  ASSUME Typed, Standing, Placed, [Next]_vars
  PROVE  Typed' /\ Grows
<1>1. CASE Asks \/ \E i \in Items : Rework(i) \/ Push(i) \/ Person(i)
  BY <1>1, PeopleTyped, BindingsStay DEF Grows
<1>2. ASSUME NEW w \in Workers, Work(w) PROVE Typed' /\ Grows
  BY <1>2, WorkTyped, GatesStay DEF Grows, formal
<1>3. ASSUME NEW w \in Workers,
             \/ Crash(w)
             \/ \E m \in DOMAIN requests : TakeRequest(w, m)
             \/ \E m \in DOMAIN effects : TakeEffect(w, m)
      PROVE  Typed' /\ Grows
  BY <1>3, ClaimTyped, GatesStay, BindingsStay, MrsStay DEF Grows, formal, gitlab
<1>4. ASSUME NEW m \in DOMAIN effects, Tell(m) PROVE Typed' /\ Grows
  <2>1. FormalTyped /\ Working /\ GitlabTyped
    BY DEF Typed, Working
  <2>2. UNCHANGED <<bindings, gitlab>>
    BY <1>4 DEF Tell
  <2>3. GatesGrow
    BY <1>4, <2>1, TellingTyped, RecordGrows DEF Tell, Working
  <2> QED BY <1>4, <2>1, <2>2, <2>3, TellTyped, GitlabStays, BindingsStay, MrsStay
          DEF Worked, Typed, Grows, gitlab
<1>5. CASE UNCHANGED vars
  <2>1. UNCHANGED formal /\ UNCHANGED rows /\ UNCHANGED gitlab /\ UNCHANGED call
    BY <1>5 DEF vars, formal, evidence, rows, gitlab
  <2>2. Working
    BY DEF Typed, Working
  <2>3. Worked
    BY <2>1, <2>2, RequestsStay, OthersTyped DEF Working, RowsTyped, rows
  <2> QED BY <2>1, <2>3, FormalStays, GitlabStays, BindingsStay, MrsStay, GatesStay
          DEF Worked, Typed, Grows, formal, rows, gitlab
<1> QED BY <1>1, <1>2, <1>3, <1>4, <1>5 DEF Next
-----------------------------------------------------------------------------
(* Requests, effects and calls agree with their merge request.             *)

\* A merge that is seen is there for good.
LEMMA MergedStays ==
  ASSUME Placed, Grows, NEW i \in Items, NEW h, MergedAt(i, h)
  PROVE  MergedAt(i, h)'
<1>1. i \in DOMAIN bindings' /\ bindings'[i].mr = bindings[i].mr
  BY DEF MergedAt, Grows, BindingsGrow
<1>2. bindings[i].mr \in DOMAIN mrs[i]
  BY DEF MergedAt, Placed, Bound
<1>3. mrs'[i][bindings[i].mr] = mrs[i][bindings[i].mr]
  BY <1>2 DEF MergedAt, MergeRequest, Grows, MrsGrow, ListGrows
<1> QED BY <1>1, <1>3 DEF MergedAt, MergeRequest

\* So is an approval.
LEMMA ApprovalStays ==
  ASSUME Grows, NEW i, NEW h, Approves(i, h)
  PROVE  Approves(i, h)'
  BY DEF Approves, Grows, GatesGrow

\* A request that was made under a binding and a review still is.
LEMMA RequestStays ==
  ASSUME Placed, Grows, NEW m \in DOMAIN requests
  PROVE  RequestFits(m)'
<1> DEFINE r == requests[m]
<1>1. r.bound => r.item \in DOMAIN bindings'
  BY DEF Placed, RequestFits, Grows, BindingsGrow
<1>2. r.kind = "MERGE" => r.bound /\ Approves(r.item, r.head)
  BY DEF Placed, RequestFits
<1>3. r.kind = "MERGE" => \E g \in DOMAIN gates' :
        g[1] = r.item /\ gates'[g].outcome = "APPROVED" /\ gates'[g].head = r.head
  BY <1>2 DEF Approves, Grows, GatesGrow
<1>4. /\ requests'[m].kind = r.kind /\ requests'[m].item = r.item
      /\ requests'[m].head = r.head /\ requests'[m].bound = r.bound
  BY DEF Grows, Kept
<1> QED BY <1>1, <1>2, <1>3, <1>4 DEF RequestFits, Approves

\* A successful effect still is one.
LEMMA EffectStays ==
  ASSUME Typed, Placed, Grows, NEW m \in DOMAIN effects, effects[m].state = "SUCCEEDED"
  PROVE  EffectFits(m)'
<1> DEFINE r == requests[m]
<1>1. m \in DOMAIN requests /\ r.item \in Items
  <2>1. m \in DOMAIN requests
    BY DEF Typed, RowsTyped, EffectsTyped
  <2>2. r \in Requests
    BY <2>1, ElementOfSeq DEF Typed, RowsTyped, RequestsTyped
  <2> QED BY <2>1, <2>2 DEF Requests
<1>2. requests'[m].kind = r.kind /\ requests'[m].item = r.item /\ requests'[m].head = r.head
  BY <1>1 DEF Grows, Kept
<1>3. CASE r.kind = "CREATE"
  <2>1. r.item \in DOMAIN bindings'
    BY <1>3 DEF Placed, EffectFits, Grows, BindingsGrow
  <2> QED BY <1>2, <1>3, <2>1 DEF EffectFits
<1>4. CASE r.kind # "CREATE"
  <2>1. MergedAt(r.item, r.head)
    BY <1>4 DEF Placed, EffectFits
  <2> DEFINE i == r.item
             h == r.head
  <2>2. PICK j, g : j \in Items /\ j = i /\ g = h
    BY <1>1
  <2>3. MergedAt(j, g)'
    BY <2>1, <2>2, MergedStays
  <2>4. requests'[m].item = j /\ requests'[m].head = g /\ requests'[m].kind # "CREATE"
    BY <1>2, <1>4, <2>2
  <2> QED BY <2>3, <2>4 DEF EffectFits, MergedAt, MergeRequest
<1> QED BY <1>3, <1>4

\* A worker that did not move: what it read still holds.
LEMMA GoesStays ==
  ASSUME Typed, Placed, Grows, NEW w \in Workers, call'[w] = call[w]
  PROVE  Goes(w)'
<1>1. CASE call[w].at = "idle"
  BY <1>1 DEF Goes
<1>2. CASE call[w].at # "idle"
  <2> DEFINE c == call[w]
             r == Mine(w)
  <2>1. c.m \in DOMAIN requests /\ r.item \in Items
    BY <1>2, MineTyped DEF Typed, Working, Item
  <2>2. requests'[c.m].kind = r.kind /\ requests'[c.m].item = r.item /\ requests'[c.m].head = r.head
    BY <2>1 DEF Grows, Kept, Mine
  <2>3. Goes(w)
    BY DEF Placed
  <2>4. c.at = "put" => c.mr = bindings'[r.item].mr
    BY <1>2, MergeBound, <2>3 DEF Typed, Working, Grows, BindingsGrow, Goes, Item
  <2>5. DOMAIN mrs[r.item] \subseteq DOMAIN mrs'[r.item]
    BY <2>1 DEF Grows, MrsGrow, ListGrows
  <2>6. c.at = "settle" /\ r.kind # "CREATE" =>
          /\ r.item \in DOMAIN bindings' /\ mrs'[r.item][bindings'[r.item].mr].state = "merged"
          /\ mrs'[r.item][bindings'[r.item].mr].head = r.head
    <3> SUFFICES ASSUME c.at = "settle", r.kind # "CREATE"
                 PROVE  /\ r.item \in DOMAIN bindings' /\ mrs'[r.item][bindings'[r.item].mr].state = "merged"
                        /\ mrs'[r.item][bindings'[r.item].mr].head = r.head
      OBVIOUS
    <3>1. MergedAt(r.item, r.head)
      BY <2>3 DEF Goes
    <3>2. PICK i, h : i \in Items /\ i = r.item /\ h = r.head
      BY <2>1
    <3>3. MergedAt(i, h)'
      BY <3>1, <3>2, MergedStays
    <3> QED BY <3>2, <3>3 DEF MergedAt, MergeRequest
  <2> QED BY <2>2, <2>3, <2>4, <2>5, <2>6 DEF Goes, Mine, MergedAt, MergeRequest
<1> QED BY <1>1, <1>2

\* A step of one worker moves that worker alone.
LEMMA MovedOne ==
  ASSUME CallTyped, NEW w \in Workers, NEW c, Moves(w, c)
  PROVE  call'[w] = c /\ \A v \in Workers \ {w} : call'[v] = call[v]
  BY DEF CallTyped, Moves

\* At these places a call claims nothing.
LEMMA GoesFreely ==
  ASSUME NEW w \in Workers,
         call'[w].at \in {"idle", "admit", "launch", "agree", "block", "unknown"}
  PROVE  Goes(w)'
  BY DEF Goes

\* A worker that left claims nothing.
LEMMA GoneIdle ==
  ASSUME CallTyped, NEW w \in Workers, Leave(w)
  PROVE  Goes(w)'
<1>1. call'[w] = IdleCall
  BY MovedOne DEF Leave
<1> QED BY <1>1, IdleTyped, GoesFreely

\* Nor does one whose call raised.
LEMMA RaisedIdle ==
  ASSUME CallTyped, NEW w \in Workers, Raise(w)
  PROVE  Goes(w)'
  BY GoneIdle DEF Raise

\* The locals of a worker that goes on: the request is the same.
LEMMA WentOn ==
  ASSUME Typed, NEW w \in Workers, call[w].at # "idle"
  PROVE  /\ \A at \in Places \cup {"settle"} : Goto(w, at) => /\ call'[w].at = at /\ call'[w].m = call[w].m
                                              /\ call'[w].mr = call[w].mr
         /\ \A why \in Reasons : Blocks(w, why) => call'[w].at = "block"
<1>1. call[w] \in CallRows /\ CallTyped
  BY DEF Typed, CallTyped
<1>2. ASSUME NEW at \in Places \cup {"settle"}, Goto(w, at)
      PROVE  call'[w].at = at /\ call'[w].m = call[w].m /\ call'[w].mr = call[w].mr
  <2> DEFINE c == [call[w] EXCEPT !.at = at]
  <2>1. c.at = at /\ c.m = call[w].m /\ c.mr = call[w].mr
    BY <1>1 DEF CallRows
  <2>2. Moves(w, c)
    BY <1>2 DEF Goto
  <2> HIDE DEF c
  <2> QED BY <1>1, <2>1, <2>2, MovedOne
<1>3. ASSUME NEW why \in Reasons, Blocks(w, why) PROVE call'[w].at = "block"
  <2> DEFINE c == [call[w] EXCEPT !.at = "block", !.why = why]
  <2>1. c.at = "block"
    BY <1>1 DEF CallRows
  <2>2. Moves(w, c)
    BY <1>3 DEF Blocks
  <2> HIDE DEF c
  <2> QED BY <1>1, <2>1, <2>2, MovedOne
<1> QED BY <1>2, <1>3

\* The locals of a worker that goes on with what it read.
LEMMA SawOn ==
  ASSUME Typed, NEW w \in Workers, call[w].at # "idle", NEW at, NEW mr, NEW seen,
         Moves(w, [call[w] EXCEPT !.at = at, !.mr = mr, !.seen = seen])
  PROVE  call'[w].at = at /\ call'[w].m = call[w].m /\ call'[w].mr = mr
<1> DEFINE c == [call[w] EXCEPT !.at = at, !.mr = mr, !.seen = seen]
<1>1. call[w] \in CallRows /\ CallTyped
  BY DEF Typed, CallTyped
<1>2. c.at = at /\ c.m = call[w].m /\ c.mr = mr
  BY <1>1 DEF CallRows
<1>3. Moves(w, c)
  OBVIOUS
<1> HIDE DEF c
<1> QED BY <1>1, <1>2, <1>3, MovedOne

\* What the request of a call is, before and after.
LEMMA SameRequest ==
  ASSUME Typed, Kept, NEW w \in Workers, call[w].at # "idle", call'[w].m = call[w].m
  PROVE  /\ Mine(w)'.kind = Mine(w).kind /\ Mine(w)'.item = Mine(w).item
         /\ Mine(w)'.head = Mine(w).head
  BY MineTyped DEF Typed, Working, Mine, Kept

\* The admission claims nothing of GitLab.
LEMMA AdmitGoes ==
  ASSUME Typed, NEW w \in Workers, Admit(w)
  PROVE  Goes(w)'
<1>1. CallTyped /\ call[w] \in CallRows
  BY DEF Typed, CallTyped
<1>2. ASSUME NEW why, Plan(w, why) PROVE Goes(w)'
  <2> DEFINE c == [call[w] EXCEPT !.at = "launch", !.why = why]
  <2>1. Moves(w, c) \/ Leave(w) \/ Raise(w)
    BY <1>2, Zenon DEF Plan
  <2>2. c.at = "launch"
    BY <1>1 DEF CallRows
  <2> HIDE DEF c
  <2>3. CASE Moves(w, c)
    <3>1. call'[w].at = "launch"
      BY <1>1, <2>2, <2>3, MovedOne
    <3> QED BY <3>1, GoesFreely
  <2> QED BY <1>1, <2>1, <2>3, GoneIdle, RaisedIdle
<1> QED BY <1>1, <1>2, RaisedIdle, Zenon DEF Admit

\* A request for a merge request discovers, one for a merge checks.
LEMMA LaunchGoes ==
  ASSUME Typed, Kept, NEW w \in Workers, Launch(w)
  PROVE  Goes(w)'
<1> DEFINE at == IF call[w].why # "NONE" THEN "block"
                 ELSE IF Mine(w).kind = "CREATE" THEN "discover" ELSE "check"
           c == [call[w] EXCEPT !.state = "IN_FLIGHT", !.tries = 1, !.at = at]
<1>1. CallTyped /\ call[w] \in CallRows /\ call[w].at # "idle" /\ Mine(w) \in Requests
  BY MineTyped DEF Typed, CallTyped, Working, Launch
<1>2. Moves(w, c) \/ Raise(w)
  BY DEF Launch
<1>3. \/ at = "block" \/ (at = "discover" /\ Mine(w).kind = "CREATE")
      \/ (at = "check" /\ Mine(w).kind = "MERGE")
  BY <1>1 DEF Requests
<1> HIDE DEF at
<1>4. c.at = at /\ c.m = call[w].m
  BY <1>1 DEF CallRows
<1> HIDE DEF c
<1>5. CASE Moves(w, c)
  <2>1. call'[w].at = at /\ call'[w].m = call[w].m
    BY <1>1, <1>4, <1>5, MovedOne
  <2>2. Mine(w)'.kind = Mine(w).kind
    BY <1>1, <2>1, SameRequest
  <2> QED BY <1>3, <2>1, <2>2 DEF Goes
<1> QED BY <1>1, <1>2, <1>5, RaisedIdle

\* So does the reconciler.
LEMMA AgreeGoes ==
  ASSUME Typed, Kept, NEW w \in Workers, Agree(w)
  PROVE  Goes(w)'
<1>1. CallTyped /\ call[w].at # "idle" /\ Mine(w) \in Requests
  BY MineTyped DEF Typed, Working, Agree
<1>2. Raise(w) \/ Goto(w, IF Mine(w).kind = "CREATE" THEN "discover" ELSE "check")
  BY DEF Agree
<1>3. CASE Goto(w, "discover") /\ Mine(w).kind = "CREATE"
  <2>1. call'[w].at = "discover" /\ call'[w].m = call[w].m
    BY <1>1, <1>3, WentOn DEF Places
  <2>2. Mine(w)'.kind = "CREATE"
    BY <1>1, <1>3, <2>1, SameRequest
  <2> QED BY <2>1, <2>2 DEF Goes
<1>4. CASE Goto(w, "check") /\ Mine(w).kind # "CREATE"
  <2>1. call'[w].at = "check" /\ call'[w].m = call[w].m
    BY <1>1, <1>4, WentOn DEF Places
  <2>2. Mine(w)'.kind = "MERGE"
    BY <1>1, <1>4, <2>1, SameRequest DEF Requests
  <2> QED BY <2>1, <2>2 DEF Goes
<1> QED BY <1>1, <1>2, <1>3, <1>4, RaisedIdle

\* Reads that fail and refusals claim nothing.
LEMMA RefusedGoes ==
  ASSUME Typed, NEW w \in Workers, call[w].at # "idle",
         \/ Unread(w, "raise") \/ Unread(w, "unknown") \/ Goto(w, "unknown")
         \/ Deny(w) \/ Refused(w, "REFUSED") \/ Refused(w, "HEAD_SHA_CHANGED")
         \/ Blocks(w, "REFUSED") \/ Blocks(w, "HEAD_SHA_CHANGED")
  PROVE  Goes(w)'
<1>1. \/ Raise(w) \/ Goto(w, "unknown") \/ Blocks(w, "REFUSED") \/ Blocks(w, "HEAD_SHA_CHANGED")
  BY DEF Unread, Deny, Refused
<1>2. CallTyped /\ "unknown" \in Places /\ "REFUSED" \in Reasons /\ "HEAD_SHA_CHANGED" \in Reasons
  BY DEF Typed, Places, Reasons
<1>3. Raise(w) \/ call'[w].at \in {"unknown", "block"}
  BY <1>1, <1>2, WentOn
<1> QED BY <1>2, <1>3, RaisedIdle, GoesFreely

\* The merge request that was found is one of the branch.
LEMMA DiscoverGoes ==
  ASSUME Typed, Placed, Grows, NEW w \in Workers, Discover(w)
  PROVE  Goes(w)'
<1> DEFINE i == Item(w)
           seen == [state |-> "opened", head |-> mrs[i][1].head]
           c == [call[w] EXCEPT !.at = "settle", !.mr = 1, !.seen = seen]
<1>1. call[w].at = "discover" /\ call[w].at # "idle" /\ Kept
  BY DEF Discover, Grows
<1>2. Mine(w).kind = "CREATE" /\ i \in Items
  BY <1>1, MineTyped DEF Typed, Working, Placed, Goes
<1>3. \/ Unread(w, "raise") \/ Unread(w, "unknown") \/ Goto(w, "unknown")
      \/ Deny(w) \/ Refused(w, "REFUSED") \/ Refused(w, "HEAD_SHA_CHANGED")
      \/ Goto(w, "post")
      \/ Len(mrs[i]) = 1 /\ Moves(w, c)
  BY Zenon DEF Discover
<1>4. CASE Goto(w, "post")
  <2>1. call'[w].at = "post" /\ call'[w].m = call[w].m
    BY <1>1, <1>4, WentOn DEF Places
  <2>2. Mine(w)'.kind = "CREATE"
    BY <1>1, <1>2, <2>1, SameRequest
  <2> QED BY <2>1, <2>2 DEF Goes
<1>5. CASE Len(mrs[i]) = 1 /\ Moves(w, c)
  <2>1. Moves(w, c)
    BY <1>5
  <2>2. call'[w].at = "settle" /\ call'[w].m = call[w].m /\ call'[w].mr = 1
    <3> HIDE DEF seen
    <3> QED BY <1>1, <2>1, SawOn, Zenon
  <2>3. 1 \in DOMAIN mrs[i]
    <3>1. mrs[i] \in Seq(MergeRequests)
      BY <1>2 DEF Typed, GitlabTyped
    <3> QED BY <1>5, <3>1
  <2>4. 1 \in DOMAIN mrs'[i]
    BY <1>2, <2>3 DEF Grows, MrsGrow, ListGrows
  <2>5. Mine(w)'.kind = "CREATE" /\ Mine(w)'.item = i
    BY <1>1, <1>2, <2>2, SameRequest DEF Item
  <2> QED BY <2>2, <2>4, <2>5 DEF Goes
<1> QED BY <1>1, <1>3, <1>4, <1>5, RefusedGoes

\* So is the one that was opened.
LEMMA PostGoes ==
  ASSUME Typed, Placed, Grows, NEW w \in Workers, Post(w)
  PROVE  Goes(w)'
<1> DEFINE i == Item(w)
           n == Len(mrs'[i])
           seen == [state |-> "opened", head |-> branch[i]]
           c == [call[w] EXCEPT !.at = "prove", !.mr = n, !.seen = seen]
<1>1. call[w].at = "post" /\ call[w].at # "idle" /\ Kept
  BY DEF Post, Grows
<1>2. Mine(w).kind = "CREATE" /\ i \in Items
  BY <1>1, MineTyped DEF Typed, Working, Placed, Goes
<1>3. \/ Goto(w, "unknown") \/ Blocks(w, "REFUSED")
      \/ NewMergeRequest(i) /\ Moves(w, c)
  BY Zenon DEF Post
<1>4. CASE NewMergeRequest(i) /\ Moves(w, c)
  <2>1. Moves(w, c)
    BY <1>4
  <2>2. n \in DOMAIN mrs'[i]
    BY <1>2, <1>4, OpenGrows DEF Typed
  <2> HIDE DEF n, seen
  <2>3. call'[w].at = "prove" /\ call'[w].m = call[w].m /\ call'[w].mr = n
    BY <1>1, <2>1, SawOn, Zenon
  <2>4. Mine(w)'.kind = "CREATE" /\ Mine(w)'.item = i
    BY <1>1, <1>2, <2>3, SameRequest DEF Item
  <2> QED BY <2>2, <2>3, <2>4 DEF Goes
<1> QED BY <1>1, <1>3, <1>4, RefusedGoes

\* What was proved is settled as it is.
LEMMA ProveGoes ==
  ASSUME Typed, Placed, Grows, NEW w \in Workers, Prove(w)
  PROVE  Goes(w)'
<1> DEFINE i == Item(w)
<1>1. call[w].at = "prove" /\ call[w].at # "idle" /\ Kept
  BY DEF Prove, Grows
<1>2. Mine(w).kind = "CREATE" /\ i \in Items /\ call[w].mr \in DOMAIN mrs[i]
  BY <1>1, MineTyped DEF Typed, Working, Placed, Goes, Item
<1>3. \/ Unread(w, "unknown") \/ Refused(w, "REFUSED") \/ Refused(w, "HEAD_SHA_CHANGED")
      \/ Goto(w, "settle")
  BY Zenon DEF Prove
<1>4. CASE Goto(w, "settle")
  <2>1. call'[w].at = "settle" /\ call'[w].m = call[w].m /\ call'[w].mr = call[w].mr
    BY <1>1, <1>4, WentOn
  <2>2. call'[w].mr \in DOMAIN mrs'[i]
    BY <1>2, <2>1 DEF Grows, MrsGrow, ListGrows
  <2>3. Mine(w)'.kind = "CREATE" /\ Mine(w)'.item = i
    BY <1>1, <1>2, <2>1, SameRequest DEF Item
  <2> QED BY <2>1, <2>2, <2>3 DEF Goes
<1> QED BY <1>1, <1>3, <1>4, RefusedGoes

\* A merge that is found done or made is the merge of the request, at its head.
LEMMA MergedGoes ==
  ASSUME Typed, Grows, NEW w \in Workers, call[w].at # "idle", Mine(w).kind = "MERGE",
         call'[w].at = "settle", call'[w].m = call[w].m,
         Item(w) \in DOMAIN bindings,
         mrs'[Item(w)][bindings[Item(w)].mr].state = "merged",
         mrs'[Item(w)][bindings[Item(w)].mr].head = Mine(w).head
  PROVE  Goes(w)'
<1>1. /\ Mine(w)'.kind = "MERGE" /\ Mine(w)'.item = Item(w) /\ Mine(w)'.head = Mine(w).head
  BY SameRequest DEF Grows, Item
<1>2. Item(w) \in DOMAIN bindings' /\ bindings'[Item(w)].mr = bindings[Item(w)].mr
  BY DEF Grows, BindingsGrow
<1> QED BY <1>1, <1>2 DEF Goes, MergedAt, MergeRequest

\* The reconciler settles a merge it saw done at the head of the request.
LEMMA CheckGoes ==
  ASSUME Typed, Placed, Grows, NEW w \in Workers, Check(w)
  PROVE  Goes(w)'
<1> DEFINE i == Item(w)
           k == bindings[i].mr
           mr == mrs[i][k]
           seen == [state |-> mr.state, head |-> mr.head]
           c == [call[w] EXCEPT !.at = "settle", !.mr = k, !.seen = seen]
           d == [call[w] EXCEPT !.at = "put", !.mr = k]
<1>1. call[w].at = "check" /\ call[w].at # "idle" /\ Kept
  BY DEF Check, Grows
<1>2. i \in Items /\ i \in DOMAIN bindings /\ Mine(w).kind = "MERGE" /\ k \in DOMAIN mrs[i]
  BY <1>1, MergeBound DEF Typed, Working
<1>3. \/ Unread(w, "raise") \/ Unread(w, "unknown")
      \/ Deny(w) \/ Refused(w, "REFUSED") \/ Refused(w, "HEAD_SHA_CHANGED")
      \/ mr.head = Mine(w).head /\ mr.state = "merged" /\ Moves(w, c)
      \/ Moves(w, d)
  BY Zenon DEF Check
<1>4. CASE mr.head = Mine(w).head /\ mr.state = "merged" /\ Moves(w, c)
  <2>1. Moves(w, c)
    BY <1>4
  <2>2. mrs'[i][k] = mr
    BY <1>2, <1>4 DEF Grows, MrsGrow, ListGrows
  <2>3. call'[w].at = "settle" /\ call'[w].m = call[w].m
    <3> HIDE DEF seen, k
    <3> QED BY <1>1, <2>1, SawOn, Zenon
  <2> QED BY <1>1, <1>2, <1>4, <2>2, <2>3, MergedGoes
<1>5. CASE Moves(w, d)
  <2>1. call[w] \in CallRows /\ CallTyped
    BY DEF Typed, CallTyped
  <2>2. d.at = "put" /\ d.m = call[w].m /\ d.mr = k
    BY <2>1 DEF CallRows
  <2> HIDE DEF d
  <2>3. call'[w].at = "put" /\ call'[w].m = call[w].m /\ call'[w].mr = k
    BY <1>5, <2>1, <2>2, MovedOne
  <2>4. Mine(w)'.kind = "MERGE" /\ Mine(w)'.item = i
    BY <1>1, <1>2, <2>3, SameRequest DEF Item
  <2>5. bindings'[i].mr = k
    BY <1>2 DEF Grows, BindingsGrow
  <2> QED BY <2>3, <2>4, <2>5 DEF Goes
<1> QED BY <1>1, <1>3, <1>4, <1>5, RefusedGoes

\* A merge that was made is settled as made at that head.
LEMMA PutGoes ==
  ASSUME Typed, Placed, Grows, NEW w \in Workers, Put(w)
  PROVE  Goes(w)'
<1> DEFINE i == Item(w)
           k == call[w].mr
           mr == mrs[i][k]
           seen == [state |-> "merged", head |-> mr.head]
           c == [call[w] EXCEPT !.at = "settle", !.seen = seen]
<1>1. call[w].at = "put" /\ call[w].at # "idle" /\ Kept
  BY DEF Put, Grows
<1>2. /\ i \in Items /\ i \in DOMAIN bindings /\ Mine(w).kind = "MERGE"
      /\ k \in DOMAIN mrs[i] /\ k = bindings[i].mr
  BY <1>1, MergeBound DEF Typed, Working
<1>3. \/ Goto(w, "unknown") \/ Blocks(w, "REFUSED") \/ Blocks(w, "HEAD_SHA_CHANGED")
      \/ mr.state = "opened" /\ mr.head = Mine(w).head /\ Merges(i, k, "platform") /\ Moves(w, c)
  BY Zenon DEF Put
<1>4. CASE mr.state = "opened" /\ mr.head = Mine(w).head /\ Merges(i, k, "platform") /\ Moves(w, c)
  <2>1. call[w] \in CallRows /\ CallTyped
    BY DEF Typed, CallTyped
  <2>2. c.at = "settle" /\ c.m = call[w].m
    BY <2>1 DEF CallRows
  <2>3. Moves(w, c)
    BY <1>4
  <2> HIDE DEF c
  <2>4. call'[w].at = "settle" /\ call'[w].m = call[w].m
    BY <2>1, <2>2, <2>3, MovedOne
  <2>5. mrs'[i][k].state = "merged" /\ mrs'[i][k].head = mr.head
    BY <1>2, <1>4, MergesGrow DEF Typed
  <2> QED BY <1>1, <1>2, <1>4, <2>4, <2>5, MergedGoes
<1> QED BY <1>1, <1>3, <1>4, RefusedGoes
-----------------------------------------------------------------------------
(* Outcomes.                                                               *)

\* A final outcome that was there before, acknowledged or not as before.
Outlives(n) ==
  effects'[n].state \in Final =>
    /\ n \in DOMAIN effects /\ effects[n].state = effects'[n].state
    /\ effects'[n].acked = effects[n].acked

\* An outcome just reached by a worker, which nobody was told of yet.
Reached(w, n) ==
  /\ n = call[w].m /\ effects'[n].acked = FALSE
  /\ \/ effects'[n].state = "BLOCKED"
     \/ /\ effects'[n].state = "SUCCEEDED" /\ call[w].at = "settle"
        /\ Mine(w).kind = "CREATE" => Mine(w).item \in DOMAIN bindings'

\* Effects left alone keep their outcomes.
LEMMA EffectsStay ==
  ASSUME UNCHANGED effects
  PROVE  \A n \in DOMAIN effects' : Outlives(n)
  BY DEF Outlives

\* A state that is not final makes no outcome.
LEMMA TurnOutlives ==
  ASSUME EffectsTyped, NEW m, NEW state, state \notin Final, NEW tries,
         effects' = Turned(m, state, tries)
  PROVE  \A n \in DOMAIN effects' : Outlives(n)
<1> DEFINE e == [effects[m] EXCEPT !.state = state, !.tries = tries]
<1>1. effects' = [effects EXCEPT ![m] = e]
  BY DEF Turned
<1>2. m \in DOMAIN effects => e.state = state
  <2> SUFFICES ASSUME m \in DOMAIN effects PROVE e.state = state
    OBVIOUS
  <2>1. effects[m] \in Effects
    BY DEF EffectsTyped
  <2> QED BY <2>1 DEF Effects
<1> HIDE DEF e
<1> QED BY <1>1, <1>2 DEF Outlives

\* A call that raises makes no outcome.
LEMMA RaiseOutlives ==
  ASSUME EffectsTyped, NEW w, Raise(w)
  PROVE  \A n \in DOMAIN effects' : Outlives(n)
<1>1. effects' = effects \/ effects' = Turned(call[w].m, "UNKNOWN", Row(w).tries)
  BY DEF Raise
<1>2. "UNKNOWN" \notin Final
  BY DEF Final
<1> QED BY <1>1, <1>2, EffectsStay, TurnOutlives

\* A finished effect is one nobody was told of yet.
LEMMA FinishReaches ==
  ASSUME NEW m, NEW state, NEW why, effects' = Finish(m, state, why)
  PROVE  \A n \in DOMAIN effects' :
           \/ Outlives(n)
           \/ n = m /\ effects'[n].state = state /\ effects'[n].acked = FALSE
<1> DEFINE e == [state |-> state, why |-> why, tries |-> 0, acked |-> FALSE]
<1>1. effects' = [effects EXCEPT ![m] = e]
  BY DEF Finish
<1>2. e.state = state /\ e.acked = FALSE
  OBVIOUS
<1> HIDE DEF e
<1> QED BY <1>1, <1>2 DEF Outlives

\* The admission makes no outcome.
LEMMA AdmitOutlives ==
  ASSUME EffectsTyped, NEW w \in Workers, Admit(w)
  PROVE  \A n \in DOMAIN effects' : Outlives(n)
<1>1. ASSUME NEW why, Plan(w, why) PROVE \A n \in DOMAIN effects' : Outlives(n)
  <2> DEFINE m == call[w].m
             e == [state |-> "PLANNED", tries |-> 0, acked |-> FALSE, why |-> "NONE"]
  <2>1. \/ effects' = With(effects, m, e) \/ UNCHANGED effects \/ Raise(w)
    BY <1>1, Zenon DEF Plan, rows
  <2>2. e.state \notin Final
    BY DEF Final
  <2> HIDE DEF e
  <2>3. CASE effects' = With(effects, m, e)
    BY <2>2, <2>3 DEF With, Outlives
  <2> QED BY <2>1, <2>3, EffectsStay, RaiseOutlives
<1> QED BY <1>1, RaiseOutlives, Zenon DEF Admit

\* A settled effect has its binding.
LEMMA SettleReaches ==
  ASSUME EffectsTyped, NEW w \in Workers, Settle(w)
  PROVE  \A n \in DOMAIN effects' : Outlives(n) \/ Reached(w, n)
<1> DEFINE c == call[w]
           r == Mine(w)
           b == [mr |-> c.mr, seen |-> c.seen, cycle |-> r.cycle]
<1>1. \/ Raise(w)
      \/ /\ effects' = Finish(c.m, "SUCCEEDED", "NONE")
         /\ r.kind = "CREATE" => bindings' = With(bindings, r.item, b)
  BY Zenon DEF Settle
<1>2. CASE /\ effects' = Finish(c.m, "SUCCEEDED", "NONE")
           /\ r.kind = "CREATE" => bindings' = With(bindings, r.item, b)
  <2>1. c.at = "settle"
    BY DEF Settle
  <2>2. r.kind = "CREATE" => r.item \in DOMAIN bindings'
    BY <1>2 DEF With
  <2>3. effects' = Finish(c.m, "SUCCEEDED", "NONE")
    BY <1>2
  <2> QED BY <2>1, <2>2, <2>3, FinishReaches DEF Reached
<1> QED BY <1>1, <1>2, RaiseOutlives

\* A worker reaches outcomes by settling and blocking alone.
LEMMA WorkReaches ==
  ASSUME EffectsTyped, NEW w \in Workers, Work(w)
  PROVE  \A n \in DOMAIN effects' : Outlives(n) \/ Reached(w, n)
<1>1. CASE Admit(w)
  BY <1>1, AdmitOutlives
<1>2. CASE Launch(w)
  <2>1. effects' = Turned(call[w].m, "IN_FLIGHT", 1) \/ Raise(w)
    BY <1>2, Zenon DEF Launch
  <2>2. "IN_FLIGHT" \notin Final
    BY DEF Final
  <2> QED BY <2>1, <2>2, TurnOutlives, RaiseOutlives
<1>3. CASE Agree(w) \/ Post(w) \/ Prove(w) \/ Put(w)
  <2>1. UNCHANGED effects \/ Raise(w)
    BY <1>3, Zenon DEF Agree, Post, Prove, Put, Unread, Refused, rows
  <2> QED BY <2>1, EffectsStay, RaiseOutlives
<1>4. CASE Discover(w) \/ Check(w)
  <2>1. UNCHANGED effects \/ Raise(w)
    BY <1>4, Zenon DEF Discover, Check, Unread, Refused, Deny, rows
  <2> QED BY <2>1, EffectsStay, RaiseOutlives
<1>5. CASE Settle(w)
  BY <1>5, SettleReaches
<1>6. CASE Block(w)
  <2>1. UNCHANGED effects \/ Raise(w) \/ effects' = Finish(call[w].m, "BLOCKED", call[w].why)
    BY <1>6, Zenon DEF Block, rows
  <2>2. CASE effects' = Finish(call[w].m, "BLOCKED", call[w].why)
    BY <2>2, FinishReaches DEF Reached
  <2> QED BY <2>1, <2>2, EffectsStay, RaiseOutlives
<1>7. CASE Doubt(w)
  <2>1. Raise(w) \/ effects' = Turned(call[w].m, "UNKNOWN", Row(w).tries)
    BY <1>7, Zenon DEF Doubt
  <2>2. "UNKNOWN" \notin Final
    BY DEF Final
  <2> QED BY <2>1, <2>2, TurnOutlives, RaiseOutlives
<1> QED BY <1>1, <1>2, <1>3, <1>4, <1>5, <1>6, <1>7 DEF Work

\* A claim reopens only what is not settled.
LEMMA ClaimOutlives ==
  ASSUME EffectsTyped, NEW w \in Workers,
         \/ Crash(w)
         \/ \E m \in DOMAIN requests : TakeRequest(w, m)
         \/ \E m \in DOMAIN effects : TakeEffect(w, m)
  PROVE  \A n \in DOMAIN effects' : Outlives(n)
<1>1. UNCHANGED effects \/ \E m \in DOMAIN effects : \E tries : effects' = Turned(m, "RECONCILIATION", tries)
  <2>1. ASSUME NEW m \in DOMAIN effects, TakeEffect(w, m)
        PROVE  \E tries : effects' = Turned(m, "RECONCILIATION", tries)
    BY <2>1, Zenon DEF TakeEffect
  <2> QED BY <2>1 DEF Crash, TakeRequest, rows
<1>2. "RECONCILIATION" \notin Final
  BY DEF Final
<1> QED BY <1>1, <1>2, EffectsStay, TurnOutlives

\* A telling leaves every effect its outcome; the one told may get its mark.
LEMMA TellKeeps ==
  ASSUME EffectsTyped, NEW m \in DOMAIN effects, Tell(m)
  PROVE  /\ DOMAIN effects' = DOMAIN effects
         /\ \A n \in DOMAIN effects : effects'[n].state = effects[n].state
         /\ \A n \in DOMAIN effects \ {m} : effects'[n] = effects[n]
<1> DEFINE e == [effects[m] EXCEPT !.acked = TRUE]
<1>1. effects[m] \in Effects
  BY DEF EffectsTyped
<1>2. e.state = effects[m].state
  BY <1>1 DEF Effects
<1>3. effects' = [effects EXCEPT ![m] = e] \/ effects' = effects
  BY DEF Tell
<1> HIDE DEF e
<1> QED BY <1>2, <1>3

\* An effect that is successful in the next state is, or its worker just settled it.
LEMMA EffectsPlaced ==
  ASSUME Typed, Placed, Grows, NEW n \in DOMAIN effects',
         \/ effects'[n].state = "SUCCEEDED" => n \in DOMAIN effects /\ effects[n].state = "SUCCEEDED"
         \/ \E w \in Workers : Reached(w, n)
  PROVE  EffectFits(n)'
<1>1. CASE effects'[n].state # "SUCCEEDED"
  BY <1>1 DEF EffectFits
<1>2. CASE n \in DOMAIN effects /\ effects[n].state = "SUCCEEDED"
  BY <1>2, EffectStays
<1>3. ASSUME NEW w \in Workers, Reached(w, n), effects'[n].state = "SUCCEEDED"
      PROVE  EffectFits(n)'
  <2> DEFINE r == Mine(w)
  <2>1. n = call[w].m /\ call[w].at = "settle" /\ (r.kind = "CREATE" => r.item \in DOMAIN bindings')
    BY <1>3 DEF Reached
  <2>2. n \in DOMAIN requests /\ r.item \in Items
    BY <2>1, MineTyped DEF Typed, Working, Item
  <2>3. requests'[n].kind = r.kind /\ requests'[n].item = r.item /\ requests'[n].head = r.head
    BY <2>1, <2>2 DEF Grows, Kept, Mine
  <2>4. CASE r.kind = "CREATE"
    BY <2>1, <2>3, <2>4 DEF EffectFits
  <2>5. CASE r.kind # "CREATE"
    <3>1. MergedAt(r.item, r.head)
      BY <2>1, <2>5 DEF Placed, Goes
    <3>2. PICK i, h : i \in Items /\ i = r.item /\ h = r.head
      BY <2>2
    <3>3. MergedAt(i, h)'
      BY <3>1, <3>2, MergedStays
    <3>4. requests'[n].item = i /\ requests'[n].head = h /\ requests'[n].kind # "CREATE"
      BY <2>3, <2>5, <3>2
    <3> QED BY <3>3, <3>4 DEF EffectFits, MergedAt, MergeRequest
  <2> QED BY <2>4, <2>5
<1> QED BY <1>1, <1>2, <1>3

\* The requests' fits where none is added.
LEMMA RequestsPlaced ==
  ASSUME Placed, Grows, DOMAIN requests' = DOMAIN requests
  PROVE  \A m \in DOMAIN requests' : RequestFits(m)'
  BY RequestStays

\* A binding that is there stays so, and new ones come with settling alone.
LEMMA BoundStays ==
  ASSUME Placed, Grows, \A i \in Items : items'[i].bound => items[i].bound,
         DOMAIN bindings \subseteq Items, UNCHANGED bindings
  PROVE  Bound'
  BY DEF Placed, Bound, Grows, MrsGrow, ListGrows

\* Settling binds the merge request it found or opened.
LEMMA SettleBound ==
  ASSUME Typed, Placed, Grows, NEW w \in Workers, Settle(w)
  PROVE  Bound'
<1> DEFINE c == call[w]
           r == Mine(w)
           b == [mr |-> c.mr, seen |-> c.seen, cycle |-> r.cycle]
           d == [bindings EXCEPT ![r.item].seen = c.seen]
<1>1. c.at = "settle" /\ r.item \in Items /\ UNCHANGED formal /\ UNCHANGED gitlab
  BY MineTyped DEF Settle, Typed, Working, Item
<1>2. \/ UNCHANGED bindings
      \/ r.kind = "CREATE" /\ bindings' = With(bindings, r.item, b)
      \/ bindings' = d
  BY Zenon DEF Settle, Raise
<1>3. \A i \in Items : items'[i].bound => i \in DOMAIN bindings'
  BY <1>1 DEF formal, Placed, Bound, Grows, BindingsGrow
<1>4. DOMAIN bindings \subseteq Items /\ UNCHANGED mrs
  BY <1>1 DEF Typed, RowsTyped, BindingsTyped, gitlab
<1>5. CASE r.kind = "CREATE" /\ bindings' = With(bindings, r.item, b)
  <2>1. b.mr \in DOMAIN mrs[r.item]
    BY <1>1, <1>5 DEF Placed, Goes
  <2>2. bindings' = With(bindings, r.item, b)
    BY <1>5
  <2> HIDE DEF b
  <2>3. \A i \in DOMAIN bindings' : bindings'[i].mr \in DOMAIN mrs[i]
    BY <2>1, <2>2 DEF With, Placed, Bound
  <2> QED BY <1>3, <1>4, <2>3 DEF Bound
<1>6. CASE UNCHANGED bindings \/ bindings' = d
  <2>1. DOMAIN bindings' = DOMAIN bindings
    BY <1>6
  <2>2. \A i \in DOMAIN bindings' : bindings'[i].mr \in DOMAIN mrs[i]
    BY <2>1 DEF Grows, BindingsGrow, Placed, Bound
  <2> QED BY <1>3, <1>4, <2>2 DEF Bound
<1> QED BY <1>2, <1>5, <1>6
-----------------------------------------------------------------------------
(* Work items shown as bound.                                              *)

\* A callback shows its own work item as bound, and only with a binding.
LEMMA RecordBound ==
  ASSUME FormalTyped, NEW t \in Tellings, Accepts(t), Record(t)
  PROVE  \A i \in Items : items'[i].bound => items[i].bound \/ (i = t.item /\ t.bound)
<1>1. CASE Key(t) \in answers
  BY <1>1 DEF Record
<1>2. \A i \in Items : Projected(t)[i].bound => items[i].bound \/ (i = t.item /\ t.bound)
  <2>1. ItemsTyped
    BY DEF FormalTyped
  <2>2. \A j \in Items \ {t.item} : Projected(t)[j] = items[j]
    BY <2>1, ProjectedShown
  <2>3. Projected(t)[t.item].bound <=> items[t.item].bound \/ t.bound
    BY <2>1, ProjectedShown, Zenon
  <2> QED BY <2>2, <2>3
<1>3. CASE Key(t) \notin answers /\ Concludes(t, Projected(t))
  <2> DEFINE rows0 == Projected(t)
             rs == [i \in Items |-> IF rows0[i].formal = "BLOCKED" /\ rows0[i].why = "HEAD_SHA_CHANGED"
                                    THEN Reopen(rows0[i]) ELSE rows0[i]]
  <2>1. rows0 \in [Items -> ItemRows]
    BY ProjectedTyped DEF FormalTyped
  <2>2. Invalidate(rs, WithGate(t))
    BY <1>3 DEF Record
  <2>3. \A i \in Items : rows0[i].bound => items[i].bound \/ (i = t.item /\ t.bound)
    BY <1>2
  <2> HIDE DEF rows0
  <2>4. rs \in [Items -> ItemRows] /\ \A i \in Items : rs[i].bound = rows0[i].bound
    BY <2>1, ReopenTyped, ReopenShown
  <2> HIDE DEF rs
  <2>5. Admits(t)
    BY <1>3 DEF Accepts
  <2>6. \A i \in Items : items'[i].bound = rs[i].bound
    BY <2>2, <2>4, <2>5, WithGateTyped, InvalidateShown
  <2> QED BY <2>3, <2>4, <2>6
<1>4. CASE Key(t) \notin answers /\ ~Concludes(t, Projected(t))
  <2>1. items' = Projected(t)
    BY <1>4 DEF Record
  <2> QED BY <1>2, <2>1
<1> QED BY <1>1, <1>3, <1>4

\* What is told of a binding is there.
LEMMA TellBound ==
  ASSUME Typed, Placed, Grows, NEW m \in DOMAIN effects, Tell(m)
  PROVE  Bound'
<1> DEFINE t == Telling(m)
           r == requests[m]
<1>1. t \in Tellings /\ Accepts(t) /\ Record(t) /\ UNCHANGED <<bindings, mrs>>
  BY TellingTyped DEF Typed, Tell, gitlab
<1>2. m \in DOMAIN requests /\ r.kind \in {"CREATE", "MERGE"}
  <2>1. m \in DOMAIN requests
    BY DEF Typed, RowsTyped, EffectsTyped
  <2>2. r \in Requests
    BY <2>1, ElementOfSeq DEF Typed, RowsTyped, RequestsTyped
  <2> QED BY <2>1, <2>2 DEF Requests
<1>3. t.bound => t.item \in DOMAIN bindings
  <2>1. t.item = r.item /\ (t.bound <=> t.kind = "ready" \/ r.bound)
    BY DEF Telling
  <2>2. t.kind = "ready" => effects[m].state = "SUCCEEDED" /\ r.kind = "CREATE"
    BY DEF Telling
  <2>3. effects[m].state = "SUCCEEDED" /\ r.kind = "CREATE" => r.item \in DOMAIN bindings
    BY DEF Placed, EffectFits
  <2>4. r.bound => r.item \in DOMAIN bindings
    BY <1>2 DEF Placed, RequestFits
  <2> QED BY <2>1, <2>2, <2>3, <2>4
<1> HIDE DEF t
<1>4. \A i \in Items : items'[i].bound => items[i].bound \/ (i = t.item /\ t.bound)
  BY <1>1, RecordBound DEF Typed
<1> QED BY <1>1, <1>3, <1>4 DEF Placed, Bound

\* No command of the people binds a work item.
LEMMA PeopleBound ==
  ASSUME FormalTyped, Asks \/ \E i \in Items : Rework(i) \/ Push(i) \/ Person(i)
  PROVE  \A i \in Items : items'[i].bound => items[i].bound
<1>0. items \in [Items -> ItemRows] /\ \A g \in DOMAIN gates : gates[g] \in Gates
  BY DEF FormalTyped, ItemsTyped, GatesTyped
<1>1. ASSUME UNCHANGED items PROVE \A i \in Items : items'[i].bound => items[i].bound
  BY <1>1
<1>2. ASSUME NEW i \in Items, Rework(i) PROVE \A j \in Items : items'[j].bound => items[j].bound
  <2> DEFINE n == items[i].rev + 1
             row == [items[i] EXCEPT !.state = "VERIFYING", !.integrated = TRUE, !.rev = n]
  <2>1. items' = [items EXCEPT ![i] = row]
    BY <1>2 DEF Rework, Reintegrate
  <2>2. items[i] \in ItemRows /\ n \in Nat
    BY <1>0, NextRevision
  <2> HIDE DEF n
  <2>3. row.bound = items[i].bound
    BY <2>2 DEF ItemRows
  <2> HIDE DEF row
  <2> QED BY <1>0, <2>1, <2>3
<1>3. ASSUME Decline PROVE \A i \in Items : items'[i].bound => items[i].bound
  <2> DEFINE rs == [i \in Items |-> IF items[i].integrated /\ items[i].formal # "MERGED"
                                    THEN Reopen(items[i]) ELSE items[i]]
  <2>1. Invalidate(rs, gates)
    BY <1>3 DEF Decline
  <2>2. rs \in [Items -> ItemRows] /\ \A i \in Items : rs[i].bound = items[i].bound
    BY <1>0, ReopenTyped, ReopenShown
  <2> HIDE DEF rs
  <2> QED BY <1>0, <2>1, <2>2, InvalidateShown
<1>4. ASSUME NEW i \in Items, SubmitValidation(i) PROVE \A j \in Items : items'[j].bound => items[j].bound
  BY <1>0, <1>4, InvalidateShown DEF SubmitValidation
<1>5. ASSUME NEW i \in Items, Reject(i) PROVE \A j \in Items : items'[j].bound => items[j].bound
  <2> DEFINE k == <<i, Latest(i)>>
             gate == [gates[k] EXCEPT !.outcome = "REJECTED"]
             rs == [items EXCEPT ![i] = Reopen(@)]
             reviews == [gates EXCEPT ![k] = gate]
  <2>1. k \in DOMAIN gates
    BY <1>5, ReviewThere DEF Reject, Reviewable, FormalTyped
  <2>2. gate \in Gates
    BY <1>0, <2>1, GateEdit, Zenon
  <2>3. Invalidate(rs, reviews)
    BY <1>5 DEF Reject
  <2>4. rs \in [Items -> ItemRows] /\ \A j \in Items : rs[j].bound = items[j].bound
    BY <1>0, ReopenTyped, ReopenShown
  <2> HIDE DEF gate, k
  <2>5. \A g \in DOMAIN reviews : reviews[g] \in Gates
    BY <1>0, <2>2
  <2> HIDE DEF rs, reviews
  <2> QED BY <2>3, <2>4, <2>5, InvalidateShown
<1>6. ASSUME NEW i \in Items, NEW kind \in {"CREATE", "MERGE"}, Request(i, kind)
      PROVE  \A j \in Items : items'[j].bound => items[j].bound
  <2> DEFINE f == IF kind = "CREATE" THEN "MR_PENDING" ELSE "MERGE_PENDING"
             n == items[i].rev + 1
             row == [items[i] EXCEPT !.state = "AWAITING_MERGE", !.why = "NONE", !.formal = f, !.rev = n]
  <2>1. items' = [items EXCEPT ![i] = row]
    BY <1>6 DEF Request
  <2>2. items[i] \in ItemRows /\ n \in Nat
    BY <1>0, NextRevision
  <2> HIDE DEF n, f
  <2>3. row.bound = items[i].bound
    BY <2>2 DEF ItemRows
  <2> HIDE DEF row
  <2> QED BY <1>0, <2>1, <2>3
<1>7. ASSUME Asks PROVE \A i \in Items : items'[i].bound => items[i].bound
  <2>1. ASSUME Select \/ Accept \/ \E i \in Items : Approve(i) \/ ReceiveValidation(i)
        PROVE  UNCHANGED items
    BY <2>1 DEF Select, Accept, Approve, ReceiveValidation
  <2> QED BY <1>1, <1>3, <1>4, <1>5, <1>6, <1>7, <2>1 DEF Asks
<1>8. ASSUME NEW i \in Items, Push(i) \/ Person(i) PROVE UNCHANGED items
  BY <1>8 DEF Push, Person, formal
<1> QED BY <1>1, <1>2, <1>7, <1>8

\* An approval that stands is a review's (MergeAuthority).
LEMMA ApprovedIsReviewed ==
  ASSUME FormalTyped, NEW i \in Items, Approved(i)
  PROVE  Approves(i, proof[i])
<1>1. <<i, Latest(i)>> \in DOMAIN gates
  BY ReviewThere DEF Approved, Reviewed, FormalTyped
<1>2. gates[<<i, Latest(i)>>].outcome = "APPROVED" /\ gates[<<i, Latest(i)>>].head = proof[i]
  BY DEF Approved, Review
<1> QED BY <1>1, <1>2 DEF Approves

\* A request is made under the binding and the review of its work item.
LEMMA NewRequestFits ==
  ASSUME Typed, Placed, Grows, NEW i \in Items, NEW kind \in {"CREATE", "MERGE"},
         Request(i, kind), UNCHANGED bindings
  PROVE  \A m \in DOMAIN requests' : RequestFits(m)'
<1> PICK n : n = Len(requests) + 1
  OBVIOUS
<1> DEFINE r == [kind |-> kind, item |-> i, rev |-> items[i].rev + 1, cycle |-> cycle.now,
                 head |-> proof[i], bound |-> items[i].bound, state |-> "RECEIVED", tries |-> 0]
<1>1. requests \in Seq(Requests) /\ requests' = Append(requests, r) /\ UNCHANGED gates
  BY DEF Typed, RowsTyped, RequestsTyped, Request
<1>2. requests' \in Seq(Requests)
  BY RequestTyped DEF Typed, RowsTyped, RequestsTyped
<1>3. DOMAIN requests' = DOMAIN requests \cup {n} /\ requests'[n] = r
  <2> HIDE DEF r
  <2> QED BY <1>1
<1>4. r.bound => i \in DOMAIN bindings
  BY DEF Placed, Bound
<1>5. kind = "MERGE" => items[i].bound /\ Approves(i, proof[i])
  BY ApprovedIsReviewed DEF Request, MayMerge, Typed
<1>6. r.kind = kind /\ r.item = i /\ r.head = proof[i] /\ r.bound = items[i].bound
  OBVIOUS
<1> HIDE DEF r
<1>7. RequestFits(n)'
  BY <1>1, <1>3, <1>4, <1>5, <1>6 DEF RequestFits, Approves
<1> QED BY <1>3, <1>7, RequestStays
-----------------------------------------------------------------------------
(* The placement is inductive.                                             *)

\* A worker marks requests and adds none.
LEMMA WorkAddsNone ==
  ASSUME NEW w \in Workers,
         \/ Work(w) \/ Crash(w)
         \/ \E m \in DOMAIN requests : TakeRequest(w, m)
         \/ \E m \in DOMAIN effects : TakeEffect(w, m)
  PROVE  DOMAIN requests' = DOMAIN requests
<1> DEFINE marks == UNCHANGED requests \/ \E m, state, tries : requests' = Marked(m, state, tries)
<1>1. ASSUME marks PROVE DOMAIN requests' = DOMAIN requests
  BY <1>1 DEF Marked
<1>2. ASSUME Raise(w) PROVE marks
  BY <1>2, Zenon DEF Raise
<1>3. ASSUME NEW why, Plan(w, why) PROVE marks
  BY <1>2, <1>3, Zenon DEF Plan, Closed, rows
<1>4. ASSUME NEW m, TakeRequest(w, m) PROVE marks
  BY <1>4, Zenon DEF TakeRequest
<1>5. ASSUME NEW m, TakeEffect(w, m) PROVE marks
  BY <1>5, Zenon DEF TakeEffect
<1>6. CASE Crash(w)
  BY <1>1, <1>6 DEF Crash, rows
<1>7. CASE Admit(w)
  BY <1>1, <1>2, <1>3, <1>7, Zenon DEF Admit
<1>8. CASE Launch(w) \/ Agree(w) \/ Post(w) \/ Prove(w) \/ Put(w)
  BY <1>1, <1>2, <1>8, Zenon DEF Launch, Agree, Post, Prove, Put, Unread, Refused, rows
<1>9. CASE Discover(w) \/ Check(w)
  BY <1>1, <1>2, <1>9, Zenon DEF Discover, Check, Unread, Refused, Deny, rows
<1>10. CASE Settle(w) \/ Block(w) \/ Doubt(w)
  BY <1>1, <1>2, <1>10, Zenon DEF Settle, Block, Doubt, Closed, rows
<1> QED BY <1>1, <1>4, <1>5, <1>6, <1>7, <1>8, <1>9, <1>10 DEF Work

\* The other workers keep their places.
LEMMA OthersGo ==
  ASSUME Typed, Placed, Grows, NEW w \in Workers, NEW c, Moves(w, c), Goes(w)'
  PROVE  \A v \in Workers : Goes(v)'
<1>1. ASSUME NEW v \in Workers \ {w} PROVE Goes(v)'
  <2>1. call'[v] = call[v]
    BY MovedOne DEF Typed
  <2> QED BY <2>1, GoesStays
<1> QED BY <1>1

\* Every step of a worker moves it.
LEMMA WorkMoves ==
  ASSUME NEW w \in Workers, Work(w)
  PROVE  \E c : Moves(w, c)
<1>1. ASSUME Raise(w) PROVE \E c : Moves(w, c)
  BY <1>1, Zenon DEF Raise, Leave
<1>2. ASSUME NEW why, Plan(w, why) PROVE \E c : Moves(w, c)
  BY <1>1, <1>2, Zenon DEF Plan, Leave
<1>3. ASSUME NEW why, Blocks(w, why) PROVE \E c : Moves(w, c)
  BY <1>3, Zenon DEF Blocks
<1>4. ASSUME NEW at, Goto(w, at) PROVE \E c : Moves(w, c)
  BY <1>4, Zenon DEF Goto
<1>5. CASE Admit(w)
  BY <1>1, <1>2, <1>5, Zenon DEF Admit
<1>6. CASE Launch(w) \/ Agree(w) \/ Prove(w)
  BY <1>1, <1>3, <1>4, <1>6, Zenon DEF Launch, Agree, Prove, Unread, Refused
<1>7. CASE Post(w)
  BY <1>3, <1>4, <1>7, Zenon DEF Post
<1>8. CASE Put(w)
  BY <1>3, <1>4, <1>8, Zenon DEF Put
<1>9. CASE Discover(w)
  BY <1>1, <1>3, <1>4, <1>9, Zenon DEF Discover, Unread, Refused, Deny
<1>10. CASE Check(w)
  BY <1>1, <1>3, <1>4, <1>10, Zenon DEF Check, Unread, Refused, Deny
<1>11. CASE Settle(w) \/ Block(w) \/ Doubt(w)
  BY <1>1, <1>11, Zenon DEF Settle, Block, Doubt, Leave
<1> QED BY <1>5, <1>6, <1>7, <1>8, <1>9, <1>10, <1>11 DEF Work

\* A worker's step leaves everything in its place.
LEMMA WorkPlaced ==
  ASSUME Typed, Placed, Grows, NEW w \in Workers, Work(w)
  PROVE  Placed'
<1>1. EffectsTyped /\ CallTyped /\ Kept
  BY DEF Typed, RowsTyped, Grows
<1>2. \A m \in DOMAIN requests' : RequestFits(m)'
  BY WorkAddsNone, RequestsPlaced
<1>3. \A n \in DOMAIN effects' : EffectFits(n)'
  <2> SUFFICES ASSUME NEW n \in DOMAIN effects' PROVE EffectFits(n)'
    OBVIOUS
  <2>1. Outlives(n) \/ Reached(w, n)
    BY <1>1, WorkReaches
  <2>2. CASE Outlives(n)
    <3>1. effects'[n].state = "SUCCEEDED" => n \in DOMAIN effects /\ effects[n].state = "SUCCEEDED"
      BY <2>2 DEF Outlives, Final
    <3> QED BY <3>1, EffectsPlaced
  <2>3. CASE Reached(w, n)
    BY <2>3, EffectsPlaced
  <2> QED BY <2>1, <2>2, <2>3
<1>4. Goes(w)'
  <2>1. CASE Settle(w) \/ Block(w) \/ Doubt(w)
    <3>1. Leave(w) \/ Raise(w)
      BY <2>1, Zenon DEF Settle, Block, Doubt
    <3> QED BY <1>1, <3>1, GoneIdle, RaisedIdle
  <2> QED BY <1>1, <2>1, AdmitGoes, LaunchGoes, AgreeGoes, DiscoverGoes, PostGoes, ProveGoes,
             CheckGoes, PutGoes DEF Work
<1>5. \A v \in Workers : Goes(v)'
  BY <1>4, WorkMoves, OthersGo
<1>6. Bound'
  <2>1. CASE Settle(w)
    BY <2>1, SettleBound
  <2>2. CASE ~Settle(w)
    <3>1. UNCHANGED formal
      BY WorkTyped
    <3>2. UNCHANGED bindings
      <4>1. ASSUME Raise(w) PROVE UNCHANGED bindings
        BY <4>1 DEF Raise
      <4>2. ASSUME NEW why, Plan(w, why) PROVE UNCHANGED bindings
        BY <4>1, <4>2, Zenon DEF Plan, rows
      <4>3. CASE Admit(w)
        BY <4>1, <4>2, <4>3, Zenon DEF Admit
      <4>4. CASE Launch(w) \/ Agree(w) \/ Post(w) \/ Prove(w) \/ Put(w)
        BY <4>1, <4>4, Zenon DEF Launch, Agree, Post, Prove, Put, Unread, Refused, rows
      <4>5. CASE Discover(w) \/ Check(w)
        BY <4>1, <4>5, Zenon DEF Discover, Check, Unread, Refused, Deny, rows
      <4>6. CASE Block(w) \/ Doubt(w)
        BY <4>1, <4>6, Zenon DEF Block, Doubt, rows
      <4> QED BY <2>2, <4>3, <4>4, <4>5, <4>6 DEF Work
    <3> QED BY <3>1, <3>2, BoundStays DEF formal, Typed, RowsTyped, BindingsTyped
  <2> QED BY <2>1, <2>2
<1> QED BY <1>2, <1>3, <1>5, <1>6 DEF Placed

\* A crash or a claim does too.
LEMMA ClaimPlaced ==
  ASSUME Typed, Placed, Grows, NEW w \in Workers,
         \/ Crash(w)
         \/ \E m \in DOMAIN requests : TakeRequest(w, m)
         \/ \E m \in DOMAIN effects : TakeEffect(w, m)
  PROVE  Placed'
<1>1. EffectsTyped /\ CallTyped /\ UNCHANGED <<formal, bindings>>
  BY ClaimTyped DEF Typed, RowsTyped
<1>2. \A m \in DOMAIN requests' : RequestFits(m)'
  BY WorkAddsNone, RequestsPlaced
<1>3. \A n \in DOMAIN effects' : EffectFits(n)'
  <2>1. \A n \in DOMAIN effects' : Outlives(n)
    BY <1>1, ClaimOutlives
  <2>2. \A n \in DOMAIN effects' :
          effects'[n].state = "SUCCEEDED" => n \in DOMAIN effects /\ effects[n].state = "SUCCEEDED"
    BY <2>1 DEF Outlives, Final
  <2> QED BY <2>2, EffectsPlaced
<1>4. Bound'
  BY <1>1, BoundStays DEF formal, Typed, RowsTyped, BindingsTyped
<1>5. \E c : Moves(w, c) /\ c.at \in {"idle", "admit", "agree"}
  <2>1. CASE Crash(w)
    BY <2>1, IdleTyped DEF Crash, Leave
  <2>2. ASSUME NEW m, TakeRequest(w, m) PROVE \E c : Moves(w, c) /\ c.at \in {"idle", "admit", "agree"}
    <3> DEFINE tries == Fresh({call[v].mtries : v \in {u \in Workers : call[u].m = m}})
               c == [IdleCall EXCEPT !.at = "admit", !.job = "request", !.m = m, !.mtries = tries]
    <3>1. Moves(w, c)
      BY <2>2, Zenon DEF TakeRequest
    <3> HIDE DEF tries
    <3>2. c.at = "admit"
      BY DEF IdleCall
    <3> QED BY <3>1, <3>2
  <2>3. ASSUME NEW m, TakeEffect(w, m) PROVE \E c : Moves(w, c) /\ c.at \in {"idle", "admit", "agree"}
    <3> DEFINE tries == Fresh({call[v].tries : v \in {u \in Workers : call[u].m = m}})
               c == [IdleCall EXCEPT !.at = "agree", !.job = "reconcile", !.m = m,
                                     !.state = "RECONCILIATION", !.tries = tries]
    <3>1. Moves(w, c)
      BY <2>3, Zenon DEF TakeEffect
    <3> HIDE DEF tries
    <3>2. c.at = "agree"
      BY DEF IdleCall
    <3> QED BY <3>1, <3>2
  <2> QED BY <2>1, <2>2, <2>3
<1>6. PICK c : Moves(w, c) /\ c.at \in {"idle", "admit", "agree"}
  BY <1>5
<1>7. Goes(w)'
  BY <1>1, <1>6, MovedOne, GoesFreely
<1> QED BY <1>2, <1>3, <1>4, <1>6, <1>7, OthersGo DEF Placed

\* A telling gives no effect another outcome, and binds only what is bound.
LEMMA TellPlaced ==
  ASSUME Typed, Placed, Grows, NEW m \in DOMAIN effects, Tell(m)
  PROVE  Placed'
<1>1. EffectsTyped /\ UNCHANGED <<requests, call>>
  BY DEF Typed, RowsTyped, Tell
<1>2. \A n \in DOMAIN requests' : RequestFits(n)'
  BY <1>1, RequestsPlaced
<1>3. \A n \in DOMAIN effects' :
        effects'[n].state = "SUCCEEDED" => n \in DOMAIN effects /\ effects[n].state = "SUCCEEDED"
  BY <1>1, TellKeeps
<1>4. \A n \in DOMAIN effects' : EffectFits(n)'
  BY <1>3, EffectsPlaced
<1>5. \A w \in Workers : Goes(w)'
  BY <1>1, GoesStays
<1> QED BY <1>2, <1>4, <1>5, TellBound DEF Placed

\* What people ask is asked under the binding and the review there is.
LEMMA PeoplePlaced ==
  ASSUME Typed, Standing, Placed, Grows,
         Asks \/ \E i \in Items : Rework(i) \/ Push(i) \/ Person(i)
  PROVE  Placed'
<1>1. UNCHANGED <<effects, bindings, call>>
  BY PeopleTyped
<1>2. Bound'
  BY <1>1, PeopleBound, BoundStays DEF Typed, RowsTyped, BindingsTyped
<1>3. \A n \in DOMAIN effects' : EffectFits(n)'
  BY <1>1, EffectsPlaced
<1>4. \A w \in Workers : Goes(w)'
  BY <1>1, GoesStays
<1>5. \A m \in DOMAIN requests' : RequestFits(m)'
  <2>1. \/ UNCHANGED requests
        \/ \E i \in Items, kind \in {"CREATE", "MERGE"} : Request(i, kind)
    <3>1. CASE Asks
      BY <3>1 DEF Asks, Select, Accept, Decline, Approve, Reject, ReceiveValidation, SubmitValidation
    <3>2. ASSUME NEW i \in Items, Rework(i) PROVE UNCHANGED requests
      BY <3>2 DEF Rework, Reintegrate
    <3>3. ASSUME NEW i \in Items, Push(i) \/ Person(i) PROVE UNCHANGED requests
      BY <3>3 DEF Push, Person, rows
    <3> QED BY <3>1, <3>2, <3>3
  <2>2. CASE UNCHANGED requests
    BY <2>2, RequestsPlaced
  <2> QED BY <1>1, <2>1, <2>2, NewRequestFits
<1> QED BY <1>2, <1>3, <1>4, <1>5 DEF Placed

\* Requests, effects and calls agree with GitLab after every step.
LEMMA PlacedNext ==
  ASSUME Typed, Standing, Placed, [Next]_vars
  PROVE  Placed'
<1>1. Grows
  BY NextTyped
<1>2. CASE Asks \/ \E i \in Items : Rework(i) \/ Push(i) \/ Person(i)
  BY <1>1, <1>2, PeoplePlaced
<1>3. ASSUME NEW w \in Workers, Work(w) PROVE Placed'
  BY <1>1, <1>3, WorkPlaced
<1>4. ASSUME NEW w \in Workers,
             \/ Crash(w)
             \/ \E m \in DOMAIN requests : TakeRequest(w, m)
             \/ \E m \in DOMAIN effects : TakeEffect(w, m)
      PROVE  Placed'
  BY <1>1, <1>4, ClaimPlaced
<1>5. ASSUME NEW m \in DOMAIN effects, Tell(m) PROVE Placed'
  BY <1>1, <1>5, TellPlaced
<1>6. CASE UNCHANGED vars
  <2>1. UNCHANGED items /\ UNCHANGED <<bindings, requests, effects, call>>
    BY <1>6 DEF vars
  <2>2. Bound'
    BY <1>1, <2>1, BoundStays DEF Typed, RowsTyped, BindingsTyped
  <2>3. \A m \in DOMAIN requests' : RequestFits(m)'
    BY <1>1, <2>1, RequestsPlaced
  <2>4. \A n \in DOMAIN effects' : EffectFits(n)'
    BY <1>1, <2>1, EffectsPlaced
  <2>5. \A w \in Workers : Goes(w)'
    BY <1>1, <2>1, GoesStays
  <2> QED BY <2>2, <2>3, <2>4, <2>5 DEF Placed
<1> QED BY <1>2, <1>3, <1>4, <1>5, <1>6 DEF Next
-----------------------------------------------------------------------------
(* The inductive invariant.                                                *)

\* A work item shown as merged is merged, at a head its review approved.
Delivered ==
  \A i \in Items :
    items[i].formal = "MERGED" => \E h : MergedAt(i, h) /\ Approves(i, h)

\* A final outcome that counts as told was told.
Acked(m) ==
  effects[m].state \in Final /\ effects[m].acked =>
    <<IF effects[m].state = "BLOCKED" THEN "blocked"
      ELSE IF requests[m].kind = "CREATE" THEN "ready" ELSE "merged", m>> \in answers

Inductive ==
  Typed /\ Standing /\ Placed /\ Delivered /\ \A m \in DOMAIN effects : Acked(m)
-----------------------------------------------------------------------------
(* The initial states.                                                     *)

\* The tables are empty, and the work items integrated (GatesInit, Init).
LEMMA InitTyped ==
  ASSUME Init
  PROVE  Typed
<1>1. FormalTyped
  <2>1. ItemsTyped
    <3> DEFINE row == [state |-> "VERIFYING", integrated |-> TRUE, formal |-> "NOT_STARTED",
                       why |-> "NONE", bound |-> FALSE, rev |-> 1]
    <3>1. row \in ItemRows
      BY DEF ItemRows, Reasons
    <3> QED BY <3>1 DEF Init, GatesInit, ItemsTyped
  <2>2. GatesTyped
    BY DEF Init, GatesInit, GatesTyped
  <2>3. ReqTyped /\ CycleTyped /\ EvidenceTyped
    BY GatesAssumption DEF Init, GatesInit, ReqTyped, CycleTyped, EvidenceTyped, GatesAssumption
  <2> QED BY <2>1, <2>2, <2>3 DEF FormalTyped
<1>2. RowsTyped
  BY DEF Init, GatesInit, RowsTyped, RequestsTyped, EffectsTyped, BindingsTyped
<1>3. GitlabTyped
  BY GatesAssumption DEF Init, GitlabTyped, GatesAssumption
<1>4. CallTyped /\ CallsFit
  BY IdleTyped DEF Init, CallTyped, CallsFit, Fits
<1> QED BY <1>1, <1>2, <1>3, <1>4 DEF Typed

\* Nothing is asked for, bound, merged or told at the start.
LEMMA InitInductive ==
  ASSUME Init
  PROVE  Inductive
<1>1. \A i \in Items : items[i].formal = "NOT_STARTED" /\ items[i].why = "NONE" /\ ~items[i].bound
  BY DEF Init, GatesInit
<1>2. /\ DOMAIN gates = {} /\ DOMAIN effects = {} /\ DOMAIN bindings = {} /\ DOMAIN requests = {}
      /\ req = "VERIFYING"
  BY DEF Init, GatesInit
<1>3. Standing
  BY <1>1, <1>2 DEF Standing, PendingKeepsAcceptance, InvalidationApplied, Busy, Contradicted, Pending
<1>4. \A w \in Workers : Goes(w)
  BY IdleTyped DEF Init, Goes
<1>5. Placed
  BY <1>1, <1>2, <1>4 DEF Placed, Bound
<1> QED BY <1>1, <1>2, <1>3, <1>5, InitTyped DEF Inductive, Delivered
-----------------------------------------------------------------------------
(* What was told.                                                          *)

\* The idempotency records of the callbacks stay (execute_idempotent).
LEMMA AnswersStay ==
  ASSUME [Next]_vars
  PROVE  answers \subseteq answers'
<1>1. ASSUME Asks PROVE answers \subseteq answers'
  BY <1>1 DEF Asks, Select, Accept, Decline, Approve, Reject, ReceiveValidation, SubmitValidation, Request
<1>2. ASSUME NEW w \in Workers, Work(w) PROVE answers \subseteq answers'
  <2>1. UNCHANGED formal
    BY <1>2 DEF Work, Admit, Launch, Agree, Discover, Post, Prove, Check, Put, Settle, Block, Doubt
  <2> QED BY <2>1 DEF formal
<1>3. ASSUME NEW w \in Workers, NEW m, Crash(w) \/ TakeRequest(w, m) \/ TakeEffect(w, m)
      PROVE  answers \subseteq answers'
  BY <1>3 DEF Crash, TakeRequest, TakeEffect, formal
<1>4. ASSUME NEW m, Tell(m) PROVE answers \subseteq answers'
  BY <1>4 DEF Tell, Record
<1>5. ASSUME NEW i \in Items, Rework(i) \/ Push(i) \/ Person(i) PROVE answers \subseteq answers'
  BY <1>5 DEF Rework, Reintegrate, Push, Person, formal
<1>6. CASE UNCHANGED vars
  BY <1>6 DEF vars
<1> QED BY <1>1, <1>2, <1>3, <1>4, <1>5, <1>6 DEF Next

\* An outcome that was there keeps its acknowledgement, and a new one has none.
LEMMA AckedStays ==
  ASSUME Inductive, Kept, answers \subseteq answers', NEW n \in DOMAIN effects',
         Outlives(n) \/ \E w \in Workers : Reached(w, n)
  PROVE  Acked(n)'
<1>1. CASE \E w \in Workers : Reached(w, n)
  BY <1>1 DEF Reached, Acked
<1>2. CASE Outlives(n)
  <2> SUFFICES ASSUME effects'[n].state \in Final, effects'[n].acked PROVE Acked(n)'
    BY DEF Acked
  <2>1. n \in DOMAIN effects /\ effects[n].state = effects'[n].state /\ effects[n].acked
    BY <1>2 DEF Outlives
  <2>2. requests'[n].kind = requests[n].kind
    BY <2>1 DEF Inductive, Typed, RowsTyped, EffectsTyped, Kept
  <2>3. Acked(n)
    BY <2>1 DEF Inductive
  <2> QED BY <2>1, <2>2, <2>3 DEF Acked
<1> QED BY <1>1, <1>2

\* The telling names the outcome of the effect (_replay).
LEMMA TellAcked ==
  ASSUME Inductive, Kept, answers \subseteq answers', NEW m \in DOMAIN effects, Tell(m)
  PROVE  \A n \in DOMAIN effects' : Acked(n)'
<1>1. EffectsTyped /\ UNCHANGED requests
  BY DEF Inductive, Typed, RowsTyped, Tell
<1>2. ASSUME NEW n \in DOMAIN effects', n # m PROVE Acked(n)'
  <2>1. Outlives(n)
    BY <1>1, <1>2, TellKeeps DEF Outlives
  <2> QED BY <2>1, AckedStays
<1>3. ASSUME effects[m].state \in Final PROVE Acked(m)'
  <2>1. effects'[m].state = effects[m].state
    BY <1>1, TellKeeps
  <2>2. Key(Telling(m)) \in answers'
    BY DEF Tell, Record
  <2>3. Telling(m).m = m
    BY DEF Telling
  <2>4. Telling(m).kind = IF effects[m].state = "BLOCKED" THEN "blocked"
                          ELSE IF requests[m].kind = "CREATE" THEN "ready" ELSE "merged"
    BY <1>3 DEF Telling, Final
  <2> QED BY <1>1, <2>1, <2>2, <2>3, <2>4 DEF Acked, Key
<1>4. ASSUME effects[m].state \notin Final PROVE Acked(m)'
  BY <1>1, <1>4, TellKeeps DEF Acked
<1> QED BY <1>2, <1>3, <1>4

\* What was told is what happened, after every step.
LEMMA AckedNext ==
  ASSUME Inductive, Kept, [Next]_vars
  PROVE  \A n \in DOMAIN effects' : Acked(n)'
<1>1. answers \subseteq answers' /\ Typed /\ Standing /\ EffectsTyped
  BY AnswersStay DEF Inductive, Typed, RowsTyped
<1>2. CASE Asks \/ \E i \in Items : Rework(i) \/ Push(i) \/ Person(i)
  <2>1. UNCHANGED effects
    BY <1>1, <1>2, PeopleTyped
  <2> QED BY <1>1, <2>1, EffectsStay, AckedStays
<1>3. ASSUME NEW w \in Workers, Work(w) PROVE \A n \in DOMAIN effects' : Acked(n)'
  BY <1>1, <1>3, WorkReaches, AckedStays
<1>4. ASSUME NEW w \in Workers,
             \/ Crash(w)
             \/ \E m \in DOMAIN requests : TakeRequest(w, m)
             \/ \E m \in DOMAIN effects : TakeEffect(w, m)
      PROVE  \A n \in DOMAIN effects' : Acked(n)'
  BY <1>1, <1>4, ClaimOutlives, AckedStays
<1>5. ASSUME NEW m \in DOMAIN effects, Tell(m) PROVE \A n \in DOMAIN effects' : Acked(n)'
  BY <1>1, <1>5, TellAcked
<1>6. CASE UNCHANGED vars
  <2>1. UNCHANGED effects
    BY <1>6 DEF vars
  <2> QED BY <1>1, <2>1, EffectsStay, AckedStays
<1> QED BY <1>2, <1>3, <1>4, <1>5, <1>6 DEF Next
-----------------------------------------------------------------------------
(* Merged where it was approved.                                           *)

\* A work item is shown as merged by no command of the people.
LEMMA PeopleMerge ==
  ASSUME FormalTyped, Asks \/ \E i \in Items : Rework(i) \/ Push(i) \/ Person(i)
  PROVE  \A i \in Items : items'[i].formal = "MERGED" => items[i].formal = "MERGED"
<1> DEFINE keeps == \A i \in Items : items'[i].formal = "MERGED" => items[i].formal = "MERGED"
<1>0. items \in [Items -> ItemRows] /\ \A g \in DOMAIN gates : gates[g] \in Gates
  BY DEF FormalTyped, ItemsTyped, GatesTyped
<1>1. ASSUME UNCHANGED items PROVE keeps
  BY <1>1
<1>2. ASSUME NEW i \in Items, Rework(i) PROVE keeps
  <2> DEFINE n == items[i].rev + 1
             row == [items[i] EXCEPT !.state = "VERIFYING", !.integrated = TRUE, !.rev = n]
  <2>1. items' = [items EXCEPT ![i] = row]
    BY <1>2 DEF Rework, Reintegrate
  <2>2. items[i] \in ItemRows /\ n \in Nat
    BY <1>0, NextRevision
  <2> HIDE DEF n
  <2>3. row.formal = items[i].formal
    BY <2>2 DEF ItemRows
  <2> HIDE DEF row
  <2> QED BY <1>0, <2>1, <2>3
<1>3. ASSUME Decline PROVE keeps
  <2> DEFINE rs == [i \in Items |-> IF items[i].integrated /\ items[i].formal # "MERGED"
                                    THEN Reopen(items[i]) ELSE items[i]]
  <2>1. Invalidate(rs, gates)
    BY <1>3 DEF Decline
  <2>2. rs \in [Items -> ItemRows] /\ \A i \in Items : rs[i].formal = "MERGED" => items[i].formal = "MERGED"
    BY <1>0, ReopenTyped, ReopenShown
  <2> HIDE DEF rs
  <2> QED BY <1>0, <2>1, <2>2, InvalidateShown
<1>4. ASSUME NEW i \in Items, SubmitValidation(i) PROVE keeps
  BY <1>0, <1>4, InvalidateShown DEF SubmitValidation
<1>5. ASSUME NEW i \in Items, Reject(i) PROVE keeps
  <2> DEFINE k == <<i, Latest(i)>>
             gate == [gates[k] EXCEPT !.outcome = "REJECTED"]
             rs == [items EXCEPT ![i] = Reopen(@)]
             reviews == [gates EXCEPT ![k] = gate]
  <2>1. k \in DOMAIN gates
    BY <1>5, ReviewThere DEF Reject, Reviewable, FormalTyped
  <2>2. gate \in Gates
    BY <1>0, <2>1, GateEdit, Zenon
  <2>3. Invalidate(rs, reviews)
    BY <1>5 DEF Reject
  <2>4. rs \in [Items -> ItemRows] /\ \A j \in Items : rs[j].formal = "MERGED" => items[j].formal = "MERGED"
    BY <1>0, ReopenTyped, ReopenShown
  <2> HIDE DEF gate, k
  <2>5. \A g \in DOMAIN reviews : reviews[g] \in Gates
    BY <1>0, <2>2
  <2> HIDE DEF rs, reviews
  <2> QED BY <2>3, <2>4, <2>5, InvalidateShown
<1>6. ASSUME NEW i \in Items, NEW kind \in {"CREATE", "MERGE"}, Request(i, kind) PROVE keeps
  <2> DEFINE f == IF kind = "CREATE" THEN "MR_PENDING" ELSE "MERGE_PENDING"
             n == items[i].rev + 1
             row == [items[i] EXCEPT !.state = "AWAITING_MERGE", !.why = "NONE", !.formal = f, !.rev = n]
  <2>1. items' = [items EXCEPT ![i] = row]
    BY <1>6 DEF Request
  <2>2. items[i] \in ItemRows /\ n \in Nat /\ f # "MERGED"
    BY <1>0, NextRevision
  <2> HIDE DEF n, f
  <2>3. row.formal = f
    BY <2>2 DEF ItemRows
  <2> HIDE DEF row
  <2> QED BY <1>0, <2>1, <2>2, <2>3
<1>7. ASSUME Asks PROVE keeps
  <2>1. ASSUME Select \/ Accept \/ \E i \in Items : Approve(i) \/ ReceiveValidation(i)
        PROVE  UNCHANGED items
    BY <2>1 DEF Select, Accept, Approve, ReceiveValidation
  <2> QED BY <1>1, <1>3, <1>4, <1>5, <1>6, <1>7, <2>1 DEF Asks
<1>8. ASSUME NEW i \in Items, Push(i) \/ Person(i) PROVE UNCHANGED items
  BY <1>8 DEF Push, Person, formal
<1> QED BY <1>1, <1>2, <1>7, <1>8

\* A callback shows its own work item as merged, under an approval of the head it names.
LEMMA RecordMerges ==
  ASSUME FormalTyped, NEW t \in Tellings, Accepts(t), Record(t)
  PROVE  \A i \in Items : items'[i].formal = "MERGED" =>
           \/ items[i].formal = "MERGED"
           \/ i = t.item /\ t.kind = "merged" /\ Approved(i) /\ proof[i] = t.head
<1>1. CASE Key(t) \in answers
  BY <1>1 DEF Record
<1> SUFFICES ASSUME Key(t) \notin answers
    PROVE  \A i \in Items : items'[i].formal = "MERGED" =>
             \/ items[i].formal = "MERGED"
             \/ i = t.item /\ t.kind = "merged" /\ Approved(i) /\ proof[i] = t.head
  BY <1>1
<1>2. Admits(t)
  BY DEF Accepts
<1>3. t.kind \in {"pending", "blocked", "ready", "merged"} /\ ItemsTyped
  BY DEF Tellings, FormalTyped
<1>4. t.kind = "merged" => Approved(t.item) /\ proof[t.item] = t.head
  BY <1>2 DEF Admits
<1>5. Shown(t) = "MERGED" => t.kind = "merged"
  BY <1>3 DEF Shown
<1>6. \A i \in Items : Projected(t)[i].formal = "MERGED" =>
        items[i].formal = "MERGED" \/ (i = t.item /\ t.kind = "merged")
  BY <1>3, <1>5, ProjectedShown
<1>7. CASE Concludes(t, Projected(t))
  <2> DEFINE rows0 == Projected(t)
             rs == [i \in Items |-> IF rows0[i].formal = "BLOCKED" /\ rows0[i].why = "HEAD_SHA_CHANGED"
                                    THEN Reopen(rows0[i]) ELSE rows0[i]]
  <2>1. rows0 \in [Items -> ItemRows]
    BY <1>3, ProjectedTyped
  <2>2. Invalidate(rs, WithGate(t))
    BY <1>7 DEF Record
  <2>3. \A i \in Items : rows0[i].formal = "MERGED" =>
          items[i].formal = "MERGED" \/ (i = t.item /\ t.kind = "merged")
    BY <1>6
  <2> HIDE DEF rows0
  <2>4. rs \in [Items -> ItemRows] /\ \A i \in Items : rs[i].formal = "MERGED" => rows0[i].formal = "MERGED"
    BY <2>1, ReopenTyped, ReopenShown
  <2> HIDE DEF rs
  <2>5. \A i \in Items : items'[i].formal = rs[i].formal
    BY <1>2, <2>2, <2>4, WithGateTyped, InvalidateShown
  <2> QED BY <1>4, <2>3, <2>4, <2>5
<1>8. CASE ~Concludes(t, Projected(t))
  <2>1. items' = Projected(t)
    BY <1>8 DEF Record
  <2> QED BY <1>4, <1>6, <2>1
<1> QED BY <1>7, <1>8

\* A merged work item stays merged where it was approved.
LEMMA DeliveredStays ==
  ASSUME Placed, Delivered, Grows, NEW i \in Items, items[i].formal = "MERGED"
  PROVE  (\E h : MergedAt(i, h) /\ Approves(i, h))'
<1>1. PICK h : MergedAt(i, h) /\ Approves(i, h)
  BY DEF Delivered
<1> QED BY <1>1, MergedStays, ApprovalStays

\* The outcome told of a merge is that of the effect that merged it.
LEMMA TellDelivers ==
  ASSUME Inductive, Grows, NEW m \in DOMAIN effects, Tell(m)
  PROVE  Delivered'
<1> DEFINE t == Telling(m)
           r == requests[m]
<1>1. /\ t \in Tellings /\ Accepts(t) /\ Record(t) /\ FormalTyped
      /\ Placed /\ Delivered /\ UNCHANGED <<requests, bindings, mrs>>
  BY TellingTyped DEF Inductive, Typed, Tell, gitlab
<1>2. t.item = r.item /\ t.head = r.head
  BY DEF Telling
<1>3. t.kind = "merged" => MergedAt(r.item, r.head)
  <2>1. t.kind = "merged" => effects[m].state = "SUCCEEDED" /\ r.kind # "CREATE"
    BY DEF Telling
  <2> QED BY <1>1, <2>1 DEF Placed, EffectFits
<1> HIDE DEF t, r
<1>4. SUFFICES ASSUME NEW i \in Items, items'[i].formal = "MERGED"
               PROVE  (\E h : MergedAt(i, h) /\ Approves(i, h))'
  BY DEF Delivered
<1>5. CASE items[i].formal = "MERGED"
  BY <1>1, <1>5, DeliveredStays
<1>6. CASE i = t.item /\ t.kind = "merged" /\ Approved(i) /\ proof[i] = t.head
  <2>1. PICK h : h = r.head
    OBVIOUS
  <2>2. MergedAt(i, h) /\ Approves(i, h)
    BY <1>1, <1>2, <1>3, <1>6, <2>1, ApprovedIsReviewed
  <2> QED BY <1>1, <2>2, MergedStays, ApprovalStays
<1> QED BY <1>1, <1>4, <1>5, <1>6, RecordMerges

\* No step but the telling of a merge shows one.
LEMMA DeliveredNext ==
  ASSUME Inductive, Grows, [Next]_vars
  PROVE  Delivered'
<1>1. Typed /\ Placed /\ Delivered /\ FormalTyped
  BY DEF Inductive, Typed
<1>2. ASSUME \A i \in Items : items'[i].formal = "MERGED" => items[i].formal = "MERGED"
      PROVE  Delivered'
  BY <1>1, <1>2, DeliveredStays DEF Delivered
<1>3. CASE Asks \/ \E i \in Items : Rework(i) \/ Push(i) \/ Person(i)
  BY <1>1, <1>2, <1>3, PeopleMerge
<1>4. ASSUME NEW w \in Workers, Work(w) PROVE Delivered'
  <2>1. UNCHANGED formal
    BY <1>1, <1>4, WorkTyped
  <2> QED BY <1>2, <2>1 DEF formal
<1>5. ASSUME NEW w \in Workers, NEW m, Crash(w) \/ TakeRequest(w, m) \/ TakeEffect(w, m)
      PROVE  Delivered'
  BY <1>2, <1>5 DEF Crash, TakeRequest, TakeEffect, formal
<1>6. ASSUME NEW m \in DOMAIN effects, Tell(m) PROVE Delivered'
  BY <1>6, TellDelivers
<1>7. CASE UNCHANGED vars
  BY <1>2, <1>7 DEF vars
<1> QED BY <1>3, <1>4, <1>5, <1>6, <1>7 DEF Next
-----------------------------------------------------------------------------
(* Who merged.                                                             *)

\* What a step does to the merge request k of i: the platform did not merge it now.
LeavesMerger(i, k) ==
  mrs'[i][k].mergedBy = mrs[i][k].mergedBy \/ mrs'[i][k].mergedBy = "people"

\* A new merge request leaves those there are.
LEMMA OpenLeaves ==
  ASSUME GitlabTyped, NEW j \in Items, NewMergeRequest(j)
  PROVE  \A i \in Items : \A k \in DOMAIN mrs[i] : LeavesMerger(i, k)
<1> DEFINE row == [state |-> "opened", head |-> branch[j], mergedBy |-> "nobody"]
           list == Append(mrs[j], row)
<1>1. mrs[j] \in Seq(MergeRequests) /\ mrs' = [mrs EXCEPT ![j] = list]
  BY DEF GitlabTyped, NewMergeRequest
<1> HIDE DEF row
<1>2. \A k \in DOMAIN mrs[j] : list[k] = mrs[j][k]
  BY <1>1
<1> HIDE DEF list
<1> QED BY <1>1, <1>2 DEF LeavesMerger, GitlabTyped

\* A push moves a merge request and merges none.
LEMMA PushLeaves ==
  ASSUME GitlabTyped, NEW j \in Items, NEW h \in Heads, Pushed(j, h)
  PROVE  \A i \in Items : \A k \in DOMAIN mrs[i] : LeavesMerger(i, k)
<1> DEFINE row(k) == IF mrs[j][k].state = "opened" THEN [mrs[j][k] EXCEPT !.head = h] ELSE mrs[j][k]
           list == [k \in DOMAIN mrs[j] |-> row(k)]
<1>1. mrs' = [mrs EXCEPT ![j] = list]
  BY DEF Pushed
<1>2. \A k \in DOMAIN mrs[j] : row(k).mergedBy = mrs[j][k].mergedBy
  <2> SUFFICES ASSUME NEW k \in DOMAIN mrs[j] PROVE row(k).mergedBy = mrs[j][k].mergedBy
    OBVIOUS
  <2>1. mrs[j][k] \in MergeRequests
    BY ElementOfSeq DEF GitlabTyped
  <2> QED BY <2>1 DEF MergeRequests
<1> HIDE DEF row
<1>3. \A k \in DOMAIN mrs[j] : list[k] = row(k)
  OBVIOUS
<1> HIDE DEF list
<1> QED BY <1>1, <1>2, <1>3 DEF LeavesMerger, GitlabTyped

\* One merge request edited: the others are as they were.
LEMMA EditLeaves ==
  ASSUME GitlabTyped, NEW j \in Items, NEW n \in DOMAIN mrs[j], NEW row,
         mrs' = [mrs EXCEPT ![j] = [@ EXCEPT ![n] = row]]
  PROVE  \A i \in Items : \A k \in DOMAIN mrs[i] :
           \/ mrs'[i][k] = mrs[i][k]
           \/ i = j /\ k = n /\ mrs'[i][k] = row
<1> DEFINE list == [mrs[j] EXCEPT ![n] = row]
<1>1. mrs' = [mrs EXCEPT ![j] = list]
  OBVIOUS
<1>2. \A k \in DOMAIN mrs[j] : list[k] = mrs[j][k] \/ (k = n /\ list[k] = row)
  OBVIOUS
<1> HIDE DEF list
<1> QED BY <1>1, <1>2 DEF GitlabTyped

\* What is merged is marked with who merged it.
LEMMA MergesBy ==
  ASSUME GitlabTyped, NEW j \in Items, NEW n \in DOMAIN mrs[j], NEW who, Merges(j, n, who)
  PROVE  \A i \in Items : \A k \in DOMAIN mrs[i] :
           \/ mrs'[i][k] = mrs[i][k]
           \/ i = j /\ k = n /\ mrs'[i][k].mergedBy = who
<1> DEFINE row == [mrs[j][n] EXCEPT !.state = "merged", !.mergedBy = who]
<1>1. mrs[j][n] \in MergeRequests
  BY ElementOfSeq DEF GitlabTyped
<1>2. row.mergedBy = who
  BY <1>1 DEF MergeRequests
<1>3. mrs' = [mrs EXCEPT ![j] = [@ EXCEPT ![n] = row]]
  BY DEF Merges
<1> HIDE DEF row
<1> QED BY <1>2, <1>3, EditLeaves

\* People close and merge what they like; that is not the platform's.
LEMMA PersonLeaves ==
  ASSUME GitlabTyped, NEW j \in Items, Person(j)
  PROVE  \A i \in Items : \A k \in DOMAIN mrs[i] : LeavesMerger(i, k)
<1>1. CASE NewMergeRequest(j)
  BY <1>1, OpenLeaves
<1>2. ASSUME NEW n \in DOMAIN mrs[j], mrs' = [mrs EXCEPT ![j][n].state = "closed"]
      PROVE  \A i \in Items : \A k \in DOMAIN mrs[i] : LeavesMerger(i, k)
  <2> DEFINE row == [mrs[j][n] EXCEPT !.state = "closed"]
  <2>1. mrs[j][n] \in MergeRequests
    BY ElementOfSeq DEF GitlabTyped
  <2>2. row.mergedBy = mrs[j][n].mergedBy
    BY <2>1 DEF MergeRequests
  <2>3. mrs' = [mrs EXCEPT ![j] = [@ EXCEPT ![n] = row]]
    BY <1>2
  <2> HIDE DEF row
  <2> QED BY <2>2, <2>3, EditLeaves DEF LeavesMerger
<1>3. ASSUME NEW n \in DOMAIN mrs[j], Merges(j, n, "people")
      PROVE  \A i \in Items : \A k \in DOMAIN mrs[i] : LeavesMerger(i, k)
  BY <1>3, MergesBy DEF LeavesMerger
<1> QED BY <1>1, <1>2, <1>3 DEF Person

\* The platform merges in Put alone, at the head of a request that was approved.
LEMMA PutMerges ==
  ASSUME Inductive, NEW w \in Workers, Put(w)
  PROVE  \A i \in Items : \A k \in DOMAIN mrs[i] :
           LeavesMerger(i, k) \/ Approves(i, mrs[i][k].head)
<1> DEFINE j == Item(w)
           n == call[w].mr
<1>1. Typed /\ Placed /\ Working /\ GitlabTyped
  BY DEF Inductive, Typed, Working
<1>2. call[w].at = "put" /\ call[w].at # "idle"
  BY DEF Put
<1>3. j \in Items /\ n \in DOMAIN mrs[j] /\ Mine(w).kind = "MERGE"
  BY <1>1, <1>2, MergeBound
<1>4. Approves(j, Mine(w).head)
  BY <1>1, <1>2, <1>3, MineTyped DEF Placed, RequestFits, Mine, Item
<1>5. UNCHANGED mrs \/ (mrs[j][n].head = Mine(w).head /\ Merges(j, n, "platform"))
  BY Zenon DEF Put, gitlab
<1>6. CASE mrs[j][n].head = Mine(w).head /\ Merges(j, n, "platform")
  <2>1. \A i \in Items : \A k \in DOMAIN mrs[i] : mrs'[i][k] = mrs[i][k] \/ (i = j /\ k = n)
    BY <1>1, <1>3, <1>6, MergesBy
  <2>2. Approves(j, mrs[j][n].head)
    BY <1>4, <1>6
  <2> QED BY <2>1, <2>2 DEF LeavesMerger
<1> QED BY <1>5, <1>6 DEF LeavesMerger

\* Every step leaves the mergers alone, but a merge of the platform where approved.
LEMMA MergesNext ==
  ASSUME Inductive, [Next]_vars
  PROVE  \A i \in Items : \A k \in DOMAIN mrs[i] :
           LeavesMerger(i, k) \/ Approves(i, mrs[i][k].head)
<1>1. GitlabTyped /\ Working
  BY DEF Inductive, Typed, Working
<1>2. ASSUME UNCHANGED mrs PROVE \A i \in Items : \A k \in DOMAIN mrs[i] : LeavesMerger(i, k)
  BY <1>2 DEF LeavesMerger
<1>3. ASSUME NEW w \in Workers, Work(w)
      PROVE  \A i \in Items : \A k \in DOMAIN mrs[i] :
               LeavesMerger(i, k) \/ Approves(i, mrs[i][k].head)
  <2>1. CASE Put(w)
    BY <2>1, PutMerges
  <2>2. CASE Post(w)
    <3>1. Item(w) \in Items
      BY <1>1, <2>2, MineTyped DEF Post
    <3>2. NewMergeRequest(Item(w)) \/ UNCHANGED mrs
      BY <2>2, Zenon DEF Post
    <3> QED BY <1>1, <1>2, <3>1, <3>2, OpenLeaves
  <2>3. CASE ~Put(w) /\ ~Post(w)
    <3>1. UNCHANGED mrs
      BY <1>3, <2>3 DEF Work, Admit, Launch, Agree, Discover, Prove, Check, Settle, Block, Doubt, gitlab
    <3> QED BY <1>2, <3>1
  <2> QED BY <2>1, <2>2, <2>3
<1>4. ASSUME NEW w \in Workers, NEW m, Crash(w) \/ TakeRequest(w, m) \/ TakeEffect(w, m)
      PROVE  UNCHANGED mrs
  BY <1>4 DEF Crash, TakeRequest, TakeEffect, gitlab
<1>5. ASSUME NEW m, Asks \/ Tell(m) PROVE UNCHANGED mrs
  BY <1>5 DEF Asks, Tell, gitlab
<1>6. ASSUME NEW i \in Items, Push(i) \/ Rework(i)
      PROVE  UNCHANGED mrs \/ \E h \in Heads : Pushed(i, h)
  <2>1. CASE Push(i)
    BY <2>1, Zenon DEF Push
  <2>2. CASE Rework(i)
    BY <2>2, Zenon DEF Rework, gitlab
  <2> QED BY <1>6, <2>1, <2>2
<1>7. CASE UNCHANGED vars
  BY <1>2, <1>7 DEF vars
<1> QED BY <1>1, <1>2, <1>3, <1>4, <1>5, <1>6, <1>7, PushLeaves, PersonLeaves DEF Next
-----------------------------------------------------------------------------
(* The theorems.                                                           *)

\* The invariant is inductive.
LEMMA InductiveNext ==
  ASSUME Inductive, [Next]_vars
  PROVE  Inductive' /\ Grows
<1>1. Typed' /\ Grows
  BY NextTyped DEF Inductive
<1>2. Standing' /\ Placed'
  BY StandingNext, PlacedNext DEF Inductive
<1>3. Delivered'
  BY <1>1, DeliveredNext
<1>4. \A m \in DOMAIN effects' : Acked(m)'
  BY <1>1, AckedNext DEF Grows
<1> QED BY <1>1, <1>2, <1>3, <1>4 DEF Inductive

\* The whole of it holds in every reachable state: what the others follow from.
THEOREM Invariance == Spec => []Inductive
<1>1. Init => Inductive
  BY InitInductive
<1>2. Inductive /\ [Next]_vars => Inductive'
  BY InductiveNext
<1> QED BY <1>1, <1>2, PTL DEF Spec

\* Every row of both modules, of GitLab and of the workers keeps its type.
THEOREM TypeCorrect == Spec => []TypeOK
<1>1. Inductive => TypeOK
  BY DEF Inductive, Placed, Bound, TypeOK, Typed, FormalTyped, RowsTyped, ReqTyped, CycleTyped,
         EvidenceTyped, ItemsTyped, GatesTyped, RequestsTyped, EffectsTyped, BindingsTyped,
         GitlabTyped, CallTyped
<1> QED BY <1>1, Invariance, PTL

\* The acceptance is not taken back while a delivery asked for under it is under way
\* (invalidate_current_delivery_evidence and its callers).
THEOREM AcceptanceKept == Spec => []PendingKeepsAcceptance
<1>1. Inductive => PendingKeepsAcceptance
  BY DEF Inductive, Standing
<1> QED BY <1>1, Invariance, PTL

\* Contradicted evidence is taken back by the last callback of its cycle, whatever
\* the order of the callbacks (_apply_ready_formal_invalidation).
THEOREM ContradictionApplied == Spec => []InvalidationApplied
<1>1. Inductive => InvalidationApplied
  BY DEF Inductive, Standing
<1> QED BY <1>1, Invariance, PTL

\* A work item shown as merged is merged in GitLab at a head its review approved, and a
\* completed requirement has nothing left to merge.
THEOREM DeliveryTrue == Spec => []DeliveredIsMerged
<1>1. Inductive => DeliveredIsMerged
  <2> SUFFICES ASSUME Inductive PROVE DeliveredIsMerged
    OBVIOUS
  <2>1. req = "COMPLETED" => \A i \in Items : items[i].formal = "MERGED"
    BY DEF Inductive, Standing
  <2>2. ASSUME NEW i \in Items, items[i].formal = "MERGED"
        PROVE  /\ MergeRequest(i).state = "merged"
               /\ Approves(i, MergeRequest(i).head)
    BY <2>2 DEF Inductive, Delivered, MergedAt
  <2> QED BY <2>1, <2>2 DEF DeliveredIsMerged, MergeRequest, Approves
<1> QED BY <1>1, Invariance, PTL

\* A final outcome is acknowledged only where the requirement recorded that outcome.
THEOREM AcknowledgementTrue == Spec => []AckedIsTrue
<1>1. Inductive => AckedIsTrue
  BY DEF Inductive, Acked, AckedIsTrue
<1> QED BY <1>1, Invariance, PTL

\* The platform merges to main only at a head a review approved.
THEOREM MergesReviewed == Spec => MergesApprovedHead
<1> DEFINE Reviewed1 ==
      \A i \in Items : \A k \in DOMAIN mrs[i] :
        mrs[i][k].mergedBy = "nobody" /\ mrs'[i][k].mergedBy = "platform" =>
          \E g \in DOMAIN gates :
            g[1] = i /\ gates[g].outcome = "APPROVED" /\ gates[g].head = mrs[i][k].head
<1>1. Inductive /\ [Next]_vars => [Reviewed1]_vars
  <2> SUFFICES ASSUME Inductive, [Next]_vars PROVE Reviewed1
    OBVIOUS
  <2>1. \A i \in Items : \A k \in DOMAIN mrs[i] :
          LeavesMerger(i, k) \/ Approves(i, mrs[i][k].head)
    BY MergesNext
  <2> QED BY <2>1 DEF LeavesMerger, Approves
<1> HIDE DEF Reviewed1
<1>2. Spec => [][Reviewed1]_vars
  BY <1>1, Invariance, PTL DEF Spec
<1> QED BY <1>2 DEF MergesApprovedHead, Reviewed1
=============================================================================
