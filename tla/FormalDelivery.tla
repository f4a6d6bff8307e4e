--------------------------- MODULE FormalDelivery ---------------------------
(***************************************************************************)
(* The formal delivery of source_control (application/formal.py): the      *)
(* requests of FormalGates become one GitLab merge request to main for     *)
(* each work item and its merge at the reviewed head, and every outcome is *)
(* told to the requirement.                                                *)
(*                                                                         *)
(* Workers and the copies Fresh picks are as in IntegrationDelivery; a     *)
(* lease passes when a claim needs it to.  An action is one transaction,   *)
(* one writing HTTP request, or a run of reads with the transaction after  *)
(* it, which decides as its last read does.  An effect's subject holds the *)
(* hash of its request, so that effects bear the numbers of their          *)
(* requests; the attempts of a settled row count no more and are 0.        *)
(* "REFUSED" stands for every reason that leaves the evidence alone,       *)
(* "HEAD_SHA_CHANGED" also for the missing branch.                         *)
(***************************************************************************)
EXTENDS FormalGates

CONSTANTS
  Workers,    \* worker processes
  MaxFaults,  \* bound on crashes, overruns, refusals and failures of other systems
  MaxEdits,   \* bound on what people do in GitLab and on late validations
  MaxTurns,   \* bound on requests, faults and edits together
  Gone        \* no branch

ASSUME FormalAssumption ==
  /\ MaxFaults \in Nat /\ MaxEdits \in Nat /\ MaxTurns \in Nat
  /\ IsFiniteSet(Workers) /\ Gone \notin Heads

VARIABLES
  effects,   \* source_control_effect rows, by their request
  bindings,  \* merge_request_binding, its last observation and review assignment
  mrs,       \* GitLab: the merge requests to main of each branch
  branch,    \* GitLab: the commit of each task branch
  call,      \* the locals of each worker
  faults, edits

gitlab == <<mrs, branch>>
rows == <<requests, effects, bindings>>
vars == <<req, acceptance, cycle, proof, late, stale, items, gates, answers, requests,
          effects, bindings, mrs, branch, call, faults, edits>>

Unsettled == {"IN_FLIGHT", "UNKNOWN", "RECONCILIATION"}
Final == {"SUCCEEDED", "BLOCKED"}
Effects ==
  [state : {"PLANNED"} \cup Unsettled \cup Final, tries : Nat, acked : BOOLEAN, why : Reasons]
MergeRequests ==
  [state : {"opened", "closed", "merged"}, head : Heads, mergedBy : {"nobody", "platform", "people"}]
BindingRows ==
  [mr : Nat, seen : [state : {"opened", "merged"}, head : Heads], cycle : Nat]

\* What a worker is about to do, for what, and the claims and reads it goes by.
CallRows ==
  [at : {"idle", "admit", "launch", "agree", "discover", "post", "prove", "check", "put",
         "settle", "block", "unknown"},
   job : {"none", "request", "reconcile"}, m : Nat, mtries : Nat,
   state : {"NONE", "IN_FLIGHT", "RECONCILIATION"}, tries : Nat, why : Reasons, mr : Nat,
   seen : [state : {"opened", "merged"}, head : Nat]]
IdleCall ==
  [at |-> "idle", job |-> "none", m |-> 0, mtries |-> 0, state |-> "NONE", tries |-> 0,
   why |-> "NONE", mr |-> 0, seen |-> [state |-> "opened", head |-> 0]]

TypeOK ==
  /\ req \in {"IN_PROGRESS", "VERIFYING", "AWAITING_ACCEPTANCE", "AWAITING_MERGE", "COMPLETED"}
  /\ acceptance \in {"NONE", "OPEN", "APPROVED"} /\ (acceptance = "NONE" <=> cycle.now = 0)
  /\ cycle.now \in {0, cycle.last} /\ proof \in [Items -> Heads] /\ late \subseteq Items
  /\ stale \in BOOLEAN /\ items \in [Items -> ItemRows]
  /\ DOMAIN gates \subseteq Items \X (1 .. cycle.last)
  /\ \A g \in DOMAIN gates : gates[g] \in Gates
  /\ requests \in Seq(Requests) /\ DOMAIN effects \subseteq DOMAIN requests
  /\ \A m \in DOMAIN effects : effects[m] \in Effects
  /\ DOMAIN bindings \subseteq Items /\ \A i \in DOMAIN bindings : bindings[i] \in BindingRows
  /\ \A i \in Items : items[i].bound => i \in DOMAIN bindings
  /\ mrs \in [Items -> Seq(MergeRequests)] /\ branch \in [Items -> Heads \cup {Gone}]
  /\ call \in [Workers -> CallRows]

Init ==
  /\ GatesInit
  /\ effects = <<>> /\ bindings = <<>>
  /\ mrs = [i \in Items |-> <<>>] /\ branch = [i \in Items |-> 1]
  /\ call = [w \in Workers |-> IdleCall]
  /\ faults = 0 /\ edits = 0

Turn == Len(requests) + faults + edits < MaxTurns
Fault == Turn /\ faults < MaxFaults /\ faults' = faults + 1
Edit == Turn /\ edits < MaxEdits /\ edits' = edits + 1

Moves(w, c) == call' = [call EXCEPT ![w] = c]
Goto(w, at) == Moves(w, [call[w] EXCEPT !.at = at])
Leave(w) == Moves(w, IdleCall)
Blocks(w, why) == Moves(w, [call[w] EXCEPT !.at = "block", !.why = why])
Fresh(used) == CHOOSE n \in 1 .. Cardinality(used) + 1 : n \notin used

Mine(w) == requests[call[w].m]
Item(w) == Mine(w).item
Holds(w) == Mine(w).state = "PROCESSING" /\ Mine(w).tries = call[w].mtries
Row(w) == effects[call[w].m]
Owns(w) == Row(w).state = call[w].state /\ Row(w).tries = call[w].tries
Handles(w) == call[w].job = "request"
Marked(m, state, tries) ==
  [requests EXCEPT ![m] = [@ EXCEPT !.state = state, !.tries = tries]]
Closed(m) == Marked(m, "PROCESSED", 0)
Turned(m, state, tries) ==
  [effects EXCEPT ![m] = [@ EXCEPT !.state = state, !.tries = tries]]

\* A call that raises: its request is marked and tried again; the reconciler gives
\* its effect back.
Raise(w) ==
  /\ Leave(w) /\ UNCHANGED bindings
  /\ requests' = IF Handles(w) /\ Holds(w)
                 THEN Marked(call[w].m, "FAILED", 0) ELSE requests
  /\ effects' = IF call[w].job = "reconcile" /\ Owns(w)
                THEN Turned(call[w].m, "UNKNOWN", Row(w).tries) ELSE effects
-----------------------------------------------------------------------------
(* A request is claimed and admitted; then its effect takes off.           *)

\* A lease that passes under a working holder is one of the faults.
Expires(held) == IF held THEN Fault ELSE UNCHANGED faults

TakeRequest(w, m) ==
  /\ call[w].at = "idle" /\ requests[m].state \in {"RECEIVED", "FAILED", "PROCESSING"}
  /\ Expires(\E v \in Workers : call[v].m = m /\ Handles(v) /\ Holds(v))
  /\ LET tries == Fresh({call[v].mtries : v \in {u \in Workers : call[u].m = m}}) IN
     /\ requests' = Marked(m, "PROCESSING", tries)
     /\ Moves(w, [IdleCall EXCEPT !.at = "admit", !.job = "request", !.m = m, !.mtries = tries])
  /\ UNCHANGED <<formal, effects, bindings, gitlab, edits>>

\* The requirement's admission names what the request was made for.
Agrees(r) ==
  LET i == r.item IN
  /\ Current /\ items[i].integrated
  /\ items[i].formal = "MERGE_PENDING" => Approved(i)
  /\ cycle.now = r.cycle /\ proof[i] = r.head
  /\ IF r.kind = "CREATE" THEN ~Reviewed(i) ELSE items[i].bound /\ Reviewed(i)

\* What is stored about the merge request is of this cycle and head.
Recorded(r) ==
  /\ bindings[r.item].cycle = r.cycle /\ bindings[r.item].seen.head = r.head
Mergeable(r) == Recorded(r) /\ bindings[r.item].seen.state = "opened"

Admitted(r) ==
  Agrees(r) /\ items[r.item].rev = r.rev /\ items[r.item].bound = r.bound

\* A final effect of this request answers for it; one under way makes the call raise.
Plan(w, why) ==
  LET m == call[w].m IN
  CASE m \notin DOMAIN effects ->
         /\ effects' = With(effects, m, [state |-> "PLANNED", tries |-> 0, acked |-> FALSE,
                                         why |-> "NONE"])
         /\ Moves(w, [call[w] EXCEPT !.at = "launch", !.why = why])
         /\ UNCHANGED <<requests, bindings>>
    [] m \in DOMAIN effects /\ effects[m].state = "PLANNED" ->
         Moves(w, [call[w] EXCEPT !.at = "launch", !.why = why]) /\ UNCHANGED rows
    [] m \in DOMAIN effects /\ effects[m].state \in Final /\ Holds(w) ->
         /\ requests' = Closed(m)
         /\ Leave(w) /\ UNCHANGED <<effects, bindings>>
    [] OTHER -> Raise(w)

\* A refusal found now is kept until the effect it belongs to is in flight.
Admit(w) ==
  /\ call[w].at = "admit"
  /\ LET r == Mine(w) IN
     \/ ~Admitted(r) /\ Raise(w) /\ UNCHANGED faults
     \/ /\ Admitted(r) /\ (r.kind = "MERGE" => Mergeable(r))
        /\ \/ Fault /\ Raise(w)
           \/ branch[r.item] = r.head /\ Plan(w, "NONE") /\ UNCHANGED faults
           \/ branch[r.item] # r.head /\ Plan(w, "HEAD_SHA_CHANGED") /\ UNCHANGED faults
           \/ Fault /\ Plan(w, "REFUSED")
     \/ /\ Admitted(r) /\ r.kind = "MERGE" /\ ~Mergeable(r) /\ UNCHANGED faults
        /\ Plan(w, IF Recorded(r) THEN "REFUSED" ELSE "HEAD_SHA_CHANGED")
  /\ UNCHANGED <<formal, gitlab, edits>>

Launch(w) ==
  /\ call[w].at = "launch"
  /\ IF Row(w).state = "PLANNED"
     THEN /\ effects' = Turned(call[w].m, "IN_FLIGHT", 1)
          /\ Moves(w, [call[w] EXCEPT !.state = "IN_FLIGHT", !.tries = 1,
               !.at = IF call[w].why # "NONE" THEN "block"
                      ELSE IF Mine(w).kind = "CREATE" THEN "discover" ELSE "check"])
          /\ UNCHANGED <<requests, bindings>>
     ELSE Raise(w)
  /\ UNCHANGED <<formal, gitlab, faults, edits>>

TakeEffect(w, m) ==
  /\ call[w].at = "idle" /\ effects[m].state \in Unsettled
  /\ Expires(\E v \in Workers : call[v].m = m /\ Owns(v))
  /\ LET tries == Fresh({call[v].tries : v \in {u \in Workers : call[u].m = m}}) IN
     /\ effects' = Turned(m, "RECONCILIATION", tries)
     /\ Moves(w, [IdleCall EXCEPT !.at = "agree", !.job = "reconcile", !.m = m,
                                  !.state = "RECONCILIATION", !.tries = tries])
  /\ UNCHANGED <<formal, requests, bindings, gitlab, edits>>

\* The reconciler goes on only under the acceptance and review of the effect.
Agree(w) ==
  /\ call[w].at = "agree"
  /\ LET r == Mine(w) IN
     IF Agrees(r)
     THEN Goto(w, IF r.kind = "CREATE" THEN "discover" ELSE "check") /\ UNCHANGED rows
     ELSE Raise(w)
  /\ UNCHANGED <<formal, gitlab, faults, edits>>
-----------------------------------------------------------------------------
(* The provider.                                                           *)

\* A read GitLab does not answer: of the branch, it makes a request raise; of
\* anything else, the outcome is unknown.
Unread(w, at) ==
  /\ Fault
  /\ IF at = "raise" THEN Raise(w) ELSE Goto(w, "unknown") /\ UNCHANGED rows

Refused(w, why) == Blocks(w, why) /\ UNCHANGED <<rows, faults>>
\* A standing refusal of the people, the project or GitLab.
Deny(w) == Fault /\ Blocks(w, "REFUSED") /\ UNCHANGED rows

\* The only merge request of the branch is adopted if it is open; the reconciler
\* opens none.
Discover(w) ==
  /\ call[w].at = "discover"
  /\ LET i == Item(w)  r == Mine(w)  list == mrs[i] IN
     \/ Unread(w, "raise")
     \/ Unread(w, "unknown")
     \/ branch[i] # r.head /\ Refused(w, "HEAD_SHA_CHANGED")
     \/ Deny(w)
     \/ branch[i] = r.head /\ Len(list) > 1 /\ Refused(w, "REFUSED")
     \/ /\ branch[i] = r.head /\ list = <<>> /\ UNCHANGED <<rows, faults>>
        /\ Goto(w, IF Handles(w) THEN "post" ELSE "unknown")
     \/ /\ branch[i] = r.head /\ Len(list) = 1 /\ list[1].state = "opened"
        /\ Moves(w, [call[w] EXCEPT !.at = "settle", !.mr = 1,
                       !.seen = [state |-> "opened", head |-> list[1].head]])
        /\ UNCHANGED <<rows, faults>>
     \/ /\ branch[i] = r.head /\ Len(list) = 1 /\ list[1].state # "opened"
        /\ Refused(w, IF list[1].head = r.head THEN "REFUSED" ELSE "HEAD_SHA_CHANGED")
  /\ UNCHANGED <<formal, gitlab, edits>>

\* GitLab has one open merge request of a branch and target.
Openable(i) == branch[i] # Gone /\ \A k \in DOMAIN mrs[i] : mrs[i][k].state # "opened"
NewMergeRequest(i) ==
  /\ Openable(i)
  /\ mrs' = [mrs EXCEPT ![i] = Append(@, [state |-> "opened", head |-> branch[i],
                                          mergedBy |-> "nobody"])]

\* The new merge request is read back; any other answer leaves the outcome unknown.
Post(w) ==
  /\ call[w].at = "post"
  /\ LET i == Item(w) IN
     \/ /\ NewMergeRequest(i)
        /\ \/ /\ UNCHANGED faults
              /\ Moves(w, [call[w] EXCEPT !.at = "prove", !.mr = Len(mrs'[i]),
                             !.seen = [state |-> "opened", head |-> branch[i]]])
           \/ Fault /\ Goto(w, "unknown")
     \/ Fault /\ Goto(w, "unknown") /\ UNCHANGED mrs
     \/ ~Openable(i) /\ Goto(w, "unknown") /\ UNCHANGED <<mrs, faults>>
     \/ Fault /\ Blocks(w, "REFUSED") /\ UNCHANGED mrs
  /\ UNCHANGED <<formal, rows, branch, edits>>

\* What was found is at the requested head and open, and so is the branch still.
Prove(w) ==
  /\ call[w].at = "prove"
  /\ LET c == call[w]  r == Mine(w) IN
     \/ Unread(w, "unknown")
     \/ /\ c.seen.head # r.head \/ branch[r.item] # r.head
        /\ Refused(w, "HEAD_SHA_CHANGED")
     \/ /\ c.seen.head = r.head /\ branch[r.item] = r.head
        /\ IF c.seen.state = "opened" THEN Goto(w, "settle") /\ UNCHANGED <<rows, faults>>
           ELSE Refused(w, "REFUSED")
  /\ UNCHANGED <<formal, gitlab, edits>>

\* The reconciler asks first whether the merge is done.
Check(w) ==
  /\ call[w].at = "check"
  /\ LET i == Item(w)  r == Mine(w)
         mr == mrs[i][bindings[i].mr]
         seen == [state |-> mr.state, head |-> mr.head]
         done == ~Handles(w) /\ mr.state = "merged"
     IN
     \/ Unread(w, "raise")
     \/ Unread(w, "unknown")
     \/ /\ done /\ mr.head = r.head /\ UNCHANGED <<rows, faults>>
        /\ Moves(w, [call[w] EXCEPT !.at = "settle", !.mr = bindings[i].mr, !.seen = seen])
     \/ done /\ mr.head # r.head /\ Refused(w, "HEAD_SHA_CHANGED")
     \/ ~done /\ (branch[i] # r.head \/ mr.head # r.head) /\ Refused(w, "HEAD_SHA_CHANGED")
     \/ ~done /\ Deny(w)
     \/ /\ ~done /\ branch[i] = r.head /\ mr.head = r.head /\ mr.state # "opened"
        /\ Refused(w, "REFUSED")
     \/ /\ ~done /\ branch[i] = r.head /\ mr.head = r.head /\ mr.state = "opened"
        /\ Moves(w, [call[w] EXCEPT !.at = "put", !.mr = bindings[i].mr])
        /\ UNCHANGED <<rows, faults>>
  /\ UNCHANGED <<formal, gitlab, edits>>

Merges(i, k, who) ==
  /\ mrs' = [mrs EXCEPT ![i][k].state = "merged", ![i][k].mergedBy = who]
  /\ branch' = [branch EXCEPT ![i] = Gone]

\* Mutant: the head is not sent with the merge.
PutAnyHead(w) ==
  /\ call[w].at = "put"
  /\ LET i == Item(w)  mr == mrs[i][call[w].mr] IN
     /\ mr.state = "opened" /\ Merges(i, call[w].mr, "platform")
     /\ Moves(w, [call[w] EXCEPT !.at = "settle", !.seen = [state |-> "merged", head |-> mr.head]])
  /\ UNCHANGED <<formal, rows, faults, edits>>

\* Mutant: the answer to the merge is not looked at.
PutUnread(w) ==
  /\ call[w].at = "put"
  /\ LET i == Item(w)  r == Mine(w)  mr == mrs[i][call[w].mr] IN
     /\ \/ mr.state = "opened" /\ mr.head = r.head /\ Merges(i, call[w].mr, "platform")
        \/ UNCHANGED gitlab
     /\ Moves(w, [call[w] EXCEPT !.at = "settle", !.seen = [state |-> "merged", head |-> r.head]])
  /\ UNCHANGED <<formal, rows, faults, edits>>

\* The merge, with the source branch, at the head that was reviewed.
Put(w) ==
  /\ call[w].at = "put"
  /\ LET c == call[w]  i == Item(w)  r == Mine(w)  mr == mrs[i][c.mr] IN
     \/ /\ mr.state = "opened" /\ mr.head = r.head /\ Merges(i, c.mr, "platform")
        /\ \/ /\ UNCHANGED faults
              /\ Moves(w, [c EXCEPT !.at = "settle",
                                    !.seen = [state |-> "merged", head |-> mr.head]])
           \/ Fault /\ Goto(w, "unknown")
     \/ Fault /\ Goto(w, "unknown") /\ UNCHANGED gitlab
     \/ /\ mr.state = "opened" /\ mr.head # r.head
        /\ Blocks(w, "HEAD_SHA_CHANGED") /\ UNCHANGED <<gitlab, faults>>
     \/ mr.state # "opened" /\ Blocks(w, "REFUSED") /\ UNCHANGED <<gitlab, faults>>
     \/ Fault /\ Blocks(w, "REFUSED") /\ UNCHANGED gitlab
  /\ UNCHANGED <<formal, rows, edits>>
-----------------------------------------------------------------------------
(* Outcomes, and their telling.                                            *)

\* Mutant: an outcome inherits the acknowledgement of the doubt before it.
FinishKeepsAck(m, state, why) ==
  [effects EXCEPT ![m] = [@ EXCEPT !.state = state, !.why = why, !.tries = 0]]

Finish(m, state, why) ==
  [effects EXCEPT ![m] = [state |-> state, why |-> why, tries |-> 0, acked |-> FALSE]]

\* The binding of a work item is made once, and kept.
Bindable(w) ==
  LET i == Item(w) IN
  IF i \in DOMAIN bindings THEN Mine(w).bound /\ bindings[i].mr = call[w].mr ELSE ~Mine(w).bound

Settle(w) ==
  /\ call[w].at = "settle"
  /\ LET c == call[w]  r == Mine(w) IN
     IF /\ Owns(w) /\ (Handles(w) => Holds(w))
        /\ r.kind = "CREATE" => Bindable(w)
     THEN /\ effects' = Finish(c.m, "SUCCEEDED", "NONE")
          /\ bindings' = IF r.kind = "CREATE"
                         THEN With(bindings, r.item, [mr |-> c.mr, seen |-> c.seen, cycle |-> r.cycle])
                         ELSE [bindings EXCEPT ![r.item].seen = c.seen]
          /\ requests' = IF Handles(w) THEN Closed(c.m) ELSE requests
          /\ Leave(w)
     ELSE Raise(w)
  /\ UNCHANGED <<formal, gitlab, faults, edits>>

\* The reconciler completes the request too, if it is being processed.
Block(w) ==
  /\ call[w].at = "block"
  /\ LET c == call[w] IN
     IF Owns(w) /\ (Handles(w) => Holds(w))
     THEN /\ effects' = Finish(c.m, "BLOCKED", c.why)
          /\ requests' = IF Mine(w).state = "PROCESSING" THEN Closed(c.m) ELSE requests
          /\ Leave(w) /\ UNCHANGED bindings
     ELSE IF Handles(w) THEN Raise(w) ELSE Leave(w) /\ UNCHANGED rows
  /\ UNCHANGED <<formal, gitlab, faults, edits>>

Doubt(w) ==
  /\ call[w].at = "unknown"
  /\ IF Handles(w) /\ Owns(w) /\ Holds(w)
     THEN /\ effects' = Turned(call[w].m, "UNKNOWN", Row(w).tries)
          /\ requests' = Closed(call[w].m) /\ UNCHANGED bindings
          /\ Leave(w)
     ELSE Raise(w)
  /\ UNCHANGED <<formal, gitlab, faults, edits>>

Telling(m) ==
  LET r == requests[m]  e == effects[m]
      kind == CASE e.state = "SUCCEEDED" -> IF r.kind = "CREATE" THEN "ready" ELSE "merged"
                [] e.state = "BLOCKED"   -> "blocked"
                [] OTHER                 -> "pending"
  IN [kind |-> kind, m |-> m, item |-> r.item, rev |-> r.rev, head |-> r.head,
      bound |-> kind = "ready" \/ r.bound, why |-> e.why]

\* By the worker that reached the outcome or by the replay, under the lock of the
\* effect's row; the requirement's transaction is its own.  A callback that fails
\* is tried again.
Tell(m) ==
  /\ effects[m].state \in Final \cup {"UNKNOWN"} /\ ~effects[m].acked
  /\ LET t == Telling(m) IN Accepts(t) /\ Record(t)
  /\ \/ effects' = [effects EXCEPT ![m].acked = TRUE] /\ UNCHANGED faults
     \/ Fault /\ UNCHANGED effects
  /\ UNCHANGED <<requests, bindings, gitlab, call, edits>>
-----------------------------------------------------------------------------
(* Crashes, and what people do in GitLab.                          *)

Crash(w) ==
  /\ call[w].at # "idle" /\ Fault /\ Leave(w)
  /\ UNCHANGED <<formal, rows, gitlab, edits>>

\* A push moves the open merge request with the branch.
Pushed(i, h) ==
  /\ branch' = [branch EXCEPT ![i] = h]
  /\ mrs' = [mrs EXCEPT ![i] =
       [k \in DOMAIN mrs[i] |-> IF mrs[i][k].state = "opened"
                                THEN [mrs[i][k] EXCEPT !.head = h] ELSE mrs[i][k]]]

Later(i, h) == proof[i] < h /\ (branch[i] # Gone => branch[i] < h)

Push(i) ==
  /\ items[i].integrated /\ Edit
  /\ \E h \in Heads : Later(i, h) /\ Pushed(i, h)
  /\ UNCHANGED <<formal, rows, call, faults>>

Person(i) ==
  /\ Edit
  /\ \/ NewMergeRequest(i) /\ UNCHANGED branch
     \/ \E k \in DOMAIN mrs[i] :
          /\ mrs[i][k].state = "opened"
          /\ \/ mrs' = [mrs EXCEPT ![i][k].state = "closed"] /\ UNCHANGED branch
             \/ Merges(i, k, "people")
  /\ UNCHANGED <<formal, rows, call, faults>>

\* The people of the requirement; a late validation is one of the edits.
Asks ==
  /\ \/ /\ UNCHANGED edits
        /\ \/ Select \/ Accept \/ Decline
           \/ \E i \in Items : Approve(i) \/ Reject(i) \/ ReceiveValidation(i)
           \/ \E i \in Items, kind \in {"CREATE", "MERGE"} : Turn /\ Request(i, kind)
     \/ Edit /\ \E i \in Items : SubmitValidation(i)
  /\ UNCHANGED <<effects, bindings, gitlab, call, faults>>

\* The rework is pushed; a head the branch got before is as good.
Rework(i) ==
  /\ \E h \in Heads :
       /\ IF branch[i] = h THEN UNCHANGED gitlab
          ELSE Later(i, h) /\ Pushed(i, h)
       /\ Reintegrate(i, h)
  /\ UNCHANGED <<effects, bindings, call, faults, edits>>

Work(w) ==
  \/ Admit(w) \/ Launch(w) \/ Agree(w) \/ Discover(w) \/ Post(w)
  \/ Prove(w) \/ Check(w) \/ Put(w) \/ Settle(w) \/ Block(w) \/ Doubt(w)

Next ==
  \/ Asks
  \/ \E w \in Workers :
       \/ Work(w) \/ Crash(w)
       \/ \E m \in DOMAIN requests : TakeRequest(w, m)
       \/ \E m \in DOMAIN effects : TakeEffect(w, m)
  \/ \E m \in DOMAIN effects : Tell(m)
  \/ \E i \in Items : Rework(i) \/ Push(i) \/ Person(i)

Spec == Init /\ [][Next]_vars
-----------------------------------------------------------------------------
(* Properties.                                                             *)

\* While a delivery of any work item is under way, the acceptance it was asked for
\* under stands: nothing takes it back before the callback.
PendingKeepsAcceptance ==
  Busy(items) => req = "AWAITING_MERGE" /\ acceptance = "APPROVED"

\* Evidence that was contradicted does not outlive the deliveries under way: the
\* last callback of the cycle, of whatever kind, takes it back.
InvalidationApplied == Contradicted(items) => Busy(items)

\* A requirement is completed, and a work item shown as merged, only when each
\* formal merge request is merged at a head its review approved.
DeliveredIsMerged ==
  /\ \A i \in Items : items[i].formal = "MERGED" =>
       /\ mrs[i][bindings[i].mr].state = "merged"
       /\ \E g \in DOMAIN gates :
            g[1] = i /\ gates[g].outcome = "APPROVED" /\ gates[g].head = mrs[i][bindings[i].mr].head
  /\ req = "COMPLETED" => \A i \in Items : items[i].formal = "MERGED"

\* A final outcome counts as told only when the requirement recorded this outcome.
AckedIsTrue ==
  \A m \in DOMAIN effects :
    effects[m].state \in Final /\ effects[m].acked =>
      LET kinds == IF effects[m].state = "BLOCKED" THEN {"blocked"}
                   ELSE IF requests[m].kind = "CREATE" THEN {"ready"} ELSE {"merged"}
      IN \E k \in kinds : <<k, m>> \in answers

\* The platform merges to main only at a head a review approved, whatever is pushed,
\* retried or reconciled meanwhile.
MergesApprovedHead ==
  [][\A i \in Items : \A k \in DOMAIN mrs[i] :
       mrs[i][k].mergedBy = "nobody" /\ mrs'[i][k].mergedBy = "platform" =>
         \E g \in DOMAIN gates :
           g[1] = i /\ gates[g].outcome = "APPROVED" /\ gates[g].head = mrs[i][k].head]_vars

\* Under a new acceptance every open formal merge request can be put to review again.
ReviewRefreshable ==
  \A i \in Items :
    /\ Current /\ ~Contradicted(items) /\ items[i].integrated
    /\ items[i].formal = "MR_OPEN" /\ Latest(i) # cycle.now
    => MayCreate(i)
=============================================================================
