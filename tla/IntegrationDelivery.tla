------------------------- MODULE IntegrationDelivery -------------------------
(***************************************************************************)
(* The integration delivery of source_control: a request of a work item    *)
(* becomes one GitLab merge request of its task branch, a second request   *)
(* merges it at the exact head, and every outcome is told to the work item.*)
(*                                                                         *)
(* The rows of one work item, whose branch binding exists (BranchBinding). *)
(* Workers run the commands of tools/source_control_worker.py; an action   *)
(* is one database transaction, one call of the requirement module or one  *)
(* HTTP request.  An effect's callback holds the effect's row lock around  *)
(* the requirement's transaction: one action.  Fencing counters (attempts) *)
(* are only compared with the copies workers hold: Fresh picks one nobody  *)
(* holds, which keeps them small.                                          *)
(***************************************************************************)
EXTENDS WorkItemDelivery, FiniteSets

CONSTANTS
  Workers,    \* worker processes
  MaxFaults,  \* bound on crashes, overruns and failures of other systems
  MaxEdits,   \* bound on what people do in GitLab
  Refuses,    \* whether checks may find a standing refusal
  Gone        \* no branch

ASSUME IntegrationAssumption ==
  /\ IsFiniteSet(Workers)
  /\ MaxFaults \in Nat /\ MaxEdits \in Nat /\ Refuses \in BOOLEAN /\ Gone \notin Heads

VARIABLES
  effects,   \* source_control_effect rows, by what they are about
  bindings,  \* merge_request_binding rows with their observations, by id
  mrs,       \* GitLab: the merge requests of the branch, by iid
  branch,    \* GitLab: the commit of the task branch
  call,      \* the locals of each worker
  faults, edits

gitlab == <<mrs, branch>>
rows == <<requests, effects, bindings>>
vars == <<req, item, answers, requests, effects, bindings, mrs, branch, call, faults, edits>>

\* What stands for every refusal that lasts: connection, registry, owner, policy.
Standing == "REPOSITORY_NOT_AUTHORIZED"

\* Subject keys: a create effect by head, a merge effect by binding and head.
Key(op, binding, head) == [op |-> op, binding |-> binding, head |-> head]
Keys == [op : {"CREATE", "MERGE"}, binding : Heads, head : Heads]
NoKey == Key("NONE", NoBinding, 0)

Unsettled == {"IN_FLIGHT", "UNKNOWN", "RECONCILIATION"}
Final == {"SUCCEEDED", "BLOCKED"}
Effects ==
  [state : {"PLANNED"} \cup Unsettled \cup Final, tries : Nat, due : BOOLEAN,
   told : {"PENDING", "ACKED", "FAILED"}, why : Reasons \cup {"NONE"}, by : Nat]
MergeStates == {"opened", "closed", "merged"}
Facts == [state : MergeStates, head : Heads]
BindingRows == [iid : Nat, head : Heads, live : BOOLEAN, facts : Seq(Facts)]
MergeRequests ==
  [state : MergeStates, head : Heads, by : {"platform", "people"},
   mergedBy : {"nobody", "platform", "people"}]

\* Where a worker stands in its command.
Places ==
  {"idle", "facts", "close", "reread", "admit", "mark", "answer", "release", "survey",
   "review", "prove", "classify", "plan", "start", "local", "renew", "bound", "list",
   "post", "getmr", "getbranch", "put", "readmr", "readbranch", "settle", "resolve",
   "block", "unknown", "context", "tell"}
Calls ==
  [at : Places, job : {"none", "request", "reconcile"}, msg : Nat, mtries : Nat,
   key : Keys \cup {NoKey}, state : {"NONE", "PLANNED"} \cup Unsettled \cup Final,
   tries : Nat, rev : Nat, mr : Nat, got : MergeStates \cup {"NONE"}, head : Heads,
   src : Heads \cup {Gone}, why : Reasons \cup {"NONE"}, fact : BOOLEAN, bare : BOOLEAN,
   bound : SUBSET Nat]
IdleCall ==
  [at |-> "idle", job |-> "none", msg |-> 0, mtries |-> 0, key |-> NoKey,
   state |-> "NONE", tries |-> 0, rev |-> 0, mr |-> 0, got |-> "NONE", head |-> 0,
   src |-> 0, why |-> "NONE", fact |-> FALSE, bare |-> FALSE, bound |-> {}]

TypeOK ==
  /\ req \in {"READY", "IN_PROGRESS", "VERIFYING"} /\ item \in Items
  /\ requests \in Seq(Requests)
  /\ DOMAIN effects \subseteq Keys /\ \A k \in DOMAIN effects : effects[k] \in Effects
  /\ DOMAIN bindings \subseteq Heads
  /\ \A b \in DOMAIN bindings : bindings[b] \in BindingRows
  /\ mrs \in Seq(MergeRequests) /\ branch \in Heads \cup {Gone}
  /\ call \in [Workers -> Calls]
  /\ faults \in Nat /\ edits \in Nat

Init ==
  /\ DeliveryInit
  /\ effects = <<>> /\ bindings = <<>>
  /\ mrs = <<>> /\ branch \in {0, 1}
  /\ call = [w \in Workers |-> IdleCall]
  /\ faults = 0 /\ edits = 0

Fault == faults < MaxFaults /\ faults' = faults + 1
Edit == edits < MaxEdits /\ edits' = edits + 1

Moves(w, c) == call' = [call EXCEPT ![w] = c]
Goto(w, at) == Moves(w, [call[w] EXCEPT !.at = at])
Leave(w) == Moves(w, IdleCall)
Fails(w, at, why) == Moves(w, [call[w] EXCEPT !.at = at, !.why = why])

\* A table with one more row.
Insert(table, k, row) == [x \in DOMAIN table \cup {k} |-> IF x = k THEN row ELSE table[x]]

Fresh(used) == CHOOSE n \in 1 .. Cardinality(used) + 1 : n \notin used
Last(s) == s[Len(s)]

\* What a worker still holds: its lease of the request, its attempt of the effect.
Mine(w) == requests[call[w].msg]
Holds(w) == Mine(w).state = "PROCESSING" /\ Mine(w).tries = call[w].mtries
Row(w) == effects[call[w].key]
Current(w) ==
  /\ call[w].key \in DOMAIN effects
  /\ Row(w).state = call[w].state /\ Row(w).tries = call[w].tries
Close(w) == requests' = [requests EXCEPT ![call[w].msg].state = "PROCESSED"]
-----------------------------------------------------------------------------
(* Taking a request; what is stored; whether the work item still asks.     *)

TakeRequest(w, m) ==
  /\ call[w].at = "idle" /\ requests[m].due
  /\ requests[m].state \in {"RECEIVED", "FAILED", "PROCESSING"}
  /\ LET tries == Fresh({call[v].mtries : v \in {u \in Workers : call[u].msg = m}}) IN
     /\ requests' = [requests EXCEPT ![m].state = "PROCESSING", ![m].tries = tries,
                                     ![m].due = FALSE]
     /\ Moves(w, [IdleCall EXCEPT !.at = "facts", !.job = "request", !.msg = m,
                                  !.mtries = tries, !.rev = requests[m].rev])
  /\ UNCHANGED <<delivery, effects, bindings, gitlab, faults, edits>>

\* The effects planned for this very request, by fingerprint: seldom two, when it
\* was handled twice with a push in between.
Own(m) == {k \in DOMAIN effects : effects[k].by = m}
TheOne(S) == CHOOSE x \in S : S = {x}

ReadFacts(w) ==
  /\ call[w].at = "facts"
  /\ LET r == Mine(w)  own == Own(call[w].msg)  k == TheOne(own) IN
     IF r.kind = "MERGE" /\ ~bindings[r.binding].live THEN Leave(w)
     ELSE IF r.why # "NONE"
     THEN Fails(w, IF r.kind = "CREATE" THEN "mark" ELSE "answer", r.why)
     ELSE IF Cardinality(own) > 1
     THEN Fails(w, IF r.kind = "CREATE" THEN "mark" ELSE "admit", "MR_CONFLICT")
     ELSE IF own = {} THEN Goto(w, "admit")
     ELSE Moves(w, [call[w] EXCEPT
            !.at = IF effects[k].state = "PLANNED" THEN "admit" ELSE "close",
            !.key = k, !.state = effects[k].state, !.tries = effects[k].tries,
            !.why = effects[k].why])
  /\ UNCHANGED <<delivery, rows, gitlab, faults, edits>>

\* An effect under way answers for its request, which leaves the inbox.
CloseSeen(w) ==
  /\ call[w].at = "close"
  /\ IF Holds(w)
     THEN /\ Close(w)
          /\ Goto(w, IF Mine(w).kind = "CREATE" THEN "reread" ELSE "tell")
     ELSE Leave(w) /\ UNCHANGED requests
  /\ UNCHANGED <<delivery, effects, bindings, gitlab, faults, edits>>

Reread(w) ==
  /\ call[w].at = "reread"
  /\ IF Cardinality(Own(call[w].msg)) = 1
     THEN Moves(w, [call[w] EXCEPT !.at = "tell", !.state = Row(w).state,
                                   !.tries = Row(w).tries, !.why = Row(w).why])
     ELSE Leave(w)
  /\ UNCHANGED <<delivery, rows, gitlab, faults, edits>>

\* The work item has not moved since it sent the request.
Asked(r) ==
  /\ item.rev = r.rev
  /\ r.kind = "CREATE" => item.delivery = "MR_PENDING" /\ item.binding = NoBinding
  /\ r.kind = "MERGE" =>
       /\ item.delivery = "MERGE_PENDING" /\ item.binding = r.binding
       /\ Last(bindings[r.binding].facts).state = "opened"

\* Otherwise the call raises, and the request stays in the inbox.  A request refused
\* for its two effects keeps its reason: admission and proof are one step for it,
\* which keeps a merge that is done already, or is refused or unanswered and sees none.
Admit(w) ==
  LET collides == call[w].why # "NONE"
      mr == mrs[bindings[Mine(w).binding].iid]
  IN /\ call[w].at = "admit"
     /\ \/ /\ Asked(Mine(w)) /\ ~collides
           /\ \/ Goto(w, "survey")
              \/ Refuses /\ Fails(w, "mark", Standing)
        \/ /\ Asked(Mine(w)) /\ collides
           /\ \/ Moves(w, [call[w] EXCEPT !.at = "mark", !.fact = mr.state = "merged",
                                            !.got = mr.state, !.head = mr.head])
              \/ Goto(w, "mark")
        \/ ~Asked(Mine(w)) /\ Leave(w)
     /\ UNCHANGED <<delivery, rows, gitlab, faults, edits>>
-----------------------------------------------------------------------------
(* Refusals before an effect is in flight: stored first, then told.        *)

\* An observation of the merge request last read; equal ones are stored once.
Observed(c) == [state |-> c.got, head |-> c.head]
News(b, c) == \A i \in DOMAIN bindings[b].facts : bindings[b].facts[i] # Observed(c)
Observe(b, c) == bindings' = [bindings EXCEPT ![b].facts = Append(@, Observed(c))]

\* A merge seen outside an effect is stored with the refusal it causes.
Mark(w) ==
  /\ call[w].at = "mark"
  /\ IF Holds(w) /\ (call[w].fact => News(Mine(w).binding, call[w]))
     THEN /\ requests' = [requests EXCEPT ![call[w].msg].why = call[w].why]
          /\ IF call[w].fact THEN Observe(Mine(w).binding, call[w]) ELSE UNCHANGED bindings
          /\ Goto(w, "answer")
     ELSE Leave(w) /\ UNCHANGED <<requests, bindings>>
  /\ UNCHANGED <<delivery, effects, gitlab, faults, edits>>

Refusal(w) ==
  [key |-> [about |-> NoKey, msg |-> call[w].msg, why |-> call[w].why],
   kind |-> IF call[w].why = "EXTERNAL_MERGE_DRIFT" THEN "drift" ELSE "blocked",
   binding |-> Mine(w).binding, why |-> call[w].why, rev |-> Mine(w).rev]

\* Mutant: the request is done once the work item was asked.
AnswerOnce(w) ==
  /\ call[w].at = "answer"
  /\ IF Holds(w)
     THEN /\ Close(w)
          /\ IF Accepts(Refusal(w)) THEN Record(Refusal(w)) ELSE UNCHANGED delivery
     ELSE UNCHANGED <<delivery, requests>>
  /\ Leave(w)
  /\ UNCHANGED <<effects, bindings, gitlab, faults, edits>>

\* Told under the lock of the inbox row; the request is done when it is accepted.
Answer(w) ==
  /\ call[w].at = "answer"
  /\ \/ Holds(w) /\ Accepts(Refusal(w)) /\ Record(Refusal(w)) /\ Close(w) /\ UNCHANGED faults
     \/ Holds(w) /\ Accepts(Refusal(w)) /\ Record(Refusal(w)) /\ Fault /\ UNCHANGED requests
     \/ ~(Holds(w) /\ Accepts(Refusal(w))) /\ UNCHANGED <<delivery, requests, faults>>
  /\ Leave(w)
  /\ UNCHANGED <<effects, bindings, gitlab, edits>>

\* Mutant: a request that is to be tried again is handed back, but not made due.
ReleaseLost(w) ==
  /\ call[w].at = "release"
  /\ requests' = IF Holds(w) THEN [requests EXCEPT ![call[w].msg].state = "RECEIVED"]
                 ELSE requests
  /\ Leave(w)
  /\ UNCHANGED <<delivery, effects, bindings, gitlab, faults, edits>>

Release(w) ==
  /\ call[w].at = "release"
  /\ requests' = IF Holds(w) THEN [requests EXCEPT ![call[w].msg].state = "FAILED"]
                 ELSE requests
  /\ Leave(w)
  /\ UNCHANGED <<delivery, effects, bindings, gitlab, faults, edits>>
-----------------------------------------------------------------------------
(* Reading GitLab before an effect is in flight.  A call that fails ends   *)
(* in a retry, one that is denied in a refusal.                            *)

Writing(w) == call[w].state \in Unsettled
Retry(w) == Goto(w, IF Writing(w) THEN "unknown" ELSE "release")
Refuse(w, why) == Fails(w, IF Writing(w) THEN "block" ELSE "mark", why)
Call(w) ==
  \/ Fault /\ Retry(w)
  \/ Refuses /\ Refuse(w, Standing) /\ UNCHANGED faults

\* A request to create reads the branch, which must hold a commit to deliver.
ReadSource(w) ==
  /\ call[w].at = "survey" /\ call[w].job = "request" /\ Mine(w).kind = "CREATE"
  /\ \/ Call(w)
     \/ /\ UNCHANGED faults
        /\ CASE branch = Gone -> Fails(w, "mark", "BRANCH_BINDING_MISSING")
             [] branch = 0    -> Fails(w, "mark", "NO_DELIVERY_COMMIT")
             [] OTHER         -> Moves(w, [call[w] EXCEPT !.at = "review", !.head = branch])
  /\ UNCHANGED <<delivery, rows, gitlab, edits>>

Integrated(head) ==
  \E b \in DOMAIN bindings :
    /\ bindings[b].head = head
    /\ Last(bindings[b].facts) = [state |-> "merged", head |-> head]

Review(w) ==
  /\ call[w].at = "review"
  /\ LET c == call[w]  key == Key("CREATE", c.head, c.head) IN
     IF Integrated(c.head) THEN Fails(w, "mark", "NO_DELIVERY_COMMIT")
     ELSE IF c.key \notin {NoKey, key} THEN Fails(w, "block", "HEAD_SHA_CHANGED")
     ELSE Moves(w, [c EXCEPT !.at = "plan", !.key = key])
  /\ UNCHANGED <<delivery, rows, gitlab, faults, edits>>

\* A merge, asked for or reconciled, reads its merge request, then the branch.
ReadMergeRequest(w) ==
  /\ call[w].at = "survey" /\ (call[w].job = "request" => Mine(w).kind = "MERGE")
  /\ \/ Call(w)
     \/ /\ UNCHANGED faults
        /\ LET i == bindings[IF call[w].job = "request" THEN Mine(w).binding
                             ELSE call[w].key.binding].iid IN
           Moves(w, [call[w] EXCEPT !.at = "prove", !.mr = i,
                       !.got = mrs[i].state, !.head = mrs[i].head])
  /\ UNCHANGED <<delivery, rows, gitlab, edits>>

\* Mutant: the reconciler does not compare the head that was asked for.
JudgeAnyHead(w) ==
  LET c == call[w] IN
  \/ c.got = "merged" /\ Goto(w, "settle")
  \/ c.got = "closed" /\ Fails(w, "block", "MR_CLOSED")
  \/ c.got = "opened" /\ Goto(w, "renew")

\* The reconciler's verdict: to merge again only what is open at the head asked for.
Judge(w) ==
  LET c == [call[w] EXCEPT !.src = branch]
      Stop(why, fact) == Moves(w, [c EXCEPT !.at = "block", !.why = why, !.fact = fact])
  IN
  IF c.head # c.key.head THEN Stop("HEAD_SHA_CHANGED", FALSE)
  ELSE \/ c.got = "merged" /\ branch = Gone /\ Stop("SOURCE_BRANCH_MISSING", TRUE)
       \/ c.got = "merged" /\ branch # Gone /\ Goto(w, "settle")
       \/ c.got = "closed" /\ Stop("MR_CLOSED", TRUE)
       \/ c.got = "opened" /\ Goto(w, "renew")
       \/ c.got = "opened" /\ Refuses /\ Stop("MR_CHECKS_BLOCKED", TRUE)

Prove(w) ==
  /\ call[w].at = "prove"
  /\ \/ Call(w)
     \/ /\ UNCHANGED faults
        /\ IF call[w].got = "opened" /\ branch # call[w].head
           THEN Refuse(w, IF branch = Gone THEN "BRANCH_BINDING_MISSING" ELSE "HEAD_SHA_CHANGED")
           ELSE IF Writing(w) THEN Judge(w)
           ELSE Moves(w, [call[w] EXCEPT !.at = "classify", !.src = branch])
  /\ UNCHANGED <<delivery, rows, gitlab, edits>>

\* A new merge is planned at the present head, unless another request has one there.
Classify(w) ==
  /\ call[w].at = "classify"
  /\ LET c == call[w]
         exact == Key("MERGE", Mine(w).binding, IF c.src = Gone THEN c.head ELSE c.src)
         Stop(at, why) ==
           Moves(w, [c EXCEPT !.at = at, !.why = why, !.fact = c.got = "merged"])
         stop == IF c.key = NoKey THEN "mark" ELSE "block"
     IN
     IF c.key # exact /\ exact \in DOMAIN effects THEN Stop("mark", "MR_CONFLICT")
     ELSE IF c.key \notin {NoKey, exact} THEN Stop("block", "HEAD_SHA_CHANGED")
     ELSE \/ /\ c.got = "merged"
             /\ Stop(stop, IF c.key # NoKey /\ c.src = Gone THEN "SOURCE_BRANCH_MISSING"
                           ELSE "EXTERNAL_MERGE_DRIFT")
          \/ c.got = "closed" /\ Stop(stop, "MR_CLOSED")
          \/ c.got = "opened" /\ Refuses /\ Stop(stop, "MR_CHECKS_BLOCKED")
          \/ c.got = "opened" /\ Moves(w, [c EXCEPT !.at = "plan", !.key = exact])
  /\ UNCHANGED <<delivery, rows, gitlab, faults, edits>>
-----------------------------------------------------------------------------
(* Effects: planned, then in flight, by compare-and-set on state and       *)
(* attempts; a lease that has passed makes one the reconciler's.           *)

Plan(w) ==
  /\ call[w].at = "plan"
  /\ LET k == call[w].key IN
     IF k \in DOMAIN effects
     THEN /\ IF effects[k].by = call[w].msg THEN Goto(w, "start")
             ELSE Fails(w, "mark", "MR_CONFLICT")
          /\ UNCHANGED effects
     ELSE /\ effects' = Insert(effects, k,
               [state |-> "PLANNED", tries |-> 0, due |-> FALSE, told |-> "PENDING",
                why |-> "NONE", by |-> call[w].msg])
          /\ Goto(w, "start")
  /\ UNCHANGED <<delivery, requests, bindings, gitlab, faults, edits>>

Launch(w) ==
  /\ call[w].at = "start"
  /\ IF Row(w).state = "PLANNED"
     THEN /\ effects' = [effects EXCEPT ![call[w].key].state = "IN_FLIGHT",
                                        ![call[w].key].tries = 1]
          /\ Moves(w, [call[w] EXCEPT
               !.at = IF call[w].key.op = "CREATE" THEN "bound" ELSE "put",
               !.state = "IN_FLIGHT", !.tries = 1])
     ELSE Leave(w) /\ UNCHANGED effects
  /\ UNCHANGED <<delivery, requests, bindings, gitlab, faults, edits>>

\* Mutant: only effects whose outcome was reported unknown are reconciled.
TakeUnknown(w) ==
  /\ call[w].at = "idle"
  /\ \E k \in DOMAIN effects :
       /\ effects[k].state = "UNKNOWN" /\ effects[k].due
       /\ effects' = [effects EXCEPT ![k].state = "RECONCILIATION", ![k].tries = 1,
                                     ![k].due = FALSE]
       /\ Moves(w, [IdleCall EXCEPT !.at = "local", !.job = "reconcile", !.key = k,
                                    !.state = "RECONCILIATION", !.tries = 1])
  /\ UNCHANGED <<delivery, requests, bindings, gitlab, faults, edits>>

TakeEffect(w) ==
  /\ call[w].at = "idle"
  /\ \E k \in DOMAIN effects :
       /\ effects[k].state \in Unsettled /\ effects[k].due
       /\ LET tries == Fresh({call[v].tries : v \in {u \in Workers : call[u].key = k}}) IN
          /\ effects' = [effects EXCEPT ![k].state = "RECONCILIATION", ![k].tries = tries,
                                        ![k].due = FALSE]
          /\ Moves(w, [IdleCall EXCEPT !.at = "local", !.job = "reconcile", !.key = k,
                                       !.state = "RECONCILIATION", !.tries = tries])
  /\ UNCHANGED <<delivery, requests, bindings, gitlab, faults, edits>>

Bound == {bindings[b].iid : b \in DOMAIN bindings}

\* What the reconciler finds stored; a merge is only of the current binding.
ReadLocal(w) ==
  /\ call[w].at = "local"
  /\ \/ Refuses /\ Moves(w, [call[w] EXCEPT !.at = "block", !.why = Standing, !.bare = TRUE])
     \/ /\ call[w].key.op = "CREATE"
        /\ Moves(w, [call[w] EXCEPT !.at = "list", !.bound = Bound])
     \/ /\ call[w].key.op = "MERGE"
        /\ IF bindings[call[w].key.binding].live THEN Goto(w, "survey")
           ELSE Moves(w, [call[w] EXCEPT !.at = "block", !.why = "MR_CONFLICT", !.bare = TRUE])
  /\ UNCHANGED <<delivery, rows, gitlab, faults, edits>>

\* Before it writes, the reconciler renews its lease.
Renew(w) ==
  /\ call[w].at = "renew"
  /\ IF Current(w)
     THEN /\ effects' = [effects EXCEPT ![call[w].key].due = FALSE]
          /\ Goto(w, IF call[w].key.op = "CREATE" THEN "post" ELSE "put")
     ELSE Leave(w) /\ UNCHANGED effects
  /\ UNCHANGED <<delivery, requests, bindings, gitlab, faults, edits>>
-----------------------------------------------------------------------------
(* The merge request: found or created, then proved.                       *)

ReadBound(w) ==
  /\ call[w].at = "bound"
  /\ Moves(w, [call[w] EXCEPT !.at = "list", !.bound = Bound])
  /\ UNCHANGED <<delivery, rows, gitlab, faults, edits>>

List(w) ==
  /\ call[w].at = "list"
  /\ \/ Call(w)
     \/ /\ UNCHANGED faults
        /\ LET found == DOMAIN mrs \ call[w].bound IN
           CASE Cardinality(found) > 1 -> Fails(w, "block", "MR_CONFLICT")
             [] Cardinality(found) = 1 ->
                  \E i \in found : Moves(w, [call[w] EXCEPT !.at = "getmr", !.mr = i])
             [] OTHER -> Goto(w, IF call[w].job = "request" THEN "post" ELSE "renew")
  /\ UNCHANGED <<delivery, rows, gitlab, edits>>

\* GitLab has one open merge request of a branch.
Openable == branch # Gone /\ \A i \in DOMAIN mrs : mrs[i].state # "opened"
NewMergeRequest(by) ==
  /\ Openable
  /\ mrs' = Append(mrs, [state |-> "opened", head |-> branch, by |-> by, mergedBy |-> "nobody"])

\* Any answer but 201 leaves the outcome unknown; so does no answer.
Post(w) ==
  /\ call[w].at = "post"
  /\ \/ Call(w) /\ UNCHANGED mrs
     \/ /\ NewMergeRequest("platform")
        /\ \/ Moves(w, [call[w] EXCEPT !.at = "getmr", !.mr = Len(mrs')]) /\ UNCHANGED faults
           \/ Fault /\ Goto(w, "unknown")
     \/ ~Openable /\ Goto(w, "unknown") /\ UNCHANGED <<mrs, faults>>
  /\ UNCHANGED <<delivery, rows, branch, edits>>

\* While its request is handled any failed read is an unknown outcome.
GetMergeRequest(w) ==
  /\ call[w].at = "getmr"
  /\ \/ Fault /\ Goto(w, "unknown")
     \/ call[w].job = "reconcile" /\ Refuses /\ Refuse(w, Standing) /\ UNCHANGED faults
     \/ /\ UNCHANGED faults
        /\ LET mr == mrs[call[w].mr] IN
           Moves(w, [call[w] EXCEPT
             !.at = IF call[w].job = "reconcile" /\ mr.state # "opened" THEN "settle"
                    ELSE "getbranch",
             !.got = mr.state, !.head = mr.head])
  /\ UNCHANGED <<delivery, rows, gitlab, edits>>

GetBranch(w) ==
  /\ call[w].at = "getbranch"
  /\ \/ Fault /\ Goto(w, "unknown")
     \/ call[w].job = "reconcile" /\ Refuses /\ Refuse(w, Standing) /\ UNCHANGED faults
     \/ Goto(w, IF call[w].head = branch THEN "settle" ELSE "unknown") /\ UNCHANGED faults
  /\ UNCHANGED <<delivery, rows, gitlab, edits>>
-----------------------------------------------------------------------------
(* The merge, at the head that was asked for, then proved.                 *)

\* Mutant: the head is not sent with the merge.
PutAnyHead(w) ==
  /\ call[w].at = "put"
  /\ mrs[call[w].mr].state = "opened"
  /\ mrs' = [mrs EXCEPT ![call[w].mr].state = "merged", ![call[w].mr].mergedBy = "platform"]
  /\ Goto(w, "readmr")
  /\ UNCHANGED <<delivery, rows, branch, faults, edits>>

Put(w) ==
  /\ call[w].at = "put"
  /\ LET c == call[w]  mr == mrs[c.mr] IN
     \/ Call(w) /\ UNCHANGED mrs
     \/ /\ mr.state = "opened" /\ mr.head = c.key.head
        /\ mrs' = [mrs EXCEPT ![c.mr].state = "merged", ![c.mr].mergedBy = "platform"]
        /\ \/ Goto(w, "readmr") /\ UNCHANGED faults
           \/ Fault /\ Goto(w, "unknown")
     \/ /\ mr.state = "opened" /\ mr.head # c.key.head
        /\ Fails(w, "block", "HEAD_SHA_CHANGED") /\ UNCHANGED <<mrs, faults>>
     \/ /\ mr.state # "opened" \/ Refuses
        /\ Fails(w, "block", "MERGE_CONFLICT") /\ UNCHANGED <<mrs, faults>>
  /\ UNCHANGED <<delivery, rows, branch, edits>>

\* A merge request once merged stays as it is.
ReadMerged(w) ==
  /\ call[w].at = "readmr"
  /\ \/ Fault /\ Goto(w, "unknown")
     \/ /\ UNCHANGED faults
        /\ Moves(w, [call[w] EXCEPT !.at = "readbranch", !.got = "merged",
                                    !.head = mrs[call[w].mr].head])
  /\ UNCHANGED <<delivery, rows, gitlab, edits>>

ReadBranch(w) ==
  /\ call[w].at = "readbranch"
  /\ \/ Fault /\ Goto(w, "unknown")
     \/ /\ UNCHANGED faults
        /\ IF branch = call[w].key.head THEN Goto(w, "settle")
           ELSE Moves(w, [call[w] EXCEPT !.at = "block", !.fact = TRUE,
                  !.why = IF branch = Gone THEN "SOURCE_BRANCH_MISSING"
                          ELSE "HEAD_SHA_CHANGED"])
  /\ UNCHANGED <<delivery, rows, gitlab, edits>>
-----------------------------------------------------------------------------
(* Outcomes.  One transaction stores what was found, the effect's state    *)
(* and, for a request, that it is done; then the work item is told.        *)

\* Mutant: an outcome inherits the acknowledgement of the doubt before it.
FinishKeepsTold(w, state, why) == [Row(w) EXCEPT !.state = state, !.why = why]

Finish(w, state, why) ==
  [Row(w) EXCEPT !.state = state, !.why = why,
                 !.told = IF call[w].job = "request" THEN @ ELSE "PENDING"]

\* Is it still this worker's, and what it found storable?  A merge request is
\* bound once, and an observation stored once.
Owns(w) ==
  /\ Current(w)
  /\ call[w].job = "request" => Holds(w)
Storable(w) ==
  LET b == call[w].key.binding IN
  IF call[w].key.op = "CREATE" THEN call[w].mr \notin Bound
  ELSE News(b, call[w]) \/ /\ call[w].job = "reconcile"
                            /\ Last(bindings[b].facts) = Observed(call[w])
Stored(w) ==
  LET b == call[w].key.binding IN
  IF News(b, call[w]) THEN Observe(b, call[w]) ELSE UNCHANGED bindings

\* The new binding takes the place of the live one.
Bind(w) ==
  bindings' =
    Insert([b \in DOMAIN bindings |-> [bindings[b] EXCEPT !.live = FALSE]],
           call[w].key.binding,
           [iid |-> call[w].mr, head |-> call[w].head, live |-> TRUE,
            facts |-> <<Observed(call[w])>>])

Found(c) ==
  CASE c.key.op = "MERGE" \/ c.got = "opened" -> <<"SUCCEEDED", "NONE">>
    [] c.got = "closed" -> <<"BLOCKED", "MR_CLOSED">>
    [] OTHER -> <<"BLOCKED", "EXTERNAL_MERGE_DRIFT">>

After(w) == IF call[w].job = "request" THEN "tell" ELSE "context"

\* Mutant: the outcome is stored whoever owns the effect by now.
SettleUnfenced(w) ==
  /\ call[w].at = "settle"
  /\ LET out == Found(call[w]) IN
     /\ effects' = [effects EXCEPT ![call[w].key] = Finish(w, out[1], out[2])]
     /\ IF call[w].key.op = "CREATE" THEN Bind(w) ELSE Stored(w)
     /\ Moves(w, [call[w] EXCEPT !.at = After(w), !.state = out[1], !.why = out[2]])
  /\ IF call[w].job = "request" THEN Close(w) ELSE UNCHANGED requests
  /\ UNCHANGED <<delivery, gitlab, faults, edits>>

\* A request that cannot tell whether its commit was made looks again.
Settle(w) ==
  /\ call[w].at = "settle"
  /\ LET c == call[w]  out == Found(c) IN
     IF Owns(w) /\ Storable(w)
     THEN /\ effects' = [effects EXCEPT ![c.key] = Finish(w, out[1], out[2])]
          /\ IF c.key.op = "CREATE" THEN Bind(w) ELSE Stored(w)
          /\ IF c.job = "request" THEN Close(w) ELSE UNCHANGED requests
          /\ \/ Moves(w, [c EXCEPT !.at = After(w), !.state = out[1], !.why = out[2]])
                /\ UNCHANGED faults
             \/ c.job = "request" /\ Fault /\ Goto(w, "resolve")
     ELSE /\ IF c.job = "request" /\ (c.key.op = "MERGE" \/ ~Storable(w))
             THEN Goto(w, "resolve") ELSE Leave(w)
          /\ UNCHANGED <<effects, bindings, requests, faults>>
  /\ UNCHANGED <<delivery, gitlab, edits>>

Resolve(w) ==
  /\ call[w].at = "resolve"
  /\ LET c == call[w]
         kept == /\ Row(w).state \in Final /\ Mine(w).state = "PROCESSED"
                 /\ c.key.binding \in DOMAIN bindings
         single == c.key.op = "MERGE" => Cardinality(Own(c.msg)) = 1
     IN
     CASE single /\ kept ->
            Moves(w, [c EXCEPT !.at = "tell", !.state = Row(w).state, !.tries = Row(w).tries,
                               !.why = Row(w).why])
       [] single /\ Row(w).state = "IN_FLIGHT" /\ Holds(w) -> Goto(w, "unknown")
       [] OTHER -> Leave(w)
  /\ UNCHANGED <<delivery, rows, gitlab, faults, edits>>

Block(w) ==
  /\ call[w].at = "block"
  /\ LET c == call[w] IN
     IF Owns(w) /\ (c.fact => Storable(w))
     THEN /\ effects' = [effects EXCEPT ![c.key] = Finish(w, "BLOCKED", c.why)]
          /\ IF c.fact THEN Stored(w) ELSE UNCHANGED bindings
          /\ IF c.job = "request" THEN Close(w) ELSE UNCHANGED requests
          /\ Moves(w, [c EXCEPT !.at = After(w), !.state = "BLOCKED"])
     ELSE Leave(w) /\ UNCHANGED rows
  /\ UNCHANGED <<delivery, gitlab, faults, edits>>

\* An unknown outcome waits for the reconciler, and the work item is told so once.
Doubt(w) ==
  /\ call[w].at = "unknown"
  /\ LET c == call[w] IN
     IF Owns(w)
     THEN /\ effects' = [effects EXCEPT ![c.key].state = "UNKNOWN", ![c.key].due = FALSE]
          /\ IF c.job = "request"
             THEN Close(w) /\ Moves(w, [c EXCEPT !.at = "tell", !.state = "UNKNOWN"])
             ELSE Leave(w) /\ UNCHANGED requests
     ELSE Leave(w) /\ UNCHANGED <<effects, requests>>
  /\ UNCHANGED <<delivery, bindings, gitlab, faults, edits>>
-----------------------------------------------------------------------------
(* Telling the work item.                                                  *)

\* The reconciler tells it at the revision it has now.
ReadRevision(w) ==
  /\ call[w].at = "context"
  /\ \/ Moves(w, [call[w] EXCEPT !.at = "tell", !.rev = item.rev]) /\ UNCHANGED faults
     \/ Fault /\ Leave(w)
  /\ UNCHANGED <<delivery, rows, gitlab, edits>>

Replay(w) ==
  /\ call[w].at = "idle"
  /\ \E k \in DOMAIN effects :
       /\ effects[k].state \in Final /\ effects[k].told # "ACKED"
       /\ Moves(w, [IdleCall EXCEPT !.at = "context", !.job = "reconcile", !.key = k,
                      !.state = effects[k].state, !.tries = effects[k].tries,
                      !.why = effects[k].why])
  /\ UNCHANGED <<delivery, rows, gitlab, faults, edits>>

Telling(w) ==
  LET c == call[w]
      kind == CASE c.state = "SUCCEEDED" -> IF c.key.op = "CREATE" THEN "ready" ELSE "merged"
                [] c.state = "BLOCKED" ->
                     IF c.why = "EXTERNAL_MERGE_DRIFT" THEN "drift" ELSE "blocked"
                [] OTHER -> "pending"
      why == IF c.state = "BLOCKED" THEN c.why ELSE "NONE"
  IN
  [key |-> [about |-> c.key, msg |-> 0, why |-> why], kind |-> kind, why |-> why,
   binding |-> IF c.key.binding \in DOMAIN bindings /\ ~c.bare THEN c.key.binding
               ELSE NoBinding,
   rev |-> c.rev]

\* Under the lock of the effect's row; the work item's transaction is its own.
Tell(w) ==
  /\ call[w].at = "tell"
  /\ LET t == Telling(w)
         Note(told) == effects' = [effects EXCEPT ![call[w].key].told = told]
     IN
     IF Current(w) /\ Row(w).told # "ACKED"
     THEN \/ Accepts(t) /\ Record(t) /\ Note("ACKED") /\ UNCHANGED faults
          \/ Accepts(t) /\ Record(t) /\ Fault /\ UNCHANGED effects
          \/ ~Accepts(t) /\ Note("FAILED") /\ UNCHANGED <<delivery, faults>>
          \/ Fault /\ Note("FAILED") /\ UNCHANGED delivery
     ELSE UNCHANGED <<delivery, effects, faults>>
  /\ Leave(w)
  /\ UNCHANGED <<requests, bindings, gitlab, edits>>
-----------------------------------------------------------------------------
(* Leases, crashes, and what people do in GitLab.                          *)

\* A lease that passes under a working holder is one of the faults.
Expires(held) == IF held THEN Fault ELSE UNCHANGED faults

LapseRequest(m) ==
  /\ requests[m].state \in {"PROCESSING", "FAILED"} /\ ~requests[m].due
  /\ requests' = [requests EXCEPT ![m].due = TRUE]
  /\ Expires(\E w \in Workers : call[w].msg = m /\ Holds(w))
  /\ UNCHANGED <<delivery, effects, bindings, gitlab, call, edits>>

LapseEffect ==
  /\ \E k \in DOMAIN effects :
       /\ effects[k].state \in Unsettled /\ ~effects[k].due
       /\ effects' = [effects EXCEPT ![k].due = TRUE]
       /\ Expires(\E w \in Workers : call[w].key = k /\ Writing(w) /\ Current(w)
                                      /\ effects[k].state # "UNKNOWN")
  /\ UNCHANGED <<delivery, requests, bindings, gitlab, call, edits>>

Crash(w) ==
  /\ call[w].at # "idle" /\ Fault /\ Leave(w)
  /\ UNCHANGED <<delivery, rows, gitlab, edits>>

\* A push moves the open merge request with the branch.
Push ==
  /\ Edit
  /\ \E h \in Heads \ {0, branch} :
       /\ branch' = h
       /\ mrs' = [i \in DOMAIN mrs |->
                    IF mrs[i].state = "opened" THEN [mrs[i] EXCEPT !.head = h] ELSE mrs[i]]
  /\ UNCHANGED <<delivery, rows, call, faults>>

Person ==
  /\ Edit
  /\ \/ NewMergeRequest("people") /\ branch # 0
     \/ \E i \in DOMAIN mrs :
          /\ mrs[i].state = "opened"
          /\ \/ mrs' = [mrs EXCEPT ![i].state = "closed"]
             \/ mrs' = [mrs EXCEPT ![i].state = "merged", ![i].mergedBy = "people"]
  /\ UNCHANGED <<delivery, rows, branch, call, faults>>

\* Deleting the branch closes its open merge request.
DeleteBranch ==
  /\ Edit
  /\ branch # Gone /\ branch' = Gone
  /\ mrs' = [i \in DOMAIN mrs |->
               IF mrs[i].state = "opened" THEN [mrs[i] EXCEPT !.state = "closed"] ELSE mrs[i]]
  /\ UNCHANGED <<delivery, rows, call, faults>>

Asks ==
  /\ StartWorkItem \/ RequestMergeRequest \/ RequestMerge \/ Rework
  /\ UNCHANGED <<effects, bindings, gitlab, call, faults, edits>>

Relays(m) ==
  Relay(m) /\ UNCHANGED <<effects, bindings, gitlab, call, faults, edits>>

Work(w) ==
  \/ ReadFacts(w) \/ CloseSeen(w) \/ Reread(w) \/ Admit(w) \/ Mark(w) \/ Answer(w)
  \/ Release(w) \/ ReadSource(w) \/ Review(w) \/ ReadMergeRequest(w) \/ Prove(w)
  \/ Classify(w) \/ Plan(w) \/ Launch(w) \/ ReadLocal(w) \/ Renew(w) \/ ReadBound(w)
  \/ List(w) \/ Post(w) \/ GetMergeRequest(w) \/ GetBranch(w) \/ Put(w)
  \/ ReadMerged(w) \/ ReadBranch(w) \/ Settle(w) \/ Resolve(w) \/ Block(w) \/ Doubt(w)
  \/ ReadRevision(w) \/ Tell(w)

Next ==
  \/ \E w \in Workers :
       \/ Work(w) \/ TakeEffect(w) \/ Replay(w) \/ Crash(w)
       \/ \E m \in DOMAIN requests : TakeRequest(w, m)
  \/ \E m \in DOMAIN requests : Relays(m) \/ LapseRequest(m)
  \/ LapseEffect \/ Asks \/ Push \/ Person \/ DeleteBranch

Spec == Init /\ [][Next]_vars

\* A live worker goes on; leases pass; the commands are run again and again, so
\* that what is due finds a free worker some time.  Nobody need ask or edit.
Fairness ==
  /\ \A w \in Workers : WF_vars(Work(w))
  /\ \A m \in 1 .. MaxRequests :
       /\ WF_vars(m \in DOMAIN requests /\ (Relays(m) \/ LapseRequest(m)))
       /\ SF_vars(m \in DOMAIN requests /\ \E w \in Workers : TakeRequest(w, m))
  /\ WF_vars(LapseEffect)
  /\ SF_vars(\E w \in Workers : TakeEffect(w))
  /\ SF_vars(\E w \in Workers : Replay(w))

FairSpec == Spec /\ Fairness
-----------------------------------------------------------------------------
(* Properties.                                                             *)

\* A work item shown as integrated has a merge request that is merged at the
\* very head its merge effect was planned for (_merge_exact_head).
IntegratedIsProved ==
  item.delivery = "INTEGRATED" =>
    \E k \in DOMAIN effects :
      /\ k.op = "MERGE" /\ k.binding = item.binding /\ effects[k].state = "SUCCEEDED"
      /\ mrs[bindings[k.binding].iid].state = "merged"
      /\ mrs[bindings[k.binding].iid].head = k.head

\* A final outcome counts as told only when this outcome is what the work item
\* recorded, and not the doubt it was told before (complete_*_reconciliation
\* resets requirement_callback_state).
AckedIsTrue ==
  \A k \in DOMAIN effects :
    effects[k].state \in Final /\ effects[k].told = "ACKED" =>
      \E a \in answers :
        /\ a.key.about = k
        /\ IF effects[k].state = "SUCCEEDED" THEN a.kind \in {"ready", "merged"}
           ELSE a.kind \in {"blocked", "drift"} /\ a.why = effects[k].why

\* A request leaves the inbox only for an effect that answers for it, or when the
\* work item recorded why there is none.
NoRequestDropped ==
  \A m \in DOMAIN requests :
    requests[m].state = "PROCESSED" =>
      \/ \E k \in Own(m) : effects[k].state # "PLANNED"
      \/ \E a \in answers : a.key.msg = m /\ a.why = requests[m].why

\* The platform merges a merge request only at a head some effect was planned for,
\* however the branch is pushed to meanwhile.
MergedAtPlannedHead ==
  [][\A i \in DOMAIN mrs :
       mrs[i].mergedBy = "nobody" /\ mrs'[i].mergedBy = "platform" =>
         \E k \in DOMAIN effects :
           /\ k.op = "MERGE" /\ k.head = mrs[i].head /\ bindings[k.binding].iid = i]_vars

\* Once the merge of a merge request was asked for, nothing said of its creation is
\* counted any more, however late or often it is said.
CreationIsOver ==
  [][\A t \in answers' \ answers :
       t.key.about.op = "CREATE" =>
         \A m \in DOMAIN requests : requests[m].kind = "MERGE" => requests[m].binding # t.binding]_vars

\* The delivery keeps its contract.
Phase ==
  CASE item.delivery \in {"NOT_STARTED", "IMPLEMENTING"} -> "work"
    [] item.delivery = "MR_PENDING"    -> "asked"
    [] item.delivery = "MR_OPEN"       -> "open"
    [] item.delivery = "MERGE_PENDING" -> "merging"
    [] item.delivery = "INTEGRATED"    -> "integrated"
    [] OTHER -> "held"
Wanted == {requests[m].binding : m \in {n \in DOMAIN requests : requests[n].kind = "MERGE"}}
MergedBy(who) == {b \in DOMAIN bindings : mrs[bindings[b].iid].mergedBy \in who}

Contract ==
  INSTANCE DeliveryContract WITH
    Bindings <- Heads, None <- NoBinding, phase <- Phase, subject <- item.binding,
    proposed <- DOMAIN bindings, wanted <- Wanted,
    landed <- MergedBy({"platform"}), merged <- MergedBy({"platform", "people"})

ImplementsDeliveryContract == Contract!Spec

\* In the end every effect is decided, but one whose branch is gone or holds an open
\* merge request that is bound already: GitLab then creates no other.
Stuck(k) ==
  k.op = "CREATE" /\ (branch = Gone \/ \E i \in Bound : mrs[i].state = "opened")
EffectsSettle ==
  <>[](\A k \in DOMAIN effects : effects[k].state \in Unsettled => Stuck(k))

\* In the end every request the work item still waits for has left the inbox.
RequestsEnd ==
  <>[](\A m \in DOMAIN requests : requests[m].state = "PROCESSED" \/ ~Asked(requests[m]))
=============================================================================
