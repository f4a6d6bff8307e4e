---------------------- MODULE IntegrationDeliveryProofs ----------------------
(***************************************************************************)
(* An integration delivery, for any number of workers, requests, heads,    *)
(* faults and edits: the rows agree, what the work item shows was merged   *)
(* at the planned head, and the delivery keeps its contract.               *)
(***************************************************************************)
EXTENDS IntegrationDelivery, FiniteSetTheorems, TLAPS

\* Merged for good, at this head.
Merged(i, head) == mrs[i].state = "merged" /\ mrs[i].head = head

\* The work item was told of the creation of this binding.
Creation(b) == Key("CREATE", b, b)
Opened(b) ==
  /\ Creation(b) \in DOMAIN effects /\ effects[Creation(b)].state = "SUCCEEDED"
  /\ \E a \in answers :
       a.key = [about |-> Creation(b), msg |-> 0, why |-> "NONE"] /\ a.kind = "ready"

\* An effect belongs to the request it was planned for; what it found is stored.
Belongs(k, r) ==
  /\ r.kind = k.op
  /\ k.op = "MERGE" => k.binding = r.binding
  /\ k.op = "CREATE" => k.binding = k.head
EffectFits(k) ==
  LET e == effects[k] IN
  /\ e.by \in DOMAIN requests /\ Belongs(k, requests[e.by])
  /\ e.state = "PLANNED" => e.why = "NONE"
  /\ e.told # "PENDING" /\ e.state \in {"PLANNED", "IN_FLIGHT"} =>
       requests[e.by].state = "PROCESSED"
  /\ e.state = "SUCCEEDED" =>
       /\ k.op = "CREATE" => k.binding \in DOMAIN bindings
       /\ k.op = "MERGE" => Merged(bindings[k.binding].iid, k.head)
EffectsFit ==
  IsFiniteSet(DOMAIN effects) /\ \A k \in DOMAIN effects : EffectFits(k)

\* A binding comes of an effect that is over, and has a merge request of its own.
BindingsFit ==
  /\ \A b \in DOMAIN bindings :
       /\ Creation(b) \in DOMAIN effects /\ effects[Creation(b)].state \in Final
       /\ bindings[b].iid \in DOMAIN mrs
  /\ \A a, b \in DOMAIN bindings : bindings[a].iid = bindings[b].iid => a = b

\* The platform merges only what is bound.
MergesFit ==
  \A i \in DOMAIN mrs :
    /\ mrs[i].state = "merged" <=> mrs[i].mergedBy # "nobody"
    /\ mrs[i].mergedBy = "platform" => i \in Bound

\* A merge is requested of a binding whose creation the work item was told of.
ItemFits ==
  /\ item.binding \in DOMAIN bindings \cup {NoBinding}
  /\ item.delivery = "MR_OPEN" /\ item.binding # NoBinding => Opened(item.binding)
RequestsFit ==
  \A m \in DOMAIN requests :
    /\ requests[m].binding \in DOMAIN bindings \cup {NoBinding}
    /\ requests[m].kind = "MERGE" =>
         requests[m].binding \in DOMAIN bindings /\ Opened(requests[m].binding)

Rows ==
  /\ EffectsFit /\ BindingsFit /\ MergesFit /\ ItemFits /\ RequestsFit
  /\ IntegratedIsProved /\ AckedIsTrue /\ NoRequestDropped
-----------------------------------------------------------------------------
(* What the locals of a worker promise of the rows.                        *)

\* Whose job it is.
Jobs(c) ==
  /\ c.at # "idle" => c.job # "none"
  /\ c.job = "request" => c.msg \in DOMAIN requests
  /\ c.at \in {"facts", "close", "reread", "admit", "mark", "answer", "release", "review",
               "classify", "plan", "start", "bound", "resolve"} => c.job = "request"
  /\ c.at \in {"local", "renew", "context"} => c.job = "reconcile"
  /\ c.at \in {"facts", "admit"} /\ c.why # "NONE" => requests[c.msg].kind = "MERGE"
  /\ c.at \in {"prove", "classify"} /\ c.job = "request" => requests[c.msg].kind = "MERGE"
  /\ c.at = "review" => requests[c.msg].kind = "CREATE"
  /\ c.at \in {"tell", "reread"} /\ c.job = "request" =>
       requests[c.msg].state = "PROCESSED"

\* Which effect it is about.
Its(c) == c.key \in DOMAIN effects /\ effects[c.key].by = c.msg
Subject(c) ==
  /\ c.job = "request" =>
       /\ c.at \in {"close", "reread", "start", "bound", "list", "post", "getmr",
                    "getbranch", "put", "readmr", "readbranch", "settle", "block",
                    "unknown", "resolve", "tell"} => Its(c)
       /\ c.at \in {"admit", "survey", "review", "prove", "classify"} =>
            c.key = NoKey \/ Its(c)
       /\ c.at = "facts" => c.key = NoKey
       /\ c.at = "plan" => c.key \in Keys /\ Belongs(c.key, requests[c.msg])
  /\ c.job = "reconcile" => c.key \in DOMAIN effects
  /\ c.at \in {"close", "reread"} => effects[c.key].state # "PLANNED"
  /\ c.at \in {"bound", "list", "post", "getmr", "getbranch"} => c.key.op = "CREATE"
  /\ c.at \in {"put", "readmr", "readbranch"} => c.key.op = "MERGE"
  /\ c.at \in {"survey", "prove"} /\ c.job = "reconcile" => c.key.op = "MERGE"

\* In which state it left the effect.
Leaves(c) ==
  /\ c.job # "reconcile" =>
       /\ c.at \in {"idle", "facts", "admit", "mark", "answer", "release", "survey",
                    "review", "prove", "classify", "plan", "start"} =>
            c.state \in {"NONE", "PLANNED"}
       /\ c.at \in {"bound", "list", "post", "getmr", "getbranch", "put", "readmr",
                    "readbranch", "settle", "unknown", "resolve"} => c.state = "IN_FLIGHT"
       /\ c.at = "block" => c.state \in {"NONE", "PLANNED", "IN_FLIGHT"}
  /\ c.job = "reconcile" =>
       IF c.at \in {"context", "tell"} THEN c.state \in Final
       ELSE c.state = "RECONCILIATION"
  /\ c.state \in Final =>
       /\ c.key \in DOMAIN effects
       /\ effects[c.key].state = c.state /\ effects[c.key].why = c.why

\* What it saw in GitLab.
Target(c) == IF c.job = "request" THEN requests[c.msg].binding ELSE c.key.binding
Sees(c) ==
  /\ c.at \in {"prove", "classify", "getbranch", "readbranch", "settle"} =>
       c.got \in MergeStates
  /\ c.at \in {"prove", "classify"} => c.mr = bindings[Target(c)].iid
  /\ c.at = "prove" /\ c.got = "merged" => Merged(c.mr, c.head)
  /\ c.at \in {"plan", "start", "renew", "put", "readmr", "readbranch", "settle"}
       /\ c.key.op = "MERGE" => c.mr = bindings[c.key.binding].iid
  /\ c.at \in {"readmr", "readbranch", "settle"} /\ c.key.op = "MERGE" =>
       Merged(c.mr, c.key.head)
  /\ c.at \in {"getmr", "getbranch", "settle"} => c.mr \in DOMAIN mrs

\* What it will store with the outcome, and to whom it tells it.
Stores(c) ==
  /\ c.fact =>
       /\ c.at \in {"mark", "answer", "block", "tell", "context"}
       /\ c.at \in {"mark", "block"} => c.got \in MergeStates
       /\ c.at = "mark" => requests[c.msg].kind = "MERGE"
       /\ c.at = "block" => c.key.op = "MERGE"
  /\ c.bare =>
       /\ c.job = "reconcile" /\ c.at \in {"block", "context", "tell"}
       /\ c.at # "block" => c.state = "BLOCKED"

Fits(c) == Jobs(c) /\ Subject(c) /\ Leaves(c) /\ Sees(c) /\ Stores(c)
CallsFit == \A w \in Workers : Fits(call[w])

\* No two workers hold the same attempt of a request, and the refusal its holder is
\* about to tell is the one that is stored.
Leased ==
  \A v, w \in Workers :
    v # w /\ call[v].job = "request" /\ call[w].job = "request"
      /\ call[v].msg = call[w].msg => call[v].mtries # call[w].mtries
Refusing == \A w \in Workers : call[w].at = "answer" /\ Holds(w) => Mine(w).why = call[w].why

Inv == TypeOK /\ Rows /\ CallsFit /\ Leased /\ Refusing
-----------------------------------------------------------------------------
(* Edits of the rows keep their types.                                     *)

\* One worker moves at a time: the locals of w become d, the others stay.
Moved(w, d) ==
  /\ call' \in [Workers -> Calls]
  /\ \A v \in Workers \ {w} : call'[v] = call[v]
  /\ call'[w] = d

\* A row of a table of the database is replaced by one of its type.
LEMMA RowTyped ==
  ASSUME NEW S, NEW s \in Seq(S), NEW m \in DOMAIN s, NEW x \in S
  PROVE  /\ [s EXCEPT ![m] = x] \in Seq(S)
         /\ DOMAIN [s EXCEPT ![m] = x] = DOMAIN s
         /\ [s EXCEPT ![m] = x][m] = x
         /\ \A n \in DOMAIN s : n # m => [s EXCEPT ![m] = x][n] = s[n]
  OBVIOUS

\* A row that is added comes last.
LEMMA AddTyped ==
  ASSUME NEW S, NEW s \in Seq(S), NEW x \in S
  PROVE  /\ Append(s, x) \in Seq(S)
         /\ DOMAIN Append(s, x) = DOMAIN s \cup {Len(s) + 1}
         /\ Len(s) + 1 \notin DOMAIN s
         /\ Append(s, x)[Len(s) + 1] = x
         /\ \A n \in DOMAIN s : Append(s, x)[n] = s[n]
  OBVIOUS

LEMMA MovesTyped ==
  ASSUME call \in [Workers -> Calls], NEW w \in Workers, NEW d \in Calls, Moves(w, d)
  PROVE  Moved(w, d)
  BY DEF Moves, Moved

LEMMA IdleTyped == IdleCall \in Calls
  BY DeliveryAssumption DEF IdleCall, Calls, Places, NoKey, Key

\* Locals stay locals when a command goes to another place, and keep the rest.
LEMMA GotoTyped ==
  ASSUME NEW c \in Calls, NEW at \in Places
  PROVE  [c EXCEPT !.at = at] \in Calls
  BY DEF Calls

LEMMA FailsTyped ==
  ASSUME NEW c \in Calls, NEW at \in Places, NEW why \in Reasons \cup {"NONE"}
  PROVE  [c EXCEPT !.at = at, !.why = why] \in Calls
  BY DEF Calls

\* A worker goes to store what it found.
LEMMA FactTyped ==
  ASSUME NEW c \in Calls, NEW at \in Places, NEW why \in Reasons
  PROVE  [c EXCEPT !.at = at, !.fact = TRUE, !.why = why] \in Calls
  BY DEF Calls

\* A worker takes a request or an effect.
LEMMA TakenTyped ==
  ASSUME NEW m \in Nat, NEW tries \in Nat
  PROVE  /\ \A rev \in Nat :
              [IdleCall EXCEPT !.at = "facts", !.job = "request", !.msg = m,
                               !.mtries = tries, !.rev = rev] \in Calls
         /\ \A k \in Keys :
              [IdleCall EXCEPT !.at = "local", !.job = "reconcile", !.key = k,
                               !.state = "RECONCILIATION", !.tries = tries] \in Calls
<1>1. ASSUME NEW rev \in Nat
      PROVE  [IdleCall EXCEPT !.at = "facts", !.job = "request", !.msg = m,
                              !.mtries = tries, !.rev = rev] \in Calls
  BY DeliveryAssumption DEF IdleCall, Calls, Places
<1>2. ASSUME NEW k \in Keys
      PROVE  [IdleCall EXCEPT !.at = "local", !.job = "reconcile", !.key = k,
                              !.state = "RECONCILIATION", !.tries = tries] \in Calls
  BY DeliveryAssumption DEF IdleCall, Calls, Places, Unsettled
<1> QED BY <1>1, <1>2

\* A read of GitLab fills in what it saw.
LEMMA SeesTyped ==
  ASSUME NEW c \in Calls, NEW at \in Places, NEW got \in MergeStates, NEW head \in Heads
  PROVE  /\ \A mr \in Nat :
              [c EXCEPT !.at = at, !.mr = mr, !.got = got, !.head = head] \in Calls
         /\ \A fact \in BOOLEAN :
              [c EXCEPT !.at = at, !.fact = fact, !.got = got, !.head = head] \in Calls
         /\ [c EXCEPT !.at = at, !.got = got, !.head = head] \in Calls
  BY DEF Calls

\* There is always a lease nobody holds (the counters of claim_delivery_request and
\* claim_effects only grow; Fresh picks the least free number).
LEMMA FreshIsFree ==
  ASSUME NEW U \in SUBSET Workers, NEW f \in [U -> Nat]
  PROVE  /\ Fresh({f[v] : v \in U}) \in Nat
         /\ Fresh({f[v] : v \in U}) \notin {f[v] : v \in U}
<1> DEFINE used == {f[v] : v \in U}
           n == Cardinality(used)
<1>1. IsFiniteSet(U)
  BY IntegrationAssumption, FS_Subset
<1>2. f \in Surjection(U, used)
  BY DEF Surjection
<1>3. IsFiniteSet(used)
  BY <1>1, <1>2, FS_Surjection
<1>4. n \in Nat
  BY <1>3, FS_CardinalityType
<1> HIDE DEF used
<1>5. IsFiniteSet(1 .. n + 1) /\ Cardinality(1 .. n + 1) = n + 1
  BY <1>4, FS_Interval
<1> HIDE DEF n
<1>6. \E x \in 1 .. n + 1 : x \notin used
  <2>1. SUFFICES ASSUME 1 .. n + 1 \in SUBSET used PROVE FALSE
    OBVIOUS
  <2>2. Cardinality(1 .. n + 1) <= Cardinality(used)
    BY <1>3, <2>1, FS_Subset
  <2> QED BY <1>4, <1>5, <2>2 DEF n
<1>7. Fresh(used) \in 1 .. n + 1 /\ Fresh(used) \notin used
  BY <1>6 DEF Fresh, n
<1>8. Fresh(used) \in Nat /\ Fresh(used) \notin used
  BY <1>4, <1>7
<1> QED BY <1>8, Zenon DEF used
-----------------------------------------------------------------------------
(* What a step of one worker leaves to the others.                         *)

\* The facts the others rely on only ever grow.
Onward ==
  /\ \A k \in DOMAIN effects :
       /\ k \in DOMAIN effects' /\ effects'[k].by = effects[k].by
       /\ effects[k].state # "PLANNED" => effects'[k].state # "PLANNED"
       /\ effects[k].state \in Final =>
            effects'[k].state = effects[k].state /\ effects'[k].why = effects[k].why
  /\ \A b \in DOMAIN bindings : b \in DOMAIN bindings' /\ bindings'[b].iid = bindings[b].iid
  /\ \A i \in DOMAIN mrs :
       /\ i \in DOMAIN mrs'
       /\ mrs[i].state = "merged" =>
            mrs'[i].state = "merged" /\ mrs'[i].head = mrs[i].head
  /\ \A m \in DOMAIN requests :
       /\ m \in DOMAIN requests' /\ requests'[m].kind = requests[m].kind
       /\ requests'[m].binding = requests[m].binding
       /\ requests[m].state = "PROCESSED" => requests'[m].state = "PROCESSED"
  /\ answers \subseteq answers'

\* A merge request that is bound to what a command is about, is there.
Stand ==
  /\ DOMAIN effects \subseteq Keys
  /\ \A k \in DOMAIN effects :
       /\ effects[k].by \in DOMAIN requests /\ Belongs(k, requests[effects[k].by])
  /\ \A m \in DOMAIN requests :
       requests[m].kind = "MERGE" => requests[m].binding \in DOMAIN bindings
  /\ \A b \in DOMAIN bindings : bindings[b].iid \in DOMAIN mrs

LEMMA RowsStand == ASSUME Inv PROVE Stand
  BY DEF Inv, Rows, Stand, TypeOK, EffectsFit, EffectFits, RequestsFit, BindingsFit

\* What the locals of a worker say of the rows does not expire while others commit.
LEMMA Undisturbed ==
  ASSUME Stand, Onward, NEW v \in Workers, call[v] \in Calls, call'[v] = call[v],
         Fits(call[v])
  PROVE  Fits(call[v])'
<1>1. Jobs(call[v])'
  BY DEF Fits, Jobs, Onward
<1>2. call[v].key \in DOMAIN effects =>
        /\ call[v].key \in DOMAIN effects'
        /\ effects'[call[v].key].by = effects[call[v].key].by
        /\ effects[call[v].key].state # "PLANNED" => effects'[call[v].key].state # "PLANNED"
  BY DEF Onward
<1>3. Subject(call[v])'
  <2>1. call[v].at = "plan" =>
          /\ requests'[call[v].msg].kind = requests[call[v].msg].kind
          /\ requests'[call[v].msg].binding = requests[call[v].msg].binding
    BY DEF Fits, Jobs, Onward
  <2> QED BY <1>2, <2>1 DEF Fits, Jobs, Subject, Its, Belongs
<1>4. Leaves(call[v])'
  BY DEF Fits, Leaves, Onward
<1>5. Sees(call[v])'
  <2>1. ASSUME call[v].key \in DOMAIN effects, call[v].key.op = "MERGE"
        PROVE  call[v].key.binding \in DOMAIN bindings
    BY <2>1 DEF Stand, Belongs
  <2>2. ASSUME call[v].at \in {"prove", "classify"}
        PROVE  /\ Target(call[v])' = Target(call[v])
               /\ Target(call[v]) \in DOMAIN bindings
    <3>1. CASE call[v].job = "request"
      BY <2>2, <3>1 DEF Fits, Jobs, Target, Stand, Onward
    <3>2. CASE call[v].job = "reconcile"
      BY <2>1, <2>2, <3>2 DEF Fits, Jobs, Subject, Target
    <3> QED BY <2>2, <3>1, <3>2 DEF Fits, Jobs, Calls
  <2>3. ASSUME call[v].at \in {"plan", "start", "renew", "put", "readmr", "readbranch", "settle"},
               call[v].key.op = "MERGE"
        PROVE  call[v].key.binding \in DOMAIN bindings
    <3>1. CASE call[v].at = "plan"
      BY <2>3, <3>1 DEF Fits, Jobs, Subject, Stand, Belongs
    <3>2. CASE call[v].at # "plan"
      BY <2>1, <2>3, <3>2 DEF Fits, Jobs, Subject, Its, Calls
    <3> QED BY <3>1, <3>2
  <2>4. call[v].at \in {"prove", "classify"} => call'[v].mr = bindings'[Target(call[v])'].iid
    BY <2>2 DEF Fits, Sees, Onward
  <2>5. \A b \in DOMAIN bindings :
          /\ bindings'[b].iid = bindings[b].iid
          /\ bindings[b].iid \in DOMAIN mrs
    BY DEF Onward, Stand
  <2>6. \A i \in DOMAIN mrs : mrs[i].state = "merged" =>
          mrs'[i].state = "merged" /\ mrs'[i].head = mrs[i].head
    BY DEF Onward
  <2>7. call[v].at \in {"getmr", "getbranch", "settle"} => call'[v].mr \in DOMAIN mrs'
    BY DEF Fits, Sees, Onward
  <2>8. call[v].at = "prove" /\ call[v].got = "merged" => Merged(call[v].mr, call[v].head)'
    BY <2>2, <2>5, <2>6 DEF Fits, Sees, Merged
  <2>9. call[v].at \in {"readmr", "readbranch", "settle"} /\ call[v].key.op = "MERGE" =>
          Merged(call[v].mr, call[v].key.head)'
    BY <2>3, <2>5, <2>6 DEF Fits, Sees, Merged
  <2>10. call[v].at \in {"plan", "start", "renew", "put", "readmr", "readbranch", "settle"}
           /\ call[v].key.op = "MERGE" => call'[v].mr = bindings'[call[v].key.binding].iid
    BY <2>3, <2>5 DEF Fits, Sees
  <2> QED BY <2>4, <2>7, <2>8, <2>9, <2>10 DEF Fits, Sees
<1>6. Stores(call[v])'
  BY DEF Fits, Jobs, Stores, Onward
<1> QED BY <1>1, <1>3, <1>4, <1>5, <1>6 DEF Fits

\* All workers fit when the one that moved does.
LEMMA OthersFit ==
  ASSUME Inv, Onward, NEW w \in Workers,
         \A v \in Workers \ {w} : call'[v] = call[v], Fits(call[w])'
  PROVE  CallsFit'
<1> SUFFICES ASSUME NEW v \in Workers PROVE Fits(call[v])'
  BY DEF CallsFit
<1>1. CASE v = w
  BY <1>1
<1>2. CASE v # w
  BY <1>2, Undisturbed, RowsStand DEF Inv, TypeOK, CallsFit
<1> QED BY <1>1, <1>2

\* Nobody that moved, when the rows changed by themselves or by hand.
LEMMA AllFit ==
  ASSUME Inv, Onward, UNCHANGED call
  PROVE  CallsFit' /\ Leased'
<1>1. ASSUME NEW v \in Workers PROVE Fits(call[v])'
  BY Undisturbed, RowsStand DEF Inv, TypeOK, CallsFit
<1> QED BY <1>1 DEF CallsFit, Inv, Leased

\* A worker goes on with the request it has, or with none.
Keeps(w, d) ==
  d.job = "request" =>
    call[w].job = "request" /\ d.msg = call[w].msg /\ d.mtries = call[w].mtries

LEMMA LeasesKept ==
  ASSUME Leased, NEW w \in Workers, NEW d, Moved(w, d), Keeps(w, d)
  PROVE  Leased'
  BY DEF Leased, Moved, Keeps

\* No request is taken, and none that is being handled is refused.
Steady ==
  \A m \in DOMAIN requests :
    requests'[m].state = "PROCESSING" =>
      /\ requests[m].state = "PROCESSING" /\ requests'[m].tries = requests[m].tries
      /\ requests'[m].why = requests[m].why

LEMMA RefusalsKept ==
  ASSUME Inv, Steady, NEW w \in Workers, \A v \in Workers \ {w} : call'[v] = call[v],
         call'[w].at = "answer" => ~Holds(w)' \/ Mine(w)'.why = call'[w].why
  PROVE  Refusing'
<1> SUFFICES ASSUME NEW v \in Workers, v # w, call[v].at = "answer", Holds(v)'
             PROVE  Mine(v)'.why = call[v].why
  BY DEF Refusing
<1>1. call[v].msg \in DOMAIN requests
  BY DEF Inv, CallsFit, Fits, Jobs
<1> QED BY <1>1 DEF Inv, Refusing, Holds, Mine, Steady

LEMMA RefusalsStay ==
  ASSUME Inv, Steady, UNCHANGED call
  PROVE  Refusing'
<1> SUFFICES ASSUME NEW v \in Workers, call[v].at = "answer", Holds(v)'
             PROVE  Mine(v)'.why = call[v].why
  BY DEF Refusing
<1>1. call[v].msg \in DOMAIN requests
  BY DEF Inv, CallsFit, Fits, Jobs
<1> QED BY <1>1 DEF Inv, Refusing, Holds, Mine, Steady

\* Nothing changes but the locals of a worker.
Quiet == UNCHANGED <<delivery, rows, gitlab>>

LEMMA RowsQuiet == ASSUME Rows, Quiet PROVE Rows'
<1> USE DEF Quiet, delivery, rows, gitlab
<1>1. EffectsFit' /\ BindingsFit' /\ MergesFit'
  BY DEF Rows, EffectsFit, EffectFits, Merged, BindingsFit, MergesFit, Bound
<1>2. ItemFits' /\ RequestsFit'
  BY DEF Rows, ItemFits, RequestsFit, Opened
<1>3. IntegratedIsProved' /\ AckedIsTrue' /\ NoRequestDropped'
  BY DEF Rows, IntegratedIsProved, AckedIsTrue, NoRequestDropped, Own
<1> QED BY <1>1, <1>2, <1>3 DEF Rows

LEMMA QuietOnward == ASSUME Quiet PROVE Onward /\ Steady
  BY DEF Quiet, Onward, Steady, delivery, rows, gitlab

LEMMA FitsQuiet ==
  ASSUME Quiet, NEW w \in Workers, NEW d, call'[w] = d, Fits(d)
  PROVE  Fits(call[w])'
<1> USE DEF Quiet, delivery, rows, gitlab
<1>1. Jobs(call[w])' /\ Subject(call[w])'
  BY DEF Fits, Jobs, Subject, Its
<1>2. Leaves(call[w])' /\ Sees(call[w])' /\ Stores(call[w])'
  BY DEF Fits, Leaves, Sees, Target, Merged, Stores
<1> QED BY <1>1, <1>2 DEF Fits

\* A fault is counted.
LEMMA FaultTyped == ASSUME TypeOK, Fault \/ UNCHANGED faults PROVE faults' \in Nat
  BY DEF TypeOK, Fault

\* A step that reads and goes on keeps the invariant when its worker fits.
LEMMA ReadStep ==
  ASSUME Inv, Quiet, UNCHANGED edits, Fault \/ UNCHANGED faults,
         NEW w \in Workers, NEW d \in Calls, Moves(w, d), Fits(d), Keeps(w, d),
         d.at = "answer" => Mine(w).why = d.why /\ d.msg = call[w].msg
  PROVE  Inv'
<1>1. Moved(w, d)
  BY MovesTyped DEF Inv, TypeOK
<1>2. Onward /\ Steady
  BY QuietOnward
<1>3. Fits(call[w])'
  BY <1>1, FitsQuiet DEF Moved
<1>4. CallsFit'
  BY <1>1, <1>2, <1>3, OthersFit DEF Moved
<1>5. Leased'
  BY <1>1, LeasesKept DEF Inv
<1>6. call'[w].at = "answer" => Mine(w)'.why = call'[w].why
  BY <1>1 DEF Moved, Mine, Quiet, rows
<1>7. Refusing'
  BY <1>1, <1>2, <1>6, RefusalsKept DEF Moved
<1>8. Rows'
  BY RowsQuiet DEF Inv
<1>9. TypeOK'
  BY <1>1, FaultTyped DEF Inv, TypeOK, Quiet, delivery, rows, gitlab, Moved
<1> QED BY <1>4, <1>5, <1>7, <1>8, <1>9 DEF Inv

\* A worker that returns or is unwound claims nothing.
LEMMA IdleFits == Fits(IdleCall)
  BY DEF IdleCall, Fits, Jobs, Subject, Leaves, Sees, Stores, Final

LEMMA LeaveStep ==
  ASSUME Inv, Quiet, UNCHANGED edits, Fault \/ UNCHANGED faults,
         NEW w \in Workers, Leave(w)
  PROVE  Inv'
<1>1. Keeps(w, IdleCall) /\ IdleCall.at # "answer"
  BY DEF Keeps, IdleCall
<1> QED BY <1>1, IdleTyped, IdleFits, ReadStep DEF Leave
-----------------------------------------------------------------------------
(* Reads and calls that fail.                                              *)

\* A command goes on to another place.
LEMMA GotoStep ==
  ASSUME Inv, Quiet, UNCHANGED edits, Fault \/ UNCHANGED faults, NEW w \in Workers,
         NEW at \in Places \ {"answer"}, Goto(w, at), Fits([call[w] EXCEPT !.at = at])
  PROVE  Inv'
<1> DEFINE d == [call[w] EXCEPT !.at = at]
<1>1. call[w] \in Calls
  BY DEF Inv, TypeOK
<1>2. d \in Calls /\ d.at # "answer" /\ Keeps(w, d)
  BY <1>1, GotoTyped DEF Keeps, Calls
<1>3. Moves(w, d)
  BY DEF Goto
<1> QED BY <1>2, <1>3, ReadStep

\* A command ends with a reason.
LEMMA FailsStep ==
  ASSUME Inv, Quiet, UNCHANGED edits, Fault \/ UNCHANGED faults, NEW w \in Workers,
         NEW at \in Places, NEW why \in Reasons \cup {"NONE"}, Fails(w, at, why),
         Fits([call[w] EXCEPT !.at = at, !.why = why]),
         at = "answer" => Mine(w).why = why
  PROVE  Inv'
<1> DEFINE d == [call[w] EXCEPT !.at = at, !.why = why]
<1>1. call[w] \in Calls
  BY DEF Inv, TypeOK
<1>2. d \in Calls /\ d.at = at /\ d.why = why /\ d.msg = call[w].msg /\ Keeps(w, d)
  BY <1>1, FailsTyped DEF Keeps, Calls
<1>3. Moves(w, d)
  BY DEF Fails
<1> HIDE DEF d
<1> QED BY <1>2, <1>3, ReadStep DEF d

\* Where a call of GitLab may fail or be denied.
CallPlaces == {"survey", "prove", "list", "post", "getmr", "getbranch", "put"}

\* A retry or a refusal, before or after an effect is in flight
\* (_release_pre_effect_transient, _mark_unknown, _complete_effect_block).
LEMMA RetryFits ==
  ASSUME Inv, NEW w \in Workers,
         call[w].at \in CallPlaces \/ call[w].at \in {"readmr", "readbranch"}
  PROVE  /\ Writing(w) => Fits([call[w] EXCEPT !.at = "unknown"])
         /\ ~Writing(w) => Fits([call[w] EXCEPT !.at = "release"])
         /\ \A why \in Reasons :
              /\ Writing(w) => Fits([call[w] EXCEPT !.at = "block", !.why = why])
              /\ ~Writing(w) => Fits([call[w] EXCEPT !.at = "mark", !.why = why])
<1>1. call[w] \in Calls /\ Fits(call[w])
  BY DEF Inv, TypeOK, CallsFit
<1> DEFINE Same(d) ==
       /\ d \in Calls /\ d.job = call[w].job /\ d.msg = call[w].msg /\ d.key = call[w].key
       /\ d.state = call[w].state /\ d.fact = call[w].fact /\ d.bare = call[w].bare
<1>2. /\ \A at \in Places :
           LET d == [call[w] EXCEPT !.at = at] IN Same(d) /\ d.at = at
      /\ \A at \in Places, why \in Reasons :
           LET d == [call[w] EXCEPT !.at = at, !.why = why] IN Same(d) /\ d.at = at
  <2>1. ASSUME NEW at \in Places
        PROVE  LET d == [call[w] EXCEPT !.at = at] IN Same(d) /\ d.at = at
    BY <1>1 DEF Calls
  <2>2. ASSUME NEW at \in Places, NEW why \in Reasons
        PROVE  LET d == [call[w] EXCEPT !.at = at, !.why = why] IN Same(d) /\ d.at = at
    BY <1>1 DEF Calls
  <2> QED BY <2>1, <2>2
<1>3. ASSUME Writing(w), NEW d, Same(d), d.at \in {"unknown", "block"}
      PROVE  Fits(d)
  BY <1>1, <1>3
  DEF Writing, Fits, Jobs, Subject, Its, Leaves, Sees, Stores, Unsettled, Final, CallPlaces
<1>4. ASSUME ~Writing(w), NEW d, Same(d), d.at \in {"release", "mark"}
      PROVE  Fits(d)
  BY <1>1, <1>4
  DEF Writing, Fits, Jobs, Subject, Its, Leaves, Sees, Stores, Unsettled, Final, CallPlaces,
      Calls
<1> HIDE DEF Same
<1>5. {"unknown", "block", "release", "mark"} \subseteq Places
  BY DEF Places
<1> QED BY <1>2, <1>3, <1>4, <1>5

LEMMA RefuseStep ==
  ASSUME Inv, Quiet, UNCHANGED edits, UNCHANGED faults, NEW w \in Workers,
         call[w].at \in CallPlaces, NEW why \in Reasons, Refuse(w, why)
  PROVE  Inv'
  BY RetryFits, FailsStep DEF Refuse, Places

LEMMA CallStep ==
  ASSUME Inv, Quiet, UNCHANGED edits, NEW w \in Workers,
         call[w].at \in CallPlaces, Call(w)
  PROVE  Inv'
<1>1. CASE Fault /\ Retry(w)
  BY <1>1, RetryFits, GotoStep DEF Retry, Places
<1>2. CASE Refuses /\ Refuse(w, Standing) /\ UNCHANGED faults
  BY <1>2, RefuseStep DEF Standing, Reasons
<1> QED BY <1>1, <1>2 DEF Call

LEMMA CrashStep == ASSUME Inv, NEW w \in Workers, Crash(w) PROVE Inv'
  BY LeaveStep DEF Crash, Quiet
-----------------------------------------------------------------------------
(* Reads of what is stored.                                                *)

\* The effect planned for a request, where there is one, is one of its own.
LEMMA TheOneIsOwn ==
  ASSUME Inv, NEW m, Own(m) # {}, ~(Cardinality(Own(m)) > 1)
  PROVE  TheOne(Own(m)) \in DOMAIN effects /\ effects[TheOne(Own(m))].by = m
<1>1. IsFiniteSet(DOMAIN effects) /\ Own(m) \in SUBSET DOMAIN effects
  BY DEF Inv, Rows, EffectsFit, Own
<1>2. IsFiniteSet(Own(m))
  BY <1>1, FS_Subset
<1>3. Cardinality(Own(m)) \in Nat /\ Cardinality(Own(m)) # 0
  BY <1>2, FS_CardinalityType, FS_EmptySet
<1>4. Cardinality(Own(m)) = 1
  BY <1>3
<1>5. PICK x : Own(m) = {x}
  BY <1>2, <1>4, FS_Singleton
<1>6. TheOne(Own(m)) = x
  BY <1>5 DEF TheOne
<1> QED BY <1>5, <1>6 DEF Own

\* What is stored of the request is read (integration.py:99, _integration_merge.py:99).
LEMMA ReadFactsStep == ASSUME Inv, NEW w \in Workers, ReadFacts(w) PROVE Inv'
<1> DEFINE r == Mine(w)
           k == TheOne(Own(call[w].msg))
<1>1. call[w] \in Calls /\ Fits(call[w]) /\ call[w].at = "facts" /\ Quiet /\ UNCHANGED <<faults, edits>>
  BY DEF Inv, TypeOK, CallsFit, ReadFacts, Quiet
<1>2. /\ call[w].job = "request" /\ call[w].msg \in DOMAIN requests /\ ~call[w].fact
      /\ ~call[w].bare /\ call[w].key = NoKey /\ call[w].state \in {"NONE", "PLANNED"}
      /\ call[w].why # "NONE" => r.kind = "MERGE"
  BY <1>1 DEF Fits, Jobs, Subject, Leaves, Stores, Mine
<1>3. r \in Requests
  BY <1>2 DEF Inv, TypeOK, Mine
<1>4. CASE Leave(w)
  BY <1>1, <1>4, LeaveStep
<1>5. ASSUME NEW at \in {"mark", "answer", "admit"}, NEW why \in Reasons,
             at = "answer" => why = r.why, at = "admit" => r.kind = "MERGE",
             Fails(w, at, why)
      PROVE  Inv'
  <2> DEFINE d == [call[w] EXCEPT !.at = at, !.why = why]
  <2>1. /\ d.at = at /\ d.why = why /\ d.job = "request" /\ d.msg = call[w].msg
        /\ d.key = NoKey /\ d.state = call[w].state /\ ~d.fact /\ ~d.bare
    BY <1>1, <1>2 DEF Calls
  <2> HIDE DEF d
  <2>2. Fits(d)
    BY <1>2, <1>5, <2>1 DEF Fits, Jobs, Subject, Leaves, Sees, Stores, Final, Mine
  <2> QED BY <1>1, <1>5, <2>2, FailsStep DEF d, Places
<1>6. CASE Goto(w, "admit")
  <2> DEFINE d == [call[w] EXCEPT !.at = "admit"]
  <2>1. /\ d.at = "admit" /\ d.job = "request" /\ d.msg = call[w].msg /\ d.why = call[w].why
        /\ d.key = NoKey /\ d.state = call[w].state /\ ~d.fact /\ ~d.bare
    BY <1>1, <1>2 DEF Calls
  <2> HIDE DEF d
  <2>2. Fits(d)
    BY <1>2, <2>1 DEF Fits, Jobs, Subject, Leaves, Sees, Stores, Final, Mine
  <2> QED BY <1>1, <1>6, <2>2, GotoStep DEF d, Places
<1>7. CASE /\ k \in DOMAIN effects /\ effects[k].by = call[w].msg
           /\ Moves(w, [call[w] EXCEPT
                !.at = IF effects[k].state = "PLANNED" THEN "admit" ELSE "close",
                !.key = k, !.state = effects[k].state, !.tries = effects[k].tries,
                !.why = effects[k].why])
  <2>1. PICK x \in DOMAIN effects : x = k
    BY <1>7
  <2>2. PICK at \in {"admit", "close"} :
          at = IF effects[x].state = "PLANNED" THEN "admit" ELSE "close"
    OBVIOUS
  <2> DEFINE e == effects[x]
             d == [call[w] EXCEPT !.at = at, !.key = x, !.state = e.state,
                                  !.tries = e.tries, !.why = e.why]
  <2>3. e \in Effects /\ x \in Keys /\ (e.state = "PLANNED" => e.why = "NONE")
    BY DEF Inv, TypeOK, Rows, EffectsFit, EffectFits
  <2>4. Moves(w, d)
    BY <1>7, <2>1, <2>2
  <2>5. d \in Calls
    <3>1. /\ e.state \in {"NONE", "PLANNED"} \cup Unsettled \cup Final /\ e.tries \in Nat
          /\ e.why \in Reasons \cup {"NONE"} /\ x \in Keys \cup {NoKey} /\ at \in Places
      BY <2>3 DEF Effects, Places
    <3> HIDE DEF e
    <3> QED BY <1>1, <3>1 DEF Calls
  <2>6. /\ d.at = at /\ d.why = e.why /\ d.job = "request" /\ d.msg = call[w].msg
        /\ d.mtries = call[w].mtries /\ d.key = x /\ d.state = e.state /\ ~d.fact /\ ~d.bare
    BY <1>1, <1>2 DEF Calls
  <2> HIDE DEF d
  <2>7. Fits(d)
    BY <1>2, <1>7, <2>1, <2>2, <2>3, <2>6
    DEF Fits, Jobs, Subject, Its, Leaves, Sees, Stores, Final
  <2>8. Keeps(w, d) /\ d.at # "answer"
    BY <1>2, <2>2, <2>6 DEF Keeps
  <2> QED BY <1>1, <2>4, <2>5, <2>7, <2>8, ReadStep
<1>8. \/ Leave(w)
      \/ r.why # "NONE" /\ Fails(w, IF r.kind = "CREATE" THEN "mark" ELSE "answer", r.why)
      \/ Fails(w, IF r.kind = "CREATE" THEN "mark" ELSE "admit", "MR_CONFLICT")
      \/ Goto(w, "admit")
      \/ /\ Own(call[w].msg) # {} /\ ~(Cardinality(Own(call[w].msg)) > 1)
         /\ Moves(w, [call[w] EXCEPT
                !.at = IF effects[k].state = "PLANNED" THEN "admit" ELSE "close",
                !.key = k, !.state = effects[k].state, !.tries = effects[k].tries,
                !.why = effects[k].why])
  BY DEF ReadFacts
<1>9. CASE r.why # "NONE" /\ Fails(w, IF r.kind = "CREATE" THEN "mark" ELSE "answer", r.why)
  <2>1. r.why \in Reasons
    BY <1>3, <1>9 DEF Requests
  <2> QED BY <1>5, <1>9, <2>1
<1>10. CASE Fails(w, IF r.kind = "CREATE" THEN "mark" ELSE "admit", "MR_CONFLICT")
  <2>1. r.kind # "CREATE" => r.kind = "MERGE"
    BY <1>3 DEF Requests
  <2> QED BY <1>5, <1>10, <2>1 DEF Reasons
<1> QED BY <1>4, <1>6, <1>7, <1>8, <1>9, <1>10, TheOneIsOwn

\* The effect is read again once the request is done (_integration_callbacks.py:258).
LEMMA RereadStep == ASSUME Inv, NEW w \in Workers, Reread(w) PROVE Inv'
<1> DEFINE e == Row(w)
           d == [call[w] EXCEPT !.at = "tell", !.state = e.state, !.tries = e.tries,
                                !.why = e.why]
<1>1. call[w] \in Calls /\ Fits(call[w]) /\ call[w].at = "reread" /\ Quiet
      /\ UNCHANGED <<faults, edits>>
  BY DEF Inv, TypeOK, CallsFit, Reread, Quiet
<1>2. /\ call[w].job = "request" /\ call[w].msg \in DOMAIN requests /\ ~call[w].fact
      /\ requests[call[w].msg].state = "PROCESSED" /\ Its(call[w]) /\ ~call[w].bare
  BY <1>1 DEF Fits, Jobs, Subject, Stores
<1>3. e \in Effects
  BY <1>2 DEF Its, Row, Inv, TypeOK
<1>4. e.state \in {"PLANNED"} \cup Unsettled \cup Final /\ e.tries \in Nat
      /\ e.why \in Reasons \cup {"NONE"}
  BY <1>3 DEF Effects
<1>5. Leave(w) \/ Moves(w, d)
  BY DEF Reread
<1>6. call[w].key \in DOMAIN effects /\ effects[call[w].key].state = e.state
      /\ effects[call[w].key].why = e.why
  BY <1>2 DEF Its, Row
<1> HIDE DEF e
<1>7. d \in Calls
  BY <1>1, <1>4 DEF Calls, Places
<1>8. /\ d.at = "tell" /\ d.job = "request" /\ d.msg = call[w].msg
      /\ d.mtries = call[w].mtries /\ d.key = call[w].key /\ d.state = e.state
      /\ d.why = e.why /\ ~d.fact /\ ~d.bare
  BY <1>1, <1>2 DEF Calls
<1> HIDE DEF d
<1>9. Fits(d)
  BY <1>2, <1>6, <1>8 DEF Fits, Jobs, Subject, Its, Leaves, Sees, Stores
<1>10. Keeps(w, d)
  BY <1>2, <1>8 DEF Keeps
<1> QED BY <1>1, <1>5, <1>7, <1>8, <1>9, <1>10, ReadStep, LeaveStep

\* A request to merge is about a merge request that is there.
LEMMA MergeIsThere ==
  ASSUME Inv, NEW b \in DOMAIN bindings
  PROVE  /\ b \in Heads /\ bindings[b].iid \in DOMAIN mrs /\ bindings[b].iid \in Nat
         /\ mrs[bindings[b].iid] \in MergeRequests
  BY DEF Inv, TypeOK, Rows, BindingsFit

LEMMA RequestOfMerge ==
  ASSUME Inv, NEW m \in DOMAIN requests, requests[m].kind = "MERGE"
  PROVE  requests[m].binding \in DOMAIN bindings
  BY DEF Inv, Rows, RequestsFit

LEMMA EffectOfMerge ==
  ASSUME Inv, NEW k \in DOMAIN effects, k.op = "MERGE"
  PROVE  /\ k.binding \in DOMAIN bindings /\ k \in Keys
         /\ requests[effects[k].by].kind = "MERGE"
         /\ requests[effects[k].by].binding = k.binding
         /\ effects[k].by \in DOMAIN requests
  BY RowsStand DEF Stand, Belongs

\* The work item is asked whether it still wants it (_integration_state.py:65,
\* _integration_merge_context.py:139).
LEMMA AdmitStep == ASSUME Inv, NEW w \in Workers, Admit(w) PROVE Inv'
<1> DEFINE mr == mrs[bindings[Mine(w).binding].iid]
           d == [call[w] EXCEPT !.at = "mark", !.fact = mr.state = "merged",
                                !.got = mr.state, !.head = mr.head]
<1>1. call[w] \in Calls /\ Fits(call[w]) /\ call[w].at = "admit" /\ Quiet
      /\ UNCHANGED <<faults, edits>>
  BY DEF Inv, TypeOK, CallsFit, Admit, Quiet
<1>2. /\ call[w].job = "request" /\ call[w].msg \in DOMAIN requests /\ ~call[w].fact
      /\ ~call[w].bare /\ call[w].state \in {"NONE", "PLANNED"}
      /\ call[w].why # "NONE" => Mine(w).kind = "MERGE"
      /\ call[w].key = NoKey \/ Its(call[w])
  BY <1>1 DEF Fits, Jobs, Subject, Leaves, Stores, Mine
<1>3. CASE Leave(w)
  BY <1>1, <1>3, LeaveStep
<1>4. CASE Goto(w, "survey")
  <2> DEFINE c == [call[w] EXCEPT !.at = "survey"]
  <2>1. /\ c.at = "survey" /\ c.job = "request" /\ c.msg = call[w].msg
        /\ c.key = call[w].key /\ c.state = call[w].state /\ ~c.fact /\ ~c.bare
    BY <1>1, <1>2 DEF Calls
  <2> HIDE DEF c
  <2>2. Fits(c)
    BY <1>2, <2>1 DEF Fits, Jobs, Subject, Its, Leaves, Sees, Stores, Final
  <2> QED BY <1>1, <1>4, <2>2, GotoStep DEF c, Places
<1>5. CASE Fails(w, "mark", Standing)
  <2> DEFINE c == [call[w] EXCEPT !.at = "mark", !.why = Standing]
  <2>1. /\ c.at = "mark" /\ c.job = "request" /\ c.msg = call[w].msg
        /\ c.state = call[w].state /\ ~c.fact /\ ~c.bare
    BY <1>1, <1>2 DEF Calls
  <2> HIDE DEF c
  <2>2. Fits(c)
    BY <1>2, <2>1 DEF Fits, Jobs, Subject, Leaves, Sees, Stores, Final
  <2> QED BY <1>1, <1>5, <2>2, FailsStep DEF c, Places, Standing, Reasons
<1>6. CASE call[w].why # "NONE" /\ Moves(w, d)
  <2>1. Mine(w).binding \in DOMAIN bindings
    BY <1>2, <1>6, RequestOfMerge DEF Mine
  <2>2. mr \in MergeRequests
    BY <2>1, MergeIsThere
  <2>3. mr.state \in MergeStates /\ mr.head \in Heads /\ (mr.state = "merged") \in BOOLEAN
    BY <2>2 DEF MergeRequests
  <2> HIDE DEF mr
  <2>4. d \in Calls
    <3>1. PICK fact \in BOOLEAN : fact = (mr.state = "merged")
      OBVIOUS
    <3>2. [call[w] EXCEPT !.at = "mark", !.fact = fact, !.got = mr.state, !.head = mr.head]
            \in Calls
      <4>1. call[w] \in Calls /\ "mark" \in Places
        BY <1>1 DEF Places
      <4> QED BY <2>3, <3>1, <4>1, SeesTyped, Zenon
    <3> QED BY <3>1, <3>2
  <2>5. /\ d.at = "mark" /\ d.job = "request" /\ d.msg = call[w].msg
        /\ d.mtries = call[w].mtries /\ d.state = call[w].state /\ d.got = mr.state /\ ~d.bare
    BY <1>1, <1>2 DEF Calls
  <2> HIDE DEF d
  <2>6. Fits(d)
    BY <1>2, <1>6, <2>3, <2>5 DEF Fits, Jobs, Subject, Leaves, Sees, Stores, Final, Mine
  <2>7. Keeps(w, d)
    BY <1>2, <2>5 DEF Keeps
  <2> QED BY <1>1, <1>6, <2>4, <2>5, <2>6, <2>7, ReadStep
<1>7. CASE call[w].why # "NONE" /\ Goto(w, "mark")
  <2> DEFINE c == [call[w] EXCEPT !.at = "mark"]
  <2>1. /\ c.at = "mark" /\ c.job = "request" /\ c.msg = call[w].msg /\ c.why = call[w].why
        /\ c.state = call[w].state /\ ~c.fact /\ ~c.bare
    BY <1>1, <1>2 DEF Calls
  <2> HIDE DEF c
  <2>2. Fits(c)
    BY <1>2, <1>7, <2>1 DEF Fits, Jobs, Subject, Leaves, Sees, Stores, Final
  <2> QED BY <1>1, <1>7, <2>2, GotoStep DEF c, Places
<1> QED BY <1>3, <1>4, <1>5, <1>6, <1>7 DEF Admit

\* The branch is read for a request to create (_integration_provider.py:52).
LEMMA ReadSourceStep == ASSUME Inv, NEW w \in Workers, ReadSource(w) PROVE Inv'
<1>1. call[w] \in Calls /\ Fits(call[w]) /\ call[w].at = "survey" /\ Quiet
      /\ UNCHANGED edits /\ call[w].job = "request" /\ Mine(w).kind = "CREATE"
  BY DEF Inv, TypeOK, CallsFit, ReadSource, Quiet
<1>2. /\ call[w].msg \in DOMAIN requests /\ ~call[w].fact
      /\ ~call[w].bare /\ call[w].state \in {"NONE", "PLANNED"}
      /\ call[w].key = NoKey \/ Its(call[w])
  BY <1>1 DEF Fits, Jobs, Subject, Leaves, Stores, Mine
<1>3. CASE Call(w)
  BY <1>1, <1>3, CallStep DEF CallPlaces
<1>4. ASSUME UNCHANGED faults, NEW why \in Reasons, Fails(w, "mark", why)
      PROVE  Inv'
  <2>1. ~Writing(w)
    BY <1>2 DEF Writing, Unsettled
  <2> QED BY <1>1, <1>4, <2>1, RefuseStep DEF Refuse, CallPlaces
<1>5. CASE UNCHANGED faults /\ branch # Gone
           /\ Moves(w, [call[w] EXCEPT !.at = "review", !.head = branch])
  <2> DEFINE d == [call[w] EXCEPT !.at = "review", !.head = branch]
  <2>1. branch \in Heads
    BY <1>5 DEF Inv, TypeOK
  <2>2. d \in Calls
    BY <1>1, <2>1 DEF Calls, Places
  <2>3. /\ d.at = "review" /\ d.job = "request" /\ d.msg = call[w].msg /\ d.key = call[w].key
        /\ d.mtries = call[w].mtries /\ d.state = call[w].state /\ ~d.fact /\ ~d.bare
    BY <1>1, <1>2 DEF Calls
  <2> HIDE DEF d
  <2>4. Fits(d)
    BY <1>1, <1>2, <2>3 DEF Fits, Jobs, Subject, Its, Leaves, Sees, Stores, Final, Mine
  <2>5. Keeps(w, d)
    BY <1>1, <2>3 DEF Keeps
  <2> QED BY <1>1, <1>5, <2>2, <2>3, <2>4, <2>5, ReadStep DEF d
<1> QED BY <1>3, <1>4, <1>5 DEF ReadSource, Reasons

\* What is read of the branch's merges decides (integration.py:218).
LEMMA ReviewStep == ASSUME Inv, NEW w \in Workers, Review(w) PROVE Inv'
<1> DEFINE h == call[w].head
           key == Key("CREATE", h, h)
           d == [call[w] EXCEPT !.at = "plan", !.key = key]
<1>1. call[w] \in Calls /\ Fits(call[w]) /\ call[w].at = "review" /\ Quiet
      /\ UNCHANGED <<faults, edits>>
  BY DEF Inv, TypeOK, CallsFit, Review, Quiet
<1>2. /\ call[w].job = "request" /\ call[w].msg \in DOMAIN requests /\ ~call[w].fact
      /\ ~call[w].bare /\ call[w].state \in {"NONE", "PLANNED"}
      /\ requests[call[w].msg].kind = "CREATE"
      /\ call[w].key = NoKey \/ Its(call[w])
  BY <1>1 DEF Fits, Jobs, Subject, Leaves, Stores
<1>3. ASSUME NEW at \in {"mark", "block"}, NEW why \in Reasons, Fails(w, at, why),
             at = "block" => call[w].key # NoKey
      PROVE  Inv'
  <2> DEFINE c == [call[w] EXCEPT !.at = at, !.why = why]
  <2>1. /\ c.at = at /\ c.job = "request" /\ c.msg = call[w].msg /\ c.key = call[w].key
        /\ c.state = call[w].state /\ ~c.fact /\ ~c.bare
    BY <1>1, <1>2 DEF Calls
  <2> HIDE DEF c
  <2>2. Fits(c)
    BY <1>2, <1>3, <2>1 DEF Fits, Jobs, Subject, Its, Leaves, Sees, Stores, Final
  <2> QED BY <1>1, <1>3, <2>2, FailsStep DEF c, Places
<1>4. CASE Moves(w, d)
  <2>1. h \in Heads
    BY <1>1 DEF Calls
  <2>2. key \in Keys /\ key.op = "CREATE" /\ key.binding = key.head
    BY <2>1 DEF Key, Keys
  <2> HIDE DEF key, h
  <2>3. d \in Calls
    BY <1>1, <2>2 DEF Calls, Places
  <2>4. /\ d.at = "plan" /\ d.job = "request" /\ d.msg = call[w].msg /\ d.key = key
        /\ d.mtries = call[w].mtries /\ d.state = call[w].state /\ ~d.fact /\ ~d.bare
    BY <1>1, <1>2 DEF Calls
  <2> HIDE DEF d
  <2>5. Fits(d)
    BY <1>2, <2>2, <2>4 DEF Fits, Jobs, Subject, Belongs, Leaves, Sees, Stores, Final
  <2>6. Keeps(w, d)
    BY <1>2, <2>4 DEF Keeps
  <2> QED BY <1>1, <1>4, <2>3, <2>4, <2>5, <2>6, ReadStep
<1>5. \/ Fails(w, "mark", "NO_DELIVERY_COMMIT")
      \/ call[w].key # NoKey /\ Fails(w, "block", "HEAD_SHA_CHANGED")
      \/ Moves(w, d)
  BY DEF Review
<1> QED BY <1>3, <1>4, <1>5 DEF Reasons

\* The merge request of a merge is read (_integration_merge_provider.py:82).
LEMMA ReadMergeRequestStep == ASSUME Inv, NEW w \in Workers, ReadMergeRequest(w) PROVE Inv'
<1> DEFINE b == Target(call[w])
           i == bindings[b].iid
           mr == mrs[i]
           d == [call[w] EXCEPT !.at = "prove", !.mr = i, !.got = mr.state, !.head = mr.head]
<1>1. call[w] \in Calls /\ Fits(call[w]) /\ call[w].at = "survey" /\ Quiet
      /\ UNCHANGED edits /\ (call[w].job = "request" => Mine(w).kind = "MERGE")
  BY DEF Inv, TypeOK, CallsFit, ReadMergeRequest, Quiet
<1>2. CASE Call(w)
  BY <1>1, <1>2, CallStep DEF CallPlaces
<1>3. CASE UNCHANGED faults /\ Moves(w, d)
  <2>1. b \in DOMAIN bindings
    <3>1. CASE call[w].job = "request"
      BY <1>1, <3>1, RequestOfMerge DEF Fits, Jobs, Target, Mine
    <3>2. CASE call[w].job # "request"
      BY <1>1, <3>2, EffectOfMerge DEF Fits, Jobs, Subject, Target, Calls
    <3> QED BY <3>1, <3>2
  <2>2. i \in Nat /\ i \in DOMAIN mrs /\ mr \in MergeRequests
    BY <2>1, MergeIsThere
  <2>3. mr.state \in MergeStates /\ mr.head \in Heads
    BY <2>2 DEF MergeRequests
  <2>4. Merged(i, mr.head) <=> mr.state = "merged"
    BY DEF Merged
  <2> HIDE DEF mr, i
  <2>5. d \in Calls
    BY <1>1, <2>2, <2>3, SeesTyped DEF Places
  <2>6. /\ d.at = "prove" /\ d.job = call[w].job /\ d.msg = call[w].msg /\ d.key = call[w].key
        /\ d.mtries = call[w].mtries /\ d.state = call[w].state /\ d.fact = call[w].fact
        /\ d.bare = call[w].bare /\ d.mr = i /\ d.got = mr.state /\ d.head = mr.head
    BY <1>1 DEF Calls
  <2>7. Target(d) = b
    BY <2>6 DEF Target
  <2> HIDE DEF d, b
  <2>8. Fits(d)
    BY <1>1, <2>3, <2>4, <2>6, <2>7
    DEF Fits, Jobs, Subject, Its, Leaves, Sees, Stores, Final, Mine, Unsettled, i
  <2>9. Keeps(w, d)
    BY <1>1, <2>6 DEF Keeps
  <2> QED BY <1>1, <1>3, <2>5, <2>6, <2>8, <2>9, ReadStep
<1>4. Call(w) \/ (UNCHANGED faults /\ Moves(w, d))
  BY DEF ReadMergeRequest, Target, Mine
<1> QED BY <1>2, <1>3, <1>4

\* A merge is decided on what was read (_integration_reconcile_merge.py:75).
LEMMA JudgeStep ==
  ASSUME Inv, Quiet, UNCHANGED <<faults, edits>>, NEW w \in Workers,
         call[w].at = "prove", Writing(w), Judge(w)
  PROVE  Inv'
<1> DEFINE c == call[w]
<1>1. c \in Calls /\ Fits(c)
  BY DEF Inv, TypeOK, CallsFit
<1>2. /\ c.job = "reconcile" /\ c.state = "RECONCILIATION" /\ c.key \in DOMAIN effects
      /\ c.key.op = "MERGE" /\ ~c.fact /\ ~c.bare /\ c.got \in MergeStates
      /\ c.mr = bindings[c.key.binding].iid
      /\ c.got = "merged" => Merged(c.mr, c.head)
  BY <1>1 DEF Fits, Jobs, Subject, Leaves, Sees, Stores, Target, Writing, Unsettled, Calls
<1>3. c.mr \in DOMAIN mrs
  BY <1>2, EffectOfMerge, MergeIsThere
<1>4. ASSUME NEW why \in Reasons, NEW fact \in BOOLEAN,
             Moves(w, [[call[w] EXCEPT !.src = branch] EXCEPT
                         !.at = "block", !.why = why, !.fact = fact])
      PROVE  Inv'
  <2> DEFINE d == [call[w] EXCEPT !.src = branch, !.at = "block", !.why = why, !.fact = fact]
  <2>1. branch \in Heads \cup {Gone}
    BY DEF Inv, TypeOK
  <2>2. d \in Calls
    BY <1>1, <2>1 DEF Calls, Places
  <2>3. [[call[w] EXCEPT !.src = branch] EXCEPT !.at = "block", !.why = why, !.fact = fact] = d
    BY <1>1 DEF Calls
  <2>4. /\ d.at = "block" /\ d.job = "reconcile" /\ d.key = c.key
        /\ d.state = "RECONCILIATION" /\ ~d.bare /\ d.got = c.got
    BY <1>1, <1>2 DEF Calls
  <2>5. Moves(w, d)
    BY <1>4, <2>3
  <2> HIDE DEF d
  <2>6. Fits(d)
    BY <1>2, <2>4 DEF Fits, Jobs, Subject, Leaves, Sees, Stores, Final
  <2>7. Keeps(w, d)
    BY <2>4 DEF Keeps
  <2> QED BY <2>2, <2>4, <2>5, <2>6, <2>7, ReadStep
<1>5. ASSUME NEW at \in {"settle", "renew"}, Goto(w, at), c.head = c.key.head,
             at = "settle" => c.got = "merged"
      PROVE  Inv'
  <2> DEFINE d == [call[w] EXCEPT !.at = at]
  <2>1. /\ d.at = at /\ d.job = "reconcile" /\ d.key = c.key /\ d.mr = c.mr
        /\ d.state = "RECONCILIATION" /\ ~d.bare /\ ~d.fact /\ d.got = c.got
    BY <1>1, <1>2 DEF Calls
  <2> HIDE DEF d
  <2>2. Fits(d)
    BY <1>2, <1>3, <1>5, <2>1 DEF Fits, Jobs, Subject, Leaves, Sees, Stores, Final, MergeStates
  <2> QED BY <1>5, <2>2, GotoStep DEF d, Places
<1> DEFINE r == [call[w] EXCEPT !.src = branch]
           Stop(why, fact) == Moves(w, [r EXCEPT !.at = "block", !.why = why, !.fact = fact])
<1>6. r.head = c.head /\ r.key = c.key /\ r.got = c.got
  BY <1>1 DEF Calls
<1>7. IF r.head # r.key.head THEN Stop("HEAD_SHA_CHANGED", FALSE)
      ELSE \/ r.got = "merged" /\ branch = Gone /\ Stop("SOURCE_BRANCH_MISSING", TRUE)
           \/ r.got = "merged" /\ branch # Gone /\ Goto(w, "settle")
           \/ r.got = "closed" /\ Stop("MR_CLOSED", TRUE)
           \/ r.got = "opened" /\ Goto(w, "renew")
           \/ r.got = "opened" /\ Refuses /\ Stop("MR_CHECKS_BLOCKED", TRUE)
  BY DEF Judge
<1>8. \A why \in Reasons, fact \in BOOLEAN : Stop(why, fact) => Inv'
  BY <1>4
<1> HIDE DEF r, c, Stop
<1>9. Goto(w, "settle") /\ c.head = c.key.head /\ c.got = "merged" => Inv'
  BY <1>5
<1>10. Goto(w, "renew") /\ c.head = c.key.head => Inv'
  BY <1>5
<1> QED BY <1>6, <1>7, <1>8, <1>9, <1>10 DEF Reasons

\* The merge is proved against the branch (_integration_merge_provider.py:82).
LEMMA ProveStep == ASSUME Inv, NEW w \in Workers, Prove(w) PROVE Inv'
<1> DEFINE d == [call[w] EXCEPT !.at = "classify", !.src = branch]
<1>1. call[w] \in Calls /\ Fits(call[w]) /\ call[w].at = "prove" /\ Quiet
      /\ UNCHANGED edits
  BY DEF Inv, TypeOK, CallsFit, Prove, Quiet
<1>2. CASE Call(w)
  BY <1>1, <1>2, CallStep DEF CallPlaces
<1>3. ASSUME UNCHANGED faults, NEW why \in Reasons, Refuse(w, why) PROVE Inv'
  BY <1>1, <1>3, RefuseStep DEF CallPlaces
<1>4. CASE UNCHANGED faults /\ Writing(w) /\ Judge(w)
  BY <1>1, <1>4, JudgeStep
<1>5. CASE UNCHANGED faults /\ ~Writing(w) /\ Moves(w, d)
  <2>1. /\ call[w].job = "request" /\ call[w].msg \in DOMAIN requests /\ ~call[w].fact
        /\ ~call[w].bare /\ call[w].state \in {"NONE", "PLANNED"}
        /\ requests[call[w].msg].kind = "MERGE" /\ call[w].got \in MergeStates
        /\ call[w].mr = bindings[Target(call[w])].iid
        /\ call[w].key = NoKey \/ Its(call[w])
    BY <1>1, <1>5
    DEF Fits, Jobs, Subject, Leaves, Sees, Stores, Writing, Unsettled, Calls
  <2>2. branch \in Heads \cup {Gone}
    BY DEF Inv, TypeOK
  <2>3. d \in Calls
    BY <1>1, <2>2 DEF Calls, Places
  <2>4. /\ d.at = "classify" /\ d.job = "request" /\ d.msg = call[w].msg
        /\ d.key = call[w].key /\ d.mtries = call[w].mtries /\ d.state = call[w].state
        /\ d.mr = call[w].mr /\ d.got = call[w].got /\ ~d.fact /\ ~d.bare
    BY <1>1, <2>1 DEF Calls
  <2>5. Target(d) = Target(call[w])
    BY <2>1, <2>4 DEF Target
  <2> HIDE DEF d
  <2>6. Fits(d)
    BY <2>1, <2>4, <2>5 DEF Fits, Jobs, Subject, Its, Leaves, Sees, Stores, Final
  <2>7. Keeps(w, d)
    BY <2>1, <2>4 DEF Keeps
  <2> QED BY <1>1, <1>5, <2>3, <2>4, <2>6, <2>7, ReadStep
<1>6. \/ Call(w)
      \/ UNCHANGED faults /\ Refuse(w, "BRANCH_BINDING_MISSING")
      \/ UNCHANGED faults /\ Refuse(w, "HEAD_SHA_CHANGED")
      \/ UNCHANGED faults /\ Writing(w) /\ Judge(w)
      \/ UNCHANGED faults /\ ~Writing(w) /\ Moves(w, d)
  BY DEF Prove
<1> QED BY <1>2, <1>3, <1>4, <1>5, <1>6 DEF Reasons

\* A new merge is planned at the present head (_integration_merge.py:186).
LEMMA ClassifyStep == ASSUME Inv, NEW w \in Workers, Classify(w) PROVE Inv'
<1> DEFINE c == call[w]
           exact == Key("MERGE", Mine(w).binding, IF c.src = Gone THEN c.head ELSE c.src)
           Stop(at, why) == Moves(w, [c EXCEPT !.at = at, !.why = why,
                                               !.fact = c.got = "merged"])
           stop == IF c.key = NoKey THEN "mark" ELSE "block"
<1>1. c \in Calls /\ Fits(c) /\ c.at = "classify" /\ Quiet /\ UNCHANGED <<faults, edits>>
  BY DEF Inv, TypeOK, CallsFit, Classify, Quiet
<1>2. /\ c.job = "request" /\ c.msg \in DOMAIN requests /\ ~c.fact
      /\ ~c.bare /\ c.state \in {"NONE", "PLANNED"} /\ c.got \in MergeStates
      /\ requests[c.msg].kind = "MERGE"
      /\ c.key = NoKey \/ Its(c)
      /\ c.mr = bindings[requests[c.msg].binding].iid
  BY <1>1 DEF Fits, Jobs, Subject, Leaves, Sees, Stores, Target
<1> HIDE DEF exact, Stop, stop
<1>3. c.key # NoKey => c.key.op = "MERGE"
  BY <1>2, RowsStand DEF Its, Stand, Belongs, Keys
<1>4. ASSUME NEW at \in {"mark", "block"}, NEW why \in Reasons, Stop(at, why),
             at = "block" => c.key # NoKey
      PROVE  Inv'
  <2>1. PICK fact \in BOOLEAN : fact = (c.got = "merged")
    OBVIOUS
  <2> DEFINE d == [call[w] EXCEPT !.at = at, !.why = why, !.fact = fact]
  <2>2. Moves(w, d)
    BY <1>4, <2>1 DEF Stop
  <2>3. d \in Calls
    BY <1>1 DEF Calls, Places
  <2>4. /\ d.at = at /\ d.job = "request" /\ d.msg = c.msg /\ d.key = c.key
        /\ d.mtries = c.mtries /\ d.state = c.state /\ d.got = c.got /\ ~d.bare
    BY <1>1, <1>2 DEF Calls
  <2> HIDE DEF d
  <2>5. Fits(d)
    BY <1>2, <1>3, <1>4, <2>4 DEF Fits, Jobs, Subject, Its, Leaves, Sees, Stores, Final
  <2>6. Keeps(w, d)
    BY <1>2, <2>4 DEF Keeps
  <2> QED BY <1>1, <1>4, <2>2, <2>3, <2>4, <2>5, <2>6, ReadStep
<1>5. CASE Moves(w, [c EXCEPT !.at = "plan", !.key = exact])
  <2> DEFINE d == [c EXCEPT !.at = "plan", !.key = exact]
  <2>1. Mine(w).binding \in Heads /\ Mine(w).binding = requests[c.msg].binding
    BY <1>2, RequestOfMerge, MergeIsThere DEF Mine
  <2>2. (IF c.src = Gone THEN c.head ELSE c.src) \in Heads
    BY <1>1 DEF Calls
  <2>3. exact \in Keys /\ exact.op = "MERGE" /\ exact.binding = requests[c.msg].binding
    BY <2>1, <2>2 DEF Key, Keys, exact
  <2>4. d \in Calls
    BY <1>1, <2>3 DEF Calls, Places
  <2>5. /\ d.at = "plan" /\ d.job = "request" /\ d.msg = c.msg /\ d.key = exact
        /\ d.mtries = c.mtries /\ d.state = c.state /\ d.mr = c.mr /\ ~d.fact /\ ~d.bare
    BY <1>1, <1>2 DEF Calls
  <2> HIDE DEF d
  <2>6. Fits(d)
    BY <1>2, <2>3, <2>5 DEF Fits, Jobs, Subject, Belongs, Leaves, Sees, Stores, Final
  <2>7. Keeps(w, d)
    BY <1>2, <2>5 DEF Keeps
  <2> QED BY <1>1, <1>5, <2>4, <2>5, <2>6, <2>7, ReadStep DEF d
<1>6. \/ Stop("mark", "MR_CONFLICT")
      \/ c.key # NoKey /\ Stop("block", "HEAD_SHA_CHANGED")
      \/ Stop(stop, IF c.key # NoKey /\ c.src = Gone THEN "SOURCE_BRANCH_MISSING"
                    ELSE "EXTERNAL_MERGE_DRIFT")
      \/ Stop(stop, "MR_CLOSED")
      \/ Stop(stop, "MR_CHECKS_BLOCKED")
      \/ Moves(w, [c EXCEPT !.at = "plan", !.key = exact])
  BY DEF Classify, Stop, stop, exact
<1>7. \A at \in {"mark", "block"}, why \in Reasons :
        Stop(at, why) /\ (at = "block" => c.key # NoKey) => Inv'
  BY <1>4
<1>8. stop \in {"mark", "block"} /\ (stop = "block" => c.key # NoKey)
  BY DEF stop
<1>9. \A why \in Reasons : Stop(stop, why) => Inv'
  BY <1>7, <1>8
<1>10. {"MR_CONFLICT", "HEAD_SHA_CHANGED", "SOURCE_BRANCH_MISSING", "EXTERNAL_MERGE_DRIFT",
        "MR_CLOSED", "MR_CHECKS_BLOCKED"} \subseteq Reasons
  BY DEF Reasons
<1> QED BY <1>5, <1>6, <1>7, <1>9, <1>10

\* What the reconciler finds stored (_integration_reconcile_merge_context.py:36).
LEMMA ReadLocalStep == ASSUME Inv, NEW w \in Workers, ReadLocal(w) PROVE Inv'
<1>1. call[w] \in Calls /\ Fits(call[w]) /\ call[w].at = "local" /\ Quiet
      /\ UNCHANGED <<faults, edits>>
  BY DEF Inv, TypeOK, CallsFit, ReadLocal, Quiet
<1>2. /\ call[w].job = "reconcile" /\ call[w].state = "RECONCILIATION" /\ ~call[w].fact
      /\ call[w].key \in DOMAIN effects /\ ~call[w].bare
  BY <1>1 DEF Fits, Jobs, Subject, Leaves, Stores
<1>3. ASSUME NEW why \in Reasons,
             Moves(w, [call[w] EXCEPT !.at = "block", !.why = why, !.bare = TRUE])
      PROVE  Inv'
  <2> DEFINE d == [call[w] EXCEPT !.at = "block", !.why = why, !.bare = TRUE]
  <2>1. d \in Calls
    BY <1>1 DEF Calls, Places
  <2>2. /\ d.at = "block" /\ d.job = "reconcile" /\ d.key = call[w].key
        /\ d.state = "RECONCILIATION" /\ ~d.fact
    BY <1>1, <1>2 DEF Calls
  <2> HIDE DEF d
  <2>3. Fits(d) /\ Keeps(w, d)
    BY <1>2, <2>2 DEF Fits, Jobs, Subject, Leaves, Sees, Stores, Final, Keeps
  <2> QED BY <1>1, <1>3, <2>1, <2>2, <2>3, ReadStep DEF d
<1>4. CASE call[w].key.op = "CREATE" /\ Moves(w, [call[w] EXCEPT !.at = "list", !.bound = Bound])
  <2> DEFINE d == [call[w] EXCEPT !.at = "list", !.bound = Bound]
  <2>1. Bound \in SUBSET Nat
    BY MergeIsThere DEF Bound
  <2>2. d \in Calls
    BY <1>1, <2>1 DEF Calls, Places
  <2>3. /\ d.at = "list" /\ d.job = "reconcile" /\ d.key = call[w].key
        /\ d.state = "RECONCILIATION" /\ ~d.fact /\ ~d.bare
    BY <1>1, <1>2 DEF Calls
  <2> HIDE DEF d
  <2>4. Fits(d) /\ Keeps(w, d)
    BY <1>2, <1>4, <2>3 DEF Fits, Jobs, Subject, Leaves, Sees, Stores, Final, Keeps
  <2> QED BY <1>1, <1>4, <2>2, <2>3, <2>4, ReadStep DEF d
<1>5. CASE call[w].key.op = "MERGE" /\ Goto(w, "survey")
  <2> DEFINE d == [call[w] EXCEPT !.at = "survey"]
  <2>1. /\ d.at = "survey" /\ d.job = "reconcile" /\ d.key = call[w].key
        /\ d.state = "RECONCILIATION" /\ ~d.fact /\ ~d.bare
    BY <1>1, <1>2 DEF Calls
  <2> HIDE DEF d
  <2>2. Fits(d)
    BY <1>2, <1>5, <2>1 DEF Fits, Jobs, Subject, Leaves, Sees, Stores, Final
  <2> QED BY <1>1, <1>5, <2>2, GotoStep DEF d, Places
<1>6. Standing \in Reasons /\ "MR_CONFLICT" \in Reasons
  BY DEF Standing, Reasons
<1> QED BY <1>3, <1>4, <1>5, <1>6 DEF ReadLocal

\* The bindings there are (integration.py:280).
LEMMA ReadBoundStep == ASSUME Inv, NEW w \in Workers, ReadBound(w) PROVE Inv'
<1> DEFINE d == [call[w] EXCEPT !.at = "list", !.bound = Bound]
<1>1. call[w] \in Calls /\ Fits(call[w]) /\ call[w].at = "bound" /\ Quiet
      /\ UNCHANGED <<faults, edits>> /\ Moves(w, d)
  BY DEF Inv, TypeOK, CallsFit, ReadBound, Quiet
<1>2. /\ call[w].job = "request" /\ call[w].state = "IN_FLIGHT" /\ ~call[w].fact
      /\ Its(call[w]) /\ call[w].key.op = "CREATE" /\ ~call[w].bare
      /\ call[w].msg \in DOMAIN requests
  BY <1>1 DEF Fits, Jobs, Subject, Leaves, Stores
<1>3. Bound \in SUBSET Nat
  BY MergeIsThere DEF Bound
<1>4. d \in Calls
  BY <1>1, <1>3 DEF Calls, Places
<1>5. /\ d.at = "list" /\ d.job = "request" /\ d.key = call[w].key /\ d.msg = call[w].msg
      /\ d.state = "IN_FLIGHT" /\ d.mtries = call[w].mtries /\ ~d.fact /\ ~d.bare
  BY <1>1, <1>2 DEF Calls
<1> HIDE DEF d
<1>6. Fits(d) /\ Keeps(w, d)
  BY <1>2, <1>5 DEF Fits, Jobs, Subject, Its, Leaves, Sees, Stores, Final, Keeps
<1> QED BY <1>1, <1>4, <1>5, <1>6, ReadStep

\* In which state a worker holds the effect of a creation or of a merge.
Held(c) ==
  /\ c.key \in DOMAIN effects
  /\ \/ c.job = "request" /\ c.state = "IN_FLIGHT" /\ Its(c) /\ c.msg \in DOMAIN requests
     \/ c.job = "reconcile" /\ c.state = "RECONCILIATION"
  /\ ~c.fact

LEMMA HeldThere ==
  ASSUME Inv, NEW w \in Workers,
         call[w].at \in {"list", "post", "getmr", "getbranch", "put", "readmr", "readbranch"}
  PROVE  Held(call[w]) /\ Fits(call[w]) /\ call[w] \in Calls /\ ~call[w].bare
<1>1. call[w] \in Calls /\ Fits(call[w])
  BY DEF Inv, TypeOK, CallsFit
<1> QED BY <1>1 DEF Fits, Jobs, Subject, Its, Leaves, Stores, Held, Calls

\* Such a worker goes on, having seen what it may have seen.
LEMMA HeldStep ==
  ASSUME Inv, Quiet, UNCHANGED edits, Fault \/ UNCHANGED faults, NEW w \in Workers,
         Held(call[w]), ~call[w].bare, NEW d \in Calls, Moves(w, d),
         d.job = call[w].job, d.msg = call[w].msg, d.mtries = call[w].mtries,
         d.key = call[w].key, d.state = call[w].state, d.bare = call[w].bare,
         d.at \in {"list", "post", "getmr", "getbranch", "put", "readmr", "readbranch",
                   "settle", "unknown", "block"} \/ (d.job = "reconcile" /\ d.at = "renew"),
         d.fact => d.at = "block" /\ d.got \in MergeStates /\ d.key.op = "MERGE",
         d.at \in {"list", "post", "getmr", "getbranch"} => d.key.op = "CREATE",
         d.at \in {"put", "readmr", "readbranch"} => d.key.op = "MERGE",
         Sees(d)
  PROVE  Inv'
<1>1. Fits(d) /\ Keeps(w, d) /\ d.at # "answer"
  BY DEF Held, Fits, Jobs, Subject, Its, Leaves, Stores, Final, Keeps
<1> QED BY <1>1, ReadStep

\* The merge requests of the branch that nobody bound (gitlab_merge_requests.py:175).
LEMMA ListStep == ASSUME Inv, NEW w \in Workers, List(w) PROVE Inv'
<1> DEFINE found == DOMAIN mrs \ call[w].bound
<1>1. call[w].at = "list" /\ Quiet /\ UNCHANGED edits
  BY DEF List, Quiet
<1>2. Held(call[w]) /\ Fits(call[w]) /\ call[w] \in Calls /\ ~call[w].bare
  BY <1>1, HeldThere
<1>3. call[w].key.op = "CREATE"
  BY <1>1, <1>2 DEF Fits, Subject
<1>4. CASE Call(w)
  BY <1>1, <1>4, CallStep DEF CallPlaces
<1>5. CASE UNCHANGED faults /\ Fails(w, "block", "MR_CONFLICT")
  <2>1. Writing(w)
    BY <1>2 DEF Held, Writing, Unsettled
  <2> QED BY <1>1, <1>5, <2>1, RefuseStep DEF Refuse, CallPlaces, Reasons
<1>6. ASSUME UNCHANGED faults, NEW i \in DOMAIN mrs,
             Moves(w, [call[w] EXCEPT !.at = "getmr", !.mr = i])
      PROVE  Inv'
  <2> DEFINE d == [call[w] EXCEPT !.at = "getmr", !.mr = i]
  <2>1. i \in Nat
    BY DEF Inv, TypeOK
  <2>2. d \in Calls
    BY <1>2, <2>1 DEF Calls, Places
  <2>3. /\ d.at = "getmr" /\ d.job = call[w].job /\ d.key = call[w].key
        /\ d.msg = call[w].msg /\ d.state = call[w].state /\ d.mtries = call[w].mtries
        /\ d.fact = call[w].fact /\ d.bare = call[w].bare /\ d.mr = i
    BY <1>2 DEF Calls
  <2> HIDE DEF d
  <2>4. Sees(d) /\ ~d.fact
    BY <1>2, <2>3 DEF Sees, Held
  <2> QED BY <1>1, <1>2, <1>3, <1>6, <2>2, <2>3, <2>4, HeldStep DEF d
<1>7. CASE UNCHANGED faults /\ Goto(w, IF call[w].job = "request" THEN "post" ELSE "renew")
  <2>1. PICK at \in {"post", "renew"} : at = IF call[w].job = "request" THEN "post" ELSE "renew"
    OBVIOUS
  <2> DEFINE d == [call[w] EXCEPT !.at = at]
  <2>2. d \in Calls
    BY <1>2 DEF Calls, Places
  <2>3. /\ d.at = at /\ d.job = call[w].job /\ d.key = call[w].key
        /\ d.msg = call[w].msg /\ d.state = call[w].state /\ d.mtries = call[w].mtries
        /\ d.fact = call[w].fact /\ d.bare = call[w].bare
    BY <1>2 DEF Calls
  <2>4. Moves(w, d)
    BY <1>7, <2>1 DEF Goto
  <2> HIDE DEF d
  <2>5. Sees(d) /\ ~d.fact
    BY <1>2, <1>3, <2>3 DEF Sees, Held
  <2>6. d.at = "post" \/ (d.job = "reconcile" /\ d.at = "renew")
    BY <1>2, <2>1, <2>3 DEF Held
  <2> QED BY <1>1, <1>2, <1>3, <1>7, <2>2, <2>3, <2>4, <2>5, <2>6, HeldStep
<1>8. \/ Call(w)
      \/ UNCHANGED faults /\ Fails(w, "block", "MR_CONFLICT")
      \/ UNCHANGED faults /\ \E i \in DOMAIN mrs : Moves(w, [call[w] EXCEPT !.at = "getmr", !.mr = i])
      \/ UNCHANGED faults /\ Goto(w, IF call[w].job = "request" THEN "post" ELSE "renew")
  BY DEF List
<1> QED BY <1>4, <1>5, <1>6, <1>7, <1>8

\* A failed read leaves the outcome unknown; a denied one is a refusal for the
\* reconciler (_integration_provider.py:125, _integration_reconcile_provider.py:145).
LEMMA UnknownStep ==
  ASSUME Inv, Quiet, UNCHANGED edits, Fault \/ UNCHANGED faults, NEW w \in Workers,
         call[w].at \in {"post", "getmr", "getbranch", "put", "readmr", "readbranch"},
         Goto(w, "unknown")
  PROVE  Inv'
<1>1. Held(call[w])
  BY HeldThere
<1>2. Writing(w)
  BY <1>1 DEF Held, Writing, Unsettled
<1> QED BY <1>2, RetryFits, GotoStep DEF CallPlaces, Places

LEMMA DeniedStep ==
  ASSUME Inv, Quiet, UNCHANGED edits, UNCHANGED faults, NEW w \in Workers,
         call[w].at \in {"getmr", "getbranch"}, Refuse(w, Standing)
  PROVE  Inv'
  BY RefuseStep DEF CallPlaces, Standing, Reasons

LEMMA GetMergeRequestStep == ASSUME Inv, NEW w \in Workers, GetMergeRequest(w) PROVE Inv'
<1> DEFINE mr == mrs[call[w].mr]
<1>1. call[w].at = "getmr" /\ Quiet /\ UNCHANGED edits
  BY DEF GetMergeRequest, Quiet
<1>2. Held(call[w]) /\ Fits(call[w]) /\ call[w] \in Calls /\ ~call[w].bare
  BY <1>1, HeldThere
<1>3. call[w].key.op = "CREATE" /\ call[w].mr \in DOMAIN mrs
  BY <1>1, <1>2 DEF Fits, Subject, Sees
<1>4. mr \in MergeRequests
  BY <1>3 DEF Inv, TypeOK
<1>5. mr.state \in MergeStates /\ mr.head \in Heads
  BY <1>4 DEF MergeRequests
<1>6. ASSUME UNCHANGED faults, NEW at \in {"settle", "getbranch"},
             Moves(w, [call[w] EXCEPT !.at = at, !.got = mr.state, !.head = mr.head])
      PROVE  Inv'
  <2> DEFINE d == [call[w] EXCEPT !.at = at, !.got = mr.state, !.head = mr.head]
  <2>1. d \in Calls
    BY <1>2, <1>5, SeesTyped DEF Places
  <2>2. /\ d.at = at /\ d.job = call[w].job /\ d.key = call[w].key /\ d.msg = call[w].msg
        /\ d.state = call[w].state /\ d.mtries = call[w].mtries /\ d.mr = call[w].mr
        /\ d.fact = call[w].fact /\ d.bare = call[w].bare /\ d.got = mr.state
    BY <1>2 DEF Calls
  <2> HIDE DEF d
  <2>3. Sees(d) /\ ~d.fact
    BY <1>2, <1>3, <1>5, <2>2 DEF Sees, Held
  <2> QED BY <1>1, <1>2, <1>3, <1>6, <2>1, <2>2, <2>3, HeldStep DEF d
<1>7. \/ Fault /\ Goto(w, "unknown")
      \/ Refuse(w, Standing) /\ UNCHANGED faults
      \/ /\ UNCHANGED faults
         /\ Moves(w, [call[w] EXCEPT
              !.at = IF call[w].job = "reconcile" /\ mr.state # "opened" THEN "settle"
                     ELSE "getbranch",
              !.got = mr.state, !.head = mr.head])
  BY DEF GetMergeRequest
<1>8. CASE Fault /\ Goto(w, "unknown")
  BY <1>1, <1>8, UnknownStep
<1>9. CASE Refuse(w, Standing) /\ UNCHANGED faults
  BY <1>1, <1>9, DeniedStep
<1> QED BY <1>6, <1>7, <1>8, <1>9

\* The head it was created at is that of the branch still.
LEMMA GetBranchStep == ASSUME Inv, NEW w \in Workers, GetBranch(w) PROVE Inv'
<1>1. call[w].at = "getbranch" /\ Quiet /\ UNCHANGED edits
  BY DEF GetBranch, Quiet
<1>2. Held(call[w]) /\ Fits(call[w]) /\ call[w] \in Calls /\ ~call[w].bare
  BY <1>1, HeldThere
<1>3. /\ call[w].key.op = "CREATE" /\ call[w].mr \in DOMAIN mrs
      /\ call[w].got \in MergeStates
  BY <1>1, <1>2 DEF Fits, Subject, Sees
<1>4. CASE UNCHANGED faults /\ Goto(w, "settle")
  <2> DEFINE d == [call[w] EXCEPT !.at = "settle"]
  <2>1. d \in Calls
    BY <1>2 DEF Calls, Places
  <2>2. /\ d.at = "settle" /\ d.job = call[w].job /\ d.key = call[w].key
        /\ d.msg = call[w].msg /\ d.state = call[w].state /\ d.mtries = call[w].mtries
        /\ d.mr = call[w].mr /\ d.fact = call[w].fact /\ d.bare = call[w].bare
        /\ d.got = call[w].got
    BY <1>2 DEF Calls
  <2>3. Moves(w, d)
    BY <1>4 DEF Goto
  <2> HIDE DEF d
  <2>4. Sees(d) /\ ~d.fact
    BY <1>2, <1>3, <2>2 DEF Sees, Held
  <2> QED BY <1>1, <1>2, <1>3, <1>4, <2>1, <2>2, <2>3, <2>4, HeldStep
<1>5. CASE Goto(w, "unknown") /\ (Fault \/ UNCHANGED faults)
  BY <1>1, <1>5, UnknownStep
<1>6. CASE Refuse(w, Standing) /\ UNCHANGED faults
  BY <1>1, <1>6, DeniedStep
<1>7. \/ UNCHANGED faults /\ Goto(w, "settle")
      \/ Goto(w, "unknown") /\ (Fault \/ UNCHANGED faults)
      \/ Refuse(w, Standing) /\ UNCHANGED faults
  BY DEF GetBranch
<1> QED BY <1>4, <1>5, <1>6, <1>7

\* What a worker knows of a merge it asked for: it is done, at the head it asked for.
LEMMA MergeHeld ==
  ASSUME Inv, NEW w \in Workers, call[w].at \in {"put", "readmr", "readbranch"}
  PROVE  /\ call[w].key.op = "MERGE" /\ call[w].key.binding \in DOMAIN bindings
         /\ call[w].mr = bindings[call[w].key.binding].iid /\ call[w].mr \in DOMAIN mrs
         /\ mrs[call[w].mr] \in MergeRequests
         /\ call[w].at \in {"readmr", "readbranch"} => Merged(call[w].mr, call[w].key.head)
<1>1. Held(call[w]) /\ Fits(call[w])
  BY HeldThere
<1>2. call[w].key \in DOMAIN effects /\ call[w].key.op = "MERGE"
  BY <1>1 DEF Held, Fits, Subject
<1>3. call[w].key.binding \in DOMAIN bindings
  BY <1>2, EffectOfMerge
<1> QED BY <1>1, <1>2, <1>3, MergeIsThere DEF Fits, Sees

LEMMA ReadMergedStep == ASSUME Inv, NEW w \in Workers, ReadMerged(w) PROVE Inv'
<1> DEFINE h == mrs[call[w].mr].head
           d == [call[w] EXCEPT !.at = "readbranch", !.got = "merged", !.head = h]
<1>1. call[w].at = "readmr" /\ Quiet /\ UNCHANGED edits
  BY DEF ReadMerged, Quiet
<1>2. Held(call[w]) /\ Fits(call[w]) /\ call[w] \in Calls /\ ~call[w].bare
  BY <1>1, HeldThere
<1>3. /\ call[w].key.op = "MERGE" /\ mrs[call[w].mr] \in MergeRequests
      /\ call[w].mr = bindings[call[w].key.binding].iid /\ call[w].mr \in DOMAIN mrs
      /\ Merged(call[w].mr, call[w].key.head)
  BY <1>1, MergeHeld
<1>4. CASE Fault /\ Goto(w, "unknown")
  BY <1>1, <1>4, UnknownStep
<1>5. CASE UNCHANGED faults /\ Moves(w, d)
  <2>1. h \in Heads /\ "merged" \in MergeStates
    BY <1>3 DEF MergeRequests, MergeStates
  <2> HIDE DEF h
  <2>2. d \in Calls
    BY <1>2, <2>1, SeesTyped DEF Places
  <2>3. /\ d.at = "readbranch" /\ d.job = call[w].job /\ d.key = call[w].key
        /\ d.msg = call[w].msg /\ d.state = call[w].state /\ d.mtries = call[w].mtries
        /\ d.mr = call[w].mr /\ d.fact = call[w].fact /\ d.bare = call[w].bare
        /\ d.got = "merged"
    BY <1>2 DEF Calls
  <2> HIDE DEF d
  <2>4. Sees(d) /\ ~d.fact
    BY <1>2, <1>3, <2>1, <2>3 DEF Sees, Held
  <2> QED BY <1>1, <1>2, <1>3, <1>5, <2>2, <2>3, <2>4, HeldStep
<1> QED BY <1>4, <1>5 DEF ReadMerged

LEMMA ReadBranchStep == ASSUME Inv, NEW w \in Workers, ReadBranch(w) PROVE Inv'
<1>1. call[w].at = "readbranch" /\ Quiet /\ UNCHANGED edits
  BY DEF ReadBranch, Quiet
<1>2. Held(call[w]) /\ Fits(call[w]) /\ call[w] \in Calls /\ ~call[w].bare
  BY <1>1, HeldThere
<1>3. /\ call[w].key.op = "MERGE" /\ call[w].got \in MergeStates
      /\ call[w].mr = bindings[call[w].key.binding].iid /\ call[w].mr \in DOMAIN mrs
      /\ Merged(call[w].mr, call[w].key.head)
  BY <1>1, <1>2, MergeHeld DEF Fits, Sees
<1>4. CASE Fault /\ Goto(w, "unknown")
  BY <1>1, <1>4, UnknownStep
<1>5. CASE UNCHANGED faults /\ Goto(w, "settle")
  <2> DEFINE d == [call[w] EXCEPT !.at = "settle"]
  <2>1. d \in Calls
    BY <1>2 DEF Calls, Places
  <2>2. /\ d.at = "settle" /\ d.job = call[w].job /\ d.key = call[w].key
        /\ d.msg = call[w].msg /\ d.state = call[w].state /\ d.mtries = call[w].mtries
        /\ d.mr = call[w].mr /\ d.fact = call[w].fact /\ d.bare = call[w].bare
        /\ d.got = call[w].got
    BY <1>2 DEF Calls
  <2>3. Moves(w, d)
    BY <1>5 DEF Goto
  <2> HIDE DEF d
  <2>4. Sees(d) /\ ~d.fact
    BY <1>2, <1>3, <2>2 DEF Sees, Held
  <2> QED BY <1>1, <1>2, <1>3, <1>5, <2>1, <2>2, <2>3, <2>4, HeldStep
<1>6. ASSUME UNCHANGED faults, NEW why \in Reasons,
             Moves(w, [call[w] EXCEPT !.at = "block", !.fact = TRUE, !.why = why])
      PROVE  Inv'
  <2> DEFINE d == [call[w] EXCEPT !.at = "block", !.fact = TRUE, !.why = why]
  <2>1. d \in Calls
    BY <1>2, FactTyped DEF Places
  <2>2. /\ d.at = "block" /\ d.job = call[w].job /\ d.key = call[w].key
        /\ d.msg = call[w].msg /\ d.state = call[w].state /\ d.mtries = call[w].mtries
        /\ d.bare = call[w].bare /\ d.got = call[w].got
    BY <1>2 DEF Calls
  <2> HIDE DEF d
  <2>3. Sees(d)
    BY <2>2 DEF Sees
  <2> QED BY <1>1, <1>2, <1>3, <1>6, <2>1, <2>2, <2>3, HeldStep DEF d
<1>7. \/ Fault /\ Goto(w, "unknown")
      \/ UNCHANGED faults /\ Goto(w, "settle")
      \/ /\ UNCHANGED faults
         /\ Moves(w, [call[w] EXCEPT !.at = "block", !.fact = TRUE,
              !.why = IF branch = Gone THEN "SOURCE_BRANCH_MISSING" ELSE "HEAD_SHA_CHANGED"])
  BY DEF ReadBranch
<1> QED BY <1>4, <1>5, <1>6, <1>7 DEF Reasons

\* The revision the work item has now (_integration_reconcile_completion.py:185).
LEMMA ReadRevisionStep == ASSUME Inv, NEW w \in Workers, ReadRevision(w) PROVE Inv'
<1> DEFINE d == [call[w] EXCEPT !.at = "tell", !.rev = item.rev]
<1>1. call[w] \in Calls /\ Fits(call[w]) /\ call[w].at = "context" /\ Quiet
      /\ UNCHANGED edits
  BY DEF Inv, TypeOK, CallsFit, ReadRevision, Quiet
<1>2. CASE Fault /\ Leave(w)
  BY <1>1, <1>2, LeaveStep
<1>3. CASE UNCHANGED faults /\ Moves(w, d)
  <2>1. item.rev \in Nat
    BY DEF Inv, TypeOK, Items
  <2>2. d \in Calls
    BY <1>1, <2>1 DEF Calls, Places
  <2>3. /\ d.at = "tell" /\ d.job = call[w].job /\ d.key = call[w].key
        /\ d.msg = call[w].msg /\ d.state = call[w].state /\ d.why = call[w].why
        /\ d.fact = call[w].fact /\ d.bare = call[w].bare
    BY <1>1 DEF Calls
  <2> HIDE DEF d
  <2>4. Fits(d) /\ Keeps(w, d)
    BY <1>1, <2>3 DEF Fits, Jobs, Subject, Leaves, Sees, Stores, Keeps
  <2> QED BY <1>1, <1>3, <2>2, <2>3, <2>4, ReadStep
<1> QED BY <1>2, <1>3 DEF ReadRevision

\* An outcome not yet told is taken up (_integration_reconcile_callbacks.py:25).
LEMMA ReplayStep == ASSUME Inv, NEW w \in Workers, Replay(w) PROVE Inv'
<1>1. Quiet /\ UNCHANGED <<faults, edits>>
  BY DEF Replay, Quiet
<1>2. PICK k \in DOMAIN effects :
        /\ effects[k].state \in Final
        /\ Moves(w, [IdleCall EXCEPT !.at = "context", !.job = "reconcile", !.key = k,
                       !.state = effects[k].state, !.tries = effects[k].tries,
                       !.why = effects[k].why])
  BY DEF Replay
<1> DEFINE e == effects[k]
           d == [IdleCall EXCEPT !.at = "context", !.job = "reconcile", !.key = k,
                   !.state = e.state, !.tries = e.tries, !.why = e.why]
<1>3. k \in Keys /\ e \in Effects
  BY DEF Inv, TypeOK
<1>4. e.tries \in Nat /\ e.why \in Reasons \cup {"NONE"} /\ e.state \in Final
  BY <1>2, <1>3 DEF Effects
<1>5. Moves(w, d) /\ effects[k].state = e.state /\ effects[k].why = e.why
  BY <1>2
<1> HIDE DEF e
<1>6. d \in Calls
  BY <1>3, <1>4, IdleTyped DEF Calls, Places
<1>7. /\ d.at = "context" /\ d.job = "reconcile" /\ d.key = k /\ d.state = e.state
      /\ d.why = e.why /\ ~d.fact /\ ~d.bare
  BY DEF IdleCall
<1> HIDE DEF d
<1>8. Fits(d) /\ Keeps(w, d)
  BY <1>4, <1>5, <1>7 DEF Fits, Jobs, Subject, Leaves, Sees, Stores, Keeps
<1> QED BY <1>1, <1>5, <1>6, <1>7, <1>8, ReadStep

\* A worker that cannot tell whether its commit was made looks again
\* (_integration_callbacks.py:597).
LEMMA ResolveStep == ASSUME Inv, NEW w \in Workers, Resolve(w) PROVE Inv'
<1> DEFINE e == Row(w)
           d == [call[w] EXCEPT !.at = "tell", !.state = e.state, !.tries = e.tries,
                                !.why = e.why]
<1>1. call[w] \in Calls /\ Fits(call[w]) /\ call[w].at = "resolve" /\ Quiet
      /\ UNCHANGED <<faults, edits>>
  BY DEF Inv, TypeOK, CallsFit, Resolve, Quiet
<1>2. /\ call[w].job = "request" /\ call[w].msg \in DOMAIN requests /\ ~call[w].fact
      /\ Its(call[w]) /\ ~call[w].bare /\ call[w].state = "IN_FLIGHT"
  BY <1>1 DEF Fits, Jobs, Subject, Leaves, Stores
<1>3. e \in Effects
  BY <1>2 DEF Its, Row, Inv, TypeOK
<1>4. e.state \in {"PLANNED"} \cup Unsettled \cup Final /\ e.tries \in Nat
      /\ e.why \in Reasons \cup {"NONE"}
  BY <1>3 DEF Effects
<1>5. \/ Leave(w)
      \/ Goto(w, "unknown")
      \/ Moves(w, d) /\ requests[call[w].msg].state = "PROCESSED"
  BY DEF Resolve, Mine
<1>6. call[w].key \in DOMAIN effects /\ effects[call[w].key].state = e.state
      /\ effects[call[w].key].why = e.why
  BY <1>2 DEF Its, Row
<1>7. CASE Goto(w, "unknown")
  <2> DEFINE c == [call[w] EXCEPT !.at = "unknown"]
  <2>1. /\ c.at = "unknown" /\ c.job = "request" /\ c.msg = call[w].msg
        /\ c.key = call[w].key /\ c.state = call[w].state /\ ~c.fact /\ ~c.bare
    BY <1>1, <1>2 DEF Calls
  <2> HIDE DEF c
  <2>2. Fits(c)
    BY <1>2, <2>1 DEF Fits, Jobs, Subject, Its, Leaves, Sees, Stores, Final
  <2> QED BY <1>1, <1>7, <2>2, GotoStep DEF c, Places
<1>8. CASE Moves(w, d) /\ requests[call[w].msg].state = "PROCESSED"
  <2> HIDE DEF e
  <2>1. d \in Calls
    <3>1. call[w] \in Calls /\ e.state \in {"NONE", "PLANNED"} \cup Unsettled \cup Final
      BY <1>1, <1>4
    <3> QED BY <1>4, <3>1 DEF Calls, Places
  <2>2. /\ d.at = "tell" /\ d.job = "request" /\ d.msg = call[w].msg
        /\ d.mtries = call[w].mtries /\ d.key = call[w].key /\ d.state = e.state
        /\ d.why = e.why /\ ~d.fact /\ ~d.bare
    BY <1>1, <1>2 DEF Calls
  <2> HIDE DEF d
  <2>3. Fits(d) /\ Keeps(w, d)
    BY <1>2, <1>6, <1>8, <2>2 DEF Fits, Jobs, Subject, Its, Leaves, Sees, Stores, Keeps
  <2> QED BY <1>1, <1>8, <2>1, <2>2, <2>3, ReadStep
<1> QED BY <1>1, <1>5, <1>7, <1>8, LeaveStep
-----------------------------------------------------------------------------
(* What the rows keep when they only move onward.                          *)

\* What the work item was told of a creation, it was told for good.
LEMMA OpenedStays ==
  ASSUME Onward, NEW b, Opened(b)
  PROVE  Opened(b)'
<1>1. PICK a \in answers :
        a.key = [about |-> Creation(b), msg |-> 0, why |-> "NONE"] /\ a.kind = "ready"
  BY DEF Opened
<1>2. a \in answers'
  BY DEF Onward
<1>3. Creation(b) \in DOMAIN effects' /\ effects'[Creation(b)].state = "SUCCEEDED"
  BY DEF Opened, Onward, Final
<1> QED BY <1>1, <1>2, <1>3 DEF Opened

LEMMA EffectKept ==
  ASSUME Inv, Onward, NEW k \in DOMAIN effects, effects'[k] = effects[k]
  PROVE  EffectFits(k)'
<1> DEFINE e == effects[k]
<1>1. EffectFits(k)
  BY DEF Inv, Rows, EffectsFit
<1>2. /\ e.by \in DOMAIN requests' /\ Belongs(k, requests'[e.by])
      /\ requests[e.by].state = "PROCESSED" => requests'[e.by].state = "PROCESSED"
  BY <1>1 DEF EffectFits, Onward, Belongs
<1>3. ASSUME e.state = "SUCCEEDED", k.op = "CREATE" PROVE k.binding \in DOMAIN bindings'
  BY <1>1, <1>3 DEF EffectFits, Onward
<1>4. ASSUME e.state = "SUCCEEDED", k.op = "MERGE"
      PROVE  Merged(bindings[k.binding].iid, k.head)'
  <2>1. k.binding \in DOMAIN bindings /\ bindings[k.binding].iid \in DOMAIN mrs
    BY <1>4, EffectOfMerge, MergeIsThere
  <2> QED BY <1>1, <1>4, <2>1 DEF EffectFits, Onward, Merged
<1> QED BY <1>1, <1>2, <1>3, <1>4 DEF EffectFits

LEMMA EffectsKept ==
  ASSUME Inv, Onward, UNCHANGED effects
  PROVE  EffectsFit' /\ AckedIsTrue'
<1>1. EffectsFit'
  BY EffectKept DEF Inv, Rows, EffectsFit
<1>2. AckedIsTrue'
  BY DEF Inv, Rows, AckedIsTrue, Onward
<1> QED BY <1>1, <1>2

LEMMA BindingsKept ==
  ASSUME Inv, Onward, \A b \in DOMAIN bindings' : b \in DOMAIN bindings
  PROVE  BindingsFit'
  BY DEF Inv, Rows, BindingsFit, Onward

\* More is bound than before.
LEMMA BoundGrows == ASSUME Onward PROVE Bound \subseteq Bound'
  BY DEF Bound, Onward

LEMMA MergesKept == ASSUME Inv, Onward, UNCHANGED mrs PROVE MergesFit'
  BY BoundGrows DEF Inv, Rows, MergesFit

LEMMA ItemKept == ASSUME Inv, Onward, UNCHANGED item PROVE ItemFits' /\ IntegratedIsProved'
<1>1. ItemFits'
  BY OpenedStays DEF Inv, Rows, ItemFits, Onward
<1>2. IntegratedIsProved'
  <2> SUFFICES ASSUME item.delivery = "INTEGRATED" PROVE IntegratedIsProved'
    BY DEF IntegratedIsProved
  <2>1. PICK k \in DOMAIN effects :
          /\ k.op = "MERGE" /\ k.binding = item.binding /\ effects[k].state = "SUCCEEDED"
          /\ mrs[bindings[k.binding].iid].state = "merged"
          /\ mrs[bindings[k.binding].iid].head = k.head
    BY DEF Inv, Rows, IntegratedIsProved
  <2>2. k.binding \in DOMAIN bindings /\ bindings[k.binding].iid \in DOMAIN mrs
    BY <2>1, EffectOfMerge, MergeIsThere
  <2>3. k \in DOMAIN effects' /\ effects'[k].state = "SUCCEEDED"
    BY <2>1 DEF Onward, Final
  <2>4. /\ mrs'[bindings'[k.binding].iid].state = "merged"
        /\ mrs'[bindings'[k.binding].iid].head = k.head
    BY <2>1, <2>2 DEF Onward
  <2> QED BY <2>1, <2>3, <2>4 DEF IntegratedIsProved
<1> QED BY <1>1, <1>2

LEMMA RequestsKept ==
  ASSUME Inv, Onward, \A m \in DOMAIN requests' : m \in DOMAIN requests
  PROVE  RequestsFit'
<1> SUFFICES ASSUME NEW m \in DOMAIN requests
             PROVE  /\ requests'[m].binding \in DOMAIN bindings' \cup {NoBinding}
                    /\ requests'[m].kind = "MERGE" =>
                         /\ requests'[m].binding \in DOMAIN bindings'
                         /\ Opened(requests[m].binding)'
  BY DEF RequestsFit
<1>1. requests'[m].kind = requests[m].kind /\ requests'[m].binding = requests[m].binding
  BY DEF Onward
<1>2. PICK b : b = requests[m].binding
  OBVIOUS
<1>3. b \in DOMAIN bindings => b \in DOMAIN bindings'
  BY DEF Onward
<1>4. /\ b \in DOMAIN bindings \cup {NoBinding}
      /\ requests[m].kind = "MERGE" => b \in DOMAIN bindings /\ Opened(b)
  BY <1>2 DEF Inv, Rows, RequestsFit
<1>5. requests[m].kind = "MERGE" => Opened(b)'
  BY <1>4, OpenedStays
<1>6. Opened(b)' => Opened(requests[m].binding)'
  BY <1>1, <1>2 DEF Opened
<1> QED BY <1>1, <1>2, <1>3, <1>4, <1>5, <1>6

\* Requests that are done stay answered for; those that become so are, too.
LEMMA DoneKept ==
  ASSUME Inv, Onward,
         \A m \in DOMAIN requests' : requests'[m].state = "PROCESSED" =>
           \/ /\ m \in DOMAIN requests /\ requests[m].state = "PROCESSED"
              /\ requests'[m].why = requests[m].why
           \/ \E k \in DOMAIN effects' : effects'[k].by = m /\ effects'[k].state # "PLANNED"
           \/ \E a \in answers' : a.key.msg = m /\ a.why = requests'[m].why
  PROVE  NoRequestDropped'
<1> SUFFICES ASSUME NEW m \in DOMAIN requests', requests'[m].state = "PROCESSED"
             PROVE  \/ \E k \in DOMAIN effects' : effects'[k].by = m /\ effects'[k].state # "PLANNED"
                    \/ \E a \in answers' : a.key.msg = m /\ a.why = requests'[m].why
  BY DEF NoRequestDropped, Own
<1>1. CASE /\ m \in DOMAIN requests /\ requests[m].state = "PROCESSED"
           /\ requests'[m].why = requests[m].why
  <2>1. \/ \E k \in DOMAIN effects : effects[k].by = m /\ effects[k].state # "PLANNED"
        \/ \E a \in answers : a.key.msg = m /\ a.why = requests[m].why
    BY <1>1 DEF Inv, Rows, NoRequestDropped, Own
  <2> QED BY <1>1, <2>1 DEF Onward
<1> QED BY <1>1
-----------------------------------------------------------------------------
(* Commits to the inbox row of one request.                                *)

\* A row of the inbox is replaced by one of the same request, which was not done.
Replaces(m, r) ==
  /\ m \in DOMAIN requests /\ r \in Requests /\ requests' = [requests EXCEPT ![m] = r]
  /\ r.kind = requests[m].kind /\ r.binding = requests[m].binding
  /\ requests[m].state # "PROCESSED"

LEMMA ReplacesTyped ==
  ASSUME Inv, NEW m, NEW r, Replaces(m, r)
  PROVE  /\ requests' \in Seq(Requests) /\ DOMAIN requests' = DOMAIN requests
         /\ requests'[m] = r /\ \A n \in DOMAIN requests : n # m => requests'[n] = requests[n]
<1>1. requests \in Seq(Requests)
  BY DEF Inv, TypeOK
<1> QED BY <1>1, RowTyped DEF Replaces

LEMMA ReplacesOnward ==
  ASSUME Inv, NEW m, NEW r, Replaces(m, r), UNCHANGED <<effects, bindings, gitlab>>,
         answers \subseteq answers'
  PROVE  Onward
<1>1. /\ DOMAIN requests' = DOMAIN requests /\ requests'[m] = r
      /\ \A n \in DOMAIN requests : n # m => requests'[n] = requests[n]
  BY ReplacesTyped
<1>2. mrs' = mrs
  BY DEF gitlab
<1> QED BY <1>1, <1>2 DEF Onward, Replaces

\* It is not handled, or still by the worker that handles it.
LEMMA ReplacesSteady ==
  ASSUME Inv, NEW m, NEW r, Replaces(m, r),
         r.state = "PROCESSING" =>
           /\ requests[m].state = "PROCESSING" /\ r.tries = requests[m].tries
           /\ r.why = requests[m].why
  PROVE  Steady
  BY ReplacesTyped DEF Steady, Replaces

\* The rows agree when a request is done only for a reason.
LEMMA ReplacesRows ==
  ASSUME Inv, NEW m, NEW r, Replaces(m, r), UNCHANGED <<delivery, effects, bindings, gitlab>>,
         r.state = "PROCESSED" =>
           \E k \in DOMAIN effects : effects[k].by = m /\ effects[k].state # "PLANNED"
  PROVE  Rows'
<1>1. Onward
  BY ReplacesOnward DEF delivery
<1>2. /\ DOMAIN requests' = DOMAIN requests /\ requests'[m] = r
      /\ \A n \in DOMAIN requests : n # m => requests'[n] = requests[n]
  BY ReplacesTyped
<1>3. UNCHANGED <<item, answers, effects, bindings, mrs>>
  BY DEF delivery, gitlab
<1>4. NoRequestDropped'
  BY <1>1, <1>2, <1>3, DoneKept
<1> QED BY <1>1, <1>2, <1>3, <1>4, EffectsKept, BindingsKept, MergesKept, ItemKept, RequestsKept
    DEF Rows

\* A lease passes (integration_sqlalchemy.py:73), or the relay hands a message over
\* (delivery_relay.py:85): no worker moves.
LEMMA ReplacesStep ==
  ASSUME Inv, NEW m, NEW r, Replaces(m, r), r.state # "PROCESSED",
         r.state = "PROCESSING" =>
           /\ requests[m].state = "PROCESSING" /\ r.tries = requests[m].tries
           /\ r.why = requests[m].why,
         UNCHANGED <<delivery, effects, bindings, gitlab, call, edits>>,
         Fault \/ UNCHANGED faults
  PROVE  Inv'
<1>1. Onward /\ Steady /\ requests' \in Seq(Requests)
  BY ReplacesOnward, ReplacesSteady, ReplacesTyped DEF delivery
<1>2. Rows'
  BY ReplacesRows
<1>3. CallsFit' /\ Leased' /\ Refusing'
  BY <1>1, AllFit, RefusalsStay
<1>4. TypeOK'
  BY <1>1, FaultTyped DEF Inv, TypeOK, delivery, gitlab
<1> QED BY <1>2, <1>3, <1>4 DEF Inv

LEMMA LapseRequestStep ==
  ASSUME Inv, NEW m \in DOMAIN requests, LapseRequest(m)
  PROVE  Inv'
<1> DEFINE r == [requests[m] EXCEPT !.due = TRUE]
<1>1. requests[m] \in Requests /\ requests \in Seq(Requests)
  BY DEF Inv, TypeOK
<1>2. r \in Requests /\ r.kind = requests[m].kind /\ r.binding = requests[m].binding
      /\ r.state = requests[m].state /\ r.tries = requests[m].tries /\ r.why = requests[m].why
  BY <1>1 DEF Requests
<1>3. requests' = [requests EXCEPT ![m] = r]
  BY DEF LapseRequest
<1>4. requests[m].state \in {"PROCESSING", "FAILED"}
  BY DEF LapseRequest
<1>5. UNCHANGED <<delivery, effects, bindings, gitlab, call, edits>> /\ (Fault \/ UNCHANGED faults)
  BY DEF LapseRequest, Expires
<1> HIDE DEF r
<1>6. Replaces(m, r)
  BY <1>2, <1>3, <1>4 DEF Replaces
<1> QED BY <1>2, <1>4, <1>5, <1>6, ReplacesStep

LEMMA RelayStep ==
  ASSUME Inv, NEW m \in DOMAIN requests, Relays(m)
  PROVE  Inv'
<1> DEFINE r == [requests[m] EXCEPT !.state = "RECEIVED"]
<1>1. requests[m] \in Requests /\ requests \in Seq(Requests)
  BY DEF Inv, TypeOK
<1>2. r \in Requests /\ r.kind = requests[m].kind /\ r.binding = requests[m].binding
      /\ r.state = "RECEIVED"
  BY <1>1 DEF Requests
<1>3. requests' = [requests EXCEPT ![m] = r] /\ requests[m].state = "SENT"
  BY DEF Relays, Relay
<1>4. UNCHANGED <<delivery, effects, bindings, gitlab, call, edits>> /\ UNCHANGED faults
  BY DEF Relays, Relay
<1> HIDE DEF r
<1>5. Replaces(m, r)
  BY <1>2, <1>3 DEF Replaces
<1> QED BY <1>2, <1>3, <1>4, <1>5, ReplacesStep

\* A worker commits the row of its request and goes on.
LEMMA InboxStep ==
  ASSUME Inv, NEW m, NEW r, Replaces(m, r),
         r.state = "PROCESSED" =>
           \E k \in DOMAIN effects : effects[k].by = m /\ effects[k].state # "PLANNED",
         UNCHANGED <<delivery, effects, bindings, gitlab, faults, edits>>, Steady,
         NEW w \in Workers, NEW d \in Calls, Moves(w, d), Keeps(w, d), d.at # "answer",
         Fits(call[w])'
  PROVE  Inv'
<1>1. Moved(w, d)
  BY MovesTyped DEF Inv, TypeOK
<1>2. Onward /\ requests' \in Seq(Requests)
  BY ReplacesOnward, ReplacesTyped DEF delivery
<1>3. CallsFit' /\ Leased' /\ Refusing'
  BY <1>1, <1>2, OthersFit, LeasesKept, RefusalsKept DEF Moved, Inv
<1>4. Rows'
  BY ReplacesRows
<1>5. TypeOK'
  BY <1>1, <1>2 DEF Inv, TypeOK, delivery, gitlab, Moved
<1> QED BY <1>3, <1>4, <1>5 DEF Inv

\* An idle worker fits, whatever the rows have become.
LEMMA IdleFitsNext == ASSUME NEW w \in Workers, call'[w] = IdleCall PROVE Fits(call[w])'
  BY DEF IdleCall, Fits, Jobs, Subject, Leaves, Sees, Stores, Final

\* An effect under way answers for its request (_integration_merge_completion.py:56).
LEMMA CloseSeenStep == ASSUME Inv, NEW w \in Workers, CloseSeen(w) PROVE Inv'
<1> DEFINE m == call[w].msg
           r == [requests[m] EXCEPT !.state = "PROCESSED"]
<1>1. call[w] \in Calls /\ Fits(call[w]) /\ call[w].at = "close"
      /\ UNCHANGED <<delivery, effects, bindings, gitlab, faults, edits>>
  BY DEF Inv, TypeOK, CallsFit, CloseSeen
<1>2. /\ call[w].job = "request" /\ m \in DOMAIN requests /\ ~call[w].fact /\ ~call[w].bare
      /\ Its(call[w]) /\ effects[call[w].key].state # "PLANNED"
  BY <1>1 DEF Fits, Jobs, Subject, Leaves, Stores
<1>3. CASE Holds(w)
  <2>1. requests[m] \in Requests
    BY <1>2 DEF Inv, TypeOK
  <2>2. r \in Requests /\ r.kind = requests[m].kind /\ r.binding = requests[m].binding
        /\ r.state = "PROCESSED"
    BY <2>1 DEF Requests
  <2>3. requests' = [requests EXCEPT ![m] = r] /\ requests[m].state = "PROCESSING"
    BY <1>3 DEF CloseSeen, Close, Holds, Mine
  <2> HIDE DEF r
  <2>4. Replaces(m, r)
    BY <1>2, <2>2, <2>3 DEF Replaces
  <2>5. Steady
    BY <2>2, <2>4, ReplacesSteady
  <2>6. requests'[m] = r /\ DOMAIN requests' = DOMAIN requests
    BY <2>4, ReplacesTyped
  <2>7. PICK at \in {"reread", "tell"} :
          at = IF Mine(w).kind = "CREATE" THEN "reread" ELSE "tell"
    OBVIOUS
  <2> DEFINE d == [call[w] EXCEPT !.at = at]
  <2>8. Moves(w, d)
    BY <1>3, <2>7 DEF CloseSeen, Goto
  <2>9. d \in Calls
    BY <1>1 DEF Calls, Places
  <2>10. /\ d.at = at /\ d.job = "request" /\ d.msg = m /\ d.key = call[w].key
         /\ d.mtries = call[w].mtries /\ d.state = call[w].state /\ d.why = call[w].why
         /\ ~d.fact /\ ~d.bare
    BY <1>1, <1>2 DEF Calls
  <2> HIDE DEF d
  <2>11. call'[w] = d /\ effects' = effects
    BY <1>1, <2>8, <2>9, MovesTyped DEF Moved, Inv, TypeOK
  <2>12. Fits(call[w])'
    BY <1>1, <1>2, <2>2, <2>6, <2>10, <2>11
    DEF Fits, Jobs, Subject, Its, Leaves, Sees, Stores
  <2>13. Keeps(w, d)
    BY <1>2, <2>10 DEF Keeps
  <2>14. \E k \in DOMAIN effects : effects[k].by = m /\ effects[k].state # "PLANNED"
    BY <1>2 DEF Its
  <2> HIDE DEF m
  <2> QED BY <1>1, <2>4, <2>5, <2>8, <2>9, <2>10, <2>12, <2>13, <2>14, InboxStep
<1>4. CASE ~Holds(w)
  <2>1. Leave(w) /\ Quiet /\ UNCHANGED <<faults, edits>>
    BY <1>1, <1>4 DEF CloseSeen, Quiet, rows
  <2> QED BY <2>1, LeaveStep
<1> QED BY <1>3, <1>4

\* A request that is to be tried again (integration_sqlalchemy.py:175).
LEMMA ReleaseStep == ASSUME Inv, NEW w \in Workers, Release(w) PROVE Inv'
<1> DEFINE m == call[w].msg
           r == [requests[m] EXCEPT !.state = "FAILED"]
<1>1. call[w] \in Calls /\ Fits(call[w]) /\ call[w].at = "release" /\ Moves(w, IdleCall)
      /\ UNCHANGED <<delivery, effects, bindings, gitlab, faults, edits>>
  BY DEF Inv, TypeOK, CallsFit, Release, Leave
<1>2. m \in DOMAIN requests
  BY <1>1 DEF Fits, Jobs
<1>3. CASE Holds(w)
  <2>1. requests[m] \in Requests
    BY <1>2 DEF Inv, TypeOK
  <2>2. r \in Requests /\ r.kind = requests[m].kind /\ r.binding = requests[m].binding
        /\ r.state = "FAILED"
    BY <2>1 DEF Requests
  <2>3. requests' = [requests EXCEPT ![m] = r] /\ requests[m].state = "PROCESSING"
    BY <1>3 DEF Release, Holds, Mine
  <2> HIDE DEF r
  <2>4. Replaces(m, r)
    BY <1>2, <2>2, <2>3 DEF Replaces
  <2>5. Steady
    BY <2>2, <2>4, ReplacesSteady
  <2>6. Keeps(w, IdleCall) /\ IdleCall.at # "answer" /\ IdleCall \in Calls
    BY IdleTyped DEF Keeps, IdleCall
  <2>7. call'[w] = IdleCall
    BY <1>1, <2>6, MovesTyped DEF Moved, Inv, TypeOK
  <2>8. Fits(call[w])'
    BY <2>7, IdleFitsNext
  <2> HIDE DEF m
  <2> QED BY <1>1, <2>2, <2>4, <2>5, <2>6, <2>8, InboxStep
<1>4. CASE ~Holds(w)
  <2>1. Leave(w) /\ Quiet /\ UNCHANGED <<faults, edits>>
    BY <1>1, <1>4 DEF Release, Quiet, rows
  <2> QED BY <2>1, LeaveStep
<1> QED BY <1>3, <1>4

\* A request is taken, under a lease nobody holds (integration_sqlalchemy.py:117).
LEMMA TakeRequestStep ==
  ASSUME Inv, NEW w \in Workers, NEW m \in DOMAIN requests, TakeRequest(w, m)
  PROVE  Inv'
<1> DEFINE U == {u \in Workers : call[u].msg = m}
           tries == Fresh({call[v].mtries : v \in U})
           r == [requests[m] EXCEPT !.state = "PROCESSING", !.tries = tries, !.due = FALSE]
           d == [IdleCall EXCEPT !.at = "facts", !.job = "request", !.msg = m,
                                 !.mtries = tries, !.rev = requests[m].rev]
<1>1. /\ call[w].at = "idle" /\ requests' = [requests EXCEPT ![m] = r] /\ Moves(w, d)
      /\ requests[m].state \in {"RECEIVED", "FAILED", "PROCESSING"}
      /\ UNCHANGED <<delivery, effects, bindings, gitlab, faults, edits>>
  BY DEF TakeRequest
<1>2. tries \in Nat /\ tries \notin {call[v].mtries : v \in U}
  <2> DEFINE f == [v \in U |-> call[v].mtries]
  <2>1. f \in [U -> Nat]
    BY DEF Inv, TypeOK, Calls
  <2>2. {f[v] : v \in U} = {call[v].mtries : v \in U}
    OBVIOUS
  <2>3. U \in SUBSET Workers
    OBVIOUS
  <2> HIDE DEF f, U
  <2>4. Fresh({f[v] : v \in U}) \in Nat /\ Fresh({f[v] : v \in U}) \notin {f[v] : v \in U}
    BY <2>1, <2>3, FreshIsFree
  <2> QED BY <2>2, <2>4
<1>3. \A v \in Workers : call[v].msg = m => call[v].mtries # tries
  BY <1>2
<1> HIDE DEF tries
<1>4. requests[m] \in Requests /\ m \in Nat
  BY DEF Inv, TypeOK
<1>5. r \in Requests /\ r.kind = requests[m].kind /\ r.binding = requests[m].binding
      /\ r.state = "PROCESSING" /\ r.tries = tries
  BY <1>2, <1>4 DEF Requests
<1>6. d \in Calls
  <2>1. requests[m].rev \in Nat
    BY <1>4 DEF Requests
  <2> QED BY <1>2, <1>4, <2>1, TakenTyped
<1>7. /\ d.at = "facts" /\ d.job = "request" /\ d.msg = m /\ d.mtries = tries
      /\ d.key = NoKey /\ d.state = "NONE" /\ d.why = "NONE" /\ ~d.fact /\ ~d.bare
  BY DEF IdleCall
<1> HIDE DEF r, d
<1>8. Replaces(m, r)
  BY <1>1, <1>5 DEF Replaces
<1>9. Onward /\ requests' \in Seq(Requests) /\ requests'[m] = r /\ DOMAIN requests' = DOMAIN requests
      /\ \A n \in DOMAIN requests : n # m => requests'[n] = requests[n]
  BY <1>1, <1>8, ReplacesOnward, ReplacesTyped DEF delivery
<1>10. Moved(w, d)
  BY <1>1, <1>6, MovesTyped DEF Inv, TypeOK
<1>11. Fits(call[w])'
  BY <1>7, <1>9, <1>10 DEF Moved, Fits, Jobs, Subject, Leaves, Sees, Stores, Final
<1>12. CallsFit'
  BY <1>9, <1>10, <1>11, OthersFit DEF Moved
<1>13. Leased'
  BY <1>3, <1>7, <1>10 DEF Inv, Leased, Moved
<1>14. Refusing'
  <2> SUFFICES ASSUME NEW v \in Workers, v # w, call[v].at = "answer", Holds(v)',
                      call'[v] = call[v]
               PROVE  Mine(v)'.why = call[v].why
    BY <1>7, <1>10 DEF Refusing, Moved
  <2>1. call[v].msg \in DOMAIN requests
    BY DEF Inv, CallsFit, Fits, Jobs
  <2>2. call[v].msg # m
    BY <1>3, <1>5, <1>9 DEF Holds, Mine
  <2> QED BY <1>9, <2>1, <2>2 DEF Inv, Refusing, Holds, Mine
<1>15. Rows'
  BY <1>1, <1>5, <1>8, ReplacesRows
<1>16. TypeOK'
  BY <1>1, <1>9, <1>10 DEF Inv, TypeOK, delivery, gitlab, Moved
<1> QED BY <1>12, <1>13, <1>14, <1>15, <1>16 DEF Inv
-----------------------------------------------------------------------------
(* What the work item is told.                                             *)

\* A telling says what is stored.
Said(t) ==
  /\ t.kind \in {"ready", "blocked", "pending", "merged", "drift"}
  /\ t.why \in Reasons \cup {"NONE"}
  /\ t.binding \in DOMAIN bindings \cup {NoBinding}
  /\ t.kind = "ready" =>
       /\ t.binding \in DOMAIN bindings
       /\ t.key = [about |-> Creation(t.binding), msg |-> 0, why |-> "NONE"]
       /\ Creation(t.binding) \in DOMAIN effects
       /\ effects[Creation(t.binding)].state = "SUCCEEDED"
  /\ t.kind = "merged" /\ t.binding # NoBinding =>
       \E k \in DOMAIN effects :
         k.op = "MERGE" /\ k.binding = t.binding /\ effects[k].state = "SUCCEEDED"

\* Recording it keeps the work item true to the rows (requirement/delivery_relay.py:381).
LEMMA RecordFits ==
  ASSUME Inv, Onward, NEW t, Said(t), Accepts(t), Record(t)
  PROVE  /\ item' \in Items /\ req' \in {"READY", "IN_PROGRESS", "VERIFYING"}
         /\ ItemFits' /\ IntegratedIsProved' /\ t \in answers' /\ answers \subseteq answers'
<1>1. item \in Items /\ req \in {"READY", "IN_PROGRESS", "VERIFYING"}
  BY DEF Inv, TypeOK
<1>2. t \in answers' /\ answers \subseteq answers' /\ req' \in {"READY", "IN_PROGRESS", "VERIFYING"}
  BY <1>1 DEF Record
<1>3. CASE Used(t)
  <2>1. UNCHANGED item
    BY <1>3 DEF Record
  <2> QED BY <1>1, <1>2, <2>1, ItemKept
<1>4. CASE ~Used(t)
  <2> DEFINE p == Projected(t)
  <2>1. item' = p /\ Admits(t)
    BY <1>4 DEF Record, Accepts
  <2>2. t.binding \in Bindings
    BY MergeIsThere DEF Said, Bindings
  <2>3. /\ p.state \in {"READY", "IN_PROGRESS", "VERIFYING"} /\ p.rev \in Nat
        /\ p.why \in Reasons \cup {"NONE"} /\ p.binding \in Bindings
        /\ p.delivery = Shown(t) /\ Shown(t) \in DeliveryStates
        /\ p = [state |-> p.state, delivery |-> p.delivery, why |-> p.why,
                binding |-> p.binding, rev |-> p.rev]
    BY <1>1, <2>2 DEF Projected, Items, Said, Shown, DeliveryStates
  <2>4. p \in Items
    <3> HIDE DEF p
    <3> QED BY <2>3 DEF Items
  <2>5. p.binding = IF item.binding # NoBinding THEN item.binding ELSE t.binding
    BY DEF Projected
  <2> HIDE DEF p
  <2>6. item.binding \in DOMAIN bindings \cup {NoBinding}
    BY DEF Inv, Rows, ItemFits
  <2>7. item'.binding \in DOMAIN bindings' \cup {NoBinding}
    BY <2>1, <2>5, <2>6 DEF Said, Onward
  <2>8. ASSUME item'.delivery = "MR_OPEN", item'.binding # NoBinding
        PROVE  Opened(item.binding)'
    <3>1. t.kind = "ready"
      BY <2>1, <2>3, <2>8 DEF Shown
    <3>2. p.binding = t.binding
      BY <2>1, <2>5, <3>1 DEF Admits
    <3>3. PICK b : b = t.binding
      OBVIOUS
    <3>4. /\ Creation(b) \in DOMAIN effects' /\ effects'[Creation(b)].state = "SUCCEEDED"
          /\ t.key = [about |-> Creation(b), msg |-> 0, why |-> "NONE"]
      BY <3>1, <3>3 DEF Said, Onward, Final
    <3>5. item'.binding = b
      BY <2>1, <3>2, <3>3
    <3> QED BY <1>2, <3>1, <3>4, <3>5 DEF Opened
  <2>9. ItemFits'
    BY <2>7, <2>8 DEF ItemFits
  <2>10. ASSUME item'.delivery = "INTEGRATED"
         PROVE  IntegratedIsProved'
    <3>1. t.kind = "merged"
      BY <2>1, <2>3, <2>10 DEF Shown
    <3>2. t.binding = item.binding /\ item.binding # NoBinding
      BY <2>1, <3>1 DEF Admits
    <3>3. PICK k \in DOMAIN effects :
            k.op = "MERGE" /\ k.binding = t.binding /\ effects[k].state = "SUCCEEDED"
      BY <3>1, <3>2 DEF Said
    <3>4. k.binding \in DOMAIN bindings /\ bindings[k.binding].iid \in DOMAIN mrs
      BY <3>3, EffectOfMerge, MergeIsThere
    <3>5. Merged(bindings[k.binding].iid, k.head)
      BY <3>3 DEF Inv, Rows, EffectsFit, EffectFits
    <3>6. k \in DOMAIN effects' /\ effects'[k].state = "SUCCEEDED"
      BY <3>3 DEF Onward, Final
    <3>7. /\ mrs'[bindings'[k.binding].iid].state = "merged"
          /\ mrs'[bindings'[k.binding].iid].head = k.head
      BY <3>4, <3>5 DEF Onward, Merged
    <3>8. item'.binding = k.binding
      BY <2>1, <2>5, <3>2, <3>3
    <3> QED BY <3>3, <3>6, <3>7, <3>8 DEF IntegratedIsProved
  <2>11. IntegratedIsProved'
    BY <2>10 DEF IntegratedIsProved
  <2> QED BY <1>2, <2>1, <2>4, <2>9, <2>11
<1> QED BY <1>3, <1>4

\* A refusal is told under the lock of the inbox row (_integration_callbacks.py:359).
LEMMA RefusalSaid ==
  ASSUME Inv, NEW w \in Workers, call[w].at = "answer"
  PROVE  /\ Said(Refusal(w)) /\ call[w].msg \in DOMAIN requests
         /\ Refusal(w).key.msg = call[w].msg /\ Refusal(w).why = call[w].why
<1>1. call[w] \in Calls /\ Fits(call[w])
  BY DEF Inv, TypeOK, CallsFit
<1>2. call[w].msg \in DOMAIN requests
  BY <1>1 DEF Fits, Jobs
<1>3. requests[call[w].msg].binding \in DOMAIN bindings \cup {NoBinding}
  BY <1>2 DEF Inv, Rows, RequestsFit
<1>4. call[w].why \in Reasons \cup {"NONE"}
  BY <1>1 DEF Calls
<1>5. /\ Refusal(w).kind \in {"drift", "blocked"} /\ Refusal(w).why = call[w].why
      /\ Refusal(w).binding = requests[call[w].msg].binding
      /\ Refusal(w).key.msg = call[w].msg
  BY DEF Refusal, Mine
<1> QED BY <1>2, <1>3, <1>4, <1>5 DEF Said

LEMMA AnswerStep == ASSUME Inv, NEW w \in Workers, Answer(w) PROVE Inv'
<1> DEFINE m == call[w].msg
           r == [requests[m] EXCEPT !.state = "PROCESSED"]
<1>1. /\ call[w].at = "answer" /\ Moves(w, IdleCall)
      /\ UNCHANGED <<effects, bindings, gitlab, edits>>
  BY DEF Answer, Leave
<1>2. PICK t : t = Refusal(w)
  OBVIOUS
<1>3. Said(t) /\ m \in DOMAIN requests /\ t.key.msg = m /\ t.why = call[w].why
  BY <1>1, <1>2, RefusalSaid
<1>4. Moved(w, IdleCall) /\ Keeps(w, IdleCall)
  BY <1>1, IdleTyped, MovesTyped DEF Inv, TypeOK, Keeps, IdleCall
<1>5. Fits(call[w])'
  BY <1>4, IdleFitsNext DEF Moved
<1>6. ASSUME Holds(w), Accepts(t), Record(t), Fault \/ UNCHANGED faults,
             Onward, Steady, requests' \in Seq(Requests),
             DOMAIN requests' = DOMAIN requests,
             \A n \in DOMAIN requests : n # m => requests'[n] = requests[n],
             requests'[m].why = requests[m].why
      PROVE  Inv'
  <2>1. /\ item' \in Items /\ req' \in {"READY", "IN_PROGRESS", "VERIFYING"}
        /\ ItemFits' /\ IntegratedIsProved' /\ t \in answers'
    BY <1>3, <1>6, RecordFits
  <2>2. requests[m].why = call[w].why
    BY <1>1, <1>6 DEF Inv, Refusing, Mine
  <2>3. NoRequestDropped'
    <3>1. \A n \in DOMAIN requests : n # m => requests'[n].why = requests[n].why
                                              /\ requests'[n].state = requests[n].state
      BY <1>6
    <3>2. \E a \in answers' : a.key.msg = m /\ a.why = requests'[m].why
      BY <1>3, <1>6, <2>1, <2>2
    <3> HIDE DEF m
    <3> QED BY <1>6, <3>1, <3>2, DoneKept
  <2>4. mrs' = mrs
    BY <1>1 DEF gitlab
  <2>5. Rows'
    BY <1>1, <1>6, <2>1, <2>3, <2>4, EffectsKept, BindingsKept, MergesKept, RequestsKept
    DEF Rows
  <2>6. CallsFit' /\ Leased'
    BY <1>4, <1>5, <1>6, OthersFit, LeasesKept DEF Moved, Inv
  <2>7. Refusing'
    BY <1>4, <1>6, RefusalsKept DEF Moved, IdleCall
  <2>8. TypeOK'
    BY <1>1, <1>4, <1>6, <2>1, FaultTyped DEF Inv, TypeOK, gitlab, Moved
  <2> QED BY <2>5, <2>6, <2>7, <2>8 DEF Inv
<1>7. CASE Holds(w) /\ Accepts(Refusal(w)) /\ Record(Refusal(w)) /\ Close(w) /\ UNCHANGED faults
  <2>1. Accepts(t) /\ Record(t)
    BY <1>2, <1>7
  <2>2. requests[m] \in Requests
    BY <1>3 DEF Inv, TypeOK
  <2>3. r \in Requests /\ r.kind = requests[m].kind /\ r.binding = requests[m].binding
        /\ r.state = "PROCESSED" /\ r.why = requests[m].why
    BY <2>2 DEF Requests
  <2>4. requests' = [requests EXCEPT ![m] = r] /\ requests[m].state = "PROCESSING"
    BY <1>7 DEF Close, Holds, Mine
  <2> HIDE DEF r
  <2>5. Replaces(m, r)
    BY <1>3, <2>3, <2>4 DEF Replaces
  <2>6. answers \subseteq answers'
    BY <2>1 DEF Record
  <2> HIDE DEF m
  <2>7. Onward /\ Steady
    BY <1>1, <2>3, <2>5, <2>6, ReplacesOnward, ReplacesSteady
  <2>8. /\ requests' \in Seq(Requests) /\ DOMAIN requests' = DOMAIN requests
        /\ requests'[m] = r /\ \A n \in DOMAIN requests : n # m => requests'[n] = requests[n]
    BY <2>5, ReplacesTyped
  <2> QED BY <1>6, <1>7, <2>1, <2>3, <2>7, <2>8
<1>8. CASE Holds(w) /\ Accepts(Refusal(w)) /\ Record(Refusal(w)) /\ Fault /\ UNCHANGED requests
  <2>1. Accepts(t) /\ Record(t)
    BY <1>2, <1>8
  <2>2. answers \subseteq answers'
    BY <2>1 DEF Record
  <2>3. Onward /\ Steady
    BY <1>1, <1>8, <2>2 DEF Onward, Steady, gitlab
  <2> QED BY <1>6, <1>8, <2>1, <2>3 DEF Inv, TypeOK
<1>9. CASE UNCHANGED <<delivery, requests, faults>>
  BY <1>1, <1>9, LeaveStep DEF Quiet, rows, Leave
<1> QED BY <1>7, <1>8, <1>9 DEF Answer
-----------------------------------------------------------------------------
(* A refusal, and what was seen of a merge request, are stored.            *)

\* An observation is added to a binding, which stays what it is.
LEMMA ObserveTyped ==
  ASSUME Inv, NEW b \in DOMAIN bindings, NEW c \in Calls, c.got \in MergeStates,
         Observe(b, c)
  PROVE  /\ DOMAIN bindings' = DOMAIN bindings
         /\ \A a \in DOMAIN bindings :
              bindings'[a] \in BindingRows /\ bindings'[a].iid = bindings[a].iid
<1> DEFINE row == [bindings[b] EXCEPT !.facts = Append(@, Observed(c))]
<1>1. \A a \in DOMAIN bindings : bindings[a] \in BindingRows
  BY DEF Inv, TypeOK
<1>2. Observed(c) \in Facts
  BY DEF Observed, Facts, Calls
<1>3. row \in BindingRows /\ row.iid = bindings[b].iid
  <2>1. Append(bindings[b].facts, Observed(c)) \in Seq(Facts)
    BY <1>1, <1>2 DEF BindingRows
  <2> QED BY <1>1, <2>1 DEF BindingRows
<1>4. bindings' = [bindings EXCEPT ![b] = row]
  BY DEF Observe
<1> HIDE DEF row
<1> QED BY <1>1, <1>3, <1>4

\* The refusal of a request is stored (integration_sqlalchemy.py:203).
LEMMA MarkStep == ASSUME Inv, NEW w \in Workers, Mark(w) PROVE Inv'
<1> DEFINE m == call[w].msg
           r == [requests[m] EXCEPT !.why = call[w].why]
           d == [call[w] EXCEPT !.at = "answer"]
<1>1. call[w] \in Calls /\ Fits(call[w]) /\ call[w].at = "mark"
      /\ UNCHANGED <<delivery, effects, gitlab, faults, edits>>
  BY DEF Inv, TypeOK, CallsFit, Mark
<1>2. /\ call[w].job = "request" /\ m \in DOMAIN requests /\ ~call[w].bare
      /\ call[w].state \in {"NONE", "PLANNED"}
      /\ call[w].fact => call[w].got \in MergeStates /\ requests[m].kind = "MERGE"
  BY <1>1 DEF Fits, Jobs, Leaves, Stores
<1>3. CASE ~(Holds(w) /\ (call[w].fact => News(Mine(w).binding, call[w])))
  <2>1. Leave(w) /\ Quiet /\ UNCHANGED <<faults, edits>>
    BY <1>1, <1>3 DEF Mark, Quiet, rows
  <2> QED BY <2>1, LeaveStep
<1>4. CASE Holds(w) /\ (call[w].fact => News(Mine(w).binding, call[w]))
  <2>1. requests[m] \in Requests /\ requests[m].state = "PROCESSING"
        /\ requests[m].tries = call[w].mtries
    BY <1>2, <1>4 DEF Inv, TypeOK, Holds, Mine
  <2>2. r \in Requests /\ r.kind = requests[m].kind /\ r.binding = requests[m].binding
        /\ r.state = "PROCESSING" /\ r.tries = requests[m].tries /\ r.why = call[w].why
    <3>1. call[w].why \in Reasons \cup {"NONE"}
      BY <1>1 DEF Calls
    <3> QED BY <2>1, <3>1 DEF Requests
  <2>3. /\ requests' = [requests EXCEPT ![m] = r] /\ Moves(w, d)
        /\ IF call[w].fact THEN Observe(Mine(w).binding, call[w]) ELSE UNCHANGED bindings
    BY <1>4 DEF Mark, Goto
  <2>4. d \in Calls
    BY <1>1 DEF Calls, Places
  <2>5. /\ d.at = "answer" /\ d.job = "request" /\ d.msg = m /\ d.mtries = call[w].mtries
        /\ d.state = call[w].state /\ d.why = call[w].why /\ ~d.bare
        /\ d.key = call[w].key
    BY <1>1, <1>2 DEF Calls
  <2> HIDE DEF r, d
  <2>6. Replaces(m, r)
    BY <1>2, <2>1, <2>2, <2>3 DEF Replaces
  <2>7. /\ requests' \in Seq(Requests) /\ DOMAIN requests' = DOMAIN requests
        /\ requests'[m] = r /\ \A n \in DOMAIN requests : n # m => requests'[n] = requests[n]
    BY <2>6, ReplacesTyped
  <2>8. /\ DOMAIN bindings' = DOMAIN bindings
        /\ \A a \in DOMAIN bindings :
             bindings'[a] \in BindingRows /\ bindings'[a].iid = bindings[a].iid
    <3>1. CASE call[w].fact
      <4>1. Mine(w).binding \in DOMAIN bindings
        BY <1>2, <3>1 DEF Inv, Rows, RequestsFit, Mine
      <4> QED BY <1>1, <1>2, <2>3, <3>1, <4>1, ObserveTyped
    <3>2. CASE ~call[w].fact
      BY <2>3, <3>2 DEF Inv, TypeOK
    <3> QED BY <3>1, <3>2
  <2>9. Onward
    <3>1. UNCHANGED <<effects, mrs, answers>>
      BY <1>1 DEF delivery, gitlab
    <3>2. \A n \in DOMAIN requests :
            /\ n \in DOMAIN requests' /\ requests'[n].kind = requests[n].kind
            /\ requests'[n].binding = requests[n].binding
            /\ requests[n].state = "PROCESSED" => requests'[n].state = "PROCESSED"
      <4> HIDE DEF m
      <4> QED BY <2>1, <2>2, <2>7
    <3> QED BY <2>8, <3>1, <3>2 DEF Onward
  <2>10. NoRequestDropped'
    <3>1. \A n \in DOMAIN requests' : requests'[n].state = "PROCESSED" => n # m
      BY <2>2, <2>7
    <3> QED BY <2>7, <2>9, <3>1, DoneKept
  <2>11. UNCHANGED <<item, mrs>>
    BY <1>1 DEF delivery, gitlab
  <2>12. Rows'
    BY <1>1, <2>7, <2>8, <2>9, <2>10, <2>11,
       EffectsKept, BindingsKept, MergesKept, ItemKept, RequestsKept DEF Rows
  <2>13. Moved(w, d) /\ Keeps(w, d)
    BY <1>2, <2>3, <2>4, <2>5, MovesTyped DEF Inv, TypeOK, Keeps
  <2>14. Fits(call[w])'
    BY <1>1, <1>2, <2>5, <2>7, <2>13
    DEF Moved, Fits, Jobs, Subject, Leaves, Sees, Stores, Final
  <2>15. CallsFit' /\ Leased'
    BY <2>9, <2>13, <2>14, OthersFit, LeasesKept DEF Moved, Inv
  <2>16. Refusing'
    <3> SUFFICES ASSUME NEW v \in Workers, call'[v].at = "answer", Holds(v)'
                 PROVE  Mine(v)'.why = call'[v].why
      BY DEF Refusing
    <3>1. CASE v = w
      BY <2>2, <2>5, <2>7, <2>13, <3>1 DEF Moved, Mine
    <3>2. CASE v # w
      <4>1. call'[v] = call[v] /\ call[v].job = "request" /\ call[v].msg \in DOMAIN requests
        BY <2>13, <3>2 DEF Moved, Inv, CallsFit, Fits, Jobs
      <4>2. call[v].msg # m
        BY <1>2, <2>1, <2>2, <2>7, <3>2, <4>1 DEF Inv, Leased, Holds, Mine
      <4> QED BY <2>7, <4>1, <4>2 DEF Inv, Refusing, Holds, Mine
    <3> QED BY <3>1, <3>2
  <2>17. TypeOK'
    BY <1>1, <2>7, <2>8, <2>13 DEF Inv, TypeOK, delivery, gitlab, Moved
  <2> QED BY <2>12, <2>15, <2>16, <2>17 DEF Inv
<1> QED BY <1>3, <1>4
-----------------------------------------------------------------------------
(* Commits to the rows of effects and bindings.                            *)

\* The tables of the database and of GitLab hold rows of their types.
Tables ==
  /\ req \in {"READY", "IN_PROGRESS", "VERIFYING"} /\ item \in Items
  /\ requests \in Seq(Requests)
  /\ DOMAIN effects \subseteq Keys /\ \A k \in DOMAIN effects : effects[k] \in Effects
  /\ DOMAIN bindings \subseteq Heads
  /\ \A b \in DOMAIN bindings : bindings[b] \in BindingRows
  /\ mrs \in Seq(MergeRequests) /\ branch \in Heads \cup {Gone}
  /\ faults \in Nat /\ edits \in Nat

\* A worker commits and goes on.
LEMMA CommitStep ==
  ASSUME Inv, Onward, Steady, Rows', Tables', NEW w \in Workers, NEW d \in Calls,
         Moves(w, d), Keeps(w, d), d.at # "answer", Fits(call[w])'
  PROVE  Inv'
<1>1. Moved(w, d)
  BY MovesTyped DEF Inv, TypeOK
<1>2. CallsFit' /\ Leased' /\ Refusing'
  BY <1>1, OthersFit, LeasesKept, RefusalsKept DEF Moved, Inv
<1>3. TypeOK'
  BY <1>1 DEF Tables, TypeOK, Moved
<1> QED BY <1>2, <1>3 DEF Inv

\* What GitLab and the work item show does not change.
LEMMA RowsOnward ==
  ASSUME Inv, Onward, EffectsFit', AckedIsTrue', BindingsFit', NoRequestDropped',
         UNCHANGED <<item, mrs>>, DOMAIN requests' = DOMAIN requests
  PROVE  Rows'
  BY MergesKept, ItemKept, RequestsKept DEF Rows

\* The row of an effect is replaced: it goes forward, and an outcome is for good.
Turns(k, e) ==
  /\ k \in DOMAIN effects /\ e \in Effects /\ effects' = [effects EXCEPT ![k] = e]
  /\ e.by = effects[k].by
  /\ effects[k].state # "PLANNED" => e.state # "PLANNED"
  /\ effects[k].state \in Final => e.state = effects[k].state /\ e.why = effects[k].why

LEMMA TurnsTyped ==
  ASSUME Inv, NEW k, NEW e, Turns(k, e)
  PROVE  /\ DOMAIN effects' = DOMAIN effects /\ effects'[k] = e
         /\ \A x \in DOMAIN effects : x # k => effects'[x] = effects[x]
         /\ \A x \in DOMAIN effects :
              /\ effects'[x] \in Effects /\ effects'[x].by = effects[x].by
              /\ effects[x].state # "PLANNED" => effects'[x].state # "PLANNED"
              /\ effects[x].state \in Final =>
                   effects'[x].state = effects[x].state /\ effects'[x].why = effects[x].why
<1>1. \A x \in DOMAIN effects : effects[x] \in Effects
  BY DEF Inv, TypeOK
<1> QED BY <1>1 DEF Turns

LEMMA TurnsFits ==
  ASSUME Inv, Onward, NEW k, NEW e, Turns(k, e),
         e.state = "PLANNED" => e.why = "NONE",
         e.told # "PENDING" /\ e.state \in {"PLANNED", "IN_FLIGHT"} =>
           requests'[e.by].state = "PROCESSED",
         e.state = "SUCCEEDED" =>
           /\ k.op = "CREATE" => k.binding \in DOMAIN bindings'
           /\ k.op = "MERGE" => Merged(bindings[k.binding].iid, k.head)',
         e.state \in Final /\ e.told = "ACKED" =>
           \E a \in answers' :
             /\ a.key.about = k
             /\ IF e.state = "SUCCEEDED" THEN a.kind \in {"ready", "merged"}
                ELSE a.kind \in {"blocked", "drift"} /\ a.why = e.why
  PROVE  EffectsFit' /\ AckedIsTrue'
<1>1. /\ k \in DOMAIN effects /\ DOMAIN effects' = DOMAIN effects /\ effects'[k] = e
      /\ \A x \in DOMAIN effects : x # k => effects'[x] = effects[x]
  BY TurnsTyped DEF Turns
<1>2. e.by \in DOMAIN requests' /\ Belongs(k, requests'[e.by])
  BY <1>1 DEF Inv, Rows, EffectsFit, EffectFits, Turns, Onward, Belongs
<1>3. EffectFits(k)'
  BY <1>1, <1>2 DEF EffectFits
<1>4. EffectsFit'
  <2>1. \A x \in DOMAIN effects : x # k => EffectFits(x)'
    BY <1>1, EffectKept
  <2> QED BY <1>1, <1>3, <2>1 DEF EffectsFit, Inv, Rows
<1>5. AckedIsTrue'
  <2> SUFFICES ASSUME NEW x \in DOMAIN effects, x # k,
                      effects[x].state \in Final, effects[x].told = "ACKED"
               PROVE  \E a \in answers' :
                        /\ a.key.about = x
                        /\ IF effects[x].state = "SUCCEEDED" THEN a.kind \in {"ready", "merged"}
                           ELSE a.kind \in {"blocked", "drift"} /\ a.why = effects[x].why
    BY <1>1 DEF AckedIsTrue
  <2> QED BY DEF Inv, Rows, AckedIsTrue, Onward
<1> QED BY <1>4, <1>5

\* The row of an effect that is not over is all that changes.
LEMMA TurnsRows ==
  ASSUME Inv, NEW k, NEW e, Turns(k, e), e.state \notin Final,
         e.state = "PLANNED" => e.why = "NONE",
         e.told # "PENDING" /\ e.state \in {"PLANNED", "IN_FLIGHT"} =>
           requests[e.by].state = "PROCESSED",
         UNCHANGED <<delivery, requests, bindings, gitlab, edits>>, Fault \/ UNCHANGED faults
  PROVE  Onward /\ Steady /\ Rows' /\ Tables'
<1>1. UNCHANGED <<req, item, answers, mrs, branch>>
  BY DEF delivery, gitlab
<1>2. DOMAIN effects' = DOMAIN effects /\ \A x \in DOMAIN effects : effects'[x] \in Effects
  BY TurnsTyped
<1>3. Onward
  BY <1>1, TurnsTyped DEF Onward
<1>4. Steady
  BY DEF Steady
<1>5. EffectsFit' /\ AckedIsTrue'
  BY <1>3, TurnsFits DEF Final
<1>6. BindingsFit' /\ NoRequestDropped'
  BY <1>3, BindingsKept, DoneKept
<1>7. Rows'
  BY <1>1, <1>3, <1>5, <1>6, RowsOnward
<1>8. Tables'
  BY <1>1, <1>2, FaultTyped DEF Inv, TypeOK, Tables
<1> QED BY <1>3, <1>4, <1>7, <1>8

\* The lease of an effect passes (merge_sqlalchemy.py:252).
LEMMA LapseEffectStep == ASSUME Inv, LapseEffect PROVE Inv'
<1>1. PICK k \in DOMAIN effects :
        /\ effects[k].state \in Unsettled
        /\ effects' = [effects EXCEPT ![k].due = TRUE]
  BY DEF LapseEffect
<1> DEFINE e == [effects[k] EXCEPT !.due = TRUE]
<1>2. effects[k] \in Effects /\ EffectFits(k)
  BY DEF Inv, TypeOK, Rows, EffectsFit
<1>3. /\ e \in Effects /\ e.by = effects[k].by /\ e.state = effects[k].state
      /\ e.why = effects[k].why /\ e.told = effects[k].told
  BY <1>2 DEF Effects
<1>4. effects' = [effects EXCEPT ![k] = e]
  BY <1>1
<1> HIDE DEF e
<1>5. Turns(k, e) /\ e.state \notin Final /\ e.state # "PLANNED"
  BY <1>1, <1>3, <1>4 DEF Turns, Unsettled, Final
<1>6. /\ UNCHANGED <<delivery, requests, bindings, gitlab, edits, call>>
      /\ Fault \/ UNCHANGED faults
  BY DEF LapseEffect, Expires
<1>7. Onward /\ Steady /\ Rows' /\ Tables'
  BY <1>2, <1>3, <1>5, <1>6, TurnsRows DEF EffectFits
<1>8. CallsFit' /\ Leased' /\ Refusing'
  BY <1>6, <1>7, AllFit, RefusalsStay
<1> QED BY <1>6, <1>7, <1>8 DEF Inv, TypeOK, Tables

\* A worker launches the effect of its request (integration_sqlalchemy.py:380).
LEMMA LaunchStep == ASSUME Inv, NEW w \in Workers, Launch(w) PROVE Inv'
<1> DEFINE k == call[w].key
           e == [effects[k] EXCEPT !.state = "IN_FLIGHT", !.tries = 1]
<1>1. call[w] \in Calls /\ Fits(call[w]) /\ call[w].at = "start"
      /\ UNCHANGED <<delivery, requests, bindings, gitlab, faults, edits>>
  BY DEF Inv, TypeOK, CallsFit, Launch
<1>2. /\ call[w].job = "request" /\ call[w].msg \in DOMAIN requests /\ Its(call[w])
      /\ ~call[w].fact /\ ~call[w].bare /\ k \in DOMAIN effects /\ k \in Keys
      /\ k.op = "MERGE" => call[w].mr = bindings[k.binding].iid
  BY <1>1 DEF Fits, Jobs, Subject, Its, Stores, Sees, Inv, TypeOK
<1>3. CASE Row(w).state # "PLANNED"
  <2>1. Leave(w) /\ Quiet
    BY <1>1, <1>3 DEF Launch, Quiet, rows
  <2> QED BY <1>1, <2>1, LeaveStep
<1>4. CASE Row(w).state = "PLANNED"
  <2>1. effects[k] \in Effects /\ EffectFits(k) /\ effects[k].state = "PLANNED"
    BY <1>2, <1>4 DEF Inv, TypeOK, Rows, EffectsFit, Row
  <2>2. /\ e \in Effects /\ e.by = effects[k].by /\ e.state = "IN_FLIGHT"
        /\ e.why = effects[k].why /\ e.told = effects[k].told
    BY <2>1 DEF Effects, Unsettled
  <2>3. effects' = [effects EXCEPT ![k] = e]
    BY <1>4 DEF Launch
  <2>4. PICK at \in {"bound", "put"} : at = IF k.op = "CREATE" THEN "bound" ELSE "put"
    OBVIOUS
  <2> DEFINE d == [call[w] EXCEPT !.at = at, !.state = "IN_FLIGHT", !.tries = 1]
  <2>5. Moves(w, d)
    BY <1>4, <2>4 DEF Launch
  <2>6. d \in Calls
    BY <1>1 DEF Calls, Places, Unsettled
  <2>7. /\ d.at = at /\ d.job = "request" /\ d.msg = call[w].msg /\ d.mtries = call[w].mtries
        /\ d.key = k /\ d.state = "IN_FLIGHT" /\ d.mr = call[w].mr /\ ~d.fact /\ ~d.bare
    BY <1>1, <1>2 DEF Calls
  <2> HIDE DEF e, d
  <2>8. Turns(k, e)
    BY <1>2, <2>1, <2>2, <2>3 DEF Turns, Final
  <2>9. Onward /\ Steady /\ Rows' /\ Tables'
    BY <1>1, <2>1, <2>2, <2>8, TurnsRows DEF EffectFits, Final
  <2>10. Moved(w, d) /\ Keeps(w, d) /\ d.at # "answer"
    BY <1>2, <2>4, <2>5, <2>6, <2>7, MovesTyped DEF Inv, TypeOK, Keeps
  <2>11. Fits(call[w])'
    <3>1. k \in DOMAIN effects' /\ effects'[k].by = call[w].msg
      BY <1>2, <2>2, <2>8, TurnsTyped DEF Its
    <3>2. call'[w] = d /\ requests' = requests /\ bindings' = bindings
      BY <1>1, <2>10 DEF Moved
    <3>3. k.op = "CREATE" => at = "bound"
      BY <2>4
    <3>4. k.op # "CREATE" => at = "put" /\ k.op = "MERGE"
      BY <1>2, <2>4 DEF Keys
    <3> HIDE DEF k
    <3> QED BY <1>2, <2>7, <3>1, <3>2, <3>3, <3>4
            DEF Fits, Jobs, Subject, Its, Leaves, Sees, Stores, Final
  <2> QED BY <2>5, <2>6, <2>9, <2>10, <2>11, CommitStep
<1> QED BY <1>3, <1>4

\* The reconciler takes an effect whose lease passed (merge_sqlalchemy.py:235).
LEMMA TakeEffectStep == ASSUME Inv, NEW w \in Workers, TakeEffect(w) PROVE Inv'
<1>1. UNCHANGED <<delivery, requests, bindings, gitlab, faults, edits>>
  BY DEF TakeEffect
<1>2. PICK k \in DOMAIN effects :
        /\ effects[k].state \in Unsettled
        /\ LET tries == Fresh({call[v].tries : v \in {u \in Workers : call[u].key = k}}) IN
           /\ effects' = [effects EXCEPT ![k].state = "RECONCILIATION", ![k].tries = tries,
                                         ![k].due = FALSE]
           /\ Moves(w, [IdleCall EXCEPT !.at = "local", !.job = "reconcile", !.key = k,
                                        !.state = "RECONCILIATION", !.tries = tries])
  BY DEF TakeEffect
<1> DEFINE U == {u \in Workers : call[u].key = k}
<1>3. PICK tries \in Nat : tries = Fresh({call[v].tries : v \in U})
  <2> DEFINE f == [v \in U |-> call[v].tries]
  <2>1. f \in [U -> Nat]
    BY DEF Inv, TypeOK, Calls
  <2>2. {f[v] : v \in U} = {call[v].tries : v \in U}
    OBVIOUS
  <2>3. U \in SUBSET Workers
    OBVIOUS
  <2> HIDE DEF f, U
  <2> QED BY <2>1, <2>2, <2>3, FreshIsFree
<1> DEFINE e == [effects[k] EXCEPT !.state = "RECONCILIATION", !.tries = tries, !.due = FALSE]
           d == [IdleCall EXCEPT !.at = "local", !.job = "reconcile", !.key = k,
                                 !.state = "RECONCILIATION", !.tries = tries]
<1>4. effects' = [effects EXCEPT ![k] = e] /\ Moves(w, d)
  BY <1>2, <1>3
<1>5. effects[k] \in Effects /\ k \in Keys
  BY DEF Inv, TypeOK
<1>6. /\ e \in Effects /\ e.by = effects[k].by /\ e.state = "RECONCILIATION"
      /\ e.why = effects[k].why
  BY <1>5 DEF Effects, Unsettled
<1>7. d \in Calls
  BY <1>5, TakenTyped
<1>8. /\ d.at = "local" /\ d.job = "reconcile" /\ d.key = k /\ d.state = "RECONCILIATION"
      /\ ~d.fact /\ ~d.bare
  BY DEF IdleCall
<1> HIDE DEF e, d
<1>9. Turns(k, e)
  BY <1>2, <1>4, <1>6 DEF Turns, Unsettled, Final
<1>10. Onward /\ Steady /\ Rows' /\ Tables'
  BY <1>1, <1>6, <1>9, TurnsRows DEF Final
<1>11. Moved(w, d) /\ Keeps(w, d) /\ d.at # "answer"
  BY <1>4, <1>7, <1>8, MovesTyped DEF Inv, TypeOK, Keeps
<1>12. k \in DOMAIN effects'
  BY <1>9, TurnsTyped
<1>13. Fits(call[w])'
  BY <1>8, <1>11, <1>12 DEF Moved, Fits, Jobs, Subject, Leaves, Sees, Stores, Final
<1> QED BY <1>4, <1>7, <1>10, <1>11, <1>13, CommitStep

\* The reconciler renews its lease before it writes (merge_sqlalchemy.py:296).
LEMMA RenewStep == ASSUME Inv, NEW w \in Workers, Renew(w) PROVE Inv'
<1> DEFINE k == call[w].key
           e == [effects[k] EXCEPT !.due = FALSE]
<1>1. call[w] \in Calls /\ Fits(call[w]) /\ call[w].at = "renew"
      /\ UNCHANGED <<delivery, requests, bindings, gitlab, faults, edits>>
  BY DEF Inv, TypeOK, CallsFit, Renew
<1>2. /\ call[w].job = "reconcile" /\ call[w].state = "RECONCILIATION"
      /\ ~call[w].fact /\ ~call[w].bare /\ k \in DOMAIN effects /\ k \in Keys
      /\ k.op = "MERGE" => call[w].mr = bindings[k.binding].iid
  BY <1>1 DEF Fits, Jobs, Subject, Leaves, Stores, Sees, Inv, TypeOK
<1>3. CASE ~Current(w)
  <2>1. Leave(w) /\ Quiet
    BY <1>1, <1>3 DEF Renew, Quiet, rows
  <2> QED BY <1>1, <2>1, LeaveStep
<1>4. CASE Current(w)
  <2>1. effects[k] \in Effects /\ effects[k].state = "RECONCILIATION"
    BY <1>2, <1>4 DEF Inv, TypeOK, Current, Row
  <2>2. /\ e \in Effects /\ e.by = effects[k].by /\ e.state = "RECONCILIATION"
        /\ e.why = effects[k].why
    BY <2>1 DEF Effects
  <2>3. effects' = [effects EXCEPT ![k] = e]
    BY <1>4 DEF Renew
  <2>4. PICK at \in {"post", "put"} : at = IF k.op = "CREATE" THEN "post" ELSE "put"
    OBVIOUS
  <2> DEFINE d == [call[w] EXCEPT !.at = at]
  <2>5. Moves(w, d)
    BY <1>4, <2>4 DEF Renew, Goto
  <2>6. d \in Calls
    BY <1>1 DEF Calls, Places
  <2>7. /\ d.at = at /\ d.job = "reconcile" /\ d.key = k /\ d.state = "RECONCILIATION"
        /\ d.mr = call[w].mr /\ ~d.fact /\ ~d.bare
    BY <1>1, <1>2 DEF Calls
  <2> HIDE DEF e, d
  <2>8. Turns(k, e)
    BY <1>2, <2>1, <2>2, <2>3 DEF Turns, Final
  <2>9. Onward /\ Steady /\ Rows' /\ Tables'
    BY <1>1, <2>2, <2>8, TurnsRows DEF Final
  <2>10. Moved(w, d) /\ Keeps(w, d) /\ d.at # "answer"
    BY <2>4, <2>5, <2>6, <2>7, MovesTyped DEF Inv, TypeOK, Keeps
  <2>11. Fits(call[w])'
    <3>1. k \in DOMAIN effects'
      BY <1>2, <2>8, TurnsTyped
    <3>2. call'[w] = d /\ bindings' = bindings
      BY <1>1, <2>10 DEF Moved
    <3>3. /\ k.op = "CREATE" => at = "post"
          /\ k.op # "CREATE" => at = "put" /\ k.op = "MERGE"
      BY <1>2, <2>4 DEF Keys
    <3> HIDE DEF k
    <3> QED BY <1>2, <2>7, <3>1, <3>2, <3>3
            DEF Fits, Jobs, Subject, Leaves, Sees, Stores, Final
  <2> QED BY <2>5, <2>6, <2>9, <2>10, <2>11, CommitStep
<1> QED BY <1>3, <1>4

\* An effect is planned for a request, or found planned (integration_sqlalchemy.py:315).
LEMMA PlanStep == ASSUME Inv, NEW w \in Workers, Plan(w) PROVE Inv'
<1> DEFINE k == call[w].key
           m == call[w].msg
           e == [state |-> "PLANNED", tries |-> 0, due |-> FALSE, told |-> "PENDING",
                 why |-> "NONE", by |-> m]
           d == [call[w] EXCEPT !.at = "start"]
<1>1. call[w] \in Calls /\ Fits(call[w]) /\ call[w].at = "plan"
      /\ UNCHANGED <<delivery, requests, bindings, gitlab, faults, edits>>
  BY DEF Inv, TypeOK, CallsFit, Plan
<1>2. /\ call[w].job = "request" /\ m \in DOMAIN requests /\ k \in Keys
      /\ Belongs(k, requests[m]) /\ ~call[w].fact /\ ~call[w].bare
      /\ call[w].state \in {"NONE", "PLANNED"}
      /\ k.op = "MERGE" => call[w].mr = bindings[k.binding].iid
  BY <1>1 DEF Fits, Jobs, Subject, Leaves, Stores, Sees
<1>3. d \in Calls
  BY <1>1 DEF Calls, Places
<1>4. /\ d.at = "start" /\ d.job = "request" /\ d.msg = m /\ d.mtries = call[w].mtries
      /\ d.key = k /\ d.state = call[w].state /\ d.mr = call[w].mr /\ ~d.fact /\ ~d.bare
  BY <1>1, <1>2 DEF Calls
<1>5. CASE k \in DOMAIN effects
  <2>1. Quiet /\ UNCHANGED <<faults, edits>>
    BY <1>1, <1>5 DEF Plan, Quiet, rows
  <2>2. CASE effects[k].by = m
    <3>1. Goto(w, "start")
      BY <1>5, <2>2 DEF Plan
    <3> HIDE DEF d
    <3>2. Fits(d)
      BY <1>2, <1>4, <1>5, <2>2 DEF Fits, Jobs, Subject, Its, Leaves, Sees, Stores, Final
    <3> QED BY <2>1, <3>1, <3>2, GotoStep DEF d, Places
  <2>3. CASE effects[k].by # m
    <3>1. Fails(w, "mark", "MR_CONFLICT")
      BY <1>5, <2>3 DEF Plan
    <3> DEFINE f == [call[w] EXCEPT !.at = "mark", !.why = "MR_CONFLICT"]
    <3>2. /\ f.at = "mark" /\ f.job = "request" /\ f.msg = m /\ f.state = call[w].state
          /\ ~f.fact /\ ~f.bare
      BY <1>1, <1>2 DEF Calls
    <3> HIDE DEF f
    <3>3. Fits(f)
      BY <1>2, <3>2 DEF Fits, Jobs, Subject, Leaves, Sees, Stores, Final
    <3> QED BY <2>1, <3>1, <3>3, FailsStep DEF f, Places, Reasons
  <2> QED BY <2>2, <2>3
<1>6. CASE k \notin DOMAIN effects
  <2>1. effects' = Insert(effects, k, e) /\ Moves(w, d)
    BY <1>6 DEF Plan, Goto
  <2>2. /\ DOMAIN effects' = DOMAIN effects \cup {k} /\ effects'[k] = e
        /\ \A x \in DOMAIN effects : effects'[x] = effects[x]
    BY <1>6, <2>1 DEF Insert
  <2>3. m \in Nat
    BY <1>2 DEF Inv, TypeOK
  <2>4. e \in Effects /\ e.state = "PLANNED" /\ e.why = "NONE" /\ e.told = "PENDING"
        /\ e.by = m
    BY <2>3 DEF Effects
  <2> HIDE DEF e, d
  <2>5. UNCHANGED <<req, item, answers, mrs, branch>>
    BY <1>1 DEF delivery, gitlab
  <2>6. Onward
    BY <1>1, <2>2, <2>5 DEF Onward
  <2>7. Steady
    BY <1>1 DEF Steady
  <2>8. EffectsFit'
    <3>1. \A x \in DOMAIN effects : EffectFits(x)'
      BY <2>2, <2>6, EffectKept
    <3>2. IsFiniteSet(DOMAIN effects \cup {k})
      BY FS_AddElement DEF Inv, Rows, EffectsFit
    <3>3. \A x \in DOMAIN effects \cup {k} : EffectFits(x)'
      <4>1. PICK y : y = k
        OBVIOUS
      <4>2. EffectFits(y)'
        BY <1>1, <1>2, <2>2, <2>4, <4>1 DEF EffectFits, Belongs
      <4> HIDE DEF k
      <4> QED BY <3>1, <4>1, <4>2
    <3> QED BY <2>2, <3>2, <3>3 DEF EffectsFit
  <2>9. AckedIsTrue'
    <3>1. \A x \in DOMAIN effects' : effects'[x].state \in Final =>
            x \in DOMAIN effects /\ effects'[x] = effects[x]
      BY <2>2, <2>4 DEF Final
    <3> QED BY <2>5, <3>1 DEF Inv, Rows, AckedIsTrue
  <2>10. BindingsFit' /\ NoRequestDropped'
    BY <1>1, <2>6, BindingsKept, DoneKept
  <2>11. Rows'
    BY <1>1, <2>5, <2>6, <2>8, <2>9, <2>10, RowsOnward
  <2>12. Tables'
    BY <1>1, <1>2, <2>2, <2>4, <2>5 DEF Inv, TypeOK, Tables
  <2>13. Moved(w, d) /\ Keeps(w, d) /\ d.at # "answer"
    BY <1>2, <1>3, <1>4, <2>1, MovesTyped DEF Inv, TypeOK, Keeps
  <2>14. Fits(call[w])'
    <3>1. call'[w] = d /\ requests' = requests /\ bindings' = bindings
      BY <1>1, <2>13 DEF Moved
    <3>2. k \in DOMAIN effects' /\ effects'[k].by = m
      BY <2>2, <2>4
    <3> HIDE DEF k, m
    <3> QED BY <1>2, <1>4, <3>1, <3>2 DEF Fits, Jobs, Subject, Its, Leaves, Sees, Stores, Final
  <2> QED BY <1>3, <2>1, <2>6, <2>7, <2>11, <2>12, <2>13, <2>14, CommitStep
<1> QED BY <1>5, <1>6
-----------------------------------------------------------------------------
(* Outcomes: the effect, the binding and the request in one commit.        *)

\* The request of a worker leaves the inbox with the outcome of its effect.
LEMMA RequestOver ==
  ASSUME Inv, NEW w \in Workers,
         call[w].job = "request" => call[w].msg \in DOMAIN requests /\ Holds(w),
         IF call[w].job = "request" THEN Close(w) ELSE UNCHANGED requests
  PROVE  /\ requests' \in Seq(Requests) /\ DOMAIN requests' = DOMAIN requests /\ Steady
         /\ \A n \in DOMAIN requests :
              /\ requests'[n].kind = requests[n].kind
              /\ requests'[n].binding = requests[n].binding
              /\ requests'[n].why = requests[n].why
              /\ requests[n].state = "PROCESSED" => requests'[n].state = "PROCESSED"
              /\ requests'[n].state = "PROCESSED" =>
                   requests[n].state = "PROCESSED" \/ (call[w].job = "request" /\ n = call[w].msg)
         /\ call[w].job = "request" => requests'[call[w].msg].state = "PROCESSED"
<1> DEFINE m == call[w].msg
           r == [requests[m] EXCEPT !.state = "PROCESSED"]
<1>1. CASE call[w].job # "request"
  BY <1>1 DEF Inv, TypeOK, Steady
<1>2. CASE call[w].job = "request"
  <2>1. requests[m] \in Requests /\ m \in DOMAIN requests /\ requests[m].state = "PROCESSING"
    BY <1>2 DEF Inv, TypeOK, Holds, Mine
  <2>2. r \in Requests /\ r.kind = requests[m].kind /\ r.binding = requests[m].binding
        /\ r.state = "PROCESSED" /\ r.why = requests[m].why
    BY <2>1 DEF Requests
  <2>3. requests' = [requests EXCEPT ![m] = r]
    BY <1>2 DEF Close
  <2> HIDE DEF r
  <2>4. Replaces(m, r)
    BY <2>1, <2>2, <2>3 DEF Replaces
  <2>5. /\ requests' \in Seq(Requests) /\ DOMAIN requests' = DOMAIN requests /\ Steady
        /\ requests'[m] = r /\ \A n \in DOMAIN requests : n # m => requests'[n] = requests[n]
    BY <2>2, <2>4, ReplacesTyped, ReplacesSteady
  <2> HIDE DEF m
  <2>6. \A n \in DOMAIN requests :
          /\ requests'[n].kind = requests[n].kind
          /\ requests'[n].binding = requests[n].binding
          /\ requests'[n].why = requests[n].why
          /\ requests[n].state = "PROCESSED" => requests'[n].state = "PROCESSED"
          /\ requests'[n].state = "PROCESSED" => requests[n].state = "PROCESSED" \/ n = m
    BY <2>1, <2>2, <2>5
  <2> QED BY <1>2, <2>2, <2>5, <2>6 DEF m
<1> QED BY <1>1, <1>2

\* A worker that stores an outcome has an effect that is not over, and whose outcome the
\* work item was not told of.
Outcomes == {"unknown", "settle", "block"}
LEMMA OwnsOpen ==
  ASSUME Inv, NEW w \in Workers, call[w].at \in Outcomes, Owns(w)
  PROVE  /\ call[w].job \in {"request", "reconcile"}
         /\ call[w].key \in DOMAIN effects /\ call[w].key \in Keys
         /\ effects[call[w].key] \in Effects /\ effects[call[w].key].state \notin Final
         /\ effects[call[w].key].state = call[w].state
         /\ call[w].job = "request" =>
              /\ call[w].msg \in DOMAIN requests /\ Holds(w) /\ Its(call[w])
              /\ effects[call[w].key].told = "PENDING"
         /\ call[w].job = "reconcile" => call[w].state = "RECONCILIATION"
<1>1. call[w] \in Calls /\ Fits(call[w])
  BY DEF Inv, TypeOK, CallsFit
<1>2. /\ call[w].job \in {"request", "reconcile"}
      /\ call[w].key \in DOMAIN effects /\ effects[call[w].key].state = call[w].state
      /\ call[w].job = "request" => call[w].msg \in DOMAIN requests /\ Holds(w) /\ Its(call[w])
  BY <1>1 DEF Outcomes, Owns, Current, Row, Fits, Jobs, Subject, Calls
<1>3. call[w].key \in Keys /\ effects[call[w].key] \in Effects /\ EffectFits(call[w].key)
  BY <1>2 DEF Inv, TypeOK, Rows, EffectsFit
<1>4. /\ call[w].job = "request" => call[w].state \in {"NONE", "PLANNED", "IN_FLIGHT"}
      /\ call[w].job = "reconcile" => call[w].state = "RECONCILIATION"
  BY <1>1 DEF Outcomes, Fits, Leaves
<1>5. effects[call[w].key].state \notin Final
  BY <1>2, <1>4 DEF Final
<1>6. ASSUME call[w].job = "request" PROVE effects[call[w].key].told = "PENDING"
  <2>1. effects[call[w].key].state \in {"PLANNED", "IN_FLIGHT"}
    BY <1>2, <1>3, <1>4, <1>6 DEF Effects, Unsettled, Final
  <2>2. requests[effects[call[w].key].by].state # "PROCESSED"
    BY <1>2, <1>6 DEF Holds, Mine, Its
  <2> QED BY <1>3, <2>1, <2>2 DEF EffectFits
<1> QED BY <1>2, <1>3, <1>4, <1>5, <1>6

\* The outcome is for the work item to be told of.
LEMMA FinishTyped ==
  ASSUME Inv, NEW w \in Workers, call[w].at \in Outcomes, Owns(w),
         NEW state \in Final, NEW why \in Reasons \cup {"NONE"}
  PROVE  /\ Finish(w, state, why) \in Effects
         /\ Finish(w, state, why).by = effects[call[w].key].by
         /\ Finish(w, state, why).state = state /\ Finish(w, state, why).why = why
         /\ Finish(w, state, why).told = "PENDING"
<1>1. PICK e \in Effects : e = effects[call[w].key]
  BY OwnsOpen
<1>2. PICK told : told = IF call[w].job = "request" THEN e.told ELSE "PENDING"
  OBVIOUS
<1>3. told = "PENDING"
  BY <1>1, <1>2, OwnsOpen
<1>4. Finish(w, state, why) = [e EXCEPT !.state = state, !.why = why, !.told = told]
  BY <1>1, <1>2 DEF Finish, Row
<1>5. [e EXCEPT !.state = state, !.why = why, !.told = "PENDING"] \in Effects
  BY DEF Effects
<1> QED BY <1>1, <1>3, <1>4, <1>5 DEF Effects

\* A worker stores the outcome of its effect.
LEMMA OutcomeStep ==
  ASSUME Inv, NEW w \in Workers, call[w].at \in Outcomes, Owns(w),
         NEW e \in Effects, effects' = [effects EXCEPT ![call[w].key] = e],
         e.by = effects[call[w].key].by, e.state # "PLANNED",
         e.told # "PENDING" => e.state \notin {"IN_FLIGHT", "SUCCEEDED", "BLOCKED"},
         \A b \in DOMAIN bindings : b \in DOMAIN bindings' /\ bindings'[b].iid = bindings[b].iid,
         DOMAIN bindings' \subseteq Heads, \A b \in DOMAIN bindings' : bindings'[b] \in BindingRows,
         BindingsFit',
         e.state = "SUCCEEDED" =>
           /\ call[w].key.op = "CREATE" => call[w].key.binding \in DOMAIN bindings'
           /\ call[w].key.op = "MERGE" =>
                Merged(bindings'[call[w].key.binding].iid, call[w].key.head),
         IF call[w].job = "request" THEN Close(w) ELSE UNCHANGED requests,
         UNCHANGED <<delivery, gitlab, edits>>, Fault \/ UNCHANGED faults,
         NEW d \in Calls, Moves(w, d), Keeps(w, d), d.at # "answer", Fits(call[w])'
  PROVE  Inv'
<1> DEFINE k == call[w].key
<1>1. /\ k \in DOMAIN effects /\ effects[k].state \notin Final
      /\ call[w].job = "request" =>
           call[w].msg \in DOMAIN requests /\ Holds(w) /\ Its(call[w])
  BY OwnsOpen
<1>2. /\ requests' \in Seq(Requests) /\ DOMAIN requests' = DOMAIN requests /\ Steady
      /\ \A n \in DOMAIN requests :
           /\ requests'[n].kind = requests[n].kind
           /\ requests'[n].binding = requests[n].binding
           /\ requests'[n].why = requests[n].why
           /\ requests[n].state = "PROCESSED" => requests'[n].state = "PROCESSED"
           /\ requests'[n].state = "PROCESSED" =>
                requests[n].state = "PROCESSED" \/ (call[w].job = "request" /\ n = call[w].msg)
  BY <1>1, RequestOver
<1>3. Turns(k, e)
  BY <1>1 DEF Turns
<1>4. UNCHANGED <<req, item, answers, mrs, branch>>
  BY DEF delivery, gitlab
<1>5. Onward
  BY <1>2, <1>3, <1>4, TurnsTyped DEF Onward
<1>6. EffectsFit' /\ AckedIsTrue'
  <2>1. PICK x : x = k
    OBVIOUS
  <2>2. e.state = "SUCCEEDED" =>
          /\ x.op = "CREATE" => x.binding \in DOMAIN bindings'
          /\ x.op = "MERGE" => Merged(bindings[x.binding].iid, x.head)'
    BY <1>4, <2>1 DEF Merged
  <2>3. Turns(x, e)
    BY <1>3, <2>1
  <2> HIDE DEF k
  <2> QED BY <1>5, <2>2, <2>3, TurnsFits DEF Final
<1>7. NoRequestDropped'
  <2>1. /\ DOMAIN effects' = DOMAIN effects /\ effects'[k] = e
    BY <1>3, TurnsTyped
  <2>2. call[w].job = "request" =>
          k \in DOMAIN effects' /\ effects'[k].by = call[w].msg /\ effects'[k].state # "PLANNED"
    BY <1>1, <2>1 DEF Its
  <2> HIDE DEF k
  <2>3. PICK m : m = call[w].msg
    OBVIOUS
  <2>4. PICK y : y = k
    OBVIOUS
  <2>5. call[w].job = "request" =>
          y \in DOMAIN effects' /\ effects'[y].by = m /\ effects'[y].state # "PLANNED"
    BY <2>2, <2>3, <2>4
  <2>6. \A n \in DOMAIN requests' : requests'[n].state = "PROCESSED" =>
          \/ /\ n \in DOMAIN requests /\ requests[n].state = "PROCESSED"
             /\ requests'[n].why = requests[n].why
          \/ \E x \in DOMAIN effects' : effects'[x].by = n /\ effects'[x].state # "PLANNED"
    BY <1>2, <2>3, <2>5
  <2> QED BY <1>5, <2>6, DoneKept
<1>8. Rows'
  BY <1>2, <1>4, <1>5, <1>6, <1>7, RowsOnward
<1>9. Tables'
  <2>1. DOMAIN effects' = DOMAIN effects /\ \A x \in DOMAIN effects : effects'[x] \in Effects
    BY <1>3, TurnsTyped
  <2> QED BY <1>2, <1>4, <2>1, FaultTyped DEF Inv, TypeOK, Tables
<1> QED BY <1>2, <1>5, <1>8, <1>9, CommitStep

\* What is bound stays bound to effects that are over.
LEMMA BoundStays ==
  ASSUME Inv, NEW w \in Workers, call[w].at \in Outcomes, Owns(w),
         NEW e, effects' = [effects EXCEPT ![call[w].key] = e], UNCHANGED gitlab,
         DOMAIN bindings' = DOMAIN bindings,
         \A b \in DOMAIN bindings : bindings'[b].iid = bindings[b].iid
  PROVE  BindingsFit'
<1>1. call[w].key \in DOMAIN effects /\ effects[call[w].key].state \notin Final
  BY OwnsOpen
<1>2. \A x \in DOMAIN effects : effects[x].state \in Final =>
        x \in DOMAIN effects' /\ effects'[x].state = effects[x].state
  BY <1>1
<1>3. mrs' = mrs
  BY DEF gitlab
<1> QED BY <1>2, <1>3 DEF Inv, Rows, BindingsFit

\* The worker goes on to tell the work item.
LEMMA AfterFits ==
  ASSUME Inv, NEW w \in Workers, call[w].at \in {"settle", "block"}, Owns(w),
         NEW e, effects' = [effects EXCEPT ![call[w].key] = e],
         e.state \in Final, e.by = effects[call[w].key].by,
         IF call[w].job = "request" THEN Close(w) ELSE UNCHANGED requests,
         call[w].bare => e.state = "BLOCKED",
         call'[w].at = After(w), call'[w].job = call[w].job, call'[w].msg = call[w].msg,
         call'[w].key = call[w].key, call'[w].bare = call[w].bare,
         call'[w].state = e.state, call'[w].why = e.why
  PROVE  Fits(call[w])'
<1>1. /\ call[w].job \in {"request", "reconcile"} /\ call[w].key \in DOMAIN effects
      /\ call[w].job = "request" =>
           call[w].msg \in DOMAIN requests /\ Holds(w) /\ Its(call[w])
  BY OwnsOpen DEF Outcomes
<1>2. /\ DOMAIN requests' = DOMAIN requests
      /\ call[w].job = "request" => requests'[call[w].msg].state = "PROCESSED"
  BY <1>1, RequestOver
<1>3. call[w].key \in DOMAIN effects' /\ effects'[call[w].key] = e
  BY <1>1
<1>4. call[w].bare => call[w].job = "reconcile"
  BY DEF Inv, CallsFit, Fits, Stores
<1>5. /\ call[w].job = "request" => call'[w].at = "tell"
      /\ call[w].job = "reconcile" => call'[w].at = "context"
  BY DEF After
<1> QED BY <1>1, <1>2, <1>3, <1>4, <1>5
        DEF Fits, Jobs, Subject, Its, Leaves, Sees, Stores

\* An outcome nobody knows (_integration_merge_completion.py:190).
LEMMA DoubtStep == ASSUME Inv, NEW w \in Workers, Doubt(w) PROVE Inv'
<1> DEFINE k == call[w].key
           e == [effects[k] EXCEPT !.state = "UNKNOWN", !.due = FALSE]
           d == [call[w] EXCEPT !.at = "tell", !.state = "UNKNOWN"]
<1>1. call[w] \in Calls /\ Fits(call[w]) /\ call[w].at = "unknown"
      /\ UNCHANGED <<delivery, bindings, gitlab, faults, edits>>
  BY DEF Inv, TypeOK, CallsFit, Doubt
<1>2. ~call[w].fact /\ ~call[w].bare
  BY <1>1 DEF Fits, Stores
<1>3. CASE ~Owns(w)
  <2>1. Leave(w) /\ Quiet
    BY <1>1, <1>3 DEF Doubt, Quiet, rows
  <2> QED BY <1>1, <2>1, LeaveStep
<1>4. CASE Owns(w)
  <2>1. /\ call[w].job \in {"request", "reconcile"} /\ k \in DOMAIN effects /\ k \in Keys
        /\ effects[k] \in Effects
        /\ call[w].job = "request" =>
             call[w].msg \in DOMAIN requests /\ Holds(w) /\ Its(call[w])
    BY <1>1, <1>4, OwnsOpen DEF Outcomes
  <2>2. e \in Effects /\ e.state = "UNKNOWN" /\ e.by = effects[k].by
    BY <2>1 DEF Effects, Unsettled
  <2>3. effects' = [effects EXCEPT ![k] = e]
    BY <1>4 DEF Doubt
  <2>4. IF call[w].job = "request" THEN Close(w) ELSE UNCHANGED requests
    BY <1>4 DEF Doubt
  <2>5. d \in Calls
    BY <1>1 DEF Calls, Places, Unsettled
  <2>6. /\ d.at = "tell" /\ d.job = call[w].job /\ d.msg = call[w].msg /\ d.key = k
        /\ d.mtries = call[w].mtries /\ d.state = "UNKNOWN" /\ ~d.fact /\ ~d.bare
    BY <1>1, <1>2 DEF Calls
  <2>7. BindingsFit'
    BY <1>1, <1>4, <2>3, BoundStays DEF Outcomes
  <2>8. /\ DOMAIN bindings' \subseteq Heads /\ \A b \in DOMAIN bindings' : bindings'[b] \in BindingRows
        /\ \A b \in DOMAIN bindings : b \in DOMAIN bindings' /\ bindings'[b].iid = bindings[b].iid
    BY <1>1 DEF Inv, TypeOK
  <2> HIDE DEF e, d
  <2>9. CASE call[w].job = "request"
    <3>1. Moves(w, d)
      BY <1>4, <2>9 DEF Doubt, d
    <3>2. call'[w] = d /\ Keeps(w, d)
      BY <2>5, <2>6, <2>9, <3>1, MovesTyped DEF Moved, Inv, TypeOK, Keeps
    <3>3. /\ DOMAIN requests' = DOMAIN requests /\ requests'[call[w].msg].state = "PROCESSED"
      BY <2>1, <2>4, <2>9, RequestOver
    <3>4. k \in DOMAIN effects' /\ effects'[k].by = call[w].msg
      BY <2>1, <2>2, <2>3, <2>9 DEF Its
    <3>5. Fits(call[w])'
      <4> HIDE DEF k
      <4> QED BY <2>1, <2>6, <2>9, <3>2, <3>3, <3>4
              DEF Fits, Jobs, Subject, Its, Leaves, Sees, Stores, Final
    <3> QED BY <1>1, <1>4, <2>2, <2>3, <2>4, <2>5, <2>6, <2>7, <2>8, <3>1, <3>2, <3>5, OutcomeStep
            DEF Outcomes
  <2>10. CASE call[w].job # "request"
    <3>1. Moves(w, IdleCall)
      BY <1>4, <2>10 DEF Doubt, Leave
    <3>2. call'[w] = IdleCall /\ Keeps(w, IdleCall) /\ IdleCall.at # "answer"
      BY <3>1, IdleTyped, MovesTyped DEF Moved, Inv, TypeOK, Keeps, IdleCall
    <3>3. Fits(call[w])'
      BY <3>2, IdleFitsNext
    <3> QED BY <1>1, <1>4, <2>2, <2>3, <2>4, <2>7, <2>8, <3>1, <3>2, <3>3, OutcomeStep, IdleTyped
            DEF Outcomes
  <2> QED BY <2>9, <2>10
<1> QED BY <1>3, <1>4

\* An effect that is blocked, and what was seen with it (_integration_merge_completion.py:75).
LEMMA BlockStep == ASSUME Inv, NEW w \in Workers, Block(w) PROVE Inv'
<1> DEFINE k == call[w].key
           e == Finish(w, "BLOCKED", call[w].why)
           d == [call[w] EXCEPT !.at = After(w), !.state = "BLOCKED"]
<1>1. call[w] \in Calls /\ Fits(call[w]) /\ call[w].at = "block"
      /\ UNCHANGED <<delivery, gitlab, faults, edits>>
  BY DEF Inv, TypeOK, CallsFit, Block
<1>2. CASE ~(Owns(w) /\ (call[w].fact => Storable(w)))
  <2>1. Leave(w) /\ Quiet
    BY <1>1, <1>2 DEF Block, Quiet
  <2> QED BY <1>1, <2>1, LeaveStep
<1>3. CASE Owns(w) /\ (call[w].fact => Storable(w))
  <2>1. /\ effects' = [effects EXCEPT ![k] = e] /\ Moves(w, d)
        /\ IF call[w].fact THEN Stored(w) ELSE UNCHANGED bindings
        /\ IF call[w].job = "request" THEN Close(w) ELSE UNCHANGED requests
    BY <1>3 DEF Block
  <2>2. call[w].why \in Reasons \cup {"NONE"}
    BY <1>1 DEF Calls
  <2>3. /\ e \in Effects /\ e.by = effects[k].by /\ e.state = "BLOCKED"
        /\ e.why = call[w].why /\ e.told = "PENDING"
    BY <1>1, <1>3, <2>2, FinishTyped DEF Outcomes, Final
  <2>4. /\ DOMAIN bindings' = DOMAIN bindings
        /\ \A b \in DOMAIN bindings :
             bindings'[b] \in BindingRows /\ bindings'[b].iid = bindings[b].iid
    <3>1. CASE UNCHANGED bindings
      BY <3>1 DEF Inv, TypeOK
    <3>2. CASE call[w].fact /\ Observe(k.binding, call[w])
      <4>1. k.op = "MERGE" /\ call[w].got \in MergeStates /\ k \in DOMAIN effects
        BY <1>1, <1>3, <3>2, OwnsOpen DEF Fits, Stores, Outcomes
      <4>2. k.binding \in DOMAIN bindings
        BY <4>1, EffectOfMerge
      <4> QED BY <1>1, <3>2, <4>1, <4>2, ObserveTyped
    <3> QED BY <2>1, <3>1, <3>2 DEF Stored
  <2>5. d \in Calls
    <3>1. PICK at \in {"tell", "context"} : at = After(w)
      BY DEF After
    <3>2. [call[w] EXCEPT !.at = at, !.state = "BLOCKED"] \in Calls
      BY <1>1 DEF Calls, Places, Final
    <3> QED BY <3>1, <3>2
  <2>6. /\ d.at = After(w) /\ d.job = call[w].job /\ d.msg = call[w].msg /\ d.key = k
        /\ d.mtries = call[w].mtries /\ d.state = "BLOCKED" /\ d.why = call[w].why
        /\ d.bare = call[w].bare
    BY <1>1 DEF Calls
  <2> HIDE DEF e, d
  <2>7. call'[w] = d /\ Keeps(w, d) /\ d.at # "answer"
    BY <2>1, <2>5, <2>6, MovesTyped DEF Moved, Inv, TypeOK, Keeps, After
  <2>8. BindingsFit'
    BY <1>1, <1>3, <2>1, <2>4, BoundStays DEF Outcomes
  <2>9. Fits(call[w])'
    BY <1>1, <1>3, <2>1, <2>3, <2>6, <2>7, AfterFits DEF Final
  <2>10. DOMAIN bindings' \subseteq Heads
    BY <2>4 DEF Inv, TypeOK
  <2> HIDE DEF k
  <2> QED BY <1>1, <1>3, <2>1, <2>3, <2>4, <2>5, <2>7, <2>8, <2>9, <2>10, OutcomeStep
          DEF Outcomes, k
<1> QED BY <1>2, <1>3

\* What was found of an effect is stored (_integration_merge_completion.py:120).
LEMMA SettleStep == ASSUME Inv, NEW w \in Workers, Settle(w) PROVE Inv'
<1> DEFINE k == call[w].key
           out == Found(call[w])
           e == Finish(w, out[1], out[2])
<1>1. call[w] \in Calls /\ Fits(call[w]) /\ call[w].at = "settle"
      /\ UNCHANGED <<delivery, gitlab, edits>>
  BY DEF Inv, TypeOK, CallsFit, Settle
<1>2. /\ call[w].job # "none" /\ ~call[w].fact /\ ~call[w].bare /\ call[w].got \in MergeStates
      /\ call[w].mr \in DOMAIN mrs
      /\ call[w].job = "request" => call[w].msg \in DOMAIN requests /\ Its(call[w])
      /\ call[w].job # "reconcile" => call[w].state = "IN_FLIGHT"
      /\ k.op = "MERGE" => call[w].mr = bindings[k.binding].iid /\ Merged(call[w].mr, k.head)
  BY <1>1 DEF Fits, Jobs, Subject, Leaves, Sees, Stores
<1> DEFINE d == [call[w] EXCEPT !.at = "resolve"]
<1>3. d \in Calls
  BY <1>1 DEF Calls, Places
<1>4. /\ d.at = "resolve" /\ d.job = call[w].job /\ d.msg = call[w].msg /\ d.key = k
      /\ d.mtries = call[w].mtries /\ d.state = call[w].state /\ ~d.fact /\ ~d.bare
  BY <1>1, <1>2 DEF Calls
<1> HIDE DEF d
<1>5. CASE ~(Owns(w) /\ Storable(w))
  <2>1. Quiet /\ UNCHANGED faults
    BY <1>1, <1>5 DEF Settle, Quiet, rows
  <2>2. Leave(w) \/ (call[w].job = "request" /\ Goto(w, "resolve"))
    BY <1>5 DEF Settle
  <2>3. call[w].job = "request" => Fits(d)
    BY <1>2, <1>4 DEF Fits, Jobs, Subject, Its, Leaves, Sees, Stores, Final
  <2> QED BY <1>1, <2>1, <2>2, <2>3, LeaveStep, GotoStep DEF d, Places
<1>6. CASE Owns(w) /\ Storable(w)
  <2>1. /\ effects' = [effects EXCEPT ![k] = e]
        /\ IF k.op = "CREATE" THEN Bind(w) ELSE Stored(w)
        /\ IF call[w].job = "request" THEN Close(w) ELSE UNCHANGED requests
        /\ Fault \/ UNCHANGED faults
    BY <1>6 DEF Settle
  <2>2. out[1] \in Final /\ out[2] \in Reasons \cup {"NONE"}
    BY DEF Found, Final, Reasons
  <2>3. /\ e \in Effects /\ e.by = effects[k].by /\ e.state = out[1] /\ e.why = out[2]
        /\ e.told = "PENDING"
    BY <1>1, <1>6, <2>2, FinishTyped DEF Outcomes
  <2>4. /\ call[w].job \in {"request", "reconcile"} /\ k \in DOMAIN effects /\ k \in Keys
        /\ effects[k].state \notin Final /\ EffectFits(k)
    BY <1>1, <1>6, OwnsOpen DEF Outcomes, Inv, Rows, EffectsFit
  <2> HIDE DEF e, out
  <2>5. /\ BindingsFit' /\ DOMAIN bindings' \subseteq Heads
        /\ \A b \in DOMAIN bindings' : bindings'[b] \in BindingRows
        /\ \A b \in DOMAIN bindings : b \in DOMAIN bindings' /\ bindings'[b].iid = bindings[b].iid
        /\ k.op = "CREATE" => k.binding \in DOMAIN bindings'
    <3>1. CASE k.op = "CREATE"
      <4>1. PICK b \in Heads : b = k.binding
        BY <2>4 DEF Keys
      <4>2. k = Creation(b)
        BY <2>4, <3>1, <4>1 DEF EffectFits, Belongs, Creation, Key, Keys
      <4>3. b \notin DOMAIN bindings /\ call[w].mr \notin Bound
        BY <1>6, <2>4, <3>1, <4>2 DEF Inv, Rows, BindingsFit, Storable
      <4> DEFINE row == [iid |-> call[w].mr, head |-> call[w].head, live |-> TRUE,
                         facts |-> <<Observed(call[w])>>]
                 old == [a \in DOMAIN bindings |-> [bindings[a] EXCEPT !.live = FALSE]]
      <4>4. row \in BindingRows /\ row.iid = call[w].mr
        BY <1>1, <1>2 DEF BindingRows, Observed, Facts, Calls
      <4>5. \A a \in DOMAIN bindings : old[a] \in BindingRows /\ old[a].iid = bindings[a].iid
        BY DEF BindingRows, Inv, TypeOK
      <4>6. DOMAIN old = DOMAIN bindings /\ bindings' = Insert(old, b, row)
        BY <2>1, <3>1, <4>1 DEF Bind
      <4> HIDE DEF row, old
      <4>7. /\ DOMAIN bindings' = DOMAIN bindings \cup {b} /\ bindings'[b] = row
            /\ \A a \in DOMAIN bindings : bindings'[a] = old[a]
        BY <4>3, <4>6 DEF Insert
      <4>8. /\ k \in DOMAIN effects' /\ effects'[k].state \in Final
            /\ \A x \in DOMAIN effects : effects[x].state \in Final =>
                 x \in DOMAIN effects' /\ effects'[x].state = effects[x].state
        BY <2>1, <2>2, <2>3, <2>4
      <4>9. mrs' = mrs
        BY <1>1 DEF gitlab
      <4>10. \A a \in DOMAIN bindings :
               /\ Creation(a) \in DOMAIN effects /\ effects[Creation(a)].state \in Final
               /\ bindings[a].iid \in DOMAIN mrs /\ bindings[a].iid # call[w].mr
        BY <4>3 DEF Inv, Rows, BindingsFit, Bound
      <4>11. BindingsFit'
        <5>1. \A a \in DOMAIN bindings' :
                /\ Creation(a) \in DOMAIN effects' /\ effects'[Creation(a)].state \in Final
                /\ bindings'[a].iid \in DOMAIN mrs'
          BY <1>2, <4>2, <4>4, <4>5, <4>7, <4>8, <4>9, <4>10
        <5>2. ASSUME NEW a \in DOMAIN bindings', NEW c \in DOMAIN bindings',
                     bindings'[a].iid = bindings'[c].iid
              PROVE  a = c
          BY <4>4, <4>5, <4>7, <4>10, <5>2 DEF Inv, Rows, BindingsFit
        <5> QED BY <5>1, <5>2 DEF BindingsFit
      <4> QED BY <3>1, <4>1, <4>4, <4>5, <4>7, <4>11 DEF Inv, TypeOK
    <3>2. CASE k.op # "CREATE"
      <4>1. k.op = "MERGE"
        BY <2>4, <3>2 DEF Keys
      <4>2. k.binding \in DOMAIN bindings
        BY <2>4, <4>1, EffectOfMerge
      <4>3. /\ DOMAIN bindings' = DOMAIN bindings
            /\ \A b \in DOMAIN bindings :
                 bindings'[b] \in BindingRows /\ bindings'[b].iid = bindings[b].iid
        <5>1. CASE UNCHANGED bindings
          BY <5>1 DEF Inv, TypeOK
        <5>2. CASE Observe(k.binding, call[w])
          BY <1>1, <1>2, <4>2, <5>2, ObserveTyped
        <5> QED BY <2>1, <3>2, <5>1, <5>2 DEF Stored
      <4>4. BindingsFit'
        BY <1>1, <1>6, <2>1, <4>3, BoundStays DEF Outcomes
      <4> QED BY <3>2, <4>3, <4>4 DEF Inv, TypeOK
    <3> QED BY <3>1, <3>2
  <2>6. k.op = "MERGE" => Merged(bindings'[k.binding].iid, k.head)
    BY <1>2, <2>4, <2>5, EffectOfMerge
  <2>7. ASSUME NEW x \in Calls, Moves(w, x), Keeps(w, x), x.at # "answer", Fits(call[w])'
        PROVE  Inv'
    <3>1. e.state # "PLANNED" /\ e.told = "PENDING"
      BY <2>2, <2>3 DEF Final
    <3>2. PICK key : key = k
      OBVIOUS
    <3> HIDE DEF k
    <3> QED BY <1>1, <1>6, <2>1, <2>3, <2>5, <2>6, <2>7, <3>1, OutcomeStep DEF Outcomes, k
  <2>8. CASE /\ Moves(w, [call[w] EXCEPT !.at = After(w), !.state = out[1], !.why = out[2]])
             /\ UNCHANGED faults
    <3>1. PICK at \in {"tell", "context"} : at = After(w)
      BY DEF After
    <3>2. PICK state \in Final : state = out[1]
      BY <2>2
    <3>3. PICK why \in Reasons \cup {"NONE"} : why = out[2]
      BY <2>2
    <3> DEFINE f == [call[w] EXCEPT !.at = at, !.state = state, !.why = why]
    <3>4. f \in Calls
      BY <1>1 DEF Calls, Places
    <3>5. /\ f.at = at /\ f.job = call[w].job /\ f.msg = call[w].msg /\ f.key = k
          /\ f.mtries = call[w].mtries /\ f.state = state /\ f.why = why
          /\ f.bare = call[w].bare
      BY <1>1 DEF Calls
    <3>6. Moves(w, f)
      BY <2>8, <3>1, <3>2, <3>3
    <3> HIDE DEF f
    <3>7. call'[w] = f /\ Keeps(w, f) /\ f.at # "answer"
      BY <3>4, <3>5, <3>6, MovesTyped DEF Moved, Inv, TypeOK, Keeps
    <3>8. Fits(call[w])'
      BY <1>1, <1>2, <1>6, <2>1, <2>2, <2>3, <3>1, <3>2, <3>3, <3>5, <3>7, AfterFits
    <3> QED BY <2>7, <3>4, <3>6, <3>7, <3>8
  <2>9. CASE call[w].job = "request" /\ Fault /\ Goto(w, "resolve")
    <3>1. Moves(w, d)
      BY <2>9 DEF Goto, d
    <3>2. call'[w] = d /\ Keeps(w, d) /\ d.at # "answer"
      BY <1>3, <1>4, <3>1, MovesTyped DEF Moved, Inv, TypeOK, Keeps
    <3>3. DOMAIN requests' = DOMAIN requests
      BY <1>2, <1>6, <2>1, <2>9, RequestOver DEF Owns
    <3>4. k \in DOMAIN effects' /\ effects'[k].by = call[w].msg
      BY <1>2, <2>1, <2>3, <2>4, <2>9 DEF Its
    <3>5. Fits(call[w])'
      <4> HIDE DEF k
      <4> QED BY <1>2, <1>4, <2>9, <3>2, <3>3, <3>4
              DEF Fits, Jobs, Subject, Its, Leaves, Sees, Stores, Final
    <3> QED BY <1>3, <2>7, <3>1, <3>2, <3>5
  <2>10. \/ Moves(w, [call[w] EXCEPT !.at = After(w), !.state = out[1], !.why = out[2]])
            /\ UNCHANGED faults
         \/ call[w].job = "request" /\ Fault /\ Goto(w, "resolve")
    BY <1>6 DEF Settle, out
  <2> QED BY <2>8, <2>9, <2>10
<1> QED BY <1>5, <1>6
-----------------------------------------------------------------------------
(* The work item is told of an effect.                                     *)

\* What it is told is what is stored (_integration_callbacks.py:184).
LEMMA OutcomeSaid ==
  ASSUME Inv, NEW w \in Workers, call[w].at = "tell", Current(w)
  PROVE  /\ Said(Telling(w)) /\ Telling(w).key.about = call[w].key
         /\ effects[call[w].key].state = "SUCCEEDED" => Telling(w).kind \in {"ready", "merged"}
         /\ effects[call[w].key].state = "BLOCKED" =>
              /\ Telling(w).kind \in {"blocked", "drift"}
              /\ Telling(w).why = effects[call[w].key].why
<1> DEFINE k == call[w].key
           t == Telling(w)
<1>1. call[w] \in Calls /\ Fits(call[w])
  BY DEF Inv, TypeOK, CallsFit
<1>2. k \in DOMAIN effects /\ effects[k].state = call[w].state /\ k \in Keys /\ EffectFits(k)
  BY DEF Current, Row, Inv, TypeOK, Rows, EffectsFit
<1>3. call[w].state \in Final => call[w].why = effects[k].why
  BY <1>1 DEF Fits, Leaves
<1>4. call[w].bare => call[w].state = "BLOCKED"
  BY <1>1 DEF Fits, Stores
<1>5. /\ call[w].state = "SUCCEEDED" => t.kind = IF k.op = "CREATE" THEN "ready" ELSE "merged"
      /\ call[w].state = "BLOCKED" => t.kind \in {"blocked", "drift"} /\ t.why = call[w].why
      /\ call[w].state \notin Final => t.kind = "pending"
      /\ call[w].state # "BLOCKED" => t.why = "NONE"
      /\ t.key = [about |-> k, msg |-> 0, why |-> t.why]
      /\ t.binding = IF k.binding \in DOMAIN bindings /\ ~call[w].bare THEN k.binding ELSE NoBinding
  BY DEF Telling, Final
<1> HIDE DEF t
<1>6. t.kind \in {"ready", "blocked", "pending", "merged", "drift"} /\ t.why \in Reasons \cup {"NONE"}
  BY <1>1, <1>5 DEF Final, Calls
<1>7. ASSUME t.kind = "ready"
      PROVE  /\ t.binding \in DOMAIN bindings
             /\ t.key = [about |-> Creation(t.binding), msg |-> 0, why |-> "NONE"]
             /\ Creation(t.binding) \in DOMAIN effects
             /\ effects[Creation(t.binding)].state = "SUCCEEDED"
  <2>1. call[w].state = "SUCCEEDED" /\ k.op = "CREATE"
    BY <1>5, <1>7 DEF Final
  <2>2. k.binding \in DOMAIN bindings /\ k.binding = k.head
    BY <1>2, <2>1 DEF EffectFits, Belongs
  <2>3. t.binding = k.binding /\ t.why = "NONE"
    BY <1>4, <1>5, <2>1, <2>2
  <2>4. k = Creation(t.binding)
    BY <1>2, <2>1, <2>2, <2>3 DEF Creation, Key, Keys
  <2> QED BY <1>2, <1>5, <2>1, <2>2, <2>3, <2>4
<1>8. ASSUME t.kind = "merged", t.binding # NoBinding
      PROVE  \E x \in DOMAIN effects :
               x.op = "MERGE" /\ x.binding = t.binding /\ effects[x].state = "SUCCEEDED"
  BY <1>2, <1>5, <1>8 DEF Keys, Final
<1>9. t.binding \in DOMAIN bindings \cup {NoBinding}
  BY <1>5
<1>10. Said(t)
  BY <1>6, <1>7, <1>8, <1>9 DEF Said
<1> QED BY <1>2, <1>3, <1>5, <1>10 DEF t, Final

LEMMA TellStep == ASSUME Inv, NEW w \in Workers, Tell(w) PROVE Inv'
<1> DEFINE k == call[w].key
           Note(told) == [effects[k] EXCEPT !.told = told]
<1>1. call[w] \in Calls /\ Fits(call[w]) /\ call[w].at = "tell" /\ Moves(w, IdleCall)
      /\ UNCHANGED <<requests, bindings, gitlab, edits>>
  BY DEF Inv, TypeOK, CallsFit, Tell, Leave
<1>2. CASE ~(Current(w) /\ Row(w).told # "ACKED")
  <2>1. Leave(w) /\ Quiet /\ UNCHANGED faults
    BY <1>1, <1>2 DEF Tell, Quiet, rows, Leave
  <2> QED BY <1>1, <2>1, LeaveStep
<1>3. CASE Current(w) /\ Row(w).told # "ACKED"
  <2>1. PICK t : t = Telling(w)
    OBVIOUS
  <2>2. /\ Said(t) /\ t.key.about = k
        /\ effects[k].state = "SUCCEEDED" => t.kind \in {"ready", "merged"}
        /\ effects[k].state = "BLOCKED" =>
             t.kind \in {"blocked", "drift"} /\ t.why = effects[k].why
    BY <1>1, <1>3, <2>1, OutcomeSaid
  <2>3. k \in DOMAIN effects /\ effects[k] \in Effects /\ EffectFits(k)
        /\ effects[k].state = call[w].state
    BY <1>3 DEF Current, Row, Inv, TypeOK, Rows, EffectsFit
  <2>4. effects[k].state \in {"PLANNED", "IN_FLIGHT"} => requests[effects[k].by].state = "PROCESSED"
    BY <1>1, <2>3 DEF Fits, Jobs, Subject, Its, Leaves, Calls, Final
  <2>5. ASSUME NEW told \in {"ACKED", "FAILED"}
        PROVE  /\ Note(told) \in Effects /\ Note(told).by = effects[k].by
               /\ Note(told).state = effects[k].state /\ Note(told).why = effects[k].why
               /\ Note(told).told = told
    BY <2>3 DEF Effects
  <2>6. UNCHANGED <<mrs, branch>> /\ Steady
    BY <1>1 DEF gitlab, Steady
  <2>7. Moved(w, IdleCall) /\ Keeps(w, IdleCall) /\ IdleCall.at # "answer" /\ Fits(call[w])'
    BY <1>1, IdleTyped, IdleFitsNext, MovesTyped DEF Moved, Inv, TypeOK, Keeps, IdleCall
  <2>8. ASSUME Onward, EffectsFit', AckedIsTrue', ItemFits', IntegratedIsProved',
               item' \in Items, req' \in {"READY", "IN_PROGRESS", "VERIFYING"},
               DOMAIN effects' = DOMAIN effects, \A x \in DOMAIN effects : effects'[x] \in Effects,
               Fault \/ UNCHANGED faults
        PROVE  Inv'
    <3>1. BindingsFit' /\ MergesFit' /\ RequestsFit' /\ NoRequestDropped'
      BY <1>1, <2>6, <2>8, BindingsKept, MergesKept, RequestsKept, DoneKept
    <3>2. Rows'
      BY <2>8, <3>1 DEF Rows
    <3>3. Tables'
      BY <1>1, <2>6, <2>8, FaultTyped DEF Inv, TypeOK, Tables
    <3> QED BY <1>1, <2>6, <2>7, <2>8, <3>2, <3>3, IdleTyped, CommitStep
  <2>9. ASSUME NEW told \in {"ACKED", "FAILED"}, answers \subseteq answers',
               effects' = [effects EXCEPT ![k].told = told],
               told = "ACKED" => t \in answers'
        PROVE  /\ Onward /\ EffectsFit' /\ AckedIsTrue' /\ DOMAIN effects' = DOMAIN effects
               /\ \A x \in DOMAIN effects : effects'[x] \in Effects
    <3> DEFINE e == Note(told)
    <3>1. effects' = [effects EXCEPT ![k] = e]
      BY <2>9
    <3>2. /\ e \in Effects /\ e.by = effects[k].by /\ e.state = effects[k].state
          /\ e.why = effects[k].why /\ e.told = told
      BY <2>5
    <3> HIDE DEF e, Note
    <3>3. Turns(k, e)
      BY <2>3, <3>1, <3>2 DEF Turns
    <3>4. /\ DOMAIN effects' = DOMAIN effects
          /\ \A x \in DOMAIN effects : effects'[x] \in Effects
      BY <3>3, TurnsTyped
    <3>5. Onward
      BY <1>1, <2>6, <2>9, <3>3, TurnsTyped DEF Onward
    <3>6. PICK x : x = k
      OBVIOUS
    <3>7. e.state = "SUCCEEDED" =>
            /\ x.op = "CREATE" => x.binding \in DOMAIN bindings'
            /\ x.op = "MERGE" => Merged(bindings[x.binding].iid, x.head)'
      BY <1>1, <2>3, <2>6, <3>2, <3>6 DEF EffectFits, Merged
    <3>8. e.state \in Final /\ e.told = "ACKED" =>
            \E a \in answers' :
              /\ a.key.about = x
              /\ IF e.state = "SUCCEEDED" THEN a.kind \in {"ready", "merged"}
                 ELSE a.kind \in {"blocked", "drift"} /\ a.why = e.why
      BY <2>2, <2>9, <3>2, <3>6 DEF Final
    <3>9. /\ e.state = "PLANNED" => e.why = "NONE"
          /\ e.state \in {"PLANNED", "IN_FLIGHT"} => requests'[e.by].state = "PROCESSED"
      BY <1>1, <2>3, <2>4, <3>2 DEF EffectFits
    <3>10. Turns(x, e)
      BY <3>3, <3>6
    <3> HIDE DEF k
    <3> QED BY <3>4, <3>5, <3>7, <3>8, <3>9, <3>10, TurnsFits
  <2>10. CASE /\ Accepts(Telling(w)) /\ Record(Telling(w))
              /\ \/ effects' = [effects EXCEPT ![k].told = "ACKED"] /\ UNCHANGED faults
                 \/ Fault /\ UNCHANGED effects
    <3>1. Accepts(t) /\ Record(t)
      BY <2>1, <2>10
    <3>2. answers \subseteq answers' /\ t \in answers'
      BY <3>1 DEF Record
    <3>3. CASE effects' = [effects EXCEPT ![k].told = "ACKED"] /\ UNCHANGED faults
      <4>1. /\ Onward /\ EffectsFit' /\ AckedIsTrue' /\ DOMAIN effects' = DOMAIN effects
            /\ \A x \in DOMAIN effects : effects'[x] \in Effects
        BY <2>9, <3>2, <3>3
      <4>2. /\ item' \in Items /\ req' \in {"READY", "IN_PROGRESS", "VERIFYING"}
            /\ ItemFits' /\ IntegratedIsProved'
        BY <2>2, <3>1, <4>1, RecordFits
      <4> QED BY <2>8, <3>3, <4>1, <4>2
    <3>4. CASE Fault /\ UNCHANGED effects
      <4>1. Onward
        BY <1>1, <2>6, <3>2, <3>4 DEF Onward
      <4>2. EffectsFit' /\ AckedIsTrue'
        BY <3>4, <4>1, EffectsKept
      <4>3. /\ item' \in Items /\ req' \in {"READY", "IN_PROGRESS", "VERIFYING"}
            /\ ItemFits' /\ IntegratedIsProved'
        BY <2>2, <3>1, <4>1, RecordFits
      <4> QED BY <2>8, <3>4, <4>1, <4>2, <4>3 DEF Inv, TypeOK
    <3> QED BY <2>10, <3>3, <3>4
  <2>11. CASE UNCHANGED delivery /\ effects' = [effects EXCEPT ![k].told = "FAILED"]
              /\ (Fault \/ UNCHANGED faults)
    <3>1. /\ Onward /\ EffectsFit' /\ AckedIsTrue' /\ DOMAIN effects' = DOMAIN effects
          /\ \A x \in DOMAIN effects : effects'[x] \in Effects
      BY <2>9, <2>11 DEF delivery
    <3>2. UNCHANGED <<item, req>>
      BY <2>11 DEF delivery
    <3> QED BY <2>8, <2>11, <3>1, <3>2, ItemKept DEF Inv, TypeOK
  <2> QED BY <1>3, <2>10, <2>11 DEF Tell
<1> QED BY <1>2, <1>3
-----------------------------------------------------------------------------
(* What happens in GitLab.                                                 *)

\* A merge request once merged stays so, and only what is bound is merged by the platform.
Edited ==
  /\ mrs' \in Seq(MergeRequests)
  /\ \A i \in DOMAIN mrs :
       /\ i \in DOMAIN mrs'
       /\ mrs[i].state = "merged" => mrs'[i].state = "merged" /\ mrs'[i].head = mrs[i].head
  /\ \A i \in DOMAIN mrs' :
       /\ mrs'[i].state = "merged" <=> mrs'[i].mergedBy # "nobody"
       /\ mrs'[i].mergedBy = "platform" => i \in Bound

LEMMA EditedRows ==
  ASSUME Inv, Edited, UNCHANGED <<delivery, rows>>
  PROVE  Onward /\ Steady /\ Rows'
<1>1. UNCHANGED <<req, item, answers, requests, effects, bindings>>
  BY DEF delivery, rows
<1>2. Onward /\ Steady
  BY <1>1 DEF Edited, Onward, Steady
<1>3. MergesFit'
  <2>1. Bound' = Bound
    BY <1>1 DEF Bound
  <2> QED BY <2>1 DEF Edited, MergesFit
<1>4. EffectsFit' /\ AckedIsTrue' /\ BindingsFit' /\ NoRequestDropped' /\ RequestsFit'
  BY <1>1, <1>2, EffectsKept, BindingsKept, DoneKept, RequestsKept
<1> QED BY <1>1, <1>2, <1>3, <1>4, ItemKept DEF Rows

\* People work in GitLab.
LEMMA EditedStep ==
  ASSUME Inv, Edited, UNCHANGED <<delivery, rows, call, faults>>,
         branch' \in Heads \cup {Gone}, Edit
  PROVE  Inv'
<1>1. Onward /\ Steady /\ Rows'
  BY EditedRows
<1>2. CallsFit' /\ Leased' /\ Refusing'
  BY <1>1, AllFit, RefusalsStay
<1>3. TypeOK'
  BY DEF Inv, TypeOK, Edited, Edit, delivery, rows
<1> QED BY <1>1, <1>2, <1>3 DEF Inv

\* A merge request is opened.
LEMMA OpensEdited ==
  ASSUME Inv, NEW by \in {"platform", "people"}, NewMergeRequest(by)
  PROVE  Edited /\ Len(mrs') \in DOMAIN mrs'
<1> DEFINE mr == [state |-> "opened", head |-> branch, by |-> by, mergedBy |-> "nobody"]
<1>1. mrs \in Seq(MergeRequests) /\ branch \in Heads /\ mrs' = Append(mrs, mr)
  BY DEF Inv, TypeOK, NewMergeRequest, Openable
<1>2. mr \in MergeRequests /\ mr.state = "opened" /\ mr.mergedBy = "nobody"
  BY <1>1 DEF MergeRequests, MergeStates
<1> HIDE DEF mr
<1>3. /\ mrs' \in Seq(MergeRequests) /\ DOMAIN mrs' = DOMAIN mrs \cup {Len(mrs) + 1}
      /\ mrs'[Len(mrs) + 1] = mr /\ \A i \in DOMAIN mrs : mrs'[i] = mrs[i]
  BY <1>1, <1>2, AddTyped
<1>4. Edited
  BY <1>2, <1>3 DEF Edited, Inv, Rows, MergesFit
<1>5. Len(mrs') = Len(mrs) + 1
  BY <1>1, <1>2
<1> QED BY <1>3, <1>4, <1>5

\* A table of merge requests is rewritten row by row.
LEMMA RewrittenTyped ==
  ASSUME NEW S, NEW s \in Seq(S), NEW t, DOMAIN t = DOMAIN s, t = [i \in DOMAIN t |-> t[i]],
         \A i \in DOMAIN s : t[i] \in S
  PROVE  t \in Seq(S)
<1>1. t \in [1 .. Len(s) -> S] /\ Len(s) \in Nat
  OBVIOUS
<1> QED BY <1>1

LEMMA PushStep == ASSUME Inv, Push PROVE Inv'
<1>1. PICK h \in Heads :
        /\ branch' = h
        /\ mrs' = [i \in DOMAIN mrs |->
                     IF mrs[i].state = "opened" THEN [mrs[i] EXCEPT !.head = h] ELSE mrs[i]]
  BY DEF Push
<1>2. mrs \in Seq(MergeRequests) /\ \A i \in DOMAIN mrs : mrs[i] \in MergeRequests
  BY DEF Inv, TypeOK
<1>3. \A i \in DOMAIN mrs :
        /\ mrs'[i] \in MergeRequests /\ mrs'[i].state = mrs[i].state
        /\ mrs'[i].mergedBy = mrs[i].mergedBy
        /\ mrs[i].state = "merged" => mrs'[i].head = mrs[i].head
  BY <1>1, <1>2 DEF MergeRequests
<1>4. DOMAIN mrs' = DOMAIN mrs /\ mrs' = [i \in DOMAIN mrs' |-> mrs'[i]]
  BY <1>1
<1>5. mrs' \in Seq(MergeRequests)
  BY <1>2, <1>3, <1>4, RewrittenTyped
<1>6. Edited
  BY <1>3, <1>4, <1>5 DEF Edited, Inv, Rows, MergesFit
<1> QED BY <1>1, <1>6, EditedStep DEF Push

LEMMA DeleteBranchStep == ASSUME Inv, DeleteBranch PROVE Inv'
<1>1. /\ branch' = Gone
      /\ mrs' = [i \in DOMAIN mrs |->
                   IF mrs[i].state = "opened" THEN [mrs[i] EXCEPT !.state = "closed"] ELSE mrs[i]]
  BY DEF DeleteBranch
<1>2. mrs \in Seq(MergeRequests) /\ \A i \in DOMAIN mrs : mrs[i] \in MergeRequests
  BY DEF Inv, TypeOK
<1>3. \A i \in DOMAIN mrs :
        /\ mrs'[i] \in MergeRequests /\ mrs'[i].mergedBy = mrs[i].mergedBy
        /\ mrs'[i].head = mrs[i].head
        /\ mrs'[i].state = "merged" <=> mrs[i].state = "merged"
  BY <1>1, <1>2 DEF MergeRequests, MergeStates
<1>4. DOMAIN mrs' = DOMAIN mrs /\ mrs' = [i \in DOMAIN mrs' |-> mrs'[i]]
  BY <1>1
<1>5. mrs' \in Seq(MergeRequests)
  BY <1>2, <1>3, <1>4, RewrittenTyped
<1>6. Edited
  BY <1>3, <1>4, <1>5 DEF Edited, Inv, Rows, MergesFit
<1> QED BY <1>1, <1>6, EditedStep DEF DeleteBranch

LEMMA PersonStep == ASSUME Inv, Person PROVE Inv'
<1>1. UNCHANGED <<delivery, rows, branch, call, faults>> /\ Edit
  BY DEF Person
<1>2. CASE NewMergeRequest("people")
  BY <1>1, <1>2, OpensEdited, EditedStep DEF Inv, TypeOK
<1>3. ASSUME NEW i \in DOMAIN mrs, mrs[i].state = "opened",
             \/ mrs' = [mrs EXCEPT ![i].state = "closed"]
             \/ mrs' = [mrs EXCEPT ![i].state = "merged", ![i].mergedBy = "people"]
      PROVE  Inv'
  <2>1. mrs \in Seq(MergeRequests) /\ mrs[i] \in MergeRequests /\ mrs[i].mergedBy = "nobody"
    BY <1>3 DEF Inv, TypeOK, Rows, MergesFit
  <2>2. PICK x \in MergeRequests :
          /\ mrs' = [mrs EXCEPT ![i] = x] /\ x.mergedBy # "platform"
          /\ x.state = "merged" <=> x.mergedBy # "nobody"
    <3>1. CASE mrs' = [mrs EXCEPT ![i].state = "closed"]
      <4> DEFINE x == [mrs[i] EXCEPT !.state = "closed"]
      <4>1. x \in MergeRequests /\ x.state = "closed" /\ x.mergedBy = "nobody"
        BY <2>1 DEF MergeRequests, MergeStates
      <4>2. mrs' = [mrs EXCEPT ![i] = x]
        BY <3>1
      <4> HIDE DEF x
      <4> QED BY <4>1, <4>2
    <3>2. CASE mrs' = [mrs EXCEPT ![i].state = "merged", ![i].mergedBy = "people"]
      <4> DEFINE x == [mrs[i] EXCEPT !.state = "merged", !.mergedBy = "people"]
      <4>1. x \in MergeRequests /\ x.state = "merged" /\ x.mergedBy = "people"
        BY <2>1 DEF MergeRequests, MergeStates
      <4>2. mrs' = [mrs EXCEPT ![i] = x]
        BY <3>2
      <4> HIDE DEF x
      <4> QED BY <4>1, <4>2
    <3> QED BY <1>3, <3>1, <3>2
  <2>3. /\ mrs' \in Seq(MergeRequests) /\ DOMAIN mrs' = DOMAIN mrs
        /\ mrs'[i] = x /\ \A n \in DOMAIN mrs : n # i => mrs'[n] = mrs[n]
    BY <2>1, <2>2, RowTyped
  <2>4. Edited
    BY <1>3, <2>2, <2>3 DEF Edited, Inv, Rows, MergesFit
  <2> QED BY <1>1, <2>4, EditedStep DEF Inv, TypeOK
<1> QED BY <1>2, <1>3 DEF Person

\* A worker writes to GitLab and goes on, with the answer or without.
LEMMA WriteStep ==
  ASSUME Inv, Edited, UNCHANGED <<delivery, rows, branch, edits>>, Fault \/ UNCHANGED faults,
         NEW w \in Workers, Held(call[w]), ~call[w].bare, NEW d \in Calls, Moves(w, d),
         d.job = call[w].job, d.msg = call[w].msg, d.mtries = call[w].mtries,
         d.key = call[w].key, d.state = call[w].state, ~d.fact, ~d.bare,
         \/ d.at = "unknown"
         \/ d.at = "getmr" /\ d.key.op = "CREATE" /\ d.mr \in DOMAIN mrs'
         \/ /\ d.at = "readmr" /\ d.key.op = "MERGE" /\ d.mr = bindings[d.key.binding].iid
            /\ Merged(d.mr, d.key.head)'
  PROVE  Inv'
<1>1. Onward /\ Steady /\ Rows'
  BY EditedRows
<1>2. UNCHANGED <<req, item, answers, requests, effects, bindings>>
  BY DEF delivery, rows
<1>3. Tables'
  BY <1>2, FaultTyped DEF Inv, TypeOK, Tables, Edited
<1>4. call'[w] = d /\ Keeps(w, d) /\ d.at # "answer"
  BY MovesTyped DEF Moved, Inv, TypeOK, Keeps
<1>5. PICK i : i = d.mr
  OBVIOUS
<1>6. PICK h : h = d.key.head
  OBVIOUS
<1>7. d.at = "readmr" => mrs'[i].state = "merged" /\ mrs'[i].head = h
  BY <1>5, <1>6 DEF Merged
<1>8. Fits(call[w])'
  BY <1>2, <1>4, <1>5, <1>6, <1>7
  DEF Held, Fits, Jobs, Subject, Its, Leaves, Sees, Merged, Stores, Final
<1> QED BY <1>1, <1>3, <1>4, <1>8, CommitStep

\* A merge request is created, once (gitlab_merge_requests.py:261).
LEMMA PostStep == ASSUME Inv, NEW w \in Workers, Post(w) PROVE Inv'
<1>1. call[w].at = "post" /\ UNCHANGED <<delivery, rows, branch, edits>>
  BY DEF Post
<1>2. Held(call[w]) /\ Fits(call[w]) /\ call[w] \in Calls /\ ~call[w].bare
  BY <1>1, HeldThere
<1>3. call[w].key.op = "CREATE" /\ ~call[w].fact
  BY <1>1, <1>2 DEF Fits, Subject, Held
<1>4. CASE Call(w) /\ UNCHANGED mrs
  BY <1>1, <1>4, CallStep DEF CallPlaces, Quiet, gitlab
<1>5. CASE ~Openable /\ Goto(w, "unknown") /\ UNCHANGED <<mrs, faults>>
  BY <1>1, <1>5, UnknownStep DEF Quiet, gitlab
<1>6. CASE NewMergeRequest("platform") /\ UNCHANGED faults
           /\ Moves(w, [call[w] EXCEPT !.at = "getmr", !.mr = Len(mrs')])
  <2>1. Edited /\ Len(mrs') \in DOMAIN mrs'
    BY <1>6, OpensEdited
  <2>2. PICK i \in Nat : i = Len(mrs')
    BY <2>1 DEF Edited
  <2> DEFINE d == [call[w] EXCEPT !.at = "getmr", !.mr = i]
  <2>3. d \in Calls
    BY <1>2 DEF Calls, Places
  <2>4. /\ d.at = "getmr" /\ d.job = call[w].job /\ d.key = call[w].key /\ d.msg = call[w].msg
        /\ d.state = call[w].state /\ d.mtries = call[w].mtries /\ d.mr = i
        /\ ~d.fact /\ ~d.bare
    BY <1>2, <1>3 DEF Calls
  <2>5. Moves(w, d)
    BY <1>6, <2>2
  <2> HIDE DEF d
  <2> QED BY <1>1, <1>2, <1>3, <1>6, <2>1, <2>2, <2>3, <2>4, <2>5, WriteStep
<1>7. CASE NewMergeRequest("platform") /\ Fault /\ Goto(w, "unknown")
  <2> DEFINE d == [call[w] EXCEPT !.at = "unknown"]
  <2>1. d \in Calls
    BY <1>2, GotoTyped DEF Places
  <2>2. /\ d.at = "unknown" /\ d.job = call[w].job /\ d.key = call[w].key
        /\ d.msg = call[w].msg /\ d.state = call[w].state /\ d.mtries = call[w].mtries
        /\ ~d.fact /\ ~d.bare
    BY <1>2, <1>3 DEF Calls
  <2>3. Moves(w, d) /\ Edited
    BY <1>7, OpensEdited DEF Goto
  <2> HIDE DEF d
  <2> QED BY <1>1, <1>2, <1>7, <2>1, <2>2, <2>3, WriteStep
<1> QED BY <1>4, <1>5, <1>6, <1>7 DEF Post

\* The merge request is merged, if it is at the head that was asked for
\* (gitlab_merge_requests.py:330).
LEMMA PutStep == ASSUME Inv, NEW w \in Workers, Put(w) PROVE Inv'
<1> DEFINE mr == mrs[call[w].mr]
<1>1. call[w].at = "put" /\ UNCHANGED <<delivery, rows, branch, edits>>
  BY DEF Put
<1>2. Held(call[w]) /\ Fits(call[w]) /\ call[w] \in Calls /\ ~call[w].bare
  BY <1>1, HeldThere
<1>3. /\ call[w].key.op = "MERGE" /\ call[w].key.binding \in DOMAIN bindings
      /\ call[w].mr = bindings[call[w].key.binding].iid /\ call[w].mr \in DOMAIN mrs
      /\ mr \in MergeRequests /\ ~call[w].fact
  BY <1>1, <1>2, MergeHeld DEF Held
<1>4. CASE Call(w) /\ UNCHANGED mrs
  BY <1>1, <1>4, CallStep DEF CallPlaces, Quiet, gitlab
<1>5. ASSUME NEW why \in Reasons, Fails(w, "block", why), UNCHANGED <<mrs, faults>>
      PROVE  Inv'
  <2>1. Writing(w)
    BY <1>2 DEF Held, Writing, Unsettled
  <2>2. Refuse(w, why)
    BY <1>5, <2>1 DEF Refuse
  <2> QED BY <1>1, <1>5, <2>2, RefuseStep DEF CallPlaces, Quiet, gitlab
<1>6. ASSUME mr.state = "opened", mr.head = call[w].key.head,
             mrs' = [mrs EXCEPT ![call[w].mr].state = "merged", ![call[w].mr].mergedBy = "platform"],
             NEW at \in {"readmr", "unknown"}, Goto(w, at), Fault \/ UNCHANGED faults
      PROVE  Inv'
  <2>1. PICK i \in DOMAIN mrs : i = call[w].mr
    BY <1>3
  <2> DEFINE x == [mrs[i] EXCEPT !.state = "merged", !.mergedBy = "platform"]
  <2>2. /\ x \in MergeRequests /\ x.state = "merged" /\ x.mergedBy = "platform"
        /\ x.head = call[w].key.head
    BY <1>3, <1>6, <2>1 DEF MergeRequests, MergeStates
  <2>3. mrs' = [mrs EXCEPT ![i] = x]
    BY <1>6, <2>1
  <2> HIDE DEF x
  <2>4. mrs \in Seq(MergeRequests) /\ mrs[i].state = "opened"
    BY <1>6, <2>1 DEF Inv, TypeOK
  <2>5. /\ mrs' \in Seq(MergeRequests) /\ DOMAIN mrs' = DOMAIN mrs
        /\ mrs'[i] = x /\ \A n \in DOMAIN mrs : n # i => mrs'[n] = mrs[n]
    BY <2>2, <2>3, <2>4, RowTyped
  <2>6. i \in Bound
    BY <1>3, <2>1 DEF Bound
  <2>7. Edited
    BY <2>2, <2>4, <2>5, <2>6 DEF Edited, Inv, Rows, MergesFit
  <2>8. PICK d \in Calls : d = [call[w] EXCEPT !.at = at]
    BY <1>2, GotoTyped DEF Places
  <2>9. /\ d.at = at /\ d.job = call[w].job /\ d.key = call[w].key /\ d.msg = call[w].msg
        /\ d.state = call[w].state /\ d.mtries = call[w].mtries /\ d.mr = i
        /\ ~d.fact /\ ~d.bare
    BY <1>2, <1>3, <2>1, <2>8 DEF Calls
  <2>10. Moves(w, d)
    BY <1>6, <2>8 DEF Goto
  <2>11. PICK h : h = d.key.head
    OBVIOUS
  <2>12. mrs'[i].state = "merged" /\ mrs'[i].head = h
    BY <2>2, <2>5, <2>9, <2>11
  <2>13. Merged(d.mr, d.key.head)'
    BY <2>9, <2>11, <2>12 DEF Merged
  <2> QED BY <1>1, <1>2, <1>3, <1>6, <2>1, <2>7, <2>8, <2>9, <2>10, <2>13, WriteStep
<1>7. {"HEAD_SHA_CHANGED", "MERGE_CONFLICT"} \subseteq Reasons
  BY DEF Reasons
<1>8. \/ Call(w) /\ UNCHANGED mrs
      \/ /\ mr.state = "opened" /\ mr.head = call[w].key.head
         /\ mrs' = [mrs EXCEPT ![call[w].mr].state = "merged", ![call[w].mr].mergedBy = "platform"]
         /\ \/ Goto(w, "readmr") /\ UNCHANGED faults
            \/ Fault /\ Goto(w, "unknown")
      \/ Fails(w, "block", "HEAD_SHA_CHANGED") /\ UNCHANGED <<mrs, faults>>
      \/ Fails(w, "block", "MERGE_CONFLICT") /\ UNCHANGED <<mrs, faults>>
  BY DEF Put
<1> HIDE DEF mr
<1> QED BY <1>4, <1>5, <1>6, <1>7, <1>8
-----------------------------------------------------------------------------
(* What people ask for, and the invariant.                                 *)

\* A request is sent, or none (requirement/delivery.py:185).
LEMMA AskedTyped ==
  ASSUME NEW i \in Items, NEW s \in {"READY", "IN_PROGRESS", "VERIFYING"},
         NEW d \in DeliveryStates, NEW b \in Bindings, NEW why \in Reasons \cup {"NONE"}
  PROVE  [i EXCEPT !.state = s, !.delivery = d, !.binding = b, !.why = why, !.rev = @ + 1]
           \in Items
<1>1. PICK n \in Nat : n = i.rev + 1
  BY DEF Items
<1>2. [i EXCEPT !.state = s, !.delivery = d, !.binding = b, !.why = why, !.rev = n] \in Items
  BY DEF Items
<1> QED BY <1>1, <1>2

LEMMA AsksStep == ASSUME Inv, Asks PROVE Inv'
<1>1. UNCHANGED <<effects, bindings, mrs, branch, call, faults, edits, answers>>
  BY DEF Asks, gitlab, StartWorkItem, RequestMergeRequest, RequestMerge, Rework
<1>2. item \in Items /\ requests \in Seq(Requests)
  BY DEF Inv, TypeOK
<1>3. /\ item' \in Items /\ req' \in {"READY", "IN_PROGRESS", "VERIFYING"}
      /\ item'.delivery \in {"IMPLEMENTING", "MR_PENDING", "MERGE_PENDING"}
      /\ item'.binding \in {item.binding, NoBinding}
  <2>1. /\ item.state \in {"READY", "IN_PROGRESS", "VERIFYING"} /\ item.binding \in Bindings
        /\ item.why \in Reasons \cup {"NONE"} /\ NoBinding \in Bindings /\ item.rev \in Nat
        /\ req \in {"READY", "IN_PROGRESS", "VERIFYING"}
    BY <1>2 DEF Items, Bindings, Inv, TypeOK
  <2>2. /\ req' \in {"READY", "IN_PROGRESS", "VERIFYING"}
        /\ \E s \in {"READY", "IN_PROGRESS", "VERIFYING"},
              d \in {"IMPLEMENTING", "MR_PENDING", "MERGE_PENDING"},
              b \in {item.binding, NoBinding}, why \in Reasons \cup {"NONE"} :
             item' = [item EXCEPT !.state = s, !.delivery = d, !.binding = b, !.why = why,
                                  !.rev = @ + 1]
    <3>1. CASE StartWorkItem
      <4>1. item' = [item EXCEPT !.state = "IN_PROGRESS", !.delivery = "IMPLEMENTING",
                       !.binding = item.binding, !.why = item.why, !.rev = @ + 1]
        BY <1>2, <3>1 DEF StartWorkItem, Items
      <4> QED BY <2>1, <3>1, <4>1 DEF StartWorkItem
    <3>2. CASE RequestMergeRequest
      <4>1. item' = [item EXCEPT !.state = item.state, !.delivery = "MR_PENDING",
                       !.binding = item.binding, !.why = item.why, !.rev = @ + 1]
        BY <1>2, <3>2 DEF RequestMergeRequest, Items
      <4> QED BY <2>1, <3>2, <4>1 DEF RequestMergeRequest
    <3>3. CASE RequestMerge
      <4>1. item' = [item EXCEPT !.state = item.state, !.delivery = "MERGE_PENDING",
                       !.binding = item.binding, !.why = item.why, !.rev = @ + 1]
        BY <1>2, <3>3 DEF RequestMerge, Items
      <4> QED BY <2>1, <3>3, <4>1 DEF RequestMerge
    <3>4. CASE Rework
      <4>1. item' = [item EXCEPT !.state = "IN_PROGRESS", !.delivery = "IMPLEMENTING",
                       !.binding = NoBinding, !.why = "NONE", !.rev = @ + 1]
        BY <1>2, <3>4 DEF Rework, Items
      <4> QED BY <2>1, <3>4, <4>1 DEF Rework
    <3> QED BY <3>1, <3>2, <3>3, <3>4 DEF Asks
  <2>3. PICK s \in {"READY", "IN_PROGRESS", "VERIFYING"},
             d \in {"IMPLEMENTING", "MR_PENDING", "MERGE_PENDING"},
             b \in {item.binding, NoBinding}, why \in Reasons \cup {"NONE"} :
          item' = [item EXCEPT !.state = s, !.delivery = d, !.binding = b, !.why = why,
                               !.rev = @ + 1]
    BY <2>2
  <2>4. d \in DeliveryStates /\ b \in Bindings
    BY <2>1 DEF DeliveryStates
  <2>5. item' \in Items
    BY <1>2, <2>3, <2>4, AskedTyped
  <2>6. item'.delivery = d /\ item'.binding = b
    BY <1>2, <2>3 DEF Items
  <2> QED BY <2>2, <2>5, <2>6
<1>4. \/ UNCHANGED requests
      \/ \E r \in Requests :
           /\ requests' = Append(requests, r) /\ r.state = "SENT" /\ r.binding = item.binding
           /\ r.kind = "MERGE" => item.delivery = "MR_OPEN" /\ item.binding # NoBinding
  <2>1. ASSUME NEW kind \in {"CREATE", "MERGE"}, Send(kind),
               kind = "MERGE" => item.delivery = "MR_OPEN" /\ item.binding # NoBinding
        PROVE  \E r \in Requests :
                 /\ requests' = Append(requests, r) /\ r.state = "SENT" /\ r.binding = item.binding
                 /\ r.kind = "MERGE" => item.delivery = "MR_OPEN" /\ item.binding # NoBinding
    <3> DEFINE r == [kind |-> kind, rev |-> item'.rev, binding |-> item.binding,
                     state |-> "SENT", due |-> TRUE, tries |-> 0, why |-> "NONE"]
    <3>1. r \in Requests /\ r.state = "SENT" /\ r.binding = item.binding /\ r.kind = kind
      BY <1>2, <1>3 DEF Requests, Items
    <3>2. requests' = Append(requests, r)
      BY <2>1 DEF Send
    <3> HIDE DEF r
    <3> QED BY <2>1, <3>1, <3>2
  <2> QED BY <2>1 DEF Asks, StartWorkItem, RequestMergeRequest, RequestMerge, Rework
<1>5. ASSUME Onward, Steady, RequestsFit', NoRequestDropped', requests' \in Seq(Requests)
      PROVE  Inv'
  <2>1. ItemFits' /\ IntegratedIsProved'
    BY <1>1, <1>3 DEF Inv, Rows, ItemFits, IntegratedIsProved
  <2>2. Rows'
    BY <1>1, <1>5, <2>1, EffectsKept, BindingsKept, MergesKept DEF Rows
  <2>3. CallsFit' /\ Leased' /\ Refusing'
    BY <1>1, <1>5, AllFit, RefusalsStay
  <2> QED BY <1>1, <1>3, <1>5, <2>2, <2>3 DEF Inv, TypeOK
<1>6. CASE UNCHANGED requests
  <2>1. Onward /\ Steady
    BY <1>1, <1>6 DEF Onward, Steady
  <2> QED BY <1>2, <1>5, <1>6, <2>1, RequestsKept, DoneKept
<1>7. ASSUME NEW r \in Requests, requests' = Append(requests, r), r.state = "SENT",
             r.binding = item.binding,
             r.kind = "MERGE" => item.delivery = "MR_OPEN" /\ item.binding # NoBinding
      PROVE  Inv'
  <2>1. PICK n : n = Len(requests) + 1
    OBVIOUS
  <2>2. /\ requests' \in Seq(Requests) /\ DOMAIN requests' = DOMAIN requests \cup {n}
        /\ requests'[n] = r /\ \A m \in DOMAIN requests : requests'[m] = requests[m]
    BY <1>2, <1>7, <2>1, AddTyped
  <2>3. Onward
    BY <1>1, <2>2 DEF Onward
  <2>4. Steady
    BY <2>2 DEF Steady
  <2>5. NoRequestDropped'
    BY <1>7, <2>2, <2>3, DoneKept
  <2>6. RequestsFit'
    <3>1. PICK b : b = item.binding
      OBVIOUS
    <3>2. b \in DOMAIN bindings \cup {NoBinding} /\ (r.kind = "MERGE" => b \in DOMAIN bindings /\ Opened(b))
      BY <1>7, <3>1 DEF Inv, Rows, ItemFits
    <3>3. r.kind = "MERGE" => Opened(b)'
      BY <2>3, <3>2, OpenedStays
    <3>4. ASSUME NEW m \in DOMAIN requests
          PROVE  /\ requests[m].binding \in DOMAIN bindings \cup {NoBinding}
                 /\ requests[m].kind = "MERGE" =>
                      requests[m].binding \in DOMAIN bindings /\ Opened(requests[m].binding)'
      <4>1. PICK x : x = requests[m].binding
        OBVIOUS
      <4>2. requests[m].kind = "MERGE" => Opened(x)'
        BY <2>3, <4>1, OpenedStays DEF Inv, Rows, RequestsFit
      <4>3. requests[m].kind = "MERGE" => Opened(requests[m].binding)'
        BY <1>1, <2>2, <4>1, <4>2 DEF Opened
      <4> QED BY <4>3 DEF Inv, Rows, RequestsFit
    <3>5. \A m \in DOMAIN requests' :
            \/ m \in DOMAIN requests /\ requests'[m] = requests[m]
            \/ requests'[m] = r
      BY <2>2
    <3> QED BY <1>1, <1>7, <2>2, <3>1, <3>2, <3>3, <3>4, <3>5 DEF RequestsFit, Opened
  <2> QED BY <1>5, <2>2, <2>3, <2>4, <2>5, <2>6
<1> QED BY <1>4, <1>6, <1>7

LEMMA StutterStep == ASSUME Inv, UNCHANGED vars PROVE Inv'
<1>1. Quiet /\ UNCHANGED <<call, faults, edits>>
  BY DEF vars, Quiet, delivery, rows, gitlab
<1>2. Onward /\ Steady /\ Rows'
  BY <1>1, QuietOnward, RowsQuiet DEF Inv
<1>3. CallsFit' /\ Leased' /\ Refusing'
  BY <1>1, <1>2, AllFit, RefusalsStay
<1> QED BY <1>1, <1>2, <1>3 DEF Inv, TypeOK, Quiet, delivery, rows, gitlab

LEMMA InitInv == Init => Inv
<1> SUFFICES ASSUME Init PROVE Inv
  OBVIOUS
<1>1. /\ effects = <<>> /\ bindings = <<>> /\ mrs = <<>> /\ requests = <<>> /\ answers = {}
      /\ branch \in {0, 1} /\ call = [w \in Workers |-> IdleCall] /\ faults = 0 /\ edits = 0
      /\ req = "READY"
      /\ item = [state |-> "READY", delivery |-> "NOT_STARTED", why |-> "NONE",
                 binding |-> NoBinding, rev |-> 1]
  BY DEF Init, DeliveryInit
<1>2. TypeOK
  <2>1. item \in Items
    BY <1>1 DEF Items, DeliveryStates, Bindings
  <2>2. call \in [Workers -> Calls]
    BY <1>1, IdleTyped
  <2>3. branch \in Heads \cup {Gone}
    BY <1>1, DeliveryAssumption
  <2> QED BY <1>1, <2>1, <2>2, <2>3 DEF TypeOK
<1>3. EffectsFit
  BY <1>1, FS_EmptySet DEF EffectsFit
<1>4. BindingsFit /\ MergesFit /\ RequestsFit /\ ItemFits
  BY <1>1 DEF BindingsFit, MergesFit, RequestsFit, ItemFits
<1>5. IntegratedIsProved /\ AckedIsTrue /\ NoRequestDropped
  BY <1>1 DEF IntegratedIsProved, AckedIsTrue, NoRequestDropped
<1>6. CallsFit
  BY <1>1, IdleFits DEF CallsFit
<1>7. Leased /\ Refusing
  BY <1>1 DEF Leased, Refusing, IdleCall
<1> QED BY <1>2, <1>3, <1>4, <1>5, <1>6, <1>7 DEF Inv, Rows

LEMMA WorkStep == ASSUME Inv, NEW w \in Workers, Work(w) PROVE Inv'
<1>1. CASE \/ ReadFacts(w) \/ CloseSeen(w) \/ Reread(w) \/ Admit(w) \/ Mark(w)
           \/ Answer(w) \/ Release(w)
  BY <1>1, ReadFactsStep, CloseSeenStep, RereadStep, AdmitStep, MarkStep, AnswerStep,
     ReleaseStep
<1>2. CASE \/ ReadSource(w) \/ Review(w) \/ ReadMergeRequest(w) \/ Prove(w) \/ Classify(w)
           \/ Plan(w) \/ Launch(w) \/ ReadLocal(w) \/ Renew(w)
  BY <1>2, ReadSourceStep, ReviewStep, ReadMergeRequestStep, ProveStep, ClassifyStep,
     PlanStep, LaunchStep, ReadLocalStep, RenewStep
<1>3. CASE \/ ReadBound(w) \/ List(w) \/ Post(w) \/ GetMergeRequest(w) \/ GetBranch(w)
           \/ Put(w) \/ ReadMerged(w) \/ ReadBranch(w)
  BY <1>3, ReadBoundStep, ListStep, PostStep, GetMergeRequestStep, GetBranchStep,
     PutStep, ReadMergedStep, ReadBranchStep
<1>4. CASE \/ Settle(w) \/ Resolve(w) \/ Block(w) \/ Doubt(w) \/ ReadRevision(w) \/ Tell(w)
  BY <1>4, SettleStep, ResolveStep, BlockStep, DoubtStep, ReadRevisionStep, TellStep
<1> QED BY <1>1, <1>2, <1>3, <1>4 DEF Work

LEMMA NextInv == ASSUME Inv, [Next]_vars PROVE Inv'
<1>1. ASSUME NEW w \in Workers,
             \/ Work(w) \/ TakeEffect(w) \/ Replay(w) \/ Crash(w)
             \/ \E m \in DOMAIN requests : TakeRequest(w, m)
      PROVE  Inv'
  BY <1>1, WorkStep, TakeEffectStep, ReplayStep, CrashStep, TakeRequestStep
<1>2. ASSUME NEW m \in DOMAIN requests, Relays(m) \/ LapseRequest(m) PROVE Inv'
  BY <1>2, RelayStep, LapseRequestStep
<1>3. CASE LapseEffect \/ Asks \/ Push \/ Person \/ DeleteBranch
  BY <1>3, LapseEffectStep, AsksStep, PushStep, PersonStep, DeleteBranchStep
<1>4. CASE UNCHANGED vars
  BY <1>4, StutterStep
<1> QED BY <1>1, <1>2, <1>3, <1>4 DEF Next

\* The tables, the work item and the locals of the workers always agree
\* (IntegrationDelivery, process_delivery_request and reconcile_merge_effects).
THEOREM Invariance == Spec => []Inv
<1>1. Inv /\ [Next]_vars => Inv'
  BY NextInv
<1> QED BY InitInv, <1>1, PTL DEF Spec

\* Rows and locals keep their types.
THEOREM TypeCorrect == Spec => []TypeOK
<1>1. Inv => TypeOK
  BY DEF Inv
<1> QED BY Invariance, <1>1, PTL

\* What the work item shows as integrated is merged at the head its merge was planned
\* for (_merge_exact_head, complete_merge).
THEOREM IntegratedProved == Spec => []IntegratedIsProved
<1>1. Inv => IntegratedIsProved
  BY DEF Inv, Rows
<1> QED BY Invariance, <1>1, PTL

\* An outcome counts as told only when the work item recorded this outcome
\* (requirement_callback_state).
THEOREM AckedTrue == Spec => []AckedIsTrue
<1>1. Inv => AckedIsTrue
  BY DEF Inv, Rows
<1> QED BY Invariance, <1>1, PTL

\* No request leaves the inbox without an effect or a recorded refusal
\* (delivery_request_inbox).
THEOREM NoneDropped == Spec => []NoRequestDropped
<1>1. Inv => NoRequestDropped
  BY DEF Inv, Rows
<1> QED BY Invariance, <1>1, PTL
-----------------------------------------------------------------------------
(* What a step may change of what the outside sees.                        *)

\* The requests and the bindings there are, and what they are of.
Alike ==
  /\ DOMAIN requests' = DOMAIN requests
  /\ \A m \in DOMAIN requests :
       requests'[m].kind = requests[m].kind /\ requests'[m].binding = requests[m].binding
SameIds ==
  /\ DOMAIN bindings' = DOMAIN bindings
  /\ \A b \in DOMAIN bindings : bindings'[b].iid = bindings[b].iid

\* A step inside; one that binds a merge request nobody bound; one that tells the work item.
Inner == UNCHANGED <<delivery, mrs>> /\ Alike /\ SameIds
Binds(b, i) ==
  /\ UNCHANGED <<delivery, mrs>> /\ Alike
  /\ b \in Heads \ DOMAIN bindings /\ i \in DOMAIN mrs \ Bound
  /\ DOMAIN bindings' = DOMAIN bindings \cup {b} /\ bindings'[b].iid = i
  /\ \A a \in DOMAIN bindings : bindings'[a].iid = bindings[a].iid
Tells(t) ==
  /\ Said(t) /\ Accepts(t) /\ Record(t) /\ UNCHANGED mrs /\ Alike /\ SameIds
  /\ \/ t.key.about = NoKey
     \/ \E w \in Workers : t = Telling(w) /\ call[w].at = "tell" /\ Current(w)

\* A merge request is merged, by the platform at the head an effect was planned for.
Planned(i) ==
  \E k \in DOMAIN effects :
    /\ k.op = "MERGE" /\ k.head = mrs[i].head
    /\ k.binding \in DOMAIN bindings /\ bindings[k.binding].iid = i
Merges(i, by) ==
  /\ UNCHANGED <<delivery, rows>>
  /\ i \in DOMAIN mrs /\ mrs[i].mergedBy = "nobody" /\ DOMAIN mrs' = DOMAIN mrs
  /\ mrs'[i].mergedBy = by /\ \A n \in DOMAIN mrs : n # i => mrs'[n] = mrs[n]
  /\ by = "platform" => Planned(i)
MergesNone ==
  /\ UNCHANGED <<delivery, rows>>
  /\ \A i \in DOMAIN mrs : i \in DOMAIN mrs' /\ mrs'[i].mergedBy = mrs[i].mergedBy

Steps ==
  \/ Inner \/ MergesNone \/ Asks
  \/ \E b \in Heads : \E i \in DOMAIN mrs : Binds(b, i)
  \/ \E t \in answers' : Tells(t)
  \/ \E i \in DOMAIN mrs : \E by \in {"platform", "people"} : Merges(i, by)

\* A row of the inbox stays that of its request.
LEMMA EditAlike ==
  ASSUME Inv, NEW m
  PROVE  /\ \A x : requests' = [requests EXCEPT ![m].state = x] => Alike
         /\ \A x : requests' = [requests EXCEPT ![m].why = x] => Alike
         /\ \A x : requests' = [requests EXCEPT ![m].due = x] => Alike
         /\ UNCHANGED requests => Alike
<1>1. \A n \in DOMAIN requests : requests[n] \in Requests
  BY DEF Inv, TypeOK
<1> QED BY <1>1 DEF Alike, Requests

LEMMA QuietInner == Quiet => Inner
  BY DEF Quiet, Inner, Alike, SameIds, rows, gitlab

\* The actions on the inbox and the effects.
LEMMA RowSteps ==
  ASSUME Inv, NEW w \in Workers,
         \/ CloseSeen(w) \/ Mark(w) \/ Release(w) \/ Plan(w) \/ Launch(w) \/ Renew(w)
         \/ Doubt(w) \/ TakeEffect(w)
  PROVE  Inner
<1>1. CASE CloseSeen(w) \/ Release(w) \/ Doubt(w)
  <2>1. UNCHANGED <<delivery, mrs, bindings>>
    BY <1>1 DEF CloseSeen, Release, Doubt, gitlab
  <2>2. Alike
    BY <1>1, EditAlike DEF CloseSeen, Release, Doubt, Close
  <2> QED BY <2>1, <2>2 DEF Inner, SameIds
<1>2. CASE Mark(w)
  <2>1. UNCHANGED <<delivery, mrs>>
    BY <1>2 DEF Mark, gitlab
  <2>2. Alike
    BY <1>2, EditAlike DEF Mark
  <2>3. SameIds
    <3>1. CASE UNCHANGED bindings
      BY <3>1 DEF SameIds
    <3>2. CASE call[w].fact /\ Observe(Mine(w).binding, call[w])
      <4>1. call[w] \in Calls /\ call[w].got \in MergeStates /\ Mine(w).binding \in DOMAIN bindings
        BY <1>2, <3>2 DEF Mark, Inv, TypeOK, Rows, RequestsFit, CallsFit, Fits, Jobs, Stores, Mine
      <4> QED BY <3>2, <4>1, ObserveTyped DEF SameIds
    <3> QED BY <1>2, <3>1, <3>2 DEF Mark
  <2> QED BY <2>1, <2>2, <2>3 DEF Inner
<1>3. CASE Plan(w) \/ Launch(w) \/ Renew(w) \/ TakeEffect(w)
  <2>1. UNCHANGED <<delivery, mrs, bindings, requests>>
    BY <1>3 DEF Plan, Launch, Renew, TakeEffect, gitlab
  <2> QED BY <2>1 DEF Inner, Alike, SameIds
<1> QED BY <1>1, <1>2, <1>3

\* What an outcome may store besides.
LEMMA OutcomeSteps ==
  ASSUME Inv, NEW w \in Workers, Settle(w) \/ Block(w)
  PROVE  Inner \/ \E b \in Heads : \E i \in DOMAIN mrs : Binds(b, i)
<1> DEFINE k == call[w].key
<1>1. /\ UNCHANGED <<delivery, mrs>> /\ call[w] \in Calls /\ Fits(call[w])
      /\ call[w].at \in {"settle", "block"}
  BY DEF Settle, Block, gitlab, Inv, TypeOK, CallsFit
<1>2. Alike
  BY EditAlike DEF Settle, Block, Close, rows
<1>3. CASE UNCHANGED bindings
  BY <1>1, <1>2, <1>3 DEF Inner, SameIds
<1>4. CASE Owns(w) /\ Observe(k.binding, call[w]) /\ k.op # "CREATE" /\ call[w].got \in MergeStates
  <2>1. k \in DOMAIN effects /\ k \in Keys
    BY <1>1, <1>4, OwnsOpen DEF Outcomes
  <2>2. k.binding \in DOMAIN bindings
    BY <1>4, <2>1, EffectOfMerge DEF Keys
  <2>3. SameIds
    BY <1>1, <1>4, <2>2, ObserveTyped DEF SameIds
  <2> QED BY <1>1, <1>2, <2>3 DEF Inner
<1>5. CASE Owns(w) /\ Storable(w) /\ call[w].at = "settle" /\ k.op = "CREATE" /\ Bind(w)
  <2>1. /\ k \in DOMAIN effects /\ k \in Keys /\ effects[k].state \notin Final /\ EffectFits(k)
    BY <1>1, <1>5, OwnsOpen DEF Outcomes, Inv, Rows, EffectsFit
  <2>2. PICK b \in Heads : b = k.binding
    BY <2>1 DEF Keys
  <2>3. k = Creation(b)
    BY <1>5, <2>1, <2>2 DEF EffectFits, Belongs, Creation, Key, Keys
  <2>4. PICK i \in DOMAIN mrs : i = call[w].mr
    BY <1>1, <1>5 DEF Fits, Sees
  <2>5. b \notin DOMAIN bindings /\ i \notin Bound
    BY <1>5, <2>1, <2>3, <2>4 DEF Inv, Rows, BindingsFit, Storable
  <2> DEFINE row == [iid |-> i, head |-> call[w].head, live |-> TRUE,
                     facts |-> <<Observed(call[w])>>]
             old == [a \in DOMAIN bindings |-> [bindings[a] EXCEPT !.live = FALSE]]
  <2>6. row.iid = i /\ \A a \in DOMAIN bindings : old[a].iid = bindings[a].iid
    BY DEF BindingRows, Inv, TypeOK
  <2>7. DOMAIN old = DOMAIN bindings /\ bindings' = Insert(old, b, row)
    BY <1>5, <2>2, <2>4 DEF Bind
  <2> HIDE DEF row, old
  <2>8. Binds(b, i)
    BY <1>1, <1>2, <2>5, <2>6, <2>7 DEF Binds, Insert
  <2> QED BY <2>8
<1>6. CASE Settle(w)
  <2>1. call[w].got \in MergeStates
    BY <1>1, <1>6 DEF Settle, Fits, Sees
  <2> QED BY <1>3, <1>4, <1>5, <1>6, <2>1 DEF Settle, Stored
<1>7. CASE Block(w)
  <2>1. call[w].fact => call[w].got \in MergeStates /\ k.op = "MERGE"
    BY <1>1, <1>7 DEF Block, Fits, Stores
  <2> QED BY <1>3, <1>4, <1>7, <2>1 DEF Block, Stored, rows
<1> QED BY <1>6, <1>7

\* The work item is told, or nothing the outside sees changes.
LEMMA TellSteps ==
  ASSUME Inv, NEW w \in Workers, Answer(w) \/ Tell(w)
  PROVE  Inner \/ \E t \in answers' : Tells(t)
<1>1. UNCHANGED <<mrs, bindings>>
  BY DEF Answer, Tell, gitlab
<1>2. SameIds
  BY <1>1 DEF SameIds
<1>3. CASE Answer(w)
  <2>1. Alike
    BY <1>3, EditAlike DEF Answer, Close
  <2>2. CASE UNCHANGED delivery
    BY <1>1, <1>2, <2>1, <2>2 DEF Inner
  <2>3. CASE Accepts(Refusal(w)) /\ Record(Refusal(w))
    <3>1. PICK t : t = Refusal(w)
      OBVIOUS
    <3>2. Said(t) /\ Accepts(t) /\ Record(t) /\ t.key.about = NoKey
      BY <1>3, <2>3, <3>1, RefusalSaid DEF Refusal, Answer
    <3>3. t \in answers'
      BY <3>2 DEF Record
    <3> QED BY <1>1, <1>2, <2>1, <3>2, <3>3 DEF Tells
  <2> QED BY <1>3, <2>2, <2>3 DEF Answer
<1>4. CASE Tell(w)
  <2>1. Alike
    BY <1>4 DEF Tell, Alike
  <2>2. CASE UNCHANGED delivery
    BY <1>1, <1>2, <2>1, <2>2 DEF Inner
  <2>3. CASE Current(w) /\ Accepts(Telling(w)) /\ Record(Telling(w))
    <3>1. PICK t : t = Telling(w)
      OBVIOUS
    <3>2. call[w].at = "tell"
      BY <1>4 DEF Tell
    <3>3. Said(t) /\ Accepts(t) /\ Record(t)
      BY <2>3, <3>1, <3>2, OutcomeSaid
    <3>4. t \in answers'
      BY <3>3 DEF Record
    <3> QED BY <1>1, <1>2, <2>1, <2>3, <3>1, <3>2, <3>3, <3>4 DEF Tells
  <2> QED BY <1>4, <2>2, <2>3 DEF Tell
<1> QED BY <1>3, <1>4

\* GitLab merges at most one merge request in a step.
LEMMA GitLabSteps ==
  ASSUME Inv, (\E w \in Workers : Post(w) \/ Put(w)) \/ Push \/ Person \/ DeleteBranch
  PROVE  MergesNone \/ \E i \in DOMAIN mrs : \E by \in {"platform", "people"} : Merges(i, by)
<1>1. UNCHANGED <<delivery, rows>>
  BY DEF Post, Put, Push, Person, DeleteBranch
<1>2. mrs \in Seq(MergeRequests) /\ \A i \in DOMAIN mrs : mrs[i] \in MergeRequests
  BY DEF Inv, TypeOK
<1>3. ASSUME mrs' = mrs PROVE MergesNone
  BY <1>1, <1>3 DEF MergesNone
<1>4. ASSUME NEW by, NewMergeRequest(by) PROVE MergesNone
  BY <1>1, <1>2, <1>4 DEF MergesNone, NewMergeRequest
<1>5. CASE Push \/ DeleteBranch
  BY <1>1, <1>2, <1>5 DEF MergesNone, Push, DeleteBranch, MergeRequests
<1>6. CASE Person
  <2>1. ASSUME NEW i \in DOMAIN mrs, mrs' = [mrs EXCEPT ![i].state = "closed"]
        PROVE  MergesNone
    BY <1>1, <1>2, <2>1 DEF MergesNone, MergeRequests
  <2>2. ASSUME NEW i \in DOMAIN mrs, mrs[i].state = "opened",
               mrs' = [mrs EXCEPT ![i].state = "merged", ![i].mergedBy = "people"]
        PROVE  Merges(i, "people")
    <3>1. mrs[i].mergedBy = "nobody"
      BY <1>2, <2>2 DEF Inv, Rows, MergesFit, MergeRequests
    <3> QED BY <1>1, <1>2, <2>2, <3>1 DEF Merges, MergeRequests
  <2> QED BY <1>4, <1>6, <2>1, <2>2 DEF Person
<1>7. ASSUME NEW w \in Workers, Post(w) PROVE MergesNone
  <2>1. NewMergeRequest("platform") \/ mrs' = mrs
    BY <1>7 DEF Post
  <2> QED BY <1>3, <1>4, <2>1
<1>8. ASSUME NEW w \in Workers, Put(w)
      PROVE  MergesNone \/ \E i \in DOMAIN mrs : Merges(i, "platform")
  <2> DEFINE i == call[w].mr
  <2>1. CASE mrs[i].state = "opened" /\ mrs[i].head = call[w].key.head
             /\ mrs' = [mrs EXCEPT ![i].state = "merged", ![i].mergedBy = "platform"]
    <3>1. /\ call[w].key.op = "MERGE" /\ call[w].key.binding \in DOMAIN bindings
          /\ i = bindings[call[w].key.binding].iid /\ i \in DOMAIN mrs
      BY <1>8, MergeHeld DEF Put
    <3>2. call[w].key \in DOMAIN effects
      BY <1>8, HeldThere DEF Put, Held
    <3>3. Planned(i)
      BY <2>1, <3>1, <3>2 DEF Planned
    <3>4. mrs[i].mergedBy = "nobody"
      BY <1>2, <2>1, <3>1 DEF Inv, Rows, MergesFit, MergeRequests
    <3> HIDE DEF i
    <3>5. Merges(i, "platform")
      BY <1>1, <1>2, <2>1, <3>1, <3>3, <3>4 DEF Merges, MergeRequests
    <3> QED BY <3>1, <3>5
  <2>2. \/ mrs' = mrs
        \/ /\ mrs[i].state = "opened" /\ mrs[i].head = call[w].key.head
           /\ mrs' = [mrs EXCEPT ![i].state = "merged", ![i].mergedBy = "platform"]
    BY <1>8 DEF Put
  <2> HIDE DEF i
  <2> QED BY <1>3, <2>1, <2>2
<1> QED BY <1>5, <1>6, <1>7, <1>8

\* Every step is of one of these kinds.
LEMMA NextSteps == ASSUME Inv, [Next]_vars PROVE Steps
<1>1. CASE UNCHANGED vars
  BY <1>1, QuietInner DEF Steps, vars, Quiet, delivery, rows, gitlab
<1>2. ASSUME NEW w \in Workers,
             \/ ReadFacts(w) \/ Reread(w) \/ Admit(w) \/ ReadSource(w) \/ Review(w)
             \/ ReadMergeRequest(w) \/ Prove(w) \/ Classify(w) \/ ReadLocal(w) \/ ReadBound(w)
             \/ List(w) \/ GetMergeRequest(w) \/ GetBranch(w) \/ ReadMerged(w)
             \/ ReadBranch(w) \/ Resolve(w) \/ ReadRevision(w) \/ Replay(w) \/ Crash(w)
      PROVE  Steps
  <2>1. Quiet
    BY <1>2 DEF Quiet, ReadFacts, Reread, Admit, ReadSource, Review, ReadMergeRequest, Prove,
       Classify, ReadLocal, ReadBound, List, GetMergeRequest, GetBranch, ReadMerged,
       ReadBranch, Resolve, ReadRevision, Replay, Crash
  <2> QED BY <2>1, QuietInner DEF Steps
<1>3. ASSUME NEW w \in Workers,
             \/ CloseSeen(w) \/ Mark(w) \/ Release(w) \/ Plan(w) \/ Launch(w) \/ Renew(w)
             \/ Doubt(w) \/ TakeEffect(w) \/ Settle(w) \/ Block(w) \/ Answer(w) \/ Tell(w)
             \/ Post(w) \/ Put(w)
      PROVE  Steps
  BY <1>3, RowSteps, OutcomeSteps, TellSteps, GitLabSteps DEF Steps
<1>4. ASSUME NEW m \in DOMAIN requests,
             (\E w \in Workers : TakeRequest(w, m)) \/ Relays(m) \/ LapseRequest(m)
      PROVE  Inner
  <2>1. UNCHANGED <<delivery, mrs, bindings>>
    BY <1>4 DEF TakeRequest, Relays, Relay, LapseRequest, gitlab
  <2>2. Alike
    <3>1. CASE Relays(m) \/ LapseRequest(m)
      BY <3>1, EditAlike DEF Relays, Relay, LapseRequest
    <3>2. ASSUME NEW w \in Workers, TakeRequest(w, m) PROVE Alike
      <4>1. \A n \in DOMAIN requests : requests[n] \in Requests
        BY DEF Inv, TypeOK
      <4>2. \E tries : requests' = [requests EXCEPT ![m].state = "PROCESSING",
                                      ![m].tries = tries, ![m].due = FALSE]
        BY <3>2 DEF TakeRequest
      <4> QED BY <4>1, <4>2 DEF Alike, Requests
    <3> QED BY <1>4, <3>1, <3>2
  <2> QED BY <2>1, <2>2 DEF Inner, SameIds
<1>5. CASE LapseEffect
  BY <1>5 DEF LapseEffect, Steps, Inner, Alike, SameIds, gitlab
<1>6. CASE Asks \/ Push \/ Person \/ DeleteBranch
  BY <1>6, GitLabSteps DEF Steps
<1>7. ASSUME NEW w \in Workers, Work(w) PROVE Steps
  BY <1>2, <1>3, <1>7 DEF Work
<1>8. Inner => Steps
  BY DEF Steps
<1> QED BY <1>1, <1>2, <1>3, <1>4, <1>5, <1>6, <1>7, <1>8 DEF Next

\* The platform merges only at a head some effect was planned for (_merge_exact_head).
THEOREM MergedWhereAsked == Spec => MergedAtPlannedHead
<1> DEFINE P(i) ==
      mrs[i].mergedBy = "nobody" /\ mrs'[i].mergedBy = "platform" =>
        \E k \in DOMAIN effects :
          /\ k.op = "MERGE" /\ k.head = mrs[i].head /\ bindings[k.binding].iid = i
<1>1. ASSUME Inv, [Next]_vars, NEW i \in DOMAIN mrs PROVE P(i)
  <2>1. Steps
    BY <1>1, NextSteps
  <2>2. CASE mrs' = mrs
    BY <2>2
  <2>3. CASE MergesNone
    BY <2>3 DEF MergesNone
  <2>4. ASSUME NEW n \in DOMAIN mrs, NEW by \in {"platform", "people"}, Merges(n, by)
        PROVE  P(i)
    <3>1. CASE i = n
      BY <2>4, <3>1 DEF Merges, Planned
    <3>2. CASE i # n
      BY <2>4, <3>2 DEF Merges
    <3> QED BY <3>1, <3>2
  <2>5. Inner \/ Asks \/ (\E b \in Heads : \E n \in DOMAIN mrs : Binds(b, n))
          \/ (\E t \in answers' : Tells(t)) => mrs' = mrs
    BY DEF Inner, Asks, Binds, Tells, gitlab
  <2> HIDE DEF P
  <2> QED BY <2>1, <2>2, <2>3, <2>4, <2>5 DEF Steps
<1>2. Inv /\ [Next]_vars => [\A i \in DOMAIN mrs : P(i)]_vars
  BY <1>1
<1> QED BY Invariance, <1>2, PTL DEF Spec, MergedAtPlannedHead

\* What is said of a creation that is told already was said before (_require_callback_key).
LEMMA CreationToldOnce ==
  ASSUME Inv, NEW t, Tells(t), t.key.about.op = "CREATE", NEW m \in DOMAIN requests,
         requests[m].kind = "MERGE", requests[m].binding = t.binding
  PROVE  t \in answers
<1>1. PICK b : b = t.binding
  OBVIOUS
<1>2. b \in DOMAIN bindings /\ Opened(b) /\ b # NoBinding
  BY <1>1, DeliveryAssumption DEF Inv, TypeOK, Rows, RequestsFit
<1>3. PICK w \in Workers : t = Telling(w) /\ call[w].at = "tell" /\ Current(w)
  BY DEF Tells, NoKey, Key
<1>4. PICK k \in DOMAIN effects : k = call[w].key
  BY <1>3 DEF Current
<1>5. effects[k].state = call[w].state /\ EffectFits(k) /\ k \in Keys
  BY <1>3, <1>4 DEF Current, Row, Inv, TypeOK, Rows, EffectsFit
<1>6. t.key.about = k /\ t.binding \in {k.binding, NoBinding}
  BY <1>3, <1>4 DEF Telling
<1>7. k.op = "CREATE" /\ k.binding = b
  BY <1>1, <1>2, <1>6
<1>8. k = Creation(b)
  BY <1>5, <1>7 DEF EffectFits, Belongs, Creation, Key, Keys
<1>9. call[w].state = "SUCCEEDED"
  BY <1>2, <1>5, <1>8 DEF Opened
<1>10. t.kind = "ready"
  BY <1>3, <1>4, <1>7, <1>9 DEF Telling
<1>11. t.key = [about |-> Creation(b), msg |-> 0, why |-> "NONE"]
  BY <1>1, <1>10 DEF Tells, Said
<1>12. Used(t)
  BY <1>2, <1>10, <1>11 DEF Opened, Used
<1> QED BY <1>12 DEF Tells, Accepts

\* Once the merge of a merge request is asked for, nothing said of its creation is
\* recorded any more (requirement/delivery_relay.py:381).
THEOREM CreationOver == Spec => CreationIsOver
<1> DEFINE P(t) ==
      t.key.about.op = "CREATE" =>
        \A m \in DOMAIN requests : requests[m].kind = "MERGE" => requests[m].binding # t.binding
<1>1. ASSUME Inv, [Next]_vars, NEW t \in answers' \ answers PROVE P(t)
  <2>1. Steps
    BY <1>1, NextSteps
  <2>2. answers' # answers
    BY <1>1
  <2>3. Inner \/ MergesNone \/ Asks \/ (\E b \in Heads : \E n \in DOMAIN mrs : Binds(b, n))
          \/ (\E i \in DOMAIN mrs : \E by \in {"platform", "people"} : Merges(i, by))
        => answers' = answers
    BY DEF Inner, Asks, Binds, Merges, MergesNone, delivery, StartWorkItem,
       RequestMergeRequest, RequestMerge, Rework
  <2>4. PICK u \in answers' : Tells(u)
    BY <2>1, <2>2, <2>3 DEF Steps
  <2>5. t = u
    BY <1>1, <2>4 DEF Tells, Record
  <2> QED BY <1>1, <2>4, <2>5, CreationToldOnce
<1>2. Inv /\ [Next]_vars => [\A t \in answers' \ answers : P(t)]_vars
  BY <1>1
<1> QED BY Invariance, <1>2, PTL DEF Spec, CreationIsOver
-----------------------------------------------------------------------------
(* The delivery keeps its contract.                                        *)

\* What is merged, and what was asked to be, as long as nobody moves it.
LEMMA WantedStays == Alike => Wanted' = Wanted
  BY DEF Alike, Wanted

LEMMA MergedStays ==
  ASSUME Inv, SameIds, \A i \in DOMAIN mrs : mrs'[i].mergedBy = mrs[i].mergedBy
  PROVE  /\ MergedBy({"platform"})' = MergedBy({"platform"})
         /\ MergedBy({"platform", "people"})' = MergedBy({"platform", "people"})
<1>1. /\ DOMAIN bindings' = DOMAIN bindings
      /\ \A b \in DOMAIN bindings :
           mrs'[bindings'[b].iid].mergedBy = mrs[bindings[b].iid].mergedBy
  BY DEF SameIds, Inv, Rows, BindingsFit
<1> QED BY <1>1 DEF MergedBy

\* A merge effect is of a request that asked for it.
LEMMA EffectWanted ==
  ASSUME Inv, NEW k \in DOMAIN effects, k.op = "MERGE"
  PROVE  k.binding \in Wanted
<1>1. effects[k].by \in DOMAIN requests /\ Belongs(k, requests[effects[k].by])
  BY DEF Inv, Rows, EffectsFit, EffectFits
<1> QED BY <1>1 DEF Belongs, Wanted

LEMMA ContractInit == Init => Contract!Init
  BY DEF Init, DeliveryInit, Contract!Init, Phase, Wanted, MergedBy

\* Steps the outside does not see.
LEMMA ContractInner ==
  ASSUME Inv, Inner \/ MergesNone
  PROVE  UNCHANGED Contract!contract
<1>1. UNCHANGED item /\ Alike /\ SameIds /\ \A i \in DOMAIN mrs : mrs'[i].mergedBy = mrs[i].mergedBy
  BY DEF Inner, MergesNone, delivery, rows, Alike, SameIds
<1>2. Phase' = Phase
  BY <1>1 DEF Phase
<1> QED BY <1>1, <1>2, WantedStays, MergedStays DEF Contract!contract, SameIds

\* A merge request is bound: proposed (BranchDelivery, create_merge_request).
LEMMA ContractBinds ==
  ASSUME Inv, NEW b \in Heads, NEW i \in DOMAIN mrs, Binds(b, i)
  PROVE  Contract!Propose(b)
<1>1. /\ UNCHANGED <<item, mrs>> /\ Alike /\ b \notin DOMAIN bindings /\ i \notin Bound
      /\ DOMAIN bindings' = DOMAIN bindings \cup {b} /\ bindings'[b].iid = i
      /\ \A a \in DOMAIN bindings : bindings'[a].iid = bindings[a].iid
  BY DEF Binds, delivery
<1>2. mrs[i].mergedBy # "platform"
  BY <1>1 DEF Inv, Rows, MergesFit
<1>3. MergedBy({"platform"})' = MergedBy({"platform"})
  BY <1>1, <1>2 DEF MergedBy
<1>4. MergedBy({"platform", "people"})' \in
        {MergedBy({"platform", "people"}), MergedBy({"platform", "people"}) \cup {b}}
  <2>1. CASE mrs[i].mergedBy = "people"
    <3>1. MergedBy({"platform", "people"})' = MergedBy({"platform", "people"}) \cup {b}
      BY <1>1, <2>1 DEF MergedBy
    <3> QED BY <3>1
  <2>2. CASE mrs[i].mergedBy # "people"
    <3>1. MergedBy({"platform", "people"})' = MergedBy({"platform", "people"})
      BY <1>1, <1>2, <2>2 DEF MergedBy
    <3> QED BY <3>1
  <2> QED BY <2>1, <2>2
<1>5. Phase' = Phase /\ Wanted' = Wanted
  BY <1>1, WantedStays DEF Phase
<1> QED BY <1>1, <1>3, <1>4, <1>5 DEF Contract!Propose

\* A merge request is merged: landed, or overtaken, or nothing of ours.
LEMMA ContractMerges ==
  ASSUME Inv, NEW i \in DOMAIN mrs, NEW by \in {"platform", "people"}, Merges(i, by)
  PROVE  [Contract!Next]_(Contract!contract)
<1>1. /\ UNCHANGED <<item, requests, bindings>> /\ mrs[i].mergedBy = "nobody"
      /\ mrs'[i].mergedBy = by /\ \A n \in DOMAIN mrs : n # i => mrs'[n] = mrs[n]
      /\ by = "platform" => Planned(i)
  BY DEF Merges, delivery, rows
<1>2. Phase' = Phase /\ Wanted' = Wanted
  BY <1>1 DEF Phase, Wanted
<1>3. \A b \in DOMAIN bindings : bindings[b].iid \in DOMAIN mrs
  BY DEF Inv, Rows, BindingsFit
<1>4. CASE i \notin Bound
  <2>1. \A b \in DOMAIN bindings : mrs'[bindings[b].iid] = mrs[bindings[b].iid]
    BY <1>1, <1>3, <1>4 DEF Bound
  <2>2. /\ MergedBy({"platform"})' = MergedBy({"platform"})
        /\ MergedBy({"platform", "people"})' = MergedBy({"platform", "people"})
    BY <1>1, <2>1 DEF MergedBy
  <2> QED BY <1>1, <1>2, <2>2 DEF Contract!contract
<1>5. CASE i \in Bound
  <2>1. PICK b \in DOMAIN bindings : bindings[b].iid = i
    BY <1>5 DEF Bound
  <2>2. b \in Heads /\ \A a \in DOMAIN bindings : bindings[a].iid = i => a = b
    BY <2>1 DEF Inv, TypeOK, Rows, BindingsFit
  <2>3. /\ mrs'[bindings[b].iid].mergedBy = by /\ mrs[bindings[b].iid].mergedBy = "nobody"
        /\ \A a \in DOMAIN bindings : a # b => mrs'[bindings[a].iid] = mrs[bindings[a].iid]
    BY <1>1, <1>3, <2>1, <2>2
  <2>4. MergedBy({"platform", "people"})' = MergedBy({"platform", "people"}) \cup {b}
        /\ b \notin MergedBy({"platform", "people"})
    BY <1>1, <2>1, <2>3 DEF MergedBy
  <2>5. CASE by = "people"
    <3>1. MergedBy({"platform"})' = MergedBy({"platform"})
      BY <1>1, <2>1, <2>3, <2>5 DEF MergedBy
    <3>2. Contract!Overtake(b)
      BY <1>1, <1>2, <2>1, <2>4, <3>1 DEF Contract!Overtake
    <3> QED BY <2>2, <3>2 DEF Contract!Next
  <2>6. CASE by = "platform"
    <3>1. MergedBy({"platform"})' = MergedBy({"platform"}) \cup {b}
      BY <1>1, <2>1, <2>3, <2>6 DEF MergedBy
    <3>2. PICK k \in DOMAIN effects :
            k.op = "MERGE" /\ k.binding \in DOMAIN bindings /\ bindings[k.binding].iid = i
      BY <1>1, <2>6 DEF Planned
    <3>3. b \in Wanted
      BY <2>2, <3>2, EffectWanted
    <3>4. Contract!Land(b)
      BY <1>1, <1>2, <2>4, <3>1, <3>3 DEF Contract!Land
    <3> QED BY <2>2, <3>4 DEF Contract!Next
  <2> QED BY <2>5, <2>6
<1> QED BY <1>4, <1>5

\* The work item is told something (requirement/delivery_relay.py:381).
LEMMA ContractTells ==
  ASSUME Inv, NEW t, Tells(t)
  PROVE  [Contract!Next]_(Contract!contract)
<1>1. Said(t) /\ Accepts(t) /\ Record(t) /\ UNCHANGED mrs /\ Alike /\ SameIds
  BY DEF Tells
<1>2. /\ Wanted' = Wanted /\ DOMAIN bindings' = DOMAIN bindings
      /\ MergedBy({"platform"})' = MergedBy({"platform"})
      /\ MergedBy({"platform", "people"})' = MergedBy({"platform", "people"})
  BY <1>1, WantedStays, MergedStays DEF SameIds
<1>3. CASE Used(t)
  <2>1. item' = item
    BY <1>1, <1>3 DEF Record
  <2> QED BY <1>2, <2>1 DEF Contract!contract, Phase
<1>4. CASE ~Used(t)
  <2>1. /\ Admits(t) /\ item'.delivery = Shown(t)
        /\ item'.binding = IF item.binding # NoBinding THEN item.binding ELSE t.binding
    BY <1>1, <1>4 DEF Accepts, Record, Projected
  <2>2. item.binding \in DOMAIN bindings \cup {NoBinding}
    BY DEF Inv, Rows, ItemFits
  <2>3. CASE t.kind = "ready"
    <3>1. t.binding \in DOMAIN bindings /\ t.binding \in Heads
      BY <1>1, <2>3 DEF Said, Inv, TypeOK
    <3>2. Phase \in {"asked", "held"} /\ item.binding \in {NoBinding, t.binding}
      BY <2>1, <2>3 DEF Admits, Phase
    <3>3. Phase' = "open" /\ item'.binding = t.binding
      <4>1. item'.delivery = "MR_OPEN"
        BY <2>1, <2>3 DEF Shown, Unbuilt
      <4> QED BY <2>1, <3>2, <4>1 DEF Phase
    <3>4. Contract!Open(t.binding)
      BY <1>2, <3>1, <3>2, <3>3 DEF Contract!Open
    <3> QED BY <3>1, <3>4 DEF Contract!Next
  <2>4. CASE t.kind = "merged"
    <3>1. /\ t.binding = item.binding /\ item.binding # NoBinding
          /\ Phase \in {"merging", "held"}
      BY <2>1, <2>4 DEF Admits, Phase
    <3>2. Phase' = "integrated" /\ item'.binding = item.binding
      <4>1. item'.delivery = "INTEGRATED"
        BY <2>1, <2>4 DEF Shown, Unbuilt
      <4> QED BY <2>1, <3>1, <4>1 DEF Phase
    <3>3. PICK k \in DOMAIN effects :
            k.op = "MERGE" /\ k.binding = item.binding /\ effects[k].state = "SUCCEEDED"
      BY <1>1, <2>4, <3>1 DEF Said
    <3>4. item.binding \in Wanted
      BY <3>3, EffectWanted
    <3>5. Merged(bindings[item.binding].iid, k.head)
      BY <3>3 DEF Inv, Rows, EffectsFit, EffectFits
    <3>6. item.binding \in DOMAIN bindings /\ bindings[item.binding].iid \in DOMAIN mrs
      BY <2>2, <3>1 DEF Inv, Rows, BindingsFit
    <3>7. mrs[bindings[item.binding].iid].mergedBy \in {"platform", "people"}
      <4>1. PICK i \in DOMAIN mrs : i = bindings[item.binding].iid
        BY <3>6
      <4>2. mrs[i].state = "merged" /\ mrs[i] \in MergeRequests
        BY <3>5, <4>1 DEF Merged, Inv, TypeOK
      <4>3. mrs[i].mergedBy # "nobody"
        BY <4>2 DEF Inv, Rows, MergesFit
      <4> QED BY <4>1, <4>2, <4>3 DEF MergeRequests
    <3>8. item.binding \in MergedBy({"platform", "people"})
      BY <3>6, <3>7 DEF MergedBy
    <3>9. Contract!Integrate
      BY <1>2, <3>1, <3>2, <3>4, <3>8 DEF Contract!Integrate
    <3> QED BY <3>9 DEF Contract!Next
  <2>5. CASE Unbuilt(t)
    <3>1. Phase = "asked" /\ Phase' = "work" /\ item'.binding = NoBinding
      BY <2>1, <2>5 DEF Unbuilt, Shown, Phase
    <3>2. Contract!GiveBack
      BY <1>2, <3>1 DEF Contract!GiveBack
    <3> QED BY <3>2 DEF Contract!Next
  <2>6. CASE t.kind \in {"blocked", "pending", "drift"} /\ ~Unbuilt(t)
    <3>1. Phase \in {"asked", "open", "merging", "held"}
      BY <2>1, <2>6 DEF Admits, Reported, Phase
    <3>2. Phase' = "held"
      BY <2>1, <2>6 DEF Shown, Phase
    <3>3. item'.binding \in IF item.binding = NoBinding THEN DOMAIN bindings \cup {NoBinding}
                            ELSE {item.binding}
      BY <1>1, <2>1 DEF Said
    <3>4. Contract!Hold
      BY <1>2, <3>1, <3>2, <3>3 DEF Contract!Hold
    <3> QED BY <3>4 DEF Contract!Next
  <2> QED BY <1>1, <2>3, <2>4, <2>5, <2>6 DEF Said
<1> QED BY <1>3, <1>4

\* What people ask of the work item.
LEMMA ContractAsks == ASSUME Inv, Asks PROVE [Contract!Next]_(Contract!contract)
<1>1. UNCHANGED <<bindings, mrs>> /\ item \in Items /\ requests \in Seq(Requests)
  BY DEF Asks, gitlab, Inv, TypeOK
<1>2. /\ DOMAIN bindings' = DOMAIN bindings
      /\ MergedBy({"platform"})' = MergedBy({"platform"})
      /\ MergedBy({"platform", "people"})' = MergedBy({"platform", "people"})
  BY <1>1 DEF MergedBy
<1>3. ASSUME NEW kind \in {"CREATE", "MERGE"}, Send(kind)
      PROVE  Wanted' = IF kind = "MERGE" THEN Wanted \cup {item.binding} ELSE Wanted
  <2>1. PICK r : requests' = Append(requests, r) /\ r.kind = kind /\ r.binding = item.binding
    BY <1>3 DEF Send
  <2>2. PICK n : n = Len(requests) + 1
    OBVIOUS
  <2>3. /\ DOMAIN requests' = DOMAIN requests \cup {n} /\ n \notin DOMAIN requests
        /\ requests'[n] = r /\ \A m \in DOMAIN requests : requests'[m] = requests[m]
    BY <1>1, <2>1, <2>2
  <2> QED BY <2>1, <2>3 DEF Wanted
<1>4. CASE StartWorkItem
  <2>1. item.delivery = "NOT_STARTED" /\ item'.delivery = "IMPLEMENTING"
        /\ item'.binding = item.binding /\ requests' = requests
    BY <1>1, <1>4 DEF StartWorkItem, Items
  <2> QED BY <1>2, <2>1 DEF Contract!contract, Phase, Wanted
<1>5. CASE RequestMergeRequest
  <2>1. item.delivery = "IMPLEMENTING" /\ item'.delivery = "MR_PENDING"
        /\ item'.binding = item.binding /\ Send("CREATE")
    BY <1>1, <1>5 DEF RequestMergeRequest, Items
  <2>2. Wanted' = Wanted /\ Phase = "work" /\ Phase' = "asked"
    BY <1>3, <2>1 DEF Phase
  <2>3. Contract!Ask
    BY <1>2, <2>1, <2>2 DEF Contract!Ask
  <2> QED BY <2>3 DEF Contract!Next
<1>6. CASE RequestMerge
  <2>1. item.delivery = "MR_OPEN" /\ item'.delivery = "MERGE_PENDING"
        /\ item'.binding = item.binding /\ Send("MERGE")
    BY <1>1, <1>6 DEF RequestMerge, Items
  <2>2. Wanted' = Wanted \cup {item.binding} /\ Phase = "open" /\ Phase' = "merging"
    BY <1>3, <2>1 DEF Phase
  <2>3. Contract!AskMerge
    BY <1>2, <2>1, <2>2 DEF Contract!AskMerge
  <2> QED BY <2>3 DEF Contract!Next
<1>7. CASE Rework
  <2>1. item.delivery = "INTEGRATED" /\ item'.delivery = "IMPLEMENTING"
        /\ item'.binding = NoBinding /\ requests' = requests
    BY <1>1, <1>7 DEF Rework, Items
  <2>2. Wanted' = Wanted /\ Phase = "integrated" /\ Phase' = "work"
    BY <2>1 DEF Wanted, Phase
  <2>3. Contract!GiveBack
    BY <1>2, <2>1, <2>2 DEF Contract!GiveBack
  <2> QED BY <2>3 DEF Contract!Next
<1> QED BY <1>4, <1>5, <1>6, <1>7 DEF Asks

LEMMA ContractNext == ASSUME Inv, [Next]_vars PROVE [Contract!Next]_(Contract!contract)
<1>1. Steps
  BY NextSteps
<1>2. CASE Inner \/ MergesNone
  BY <1>2, ContractInner
<1>3. ASSUME NEW b \in Heads, NEW i \in DOMAIN mrs, Binds(b, i)
      PROVE  Contract!Next
  BY <1>3, ContractBinds DEF Contract!Next
<1> QED BY <1>1, <1>2, <1>3, ContractAsks, ContractTells, ContractMerges DEF Steps

\* The delivery implements its contract: proposed once asked, merged by the platform
\* only as wanted, shown as integrated only when merged (source_control, requirement).
THEOREM Refinement == Spec => ImplementsDeliveryContract
<1>1. Inv /\ [Next]_vars => [Contract!Next]_(Contract!contract)
  BY ContractNext
<1> QED
  BY ContractInit, <1>1, Invariance, PTL DEF Spec, ImplementsDeliveryContract, Contract!Spec
=============================================================================
