--------------------------- MODULE AgentPushProofs ---------------------------
(***************************************************************************)
(* The pushes of AgentPush keep their types, their facts and their fences, *)
(* and implement PushContract, for any requests, attempts, generations,    *)
(* branches and workers and any number of faults.                          *)
(***************************************************************************)
EXTENDS AgentPush, TLAPS

\* A fence that is there has a revocation.
Typed ==
  /\ TypeOK
  /\ \A a \in Attempts : fence[a].gen = 0 <=> fence[a].rev = "NONE"

\* What is under way with a row, and what a reconciler is about to write.
LedgerFits ==
  /\ FactsAreTrue
  /\ \A r \in checking : push[r].state = "NONE"
  /\ \A r \in Requests : exec[r] # "none" => push[r].state \notin {"NONE", "AUTHORIZED"}
  /\ \A w \in Reconcilers : sweep[w].at = "settle" =>
       /\ sweep[w].next # "NONE"
       /\ sweep[w].next = "SUCCEEDED" => sweep[w].seen = Terms[sweep[w].request].to

\* An attempt has one fence under way.
OneFence ==
  \A f, h \in Fencers :
    Fencing(f) /\ Fencing(h) /\ f # h => errand[f].attempt # errand[h].attempt

\* A fence under way is no lower than the row; it shuts every open push it covers and lists
\* the branch of every one that was executed, but for those that slipped in.
OpenFits(f) ==
  LET e == errand[f] IN
  /\ \/ e.gen > fence[e.attempt].gen /\ e.expect = "PENDING"
     \/ e.gen = fence[e.attempt].gen /\ e.expect = fence[e.attempt].rev
  /\ \A r \in e.shut : r \in CoveredBy(e.attempt, e.gen) /\ push[r].state \in Open
  /\ \A r \in CoveredBy(e.attempt, e.gen) \ slipped :
       /\ push[r].state \in Open => r \in e.shut
       /\ exec[r] # "none" => BranchOf[r] \in e.todo

\* A revocation has its branches still to do, or done.
RevokeFits(f) ==
  LET e == errand[f] IN
  /\ e.gen <= fence[e.attempt].gen /\ e.expect # "SUCCEEDED"
  /\ e.at = "revoke" =>
       \A r \in CoveredBy(e.attempt, e.gen) \ slipped :
         exec[r] # "none" => BranchOf[r] \in e.todo \/ barred[e.attempt][BranchOf[r]] >= e.gen

ErrandFits(f) == IF Fencing(f) THEN f \in Fencers /\ OpenFits(f) ELSE RevokeFits(f)
ErrandsFit == \A f \in Callers : errand[f] # NoErrand => ErrandFits(f)

\* Where a fence was revoked the broker bars what it covers.
BarredFits ==
  \A r \in Requests \ slipped :
    Covered(r) /\ fence[AttemptOf[r]].rev = "SUCCEEDED" /\ exec[r] # "none" =>
      barred[AttemptOf[r]][BranchOf[r]] >= fence[AttemptOf[r]].gen

Inv == Typed /\ LedgerFits /\ OneFence /\ ErrandsFit /\ FenceShuts /\ BarredFits
-----------------------------------------------------------------------------
(* Types.                                                                  *)

\* A call that is under way has its record.
LEMMA CallersAt ==
  ASSUME TypeOK
  PROVE  /\ \A w \in Reconcilers : sweep[w] # NoSweep \/ sweep[w].at # "idle" => sweep[w] \in Sweeps
         /\ \A f \in Callers : errand[f] # NoErrand \/ errand[f].at # "idle" => errand[f] \in Errands
  BY DEF TypeOK, NoSweep, NoErrand

\* The states a row, an execution and a verdict can be in.
LEMMA StateNames ==
  /\ {"NONE", "AUTHORIZED", "IN_FLIGHT", "UNKNOWN", "RECONCILIATION",
      "SUCCEEDED", "BLOCKED", "FENCED"} = States
  /\ \A r, c : Verdict(r, c) \in {"UNKNOWN", "BLOCKED", "FENCED", "SUCCEEDED"}
  BY DEF States, Open, Working, Settled, Verdict

LEMMA TermTypes ==
  /\ \A r \in Requests : /\ Terms[r].to \in Commits /\ Terms[r].from \in Commits
                         /\ Terms[r].to # NoCommit /\ Terms[r].from # Terms[r].to
                         /\ AttemptOf[r] \in Attempts /\ BranchOf[r] \in Branches
                         /\ GenOf[r] \in Generations
  /\ \A g \in Generations : g \in Nat /\ g > 0
  BY PushAssumption DEF AttemptOf, BranchOf, GenOf

\* A row is written whole or in part.
LEMMA RowTyped ==
  ASSUME push \in [Requests -> PushRows], NEW r \in Requests
  PROVE  /\ \A s \in States : [push EXCEPT ![r].state = s] \in [Requests -> PushRows]
         /\ \A s \in States, o \in Reconcilers \cup {Executor, Nobody} :
              [push EXCEPT ![r].state = s, ![r].owner = o] \in [Requests -> PushRows]
         /\ \A p \in PushRows : [push EXCEPT ![r] = p] \in [Requests -> PushRows]
         /\ \A s \in States, c \in Commits \cup {NoCommit} :
              [state |-> s, owner |-> Nobody, seen |-> c] \in PushRows
  BY DEF PushRows

LEMMA RecordsFencedTyped ==
  ASSUME TypeOK, NEW r \in Requests, RecordsFenced(r)
  PROVE  push' \in [Requests -> PushRows] /\ fact' \in [Requests -> {"NONE", "CONFIRMED", "FENCED"}]
<1>1. CASE push[r].state = "FENCED"
  <2>1. [push[r] EXCEPT !.seen = Terms[r].to] \in PushRows
    BY TermTypes DEF TypeOK, PushRows
  <2>2. push' = [push EXCEPT ![r] = [push[r] EXCEPT !.seen = Terms[r].to]]
        /\ fact' = [fact EXCEPT ![r] = IF @ = "NONE" THEN "FENCED" ELSE @]
    BY <1>1 DEF RecordsFenced
  <2> QED BY <2>1, <2>2 DEF TypeOK
<1>2. CASE push[r].state # "FENCED"
  BY <1>2 DEF TypeOK, RecordsFenced
<1> QED BY <1>1, <1>2

LEMMA ExecutesTyped ==
  ASSUME TypeOK, NEW r \in Requests, NEW s, NEW t \in ExecStates, Executes(r, s, t)
  PROVE  exec' \in [Requests -> ExecStates]
  BY DEF TypeOK, Executes

LEMMA AuthorizeTyped ==
  ASSUME TypeOK, NEW r \in Requests, Authorize(r) \/ BlockExpired(r)
  PROVE  TypeOK'
<1>1. CASE BlockExpired(r)
  <2>1. push' \in [Requests -> PushRows]
    BY <1>1, StateNames, RowTyped DEF TypeOK, BlockExpired
  <2> QED BY <1>1, <2>1 DEF TypeOK, BlockExpired, broker, calls
<1>2. CASE Insert(r) /\ checking' \subseteq checking
  <2>1. push' \in [Requests -> PushRows]
    BY <1>2, StateNames, RowTyped DEF TypeOK, Insert
  <2> QED BY <1>2, <2>1 DEF TypeOK, Insert, broker, calls
<1>3. CASE AuthorizeCheck(r)
  BY <1>3 DEF TypeOK, AuthorizeCheck, ledger, broker, calls
<1> QED BY <1>1, <1>2, <1>3 DEF Authorize, AuthorizeLocked, AuthorizeInsert

LEMMA ExecuteTyped ==
  ASSUME TypeOK, NEW r \in Requests, Execute(r)
  PROVE  TypeOK'
<1>1. {"none", "push", "refused", "unanswered", "landed", "clear", "rejected", "withheld", "lost",
       "freeze", "freezeLost", "over", "turnedAway"} = ExecStates
  BY DEF ExecStates
<1>2. CASE Consume(r)
  <2>1. push' \in [Requests -> PushRows]
    BY <1>2, StateNames, RowTyped DEF TypeOK, Consume
  <2> QED BY <1>1, <1>2, <2>1, ExecutesTyped DEF TypeOK, Consume, broker
<1>3. CASE PushLands(r) \/ PushUnanswered(r)
  <2>1. head' \in [Branches -> Commits]
    BY <1>3, TermTypes DEF TypeOK, PushLands, PushUnanswered, Lands
  <2> QED BY <1>1, <1>3, <2>1, ExecutesTyped DEF TypeOK, PushLands, PushUnanswered, ledger
<1>4. CASE PushRefused(r) \/ JudgePush(r)
  BY <1>1, <1>4, ExecutesTyped DEF TypeOK, PushRefused, JudgePush, ledger, broker
<1>5. CASE FinishPush(r)
  <2>1. \A s \in States, c \in Commits \cup {NoCommit} : \A from, to :
          FinishInflight(r, from, s, c, to) => push' \in [Requests -> PushRows]
    <3> TAKE s \in States, c \in Commits \cup {NoCommit}
    <3> TAKE from, to
    <3> DEFINE p == [state |-> s, owner |-> Nobody, seen |-> c]
    <3>1. p \in PushRows
      BY DEF PushRows
    <3> HIDE DEF p
    <3>2. [push EXCEPT ![r] = p] \in [Requests -> PushRows]
      BY <3>1, RowTyped DEF TypeOK
    <3>3. FinishInflight(r, from, s, c, to) => push' = push \/ push' = [push EXCEPT ![r] = p]
      BY DEF FinishInflight, p
    <3> QED BY <3>2, <3>3 DEF TypeOK
  <2>2. push' \in [Requests -> PushRows]
    BY <1>5, <2>1, StateNames, TermTypes DEF FinishPush
  <2> QED BY <1>1, <1>5, <2>2, ExecutesTyped DEF TypeOK, FinishPush, FinishInflight, broker
<1>6. CASE ConfirmInflight(r)
  <2>1. push' \in [Requests -> PushRows]
    <3> DEFINE p == [state |-> "SUCCEEDED", owner |-> Nobody, seen |-> Terms[r].to]
    <3>1. p \in PushRows
      BY StateNames, TermTypes DEF PushRows
    <3> HIDE DEF p
    <3>2. [push EXCEPT ![r] = p] \in [Requests -> PushRows]
      BY <3>1, RowTyped DEF TypeOK
    <3>3. push' = push \/ push' = [push EXCEPT ![r] = p]
      BY <1>6 DEF ConfirmInflight, Succeeds, p
    <3> QED BY <3>2, <3>3 DEF TypeOK
  <2>2. fact' \in [Requests -> {"NONE", "CONFIRMED", "FENCED"}]
    BY <1>6 DEF TypeOK, ConfirmInflight, Succeeds
  <2>3. exec' \in [Requests -> ExecStates]
    BY <1>1, <1>6, ExecutesTyped DEF ConfirmInflight
  <2> QED BY <1>6, <2>1, <2>2, <2>3 DEF TypeOK, ConfirmInflight, broker
<1>7. CASE RecordFenced(r)
  BY <1>1, <1>7, ExecutesTyped, RecordsFencedTyped DEF TypeOK, RecordFenced, broker
<1>8. CASE FreezeBranch(r)
  BY <1>1, <1>8, ExecutesTyped, TermTypes DEF TypeOK, FreezeBranch, Freezes, ledger
<1>9. CASE CrashExecution(r)
  BY <1>1, <1>9, PushAssumption DEF TypeOK, CrashExecution, ledger, broker
<1> QED BY <1>2, <1>3, <1>4, <1>5, <1>6, <1>7, <1>8, <1>9, AuthorizeTyped DEF Execute

LEMMA ReconcileTyped ==
  ASSUME TypeOK, NEW w \in Reconcilers, Reconcile(w)
  PROVE  TypeOK'
<1>1. ASSUME NEW r \in Requests, Claim(w, r) PROVE TypeOK'
  <2>1. push' \in [Requests -> PushRows]
    BY <1>1, StateNames, RowTyped DEF TypeOK, Claim
  <2> QED BY <1>1, <2>1 DEF TypeOK, Claim, Sweeps, broker
<1>2. CASE sweep[w] \in Sweeps
  <2> DEFINE r == sweep[w].request
  <2>1. r \in Requests
    BY <1>2 DEF Sweeps
  <2>2. CASE Observe(w) \/ JudgeSeen(w)
    <3>1. head[BranchOf[r]] \in Commits
      BY <2>1, TermTypes DEF TypeOK
    <3>2. sweep'[w] \in Sweeps /\ sweep' = [sweep EXCEPT ![w] = sweep'[w]]
      <4>1. CASE JudgeSeen(w)
        <5>1. Verdict(r, sweep[w].seen) \in {"UNKNOWN", "BLOCKED", "FENCED", "SUCCEEDED"}
          BY StateNames
        <5> QED BY <1>2, <4>1, <5>1 DEF TypeOK, JudgeSeen, Sweeps
      <4>2. CASE Observe(w)
        BY <1>2, <3>1, <4>2 DEF TypeOK, Observe, Sweeps
      <4> QED BY <2>2, <4>1, <4>2
    <3>3. sweep' \in [Reconcilers -> {NoSweep} \cup Sweeps]
      BY <3>2 DEF TypeOK
    <3> QED BY <2>2, <3>3 DEF TypeOK, Observe, JudgeSeen, ledger, broker
  <2>3. CASE FinishReconciliation(w)
    <3>1. sweep' \in [Reconcilers -> {NoSweep} \cup Sweeps]
      BY <1>2, <2>3 DEF TypeOK, FinishReconciliation, Sweeps
    <3>2. push[r] \in PushRows /\ sweep[w].next \in States /\ sweep[w].seen \in Commits \cup {NoCommit}
      BY <1>2, <2>1, StateNames DEF TypeOK, Sweeps
    <3>3. push' \in [Requests -> PushRows]
      BY <2>1, <2>3, <3>2 DEF TypeOK, FinishReconciliation, PushRows
    <3>4. fact' \in [Requests -> {"NONE", "CONFIRMED", "FENCED"}]
      BY <2>3 DEF TypeOK, FinishReconciliation
    <3> QED BY <2>3, <3>1, <3>3, <3>4 DEF TypeOK, FinishReconciliation, broker
  <2>4. CASE RecordDrift(w)
    <3>1. sweep' \in [Reconcilers -> {NoSweep} \cup Sweeps]
      BY <1>2, <2>4 DEF TypeOK, RecordDrift, Sweeps
    <3> QED BY <2>1, <2>4, <3>1, RecordsFencedTyped DEF TypeOK, RecordDrift, broker
  <2>5. CASE FreezeDrift(w)
    BY <2>1, <2>5, TermTypes DEF TypeOK, FreezeDrift, Freezes, ledger
  <2>6. CASE CrashReconciler(w)
    BY <2>6, PushAssumption DEF TypeOK, CrashReconciler, ledger, broker
  <2> QED BY <1>1, <2>2, <2>3, <2>4, <2>5, <2>6 DEF Reconcile
<1> QED BY <1>1, <1>2, CallersAt DEF Reconcile, Observe, JudgeSeen, FinishReconciliation, RecordDrift,
  FreezeDrift, CrashReconciler

LEMMA ErrandsTyped ==
  ASSUME TypeOK, NEW f \in Callers, NEW e \in {NoErrand} \cup Errands,
         errand' = [errand EXCEPT ![f] = e]
  PROVE  errand' \in [Callers -> {NoErrand} \cup Errands]
  BY DEF TypeOK

LEMMA OpenTyped ==
  ASSUME Typed, NEW f \in Fencers, NEW a \in Attempts, NEW g \in Generations, OpenFence(f, a, g)
  PROVE  /\ TypeOK'
         /\ \E e \in Errands :
              /\ errand' = [errand EXCEPT ![f] = e] /\ e.at = "open" /\ e.attempt = a
              /\ \/ e.gen > fence[a].gen /\ e.expect = "PENDING"
                 \/ e.gen = fence[a].gen /\ e.expect = fence[a].rev
              /\ e.todo = Grants(a, e.gen)
              /\ e.shut = {r \in CoveredBy(a, e.gen) : push[r].state \in Open}
<1> DEFINE raised == g > fence[a].gen
           actual == IF raised THEN g ELSE fence[a].gen
           e == [at |-> "open", attempt |-> a, gen |-> actual,
                 expect |-> IF raised THEN "PENDING" ELSE fence[a].rev,
                 todo |-> Grants(a, actual),
                 shut |-> {r \in CoveredBy(a, actual) : push[r].state \in Open}]
<1>1. fence[a] \in FenceRows /\ (fence[a].gen = 0 <=> fence[a].rev = "NONE")
  BY DEF Typed, TypeOK
<1>2. fence[a].gen \in Nat /\ g \in Nat /\ g > 0
  BY <1>1, TermTypes DEF FenceRows
<1>3. actual \in Generations /\ e.expect \in {"PENDING", "UNKNOWN", "SUCCEEDED"}
  BY <1>1, <1>2 DEF FenceRows
<1>4. Grants(a, actual) \subseteq Branches
  BY TermTypes DEF Grants, CoveredBy
<1>5. e \in Errands
  BY <1>3, <1>4 DEF Errands, CoveredBy
<1>6. errand' = [errand EXCEPT ![f] = e]
  BY DEF OpenFence
<1>7. \/ e.gen > fence[a].gen /\ e.expect = "PENDING"
      \/ e.gen = fence[a].gen /\ e.expect = fence[a].rev
  BY <1>2
<1>8. TypeOK'
  BY <1>5, <1>6, ErrandsTyped DEF Typed, TypeOK, OpenFence, ledger, broker, Callers
<1> HIDE DEF e
<1> QED BY <1>5, <1>6, <1>7, <1>8 DEF e

LEMMA CommitTyped ==
  ASSUME TypeOK, NEW f \in Fencers, CommitFence(f)
  PROVE  TypeOK'
<1>1. f \in Callers /\ errand[f] \in Errands
  BY CallersAt DEF Callers, CommitFence, Fencing
<1>2. errand' \in [Callers -> {NoErrand} \cup Errands]
  BY <1>1 DEF TypeOK, CommitFence, Errands
<1>3. push' \in [Requests -> PushRows]
  <2>1. \A r \in Requests : push[r] \in PushRows
    BY DEF TypeOK
  <2>2. \A r \in Requests : [push[r] EXCEPT !.state = "FENCED", !.owner = Nobody] \in PushRows
    BY <2>1, StateNames DEF PushRows
  <2> QED BY <2>1, <2>2 DEF CommitFence
<1>4. fence' \in [Attempts -> FenceRows]
  BY <1>1 DEF TypeOK, CommitFence, Errands, FenceRows
<1> QED BY <1>2, <1>3, <1>4 DEF TypeOK, CommitFence, broker

LEMMA ClaimTyped ==
  ASSUME Typed, NEW f \in Callers, NEW a \in Attempts, ClaimRevocation(f, a)
  PROVE  TypeOK'
<1> DEFINE e == [at |-> "claimed", attempt |-> a, gen |-> fence[a].gen, expect |-> "UNKNOWN",
                 todo |-> {}, shut |-> {}]
<1>1. fence[a] \in FenceRows /\ fence[a].gen # 0
  BY DEF Typed, TypeOK, ClaimRevocation
<1>2. e \in Errands
  BY <1>1 DEF FenceRows, Errands
<1>3. errand' = [errand EXCEPT ![f] = e] /\ fence' = [fence EXCEPT ![a].rev = "UNKNOWN"]
  BY DEF ClaimRevocation
<1>4. fence' \in [Attempts -> FenceRows]
  BY <1>3 DEF Typed, TypeOK, FenceRows
<1> HIDE DEF e
<1> QED BY <1>2, <1>3, <1>4, ErrandsTyped DEF Typed, TypeOK, ClaimRevocation, ledger, broker

\* Revoking raises what the broker bars, and never lowers it.
LEMMA BarsTyped ==
  ASSUME barred \in [Attempts -> [Branches -> {0} \cup Generations]], NEW a \in Attempts,
         NEW b \in Branches, NEW g \in Generations, Bars(a, b, g)
  PROVE  /\ barred' \in [Attempts -> [Branches -> {0} \cup Generations]]
         /\ \A d \in Attempts, c \in Branches : barred'[d][c] >= barred[d][c]
         /\ barred'[a][b] >= g
<1>1. barred[a] \in [Branches -> {0} \cup Generations]
  OBVIOUS
<1>2. barred[a][b] \in {0} \cup Generations
  BY <1>1
<1> DEFINE top == IF g > barred[a][b] THEN g ELSE barred[a][b]
<1>3. barred' = [barred EXCEPT ![a] = [barred[a] EXCEPT ![b] = top]]
  BY DEF Bars
<1>4. top \in {0} \cup Generations /\ top >= g /\ top >= barred[a][b]
  BY <1>2, TermTypes
<1> HIDE DEF top
<1>5. [barred[a] EXCEPT ![b] = top] \in [Branches -> {0} \cup Generations]
  BY <1>1, <1>4
<1>6. \A d \in Attempts, c \in Branches : barred[d][c] \in Nat
  BY TermTypes
<1> QED BY <1>1, <1>3, <1>4, <1>5, <1>6

LEMMA WithdrawTyped ==
  ASSUME TypeOK, NEW f \in Callers, Withdraw(f)
  PROVE  TypeOK'
<1>1. errand[f] \in Errands
  BY CallersAt DEF Withdraw, ListGrants, CompleteRevocation, CrashErrand, Revoke, RevokeUnanswered
<1>2. CASE ListGrants(f)
  <2>1. Grants(errand[f].attempt, errand[f].gen) \subseteq Branches
    BY TermTypes DEF Grants, CoveredBy
  <2>2. errand' \in [Callers -> {NoErrand} \cup Errands]
    BY <1>1, <1>2, <2>1 DEF TypeOK, ListGrants, Errands
  <2> QED BY <1>2, <2>2 DEF TypeOK, ListGrants, ledger, broker
<1>3. CASE CompleteRevocation(f)
  <2>1. fence' \in [Attempts -> FenceRows]
    BY <1>1, <1>3 DEF TypeOK, CompleteRevocation, FenceRows, Errands
  <2> QED BY <1>3, <2>1, ErrandsTyped DEF TypeOK, CompleteRevocation, ledger, broker
<1>4. CASE CrashErrand(f)
  BY <1>4, ErrandsTyped, PushAssumption DEF TypeOK, CrashErrand, ledger, broker
<1>5. ASSUME NEW b \in Branches, Revoke(f, b) \/ RevokeUnanswered(f, b) PROVE TypeOK'
  <2>1. errand' \in [Callers -> {NoErrand} \cup Errands]
    <3>1. [errand[f] EXCEPT !.todo = @ \ {b}] \in Errands
      BY <1>1 DEF Errands
    <3>2. [errand[f] EXCEPT !.at = "unanswered", !.todo = {}] \in Errands
      BY <1>1 DEF Errands
    <3>3. \/ errand' = [errand EXCEPT ![f] = [errand[f] EXCEPT !.todo = @ \ {b}]]
          \/ errand' = [errand EXCEPT ![f] = [errand[f] EXCEPT !.at = "unanswered", !.todo = {}]]
      BY <1>5 DEF Revoke, RevokeUnanswered
    <3> QED BY <3>1, <3>2, <3>3, ErrandsTyped
  <2>2. barred' \in [Attempts -> [Branches -> {0} \cup Generations]]
    <3>1. errand[f].attempt \in Attempts /\ errand[f].gen \in Generations
      BY <1>1 DEF Errands
    <3>2. Bars(errand[f].attempt, b, errand[f].gen) \/ UNCHANGED barred
      BY <1>5 DEF Revoke, RevokeUnanswered
    <3> QED BY <3>1, <3>2, BarsTyped DEF TypeOK
  <2> QED BY <1>5, <2>1, <2>2, PushAssumption DEF TypeOK, Revoke, RevokeUnanswered, ledger
<1> QED BY <1>2, <1>3, <1>4, <1>5 DEF Withdraw

LEMMA TypedStep ==
  ASSUME Typed, [Next]_vars
  PROVE  TypeOK'
<1>1. CASE UNCHANGED vars
  BY <1>1 DEF Typed, TypeOK, vars
<1>2. ASSUME NEW b \in Branches, NEW c \in Commits, PushElsewhere(b, c) PROVE TypeOK'
  BY <1>2 DEF Typed, TypeOK, PushElsewhere, ledger, calls
<1> QED BY <1>1, <1>2, AuthorizeTyped, ExecuteTyped, ReconcileTyped, OpenTyped, CommitTyped, ClaimTyped,
  WithdrawTyped DEF Typed, Next, Callers
-----------------------------------------------------------------------------
(* What a step may do to a row.                                            *)

SameRow(r) == push'[r] = push[r] /\ fact'[r] = fact[r]
Inserted(r) ==
  /\ push[r].state = "NONE" /\ push'[r].state = "AUTHORIZED" /\ fact'[r] = fact[r]
  /\ \A f \in Fencers : Fencing(f) /\ r \in CoveredBy(errand[f].attempt, errand[f].gen) =>
       r \in slipped'
Goes(r, from, to) ==
  ~Locked(r) /\ push[r].state \in from /\ push'[r].state \in to /\ fact'[r] = fact[r]
Consumed(r) == ~Covered(r) /\ Goes(r, {"AUTHORIZED"}, {"IN_FLIGHT"})
Confirmed(r) ==
  /\ ~Locked(r) /\ push[r].state \in Working
  /\ push'[r].state = "SUCCEEDED" /\ push'[r].seen = Terms[r].to /\ fact'[r] = "CONFIRMED"
Reported(r) ==
  /\ push[r].state = "FENCED" /\ push'[r].state = "FENCED" /\ push'[r].seen = Terms[r].to
  /\ fact'[r] = IF fact[r] = "NONE" THEN "FENCED" ELSE fact[r]

Worked(r) ==
  \/ SameRow(r) \/ Consumed(r) \/ Goes(r, Working, Working)
  \/ Goes(r, Open, {"BLOCKED"}) \/ Goes(r, Working, {"FENCED"})
  \/ Confirmed(r) \/ Reported(r)
RowStep(r) == Inserted(r) \/ Worked(r)
OthersSame(r) == \A q \in Requests \ {r} : SameRow(q)
OnlyRow(r) == Worked(r) /\ OthersSame(r)

LEMMA RecordsMoves ==
  ASSUME push \in [Requests -> PushRows], fact \in [Requests -> {"NONE", "CONFIRMED", "FENCED"}],
         NEW r \in Requests, RecordsFenced(r)
  PROVE  OnlyRow(r)
<1>1. CASE push[r].state = "FENCED"
  <2>1. push' = [push EXCEPT ![r] = [push[r] EXCEPT !.seen = Terms[r].to]]
        /\ fact' = [fact EXCEPT ![r] = IF @ = "NONE" THEN "FENCED" ELSE @]
    BY <1>1 DEF RecordsFenced
  <2>2. push'[r].state = "FENCED" /\ push'[r].seen = Terms[r].to
    BY <1>1, <2>1 DEF PushRows
  <2> QED BY <1>1, <2>1, <2>2 DEF OnlyRow, OthersSame, Worked, SameRow, Reported
<1>2. CASE push[r].state # "FENCED"
  BY <1>2 DEF RecordsFenced, OnlyRow, OthersSame, Worked, SameRow
<1> QED BY <1>1, <1>2

LEMMA AuthorizeMoves ==
  ASSUME Inv, NEW r \in Requests, Authorize(r)
  PROVE  /\ UNCHANGED <<fact, fence, exec, sweep, errand, barred>>
         /\ slipped \subseteq slipped' /\ RowStep(r) /\ OthersSame(r)
         /\ \A q \in checking' : push'[q].state = "NONE"
<1>1. push \in [Requests -> PushRows] /\ \A q \in checking : q \in Requests /\ push[q].state = "NONE"
  BY DEF Inv, Typed, TypeOK, LedgerFits
<1>2. CASE AuthorizeCheck(r)
  BY <1>1, <1>2 DEF AuthorizeCheck, OthersSame, RowStep, Worked, SameRow, ledger, broker, calls
<1>3. CASE Insert(r) /\ push[r].state = "NONE" /\ r \notin checking' /\ checking' \subseteq checking
  <2>1. push'[r].state = "AUTHORIZED" /\ \A q \in Requests \ {r} : push'[q] = push[q]
    BY <1>1, <1>3 DEF Insert, PushRows
  <2>2. \A f \in Fencers : Fencing(f) /\ r \in CoveredBy(errand[f].attempt, errand[f].gen) =>
          r \in slipped'
    <3> SUFFICES ASSUME NEW f \in Fencers, Fencing(f),
                        r \in CoveredBy(errand[f].attempt, errand[f].gen)
                 PROVE  r \in slipped'
      OBVIOUS
    <3>1. errand[f] \in Errands
      BY CallersAt DEF Inv, Typed, Fencing, Callers
    <3>2. errand[f].gen >= GenOf[r] /\ errand[f].attempt = AttemptOf[r]
      BY <3>1, TermTypes DEF CoveredBy, Errands
    <3> QED BY <1>3, <3>2 DEF Insert
  <2>3. UNCHANGED <<fact, fence, exec, sweep, errand, barred>> /\ slipped \subseteq slipped'
    BY <1>3 DEF Insert, broker, calls
  <2>4. RowStep(r) /\ OthersSame(r)
    BY <1>3, <2>1, <2>2, <2>3 DEF OthersSame, RowStep, SameRow, Inserted
  <2> QED BY <1>1, <1>3, <2>1, <2>3, <2>4
<1> QED BY <1>1, <1>2, <1>3 DEF Authorize, AuthorizeLocked, AuthorizeInsert

\* An execution moves only its row and itself, starts with its row consumed, and a push
\* lands, or is left unanswered, only where the broker admits it.
ExecStep(r) ==
  \/ exec'[r] = exec[r]
  \/ exec[r] = "none" /\ Consumed(r)
  \/ /\ exec[r] # "none" /\ exec'[r] # "none"
     /\ exec[r] = "push" /\ exec'[r] \in {"landed", "unanswered"} => Admits(r)

LEMMA ExecuteMoves ==
  ASSUME Inv, NEW r \in Requests, Execute(r)
  PROVE  /\ UNCHANGED <<fence, checking, sweep, errand, barred, slipped>>
         /\ OnlyRow(r) /\ ExecStep(r)
         /\ \A q \in Requests \ {r} : exec'[q] = exec[q]
<1>1. /\ push \in [Requests -> PushRows] /\ exec \in [Requests -> ExecStates]
      /\ fact \in [Requests -> {"NONE", "CONFIRMED", "FENCED"}]
  BY DEF Inv, Typed, TypeOK
<1>2. CASE Consume(r)
  BY <1>1, <1>2 DEF Consume, Executes, OnlyRow, OthersSame, Worked, SameRow, Consumed, Goes, ExecStep, PushRows, broker
<1>3. CASE BlockExpired(r)
  BY <1>1, <1>3 DEF BlockExpired, OnlyRow, OthersSame, Worked, SameRow, Goes, Open, ExecStep, PushRows, broker, calls
<1>4. CASE PushLands(r) \/ PushUnanswered(r) \/ PushRefused(r) \/ JudgePush(r)
  BY <1>1, <1>4 DEF PushLands, PushUnanswered, PushRefused, JudgePush, Executes, OnlyRow, OthersSame, Worked, SameRow,
    ExecStep, ledger, broker
<1>5. CASE FinishPush(r)
  <2> DEFINE Moved == /\ UNCHANGED <<fence, checking, sweep, errand, barred, slipped>>
                      /\ OnlyRow(r) /\ ExecStep(r)
                      /\ \A q \in Requests \ {r} : exec'[q] = exec[q]
  <2>1. ASSUME NEW from, NEW state \in {"UNKNOWN", "BLOCKED", "FENCED"}, NEW c, NEW to,
               from # "none", to \notin {"none", "landed", "unanswered"},
               FinishInflight(r, from, state, c, to)
        PROVE  Moved
    <3>1. CASE StillInFlight(r)
      <4>1. push'[r].state = state /\ \A q \in Requests \ {r} : push'[q] = push[q]
        BY <1>1, <2>1, <3>1 DEF FinishInflight
      <4> QED BY <1>1, <2>1, <3>1, <4>1 DEF FinishInflight, StillInFlight, OnlyRow, OthersSame, Worked, SameRow,
        Goes, Working, Open, Executes, ExecStep, broker
    <3>2. CASE ~StillInFlight(r)
      BY <1>1, <2>1, <3>2 DEF FinishInflight, OnlyRow, OthersSame, Worked, SameRow, Executes, ExecStep, broker
    <3> QED BY <3>1, <3>2
  <2> HIDE DEF Moved
  <2>2. Moved
    BY <1>5, <2>1 DEF FinishPush
  <2> QED BY <2>2 DEF Moved
<1>6. CASE ConfirmInflight(r)
  <2>1. OnlyRow(r)
    <3>1. CASE StillInFlight(r)
      BY <1>1, <1>6, <3>1 DEF ConfirmInflight, Succeeds, StillInFlight, OnlyRow, OthersSame, Worked, SameRow, Confirmed,
        Working
    <3>2. CASE ~StillInFlight(r)
      BY <1>6, <3>2 DEF ConfirmInflight, OnlyRow, OthersSame, Worked, SameRow
    <3> QED BY <3>1, <3>2
  <2>2. ExecStep(r) /\ \A q \in Requests \ {r} : exec'[q] = exec[q]
    BY <1>1, <1>6 DEF ConfirmInflight, Executes, ExecStep
  <2> QED BY <1>6, <2>1, <2>2 DEF ConfirmInflight, broker
<1>7. CASE RecordFenced(r)
  <2>1. OnlyRow(r)
    BY <1>1, <1>7, RecordsMoves DEF RecordFenced
  <2>2. ExecStep(r) /\ \A q \in Requests \ {r} : exec'[q] = exec[q]
    BY <1>1, <1>7 DEF RecordFenced, Executes, ExecStep
  <2> QED BY <1>7, <2>1, <2>2 DEF RecordFenced, broker
<1>8. CASE FreezeBranch(r) \/ CrashExecution(r)
  BY <1>1, <1>8 DEF FreezeBranch, Freezes, CrashExecution, Executes, OnlyRow, OthersSame, Worked, SameRow, ExecStep,
    ledger, broker
<1> QED BY <1>2, <1>3, <1>4, <1>5, <1>6, <1>7, <1>8 DEF Execute
\* A reconciler moves only its row and itself, and decides on what it saw.
LEMMA ReconcileMoves ==
  ASSUME Inv, NEW w \in Reconcilers, Reconcile(w)
  PROVE  /\ UNCHANGED <<fence, checking, exec, errand, barred, slipped>>
         /\ \E r \in Requests : OnlyRow(r)
         /\ \A v \in Reconcilers : sweep'[v].at = "settle" =>
              /\ sweep'[v].next # "NONE"
              /\ sweep'[v].next = "SUCCEEDED" => sweep'[v].seen = Terms[sweep'[v].request].to
<1> DEFINE Decided(s) == s.at = "settle" =>
             s.next # "NONE" /\ (s.next = "SUCCEEDED" => s.seen = Terms[s.request].to)
           r == sweep[w].request
<1>1. /\ push \in [Requests -> PushRows] /\ sweep \in [Reconcilers -> {NoSweep} \cup Sweeps]
      /\ fact \in [Requests -> {"NONE", "CONFIRMED", "FENCED"}]
      /\ \A v \in Reconcilers : Decided(sweep[v])
  BY DEF Inv, Typed, TypeOK, LedgerFits
<1>2. \A s : s.at # "settle" => Decided(s)
  OBVIOUS
<1>3. Decided(NoSweep)
  BY DEF NoSweep
<1>4. ASSUME NEW q \in Requests, Claim(w, q)
      PROVE  /\ OnlyRow(q) /\ UNCHANGED <<fence, checking, exec, errand, barred, slipped>>
             /\ \A v \in Reconcilers : Decided(sweep'[v])
  <2>1. push'[q].state = "RECONCILIATION" /\ \A p \in Requests \ {q} : push'[p] = push[p]
    BY <1>1, <1>4 DEF Claim, PushRows
  <2>2. OnlyRow(q)
    BY <1>4, <2>1 DEF Claim, OnlyRow, OthersSame, Worked, SameRow, Goes, Working
  <2> QED BY <1>1, <1>4, <2>2 DEF Claim, broker
<1>5. CASE sweep[w] \in Sweeps
  <2>1. r \in Requests
    BY <1>5 DEF Sweeps
  <2>2. CASE Observe(w) \/ JudgeSeen(w) \/ FreezeDrift(w) \/ CrashReconciler(w)
    <3>1. OnlyRow(r) /\ UNCHANGED <<fence, checking, exec, errand, barred, slipped>>
      BY <2>2 DEF Observe, JudgeSeen, FreezeDrift, CrashReconciler, OnlyRow, OthersSame, Worked, SameRow, ledger, broker
    <3>2. \A v \in Reconcilers : Decided(sweep'[v])
      <4>1. CASE Observe(w)
        BY <1>1, <1>5, <4>1 DEF Observe, Sweeps
      <4>2. CASE JudgeSeen(w)
        BY <1>1, <1>5, <4>2 DEF JudgeSeen, Verdict, Sweeps
      <4>3. CASE FreezeDrift(w) \/ CrashReconciler(w)
        BY <1>1, <1>3, <4>3 DEF FreezeDrift, CrashReconciler
      <4> QED BY <2>2, <4>1, <4>2, <4>3
    <3> QED BY <2>1, <3>1, <3>2
  <2>3. CASE FinishReconciliation(w)
    <3>1. OnlyRow(r)
      <4>1. CASE StillClaimed(w, r)
        <5> DEFINE seen == IF sweep[w].seen = NoCommit THEN push[r].seen ELSE sweep[w].seen
        <5>1. push'[r].state = sweep[w].next /\ push'[r].seen = seen
              /\ \A q \in Requests \ {r} : push'[q] = push[q]
          BY <1>1, <2>1, <2>3, <4>1 DEF FinishReconciliation
        <5>2. sweep[w].next \in {"UNKNOWN", "BLOCKED", "FENCED", "SUCCEEDED"}
          BY <1>1, <1>5, <2>3 DEF FinishReconciliation, Sweeps
        <5>3. sweep[w].next = "SUCCEEDED" => seen = Terms[r].to
          BY <1>1, <2>1, <2>3, TermTypes DEF FinishReconciliation
        <5>4. fact' = IF sweep[w].next = "SUCCEEDED" THEN [fact EXCEPT ![r] = "CONFIRMED"] ELSE fact
          BY <2>3, <4>1 DEF FinishReconciliation
        <5>5. ~Locked(r) /\ push[r].state \in Working /\ Working \subseteq Open
          BY <2>3, <4>1 DEF FinishReconciliation, StillClaimed, Working, Open
        <5>6. Worked(r)
          BY <1>1, <2>1, <5>1, <5>2, <5>3, <5>4, <5>5 DEF Worked, Goes, Confirmed, Working
        <5> QED BY <1>1, <5>1, <5>4, <5>6 DEF OnlyRow, OthersSame, SameRow
      <4>2. CASE ~StillClaimed(w, r)
        BY <2>3, <4>2 DEF FinishReconciliation, OnlyRow, OthersSame, Worked, SameRow
      <4> QED BY <4>1, <4>2
    <3>2. \A v \in Reconcilers : Decided(sweep'[v])
      BY <1>1, <1>3, <1>5, <2>3 DEF FinishReconciliation, Sweeps
    <3> QED BY <2>1, <2>3, <3>1, <3>2 DEF FinishReconciliation, broker
  <2>4. CASE RecordDrift(w)
    <3>1. OnlyRow(r)
      BY <1>1, <2>1, <2>4, RecordsMoves DEF RecordDrift
    <3>2. \A v \in Reconcilers : Decided(sweep'[v])
      BY <1>1, <1>5, <2>4 DEF RecordDrift, Sweeps
    <3> QED BY <2>1, <2>4, <3>1, <3>2 DEF RecordDrift, broker
  <2> QED BY <1>4, <2>2, <2>3, <2>4 DEF Reconcile
<1> QED BY <1>4, <1>5, CallersAt DEF Inv, Typed, Reconcile, Observe, JudgeSeen, FinishReconciliation,
  RecordDrift, FreezeDrift, CrashReconciler
\* A fence that commits shuts open rows it covers and leaves the others alone.
LEMMA CommitMoves ==
  ASSUME Inv, NEW f \in Fencers, CommitFence(f)
  PROVE  /\ f \in Callers /\ errand[f] \in Errands /\ OpenFits(f)
         /\ UNCHANGED <<fact, checking, exec, sweep, barred, slipped>>
         /\ \A r \in Requests \ errand[f].shut : SameRow(r)
         /\ \A r \in errand[f].shut :
              /\ r \in CoveredBy(errand[f].attempt, errand[f].gen)
              /\ push[r].state \in Open /\ push'[r].state = "FENCED"
         /\ fence' = [fence EXCEPT ![errand[f].attempt] =
                         [gen |-> errand[f].gen, rev |-> errand[f].expect]]
         /\ \A h \in Callers \ {f} : errand'[h] = errand[h]
         /\ \/ errand'[f] = NoErrand /\ errand[f].expect = "SUCCEEDED"
            \/ /\ errand[f].expect # "SUCCEEDED"
               /\ errand'[f] = [errand[f] EXCEPT !.at = "revoke", !.shut = {}]
<1>1. f \in Callers /\ errand[f] \in Errands
  BY CallersAt DEF Inv, Typed, Callers, CommitFence, Fencing
<1>2. OpenFits(f)
  <2>1. NoErrand.at = "idle" /\ errand[f].at = "open"
    BY DEF CommitFence, Fencing, NoErrand
  <2> QED BY <1>1, <2>1 DEF Inv, ErrandsFit, ErrandFits, CommitFence, Fencing, NoErrand
<1>3. errand[f].shut \subseteq Requests
  BY <1>1 DEF Errands
<1>4. /\ \A r \in Requests \ errand[f].shut : SameRow(r)
      /\ \A r \in errand[f].shut : push'[r].state = "FENCED"
  <2>1. push \in [Requests -> PushRows]
    BY DEF Inv, Typed, TypeOK
  <2>2. \A r \in Requests : [push[r] EXCEPT !.state = "FENCED", !.owner = Nobody].state = "FENCED"
    BY <2>1 DEF PushRows
  <2> QED BY <1>3, <2>2 DEF CommitFence, SameRow
<1>5. UNCHANGED <<fact, checking, exec, sweep, barred, slipped>>
  BY DEF CommitFence, broker
<1>6. /\ \A h \in Callers \ {f} : errand'[h] = errand[h]
      /\ \/ errand'[f] = NoErrand /\ errand[f].expect = "SUCCEEDED"
         \/ /\ errand[f].expect # "SUCCEEDED"
            /\ errand'[f] = [errand[f] EXCEPT !.at = "revoke", !.shut = {}]
  BY <1>1 DEF CommitFence, Inv, Typed, TypeOK
<1>7. fence' = [fence EXCEPT ![errand[f].attempt] = [gen |-> errand[f].gen, rev |-> errand[f].expect]]
  BY DEF CommitFence
<1> QED BY <1>1, <1>2, <1>4, <1>5, <1>6, <1>7 DEF OpenFits

\* The other steps of a fence and of its revocation leave the rows alone.
LEMMA RevokeMoves ==
  ASSUME NEW f, \/ \E a, g : OpenFence(f, a, g)
                \/ \E a : ClaimRevocation(f, a)
                \/ Withdraw(f)
  PROVE  UNCHANGED <<push, fact, checking, exec, sweep, slipped>>
  BY DEF OpenFence, ClaimRevocation, Withdraw, ListGrants, CompleteRevocation, CrashErrand, Revoke,
    RevokeUnanswered, ledger

LEMMA ElsewhereMoves ==
  ASSUME UNCHANGED vars \/ \E b, c : PushElsewhere(b, c)
  PROVE  UNCHANGED <<push, fact, fence, checking, exec, sweep, errand, barred, slipped>>
  BY DEF vars, PushElsewhere, ledger, calls
-----------------------------------------------------------------------------
(* The invariant.                                                          *)

\* Facts follow the row through every one of its steps.
LEMMA RowFits ==
  ASSUME Inv, NEW r \in Requests, RowStep(r)
  PROVE  /\ fact'[r] = "CONFIRMED" <=> push'[r].state = "SUCCEEDED"
         /\ fact'[r] # "NONE" => push'[r].seen = Terms[r].to
         /\ fact'[r] = "FENCED" => push'[r].state = "FENCED"
<1>1. /\ fact[r] = "CONFIRMED" <=> push[r].state = "SUCCEEDED"
      /\ fact[r] # "NONE" => push[r].seen = Terms[r].to
      /\ fact[r] = "FENCED" => push[r].state = "FENCED"
      /\ fact[r] \in {"NONE", "CONFIRMED", "FENCED"}
  BY DEF Inv, Typed, TypeOK, LedgerFits, FactsAreTrue
<1> QED BY <1>1 DEF RowStep, Worked, SameRow, Inserted, Consumed, Goes, Confirmed, Reported, Working, Open

\* No step but its own insertion moves a row that is being authorised.
LEMMA CheckedRows ==
  ASSUME Inv, NEW r \in Requests, OnlyRow(r), checking' = checking
  PROVE  \A q \in checking' : push'[q].state = "NONE"
<1>1. \A q \in checking : q \in Requests /\ push[q].state = "NONE"
  BY DEF Inv, Typed, TypeOK, LedgerFits
<1>2. \A q \in Requests : push[q].state = "NONE" => SameRow(q) \/ q = r
  BY DEF OnlyRow, OthersSame
<1>3. push[r].state = "NONE" => SameRow(r)
  BY DEF OnlyRow, Worked, Consumed, Goes, Confirmed, Reported, Open, Working
<1> QED BY <1>1, <1>2, <1>3 DEF SameRow

LEMMA LedgerStep ==
  ASSUME Inv, [Next]_vars
  PROVE  LedgerFits'
<1> USE DEF Inv
<1>1. ASSUME NEW r \in Requests, Authorize(r) PROVE LedgerFits'
  <2>1. \A q \in Requests : RowStep(q)
    BY <1>1, AuthorizeMoves DEF OthersSame, RowStep, Worked
  <2>2. FactsAreTrue'
    BY <2>1, RowFits DEF FactsAreTrue
  <2>3. \A q \in Requests : exec[q] # "none" => push'[q].state \notin {"NONE", "AUTHORIZED"}
    BY <2>1 DEF LedgerFits, RowStep, Worked, SameRow, Inserted, Consumed, Goes, Confirmed, Reported, Working
  <2> QED BY <1>1, <2>2, <2>3, AuthorizeMoves DEF LedgerFits
<1>2. ASSUME NEW r \in Requests, Execute(r) PROVE LedgerFits'
  <2>1. \A q \in Requests : RowStep(q) /\ ExecStep(q)
    BY <1>2, ExecuteMoves DEF OnlyRow, OthersSame, RowStep, Worked, ExecStep
  <2>2. FactsAreTrue'
    BY <2>1, RowFits DEF FactsAreTrue
  <2>3. \A q \in Requests : exec'[q] # "none" => push'[q].state \notin {"NONE", "AUTHORIZED"}
    BY <2>1 DEF LedgerFits, ExecStep, RowStep, Worked, SameRow, Inserted, Consumed, Goes, Confirmed, Reported,
      Working
  <2>4. \A q \in checking' : push'[q].state = "NONE"
    BY <1>2, ExecuteMoves, CheckedRows
  <2> QED BY <1>2, <2>2, <2>3, <2>4, ExecuteMoves DEF LedgerFits
<1>3. ASSUME NEW w \in Reconcilers, Reconcile(w) PROVE LedgerFits'
  <2>1. PICK r \in Requests : OnlyRow(r)
    BY <1>3, ReconcileMoves
  <2>2. \A q \in Requests : RowStep(q)
    BY <2>1 DEF OnlyRow, OthersSame, RowStep, Worked
  <2>3. FactsAreTrue'
    BY <2>2, RowFits DEF FactsAreTrue
  <2>4. \A q \in Requests : exec[q] # "none" => push'[q].state \notin {"NONE", "AUTHORIZED"}
    BY <2>2 DEF LedgerFits, RowStep, Worked, SameRow, Inserted, Consumed, Goes, Confirmed, Reported, Working
  <2> QED BY <1>3, <2>1, <2>3, <2>4, ReconcileMoves, CheckedRows DEF LedgerFits
<1>4. ASSUME NEW f \in Fencers, CommitFence(f) PROVE LedgerFits'
  <2> DEFINE shut == errand[f].shut
  <2>0. /\ fact' = fact /\ checking' = checking /\ exec' = exec /\ sweep' = sweep
        /\ \A r \in Requests \ shut : SameRow(r)
        /\ \A r \in shut : push[r].state \in Open /\ push'[r].state = "FENCED"
    BY <1>4, CommitMoves
  <2> HIDE DEF shut
  <2>1. \A r \in Requests :
          \/ SameRow(r)
          \/ push[r].state \in Open /\ push'[r].state = "FENCED" /\ fact'[r] = fact[r]
    BY <2>0
  <2>2. FactsAreTrue'
    <3>1. \A r \in Requests : push[r].state \in Open => fact[r] = "NONE"
      BY DEF Typed, TypeOK, LedgerFits, FactsAreTrue, Open, Working
    <3> QED BY <2>1, <3>1 DEF FactsAreTrue, LedgerFits, SameRow
  <2>3. \A r \in checking : r \in Requests /\ push[r].state = "NONE"
    BY DEF Typed, TypeOK, LedgerFits
  <2> QED BY <2>0, <2>1, <2>2, <2>3 DEF LedgerFits, SameRow, Open, Working
<1>5. ASSUME UNCHANGED <<push, fact, checking, exec, sweep>> PROVE LedgerFits'
  BY <1>5 DEF LedgerFits, FactsAreTrue
<1> QED BY <1>1, <1>2, <1>3, <1>4, <1>5, RevokeMoves, ElsewhereMoves DEF Next
\* A fence under way still fits after a step of something else.
LEMMA OpenKept ==
  ASSUME Inv, NEW h \in Fencers, Fencing(h), OpenFits(h), errand'[h] = errand[h],
         fence'[errand[h].attempt] = fence[errand[h].attempt], slipped \subseteq slipped',
         \A r \in CoveredBy(errand[h].attempt, errand[h].gen) :
           RowStep(r) /\ (exec'[r] # "none" => exec[r] # "none" \/ Consumed(r))
  PROVE  OpenFits(h)'
<1> DEFINE e == errand[h]
           covered == CoveredBy(e.attempt, e.gen)
<1>1. covered \subseteq Requests /\ covered' = covered
  BY DEF CoveredBy
<1>2. ASSUME NEW r \in e.shut PROVE r \in covered /\ push'[r].state \in Open
  <2>1. r \in covered /\ push[r].state \in Open /\ Locked(r)
    BY <1>2 DEF OpenFits, Locked
  <2>2. RowStep(r)
    BY <2>1
  <2> QED BY <2>1, <2>2 DEF RowStep, Worked, SameRow, Inserted, Consumed, Goes, Confirmed, Reported, Open,
    Working
<1>3. ASSUME NEW r \in covered \ slipped'
      PROVE  /\ push'[r].state \in Open => r \in e.shut
             /\ exec'[r] # "none" => BranchOf[r] \in e.todo
  <2>1. RowStep(r) /\ (exec'[r] # "none" => exec[r] # "none" \/ Consumed(r))
    BY <1>3
  <2>2. /\ push[r].state \in Open => r \in e.shut
        /\ exec[r] # "none" => BranchOf[r] \in e.todo
    BY <1>3 DEF OpenFits
  <2>3. ~Inserted(r)
    BY <1>3 DEF Inserted
  <2>4. push'[r].state \in Open => push[r].state \in Open
    BY <2>1, <2>3 DEF RowStep, Worked, SameRow, Consumed, Goes, Confirmed, Reported, Open, Working
  <2>5. ~Consumed(r)
    BY <2>2 DEF Consumed, Goes, Locked, Open
  <2> QED BY <2>1, <2>2, <2>4, <2>5
<1>4. \/ e.gen > fence'[e.attempt].gen /\ e.expect = "PENDING"
      \/ e.gen = fence'[e.attempt].gen /\ e.expect = fence'[e.attempt].rev
  BY DEF OpenFits
<1> QED BY <1>1, <1>2, <1>3, <1>4 DEF OpenFits

\* What a revocation has done or still to do stays so: nothing a fence covers is executed any more.
LEMMA RevokeKept ==
  ASSUME Inv, NEW h \in Callers, errand[h] \in Errands, RevokeFits(h), errand'[h] = errand[h],
         fence'[errand[h].attempt].gen \in Nat,
         fence'[errand[h].attempt].gen >= fence[errand[h].attempt].gen,
         slipped \subseteq slipped',
         \A c \in Branches : /\ barred'[errand[h].attempt][c] \in Nat
                            /\ barred'[errand[h].attempt][c] >= barred[errand[h].attempt][c],
         \A r \in CoveredBy(errand[h].attempt, errand[h].gen) :
           exec'[r] # "none" => exec[r] # "none" \/ Consumed(r)
  PROVE  RevokeFits(h)'
<1> DEFINE e == errand[h]
           covered == CoveredBy(e.attempt, e.gen)
<1>1. covered \subseteq Requests /\ covered' = covered
  BY DEF CoveredBy
<1>2. /\ e.gen \in Nat /\ fence[e.attempt].gen \in Nat
      /\ \A c \in Branches : barred[e.attempt][c] \in Nat
  BY TermTypes DEF Inv, Typed, TypeOK, FenceRows, Errands
<1>3. ASSUME NEW r \in covered \ slipped', exec'[r] # "none", e.at = "revoke"
      PROVE  BranchOf[r] \in e.todo \/ barred'[e.attempt][BranchOf[r]] >= e.gen
  <2>1. Covered(r)
    <3>1. AttemptOf[r] = e.attempt /\ GenOf[r] <= e.gen /\ GenOf[r] \in Nat
      BY <1>3, TermTypes DEF CoveredBy
    <3> QED BY <1>2, <3>1 DEF Covered, RevokeFits
  <2>2. exec[r] # "none"
    BY <1>3, <2>1 DEF Consumed
  <2>3. BranchOf[r] \in e.todo \/ barred[e.attempt][BranchOf[r]] >= e.gen
    BY <1>3, <2>2 DEF RevokeFits
  <2> QED BY <1>1, <1>2, <1>3, <2>3, TermTypes
<1>4. e.gen <= fence'[e.attempt].gen /\ e.expect # "SUCCEEDED"
  BY <1>2 DEF RevokeFits
<1> QED BY <1>1, <1>3, <1>4 DEF RevokeFits
Fences ==
  /\ \A a \in Attempts : fence[a].gen = 0 <=> fence[a].rev = "NONE"
  /\ OneFence /\ ErrandsFit /\ FenceShuts /\ BarredFits

\* The numbers that are compared.
LEMMA Numbers ==
  ASSUME TypeOK
  PROVE  /\ \A a \in Attempts : fence[a].gen \in Nat
         /\ \A a \in Attempts, b \in Branches : barred[a][b] \in Nat
         /\ \A f \in Callers : errand[f] # NoErrand =>
              errand[f] \in Errands /\ errand[f].attempt \in Attempts /\ errand[f].gen \in Nat
<1>1. \A f \in Callers : errand[f] # NoErrand =>
        errand[f] \in Errands /\ errand[f].attempt \in Attempts /\ errand[f].gen \in Generations
  BY CallersAt DEF Errands
<1> QED BY <1>1, TermTypes DEF TypeOK, FenceRows

\* Rows and executions that move under fences that do not.
LEMMA WorkedFences ==
  ASSUME Inv, fence' = fence, errand' = errand, barred' = barred, slipped \subseteq slipped',
         \A r \in Requests : RowStep(r) /\ (exec'[r] # "none" => exec[r] # "none" \/ Consumed(r))
  PROVE  Fences'
<1>1. TypeOK
  BY DEF Inv, Typed
<1>2. ASSUME NEW h \in Callers, errand[h] # NoErrand PROVE ErrandFits(h)'
  <2>1. ErrandFits(h) /\ errand[h] \in Errands /\ errand[h].attempt \in Attempts
    BY <1>1, <1>2, Numbers DEF Inv, ErrandsFit
  <2>2. CoveredBy(errand[h].attempt, errand[h].gen) \subseteq Requests
    BY DEF CoveredBy
  <2>3. CASE Fencing(h)
    BY <2>1, <2>2, <2>3, OpenKept DEF ErrandFits, Fencing
  <2>4. CASE ~Fencing(h)
    <3>1. RevokeFits(h)'
      BY <1>1, <2>1, <2>2, <2>4, Numbers, RevokeKept DEF ErrandFits
    <3> QED BY <2>4, <3>1 DEF ErrandFits, Fencing
  <2> QED BY <2>3, <2>4
<1>3. ErrandsFit'
  BY <1>2 DEF ErrandsFit
<1>4. FenceShuts'
  BY DEF Inv, FenceShuts, Covered, RowStep, Worked, SameRow, Inserted, Consumed, Goes, Confirmed,
    Reported, Working
<1>5. BarredFits'
  BY DEF Inv, BarredFits, Covered, Consumed
<1> QED BY <1>3, <1>4, <1>5 DEF Fences, Inv, Typed, OneFence, Fencing

\* The errand of another caller, under rows that stay.
LEMMA OthersKept ==
  ASSUME Inv, NEW h \in Callers, errand[h] # NoErrand, errand'[h] = errand[h],
         UNCHANGED <<push, fact, exec, slipped>>,
         \A a \in Attempts : fence'[a].gen \in Nat /\ fence'[a].gen >= fence[a].gen,
         Fencing(h) => fence'[errand[h].attempt] = fence[errand[h].attempt],
         \A a \in Attempts, b \in Branches : barred'[a][b] \in Nat /\ barred'[a][b] >= barred[a][b]
  PROVE  ErrandFits(h)'
<1>1. ErrandFits(h) /\ errand[h] \in Errands /\ errand[h].attempt \in Attempts
  BY Numbers DEF Inv, Typed, ErrandsFit
<1>2. \A r \in Requests : RowStep(r)
  BY DEF RowStep, Worked, SameRow
<1>3. CoveredBy(errand[h].attempt, errand[h].gen) \subseteq Requests
  BY DEF CoveredBy
<1>4. CASE Fencing(h)
  BY <1>1, <1>2, <1>3, <1>4, OpenKept DEF ErrandFits, Fencing
<1>5. CASE ~Fencing(h)
  <2>1. RevokeFits(h)'
    BY <1>1, <1>3, <1>5, RevokeKept DEF ErrandFits
  <2> QED BY <1>5, <2>1 DEF ErrandFits, Fencing
<1> QED BY <1>4, <1>5

LEMMA OpenFences ==
  ASSUME Inv, NEW f \in Fencers, NEW a \in Attempts, NEW g \in Generations, OpenFence(f, a, g)
  PROVE  Fences'
<1>1. Typed /\ TypeOK /\ f \in Callers
  BY DEF Inv, Typed, Callers
<1>2. PICK e \in Errands :
        /\ errand' = [errand EXCEPT ![f] = e] /\ e.at = "open" /\ e.attempt = a
        /\ \/ e.gen > fence[a].gen /\ e.expect = "PENDING"
           \/ e.gen = fence[a].gen /\ e.expect = fence[a].rev
        /\ e.todo = Grants(a, e.gen)
        /\ e.shut = {r \in CoveredBy(a, e.gen) : push[r].state \in Open}
  BY <1>1, OpenTyped
<1>3. UNCHANGED <<push, fact, exec, slipped, fence, barred>>
  BY DEF OpenFence, ledger, broker
<1>4. errand'[f] = e /\ \A h \in Callers \ {f} : errand'[h] = errand[h]
  BY <1>1, <1>2 DEF TypeOK
<1>5. OneFence'
  <2>1. \A h \in Fencers \ {f} : Fencing(h) => errand[h].attempt # a
    BY DEF OpenFence, FenceHeld
  <2> QED BY <1>2, <1>4, <2>1 DEF Inv, OneFence, Fencing, Callers
<1>6. ErrandsFit'
  <2>1. ErrandFits(f)'
    <3>1. \A r \in CoveredBy(a, e.gen) : exec[r] # "none" => BranchOf[r] \in Grants(a, e.gen)
      <4>1. \A r \in CoveredBy(a, e.gen) : r \in Requests
        BY DEF CoveredBy
      <4> QED BY <4>1 DEF Inv, LedgerFits, Grants
    <3> QED BY <1>2, <1>3, <1>4, <3>1 DEF ErrandFits, Fencing, OpenFits
  <2>2. ASSUME NEW h \in Callers \ {f}, errand[h] # NoErrand PROVE ErrandFits(h)'
    BY <1>1, <1>3, <1>4, <2>2, Numbers, OthersKept
  <2> QED BY <1>4, <2>1, <2>2 DEF ErrandsFit
<1> QED BY <1>1, <1>3, <1>5, <1>6 DEF Fences, Inv, Typed, FenceShuts, BarredFits, Covered

LEMMA CommitFences ==
  ASSUME Inv, NEW f \in Fencers, CommitFence(f)
  PROVE  Fences'
<1> DEFINE e == errand[f]
           a == e.attempt
<1>1. TypeOK /\ f \in Callers /\ e \in Errands /\ OpenFits(f) /\ Fencing(f)
  BY CommitMoves DEF Inv, Typed, CommitFence
<1>2. UNCHANGED <<fact, checking, exec, sweep, barred, slipped>>
  BY CommitMoves
<1>3. a \in Attempts /\ e.gen \in Generations /\ e.gen \in Nat /\ e.gen > 0
      /\ e.expect \in {"PENDING", "UNKNOWN", "SUCCEEDED"}
  BY <1>1, TermTypes DEF Errands
<1>4. fence'[a] = [gen |-> e.gen, rev |-> e.expect] /\ \A d \in Attempts \ {a} : fence'[d] = fence[d]
  BY <1>1, <1>3, CommitMoves DEF TypeOK
<1>5. /\ \A r \in Requests \ e.shut : SameRow(r)
      /\ \A r \in e.shut : r \in CoveredBy(a, e.gen) /\ push[r].state \in Open /\ push'[r].state = "FENCED"
  BY CommitMoves
<1>6. \A d \in Attempts : fence'[d].gen \in Nat /\ fence'[d].gen >= fence[d].gen
  BY <1>1, <1>3, <1>4, Numbers DEF OpenFits
<1>7. \A r \in Requests : r \in CoveredBy(a, e.gen) <=> AttemptOf[r] = a /\ Covered(r)'
  BY <1>3, <1>4, TermTypes DEF CoveredBy, Covered
<1>8. OneFence'
  <2>1. /\ \A h \in Callers \ {f} : errand'[h] = errand[h]
        /\ errand'[f].at # "open"
    <3>1. NoErrand.at # "open" /\ [e EXCEPT !.at = "revoke", !.shut = {}].at # "open"
      BY <1>1 DEF NoErrand, Errands
    <3> QED BY <3>1, CommitMoves
  <2> QED BY <2>1 DEF Inv, OneFence, Fencing, Callers
<1>9. ErrandsFit'
  <2>1. ASSUME NEW h \in Callers \ {f}, errand[h] # NoErrand PROVE ErrandFits(h)'
    <3>1. errand'[h] = errand[h] /\ ErrandFits(h) /\ errand[h] \in Errands /\ errand[h].attempt \in Attempts
      BY <1>1, <2>1, CommitMoves, Numbers DEF Inv, ErrandsFit
    <3>2. CoveredBy(errand[h].attempt, errand[h].gen) \subseteq Requests
      BY DEF CoveredBy
    <3>3. CASE Fencing(h)
      <4>1. h \in Fencers /\ OpenFits(h)
        BY <3>1, <3>3 DEF ErrandFits
      <4>2. errand[h].attempt # a
        BY <1>1, <2>1, <3>3, <4>1 DEF Inv, OneFence
      <4>3. \A r \in CoveredBy(errand[h].attempt, errand[h].gen) : SameRow(r)
        BY <1>5, <3>2, <4>2 DEF CoveredBy
      <4>4. OpenFits(h)'
        BY <1>2, <1>4, <3>1, <3>3, <4>1, <4>2, <4>3, OpenKept DEF RowStep, Worked
      <4> QED BY <3>1, <3>3, <4>1, <4>4 DEF ErrandFits, Fencing
    <3>4. CASE ~Fencing(h)
      <4>1. RevokeFits(h)'
        BY <1>1, <1>2, <1>6, <3>1, <3>4, Numbers, RevokeKept DEF ErrandFits
      <4> QED BY <3>1, <3>4, <4>1 DEF ErrandFits, Fencing
    <3> QED BY <3>3, <3>4
  <2>2. ASSUME errand'[f] # NoErrand PROVE ErrandFits(f)'
    <3>1. /\ errand'[f] = [e EXCEPT !.at = "revoke", !.shut = {}] /\ e.expect # "SUCCEEDED"
      BY <2>2, CommitMoves
    <3>2. /\ errand'[f].at = "revoke" /\ errand'[f].attempt = a /\ errand'[f].gen = e.gen
          /\ errand'[f].expect = e.expect /\ errand'[f].todo = e.todo
      BY <1>1, <3>1 DEF Errands
    <3>3. RevokeFits(f)'
      BY <1>1, <1>2, <1>3, <1>4, <3>1, <3>2 DEF OpenFits, RevokeFits
    <3> QED BY <3>2, <3>3 DEF ErrandFits, Fencing
  <2> QED BY <2>1, <2>2, CommitMoves DEF ErrandsFit
<1>10. FenceShuts'
  <2> SUFFICES ASSUME NEW r \in Requests \ slipped', Covered(r)' PROVE push'[r].state \notin Working
    BY DEF FenceShuts
  <2>1. CASE AttemptOf[r] = a
    <3>1. push[r].state \in Open => r \in e.shut
      BY <1>1, <1>2, <1>7, <2>1 DEF OpenFits
    <3> QED BY <1>5, <3>1 DEF SameRow, Open, Working
  <2>2. CASE AttemptOf[r] # a
    <3>1. Covered(r)
      BY <1>4, <2>2, TermTypes DEF Covered
    <3> QED BY <1>2, <1>5, <3>1 DEF Inv, FenceShuts, SameRow, Working
  <2> QED BY <2>1, <2>2
<1>11. BarredFits'
  <2> SUFFICES ASSUME NEW r \in Requests \ slipped', Covered(r)', fence'[AttemptOf[r]].rev = "SUCCEEDED",
                      exec'[r] # "none"
               PROVE  barred'[AttemptOf[r]][BranchOf[r]] >= fence'[AttemptOf[r]].gen
    BY DEF BarredFits
  <2>1. fence'[AttemptOf[r]].gen = fence[AttemptOf[r]].gen /\ fence[AttemptOf[r]].rev = "SUCCEEDED"
    BY <1>1, <1>4, TermTypes DEF OpenFits
  <2> QED BY <1>2, <2>1 DEF Inv, BarredFits, Covered
<1>12. \A d \in Attempts : fence'[d].gen = 0 <=> fence'[d].rev = "NONE"
  BY <1>3, <1>4 DEF Inv, Typed
<1> QED BY <1>8, <1>9, <1>10, <1>11, <1>12 DEF Fences
\* What a revoker may do to the fences, to the broker and to the errands.
FencesLoose ==
  \A a \in Attempts :
    /\ fence'[a].gen = fence[a].gen
    /\ \/ fence'[a] = fence[a]
       \/ ~FenceHeld(a) /\ fence[a].rev # "NONE" /\ fence'[a].rev # "NONE"
BarsRise ==
  \A a \in Attempts, b \in Branches : barred'[a][b] \in Nat /\ barred'[a][b] >= barred[a][b]
Only(f) ==
  /\ \A h \in Callers \ {f} : errand'[h] = errand[h]
  /\ errand'[f].at # "open"
  /\ errand'[f] # NoErrand => RevokeFits(f)'

\* Where only a revocation moves, it has to fit and what it wrote to be true.
LEMMA RevokeFences ==
  ASSUME Inv, NEW f \in Callers, UNCHANGED <<push, fact, exec, slipped>>,
         Only(f), FencesLoose, BarsRise, BarredFits'
  PROVE  Fences'
<1>1. TypeOK
  BY DEF Inv, Typed
<1>2. \A a \in Attempts : fence'[a].gen \in Nat /\ fence'[a].gen >= fence[a].gen
  BY <1>1, Numbers DEF FencesLoose
<1>3. ASSUME NEW h \in Callers \ {f}, errand[h] # NoErrand PROVE ErrandFits(h)'
  <2>1. errand[h].attempt \in Attempts /\ ErrandFits(h)
    BY <1>1, <1>3, Numbers DEF Inv, ErrandsFit
  <2>2. Fencing(h) => fence'[errand[h].attempt] = fence[errand[h].attempt]
    BY <2>1 DEF FenceHeld, ErrandFits, FencesLoose
  <2>3. errand'[h] = errand[h]
    BY DEF Only
  <2> QED BY <1>2, <1>3, <2>2, <2>3, OthersKept DEF BarsRise
<1>4. ErrandsFit'
  BY <1>3 DEF ErrandsFit, ErrandFits, Fencing, Only
<1>5. OneFence'
  BY DEF Inv, OneFence, Fencing, Callers, Only
<1>6. FenceShuts'
  BY TermTypes DEF Inv, FenceShuts, Covered, FencesLoose
<1>7. \A a \in Attempts : fence'[a].gen = 0 <=> fence'[a].rev = "NONE"
  BY DEF Inv, Typed, FencesLoose
<1> QED BY <1>4, <1>5, <1>6, <1>7 DEF Fences

LEMMA ClaimFences ==
  ASSUME Inv, NEW f \in Callers, NEW a \in Attempts, ClaimRevocation(f, a)
  PROVE  Fences'
<1>1. TypeOK
  BY DEF Inv, Typed
<1>2. UNCHANGED <<push, fact, exec, slipped, barred>>
  BY DEF ClaimRevocation, ledger, broker
<1>3. /\ errand'[f] = [at |-> "claimed", attempt |-> a, gen |-> fence[a].gen, expect |-> "UNKNOWN",
                       todo |-> {}, shut |-> {}]
      /\ \A h \in Callers \ {f} : errand'[h] = errand[h]
  BY <1>1 DEF ClaimRevocation, TypeOK
<1>4. /\ fence'[a].gen = fence[a].gen /\ fence'[a].rev = "UNKNOWN"
      /\ \A d \in Attempts \ {a} : fence'[d] = fence[d]
  BY <1>1 DEF ClaimRevocation, TypeOK, FenceRows
<1>5. fence[a].gen \in Nat /\ \A d \in Attempts, b \in Branches : barred[d][b] \in Nat
  BY <1>1, Numbers
<1>6. RevokeFits(f)'
  BY <1>3, <1>4, <1>5 DEF RevokeFits
<1>7. BarredFits'
  BY <1>2, <1>4, TermTypes DEF Inv, BarredFits, Covered
<1>8. FencesLoose
  <2>1. ~FenceHeld(a) /\ fence[a].rev # "NONE"
    BY DEF ClaimRevocation
  <2> QED BY <1>4, <2>1 DEF FencesLoose
<1>9. Only(f) /\ BarsRise
  BY <1>2, <1>3, <1>5, <1>6 DEF Only, BarsRise
<1> QED BY <1>2, <1>7, <1>8, <1>9, RevokeFences

LEMMA WithdrawFences ==
  ASSUME Inv, NEW f \in Callers, Withdraw(f)
  PROVE  Fences'
<1> DEFINE e == errand[f]
<1>1. TypeOK /\ e \in Errands /\ e # NoErrand
  BY CallersAt DEF Inv, Typed, Withdraw, ListGrants, CompleteRevocation, CrashErrand, Revoke,
    RevokeUnanswered, NoErrand
<1>2. e.attempt \in Attempts /\ e.gen \in Generations /\ e.gen \in Nat
  BY <1>1, TermTypes DEF Errands
<1>3. UNCHANGED <<push, fact, exec, slipped>>
  BY RevokeMoves
<1>4. \A d \in Attempts, b \in Branches : barred[d][b] \in Nat
  BY <1>1, Numbers
<1>5. ~Fencing(f) => RevokeFits(f)
  BY <1>1 DEF Inv, ErrandsFit, ErrandFits
<1>6. \A x : errand' = [errand EXCEPT ![f] = x] =>
        errand'[f] = x /\ \A h \in Callers \ {f} : errand'[h] = errand[h]
  BY <1>1 DEF TypeOK
<1>7. CASE ListGrants(f)
  <2>1. UNCHANGED <<fence, barred>>
    BY <1>7 DEF ListGrants, broker
  <2>2. errand' = [errand EXCEPT ![f] = [e EXCEPT !.at = "revoke", !.todo = Grants(e.attempt, e.gen)]]
    BY <1>7 DEF ListGrants
  <2>3. /\ errand'[f] = [e EXCEPT !.at = "revoke", !.todo = Grants(e.attempt, e.gen)]
        /\ \A h \in Callers \ {f} : errand'[h] = errand[h]
    BY <1>6, <2>2
  <2>4. /\ errand'[f].at = "revoke" /\ errand'[f].attempt = e.attempt /\ errand'[f].gen = e.gen
        /\ errand'[f].expect = e.expect /\ errand'[f].todo = Grants(e.attempt, e.gen)
    BY <1>1, <2>3 DEF Errands
  <2>5. \A r \in CoveredBy(e.attempt, e.gen) : exec[r] # "none" => BranchOf[r] \in Grants(e.attempt, e.gen)
    <3>1. \A r \in CoveredBy(e.attempt, e.gen) : r \in Requests
      BY DEF CoveredBy
    <3> QED BY <3>1 DEF Inv, LedgerFits, Grants
  <2>6. RevokeFits(f)'
    BY <1>3, <1>5, <1>7, <2>1, <2>4, <2>5 DEF RevokeFits, ListGrants, Fencing
  <2>7. BarredFits'
    BY <1>3, <2>1 DEF Inv, BarredFits, Covered
  <2>8. Only(f) /\ FencesLoose /\ BarsRise
    BY <1>4, <2>1, <2>3, <2>4, <2>6 DEF Only, FencesLoose, BarsRise
  <2> QED BY <1>3, <2>7, <2>8, RevokeFences
<1>8. CASE CrashErrand(f)
  <2>1. UNCHANGED <<fence, barred>> /\ errand' = [errand EXCEPT ![f] = NoErrand]
    BY <1>8 DEF CrashErrand, broker
  <2>2. errand'[f] = NoErrand /\ \A h \in Callers \ {f} : errand'[h] = errand[h]
    BY <1>6, <2>1
  <2>3. BarredFits'
    BY <1>3, <2>1 DEF Inv, BarredFits, Covered
  <2>4. Only(f) /\ FencesLoose /\ BarsRise
    BY <1>4, <2>1, <2>2 DEF Only, FencesLoose, BarsRise, NoErrand
  <2> QED BY <1>3, <2>3, <2>4, RevokeFences
<1>9. ASSUME NEW b \in Branches, Revoke(f, b) PROVE Fences'
  <2>1. UNCHANGED fence /\ Bars(e.attempt, b, e.gen)
    BY <1>9 DEF Revoke
  <2>2. errand' = [errand EXCEPT ![f] = [e EXCEPT !.todo = @ \ {b}]]
    BY <1>9 DEF Revoke
  <2>3. errand'[f] = [e EXCEPT !.todo = @ \ {b}] /\ \A h \in Callers \ {f} : errand'[h] = errand[h]
    BY <1>6, <2>2
  <2>4. /\ errand'[f].at = "revoke" /\ errand'[f].attempt = e.attempt /\ errand'[f].gen = e.gen
        /\ errand'[f].expect = e.expect /\ errand'[f].todo = e.todo \ {b}
    BY <1>1, <1>9, <2>3 DEF Errands, Revoke
  <2>5. /\ barred' \in [Attempts -> [Branches -> {0} \cup Generations]]
        /\ \A d \in Attempts, c \in Branches : barred'[d][c] >= barred[d][c]
        /\ barred'[e.attempt][b] >= e.gen
    BY <1>1, <1>2, <2>1, BarsTyped DEF TypeOK
  <2>6. \A d \in Attempts, c \in Branches : barred'[d][c] \in Nat
    BY <2>5, TermTypes
  <2>7. RevokeFits(f)'
    <3>1. RevokeFits(f) /\ e.at = "revoke"
      BY <1>5, <1>9 DEF Revoke, Fencing
    <3>2. ASSUME NEW r \in CoveredBy(e.attempt, e.gen) \ slipped', exec'[r] # "none"
          PROVE  BranchOf[r] \in e.todo \ {b} \/ barred'[e.attempt][BranchOf[r]] >= e.gen
      <4>1. BranchOf[r] \in Branches
        BY TermTypes DEF CoveredBy
      <4>2. BranchOf[r] \in e.todo \/ barred[e.attempt][BranchOf[r]] >= e.gen
        BY <1>3, <3>1, <3>2 DEF RevokeFits
      <4>3. CASE BranchOf[r] = b
        BY <2>5, <4>3
      <4>4. CASE BranchOf[r] # b
        BY <1>2, <1>4, <2>5, <2>6, <4>1, <4>2, <4>4
      <4> QED BY <4>3, <4>4
    <3> QED BY <2>1, <2>4, <3>1, <3>2 DEF RevokeFits
  <2>8. BarredFits'
    <3> SUFFICES ASSUME NEW r \in Requests \ slipped', Covered(r)', fence'[AttemptOf[r]].rev = "SUCCEEDED",
                        exec'[r] # "none"
                 PROVE  barred'[AttemptOf[r]][BranchOf[r]] >= fence'[AttemptOf[r]].gen
      BY DEF BarredFits
    <3>1. barred[AttemptOf[r]][BranchOf[r]] >= fence[AttemptOf[r]].gen
      BY <1>3, <2>1 DEF Inv, BarredFits, Covered
    <3>2. AttemptOf[r] \in Attempts /\ BranchOf[r] \in Branches /\ fence[AttemptOf[r]].gen \in Nat
      BY <1>1, TermTypes, Numbers
    <3> QED BY <1>4, <2>1, <2>5, <2>6, <3>1, <3>2
  <2>9. Only(f) /\ FencesLoose /\ BarsRise
    <3>1. errand'[f].at # "open"
      BY <1>9, <2>4 DEF Revoke
    <3> QED BY <2>1, <2>3, <2>5, <2>6, <2>7, <3>1 DEF Only, FencesLoose, BarsRise
  <2> QED BY <1>3, <2>8, <2>9, RevokeFences
<1>10. ASSUME NEW b \in Branches, RevokeUnanswered(f, b) PROVE Fences'
  <2>1. UNCHANGED fence /\ (Bars(e.attempt, b, e.gen) \/ UNCHANGED barred)
    BY <1>10 DEF RevokeUnanswered
  <2>2. errand' = [errand EXCEPT ![f] = [e EXCEPT !.at = "unanswered", !.todo = {}]]
    BY <1>10 DEF RevokeUnanswered
  <2>3. /\ errand'[f] = [e EXCEPT !.at = "unanswered", !.todo = {}]
        /\ \A h \in Callers \ {f} : errand'[h] = errand[h]
    BY <1>6, <2>2
  <2>4. /\ errand'[f].at = "unanswered" /\ errand'[f].attempt = e.attempt /\ errand'[f].gen = e.gen
        /\ errand'[f].expect = e.expect
    BY <1>1, <2>3 DEF Errands
  <2>5. BarsRise
    <3>1. CASE Bars(e.attempt, b, e.gen)
      <4>1. /\ barred' \in [Attempts -> [Branches -> {0} \cup Generations]]
            /\ \A d \in Attempts, c \in Branches : barred'[d][c] >= barred[d][c]
        BY <1>1, <1>2, <3>1, BarsTyped DEF TypeOK
      <4> QED BY <4>1, TermTypes DEF BarsRise
    <3>2. CASE UNCHANGED barred
      BY <1>4, <3>2 DEF BarsRise
    <3> QED BY <2>1, <3>1, <3>2
  <2>6. RevokeFits(f)'
    BY <1>5, <1>10, <2>1, <2>4 DEF RevokeFits, RevokeUnanswered, Fencing
  <2>7. BarredFits'
    <3> SUFFICES ASSUME NEW r \in Requests \ slipped', Covered(r)', fence'[AttemptOf[r]].rev = "SUCCEEDED",
                        exec'[r] # "none"
                 PROVE  barred'[AttemptOf[r]][BranchOf[r]] >= fence'[AttemptOf[r]].gen
      BY DEF BarredFits
    <3>1. barred[AttemptOf[r]][BranchOf[r]] >= fence[AttemptOf[r]].gen
      BY <1>3, <2>1 DEF Inv, BarredFits, Covered
    <3>2. AttemptOf[r] \in Attempts /\ BranchOf[r] \in Branches /\ fence[AttemptOf[r]].gen \in Nat
      BY <1>1, TermTypes, Numbers
    <3> QED BY <1>4, <2>1, <2>5, <3>1, <3>2 DEF BarsRise
  <2>8. Only(f) /\ FencesLoose
    BY <2>1, <2>3, <2>4, <2>6 DEF Only, FencesLoose
  <2> QED BY <1>3, <2>5, <2>7, <2>8, RevokeFences
<1>11. CASE CompleteRevocation(f)
  <2> DEFINE a == e.attempt
             done == IF e.at = "revoke" THEN "SUCCEEDED" ELSE "UNKNOWN"
  <2>1. /\ UNCHANGED barred /\ ~FenceHeld(a) /\ ~Fencing(f)
        /\ e.at \in {"revoke", "unanswered"} /\ (e.at = "revoke" => e.todo = {})
    BY <1>11 DEF CompleteRevocation, broker, Fencing
  <2>2. errand' = [errand EXCEPT ![f] = NoErrand]
    BY <1>11 DEF CompleteRevocation
  <2>3. errand'[f] = NoErrand /\ \A h \in Callers \ {f} : errand'[h] = errand[h]
    BY <1>6, <2>2
  <2>4. \/ UNCHANGED fence
        \/ /\ fence[a].gen = e.gen /\ fence[a].rev = e.expect
           /\ fence' = [fence EXCEPT ![a].rev = done]
    BY <1>11 DEF CompleteRevocation
  <2>5. CASE UNCHANGED fence
    <3>1. BarredFits'
      BY <1>3, <2>1, <2>5 DEF Inv, BarredFits, Covered
    <3>2. Only(f) /\ FencesLoose /\ BarsRise
      BY <1>4, <2>1, <2>3, <2>5 DEF Only, FencesLoose, BarsRise, NoErrand
    <3> QED BY <1>3, <3>1, <3>2, RevokeFences
  <2>6. CASE /\ fence[a].gen = e.gen /\ fence[a].rev = e.expect
             /\ fence' = [fence EXCEPT ![a].rev = done]
    <3>1. /\ fence'[a].gen = fence[a].gen /\ fence'[a].rev = done
          /\ \A d \in Attempts \ {a} : fence'[d] = fence[d]
      BY <1>1, <1>2, <2>6 DEF TypeOK, FenceRows
    <3>2. fence[a].rev # "NONE"
      BY <1>1, <2>6 DEF Errands
    <3>3. FencesLoose
      BY <2>1, <3>1, <3>2 DEF FencesLoose
    <3>4. BarredFits'
      <4> SUFFICES ASSUME NEW r \in Requests \ slipped', Covered(r)', fence'[AttemptOf[r]].rev = "SUCCEEDED",
                          exec'[r] # "none"
                   PROVE  barred'[AttemptOf[r]][BranchOf[r]] >= fence'[AttemptOf[r]].gen
        BY DEF BarredFits
      <4>1. AttemptOf[r] \in Attempts /\ GenOf[r] \in Nat
        BY TermTypes
      <4>2. Covered(r) /\ fence'[AttemptOf[r]].gen = fence[AttemptOf[r]].gen
        BY <3>1, <4>1 DEF Covered
      <4>3. CASE AttemptOf[r] = a
        <5>1. e.at = "revoke" /\ e.todo = {}
          BY <2>1, <3>1, <4>3
        <5>2. r \in CoveredBy(a, e.gen)
          BY <1>2, <2>6, <4>1, <4>2, <4>3 DEF CoveredBy, Covered
        <5>3. barred[a][BranchOf[r]] >= e.gen
          BY <1>3, <1>5, <2>1, <5>1, <5>2 DEF RevokeFits
        <5> QED BY <2>1, <2>6, <3>1, <4>3, <5>3
      <4>4. CASE AttemptOf[r] # a
        BY <1>3, <2>1, <3>1, <4>1, <4>2, <4>4 DEF Inv, BarredFits
      <4> QED BY <4>3, <4>4
    <3>5. Only(f) /\ BarsRise
      BY <1>4, <2>1, <2>3 DEF Only, BarsRise, NoErrand
    <3> QED BY <1>3, <3>3, <3>4, <3>5, RevokeFences
  <2> QED BY <2>4, <2>5, <2>6
<1> QED BY <1>7, <1>8, <1>9, <1>10, <1>11 DEF Withdraw

\* Every step keeps the fences, the errands and the bars in step with the ledger.
LEMMA FencesStep ==
  ASSUME Inv, [Next]_vars
  PROVE  Fences'
<1>1. ASSUME NEW r \in Requests, Authorize(r) PROVE Fences'
  <2>1. \A q \in Requests : RowStep(q)
    BY <1>1, AuthorizeMoves DEF OthersSame, RowStep, Worked
  <2> QED BY <1>1, <2>1, AuthorizeMoves, WorkedFences
<1>2. ASSUME NEW r \in Requests, Execute(r) PROVE Fences'
  <2>1. \A q \in Requests : RowStep(q)
    BY <1>2, ExecuteMoves DEF OnlyRow, OthersSame, RowStep, Worked
  <2>2. \A q \in Requests : exec'[q] # "none" => exec[q] # "none" \/ Consumed(q)
    BY <1>2, ExecuteMoves DEF ExecStep
  <2> QED BY <1>2, <2>1, <2>2, ExecuteMoves, WorkedFences
<1>3. ASSUME NEW w \in Reconcilers, Reconcile(w) PROVE Fences'
  <2>1. \A q \in Requests : RowStep(q)
    BY <1>3, ReconcileMoves DEF OnlyRow, OthersSame, RowStep, Worked
  <2> QED BY <1>3, <2>1, ReconcileMoves, WorkedFences
<1>4. ASSUME UNCHANGED vars \/ \E b, c : PushElsewhere(b, c) PROVE Fences'
  <2>1. \A q \in Requests : RowStep(q)
    BY <1>4, ElsewhereMoves DEF RowStep, Worked, SameRow
  <2> QED BY <1>4, <2>1, ElsewhereMoves, WorkedFences
<1>5. Fencers \subseteq Callers /\ Revokers \subseteq Callers
  BY DEF Callers
<1> QED BY <1>1, <1>2, <1>3, <1>4, <1>5, OpenFences, CommitFences, ClaimFences, WithdrawFences DEF Next

LEMMA Initially == Init => Inv
<1> SUFFICES ASSUME Init PROVE Inv
  OBVIOUS
<1>1. push \in [Requests -> PushRows] /\ \A r \in Requests : push[r].state = "NONE"
  BY DEF Init, PushRows, States
<1>2. fence \in [Attempts -> FenceRows] /\ \A a \in Attempts : fence[a].gen = 0 /\ fence[a].rev = "NONE"
  BY DEF Init, FenceRows
<1>3. /\ sweep \in [Reconcilers -> {NoSweep} \cup Sweeps] /\ \A w \in Reconcilers : sweep[w].at = "idle"
      /\ errand \in [Callers -> {NoErrand} \cup Errands] /\ \A f \in Callers : errand[f] = NoErrand
  BY DEF Init, NoSweep
<1>4. TypeOK
  BY <1>1, <1>2, <1>3, PushAssumption DEF Init, TypeOK, ExecStates
<1>5. LedgerFits
  BY <1>1, <1>3 DEF Init, LedgerFits, FactsAreTrue
<1>6. FenceShuts
  BY <1>1 DEF FenceShuts, Working
<1>7. OneFence
  BY <1>3 DEF OneFence, Fencing, NoErrand, Callers
<1>8. BarredFits
  BY DEF Init, BarredFits
<1> QED BY <1>2, <1>3, <1>4, <1>5, <1>6, <1>7, <1>8 DEF Inv, Typed, ErrandsFit

LEMMA NextKeeps == Inv /\ [Next]_vars => Inv'
<1> SUFFICES ASSUME Inv, [Next]_vars PROVE Inv'
  OBVIOUS
<1>1. Typed /\ TypeOK' /\ LedgerFits' /\ Fences'
  BY TypedStep, LedgerStep, FencesStep DEF Inv
<1> QED BY <1>1 DEF Inv, Typed, Fences

\* The inductive invariant: rows with their facts, the one fence of an attempt with what it
\* shuts and lists, and what the broker bars of the fences that were revoked.
THEOREM Invariance == Spec => []Inv
<1> QED
  BY Initially, NextKeeps, PTL DEF Spec

\* Rows, fences, executions, sweeps and revocations keep their types.
THEOREM TypeCorrect == Spec => []TypeOK
<1>1. Inv => TypeOK
  BY DEF Inv, Typed
<1> QED
  BY <1>1, Invariance, PTL

\* The fact told of a push is what became of it, however many workers held an answer
\* (the compare-and-set of transition_agent_push, and record_fenced_observation after it).
THEOREM FactsTrue == Spec => []FactsAreTrue
<1>1. Inv => FactsAreTrue
  BY DEF Inv, LedgerFits
<1> QED
  BY <1>1, Invariance, PTL

\* No push covered by a committed fence is worked on, but for what slipped past its list: an
\* authorisation that read no fence row and inserted inside the transaction of a fence that covers
\* it, the attempt's first or a later one (upsert_attempt_fence, fence_open_pushes, consume).
THEOREM FencesShut == Spec => []FenceShuts
<1>1. Inv => FenceShuts
  BY DEF Inv
<1> QED
  BY <1>1, Invariance, PTL

\* A push reaches its branch, with or without an answer, only where the broker admits it.
LEMMA LandsAdmitted ==
  ASSUME Inv, [Next]_vars, NEW r \in Requests, Reaches(r)
  PROVE  Admits(r)
<1>1. exec[r] = "push" /\ exec'[r] \in {"landed", "unanswered"}
  BY DEF Reaches
<1>2. ASSUME NEW q \in Requests, Execute(q) PROVE Admits(r)
  <2>1. ExecStep(q) /\ (q # r => exec'[r] = exec[r])
    BY <1>2, ExecuteMoves
  <2> QED BY <1>1, <2>1 DEF ExecStep
<1>3. UNCHANGED exec => Admits(r)
  BY <1>1
<1> QED BY <1>2, <1>3, AuthorizeMoves, ReconcileMoves, CommitMoves, RevokeMoves, ElsewhereMoves DEF Next, vars

\* Once the ledger says that the grants of an attempt are revoked, no push that the fence listed
\* reaches a branch, with an answer or without one, though its execution holds a grant it consumed
\* before (_complete_revocation writes SUCCEEDED only at the generation whose listed branches were
\* all revoked).  A push that slipped past the list is excepted: it may land after SUCCEEDED.
THEOREM NeverLands == Spec => RevokedNeverLands
<1>1. ASSUME Inv, [Next]_vars, NEW r \in Requests \ slipped, Reaches(r)
      PROVE  ~(Covered(r) /\ fence[AttemptOf[r]].rev = "SUCCEEDED")
  <2> SUFFICES ASSUME Covered(r), fence[AttemptOf[r]].rev = "SUCCEEDED" PROVE FALSE
    OBVIOUS
  <2>1. GenOf[r] > barred[AttemptOf[r]][BranchOf[r]]
    BY <1>1, LandsAdmitted DEF Admits
  <2>2. barred[AttemptOf[r]][BranchOf[r]] >= fence[AttemptOf[r]].gen
    BY <1>1 DEF Inv, BarredFits, Reaches
  <2>3. /\ fence[AttemptOf[r]].gen \in Nat /\ fence[AttemptOf[r]].gen >= GenOf[r]
        /\ barred[AttemptOf[r]][BranchOf[r]] \in Nat /\ GenOf[r] \in Nat
    BY <1>1, TermTypes, Numbers DEF Inv, Typed, Covered
  <2> QED BY <2>1, <2>2, <2>3
<1>2. Inv /\ [Next]_vars =>
        [\A r \in Requests \ slipped :
           Reaches(r) => ~(Covered(r) /\ fence[AttemptOf[r]].rev = "SUCCEEDED")]_vars
  BY <1>1
<1> QED
  BY <1>2, Invariance, PTL DEF Spec, RevokedNeverLands
-----------------------------------------------------------------------------
(* The contract.                                                           *)

LEMMA ContractInit == Init => Contract!Init
  BY DEF Init, Contract!Init, Working

Phase(p) == IF p.state \in Working THEN "WORKING" ELSE p.state
phases == [r \in Requests |-> IF push[r].state \in Working THEN "WORKING" ELSE push[r].state]
gens == [a \in Attempts |-> fence[a].gen]
revoked == {a \in Attempts : fence[a].rev = "SUCCEEDED"}

\* One row moves, so one phase does.
LEMMA OnePhase ==
  ASSUME NEW r \in Requests, OthersSame(r), TypeOK, TypeOK'
  PROVE  /\ phases' = [phases EXCEPT ![r] = Phase(push'[r])] /\ phases[r] = Phase(push[r])
         /\ fact' = [fact EXCEPT ![r] = fact'[r]]
<1>1. \A q \in Requests \ {r} : push'[q] = push[q] /\ fact'[q] = fact[q]
  BY DEF OthersSame, SameRow
<1>2. fact \in [Requests -> {"NONE", "CONFIRMED", "FENCED"}] /\ fact' \in [Requests -> {"NONE", "CONFIRMED", "FENCED"}]
  BY DEF TypeOK
<1> QED BY <1>1, <1>2 DEF phases, Phase

\* Under fences that stay, a row makes a step of the contract or none.
LEMMA ContractRow ==
  ASSUME Inv, TypeOK', NEW r \in Requests, RowStep(r), OthersSame(r), UNCHANGED fence
  PROVE  [Contract!Next]_(Contract!contract)
<1>1. /\ TypeOK
      /\ fact[r] \in {"NONE", "CONFIRMED", "FENCED"}
      /\ fact[r] = "CONFIRMED" <=> push[r].state = "SUCCEEDED"
      /\ fact[r] = "FENCED" => push[r].state = "FENCED"
  BY DEF Inv, Typed, TypeOK, LedgerFits, FactsAreTrue
<1>2. /\ phases' = [phases EXCEPT ![r] = Phase(push'[r])] /\ phases[r] = Phase(push[r])
      /\ fact' = [fact EXCEPT ![r] = fact'[r]]
  BY <1>1, OnePhase
<1>3. fact'[r] = fact[r] => fact' = fact
  BY <1>1, <1>2 DEF TypeOK
<1>4. Phase(push'[r]) = Phase(push[r]) => phases' = phases
  BY <1>2 DEF phases
<1>5. UNCHANGED <<gens, revoked>>
  BY DEF gens, revoked
<1>6. CASE Inserted(r)
  <2>1. Contract!Admit(r)
    BY <1>2, <1>3, <1>5, <1>6 DEF Inserted, Phase, Working, Contract!Admit, phases, gens, revoked
  <2> QED BY <2>1 DEF Contract!Next
<1>7. CASE Consumed(r)
  <2>1. Contract!Work(r)
    <3>1. ~(gens[AttemptOf[r]] >= GenOf[r])
      BY <1>7, TermTypes DEF Consumed, Covered, gens
    <3> QED BY <1>2, <1>3, <1>5, <1>7, <3>1 DEF Consumed, Goes, Phase, Working, Contract!Work, Contract!Fenced,
      phases, gens, revoked
  <2> QED BY <2>1 DEF Contract!Next
<1>8. CASE Goes(r, Open, {"BLOCKED"})
  <2>1. Contract!Refuse(r)
    BY <1>2, <1>3, <1>5, <1>8 DEF Goes, Open, Phase, Working, Contract!Refuse, Contract!Open, phases, gens, revoked
  <2> QED BY <2>1 DEF Contract!Next
<1>9. CASE Goes(r, Working, {"FENCED"})
  <2>1. Contract!Withhold(r)
    BY <1>2, <1>3, <1>5, <1>9 DEF Goes, Phase, Working, Contract!Withhold, phases, gens, revoked
  <2> QED BY <2>1 DEF Contract!Next
<1>10. CASE Confirmed(r)
  <2>1. Contract!Confirm(r)
    BY <1>1, <1>2, <1>5, <1>10 DEF Confirmed, Phase, Working, Contract!Confirm, phases, gens, revoked
  <2> QED BY <2>1 DEF Contract!Next
<1>11. CASE Reported(r)
  <2>1. CASE fact[r] = "NONE"
    <3>1. Contract!Report(r)
      BY <1>2, <1>4, <1>5, <1>11, <2>1 DEF Reported, Phase, Working, Contract!Report, phases, gens, revoked
    <3> QED BY <3>1 DEF Contract!Next
  <2>2. CASE fact[r] # "NONE"
    BY <1>3, <1>4, <1>5, <1>11, <2>2 DEF Reported, Phase, Contract!contract, phases, gens, revoked
  <2> QED BY <2>1, <2>2
<1>12. CASE SameRow(r) \/ Goes(r, Working, Working)
  <2>1. UNCHANGED <<phases, fact, gens, revoked>>
    BY <1>3, <1>4, <1>5, <1>12 DEF SameRow, Goes, Phase
  <2> QED BY <2>1 DEF Contract!contract, phases, gens, revoked
<1> QED BY <1>6, <1>7, <1>8, <1>9, <1>10, <1>11, <1>12 DEF RowStep, Worked

\* What the attempts may do in the contract.
LEMMA AttemptSteps ==
  ASSUME NEW a \in Attempts
  PROVE  /\ Contract!Withdraw(a) => Contract!Next
         /\ \A g \in Generations : Contract!Fence(a, g) => Contract!Next
  BY DEF Contract!Next

\* A fence that commits is the fence of the contract, at the generation it wrote.
LEMMA ContractFence ==
  ASSUME Inv, TypeOK', NEW f \in Fencers, CommitFence(f)
  PROVE  Contract!Next
<1> DEFINE e == errand[f]
           a == e.attempt
<1>1. /\ TypeOK /\ e \in Errands /\ UNCHANGED fact
      /\ \/ e.gen > fence[a].gen /\ e.expect = "PENDING"
         \/ e.gen = fence[a].gen /\ e.expect = fence[a].rev
  BY CommitMoves DEF Inv, Typed, OpenFits
<1>2. a \in Attempts /\ e.gen \in Generations /\ e.gen \in Nat /\ fence[a].gen \in Nat
  BY <1>1, TermTypes, Numbers DEF Errands
<1>3. /\ fence'[a].gen = e.gen /\ fence'[a].rev = e.expect
      /\ \A d \in Attempts \ {a} : fence'[d] = fence[d]
  <2>1. fence' = [fence EXCEPT ![a] = [gen |-> e.gen, rev |-> e.expect]] /\ fence \in [Attempts -> FenceRows]
    BY <1>1, CommitMoves DEF TypeOK
  <2> QED BY <1>2, <2>1
<1>4. gens' = [gens EXCEPT ![a] = e.gen] /\ e.gen >= gens[a] /\ gens[a] = fence[a].gen
  BY <1>1, <1>2, <1>3 DEF gens
<1>5. revoked' = IF e.gen > gens[a] THEN revoked \ {a} ELSE revoked
  <2>1. CASE e.gen > fence[a].gen
    <3>1. e.expect # "SUCCEEDED"
      BY <1>1, <1>2, <2>1
    <3> QED BY <1>2, <1>3, <1>4, <2>1, <3>1 DEF revoked
  <2>2. CASE ~(e.gen > fence[a].gen)
    <3>1. fence'[a].rev = fence[a].rev
      BY <1>1, <1>3, <2>2
    <3> QED BY <1>2, <1>3, <1>4, <2>2, <3>1 DEF revoked
  <2> QED BY <2>1, <2>2
<1>6. /\ \A r \in Requests \ e.shut : push'[r] = push[r]
      /\ \A r \in e.shut : r \in CoveredBy(a, e.gen) /\ push[r].state \in Open /\ push'[r].state = "FENCED"
  BY CommitMoves DEF SameRow
<1> HIDE DEF e, a
<1>7. phases' = [r \in Requests |-> IF r \in e.shut THEN "FENCED" ELSE phases[r]]
  BY <1>6 DEF phases, Working
<1>8. e.shut \in SUBSET {r \in Requests : AttemptOf[r] = a /\ GenOf[r] <= e.gen /\ phases[r] \in Contract!Open}
  BY <1>6 DEF CoveredBy, phases, Open, Working, Contract!Open
<1>9. Contract!Fence(a, e.gen)
  BY <1>1, <1>4, <1>5, <1>7, <1>8 DEF Contract!Fence, phases, gens, revoked
<1>10. PICK d \in Attempts, g \in Generations : d = a /\ g = e.gen
  BY <1>2
<1>11. Contract!Fence(d, g)
  BY <1>9, <1>10 DEF Contract!Fence
<1> QED BY <1>11, AttemptSteps

\* A revocation that completes is the withdrawal, at the generation that was fenced.
LEMMA ContractWithdraw ==
  ASSUME Inv, NEW f \in Callers, Withdraw(f)
  PROVE  [Contract!Next]_(Contract!contract)
<1> DEFINE e == errand[f]
           a == e.attempt
<1>1. UNCHANGED <<push, fact>>
  BY RevokeMoves
<1>2. CASE UNCHANGED fence
  BY <1>1, <1>2 DEF Contract!contract
<1>3. CASE CompleteRevocation(f) /\ ~UNCHANGED fence
  <2>1. /\ TypeOK /\ e \in Errands /\ a \in Attempts /\ RevokeFits(f)
    <3>1. TypeOK /\ e # NoErrand /\ ~Fencing(f)
      BY <1>3 DEF Inv, Typed, CompleteRevocation, NoErrand, Fencing
    <3> QED BY <3>1, Numbers DEF Inv, ErrandsFit, ErrandFits
  <2>2. /\ fence[a].gen = e.gen /\ fence[a].rev = e.expect /\ e.expect # "SUCCEEDED"
        /\ fence' = [fence EXCEPT ![a].rev = IF e.at = "revoke" THEN "SUCCEEDED" ELSE "UNKNOWN"]
    BY <1>3, <2>1 DEF CompleteRevocation, RevokeFits
  <2>3. /\ fence'[a].gen = fence[a].gen /\ \A d \in Attempts \ {a} : fence'[d] = fence[d]
        /\ fence'[a].rev = IF e.at = "revoke" THEN "SUCCEEDED" ELSE "UNKNOWN"
    BY <2>1, <2>2 DEF TypeOK, FenceRows
  <2>4. gens' = gens
    BY <2>1, <2>3 DEF gens
  <2>5. CASE e.at = "revoke"
    <3>1. fence[a].gen > 0
      BY <2>1, <2>2, Numbers DEF Inv, Typed, Errands
    <3>2. revoked' = revoked \cup {a} /\ gens[a] > 0
      BY <2>1, <2>3, <2>5, <3>1 DEF revoked, gens
    <3>3. Contract!Withdraw(a)
      BY <1>1, <2>4, <3>2 DEF Contract!Withdraw, revoked, gens
    <3>4. PICK d \in Attempts : d = a
      BY <2>1
    <3>5. Contract!Withdraw(d)
      BY <3>3, <3>4 DEF Contract!Withdraw
    <3> QED BY <3>5, AttemptSteps
  <2>6. CASE e.at # "revoke"
    <3>1. revoked' = revoked
      BY <2>1, <2>2, <2>3, <2>6 DEF revoked
    <3> QED BY <1>1, <2>4, <3>1 DEF Contract!contract, revoked, gens
  <2> QED BY <2>5, <2>6
<1> QED BY <1>2, <1>3 DEF Withdraw, ListGrants, CrashErrand, Revoke, RevokeUnanswered

LEMMA ContractNext == Inv /\ [Next]_vars => [Contract!Next]_(Contract!contract)
<1> SUFFICES ASSUME Inv, [Next]_vars PROVE [Contract!Next]_(Contract!contract)
  OBVIOUS
<1>1. TypeOK'
  BY TypedStep DEF Inv
<1>2. ASSUME NEW r \in Requests, Authorize(r) \/ Execute(r) PROVE [Contract!Next]_(Contract!contract)
  BY <1>1, <1>2, AuthorizeMoves, ExecuteMoves, ContractRow DEF OnlyRow, RowStep
<1>3. ASSUME NEW w \in Reconcilers, Reconcile(w) PROVE [Contract!Next]_(Contract!contract)
  <2>1. PICK r \in Requests : OnlyRow(r)
    BY <1>3, ReconcileMoves
  <2> QED BY <1>1, <1>3, <2>1, ReconcileMoves, ContractRow DEF OnlyRow, RowStep
<1>4. ASSUME UNCHANGED <<push, fact, fence>> PROVE [Contract!Next]_(Contract!contract)
  BY <1>4 DEF Contract!contract
<1>5. ASSUME NEW f \in Fencers, NEW a \in Attempts, NEW g \in Generations, OpenFence(f, a, g)
      PROVE  [Contract!Next]_(Contract!contract)
  BY <1>4, <1>5 DEF OpenFence, ledger
<1>6. ASSUME NEW f \in Revokers, NEW a \in Attempts, ClaimRevocation(f, a)
      PROVE  [Contract!Next]_(Contract!contract)
  <2>1. UNCHANGED <<push, fact>> /\ fence' = [fence EXCEPT ![a].rev = "UNKNOWN"]
        /\ fence[a].rev # "SUCCEEDED" /\ fence \in [Attempts -> FenceRows]
    BY <1>6 DEF ClaimRevocation, ledger, Inv, Typed, TypeOK
  <2>2. fence'[a].gen = fence[a].gen /\ fence'[a].rev = "UNKNOWN" /\ \A d \in Attempts \ {a} : fence'[d] = fence[d]
    BY <2>1 DEF FenceRows
  <2>3. gens' = gens /\ revoked' = revoked
    BY <2>1, <2>2 DEF gens, revoked
  <2> QED BY <2>1, <2>3 DEF Contract!contract, gens, revoked
<1>7. Fencers \subseteq Callers
  BY DEF Callers
<1> QED BY <1>1, <1>2, <1>3, <1>4, <1>5, <1>6, <1>7, ElsewhereMoves, ContractFence, ContractWithdraw DEF Next

\* Executor, reconcilers and fencers together implement PushContract: no push works under a
\* committed fence, each is settled once, and what was withdrawn stays so until a higher fence.
THEOREM Refinement == Spec => ImplementsPushContract
<1> QED
  BY ContractInit, ContractNext, Invariance, PTL DEF Spec, ImplementsPushContract, Contract!Spec
=============================================================================
