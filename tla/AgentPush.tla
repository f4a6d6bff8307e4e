------------------------------ MODULE AgentPush ------------------------------
(***************************************************************************)
(* The pushes of agents in modules/source_control: a push is authorised    *)
(* with a grant, executed once through the broker, reconciled by           *)
(* observation where its outcome is unknown, and fenced with its attempt,  *)
(* whose grants the broker is then told to revoke.                         *)
(*                                                                         *)
(* A step is a transaction or a call of the broker.  Two transactions are  *)
(* more than one step: an authorisation that finds no fence row to lock,   *)
(* and a fence, whose row locks are the guards Locked and FenceHeld.  A    *)
(* request is one push coordinate with one idempotency key: authorising it *)
(* again changes nothing.  The count of attempts in the compare-and-set is *)
(* the worker that raised it last.  Leases run out at any time; the port   *)
(* that validates an execution binding answers either way.                 *)
(***************************************************************************)
EXTENDS Naturals

CONSTANTS
  Requests,     \* push requests
  Terms,        \* what each asks: attempt, gen, branch, from, to
  Attempts,     \* attempts of agents
  Generations,  \* generations that are fenced
  Branches,     \* branches, each of a repository
  Commits,
  FirstHead,    \* the head of each branch at first
  Reconcilers,  \* workers that reconcile pushes
  Fencers,      \* callers that fence an attempt
  Revokers,     \* workers that reconcile revocations
  MaxFaults,    \* bound on crashes and on revocations without an answer
  NoCommit, Executor, Nobody

ASSUME PushAssumption ==
  /\ Generations \subseteq Nat /\ 0 \notin Generations
  /\ Terms \in [Requests -> [attempt : Attempts, gen : Generations, branch : Branches,
                             from : Commits, to : Commits]]
  /\ \A r \in Requests : Terms[r].from # Terms[r].to
  /\ FirstHead \in [Branches -> Commits]
  /\ NoCommit \notin Commits
  /\ Executor \notin Reconcilers /\ Nobody \notin Reconcilers /\ Nobody # Executor
  /\ Fencers \cap Revokers = {}
  /\ MaxFaults \in Nat

VARIABLES
  push,      \* source_control.agent_push_request
  fact,      \* source_control.agent_delivery_fact
  fence,     \* source_control.agent_delivery_fence; generation 0 is no row
  checking,  \* authorisations that found no fence row and have not inserted
  exec,      \* where the execution of each request stands
  sweep,     \* the claim of each reconciler
  errand,    \* the call of each fencer and revoker
  head,      \* broker: the head of each branch
  barred,    \* broker: the generation revoked, by attempt and branch
  frozen,    \* broker: frozen branches
  slipped,   \* history: requests inserted inside the transaction of a fence that covers them
  faults

vars == <<push, fact, fence, checking, exec, sweep, errand, head, barred, frozen, slipped,
          faults>>
ledger == <<push, fact, slipped>>
broker == <<head, barred, frozen>>
calls == <<exec, sweep, errand>>

Working == {"IN_FLIGHT", "UNKNOWN", "RECONCILIATION"}
Open == {"AUTHORIZED"} \cup Working
Settled == {"SUCCEEDED", "BLOCKED", "FENCED"}

AttemptOf == [r \in Requests |-> Terms[r].attempt]
GenOf == [r \in Requests |-> Terms[r].gen]
BranchOf == [r \in Requests |-> Terms[r].branch]

Callers == Fencers \cup Revokers
NoErrand == [at |-> "idle"]
NoSweep == [at |-> "idle"]

States == {"NONE"} \cup Open \cup Settled
PushRows == [state : States,
             owner : Reconcilers \cup {Executor, Nobody},
             seen : Commits \cup {NoCommit}]
FenceRows == [gen : {0} \cup Generations, rev : {"NONE", "PENDING", "UNKNOWN", "SUCCEEDED"}]
ExecStates == {"none", "push", "refused", "unanswered", "landed", "clear", "rejected", "withheld",
               "lost", "freeze", "freezeLost", "over", "turnedAway"}
Sweeps == [at : {"claimed", "seen", "settle", "withheld", "freeze"},
           request : Requests, seen : Commits \cup {NoCommit},
           next : {"NONE", "UNKNOWN", "BLOCKED", "FENCED", "SUCCEEDED"}]
Errands == [at : {"open", "claimed", "revoke", "unanswered"}, attempt : Attempts,
            gen : Generations, expect : {"PENDING", "UNKNOWN", "SUCCEEDED"},
            todo : SUBSET Branches, shut : SUBSET Requests]

TypeOK ==
  /\ push \in [Requests -> PushRows]
  /\ fact \in [Requests -> {"NONE", "CONFIRMED", "FENCED"}]
  /\ fence \in [Attempts -> FenceRows]
  /\ checking \subseteq Requests /\ slipped \subseteq Requests
  /\ exec \in [Requests -> ExecStates]
  /\ sweep \in [Reconcilers -> {NoSweep} \cup Sweeps]
  /\ errand \in [Callers -> {NoErrand} \cup Errands]
  /\ head \in [Branches -> Commits]
  /\ barred \in [Attempts -> [Branches -> {0} \cup Generations]]
  /\ frozen \subseteq Branches
  /\ faults \in 0 .. MaxFaults

Init ==
  /\ push = [r \in Requests |-> [state |-> "NONE", owner |-> Nobody, seen |-> NoCommit]]
  /\ fact = [r \in Requests |-> "NONE"]
  /\ fence = [a \in Attempts |-> [gen |-> 0, rev |-> "NONE"]]
  /\ checking = {} /\ slipped = {} /\ faults = 0
  /\ exec = [r \in Requests |-> "none"]
  /\ sweep = [w \in Reconcilers |-> NoSweep] /\ errand = [f \in Callers |-> NoErrand]
  /\ head = FirstHead /\ frozen = {}
  /\ barred = [a \in Attempts |-> [b \in Branches |-> 0]]
-----------------------------------------------------------------------------
(* The locks of a fence that has not committed.                            *)

Fencing(f) == errand[f].at = "open"
FenceHeld(a) == \E f \in Fencers : Fencing(f) /\ errand[f].attempt = a
Locked(r) == \E f \in Fencers : Fencing(f) /\ r \in errand[f].shut

Covered(r) == fence[AttemptOf[r]].gen >= GenOf[r]
NoFence(a) == fence[a].gen = 0

\* A fence row that is there is read FOR UPDATE, one that is not holds nothing.
FenceReadable(r) == NoFence(AttemptOf[r]) \/ ~FenceHeld(AttemptOf[r])
-----------------------------------------------------------------------------
(* Authorising.                                                            *)

Insert(r) ==
  /\ push' = [push EXCEPT ![r].state = "AUTHORIZED"]
  /\ slipped' =
       IF \E f \in Fencers : Fencing(f) /\ errand[f].attempt = AttemptOf[r]
                                        /\ errand[f].gen >= GenOf[r]
       THEN slipped \cup {r} ELSE slipped
  /\ UNCHANGED <<fact, fence, calls, broker, faults>>

\* The fence row is locked from the check to the insert.
AuthorizeLocked(r) ==
  /\ push[r].state = "NONE" /\ r \notin checking
  /\ ~NoFence(AttemptOf[r]) /\ FenceReadable(r) /\ ~Covered(r)
  /\ Insert(r)
  /\ UNCHANGED checking

AuthorizeCheck(r) ==
  /\ push[r].state = "NONE" /\ r \notin checking /\ NoFence(AttemptOf[r])
  /\ checking' = checking \cup {r}
  /\ UNCHANGED <<ledger, fence, calls, broker, faults>>

AuthorizeInsert(r) ==
  /\ r \in checking /\ checking' = checking \ {r}
  /\ Insert(r)
-----------------------------------------------------------------------------
(* Executing.  The grant is consumed once, so a request has one execution. *)

Executes(r, from, to) == exec[r] = from /\ exec' = [exec EXCEPT ![r] = to]

\* Mutant: the grant is consumed without a look at the fence.
ConsumeUnfenced(r) ==
  /\ push[r].state = "AUTHORIZED" /\ ~Locked(r)
  /\ push' = [push EXCEPT ![r].state = "IN_FLIGHT", ![r].owner = Executor]
  /\ Executes(r, "none", "push")
  /\ UNCHANGED <<fact, fence, checking, sweep, errand, broker, slipped, faults>>

Consume(r) ==
  /\ push[r].state = "AUTHORIZED" /\ ~Locked(r) /\ ~Covered(r)
  /\ push' = [push EXCEPT ![r].state = "IN_FLIGHT", ![r].owner = Executor]
  /\ Executes(r, "none", "push")
  /\ UNCHANGED <<fact, fence, checking, sweep, errand, broker, slipped, faults>>

\* A grant presented after it expired, whether its attempt is fenced or not.
BlockExpired(r) ==
  /\ push[r].state = "AUTHORIZED" /\ ~Locked(r)
  /\ push' = [push EXCEPT ![r].state = "BLOCKED"]
  /\ UNCHANGED <<fact, fence, checking, calls, broker, slipped, faults>>

Admits(r) == GenOf[r] > barred[AttemptOf[r]][BranchOf[r]] /\ BranchOf[r] \notin frozen
Lands(r) == head' = [head EXCEPT ![BranchOf[r]] = Terms[r].to]

PushLands(r) ==
  /\ Executes(r, "push", "landed")
  /\ Admits(r) /\ head[BranchOf[r]] \in {Terms[r].from, Terms[r].to}
  /\ Lands(r)
  /\ UNCHANGED <<ledger, fence, checking, sweep, errand, barred, frozen, faults>>

\* The answer is lost, before the write or after it.
PushUnanswered(r) ==
  /\ Executes(r, "push", "unanswered") /\ Admits(r)
  /\ \/ head[BranchOf[r]] = Terms[r].from /\ Lands(r)
     \/ UNCHANGED head
  /\ UNCHANGED <<ledger, fence, checking, sweep, errand, barred, frozen, faults>>

\* Denied, or the head is another one.
PushRefused(r) ==
  /\ Executes(r, "push", "refused")
  /\ UNCHANGED <<ledger, fence, checking, sweep, errand, broker, faults>>

\* The binding is validated again and the fence is read, in a transaction of its own.
JudgePush(r) ==
  /\ FenceReadable(r)
  /\ \/ Executes(r, "landed", "clear") /\ ~Covered(r)
     \/ Executes(r, "landed", "rejected")
  /\ UNCHANGED <<ledger, fence, checking, sweep, errand, broker, faults>>

\* transition_agent_push of the execution: nobody claimed the row since it was consumed.
StillInFlight(r) == push[r].state = "IN_FLIGHT" /\ push[r].owner = Executor

\* _finish_inflight: a lost compare-and-set leaves the row to who won it.
FinishInflight(r, from, state, seen, to) ==
  /\ Executes(r, from, to) /\ ~Locked(r)
  /\ push' = IF StillInFlight(r)
             THEN [push EXCEPT ![r] = [state |-> state, owner |-> Nobody, seen |-> seen]]
             ELSE push
  /\ UNCHANGED <<fact, fence, checking, sweep, errand, broker, slipped, faults>>

FinishPush(r) ==
  \/ FinishInflight(r, "unanswered", "UNKNOWN", NoCommit, "over")
  \/ FinishInflight(r, "refused", "BLOCKED", NoCommit, "over")
  \/ FinishInflight(r, "rejected", "FENCED", Terms[r].to, "withheld")

Succeeds(r) ==
  /\ push' = [push EXCEPT ![r] = [state |-> "SUCCEEDED", owner |-> Nobody, seen |-> Terms[r].to]]
  /\ fact' = [fact EXCEPT ![r] = "CONFIRMED"]

\* Mutant: the fact is written whether the row was still the execution's or not.
ConfirmFactFirst(r) ==
  /\ ~Locked(r) /\ Executes(r, "clear", "over")
  /\ fact' = [fact EXCEPT ![r] = "CONFIRMED"]
  /\ push' = IF StillInFlight(r)
             THEN [push EXCEPT ![r] = [state |-> "SUCCEEDED", owner |-> Nobody,
                                       seen |-> Terms[r].to]]
             ELSE push
  /\ UNCHANGED <<fence, checking, sweep, errand, broker, slipped, faults>>

ConfirmInflight(r) ==
  /\ ~Locked(r)
  /\ IF StillInFlight(r)
     THEN Executes(r, "clear", "over") /\ Succeeds(r)
     ELSE /\ Executes(r, "clear", IF push[r].state = "FENCED" THEN "lost" ELSE "over")
          /\ UNCHANGED <<push, fact>>
  /\ UNCHANGED <<fence, checking, sweep, errand, broker, slipped, faults>>

\* _record_fenced_observation: of a row that is not FENCED nothing is recorded.
RecordsFenced(r) ==
  IF push[r].state = "FENCED"
  THEN /\ push' = [push EXCEPT ![r].seen = Terms[r].to]
       /\ fact' = [fact EXCEPT ![r] = IF @ = "NONE" THEN "FENCED" ELSE @]
  ELSE UNCHANGED <<push, fact>>

RecordFenced(r) ==
  /\ Executes(r, "withheld", "freeze") \/ Executes(r, "lost", "freezeLost")
  /\ RecordsFenced(r)
  /\ UNCHANGED <<fence, checking, sweep, errand, broker, slipped, faults>>

Freezes(r) == frozen' = frozen \cup {BranchOf[r]}

\* An execution turned away is one whose binding or fence no longer let it through.
FreezeBranch(r) ==
  /\ Executes(r, "freeze", "turnedAway") \/ Executes(r, "freezeLost", "over")
  /\ Freezes(r)
  /\ UNCHANGED <<ledger, fence, checking, sweep, errand, head, barred, faults>>

\* Somebody else moves the branch.
PushElsewhere(b, c) ==
  /\ head[b] # c /\ \A r \in Requests : c \notin {Terms[r].from, Terms[r].to}
  /\ head' = [head EXCEPT ![b] = c]
  /\ UNCHANGED <<ledger, fence, checking, calls, barred, frozen, faults>>

CrashExecution(r) ==
  /\ exec[r] \notin {"none", "over", "turnedAway"} /\ faults < MaxFaults
  /\ faults' = faults + 1 /\ exec' = [exec EXCEPT ![r] = "over"]
  /\ UNCHANGED <<ledger, fence, checking, sweep, errand, broker>>
-----------------------------------------------------------------------------
(* Reconciling pushes.  A worker has one of the rows it claimed in hand.   *)

Claim(w, r) ==
  /\ sweep[w] = NoSweep /\ push[r].state \in Working /\ ~Locked(r)
  /\ push' = [push EXCEPT ![r].state = "RECONCILIATION", ![r].owner = w]
  /\ sweep' = [sweep EXCEPT ![w] =
                 [at |-> "claimed", request |-> r, seen |-> NoCommit, next |-> "NONE"]]
  /\ UNCHANGED <<fact, fence, checking, exec, errand, broker, slipped, faults>>

\* The broker answers with the head, not at all, or denies the observation.
Observe(w) ==
  /\ sweep[w].at = "claimed"
  /\ \/ sweep' = [sweep EXCEPT ![w].at = "seen", ![w].seen = head[BranchOf[sweep[w].request]]]
     \/ \E s \in {"UNKNOWN", "BLOCKED"} :
          sweep' = [sweep EXCEPT ![w].at = "settle", ![w].next = s]
  /\ UNCHANGED <<ledger, fence, checking, exec, errand, broker, faults>>

\* What the head that was seen makes of the push.
Verdict(r, seen) ==
  IF seen = Terms[r].to THEN IF Covered(r) THEN "FENCED" ELSE "SUCCEEDED"
  ELSE IF seen = Terms[r].from THEN "UNKNOWN" ELSE "BLOCKED"

JudgeSeen(w) ==
  /\ sweep[w].at = "seen" /\ FenceReadable(sweep[w].request)
  /\ sweep' = [sweep EXCEPT ![w].at = "settle",
                            ![w].next = Verdict(sweep[w].request, sweep[w].seen)]
  /\ UNCHANGED <<ledger, fence, checking, exec, errand, broker, faults>>

\* transition_agent_push of a reconciler: nobody claimed the row after it.
StillClaimed(w, r) == push[r].state = "RECONCILIATION" /\ push[r].owner = w

\* After FENCED, recorded or met instead of SUCCEEDED, the drift is recorded too.
FinishReconciliation(w) ==
  LET r == sweep[w].request
      s == sweep[w].next
      seen == IF sweep[w].seen = NoCommit THEN push[r].seen ELSE sweep[w].seen
  IN /\ sweep[w].at = "settle" /\ ~Locked(r)
     /\ IF StillClaimed(w, r)
        THEN /\ push' = [push EXCEPT ![r] = [state |-> s, owner |-> Nobody, seen |-> seen]]
             /\ fact' = IF s = "SUCCEEDED" THEN [fact EXCEPT ![r] = "CONFIRMED"] ELSE fact
        ELSE UNCHANGED <<push, fact>>
     /\ sweep' = IF s = "FENCED" \/ (s = "SUCCEEDED" /\ push[r].state = "FENCED")
                 THEN [sweep EXCEPT ![w].at = "withheld"]
                 ELSE [sweep EXCEPT ![w] = NoSweep]
     /\ UNCHANGED <<fence, checking, exec, errand, broker, slipped, faults>>

RecordDrift(w) ==
  /\ sweep[w].at = "withheld" /\ sweep' = [sweep EXCEPT ![w].at = "freeze"]
  /\ RecordsFenced(sweep[w].request)
  /\ UNCHANGED <<fence, checking, exec, errand, broker, slipped, faults>>

FreezeDrift(w) ==
  /\ sweep[w].at = "freeze" /\ sweep' = [sweep EXCEPT ![w] = NoSweep]
  /\ Freezes(sweep[w].request)
  /\ UNCHANGED <<ledger, fence, checking, exec, errand, head, barred, faults>>

CrashReconciler(w) ==
  /\ sweep[w] # NoSweep /\ faults < MaxFaults
  /\ faults' = faults + 1 /\ sweep' = [sweep EXCEPT ![w] = NoSweep]
  /\ UNCHANGED <<ledger, fence, checking, exec, errand, broker>>
-----------------------------------------------------------------------------
(* Fencing an attempt and revoking its grants.                             *)

CoveredBy(a, g) == {r \in Requests : AttemptOf[r] = a /\ GenOf[r] <= g}

\* Mutant: only the open pushes are listed.
GrantsOpen(a, g) == {BranchOf[r] : r \in {q \in CoveredBy(a, g) : push[q].state \in Open}}

\* The branches of the pushes of the attempt that are in the ledger.
Grants(a, g) == {BranchOf[r] : r \in {q \in CoveredBy(a, g) : push[q].state # "NONE"}}

\* Mutant: the fence is written without a comparison.
OpenAnyFence(f, a, g) ==
  /\ errand[f] = NoErrand /\ ~FenceHeld(a)
  /\ errand' = [errand EXCEPT ![f] =
       [at |-> "open", attempt |-> a, gen |-> g, expect |-> "PENDING", todo |-> Grants(a, g),
        shut |-> {r \in CoveredBy(a, g) : push[r].state \in Open}]]
  /\ UNCHANGED <<ledger, fence, checking, exec, sweep, broker, faults>>

\* The fence row is written or, where it is as high already, locked; the open
\* pushes it covers are shut and all are listed.  Nothing of it is seen yet.
OpenFence(f, a, g) ==
  /\ errand[f] = NoErrand /\ ~FenceHeld(a)
  /\ LET raised == g > fence[a].gen
         actual == IF raised THEN g ELSE fence[a].gen
     IN errand' = [errand EXCEPT ![f] =
          [at |-> "open", attempt |-> a, gen |-> actual,
           expect |-> IF raised THEN "PENDING" ELSE fence[a].rev,
           todo |-> Grants(a, actual),
           shut |-> {r \in CoveredBy(a, actual) : push[r].state \in Open}]]
  /\ UNCHANGED <<ledger, fence, checking, exec, sweep, broker, faults>>

CommitFence(f) ==
  /\ Fencing(f)
  /\ fence' = [fence EXCEPT ![errand[f].attempt] =
                 [gen |-> errand[f].gen, rev |-> errand[f].expect]]
  /\ push' = [r \in Requests |-> IF r \in errand[f].shut
                                 THEN [push[r] EXCEPT !.state = "FENCED", !.owner = Nobody]
                                 ELSE push[r]]
  /\ errand' = IF errand[f].expect = "SUCCEEDED"
               THEN [errand EXCEPT ![f] = NoErrand]
               ELSE [errand EXCEPT ![f].at = "revoke", ![f].shut = {}]
  /\ UNCHANGED <<fact, checking, exec, sweep, broker, slipped, faults>>

\* Mutant: a revocation that was left without an answer is not claimed again.
ClaimPending(f, a) ==
  /\ errand[f] = NoErrand
  /\ fence[a].rev = "PENDING" /\ ~FenceHeld(a)
  /\ fence' = [fence EXCEPT ![a].rev = "UNKNOWN"]
  /\ errand' = [errand EXCEPT ![f] =
                  [at |-> "claimed", attempt |-> a, gen |-> fence[a].gen, expect |-> "UNKNOWN",
                   todo |-> {}, shut |-> {}]]
  /\ UNCHANGED <<ledger, checking, exec, sweep, broker, faults>>

ClaimRevocation(f, a) ==
  /\ errand[f] = NoErrand
  /\ fence[a].rev \in {"PENDING", "UNKNOWN"} /\ ~FenceHeld(a)
  /\ fence' = [fence EXCEPT ![a].rev = "UNKNOWN"]
  /\ errand' = [errand EXCEPT ![f] =
                  [at |-> "claimed", attempt |-> a, gen |-> fence[a].gen, expect |-> "UNKNOWN",
                   todo |-> {}, shut |-> {}]]
  /\ UNCHANGED <<ledger, checking, exec, sweep, broker, faults>>

ListGrants(f) ==
  /\ errand[f].at = "claimed"
  /\ errand' = [errand EXCEPT ![f].at = "revoke",
                              ![f].todo = Grants(errand[f].attempt, errand[f].gen)]
  /\ UNCHANGED <<ledger, fence, checking, exec, sweep, broker, faults>>

Bars(a, b, g) == barred' = [barred EXCEPT ![a][b] = IF g > @ THEN g ELSE @]

Revoke(f, b) ==
  /\ errand[f].at = "revoke" /\ b \in errand[f].todo
  /\ Bars(errand[f].attempt, b, errand[f].gen)
  /\ errand' = [errand EXCEPT ![f].todo = @ \ {b}]
  /\ UNCHANGED <<ledger, fence, checking, exec, sweep, head, frozen, faults>>

\* Without an answer the rest of the branches is not asked for.
RevokeUnanswered(f, b) ==
  /\ errand[f].at = "revoke" /\ b \in errand[f].todo /\ faults < MaxFaults
  /\ Bars(errand[f].attempt, b, errand[f].gen) \/ UNCHANGED barred
  /\ errand' = [errand EXCEPT ![f].at = "unanswered", ![f].todo = {}]
  /\ faults' = faults + 1
  /\ UNCHANGED <<ledger, fence, checking, exec, sweep, head, frozen>>

\* A fence that rose, or was claimed or completed, since is left as it is.
CompleteRevocation(f) ==
  LET a == errand[f].attempt
  IN /\ \/ errand[f].at = "revoke" /\ errand[f].todo = {}
        \/ errand[f].at = "unanswered"
     /\ ~FenceHeld(a)
     /\ fence' = IF fence[a].gen = errand[f].gen /\ fence[a].rev = errand[f].expect
                 THEN [fence EXCEPT ![a].rev =
                         IF errand[f].at = "revoke" THEN "SUCCEEDED" ELSE "UNKNOWN"]
                 ELSE fence
     /\ errand' = [errand EXCEPT ![f] = NoErrand]
     /\ UNCHANGED <<ledger, checking, exec, sweep, broker, faults>>

\* A fence that did not commit is rolled back.
CrashErrand(f) ==
  /\ errand[f] # NoErrand /\ faults < MaxFaults
  /\ faults' = faults + 1 /\ errand' = [errand EXCEPT ![f] = NoErrand]
  /\ UNCHANGED <<ledger, fence, checking, exec, sweep, broker>>
-----------------------------------------------------------------------------
Authorize(r) == AuthorizeLocked(r) \/ AuthorizeCheck(r) \/ AuthorizeInsert(r)

Execute(r) ==
  \/ Consume(r) \/ BlockExpired(r)
  \/ PushLands(r) \/ PushUnanswered(r) \/ PushRefused(r)
  \/ JudgePush(r) \/ FinishPush(r) \/ ConfirmInflight(r)
  \/ RecordFenced(r) \/ FreezeBranch(r) \/ CrashExecution(r)

Reconcile(w) ==
  \/ \E r \in Requests : Claim(w, r)
  \/ Observe(w) \/ JudgeSeen(w) \/ FinishReconciliation(w)
  \/ RecordDrift(w) \/ FreezeDrift(w) \/ CrashReconciler(w)

Withdraw(f) ==
  \/ ListGrants(f) \/ CompleteRevocation(f) \/ CrashErrand(f)
  \/ \E b \in Branches : Revoke(f, b) \/ RevokeUnanswered(f, b)

Next ==
  \/ \E r \in Requests : Authorize(r) \/ Execute(r)
  \/ \E w \in Reconcilers : Reconcile(w)
  \/ \E f \in Fencers : CommitFence(f) \/ \E a \in Attempts, g \in Generations : OpenFence(f, a, g)
  \/ \E f \in Revokers, a \in Attempts : ClaimRevocation(f, a)
  \/ \E f \in Callers : Withdraw(f)
  \/ \E b \in Branches, c \in Commits : PushElsewhere(b, c)

Spec == Init /\ [][Next]_vars
-----------------------------------------------------------------------------
\* The fact told of a push is what became of it, and a confirmed push was seen
\* at the commit it asked for: the executor and a reconciler that claimed the
\* row meanwhile may both hold an answer, and only the last to claim settles it
\* (agent_delivery.py:441-478, agent_delivery_reconciliation.py:111-134).
FactsAreTrue ==
  \A r \in Requests :
    /\ fact[r] = "CONFIRMED" <=> push[r].state = "SUCCEEDED"
    /\ fact[r] # "NONE" => push[r].seen = Terms[r].to
    /\ fact[r] = "FENCED" => push[r].state = "FENCED"

\* Once a fence covers a push nothing works on it any more, whoever claimed it
\* and however often the fence was called.  One kind of push escapes: its
\* authorisation found no fence row, so it holds no lock (attempt_fence), and its
\* insert committed while a fence that covers it, the attempt's first or a later
\* one, had listed the open pushes and not committed.  Such a push may be confirmed
\* under the fence (agent_delivery_sqlalchemy.py:150-154, 223-235, 275-281).
FenceShuts ==
  \A r \in Requests \ slipped : Covered(r) => push[r].state \notin Working

\* The broker writes the commit of a push to its branch, with or without an answer.
Reaches(r) ==
  /\ exec[r] = "push"
  /\ \/ exec'[r] = "landed"
     \/ exec'[r] = "unanswered" /\ head' # head

\* After the broker was told, and the ledger says SUCCEEDED, no push the fence
\* listed reaches a branch, answered or not, though its execution may still be
\* under way.  A push that slipped past the list was not listed to the broker
\* either: nothing bars it, and it may land after SUCCEEDED
\* (agent_delivery_reconciliation.py:319-368, 486-503).
RevokedNeverLands ==
  [][\A r \in Requests \ slipped :
       Reaches(r) => ~(Covered(r) /\ fence[AttemptOf[r]].rev = "SUCCEEDED")]_vars

\* What the ledger promises the rest of the system.
Contract == INSTANCE PushContract WITH
  GenerationOf <- GenOf,
  phase <- [r \in Requests |-> IF push[r].state \in Working THEN "WORKING" ELSE push[r].state],
  told <- fact,
  fenced <- [a \in Attempts |-> fence[a].gen],
  withdrawn <- {a \in Attempts : fence[a].rev = "SUCCEEDED"}

\* Executor, reconcilers and fencers together keep the contract of PushContract.
ImplementsPushContract == Contract!Spec

\* A fence, and each revoker, gets its turn: a lock is queued for, a sweep comes again.
Fairness ==
  /\ \A f \in Fencers : WF_vars(CommitFence(f))
  /\ \A f \in Revokers, a \in Attempts : SF_vars(ClaimRevocation(f, a))
  /\ \A f \in Callers : WF_vars(ListGrants(f)) /\ SF_vars(CompleteRevocation(f))
  /\ \A f \in Callers, b \in Branches : WF_vars(Revoke(f, b))

FairSpec == Spec /\ Fairness

\* Whatever crashes and goes without an answer, the grants of every fenced
\* attempt are revoked in the end (reconcile_agent_revocations).
RevocationSettles ==
  \A a \in Attempts : []<>(fence[a].rev \in {"NONE", "SUCCEEDED"})
=============================================================================
