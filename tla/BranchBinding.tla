---------------------------- MODULE BranchBinding ----------------------------
(***************************************************************************)
(* The branch saga of source_control: a binding request of the requirement *)
(* module becomes one GitLab branch, one Repository Branch Binding and one *)
(* answer to the work item.                                                *)
(*                                                                         *)
(* The rows of one work item: every query of the saga is keyed by it, and  *)
(* its effect and its binding are unique, so that work items do not meet.  *)
(* Workers run the three commands of tools/source_control_worker.py; an    *)
(* action is one database transaction, one call of the requirement module  *)
(* (its own transaction) or one HTTP request to GitLab.                    *)
(***************************************************************************)
EXTENDS Naturals

CONSTANTS
  Workers,     \* worker processes
  Messages,    \* binding requests the requirement module may send
  Commits,     \* commits the default branch may stand at
  Refusals,    \* what the checks before an external write may answer
  MaxFaults,   \* bound on crashes, overruns and failures of other systems
  MaxEdits,    \* bound on other commands on the work item, and on pushes
  NoCommit, NoMessage

\* Reasons that forbid a write for good: the owner, the registry, GitLab's 401
\* and 403. The others leave the reconciler in doubt.
Standing == {"OWNER_INELIGIBLE", "REPOSITORY_NOT_AUTHORIZED", "ACCESS_DENIED"}
OwnerBlocks == {"OWNER_UNASSIGNED", "OWNER_INELIGIBLE"}
Reasons == Standing \cup OwnerBlocks \cup
  {"REPOSITORY_NOT_FOUND", "CONNECTOR_UNAVAILABLE", "BINDING_CONFLICT",
   "RECONCILIATION_PENDING"}

ASSUME RefusalsAssumption ==
  Refusals \subseteq Standing \cup {"REPOSITORY_NOT_FOUND", "CONNECTOR_UNAVAILABLE"}
ASSUME NoneAssumption == NoCommit \notin Commits /\ NoMessage \notin Messages
ASSUME BoundsAssumption == MaxFaults \in Nat /\ MaxEdits \in Nat

VARIABLES
  inbox,    \* binding_request_inbox, by message
  effect,   \* the source_control_effect row of the work item
  binding,  \* the base commit of its repository_branch_binding row
  item,     \* what requirement.work_item says of the repository
  answers,  \* requirement.idempotency_record of the two callbacks
  branch,   \* the commit the task branch stands at in GitLab
  transit,  \* a create request that timed out may still reach GitLab
  call,     \* the locals of each worker
  faults, edits

records == <<inbox, effect, binding>>
work == <<item, answers>>
gitlab == <<branch, transit>>
vars == <<records, work, gitlab, call, faults, edits>>

InboxStates ==
  {"ABSENT", "SENT", "RECEIVED", "PROCESSING", "LAPSED", "PROCESSED"}
Unsettled == {"IN_FLIGHT", "UNKNOWN", "RECONCILIATION"}
Final == {"SUCCEEDED", "BLOCKED"}
EffectStates == {"NONE", "PLANNED"} \cup Unsettled \cup Final
Errors == Reasons \cup {"NONE", "EXTERNAL_RESULT_UNKNOWN"}
Effects == [state : EffectStates, base : Commits \cup {NoCommit}, tries : Nat,
            why : Errors, told : {"PENDING", "ACKED", "FAILED"}, due : BOOLEAN]
Items == [state : {"WAITING", "BLOCKED", "BOUND"}, why : Reasons \cup {"NONE"},
          sha : Commits \cup {NoCommit}, rev : Nat, owned : BOOLEAN]

\* Idempotency keys: of a message and a reason, of the effect and its outcome.
Keys == (Messages \cup {NoMessage}) \X (Errors \cup {"READY"})
Answers == [key : Keys, rev : Nat]

Locations ==
  {"idle", "context", "binding", "effect", "seen", "check", "refuse", "refused",
   "plan", "start", "observe", "post", "readback", "settle", "tell", "ack", "nack"}
Jobs == {"none", "request", "reconcile", "replay"}
Outcomes == Errors \cup {"VERIFIED"}
CallRows == [at : Locations, job : Jobs, msg : Messages \cup {NoMessage},
             rev : Nat, owned : BOOLEAN, bound : BOOLEAN,
             base : Commits \cup {NoCommit},
             state : EffectStates, tries : Nat, why : Outcomes]

IdleCall == [at |-> "idle", job |-> "none", msg |-> NoMessage, rev |-> 0,
             owned |-> FALSE, bound |-> FALSE, base |-> NoCommit,
             state |-> "NONE", tries |-> 0, why |-> "NONE"]

TypeOK ==
  /\ inbox \in [Messages -> InboxStates]
  /\ effect \in Effects
  /\ binding \in Commits \cup {NoCommit}
  /\ item \in Items
  /\ answers \subseteq Answers
  /\ branch \in Commits \cup {NoCommit}
  /\ transit \in BOOLEAN
  /\ call \in [Workers -> CallRows]
  /\ faults \in Nat /\ edits \in Nat

\* A work item is created with its first request in the outbox.
Init ==
  /\ \E m \in Messages :
       inbox = [n \in Messages |-> IF n = m THEN "SENT" ELSE "ABSENT"]
  /\ effect = [state |-> "NONE", base |-> NoCommit, tries |-> 0, why |-> "NONE",
               told |-> "PENDING", due |-> FALSE]
  /\ binding = NoCommit
  /\ \E owned \in BOOLEAN :
       item = [state |-> "WAITING", why |-> "NONE", sha |-> NoCommit, rev |-> 1,
               owned |-> owned]
  /\ answers = {}
  /\ branch = NoCommit /\ transit = FALSE
  /\ call = [w \in Workers |-> IdleCall]
  /\ faults = 0 /\ edits = 0

Fault == faults < MaxFaults /\ faults' = faults + 1

Goto(w, at) == call' = [call EXCEPT ![w].at = at]
Leave(w) == call' = [call EXCEPT ![w] = IdleCall]
Moves(w, c) == call' = [call EXCEPT ![w] = c]

\* The row a transaction of call w returned.
Holding(c, row) == [c EXCEPT !.state = row.state, !.tries = row.tries]

Processed(m) == inbox' = [inbox EXCEPT ![m] = "PROCESSED"]
-----------------------------------------------------------------------------
(* Taking a request, and what is read before the checks.                   *)

\* accept_binding_request is idempotent: a redelivery changes nothing.
Relay(m) ==
  /\ inbox[m] = "SENT"
  /\ inbox' = [inbox EXCEPT ![m] = "RECEIVED"]
  /\ UNCHANGED <<effect, binding, work, gitlab, call, faults, edits>>

TakeRequest(w, m) ==
  /\ call[w].at = "idle" /\ inbox[m] \in {"RECEIVED", "LAPSED"}
  /\ inbox' = [inbox EXCEPT ![m] = "PROCESSING"]
  /\ Moves(w, [IdleCall EXCEPT !.at = "context", !.job = "request", !.msg = m])
  /\ UNCHANGED <<effect, binding, work, gitlab, faults, edits>>

ReadContext(w) ==
  /\ call[w].at = "context"
  /\ Moves(w, [call[w] EXCEPT
       !.at = IF call[w].job = "reconcile" THEN "observe" ELSE "binding",
       !.rev = item.rev, !.owned = item.owned])
  /\ UNCHANGED <<records, work, gitlab, faults, edits>>

ReadBinding(w) ==
  /\ call[w].at = "binding"
  /\ Moves(w, [call[w] EXCEPT
       !.at = IF call[w].job = "replay" THEN "tell" ELSE "effect",
       !.bound = binding # NoCommit])
  /\ UNCHANGED <<records, work, gitlab, faults, edits>>

\* Mutant: a planned effect counts as under way.
ReadEffectPlanned(w) ==
  /\ call[w].at = "effect"
  /\ Moves(w, [Holding(call[w], effect) EXCEPT
       !.at = IF effect.state = "NONE" THEN "check" ELSE "seen"])
  /\ UNCHANGED <<records, work, gitlab, faults, edits>>

ReadEffect(w) ==
  /\ call[w].at = "effect"
  /\ Moves(w, [Holding(call[w], effect) EXCEPT
       !.at = IF effect.state \in {"NONE", "PLANNED"} THEN "check" ELSE "seen"])
  /\ UNCHANGED <<records, work, gitlab, faults, edits>>

\* The request needs no effect of its own; with a binding its answer is replayed.
\* Without one the checks go on with nothing left to start.
Seen(w) ==
  /\ call[w].at = "seen"
  /\ Processed(call[w].msg)
  /\ Moves(w, [call[w] EXCEPT !.at = IF call[w].bound THEN "tell" ELSE "check",
                              !.state = IF call[w].bound THEN "SUCCEEDED" ELSE "NONE"])
  /\ UNCHANGED <<effect, binding, work, gitlab, faults, edits>>

\* Owner, registry, project and default branch, in this order.
Check(w) ==
  /\ call[w].at = "check"
  /\ \/ /\ ~call[w].owned
        /\ Moves(w, [call[w] EXCEPT !.at = "refuse", !.why = "OWNER_UNASSIGNED",
                                    !.state = "NONE"])
     \/ /\ call[w].owned
        /\ \E reason \in Refusals :
             Moves(w, [call[w] EXCEPT !.at = "refuse", !.why = reason, !.state = "NONE"])
     \/ /\ call[w].owned
        /\ \E base \in Commits :
             Moves(w, [call[w] EXCEPT !.at = "plan", !.base = base])
  /\ UNCHANGED <<records, work, gitlab, faults, edits>>

Refused(w) ==
  /\ call[w].at = "refused"
  /\ Processed(call[w].msg)
  /\ Leave(w)
  /\ UNCHANGED <<effect, binding, work, gitlab, faults, edits>>
-----------------------------------------------------------------------------
(* The external write: planned, in flight, sent, read back, settled.       *)

\* Mutant: the request is sent before the attempt is committed.
PlanAndPost(w) ==
  /\ call[w].at = "plan"
  /\ effect' = IF effect.state # "NONE" THEN effect
               ELSE [effect EXCEPT !.state = "PLANNED", !.base = call[w].base]
  /\ IF effect'.state = "PLANNED"
     THEN Moves(w, [Holding(call[w], effect') EXCEPT !.at = "post"])
     ELSE Leave(w)
  /\ UNCHANGED <<inbox, binding, work, gitlab, faults, edits>>

\* Mutant: a planned effect is planned again at the commit just read.
PlanAgain(w) ==
  /\ call[w].at = "plan"
  /\ effect' = IF effect.state \notin {"NONE", "PLANNED"} THEN effect
               ELSE [effect EXCEPT !.state = "PLANNED", !.base = call[w].base]
  /\ IF effect'.state = "PLANNED"
     THEN Moves(w, [Holding(call[w], effect') EXCEPT !.at = "start", !.base = NoCommit])
     ELSE Leave(w)
  /\ UNCHANGED <<inbox, binding, work, gitlab, faults, edits>>

\* One effect per work item: a second planner gets the first one's row.
Plan(w) ==
  /\ call[w].at = "plan"
  /\ effect' = IF effect.state # "NONE" THEN effect
               ELSE [effect EXCEPT !.state = "PLANNED", !.base = call[w].base]
  /\ IF effect'.state = "PLANNED"
     THEN Moves(w, [Holding(call[w], effect') EXCEPT !.at = "start", !.base = NoCommit])
     ELSE Leave(w)
  /\ UNCHANGED <<inbox, binding, work, gitlab, faults, edits>>

Start(w) ==
  /\ call[w].at = "start"
  /\ IF effect.state = "PLANNED"
     THEN /\ effect' = [effect EXCEPT !.state = "IN_FLIGHT", !.due = FALSE,
                                      !.tries = call[w].tries + 1]
          /\ Moves(w, [Holding(call[w], effect') EXCEPT !.at = "post"])
     ELSE /\ Leave(w)
          /\ UNCHANGED effect
  /\ UNCHANGED <<inbox, binding, work, gitlab, faults, edits>>

\* GitLab creates the branch at the commit it is given, unless it is there.
Arrive == branch' = IF branch = NoCommit THEN effect.base ELSE branch

Settling(w, outcome) ==
  Moves(w, [call[w] EXCEPT !.at = "settle", !.why = outcome])

\* POST .../branches with the planned commit; 201 and 409 say the same.
Post(w) ==
  /\ call[w].at = "post"
  /\ \/ /\ Arrive /\ Goto(w, "readback") /\ UNCHANGED <<transit, faults>>
     \/ /\ Settling(w, "ACCESS_DENIED") /\ UNCHANGED <<gitlab, faults>>
     \/ /\ Fault /\ transit' = TRUE /\ Goto(w, "readback") /\ UNCHANGED branch
     \/ /\ Fault
        /\ Settling(w, IF call[w].job = "reconcile" THEN "EXTERNAL_RESULT_UNKNOWN"
                       ELSE "CONNECTOR_UNAVAILABLE")
        /\ UNCHANGED gitlab
  /\ UNCHANGED <<records, work, edits>>

Late ==
  /\ transit /\ Arrive /\ transit' = FALSE
  /\ UNCHANGED <<records, work, call, faults, edits>>

\* What a read of the task branch proves.
Proof == IF branch = effect.base THEN "VERIFIED" ELSE "BINDING_CONFLICT"

\* Mutant: the create call's answer is taken for the read.
ReadBackTrusting(w) ==
  /\ call[w].at = "readback"
  /\ Settling(w, IF branch = NoCommit THEN "VERIFIED" ELSE Proof)
  /\ UNCHANGED <<records, work, gitlab, faults, edits>>

ReadBack(w) ==
  /\ call[w].at = "readback"
  /\ \/ /\ branch # NoCommit /\ Settling(w, Proof) /\ UNCHANGED faults
     \/ /\ branch = NoCommit /\ Settling(w, "EXTERNAL_RESULT_UNKNOWN") /\ UNCHANGED faults
     \/ /\ Fault /\ Settling(w, "EXTERNAL_RESULT_UNKNOWN")
  /\ UNCHANGED <<records, work, gitlab, edits>>

\* transition_effect with expected_attempts: the attempt this call holds is
\* still the last one.
Current(w) == effect.state = call[w].state /\ effect.tries = call[w].tries

\* Mutant: the acknowledgement of the doubt stands for the outcome.
OutcomeToldAlready(w, state, why) ==
  [effect EXCEPT !.state = state, !.why = why, !.due = FALSE]

\* A reconciled outcome has to be told again, whatever was told before.
Outcome(w, state, why) ==
  [effect EXCEPT !.state = state, !.why = why, !.due = FALSE,
     !.told = IF call[w].job = "reconcile" THEN "PENDING" ELSE @]

Telling(w) == Moves(w, [Holding(call[w], effect') EXCEPT !.at = "tell"])

Answer(w) == IF call[w].job = "request" THEN Processed(call[w].msg) ELSE UNCHANGED inbox

Superseded(w) ==
  /\ call[w].at = "settle" /\ ~Current(w)
  /\ Leave(w)
  /\ UNCHANGED <<records, work, gitlab, faults, edits>>

Succeed(w) ==
  /\ call[w].at = "settle" /\ Current(w) /\ call[w].why = "VERIFIED"
  /\ effect' = Outcome(w, "SUCCEEDED", "NONE")
  /\ binding' = effect.base
  /\ Answer(w) /\ Telling(w)
  /\ UNCHANGED <<work, gitlab, faults, edits>>

Block(w) ==
  /\ call[w].at = "settle" /\ Current(w) /\ call[w].why \in Reasons
  /\ effect' = Outcome(w, "BLOCKED", call[w].why)
  /\ Answer(w) /\ Telling(w)
  /\ UNCHANGED <<binding, work, gitlab, faults, edits>>

\* Only the saga tells the work item that the outcome is pending.
Doubt(w) ==
  /\ call[w].at = "settle" /\ Current(w) /\ call[w].why = "EXTERNAL_RESULT_UNKNOWN"
  /\ effect' = [effect EXCEPT !.state = "UNKNOWN", !.why = call[w].why, !.due = FALSE]
  /\ Answer(w)
  /\ IF call[w].job = "request" THEN Telling(w) ELSE Leave(w)
  /\ UNCHANGED <<binding, work, gitlab, faults, edits>>
-----------------------------------------------------------------------------
(* Reconciliation.                                                         *)

\* Mutant: attempts left in flight are not reconciled.
TakeUnknown(w) ==
  /\ call[w].at = "idle" /\ effect.state = "UNKNOWN" /\ effect.due
  /\ effect' = [effect EXCEPT !.state = "RECONCILIATION", !.tries = @ + 1, !.due = FALSE]
  /\ Moves(w, [Holding(IdleCall, effect') EXCEPT !.at = "context", !.job = "reconcile"])
  /\ UNCHANGED <<inbox, binding, work, gitlab, faults, edits>>

TakeEffect(w) ==
  /\ call[w].at = "idle" /\ effect.state \in Unsettled /\ effect.due
  /\ effect' = [effect EXCEPT !.state = "RECONCILIATION", !.tries = @ + 1, !.due = FALSE]
  /\ Moves(w, [Holding(IdleCall, effect') EXCEPT !.at = "context", !.job = "reconcile"])
  /\ UNCHANGED <<inbox, binding, work, gitlab, faults, edits>>

\* The same checks again, then a read of the task branch.
Observe(w) ==
  /\ call[w].at = "observe"
  /\ \/ /\ ~call[w].owned /\ Settling(w, "OWNER_UNASSIGNED") /\ UNCHANGED faults
     \/ /\ call[w].owned
        /\ \E reason \in Refusals \cap Standing : Settling(w, reason)
        /\ UNCHANGED faults
     \/ /\ call[w].owned /\ branch # NoCommit /\ Settling(w, Proof) /\ UNCHANGED faults
     \/ /\ call[w].owned /\ branch = NoCommit /\ Goto(w, "post") /\ UNCHANGED faults
     \/ /\ call[w].owned /\ Fault /\ Settling(w, "EXTERNAL_RESULT_UNKNOWN")
  /\ UNCHANGED <<records, work, gitlab, edits>>

Replay(w) ==
  /\ call[w].at = "idle" /\ effect.state \in Final /\ effect.told # "ACKED"
  /\ Moves(w, [Holding(IdleCall, effect) EXCEPT
       !.at = "context", !.job = "replay", !.why = effect.why])
  /\ UNCHANGED <<records, work, gitlab, faults, edits>>
-----------------------------------------------------------------------------
(* Telling the work item: one command of the requirement module.           *)

Key(c) == IF c.at = "refuse" THEN <<c.msg, c.why>>
          ELSE <<NoMessage, IF c.state = "SUCCEEDED" THEN "READY" ELSE c.why>>

\* What the work item is to say.
Word(c) ==
  IF c.at = "tell" /\ c.state = "SUCCEEDED"
  THEN [state |-> "BOUND", why |-> "NONE", sha |-> binding]
  ELSE [state |-> "BLOCKED", sha |-> NoCommit,
        why |-> IF c.why = "EXTERNAL_RESULT_UNKNOWN" THEN "RECONCILIATION_PENDING"
                ELSE c.why]

Used(key) == \E a \in answers : a.key = key
Says(word) == item.state = word.state /\ item.why = word.why /\ item.sha = word.sha

\* A used key is bound to the request it was used for, expected revision and
\* all; a fresh one to an unbound work item at that revision.
Accepts(key, rev, word) ==
  IF Used(key) THEN [key |-> key, rev |-> rev] \in answers
  ELSE Says(word) \/ (item.state # "BOUND" /\ item.rev = rev)

Record(key, rev, word) ==
  /\ answers' = answers \cup {[key |-> key, rev |-> rev]}
  /\ item' = IF Used(key) \/ Says(word) THEN item
             ELSE [item EXCEPT !.state = word.state, !.why = word.why,
                               !.sha = word.sha, !.rev = @ + 1]

\* record_ready or record_blocked returned; it raised; its answer was lost.
Tell(w) ==
  /\ call[w].at \in {"refuse", "tell"}
  /\ LET key == Key(call[w])  word == Word(call[w])
         accepted == Accepts(key, call[w].rev, word)
         done == Record(key, call[w].rev, word)
         failed == IF call[w].at = "tell" THEN Goto(w, "nack") ELSE Leave(w)
     IN \/ /\ accepted /\ done
           /\ Goto(w, IF call[w].at = "tell" THEN "ack" ELSE "refused")
           /\ UNCHANGED faults
        \/ /\ ~accepted /\ failed /\ UNCHANGED <<work, faults>>
        \/ /\ Fault /\ accepted /\ done /\ failed
        \/ /\ Fault /\ failed /\ UNCHANGED work
  /\ UNCHANGED <<records, gitlab, edits>>

\* _set_callback_state: nothing is set on an effect that has moved.
Mark(w) ==
  /\ call[w].at \in {"ack", "nack"}
  /\ effect' = IF effect.state # call[w].state THEN effect
               ELSE [effect EXCEPT
                      !.told = IF call[w].at = "ack" THEN "ACKED" ELSE "FAILED"]
  /\ Leave(w)
  /\ UNCHANGED <<inbox, binding, work, gitlab, faults, edits>>
-----------------------------------------------------------------------------
(* Faults, time, and what others do.                                       *)

\* A worker dies, or a call of another system raises and unwinds it.
Crash(w) ==
  /\ call[w].at # "idle" /\ Fault
  /\ Leave(w)
  /\ UNCHANGED <<records, work, gitlab, edits>>

\* A lease passes: for free once its holder is gone, else as a fault.
Expires(held) == IF held THEN Fault ELSE UNCHANGED faults

LapseInbox(m) ==
  /\ inbox[m] = "PROCESSING"
  /\ Expires(\E w \in Workers : call[w].msg = m)
  /\ inbox' = [inbox EXCEPT ![m] = "LAPSED"]
  /\ UNCHANGED <<effect, binding, work, gitlab, call, edits>>

\* The time of the next attempt, which a push webhook brings forward for an
\* effect in doubt.
FallDue ==
  /\ effect.state \in Unsettled /\ ~effect.due
  /\ Expires(effect.state # "UNKNOWN" /\ \E w \in Workers : Current(w))
  /\ effect' = [effect EXCEPT !.due = TRUE]
  /\ UNCHANGED <<inbox, binding, work, gitlab, call, edits>>

Edit == edits < MaxEdits /\ edits' = edits + 1

\* assign_work_item: an unassigned or owner-blocked item asks again.
Assign ==
  /\ Edit
  /\ LET blocked == item.state = "BLOCKED" /\ item.why \in OwnerBlocks IN
     /\ item' = [item EXCEPT !.owned = TRUE, !.rev = @ + 1,
                   !.state = IF blocked THEN "WAITING" ELSE @,
                   !.why = IF blocked THEN "NONE" ELSE @]
     /\ IF item.state # "BOUND" /\ (~item.owned \/ blocked)
        THEN \E m \in Messages :
               inbox[m] = "ABSENT" /\ inbox' = [inbox EXCEPT ![m] = "SENT"]
        ELSE UNCHANGED inbox
  /\ UNCHANGED <<effect, binding, answers, gitlab, call, faults>>

\* A developer pushes to the task branch.
Push ==
  /\ Edit
  /\ branch # NoCommit
  /\ branch' \in Commits \ {branch}
  /\ UNCHANGED <<records, work, transit, call, faults>>

Work(w) ==
  \/ ReadContext(w) \/ ReadBinding(w) \/ ReadEffect(w) \/ Seen(w) \/ Check(w)
  \/ Refused(w) \/ Plan(w) \/ Start(w) \/ Post(w) \/ ReadBack(w)
  \/ Superseded(w) \/ Succeed(w) \/ Block(w) \/ Doubt(w)
  \/ Observe(w) \/ Tell(w) \/ Mark(w)

Next ==
  \/ \E w \in Workers :
       \/ Work(w) \/ TakeEffect(w) \/ Replay(w) \/ Crash(w)
       \/ \E m \in Messages : TakeRequest(w, m)
  \/ \E m \in Messages : Relay(m) \/ LapseInbox(m)
  \/ Late \/ FallDue \/ Assign \/ Push

Spec == Init /\ [][Next]_vars

\* A live worker goes on; leases pass; the three commands are run again and
\* again, so that a reconciliation finds a free worker some time.
Fairness ==
  /\ \A w \in Workers : WF_vars(Work(w))
  /\ \A m \in Messages : WF_vars(Relay(m)) /\ WF_vars(LapseInbox(m))
  /\ WF_vars(FallDue)
  /\ SF_vars(\E w \in Workers : TakeEffect(w))
  /\ SF_vars(\E w \in Workers : Replay(w))
  /\ \A m \in Messages : SF_vars(\E w \in Workers : TakeRequest(w, m))

FairSpec == Spec /\ Fairness
-----------------------------------------------------------------------------
(* Safety.                                                                 *)

\* A binding is the planned commit of a succeeded effect whose branch GitLab
\* holds: no timeout, crash or late request leaves a binding without a branch,
\* and no two workers conclude differently (saga.py:612-640).
BindingIsProved ==
  /\ binding # NoCommit <=> effect.state = "SUCCEEDED"
  /\ binding # NoCommit => binding = effect.base /\ branch # NoCommit

\* The work item is bound only to what source_control has proved, never while
\* the effect is blocked or in doubt (commands.py:523-552 of requirement).
BoundAgrees ==
  item.state = "BOUND" => item.sha = binding /\ effect.state = "SUCCEEDED"

\* An acknowledged success is one the work item shows, and an acknowledgement
\* of the doubt before it does not stand for it (reconciliation.py:136).
AckedIsTrue ==
  effect.told = "ACKED" /\ effect.state = "SUCCEEDED" => item.state = "BOUND"

\* A request leaves the inbox only when an effect is under way or its refusal
\* has reached the work item: a crash between the two loses neither
\* (saga.py:186-198).
NoRequestDropped ==
  \A m \in Messages : inbox[m] = "PROCESSED" =>
    \/ effect.state \notin {"NONE", "PLANNED"}
    \/ \E a \in answers : a.key[1] = m

\* Nothing reaches GitLab that was not committed as in flight before, and the
\* branch is created at the commit the effect names (saga.py:487-526).
NothingUnrecorded ==
  [][branch = NoCommit /\ branch' # NoCommit
       => effect.state \in Unsettled \cup Final /\ branch' = effect.base]_vars

\* An outcome, once written, stands: late workers, replays and reconciliations
\* change neither it nor the binding (adapters/sqlalchemy.py:292-346).
OutcomeIsFinal ==
  [][effect.state \in Final => effect'.state = effect.state /\ binding' = binding]_vars

\* A bound work item stays bound to the same commit whatever is told late
\* (commands.py:530-533 and 642-643 of requirement).
BoundStaysBound ==
  [][item.state = "BOUND" => item'.state = "BOUND" /\ item'.sha = item.sha]_vars
-----------------------------------------------------------------------------
(* Liveness, and what the documents promise of the callback.               *)

\* Once a request may have reached GitLab its effect gets an outcome
\* (adapters/sqlalchemy.py:323-346).
EffectResolves == effect.state \in Unsettled ~> effect.state \in Final

\* "Requirement callbacks converge in their own transaction under a stable
\* idempotency key": an outcome is acknowledged in the end.
CallbackConverges == effect.state \in Final ~> effect.told = "ACKED"
-----------------------------------------------------------------------------
(* Refinement.                                                             *)

verdict == IF effect.state \in Final THEN effect.state ELSE "OPEN"

Contract == INSTANCE BranchContract WITH
  plan <- effect.base, created <- branch # NoCommit, verdict <- verdict,
  shown <- item.state

\* The saga, its reconciler and the work item together do what BranchContract
\* says (saga.py:325-663, reconciliation.py:261-459).
ImplementsBranchContract == Contract!Spec
=============================================================================
