------------------------------ MODULE Sandbox ------------------------------
(***************************************************************************)
(* The Sandbox Controller (modules/agent_run): commands of concurrent      *)
(* callers drive the materialization of an execution through provisioning, *)
(* preview, release, finalization, cancellation and reconciliation.        *)
(*                                                                         *)
(* A call of the controller is a sequence of short database transactions   *)
(* with calls of the external runtime between them.  Each transaction and  *)
(* each runtime call is one action here; a crash, the lapse of the         *)
(* command's owner and the steps of every other call fall between any two. *)
(***************************************************************************)
EXTENDS Naturals, FiniteSets

CONSTANTS
  Executions,      \* execution ids
  MaxGeneration,   \* bound on the generations of one execution
  Commands,        \* command receipts: (actor, operation, idempotency key)
  Op,              \* the operation of each command
  Target,          \* the execution a provision, cancel or reconcile names
  Calls,           \* owner ids: one per controller call in flight
  Policies,        \* admission snapshots the AdmissionPolicyPort may return
  MaxFaults,       \* bound on crashes, runtime failures and overrun owners
  NoCall, NoMat, NoPolicy

Operations == {"provision", "preview", "handoff", "release", "finalize",
               "cancel", "timeout", "reconcile"}

ASSUME MaxGenerationAssumption == MaxGeneration \in Nat \ {0}
ASSUME OpAssumption == Op \in [Commands -> Operations]
ASSUME TargetAssumption == Target \in [Commands -> Executions]
ASSUME PoliciesAssumption ==
  \A p \in Policies : /\ p.enabled \in BOOLEAN
                      /\ p.limit \in Nat
                      /\ p.units \in Nat
ASSUME MaxFaultsAssumption == MaxFaults \in Nat
ASSUME SentinelAssumption == NoCall \notin Calls /\ NoPolicy \notin Policies

(***************************************************************************)
(* A materialization is known by its execution and generation.             *)
(***************************************************************************)
Mats == Executions \X (1..MaxGeneration)

ASSUME NoMatAssumption == NoMat \notin Mats

Transitional == {"RELEASING", "FINALIZING", "CANCELING"}
Cleaning     == Transitional \cup {"QUARANTINED"}
Active       == {"PROVISIONING", "READY"} \cup Cleaning
Terminal     == {"RELEASED", "FINALIZED", "CANCELED", "TIMED_OUT", "FAILED"}

RuntimeSteps == {"evidence", "fence", "revoke"}
Steps        == RuntimeSteps \cup {"release", "destroy"}

\* The step whose completion each cleanup step requires.
Prior(k) == CASE k = "evidence" -> {}
              [] k = "fence"    -> {"evidence"}
              [] k = "revoke"   -> {"fence"}
              [] k = "release"  -> {"revoke"}
              [] k = "destroy"  -> {"release"}

\* The state a cleanup passes through on its way to each terminal state.
TransitionOf(t) == CASE t = "RELEASED"  -> "RELEASING"
                     [] t = "FINALIZED" -> "FINALIZING"
                     [] t = "FAILED"    -> "PROVISIONING"
                     [] OTHER           -> "CANCELING"

\* The terminal state each operation asks for.
TerminalOf(op) == CASE op = "release"   -> "RELEASED"
                    [] op = "finalize"  -> "FINALIZED"
                    [] op = "cancel"    -> "CANCELED"
                    [] op = "provision" -> "FAILED"
                    [] OTHER            -> "TIMED_OUT"

VARIABLES
  mat,       \* sandbox_materialization: state, cleanup target, revision, cleanup stamps
  lease,     \* capacity_lease.state
  gen,       \* runner_generation.state
  expired,   \* whether deadline_at or the lease's expires_at has passed
  ledger,    \* capacity_ledger: policy snapshot and active attempts
  rt,        \* runtime_state, the external runtime's own record
  receipt,   \* command_receipt
  intent,    \* preview_intent.state of each preview command
  call,      \* the controller calls in flight, by owner id
  faults     \* crashes, failures and overruns so far

database == <<mat, lease, gen, ledger, intent>>
vars == <<mat, lease, gen, expired, ledger, rt, receipt, intent, call, faults>>

NoRow == [st |-> "NONE", tgt |-> "NONE", rev |-> 0, done |-> {}]
NoRuntime == [present |-> FALSE, done |-> {}, preview |-> FALSE, previewOp |-> {}]
NoReceipt == [st |-> "NONE", owner |-> NoCall, lapsed |-> FALSE, phase |-> "NONE",
              subject |-> NoMat, guard |-> [m |-> NoMat, rev |-> 0],
              scanned |-> FALSE, left |-> {}, cleaned |-> {}, result |-> "NONE"]
IdleCall == [pc |-> "idle", cmd |-> "NONE", m |-> NoMat, cur |-> NoRow,
             seen |-> [m \in Mats |-> NoRow]]

Phases == {"NONE", "CLAIMED", "RESERVED", "CLEANUP_STARTED", "CLEANUP_QUARANTINED",
           "PREVIEW_INTENT", "COMPLETED"}
Results == {"NONE", "BLOCKED", "PUBLISHED", "DENIED", "RECONCILED"} \cup Active \cup Terminal
Locations == {"idle", "check", "provision", "markReady", "fail", "begin", "publish",
              "markPublished", "deny", "resume", "already", "scan", "pick", "read",
              "next", "act", "commit", "destroy", "finish", "quarantine"}

Rows == [st : {"NONE"} \cup Active \cup Terminal, tgt : {"NONE"} \cup Terminal,
         rev : Nat, done : SUBSET Steps]
RuntimeRows == [present : BOOLEAN, done : SUBSET Steps, preview : BOOLEAN,
                previewOp : SUBSET Commands]
Receipts ==
  [st : {"NONE", "IN_PROGRESS", "COMPLETED"}, owner : Calls \cup {NoCall},
   lapsed : BOOLEAN, phase : Phases, subject : Mats \cup {NoMat},
   guard : [m : Mats \cup {NoMat}, rev : Nat], scanned : BOOLEAN,
   left : SUBSET Mats, cleaned : SUBSET Mats, result : Results]
CallStates == [pc : Locations, cmd : Commands \cup {"NONE"}, m : Mats \cup {NoMat},
               cur : Rows, seen : [Mats -> Rows]]

TypeOK ==
  /\ mat \in [Mats -> Rows]
  /\ lease \in [Mats -> {"NONE", "ACTIVE", "RELEASED"}]
  /\ gen \in [Mats -> {"NONE", "ACTIVE", "FENCED", "RELEASED"}]
  /\ expired \in [Mats -> BOOLEAN]
  /\ ledger \in [policy : Policies \cup {NoPolicy}, attempts : Nat]
  /\ rt \in [Mats -> RuntimeRows]
  /\ receipt \in [Commands -> Receipts]
  /\ intent \in [Commands -> {"NONE", "INTENT", "PUBLISHED"}]
  /\ call \in [Calls -> CallStates]
  /\ faults \in Nat

Init ==
  /\ mat = [m \in Mats |-> NoRow]
  /\ lease = [m \in Mats |-> "NONE"]
  /\ gen = [m \in Mats |-> "NONE"]
  /\ expired = [m \in Mats |-> FALSE]
  /\ ledger = [policy |-> NoPolicy, attempts |-> 0]
  /\ rt = [m \in Mats |-> NoRuntime]
  /\ receipt = [c \in Commands |-> NoReceipt]
  /\ intent = [c \in Commands |-> "NONE"]
  /\ call = [s \in Calls |-> IdleCall]
  /\ faults = 0

-----------------------------------------------------------------------------
(* Command receipts: ownership, takeover and completion.                   *)

Cmd(s) == call[s].cmd
Goto(s, pc) == call' = [call EXCEPT ![s].pc = pc]
Return(s) == call' = [call EXCEPT ![s] = IdleCall]
Begin(s, c, pc, m) ==
  call' = [call EXCEPT ![s] = [IdleCall EXCEPT !.pc = pc, !.cmd = c, !.m = m]]

\* Mutant: the owner is not compared, only that the command is open.
OwnsOpenCommand(s) == receipt[Cmd(s)].st = "IN_PROGRESS"

\* _operation_row: the row is still owned by this call.
Owns(s) == receipt[Cmd(s)].owner = s

\* An owner id is fresh: no other receipt still names it.
Fresh(s, c) ==
  /\ call[s].pc = "idle"
  /\ \A d \in Commands \ {c} : receipt[d].owner # s

Claimed(s) == [NoReceipt EXCEPT !.st = "IN_PROGRESS", !.owner = s, !.phase = "CLAIMED"]

Completed(r, result) ==
  [r EXCEPT !.st = "COMPLETED", !.owner = NoCall, !.lapsed = FALSE,
            !.phase = "COMPLETED", !.result = result]

Complete(c, result) == receipt' = [receipt EXCEPT ![c] = Completed(@, result)]

Advance(c, phase, m) ==
  receipt' = [receipt EXCEPT ![c] = [@ EXCEPT !.phase = phase, !.subject = m]]

\* acquire_command of an expired command: the caller becomes its owner.
TakenOver(s, c) ==
  receipt' = [receipt EXCEPT ![c] = [@ EXCEPT !.owner = s, !.lapsed = FALSE]]

Expired(c) == receipt[c].st = "IN_PROGRESS" /\ receipt[c].lapsed

-----------------------------------------------------------------------------
(* Admission and provisioning.                                             *)

\* max(generation) + 1: the generations of e so far are exactly those below n.
IsNextGeneration(e, n) ==
  \A k \in 1..MaxGeneration : mat[<<e, k>>].st # "NONE" <=> k < n

\* Mutant: a quarantined materialization does not count as active.
HasActiveUnquarantined(e) ==
  \E n \in 1..MaxGeneration : mat[<<e, n>>].st \in {"PROVISIONING", "READY"} \cup Transitional

HasActive(e) == \E n \in 1..MaxGeneration : mat[<<e, n>>].st \in Active

\* ensure_environment_and_capacity: an idle ledger adopts the snapshot, a
\* busy one refuses a snapshot that differs from its own.
SnapshotConflict(p) ==
  ledger.policy \notin {NoPolicy, p} /\ ledger.attempts # 0

\* Mutant: the attempt limit is off by one.
AdmissibleAtLimit(e, p) ==
  ~SnapshotConflict(p) /\ p.enabled /\ ~HasActive(e)
    /\ ledger.attempts <= p.limit /\ ledger.attempts + 1 <= p.units

Admissible(e, p) ==
  /\ ~SnapshotConflict(p)
  /\ p.enabled
  /\ ~HasActive(e)
  /\ ledger.attempts < p.limit
  /\ ledger.attempts + 1 <= p.units

\* The snapshot is adopted even when the request is then refused.
Adopted(p) == IF SnapshotConflict(p) THEN ledger ELSE [ledger EXCEPT !.policy = p]

\* _claim of a new command: reserve the next generation and bind it to the
\* receipt in the same transaction.
Reserve(s, c, p, n) ==
  LET m == <<Target[c], n>> IN
  /\ Fresh(s, c)
  /\ Op[c] = "provision" /\ receipt[c].st = "NONE"
  /\ Admissible(Target[c], p)
  /\ IsNextGeneration(Target[c], n)
  /\ mat' = [mat EXCEPT ![m] = [@ EXCEPT !.st = "PROVISIONING", !.rev = 1]]
  /\ lease' = [lease EXCEPT ![m] = "ACTIVE"]
  /\ gen' = [gen EXCEPT ![m] = "ACTIVE"]
  /\ ledger' = [policy |-> p, attempts |-> ledger.attempts + 1]
  /\ receipt' = [receipt EXCEPT ![c] =
                   [Claimed(s) EXCEPT !.phase = "RESERVED", !.subject = m]]
  /\ Begin(s, c, "check", m)
  /\ UNCHANGED <<expired, rt, intent, faults>>

\* _claim of a new command that admission refuses: the denial is its receipt.
Refuse(s, c, p) ==
  /\ Fresh(s, c)
  /\ Op[c] = "provision" /\ receipt[c].st = "NONE"
  /\ ~Admissible(Target[c], p)
  /\ ledger' = Adopted(p)
  /\ receipt' = [receipt EXCEPT ![c] = Completed(Claimed(s), "BLOCKED")]
  /\ UNCHANGED <<mat, lease, gen, expired, rt, intent, call, faults>>

\* _claim of a command whose owner expired: only a bound reservation that has
\* not completed can be resumed.
RecoverProvision(s, c) ==
  /\ Fresh(s, c)
  /\ Op[c] = "provision" /\ Expired(c)
  /\ receipt[c].subject # NoMat
  /\ receipt[c].phase \in {"RESERVED", "CLEANUP_STARTED", "CLEANUP_QUARANTINED"}
  /\ TakenOver(s, c)
  /\ Begin(s, c, "check", receipt[c].subject)
  /\ UNCHANGED <<database, expired, rt, faults>>

\* provision_materialization reads the record before it calls the runtime.
CheckProvision(s) ==
  /\ call[s].pc = "check"
  /\ Goto(s, IF mat[call[s].m].tgt = "FAILED" THEN "fail" ELSE "provision")
  /\ UNCHANGED <<database, expired, rt, receipt, faults>>

\* The runtime locks the materialization row, accepts only a generation that
\* is still wanted, and answers a repeated request from its own record.
RuntimeAccepts(m) ==
  \/ mat[m].st = "PROVISIONING"
  \/ mat[m].st = "READY" /\ rt[m].present

RuntimeProvision(s) ==
  LET m == call[s].m IN
  /\ call[s].pc = "provision"
  /\ RuntimeAccepts(m)
  /\ rt' = [rt EXCEPT ![m].present = TRUE]
  /\ Goto(s, "markReady")
  /\ UNCHANGED <<database, expired, receipt, faults>>

RuntimeRejects(s) ==
  /\ call[s].pc = "provision"
  /\ ~RuntimeAccepts(call[s].m)
  /\ Goto(s, "fail")
  /\ UNCHANGED <<database, expired, rt, receipt, faults>>

\* The runtime fails before it creates anything, or creates the runner and
\* answers with a readiness that _validate_readiness refuses.
ProvisionFails(s, created) ==
  LET m == call[s].m IN
  /\ call[s].pc = "provision"
  /\ faults < MaxFaults
  /\ created => RuntimeAccepts(m)
  /\ rt' = [rt EXCEPT ![m].present = @ \/ created]
  /\ Goto(s, "fail")
  /\ faults' = faults + 1
  /\ UNCHANGED <<database, expired, receipt>>

\* Mutant: the state is not compared before the transition to READY.
CanMarkReadyAnyState(s) == Owns(s) /\ lease[call[s].m] = "ACTIVE"

\* A row moves to another state; every write of a row advances its revision.
Moved(r, st) == [r EXCEPT !.st = st, !.rev = @ + 1]

\* _complete_ready: the transition and the receipt commit together.
CanMarkReady(s) ==
  LET m == call[s].m IN
  /\ Owns(s)
  /\ mat[m].st = "PROVISIONING" /\ lease[m] = "ACTIVE" /\ gen[m] = "ACTIVE"

CompleteReady(s) ==
  /\ call[s].pc = "markReady"
  /\ CanMarkReady(s)
  /\ mat' = [mat EXCEPT ![call[s].m] = Moved(@, "READY")]
  /\ Complete(Cmd(s), "READY")
  /\ Return(s)
  /\ UNCHANGED <<lease, gen, expired, ledger, rt, intent, faults>>

\* Mutant: the target is recorded but the state is left alone.
OrphanedInPlace(r) == [r EXCEPT !.tgt = "FAILED", !.rev = @ + 1]

\* _complete_failed, first transaction: quarantine what is still provisioning
\* and keep the row that was read.
Orphaned(r) == [r EXCEPT !.st = "QUARANTINED", !.tgt = "FAILED", !.rev = @ + 1]

StartFailed(s) ==
  LET m == call[s].m
      row == IF mat[m].st = "PROVISIONING" THEN Orphaned(mat[m]) ELSE mat[m]
  IN
  /\ call[s].pc = "fail"
  /\ Owns(s)
  /\ mat' = [mat EXCEPT ![m] = row]
  /\ IF mat[m].st = "PROVISIONING" THEN Advance(Cmd(s), "CLEANUP_STARTED", m)
                                   ELSE UNCHANGED receipt
  /\ call' = [call EXCEPT ![s] = [@ EXCEPT !.cur = row,
                     !.pc = IF row.st = "FAILED" THEN "finish" ELSE "read"]]
  /\ UNCHANGED <<lease, gen, expired, ledger, rt, intent, faults>>

-----------------------------------------------------------------------------
(* Commands on an existing materialization.                                *)

\* A caller can hold the handle of every materialization that became READY.
Handles == {m \in Mats : mat[m].st \notin {"NONE", "PROVISIONING"} /\ mat[m].tgt # "FAILED"}

GuardedOps == {"preview", "handoff", "release", "finalize"}

\* _claim_operation of a new command; the guard a caller sends carries the
\* revision it last saw, and is stale by the time a later step compares it.
ClaimGuarded(s, c, m) ==
  /\ Fresh(s, c)
  /\ Op[c] \in GuardedOps /\ receipt[c].st = "NONE"
  /\ m \in Handles /\ m[1] = Target[c]
  /\ receipt' = [receipt EXCEPT ![c] =
                   [Claimed(s) EXCEPT !.guard = [m |-> m, rev |-> mat[m].rev]]]
  /\ Begin(s, c, "begin", m)
  /\ UNCHANGED <<database, expired, rt, faults>>

ClaimByExecution(s, c) ==
  /\ Fresh(s, c)
  /\ Op[c] \in {"cancel", "timeout", "reconcile"} /\ receipt[c].st = "NONE"
  /\ receipt' = [receipt EXCEPT ![c] = Claimed(s)]
  /\ Begin(s, c, IF Op[c] = "reconcile" THEN "scan" ELSE "begin", NoMat)
  /\ UNCHANGED <<database, expired, rt, faults>>

\* _claim_operation of a command whose owner expired: with a subject it goes
\* on from what was persisted, without one it starts over with the same guard.
ResumePoint(c) ==
  IF Op[c] = "reconcile" THEN "scan"
  ELSE IF receipt[c].subject = NoMat THEN "begin"
  ELSE CASE Op[c] = "preview"               -> "publish"
         [] Op[c] \in {"cancel", "timeout"} -> "resume"
         [] OTHER                           -> "read"

TakeOver(s, c) ==
  /\ Fresh(s, c)
  /\ Op[c] # "provision" /\ Expired(c)
  /\ TakenOver(s, c)
  /\ Begin(s, c, ResumePoint(c), IF receipt[c].subject # NoMat THEN receipt[c].subject
                                                         ELSE receipt[c].guard.m)
  /\ UNCHANGED <<database, expired, rt, faults>>

\* Mutant: the revision the caller saw is not compared.
GuardHoldsAnyRevision(m, rev) == lease[m] = "ACTIVE" /\ gen[m] = "ACTIVE"

\* lock_current_guard
GuardHolds(m, rev) == mat[m].rev = rev /\ lease[m] = "ACTIVE" /\ gen[m] = "ACTIVE"

Guarded(s) ==
  LET m == call[s].m IN GuardHolds(m, receipt[Cmd(s)].guard.rev) /\ mat[m].st = "READY"

Closing(r, t) == [r EXCEPT !.st = TransitionOf(t), !.tgt = t, !.rev = @ + 1]

\* _cleanup: begin_cleanup under the caller's guard, or a receipt of denial.
BeginCleanup(s) ==
  LET m == call[s].m  t == TerminalOf(Op[Cmd(s)]) IN
  /\ call[s].pc = "begin" /\ Op[Cmd(s)] \in {"release", "finalize"}
  /\ Owns(s)
  /\ Guarded(s)
  /\ mat' = [mat EXCEPT ![m] = Closing(@, t)]
  /\ Advance(Cmd(s), "CLEANUP_STARTED", m)
  /\ Goto(s, "read")
  /\ UNCHANGED <<lease, gen, expired, ledger, rt, intent, faults>>

\* A stale guard is denied; so are every handoff and a preview whose own
\* expiry has passed, whatever their guard.
Refused(s) ==
  /\ call[s].pc = "begin"
  /\ \/ Op[Cmd(s)] \in {"release", "finalize"} /\ Owns(s) /\ ~Guarded(s)
     \/ Op[Cmd(s)] \in {"preview", "handoff"}
  /\ Goto(s, "deny")
  /\ UNCHANGED <<database, expired, rt, receipt, faults>>

\* _complete_lifecycle_denial, _complete_preview_denial
Deny(s) ==
  /\ call[s].pc = "deny"
  /\ Owns(s)
  /\ Complete(Cmd(s), "DENIED")
  /\ Return(s)
  /\ UNCHANGED <<database, expired, rt, faults>>

\* publish_preview: the intent, the runtime's publication under the stable
\* operation id, and the receipt.
BeginPreview(s) ==
  LET m == call[s].m IN
  /\ call[s].pc = "begin" /\ Op[Cmd(s)] = "preview"
  /\ Guarded(s)
  /\ Owns(s)
  /\ mat' = [mat EXCEPT ![m].rev = @ + 1]
  /\ intent' = [intent EXCEPT ![Cmd(s)] = "INTENT"]
  /\ Advance(Cmd(s), "PREVIEW_INTENT", m)
  /\ Goto(s, "publish")
  /\ UNCHANGED <<lease, gen, expired, ledger, rt, faults>>

\* Mutant: publication does not serialize with fencing.
CanPublishFenced(m, c) == rt[m].present /\ rt[m].previewOp \in {{}, {c}}

CanPublish(m, c) ==
  /\ rt[m].present
  /\ rt[m].done \cap {"fence", "destroy"} = {}
  /\ rt[m].previewOp \in {{}, {c}}

RuntimePublish(s) ==
  LET m == call[s].m IN
  /\ call[s].pc = "publish"
  /\ CanPublish(m, Cmd(s))
  /\ rt' = IF rt[m].previewOp = {}
             THEN [rt EXCEPT ![m] = [@ EXCEPT !.previewOp = {Cmd(s)}, !.preview = TRUE]]
             ELSE rt
  /\ Goto(s, "markPublished")
  /\ UNCHANGED <<database, expired, receipt, faults>>

RuntimeRefusesPreview(s) ==
  /\ call[s].pc = "publish"
  /\ ~CanPublish(call[s].m, Cmd(s))
  /\ Goto(s, "deny")
  /\ UNCHANGED <<database, expired, rt, receipt, faults>>

\* complete_preview_intent
CompletePreview(s) ==
  LET c == Cmd(s) IN
  /\ call[s].pc = "markPublished"
  /\ IF Owns(s) /\ intent[c] = "INTENT" /\ mat[call[s].m].st = "READY"
       THEN /\ intent' = [intent EXCEPT ![c] = "PUBLISHED"]
            /\ Complete(c, "PUBLISHED")
            /\ Return(s)
       ELSE /\ Goto(s, "deny")
            /\ UNCHANGED <<intent, receipt>>
  /\ UNCHANGED <<mat, lease, gen, expired, ledger, rt, faults>>

\* begin_cancel_cleanup: the active materialization of the execution, or its
\* last generation when none is active.
Current(e, m) ==
  /\ m[1] = e /\ mat[m].st # "NONE"
  /\ \A n \in 1..MaxGeneration :
       LET o == <<e, n>> IN
       /\ mat[o].st \in Active => mat[m].st \in Active
       /\ (mat[o].st # "NONE" /\ (mat[o].st \in Active <=> mat[m].st \in Active))
            => n <= m[2]

BeginCancel(s, m) ==
  LET c == Cmd(s) IN
  /\ call[s].pc = "begin" /\ Op[c] \in {"cancel", "timeout"}
  /\ Owns(s)
  /\ Current(Target[c], m)
  /\ mat[m].st \in Terminal \cup {"READY"}
  /\ mat' = IF mat[m].st = "READY"
              THEN [mat EXCEPT ![m] = Closing(@, TerminalOf(Op[c]))] ELSE mat
  /\ Advance(c, "CLEANUP_STARTED", m)
  /\ call' = [call EXCEPT ![s] = [@ EXCEPT !.m = m,
                     !.pc = IF mat[m].st = "READY" THEN "read" ELSE "already"]]
  /\ UNCHANGED <<lease, gen, expired, ledger, rt, intent, faults>>

\* cancel_execution of a bound command reads its subject first.
ResumeCancel(s) ==
  /\ call[s].pc = "resume"
  /\ Goto(s, IF mat[call[s].m].st \in Terminal THEN "already" ELSE "read")
  /\ UNCHANGED <<database, expired, rt, receipt, faults>>

AlreadyTerminal(s) ==
  /\ call[s].pc = "already"
  /\ Owns(s)
  /\ Complete(Cmd(s), mat[call[s].m].st)
  /\ Return(s)
  /\ UNCHANGED <<database, expired, rt, faults>>

-----------------------------------------------------------------------------
(* The common cleanup chain.                                               *)

\* Mutant: the steps are taken in any order.
PendingAnyOrder(row) == {k \in RuntimeSteps : k \notin row.done}

\* The first step a record lacks; the steps are completed in order.
Pending(row) == {k \in Steps : k \notin row.done /\ Prior(k) \subseteq row.done}

\* Mutant: the step is committed without the runtime call before it.
ReadRecordOnly(s) ==
  LET row == mat[call[s].m] IN
  /\ call[s].pc \in {"read", "next"}
  /\ call' = [call EXCEPT ![s] = [@ EXCEPT !.cur = row,
       !.pc = IF row.st \in Terminal THEN "finish"
              ELSE IF "release" \notin row.done THEN "commit" ELSE "destroy"]]
  /\ UNCHANGED <<database, expired, rt, receipt, faults>>

\* _continue_cleanup reads the record on entry, where a terminal record ends
\* the chain, and again after each committed step.
ReadRecord(s) ==
  LET row == mat[call[s].m] IN
  /\ call[s].pc \in {"read", "next"}
  /\ call' = [call EXCEPT ![s] = [@ EXCEPT !.cur = row,
       !.pc = IF call[s].pc = "read" /\ row.st \in Terminal THEN "finish"
              ELSE IF ~(RuntimeSteps \subseteq row.done) THEN "act"
              ELSE IF "release" \notin row.done THEN "commit" ELSE "destroy"]]
  /\ UNCHANGED <<database, expired, rt, receipt, faults>>

\* The runtime repeats no step and refuses one whose predecessor is missing.
RuntimePrior(k) == IF k = "destroy" THEN {"revoke"} ELSE Prior(k)

RuntimeAllows(m, k) ==
  rt[m].present => k \in rt[m].done \/ RuntimePrior(k) \subseteq rt[m].done

Taken(r, k) == [r EXCEPT !.done = @ \cup {k},
                         !.preview = @ /\ k \notin {"fence", "destroy"}]

AfterRuntime(m, k) == IF rt[m].present THEN [rt EXCEPT ![m] = Taken(@, k)] ELSE rt

\* observe, then persist_evidence, fence or revoke_secret when it is PRESENT.
RuntimeStep(s, k) ==
  LET m == call[s].m IN
  /\ call[s].pc = "act"
  /\ k \in Pending(call[s].cur)
  /\ RuntimeAllows(m, k)
  /\ rt' = AfterRuntime(m, k)
  /\ Goto(s, "commit")
  /\ UNCHANGED <<database, expired, receipt, faults>>

\* observe and destroy; the record's own destroyed_at comes with completion.
RuntimeDestroy(s) ==
  LET m == call[s].m IN
  /\ call[s].pc = "destroy"
  /\ RuntimeAllows(m, "destroy")
  /\ rt' = AfterRuntime(m, "destroy")
  /\ Goto(s, "finish")
  /\ UNCHANGED <<database, expired, receipt, faults>>

\* A failed step or an UNKNOWN observation.
CleanupFails(s) ==
  /\ call[s].pc \in {"act", "destroy"}
  /\ faults < MaxFaults
  /\ Goto(s, "quarantine")
  /\ faults' = faults + 1
  /\ UNCHANGED <<database, expired, rt, receipt>>

\* mark_evidence_persisted, mark_fenced, mark_secret_revoked, release_capacity:
\* a compare-and-swap on the revision that was read.
CanCommit(s, k) ==
  LET m == call[s].m  row == mat[m] IN
  /\ Owns(s)
  /\ row.rev = call[s].cur.rev
  /\ k \notin row.done /\ Prior(k) \subseteq row.done
  /\ k \in {"evidence", "fence"} => row.st \in Cleaning
  /\ k = "evidence" => row.tgt # "NONE"
  /\ k = "fence" => gen[m] = "ACTIVE"
  /\ k = "release" => lease[m] = "ACTIVE" /\ ledger.attempts >= 1

Stamped(r, k) == [r EXCEPT !.done = @ \cup {k}, !.rev = @ + 1]

CommitStep(s, k) ==
  LET m == call[s].m IN
  /\ call[s].pc = "commit"
  /\ k \in Pending(call[s].cur)
  /\ CanCommit(s, k)
  /\ mat' = [mat EXCEPT ![m] = Stamped(@, k)]
  /\ gen' = [gen EXCEPT ![m] = CASE k = "fence" -> "FENCED"
                                 [] k = "release" /\ @ = "FENCED" -> "RELEASED"
                                 [] OTHER -> @]
  /\ lease' = IF k = "release" THEN [lease EXCEPT ![m] = "RELEASED"] ELSE lease
  /\ ledger' = IF k = "release" THEN [ledger EXCEPT !.attempts = @ - 1] ELSE ledger
  /\ Goto(s, "next")
  /\ UNCHANGED <<expired, rt, receipt, intent, faults>>

\* complete_cleanup of m to t by a caller that read row.
CanComplete(m, t, row) ==
  /\ mat[m].st \in {TransitionOf(t), "QUARANTINED"}
  /\ mat[m].tgt = t
  /\ mat[m].rev = row.rev
  /\ "release" \in mat[m].done /\ "destroy" \notin mat[m].done

Finished(m, t) == mat' = [mat EXCEPT ![m] = [Stamped(@, "destroy") EXCEPT !.st = t]]

\* Mutant: a released lease is taken for a finished cleanup.
SettledOnceReleased(s) == "release" \in call[s].cur.done

\* The provision path trusts the state it read before; the lifecycle paths
\* read it again in the transaction.
SettledFor(s) ==
  IF Op[Cmd(s)] = "provision" THEN call[s].cur.st = "FAILED"
                              ELSE mat[call[s].m].st = TerminalOf(Op[Cmd(s)])

CanFinish(s) ==
  /\ Owns(s)
  /\ SettledFor(s) \/ CanComplete(call[s].m, TerminalOf(Op[Cmd(s)]), call[s].cur)

\* _complete_failed, last transaction, and _complete_lifecycle_cleanup.
FinishCommand(s) ==
  LET t == TerminalOf(Op[Cmd(s)]) IN
  /\ call[s].pc = "finish" /\ Op[Cmd(s)] # "reconcile"
  /\ CanFinish(s)
  /\ IF SettledFor(s) THEN UNCHANGED mat ELSE Finished(call[s].m, t)
  /\ Complete(Cmd(s), t)
  /\ Return(s)
  /\ UNCHANGED <<lease, gen, expired, ledger, rt, intent, faults>>

\* _quarantine_lifecycle leaves the receipt open for a later owner; the
\* reconciler records the item and goes on.
CanQuarantine(s) == Owns(s) /\ mat[call[s].m].st \in Cleaning /\ mat[call[s].m].tgt # "NONE"

Quarantine(s) ==
  LET m == call[s].m IN
  /\ call[s].pc = "quarantine"
  /\ CanQuarantine(s)
  /\ mat' = [mat EXCEPT ![m] = Moved(@, "QUARANTINED")]
  /\ IF Op[Cmd(s)] = "reconcile"
       THEN /\ receipt' = [receipt EXCEPT ![Cmd(s)].left = @ \ {m}]
            /\ Goto(s, "pick")
       ELSE /\ Advance(Cmd(s), "CLEANUP_QUARANTINED", m)
            /\ Return(s)
  /\ UNCHANGED <<lease, gen, expired, ledger, rt, intent, faults>>

-----------------------------------------------------------------------------
(* Reconciliation of an environment.                                       *)

\* Mutants: quarantined cleanups, or orphaned reservations, are not candidates.
CandidatesUnquarantined ==
  {m \in Mats : mat[m].st \in Transitional \/ (mat[m].st = "READY" /\ expired[m])}
CandidatesReserved ==
  {m \in Mats : mat[m].st \in Cleaning \/ (mat[m].st = "READY" /\ expired[m])}

\* cleanup_candidates, with observed_at the controller's clock: interrupted
\* cleanups, reservations whose command has expired, and expired leases.
Candidates ==
  {m \in Mats :
     \/ mat[m].st \in Cleaning
     \/ /\ mat[m].st = "PROVISIONING"
        /\ \E c \in Commands : /\ Op[c] = "provision" /\ Expired(c)
                               /\ receipt[c].subject = m
     \/ mat[m].st = "READY" /\ expired[m]}

\* The first owner records the candidates; a later one re-reads those that
\* have no item yet.
Scan(s) ==
  LET c == Cmd(s)
      found == IF receipt[c].scanned THEN receipt[c].left ELSE Candidates
  IN
  /\ call[s].pc = "scan"
  /\ Owns(s)
  /\ receipt' = [receipt EXCEPT ![c] = [@ EXCEPT !.scanned = TRUE, !.left = found]]
  /\ call' = [call EXCEPT ![s] = [@ EXCEPT !.pc = "pick",
             !.seen = [m \in Mats |-> IF m \in found THEN mat[m] ELSE NoRow]]]
  /\ UNCHANGED <<database, expired, rt, faults>>

\* The candidates a reconciling call has not come to, as it read them.
Waiting(s) == {m \in Mats : call[s].seen[m].st # "NONE"}

\* What the reconciler does to a candidate depends on the state it was read
\* in, not on why it became a candidate.
CanPick(s, m) ==
  LET row == call[s].seen[m] IN
  /\ row.st = "PROVISIONING" => Owns(s) /\ mat[m].st = "PROVISIONING"
  /\ row.st = "READY" => Owns(s) /\ mat[m].st = "READY" /\ GuardHolds(m, row.rev)

Opened(m, st) ==
  CASE st = "PROVISIONING" -> [mat EXCEPT ![m] = Orphaned(@)]
    [] st = "READY"        -> [mat EXCEPT ![m] = Closing(@, "TIMED_OUT")]
    [] OTHER               -> mat

PickCandidate(s, m) ==
  /\ call[s].pc = "pick"
  /\ m \in Waiting(s)
  /\ CanPick(s, m)
  /\ mat' = Opened(m, call[s].seen[m].st)
  /\ call' = [call EXCEPT ![s] = [@ EXCEPT !.pc = "read", !.m = m, !.seen[m] = NoRow]]
  /\ UNCHANGED <<lease, gen, expired, ledger, rt, receipt, intent, faults>>

\* A candidate found terminal on entry keeps its row; otherwise the state the
\* chain last read decides whether complete_cleanup runs.
CanFinishItem(s) ==
  LET cur == call[s].cur IN
  Owns(s) /\ (cur.st = cur.tgt \/ CanComplete(call[s].m, cur.tgt, cur))

ItemDone(r, m) == [r EXCEPT !.left = @ \ {m}, !.cleaned = @ \cup {m}]

FinishItem(s) ==
  LET m == call[s].m  cur == call[s].cur IN
  /\ call[s].pc = "finish" /\ Op[Cmd(s)] = "reconcile"
  /\ CanFinishItem(s)
  /\ IF cur.st = cur.tgt THEN UNCHANGED mat ELSE Finished(m, cur.tgt)
  /\ receipt' = [receipt EXCEPT ![Cmd(s)] = ItemDone(@, m)]
  /\ Goto(s, "pick")
  /\ UNCHANGED <<lease, gen, expired, ledger, rt, intent, faults>>

Report(s) ==
  /\ call[s].pc = "pick"
  /\ Waiting(s) = {}
  /\ Owns(s)
  /\ Complete(Cmd(s), "RECONCILED")
  /\ Return(s)
  /\ UNCHANGED <<database, expired, rt, faults>>

-----------------------------------------------------------------------------
(* Errors, crashes and the passage of time.                                *)

\* Whether the transaction a call is about to run goes through.
Proceeds(s) ==
  LET pc == call[s].pc  c == Cmd(s) IN
  CASE pc \in {"fail", "deny", "already", "scan"} -> Owns(s)
    [] pc = "markReady"  -> CanMarkReady(s)
    [] pc = "begin"      -> /\ Owns(s)
                            /\ Op[c] \in {"cancel", "timeout"} =>
                                 \E m \in Mats : /\ Current(Target[c], m)
                                                 /\ mat[m].st \in Terminal \cup {"READY"}
    [] pc = "commit"     -> \A k \in Pending(call[s].cur) : CanCommit(s, k)
    [] pc = "finish"     -> IF Op[c] = "reconcile" THEN CanFinishItem(s) ELSE CanFinish(s)
    [] pc = "quarantine" -> CanQuarantine(s)
    [] pc = "pick"       -> IF Waiting(s) = {}
                              THEN Owns(s) ELSE \A m \in Waiting(s) : CanPick(s, m)
    [] OTHER             -> TRUE

\* The transaction rolls back and the exception leaves the call: the receipt
\* stays in progress under this owner until it expires.
Raise(s) ==
  /\ call[s].pc # "idle"
  /\ ~Proceeds(s)
  /\ Return(s)
  /\ UNCHANGED <<database, expired, rt, receipt, faults>>

Crash(s) ==
  /\ call[s].pc # "idle"
  /\ faults < MaxFaults
  /\ Return(s)
  /\ faults' = faults + 1
  /\ UNCHANGED <<database, expired, rt, receipt>>

Abandoned(c) == receipt[c].owner \in Calls => Cmd(receipt[c].owner) # c

\* The owner's time to live passes: free when its call is gone (an owner id
\* nobody holds any more is forgotten), a fault when the call is merely slow.
Lapse(c) ==
  /\ receipt[c].st = "IN_PROGRESS" /\ receipt[c].owner # NoCall
  /\ Abandoned(c)
  /\ receipt' = [receipt EXCEPT ![c] = [@ EXCEPT !.lapsed = TRUE, !.owner = NoCall]]
  /\ UNCHANGED <<database, expired, rt, call, faults>>

Overrun(c) ==
  /\ receipt[c].st = "IN_PROGRESS" /\ ~receipt[c].lapsed
  /\ ~Abandoned(c)
  /\ faults < MaxFaults
  /\ receipt' = [receipt EXCEPT ![c].lapsed = TRUE]
  /\ faults' = faults + 1
  /\ UNCHANGED <<database, expired, rt, call>>

Expire(m) ==
  /\ mat[m].st # "NONE" /\ ~expired[m]
  /\ expired' = [expired EXCEPT ![m] = TRUE]
  /\ UNCHANGED <<database, rt, receipt, call, faults>>

\* Reconciliation is called again and again, each time under a new key.
NewKey(c) ==
  /\ Op[c] = "reconcile" /\ receipt[c].st = "COMPLETED"
  /\ receipt' = [receipt EXCEPT ![c] = NoReceipt]
  /\ UNCHANGED <<database, expired, rt, call, faults>>

-----------------------------------------------------------------------------
Claim(s, c) ==
  \/ \E p \in Policies : Refuse(s, c, p) \/ \E n \in 1..MaxGeneration : Reserve(s, c, p, n)
  \/ RecoverProvision(s, c)
  \/ \E m \in Mats : ClaimGuarded(s, c, m)
  \/ ClaimByExecution(s, c)
  \/ TakeOver(s, c)

ProvisionStep(s) ==
  \/ CheckProvision(s) \/ RuntimeProvision(s) \/ RuntimeRejects(s)
  \/ CompleteReady(s) \/ StartFailed(s)

GuardedStep(s) ==
  \/ BeginCleanup(s) \/ Refused(s) \/ Deny(s)
  \/ BeginPreview(s) \/ RuntimePublish(s) \/ RuntimeRefusesPreview(s) \/ CompletePreview(s)

CancelStep(s) ==
  \/ \E m \in Mats : BeginCancel(s, m)
  \/ ResumeCancel(s) \/ AlreadyTerminal(s)

CleanupStep(s) ==
  \/ ReadRecord(s) \/ RuntimeDestroy(s) \/ FinishCommand(s) \/ Quarantine(s)
  \/ \E k \in Steps : RuntimeStep(s, k) \/ CommitStep(s, k)

ReconcileStep(s) ==
  \/ Scan(s) \/ FinishItem(s) \/ Report(s)
  \/ \E m \in Mats : PickCandidate(s, m)

\* A call at work: what it does next when nothing goes wrong outside.
Run(s) ==
  \/ ProvisionStep(s) \/ GuardedStep(s) \/ CancelStep(s)
  \/ CleanupStep(s) \/ ReconcileStep(s) \/ Raise(s)

Fault(s) ==
  \/ \E created \in BOOLEAN : ProvisionFails(s, created)
  \/ CleanupFails(s) \/ Crash(s)

Time ==
  \/ \E c \in Commands : Lapse(c) \/ Overrun(c) \/ NewKey(c)
  \/ \E m \in Mats : Expire(m)

Next ==
  \/ \E s \in Calls : Run(s) \/ Fault(s) \/ \E c \in Commands : Claim(s, c)
  \/ Time

Spec == Init /\ [][Next]_vars

-----------------------------------------------------------------------------
(* Safety.                                                                 *)

\* The ledger counts exactly the leases nobody has released, and stays within
\* the policy snapshot it was admitted under, however admissions, releases,
\* policy changes and takeovers interleave (reserve_materialization,
\* release_capacity, ensure_environment_and_capacity).
CapacityConserved ==
  /\ ledger.attempts = Cardinality({m \in Mats : lease[m] = "ACTIVE"})
  /\ ledger.policy # NoPolicy =>
       ledger.attempts <= ledger.policy.limit /\ ledger.attempts <= ledger.policy.units

\* A generation exists only after every earlier one of its execution is
\* terminal, fenced and without a lease (uq_agent_run_active_materialization,
\* uq_agent_run_active_lease_execution).
OneCurrentGeneration ==
  \A m, n \in Mats :
    (m[1] = n[1] /\ m[2] < n[2] /\ mat[n].st # "NONE") =>
       /\ mat[m].st \in Terminal
       /\ lease[m] = "RELEASED" /\ gen[m] = "RELEASED"

\* The database never claims a cleanup step the runtime has not taken, and the
\* runtime never runs ahead of the step before: the two records interlock even
\* when a crash or a stale caller separates the call from its commit.
RecordsInterlock ==
  \A m \in Mats : rt[m].present =>
    /\ mat[m].done \cap RuntimeSteps \subseteq rt[m].done
    /\ "destroy" \in mat[m].done => "destroy" \in rt[m].done
    /\ \A k \in rt[m].done : Prior(k) \subseteq mat[m].done

\* READY is only said of a runner that exists, that no cleanup has touched
\* and whose lease and generation are current (_complete_ready).
ReadyIsServed ==
  \A m \in Mats : mat[m].st = "READY" =>
    /\ rt[m].present /\ rt[m].done = {} /\ mat[m].done = {}
    /\ lease[m] = "ACTIVE" /\ gen[m] = "ACTIVE"

\* Preview access ends with the fence: it is never reachable once the record
\* says fenced, and a denied preview is not served by a ready runner.
PreviewFenced ==
  \A m \in Mats : rt[m].preview =>
    /\ gen[m] = "ACTIVE" /\ "fence" \notin mat[m].done
    /\ \A c \in rt[m].previewOp : receipt[c].result = "DENIED" => mat[m].st # "READY"

\* A reservation that is still provisioning can always be resumed: its
\* command is open, bound to it and in a phase _claim recovers from.
ReservationRecoverable ==
  \A m \in Mats : mat[m].st = "PROVISIONING" =>
    \E c \in Commands :
      /\ Op[c] = "provision" /\ receipt[c].subject = m
      /\ receipt[c].st = "IN_PROGRESS" /\ receipt[c].phase = "RESERVED"

\* What a completed receipt says is true of its subject when it is replayed.
ReceiptsAreTrue ==
  \A c \in Commands :
    LET r == receipt[c] IN
    /\ r.result \in Terminal => mat[r.subject].st = r.result
    /\ r.result = "READY" => mat[r.subject].st \notin {"NONE", "PROVISIONING", "FAILED"}
    /\ r.result = "PUBLISHED" => intent[c] = "PUBLISHED" /\ rt[r.subject].previewOp = {c}
    /\ \A m \in r.cleaned : mat[m].st \in Terminal

\* A command whose guard was let through: it has its subject.
Spent(c) == Op[c] \in GuardedOps /\ receipt[c].subject # NoMat

\* What a caller saw of a materialization authorises one command: of two that
\* were sent with the same revision, whoever runs or resumes them, the second
\* finds its guard stale (lock_current_guard under begin_cleanup and
\* begin_preview_intent, which advance the revision).
GuardSpentOnce ==
  \A c, d \in Commands :
    Spent(c) /\ Spent(d) /\ c # d => receipt[c].guard # receipt[d].guard

\* The runtime's own order check never fires, whoever resumes the chain.
RuntimeNeverRefuses ==
  \A s \in Calls :
    /\ call[s].pc = "act" => \A k \in Pending(call[s].cur) : RuntimeAllows(call[s].m, k)
    /\ call[s].pc = "destroy" => RuntimeAllows(call[s].m, "destroy")

\* A call whose command was taken over changes no row of the database: each of
\* its transactions checks the owner it started with (_operation_row).
StaleOwnerWritesNothing ==
  [][\A s \in Calls :
       (call[s].pc # "idle" /\ call'[s] # call[s] /\ receipt[Cmd(s)].owner # s)
         => UNCHANGED <<database, receipt>>]_vars

\* The outcome chosen when a cleanup begins is the outcome it ends with: a
\* cleanup is never redirected, undone, or repeated on a terminal row.
IntentIsFinal ==
  [][\A m \in Mats :
       /\ mat[m].tgt # "NONE" => mat'[m].tgt = mat[m].tgt
       /\ mat[m].st \in Cleaning => mat'[m].st \in {mat[m].st, "QUARANTINED", mat[m].tgt}
       /\ mat[m].st \in Terminal => mat'[m] = mat[m]
       /\ mat[m].done \subseteq mat'[m].done]_vars

\* Reconciliation times out a ready materialization only when its lease or
\* its deadline has passed.
TimedOutOnlyWhenExpired ==
  [][\A m \in Mats : \A s \in Calls :
       (/\ call[s].pc = "pick" /\ call'[s].pc = "read" /\ call'[s].m = m
        /\ mat[m].st = "READY" /\ mat'[m].tgt = "TIMED_OUT") => expired[m]]_vars

-----------------------------------------------------------------------------
(* Liveness.                                                               *)

\* A call at work keeps running, an abandoned owner's time to live passes, and
\* the environment is reconciled again and again.  Nothing is assumed of other
\* retries, of new requests, of expiry or of faults.
Fairness ==
  /\ \A s \in Calls : WF_vars(Run(s))
  /\ \A c \in Commands : WF_vars(Lapse(c)) /\ WF_vars(NewKey(c))
  /\ \A c \in Commands : Op[c] = "reconcile" => SF_vars(\E s \in Calls : Claim(s, c))

FairSpec == Spec /\ Fairness

\* Every cleanup that began reaches its terminal state and gives its capacity
\* back, across crashes, runtime failures and takeovers.
CleanupConverges ==
  \A m \in Mats : mat[m].st \in Cleaning ~> mat[m].st \in Terminal

\* A reservation never lingers: it becomes READY or is cleaned up, even when
\* its caller dies between the reservation and the runtime's answer.
ReservationResolves ==
  \A m \in Mats : mat[m].st = "PROVISIONING" ~> mat[m].st \in Terminal \cup {"READY"}

-----------------------------------------------------------------------------
(* The contract the controller implements.                                 *)

PhaseOf(st) == CASE st = "NONE"         -> "free"
                 [] st = "PROVISIONING" -> "starting"
                 [] st = "READY"        -> "serving"
                 [] st \in Cleaning     -> "closing"
                 [] st \in Terminal     -> "closed"

RunnerOf(r) == CASE ~r.present                            -> "absent"
                 [] r.present /\ "destroy" \in r.done     -> "gone"
                 [] r.present /\ "destroy" \notin r.done /\ "fence" \in r.done -> "fenced"
                 [] OTHER                                 -> "running"

Contract == INSTANCE SandboxContract WITH
  phase   <- [m \in Mats |-> PhaseOf(mat[m].st)],
  outcome <- [m \in Mats |-> mat[m].tgt],
  held    <- {m \in Mats : lease[m] = "ACTIVE"},
  runner  <- [m \in Mats |-> RunnerOf(rt[m])]

\* Every step of every call is one step of the contract or invisible to it.
ImplementsContract == Contract!Spec

=============================================================================
