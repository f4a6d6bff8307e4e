--------------------------- MODULE SandboxTyping ---------------------------
(***************************************************************************)
(* Type correctness of the Sandbox Controller, for any executions,         *)
(* commands, calls and policies and any number of faults.  TypeOK is not   *)
(* inductive: a step reads the command and the materialization of its call *)
(* and a takeover reads the guard of its receipt, so the invariant also    *)
(* says when those are there.                                              *)
(***************************************************************************)
EXTENDS Sandbox, TLAPS

\* A call works for a command, and on a materialization once it has one.
CallsBound ==
  \A s \in Calls : call[s].pc # "idle" =>
    /\ call[s].cmd \in Commands
    /\ \/ call[s].m \in Mats
       \/ call[s].pc \in {"scan", "pick"}
       \/ call[s].pc = "begin" /\ Op[call[s].cmd] \in {"cancel", "timeout"}

\* A receipt with an owner is open, and the guard of a guarded command names a
\* materialization.
GuardsBound ==
  \A c \in Commands :
    /\ receipt[c].owner \in Calls => receipt[c].st = "IN_PROGRESS"
    /\ receipt[c].st # "NONE" /\ Op[c] \in GuardedOps => receipt[c].guard.m \in Mats

CallsTyped    == call \in [Calls -> CallStates] /\ CallsBound
ReceiptsTyped == receipt \in [Commands -> Receipts] /\ GuardsBound

DatabaseTyped ==
  /\ mat \in [Mats -> Rows]
  /\ lease \in [Mats -> {"NONE", "ACTIVE", "RELEASED"}]
  /\ gen \in [Mats -> {"NONE", "ACTIVE", "FENCED", "RELEASED"}]
  /\ ledger \in [policy : Policies \cup {NoPolicy}, attempts : Nat]
  /\ intent \in [Commands -> {"NONE", "INTENT", "PUBLISHED"}]

OutsideTyped ==
  /\ expired \in [Mats -> BOOLEAN]
  /\ rt \in [Mats -> RuntimeRows]
  /\ faults \in Nat

Typed == DatabaseTyped /\ OutsideTyped /\ ReceiptsTyped /\ CallsTyped

-----------------------------------------------------------------------------
(* The building blocks of the actions keep the types.                      *)

\* Each of the records the model starts from has its type.
LEMMA NoRowType == NoRow \in Rows
  BY DEF NoRow, Rows

\* A command nobody has claimed has the type of a receipt.
LEMMA NoReceiptType == NoReceipt \in Receipts
  BY DEF NoReceipt, Receipts, Phases, Results

\* A call that has not begun has the type of a call.
LEMMA IdleCallType == IdleCall \in CallStates
  BY NoRowType DEF IdleCall, CallStates, Locations

States   == {"NONE"} \cup Active \cup Terminal
Outcomes == {"NONE"} \cup Terminal

\* The edits the transactions make to a row leave it a row.
LEMMA NextRevision == ASSUME NEW r \in Rows PROVE r.rev + 1 \in Nat
  BY DEF Rows

\* A row moved to another state is a row (mark_materialization_ready, quarantine_cleanup).
LEMMA MovedType ==
  ASSUME NEW r \in Rows, NEW st \in States PROVE Moved(r, st) \in Rows
  BY NextRevision DEF Rows, States, Moved

\* A row closed by a command or as an orphan is a row (begin_cleanup, begin_provision_cleanup).
LEMMA ClosedType ==
  ASSUME NEW r \in Rows, NEW t \in Terminal
  PROVE  Orphaned(r) \in Rows /\ Closing(r, t) \in Rows
<1>1. "QUARANTINED" \in States /\ TransitionOf(t) \in States
  BY DEF States, Active, Cleaning, Transitional, TransitionOf
<1>2. "FAILED" \in Outcomes /\ t \in Outcomes
  BY DEF Outcomes, Terminal
<1> QED
  BY <1>1, <1>2, NextRevision DEF Rows, States, Outcomes, Orphaned, Closing

\* A row stamped with a step, or finished, is a row (release_capacity, complete_cleanup).
LEMMA StampedType ==
  ASSUME NEW r \in Rows, NEW k \in Steps, NEW t \in Terminal
  PROVE  Stamped(r, k) \in Rows /\ [Stamped(r, k) EXCEPT !.st = t] \in Rows
<1>1. Stamped(r, k) \in Rows
  BY NextRevision DEF Rows, Stamped
<1> QED
  BY <1>1 DEF Rows

\* What a transaction writes back is a row.
LEMMA RowUpdate ==
  ASSUME DatabaseTyped, NEW m \in Mats, NEW r \in Rows, mat' = [mat EXCEPT ![m] = r]
  PROVE  mat' \in [Mats -> Rows]
  BY DEF DatabaseTyped

\* What a call that is past its claim knows.
LEMMA Working ==
  ASSUME Typed, NEW s \in Calls, call[s].pc # "idle"
  PROVE  /\ call[s] \in CallStates
         /\ Cmd(s) \in Commands
         /\ receipt[Cmd(s)] \in Receipts
         /\ Op[Cmd(s)] \in Operations
         /\ call[s].pc \notin {"scan", "pick", "begin"} => call[s].m \in Mats
         /\ call[s].pc = "begin" /\ Op[Cmd(s)] \notin {"cancel", "timeout"}
              => call[s].m \in Mats
         /\ call[s].m \in Mats => mat[call[s].m] \in Rows
  BY OpAssumption DEF Typed, DatabaseTyped, CallsTyped, CallsBound, ReceiptsTyped, Cmd

\* Moving on, returning and beginning keep the calls typed.
LEMMA GotoTyped ==
  ASSUME Typed, NEW s \in Calls, NEW pc \in Locations, call[s].pc # "idle",
         call[s].m \in Mats \/ pc = "pick", Goto(s, pc)
  PROVE  CallsTyped'
<1>1. call' \in [Calls -> CallStates]
  BY DEF Typed, CallsTyped, CallStates, Goto
<1>2. CallsBound'
  BY DEF Typed, CallsTyped, CallsBound, CallStates, Goto
<1> QED
  BY <1>1, <1>2 DEF CallsTyped

\* A call that returns or dies leaves the calls typed.
LEMMA ReturnTyped ==
  ASSUME Typed, NEW s \in Calls, Return(s)
  PROVE  CallsTyped'
<1>1. call' \in [Calls -> CallStates]
  BY IdleCallType DEF Typed, CallsTyped, Return
<1>2. CallsBound'
  BY DEF Typed, CallsTyped, CallsBound, Return, IdleCall
<1> QED
  BY <1>1, <1>2 DEF CallsTyped

\* So does any edit that keeps the call its command and its materialization.
LEMMA CallUpdate ==
  ASSUME Typed, NEW s \in Calls, NEW k \in CallStates, k.cmd \in Commands,
         k.m \in Mats \/ k.pc = "pick", call' = [call EXCEPT ![s] = k]
  PROVE  CallsTyped'
  BY DEF Typed, CallsTyped, CallsBound

\* So does a claim that gives the call a materialization, or leaves it to be found.
LEMMA BeginTyped ==
  ASSUME Typed, NEW s \in Calls, NEW c \in Commands, NEW pc \in Locations,
         NEW m \in Mats \cup {NoMat}, Begin(s, c, pc, m),
         \/ m \in Mats
         \/ pc = "scan"
         \/ pc = "begin" /\ Op[c] \in {"cancel", "timeout"}
  PROVE  CallsTyped'
<1>1. call' \in [Calls -> CallStates]
  BY IdleCallType DEF Typed, CallsTyped, CallStates, Begin
<1>2. CallsBound'
  BY DEF Typed, CallsTyped, CallsBound, CallStates, Begin, IdleCall
<1> QED
  BY <1>1, <1>2 DEF CallsTyped

\* Claiming, advancing, completing and taking over keep the receipts typed.
LEMMA ReceiptUpdate ==
  ASSUME Typed, NEW c \in Commands, NEW r \in Receipts, receipt' = [receipt EXCEPT ![c] = r],
         r.owner \in Calls => r.st = "IN_PROGRESS",
         r.st # "NONE" /\ Op[c] \in GuardedOps => r.guard.m \in Mats
  PROVE  ReceiptsTyped'
  BY DEF Typed, ReceiptsTyped, GuardsBound

\* Advancing a command keeps its guard and its owner (advance_command).
LEMMA AdvanceTyped ==
  ASSUME Typed, NEW c \in Commands, NEW phase \in Phases, NEW m \in Mats,
         Advance(c, phase, m)
  PROVE  ReceiptsTyped'
<1> DEFINE r == [receipt[c] EXCEPT !.phase = phase, !.subject = m]
<1>1. receipt[c] \in Receipts
  BY DEF Typed, ReceiptsTyped
<1>2. /\ r \in Receipts /\ r.guard = receipt[c].guard
      /\ r.owner = receipt[c].owner /\ r.st = receipt[c].st
  BY <1>1 DEF Receipts
<1>3. /\ receipt[c].owner \in Calls => receipt[c].st = "IN_PROGRESS"
      /\ receipt[c].st # "NONE" /\ Op[c] \in GuardedOps => receipt[c].guard.m \in Mats
  BY DEF Typed, ReceiptsTyped, GuardsBound
<1> QED
  BY <1>2, <1>3, ReceiptUpdate DEF Advance

\* Taking an expired command over keeps its guard (acquire_command).
LEMMA TakenOverTyped ==
  ASSUME Typed, NEW s \in Calls, NEW c \in Commands, Expired(c), TakenOver(s, c)
  PROVE  ReceiptsTyped'
<1> DEFINE r == [receipt[c] EXCEPT !.owner = s, !.lapsed = FALSE]
<1>1. receipt[c] \in Receipts
  BY DEF Typed, ReceiptsTyped
<1>2. r \in Receipts /\ r.guard = receipt[c].guard /\ r.st = receipt[c].st
  BY <1>1 DEF Receipts
<1>3. Op[c] \in GuardedOps => receipt[c].guard.m \in Mats
  BY DEF Typed, ReceiptsTyped, GuardsBound, Expired
<1> QED
  BY <1>2, <1>3, ReceiptUpdate DEF TakenOver, Expired

\* A completed receipt has no owner and the guard it had (complete_idempotency).
LEMMA CompletedTyped ==
  ASSUME NEW r \in Receipts, NEW result \in Results
  PROVE  /\ Completed(r, result) \in Receipts
         /\ Completed(r, result).guard = r.guard
         /\ Completed(r, result).owner = NoCall
  BY DEF Receipts, Completed, Phases

\* Only the owner of a command completes it.
LEMMA CompleteTyped ==
  ASSUME Typed, NEW s \in Calls, NEW result \in Results,
         Cmd(s) \in Commands, Owns(s), Complete(Cmd(s), result)
  PROVE  ReceiptsTyped'
<1> DEFINE c == Cmd(s)
<1>1. receipt[c] \in Receipts
  BY DEF Typed, ReceiptsTyped
<1>2. Op[c] \in GuardedOps => receipt[c].guard.m \in Mats
  BY DEF Typed, ReceiptsTyped, GuardsBound, Owns
<1> QED
  BY <1>1, <1>2, CompletedTyped, ReceiptUpdate, SentinelAssumption DEF Complete

-----------------------------------------------------------------------------
\* The initial state is typed.
LEMMA InitTyped == Init => Typed
<1> SUFFICES ASSUME Init PROVE Typed
  OBVIOUS
<1>1. NoRuntime \in RuntimeRows
  BY DEF NoRuntime, RuntimeRows
<1>2. DatabaseTyped /\ OutsideTyped
  BY <1>1, NoRowType DEF Init, DatabaseTyped, OutsideTyped
<1>3. ReceiptsTyped /\ CallsTyped
  BY NoReceiptType, IdleCallType, SentinelAssumption
  DEF Init, ReceiptsTyped, CallsTyped, CallsBound, GuardsBound, IdleCall, NoReceipt
<1> QED
  BY <1>2, <1>3 DEF Typed

-----------------------------------------------------------------------------
(* Every action keeps the types.                                           *)

\* What a step leaves alone stays typed.
LEMMA SameReceipts == Typed /\ UNCHANGED receipt => ReceiptsTyped'
  BY DEF Typed, ReceiptsTyped, GuardsBound

\* A step that leaves the five tables alone keeps them typed.
LEMMA SameDatabase == Typed /\ UNCHANGED database => DatabaseTyped'
  BY DEF Typed, DatabaseTyped, database

\* A step that leaves the clocks and the runtime alone keeps them typed.
LEMMA SameOutside == Typed /\ UNCHANGED <<expired, rt>> /\ faults' \in Nat => OutsideTyped'
  BY DEF Typed, OutsideTyped

\* The fault counter stays a number.
LEMMA FaultCount == Typed => faults \in Nat /\ faults + 1 \in Nat
  BY DEF Typed, OutsideTyped

\* A transaction that writes one row.
LEMMA RowWrite ==
  ASSUME Typed, NEW m \in Mats, NEW r \in Rows, mat' = [mat EXCEPT ![m] = r],
         UNCHANGED <<lease, gen, ledger, intent>>
  PROVE  DatabaseTyped'
  BY DEF Typed, DatabaseTyped

\* Admission writes a typed row, lease, generation, ledger and receipt (_claim).
LEMMA ReserveTyped ==
  ASSUME Typed, NEW s \in Calls, NEW c \in Commands, NEW p \in Policies,
         NEW n \in 1..MaxGeneration, Reserve(s, c, p, n)
  PROVE  Typed'
<1> DEFINE m == <<Target[c], n>>
           row == [mat[m] EXCEPT !.st = "PROVISIONING", !.rev = 1]
           r == [Claimed(s) EXCEPT !.phase = "RESERVED", !.subject = m]
<1>1. m \in Mats /\ Op[c] = "provision"
  BY TargetAssumption DEF Mats, Reserve
<1>2. row \in Rows
  BY <1>1 DEF Typed, DatabaseTyped, Rows, Active
<1>3. r \in Receipts /\ r.st = "IN_PROGRESS"
  BY <1>1, NoReceiptType DEF Claimed, Receipts, Phases
<1> HIDE DEF m, row, r
<1>4. DatabaseTyped'
  BY <1>1, <1>2 DEF Typed, DatabaseTyped, Reserve, m, row
<1>5. OutsideTyped'
  BY DEF Typed, OutsideTyped, Reserve
<1>6. ReceiptsTyped'
  BY <1>1, <1>3, ReceiptUpdate DEF Reserve, GuardedOps, r, m
<1>7. CallsTyped'
  BY <1>1, BeginTyped DEF Reserve, Locations, m
<1> QED
  BY <1>4, <1>5, <1>6, <1>7 DEF Typed

\* So does every way a command is claimed or taken over (_claim, _claim_operation).
LEMMA ClaimTyped ==
  ASSUME Typed, NEW s \in Calls, NEW c \in Commands, Claim(s, c)
  PROVE  Typed'
<1> USE DEF Locations
<1>1. /\ receipt[c] \in Receipts
      /\ Claimed(s) \in Receipts /\ Claimed(s).st = "IN_PROGRESS"
  BY NoReceiptType DEF Typed, ReceiptsTyped, Receipts, Claimed, Phases
<1>2. ASSUME NEW p \in Policies, Refuse(s, c, p) PROVE Typed'
  <2>1. Adopted(p) \in [policy : Policies \cup {NoPolicy}, attempts : Nat]
    BY DEF Typed, DatabaseTyped, Adopted
  <2>2. ReceiptsTyped'
    BY <1>1, <1>2, CompletedTyped, ReceiptUpdate, SentinelAssumption DEF Refuse, GuardedOps, Results
  <2> QED
    BY <1>2, <2>1, <2>2
    DEF Typed, DatabaseTyped, OutsideTyped, CallsTyped, CallsBound, Refuse
<1>3. ASSUME NEW p \in Policies, NEW n \in 1..MaxGeneration, Reserve(s, c, p, n)
      PROVE  Typed'
  BY <1>3, ReserveTyped
<1>4. CASE RecoverProvision(s, c)
  <2>1. receipt[c].subject \in Mats
    BY <1>1, <1>4 DEF RecoverProvision, Receipts
  <2>2. ReceiptsTyped' /\ CallsTyped'
    BY <1>4, <2>1, TakenOverTyped, BeginTyped DEF RecoverProvision
  <2> QED
    BY <1>4, <2>2 DEF Typed, DatabaseTyped, OutsideTyped, RecoverProvision, database
<1>5. ASSUME NEW m \in Mats, ClaimGuarded(s, c, m) PROVE Typed'
  <2> DEFINE r == [Claimed(s) EXCEPT !.guard = [m |-> m, rev |-> mat[m].rev]]
  <2>1. r \in Receipts /\ r.guard.m = m /\ r.st = "IN_PROGRESS"
    BY <1>1 DEF Typed, DatabaseTyped, Receipts, Rows
  <2>2. ReceiptsTyped' /\ CallsTyped'
    BY <1>5, <2>1, ReceiptUpdate, BeginTyped DEF ClaimGuarded
  <2> QED
    BY <1>5, <2>2 DEF Typed, DatabaseTyped, OutsideTyped, ClaimGuarded, database
<1>6. CASE ClaimByExecution(s, c)
  <2>1. ReceiptsTyped'
    BY <1>1, <1>6, ReceiptUpdate DEF ClaimByExecution, GuardedOps
  <2>2. CallsTyped'
    <3>1. CASE Op[c] = "reconcile"
      BY <1>6, <3>1, BeginTyped DEF ClaimByExecution
    <3>2. CASE Op[c] \in {"cancel", "timeout"}
      BY <1>6, <3>2, BeginTyped DEF ClaimByExecution
    <3> QED
      BY <1>6, <3>1, <3>2 DEF ClaimByExecution
  <2> QED
    BY <1>6, <2>1, <2>2 DEF Typed, DatabaseTyped, OutsideTyped, ClaimByExecution, database
<1>7. CASE TakeOver(s, c)
  <2> DEFINE m == IF receipt[c].subject # NoMat THEN receipt[c].subject
                                                ELSE receipt[c].guard.m
  <2>1. m \in Mats \cup {NoMat} /\ ResumePoint(c) \in Locations
    BY <1>1 DEF Receipts, ResumePoint
  <2>2. \/ m \in Mats
        \/ ResumePoint(c) = "scan"
        \/ ResumePoint(c) = "begin" /\ Op[c] \in {"cancel", "timeout"}
    <3>1. CASE receipt[c].subject # NoMat
      BY <1>1, <3>1 DEF Receipts
    <3>2. CASE receipt[c].subject = NoMat /\ Op[c] \in GuardedOps
      BY <1>7, <3>2 DEF Typed, ReceiptsTyped, GuardsBound, TakeOver, Expired
    <3>3. CASE receipt[c].subject = NoMat /\ Op[c] \notin GuardedOps
      BY <1>7, <3>3, OpAssumption DEF TakeOver, Operations, GuardedOps, ResumePoint
    <3> QED
      BY <3>1, <3>2, <3>3
  <2> HIDE DEF m
  <2>3. ReceiptsTyped' /\ CallsTyped'
    BY <1>7, <2>1, <2>2, TakenOverTyped, BeginTyped DEF TakeOver, m
  <2> QED
    BY <1>7, <2>3 DEF Typed, DatabaseTyped, OutsideTyped, TakeOver, database
<1> QED
  BY <1>2, <1>3, <1>4, <1>5, <1>6, <1>7 DEF Claim

\* Provisioning, its readiness and its failure keep the types.
LEMMA ProvisionTyped ==
  ASSUME Typed, NEW s \in Calls, ProvisionStep(s)
  PROVE  Typed'
<1> USE DEF Locations
<1> DEFINE m == call[s].m
           c == Cmd(s)
<1>1. call[s].pc \notin {"idle", "scan", "pick", "begin"}
  BY DEF ProvisionStep, CheckProvision, RuntimeProvision, RuntimeRejects, CompleteReady,
         StartFailed
<1>2. call[s] \in CallStates /\ c \in Commands /\ receipt[c] \in Receipts
      /\ m \in Mats /\ mat[m] \in Rows
  BY <1>1, Working
<1> HIDE DEF m, c
<1>3. CASE CheckProvision(s)
  BY <1>1, <1>2, <1>3, GotoTyped
  DEF Typed, DatabaseTyped, OutsideTyped, ReceiptsTyped, GuardsBound, CheckProvision, database, m
<1>4. CASE RuntimeProvision(s)
  <2>1. rt' \in [Mats -> RuntimeRows]
    BY <1>2, <1>4 DEF Typed, OutsideTyped, RuntimeRows, RuntimeProvision, m
  <2>2. CallsTyped'
    BY <1>1, <1>2, <1>4, GotoTyped DEF RuntimeProvision, m
  <2> QED
    BY <1>4, <2>1, <2>2
    DEF Typed, DatabaseTyped, OutsideTyped, ReceiptsTyped, GuardsBound, RuntimeProvision, database
<1>5. CASE RuntimeRejects(s)
  BY <1>1, <1>2, <1>5, GotoTyped
  DEF Typed, DatabaseTyped, OutsideTyped, ReceiptsTyped, GuardsBound, RuntimeRejects, database, m
<1>6. CASE CompleteReady(s)
  <2>1. Moved(mat[m], "READY") \in Rows
    BY <1>2, MovedType DEF States, Active
  <2>2. DatabaseTyped'
    BY <1>2, <1>6, <2>1, RowUpdate DEF Typed, DatabaseTyped, CompleteReady, m
  <2>3. Owns(s)
    BY <1>6 DEF CompleteReady, CanMarkReady
  <2> QED
    BY <1>2, <1>6, <2>2, <2>3, ReturnTyped, CompleteTyped
    DEF Typed, OutsideTyped, CompleteReady, Results, Active, c
<1>7. CASE StartFailed(s)
  <2> DEFINE row == IF mat[m].st = "PROVISIONING" THEN Orphaned(mat[m]) ELSE mat[m]
             k == [call[s] EXCEPT !.cur = row,
                        !.pc = IF row.st = "FAILED" THEN "finish" ELSE "read"]
  <2>1. Orphaned(mat[m]) \in Rows
    BY <1>2, ClosedType DEF Terminal
  <2>2. row \in Rows
    BY <1>2, <2>1
  <2>3. /\ mat' = [mat EXCEPT ![m] = row]
        /\ call' = [call EXCEPT ![s] = k]
    BY <1>7 DEF StartFailed, m
  <2>4. k \in CallStates /\ k.cmd = call[s].cmd /\ k.m = call[s].m
    BY <1>2, <2>2 DEF CallStates
  <2>5. ReceiptsTyped'
    BY <1>2, <1>7, AdvanceTyped
    DEF Typed, ReceiptsTyped, GuardsBound, StartFailed, Phases, m, c
  <2> HIDE DEF k, row
  <2>6. DatabaseTyped'
    BY <1>2, <1>7, <2>2, <2>3, RowUpdate DEF Typed, DatabaseTyped, StartFailed
  <2>7. CallsTyped'
    BY <1>2, <2>3, <2>4, CallUpdate DEF m, c, Cmd
  <2> QED
    BY <1>7, <2>5, <2>6, <2>7 DEF Typed, OutsideTyped, StartFailed
<1> QED
  BY <1>3, <1>4, <1>5, <1>6, <1>7 DEF ProvisionStep

\* Cleanups and previews under a guard keep the types.
LEMMA GuardedTyped ==
  ASSUME Typed, NEW s \in Calls, GuardedStep(s)
  PROVE  Typed'
<1> USE DEF Locations
<1> DEFINE m == call[s].m
           c == Cmd(s)
<1>1. /\ call[s].pc \notin {"idle", "scan", "pick"}
      /\ call[s].pc = "begin" => Op[c] \notin {"cancel", "timeout"}
  BY DEF GuardedStep, BeginCleanup, Refused, Deny, BeginPreview, RuntimePublish,
         RuntimeRefusesPreview, CompletePreview
<1>2. /\ call[s] \in CallStates /\ c \in Commands /\ receipt[c] \in Receipts
      /\ Op[c] \in Operations /\ m \in Mats /\ mat[m] \in Rows
  BY <1>1, Working
<1> HIDE DEF m, c
<1>3. CASE BeginCleanup(s)
  <2>1. Closing(mat[m], TerminalOf(Op[c])) \in Rows
    BY <1>2, ClosedType DEF TerminalOf, Terminal
  <2>2. DatabaseTyped'
    BY <1>2, <1>3, <2>1, RowWrite DEF BeginCleanup, m, c
  <2>3. ReceiptsTyped' /\ CallsTyped'
    BY <1>1, <1>2, <1>3, AdvanceTyped, GotoTyped DEF BeginCleanup, Phases, m, c
  <2> QED
    BY <1>3, <2>2, <2>3, SameOutside, FaultCount DEF Typed, BeginCleanup
<1>4. CASE Refused(s)
  <2>1. CallsTyped'
    BY <1>1, <1>2, <1>4, GotoTyped DEF Refused, m
  <2> QED
    BY <1>4, <2>1, SameReceipts, SameDatabase, SameOutside, FaultCount DEF Typed, Refused
<1>5. CASE Deny(s)
  <2>1. ReceiptsTyped' /\ CallsTyped'
    BY <1>2, <1>5, CompleteTyped, ReturnTyped DEF Deny, Results, c
  <2> QED
    BY <1>5, <2>1, SameDatabase, SameOutside, FaultCount DEF Typed, Deny
<1>6. CASE BeginPreview(s)
  <2>1. DatabaseTyped'
    <3>1. mat' \in [Mats -> Rows]
      BY <1>2, <1>6, NextRevision DEF Typed, DatabaseTyped, Rows, BeginPreview, m
    <3> QED
      BY <1>2, <1>6, <3>1 DEF Typed, DatabaseTyped, BeginPreview, c
  <2>2. ReceiptsTyped' /\ CallsTyped'
    BY <1>1, <1>2, <1>6, AdvanceTyped, GotoTyped DEF BeginPreview, Phases, m, c
  <2> QED
    BY <1>6, <2>1, <2>2, SameOutside, FaultCount DEF Typed, BeginPreview
<1>7. CASE RuntimePublish(s)
  <2>1. rt' \in [Mats -> RuntimeRows]
    <3>1. [rt[m] EXCEPT !.previewOp = {c}, !.preview = TRUE] \in RuntimeRows
      BY <1>2 DEF Typed, OutsideTyped, RuntimeRows
    <3> QED
      BY <1>2, <1>7, <3>1 DEF Typed, OutsideTyped, RuntimePublish, m, c
  <2>2. CallsTyped'
    BY <1>1, <1>2, <1>7, GotoTyped DEF RuntimePublish, m
  <2> QED
    BY <1>7, <2>1, <2>2, SameReceipts, SameDatabase DEF Typed, OutsideTyped, RuntimePublish
<1>8. CASE RuntimeRefusesPreview(s)
  <2>1. CallsTyped'
    BY <1>1, <1>2, <1>8, GotoTyped DEF RuntimeRefusesPreview, m
  <2> QED
    BY <1>8, <2>1, SameReceipts, SameDatabase, SameOutside, FaultCount
    DEF Typed, RuntimeRefusesPreview
<1>9. CASE CompletePreview(s)
  <2>1. DatabaseTyped'
    BY <1>2, <1>9 DEF Typed, DatabaseTyped, CompletePreview, c
  <2>2. ReceiptsTyped' /\ CallsTyped'
    BY <1>1, <1>2, <1>9, CompleteTyped, ReturnTyped, SameReceipts, GotoTyped
    DEF CompletePreview, Results, m, c
  <2> QED
    BY <1>9, <2>1, <2>2, SameOutside, FaultCount DEF Typed, CompletePreview
<1> QED
  BY <1>3, <1>4, <1>5, <1>6, <1>7, <1>8, <1>9 DEF GuardedStep

\* Cancellation keeps the types, on the materialization it finds or resumes.
LEMMA CancelTyped ==
  ASSUME Typed, NEW s \in Calls, CancelStep(s)
  PROVE  Typed'
<1> USE DEF Locations
<1> DEFINE c == Cmd(s)
<1>1. call[s].pc \notin {"idle", "scan", "pick"}
  BY DEF CancelStep, BeginCancel, ResumeCancel, AlreadyTerminal
<1>2. call[s] \in CallStates /\ c \in Commands /\ Op[c] \in Operations
  BY <1>1, Working
<1> HIDE DEF c
<1>3. ASSUME NEW m \in Mats, BeginCancel(s, m) PROVE Typed'
  <2> DEFINE k == [call[s] EXCEPT !.m = m,
                      !.pc = IF mat[m].st = "READY" THEN "read" ELSE "already"]
  <2>1. mat[m] \in Rows /\ Closing(mat[m], TerminalOf(Op[c])) \in Rows
    BY <1>2, <1>3, ClosedType DEF Typed, DatabaseTyped, TerminalOf, Terminal
  <2>2. DatabaseTyped'
    BY <1>2, <1>3, <2>1, RowWrite DEF Typed, DatabaseTyped, BeginCancel, c
  <2>3. k \in CallStates /\ k.cmd \in Commands /\ k.m \in Mats
    BY <1>2 DEF CallStates, Cmd, c
  <2>4. call' = [call EXCEPT ![s] = k]
    BY <1>3 DEF BeginCancel
  <2> HIDE DEF k
  <2>5. ReceiptsTyped' /\ CallsTyped'
    BY <1>2, <1>3, <2>3, <2>4, AdvanceTyped, CallUpdate DEF BeginCancel, Phases, c
  <2> QED
    BY <1>3, <2>2, <2>5, SameOutside, FaultCount DEF Typed, BeginCancel
<1>4. CASE ResumeCancel(s)
  <2>1. CallsTyped'
    BY <1>1, <1>4, Working, GotoTyped DEF ResumeCancel
  <2> QED
    BY <1>4, <2>1, SameReceipts, SameDatabase, SameOutside, FaultCount DEF Typed, ResumeCancel
<1>5. CASE AlreadyTerminal(s)
  <2>1. call[s].m \in Mats /\ mat[call[s].m] \in Rows
    BY <1>5, Working DEF AlreadyTerminal
  <2>2. ReceiptsTyped' /\ CallsTyped'
    BY <1>2, <1>5, <2>1, CompleteTyped, ReturnTyped DEF AlreadyTerminal, Results, Rows, c
  <2> QED
    BY <1>5, <2>2, SameDatabase, SameOutside, FaultCount DEF Typed, AlreadyTerminal
<1> QED
  BY <1>3, <1>4, <1>5 DEF CancelStep

\* The cleanup chain, its commits, its end and its quarantine keep the types.
LEMMA CleanupTyped ==
  ASSUME Typed, NEW s \in Calls, CleanupStep(s)
  PROVE  Typed'
<1> USE DEF Locations
<1> DEFINE m == call[s].m
           c == Cmd(s)
<1>1. call[s].pc \notin {"idle", "scan", "pick", "begin"}
  BY DEF CleanupStep, ReadRecord, RuntimeStep, RuntimeDestroy, CommitStep, FinishCommand,
         Quarantine
<1>2. /\ call[s] \in CallStates /\ c \in Commands /\ receipt[c] \in Receipts
      /\ Op[c] \in Operations /\ m \in Mats /\ mat[m] \in Rows
  BY <1>1, Working
<1>3. ASSUME NEW k \in Steps PROVE AfterRuntime(m, k) \in [Mats -> RuntimeRows]
  <2>1. Taken(rt[m], k) \in RuntimeRows
    BY <1>2 DEF Typed, OutsideTyped, RuntimeRows, Taken
  <2> QED
    BY <1>2, <2>1 DEF Typed, OutsideTyped, AfterRuntime
<1> HIDE DEF m, c
<1>4. CASE ReadRecord(s)
  <2> DEFINE row == mat[m]
             k == [call[s] EXCEPT !.cur = row,
                     !.pc = IF call[s].pc = "read" /\ row.st \in Terminal THEN "finish"
                            ELSE IF ~(RuntimeSteps \subseteq row.done) THEN "act"
                            ELSE IF "release" \notin row.done THEN "commit" ELSE "destroy"]
  <2>1. k \in CallStates /\ k.cmd \in Commands /\ k.m \in Mats
    BY <1>2 DEF CallStates, Cmd, m, c
  <2>2. call' = [call EXCEPT ![s] = k]
    BY <1>4 DEF ReadRecord, m
  <2> HIDE DEF k
  <2> QED
    BY <1>4, <2>1, <2>2, CallUpdate, SameReceipts, SameDatabase, SameOutside, FaultCount
    DEF Typed, ReadRecord
<1>5. CASE RuntimeDestroy(s)
  <2>1. CallsTyped'
    BY <1>1, <1>2, <1>5, GotoTyped DEF RuntimeDestroy, m
  <2>2. rt' \in [Mats -> RuntimeRows]
    BY <1>3, <1>5 DEF RuntimeDestroy, Steps, m
  <2> QED
    BY <1>5, <2>1, <2>2, SameReceipts, SameDatabase DEF Typed, OutsideTyped, RuntimeDestroy
<1>6. ASSUME NEW k \in Steps, RuntimeStep(s, k) PROVE Typed'
  <2>1. CallsTyped'
    BY <1>1, <1>2, <1>6, GotoTyped DEF RuntimeStep, m
  <2>2. rt' \in [Mats -> RuntimeRows]
    BY <1>3, <1>6 DEF RuntimeStep, m
  <2> QED
    BY <1>6, <2>1, <2>2, SameReceipts, SameDatabase DEF Typed, OutsideTyped, RuntimeStep
<1>7. ASSUME NEW k \in Steps, CommitStep(s, k) PROVE Typed'
  <2>1. mat' \in [Mats -> Rows]
    <3>1. "FAILED" \in Terminal
      BY DEF Terminal
    <3> QED
      BY <1>2, <1>7, <3>1, StampedType DEF Typed, DatabaseTyped, CommitStep, m
  <2>2. /\ lease' \in [Mats -> {"NONE", "ACTIVE", "RELEASED"}]
        /\ gen' \in [Mats -> {"NONE", "ACTIVE", "FENCED", "RELEASED"}]
    BY <1>2, <1>7 DEF Typed, DatabaseTyped, CommitStep, m
  <2>3. ledger' \in [policy : Policies \cup {NoPolicy}, attempts : Nat]
    <3>1. CASE k = "release"
      <4>1. ledger.attempts >= 1 /\ ledger.attempts \in Nat
        BY <1>7, <3>1 DEF Typed, DatabaseTyped, CommitStep, CanCommit
      <4>2. ledger.attempts - 1 \in Nat
        BY <4>1
      <4> QED
        BY <1>7, <3>1, <4>2 DEF Typed, DatabaseTyped, CommitStep
    <3>2. CASE k # "release"
      BY <1>7, <3>2 DEF Typed, DatabaseTyped, CommitStep
    <3> QED
      BY <3>1, <3>2
  <2>4. CallsTyped'
    BY <1>1, <1>2, <1>7, GotoTyped DEF CommitStep, m
  <2> QED
    BY <1>7, <2>1, <2>2, <2>3, <2>4, SameReceipts, SameOutside, FaultCount
    DEF Typed, DatabaseTyped, CommitStep
<1>8. CASE FinishCommand(s)
  <2> DEFINE t == TerminalOf(Op[c])
  <2>1. t \in Terminal
    BY <1>2 DEF TerminalOf, Terminal
  <2>2. [Stamped(mat[m], "destroy") EXCEPT !.st = t] \in Rows
    BY <1>2, <2>1, StampedType DEF Steps
  <2>3. DatabaseTyped'
    <3>1. CASE UNCHANGED mat
      BY <1>8, <3>1, SameDatabase DEF FinishCommand, database
    <3>2. CASE Finished(m, t)
      BY <1>2, <1>8, <2>2, <3>2, RowWrite DEF FinishCommand, Finished
    <3> QED
      BY <1>8, <3>1, <3>2 DEF FinishCommand, m, c
  <2>4. ReceiptsTyped' /\ CallsTyped'
    BY <1>2, <1>8, <2>1, CompleteTyped, ReturnTyped DEF FinishCommand, CanFinish, Results, c
  <2> QED
    BY <1>8, <2>3, <2>4, SameOutside, FaultCount DEF Typed, FinishCommand
<1>9. CASE Quarantine(s)
  <2>1. Moved(mat[m], "QUARANTINED") \in Rows
    BY <1>2, MovedType DEF States, Active, Cleaning
  <2>2. DatabaseTyped'
    BY <1>2, <1>9, <2>1, RowWrite DEF Quarantine, m
  <2>3. ReceiptsTyped' /\ CallsTyped'
    <3>1. CASE Op[c] = "reconcile"
      <4> DEFINE r == [receipt[c] EXCEPT !.left = @ \ {m}]
      <4>1. /\ r \in Receipts /\ r.guard = receipt[c].guard
            /\ r.owner = receipt[c].owner /\ r.st = receipt[c].st
        BY <1>2 DEF Receipts
      <4>2. receipt' = [receipt EXCEPT ![c] = r]
        BY <1>2, <1>9, <3>1 DEF Typed, ReceiptsTyped, Quarantine, m, c
      <4> HIDE DEF r
      <4>3. receipt' \in [Commands -> Receipts]
        BY <1>2, <4>1, <4>2 DEF Typed, ReceiptsTyped
      <4>4. GuardsBound'
        BY <1>2, <4>1, <4>2 DEF Typed, ReceiptsTyped, GuardsBound
      <4> QED
        BY <1>1, <1>2, <1>9, <3>1, <4>3, <4>4, GotoTyped DEF ReceiptsTyped, Quarantine, m, c
    <3>2. CASE Op[c] # "reconcile"
      BY <1>2, <1>9, <3>2, AdvanceTyped, ReturnTyped DEF Quarantine, Phases, m, c
    <3> QED
      BY <3>1, <3>2
  <2> QED
    BY <1>9, <2>2, <2>3, SameOutside, FaultCount DEF Typed, Quarantine
<1> QED
  BY <1>4, <1>5, <1>6, <1>7, <1>8, <1>9 DEF CleanupStep

\* Listing, picking and finishing candidates keep the types.
LEMMA ReconcileTyped ==
  ASSUME Typed, NEW s \in Calls, ReconcileStep(s)
  PROVE  Typed'
<1> USE DEF Locations
<1> DEFINE c == Cmd(s)
<1>1. call[s].pc # "idle"
  BY DEF ReconcileStep, Scan, FinishItem, Report, PickCandidate
<1>2. /\ call[s] \in CallStates /\ c \in Commands /\ receipt[c] \in Receipts
      /\ Op[c] \in Operations
  BY <1>1, Working
<1>3. /\ receipt[c].owner \in Calls => receipt[c].st = "IN_PROGRESS"
      /\ receipt[c].st # "NONE" /\ Op[c] \in GuardedOps => receipt[c].guard.m \in Mats
  BY <1>2 DEF Typed, ReceiptsTyped, GuardsBound
<1> HIDE DEF c
<1>4. CASE Scan(s)
  <2> DEFINE found == IF receipt[c].scanned THEN receipt[c].left ELSE Candidates
             seen == [m \in Mats |-> IF m \in found THEN mat[m] ELSE NoRow]
             k == [call[s] EXCEPT !.pc = "pick", !.seen = seen]
             r == [receipt[c] EXCEPT !.scanned = TRUE, !.left = found]
  <2>1. found \in SUBSET Mats
    BY <1>2 DEF Receipts, Candidates
  <2>2. seen \in [Mats -> Rows]
    BY NoRowType DEF Typed, DatabaseTyped
  <2> HIDE DEF found, seen
  <2>3. k \in CallStates /\ k.cmd \in Commands /\ k.pc = "pick"
    BY <1>2, <2>2 DEF CallStates, Cmd, c
  <2>4. /\ r \in Receipts /\ r.guard = receipt[c].guard
        /\ r.owner = receipt[c].owner /\ r.st = receipt[c].st
    BY <1>2, <2>1 DEF Receipts
  <2>5. call' = [call EXCEPT ![s] = k] /\ receipt' = [receipt EXCEPT ![c] = r]
    BY <1>4 DEF Scan, found, seen, c
  <2> HIDE DEF k, r
  <2>6. ReceiptsTyped' /\ CallsTyped'
    BY <1>2, <1>3, <2>3, <2>4, <2>5, ReceiptUpdate, CallUpdate
  <2> QED
    BY <1>4, <2>6, SameDatabase, SameOutside, FaultCount DEF Typed, Scan
<1>5. CASE FinishItem(s)
  <2> DEFINE m == call[s].m
             r == ItemDone(receipt[c], m)
  <2>1. m \in Mats /\ mat[m] \in Rows
    BY <1>5, Working DEF FinishItem
  <2>2. DatabaseTyped'
    <3>1. CASE UNCHANGED mat
      BY <1>5, <3>1, SameDatabase DEF FinishItem, database
    <3>2. CASE Finished(m, call[s].cur.tgt) /\ CanComplete(m, call[s].cur.tgt, call[s].cur)
      <4>1. [Stamped(mat[m], "destroy") EXCEPT !.st = call[s].cur.tgt] \in Rows
        <5>1. call[s].cur.tgt \in {"NONE"} \cup Terminal
          BY <1>2 DEF CallStates, Rows
        <5>2. CASE call[s].cur.tgt \in Terminal
          BY <2>1, <5>2, StampedType DEF Steps
        <5>3. CASE call[s].cur.tgt = "NONE"
          <6>1. Stamped(mat[m], "destroy") \in Rows
            BY <2>1, StampedType DEF Steps, Terminal
          <6> QED
            BY <5>3, <6>1 DEF Rows
        <5> QED
          BY <5>1, <5>2, <5>3
      <4> QED
        BY <1>5, <2>1, <3>2, <4>1, RowWrite DEF FinishItem, Finished
    <3> QED
      BY <1>5, <3>1, <3>2 DEF FinishItem, CanFinishItem
  <2>3. /\ r \in Receipts /\ r.guard = receipt[c].guard
        /\ r.owner = receipt[c].owner /\ r.st = receipt[c].st
    BY <1>2, <2>1 DEF Receipts, ItemDone
  <2>4. receipt' = [receipt EXCEPT ![c] = r]
    BY <1>5 DEF FinishItem, c
  <2> HIDE DEF r
  <2>5. ReceiptsTyped' /\ CallsTyped'
    BY <1>1, <1>2, <1>3, <1>5, <2>1, <2>3, <2>4, ReceiptUpdate, GotoTyped DEF FinishItem
  <2> QED
    BY <1>5, <2>2, <2>5, SameOutside, FaultCount DEF Typed, FinishItem
<1>6. CASE Report(s)
  <2>1. ReceiptsTyped' /\ CallsTyped'
    BY <1>2, <1>6, CompleteTyped, ReturnTyped DEF Report, Results, c
  <2> QED
    BY <1>6, <2>1, SameDatabase, SameOutside, FaultCount DEF Typed, Report
<1>7. ASSUME NEW m \in Mats, PickCandidate(s, m) PROVE Typed'
  <2> DEFINE k == [call[s] EXCEPT !.pc = "read", !.m = m, !.seen[m] = NoRow]
  <2>1. DatabaseTyped'
    <3>1. mat[m] \in Rows /\ Orphaned(mat[m]) \in Rows /\ Closing(mat[m], "TIMED_OUT") \in Rows
      BY ClosedType DEF Typed, DatabaseTyped, Terminal
    <3> QED
      BY <1>7, <3>1, RowWrite, SameDatabase DEF PickCandidate, Opened, database
  <2>2. k \in CallStates /\ k.cmd \in Commands /\ k.m \in Mats
    <3>1. [call[s].seen EXCEPT ![m] = NoRow] \in [Mats -> Rows]
      BY <1>2, NoRowType DEF CallStates
    <3> QED
      BY <1>2, <3>1 DEF CallStates, Cmd, c
  <2>3. call' = [call EXCEPT ![s] = k]
    BY <1>7 DEF PickCandidate
  <2> HIDE DEF k
  <2> QED
    BY <1>7, <2>1, <2>2, <2>3, CallUpdate, SameReceipts, SameOutside, FaultCount
    DEF Typed, PickCandidate
<1> QED
  BY <1>4, <1>5, <1>6, <1>7 DEF ReconcileStep

\* Faults keep the types.
LEMMA FaultTyped ==
  ASSUME Typed, NEW s \in Calls, Fault(s) \/ Raise(s)
  PROVE  Typed'
<1> USE DEF Locations
<1>1. ASSUME NEW created \in BOOLEAN, ProvisionFails(s, created) PROVE Typed'
  <2>1. call[s].m \in Mats /\ CallsTyped'
    BY <1>1, Working, GotoTyped DEF ProvisionFails
  <2>2. rt' \in [Mats -> RuntimeRows]
    BY <1>1, <2>1 DEF Typed, OutsideTyped, RuntimeRows, ProvisionFails
  <2> QED
    BY <1>1, <2>1, <2>2, SameReceipts, SameDatabase, FaultCount
    DEF Typed, OutsideTyped, ProvisionFails
<1>2. CASE CleanupFails(s)
  <2>1. CallsTyped'
    BY <1>2, Working, GotoTyped DEF CleanupFails
  <2> QED
    BY <1>2, <2>1, SameReceipts, SameDatabase, SameOutside, FaultCount DEF Typed, CleanupFails
<1>3. CASE Crash(s) \/ Raise(s)
  BY <1>3, ReturnTyped, SameReceipts, SameDatabase, SameOutside, FaultCount
  DEF Typed, Crash, Raise
<1> QED
  BY <1>1, <1>2, <1>3 DEF Fault

\* The passage of time keeps the types.
LEMMA TimeTyped ==
  ASSUME Typed, Time
  PROVE  Typed'
<1>1. UNCHANGED call => CallsTyped'
  BY DEF Typed, CallsTyped, CallsBound
<1>2. ASSUME NEW c \in Commands, Lapse(c) \/ Overrun(c) \/ NewKey(c) PROVE Typed'
  <2>1. receipt[c] \in Receipts
    BY DEF Typed, ReceiptsTyped
  <2>2. /\ receipt[c].owner \in Calls => receipt[c].st = "IN_PROGRESS"
        /\ receipt[c].st # "NONE" /\ Op[c] \in GuardedOps => receipt[c].guard.m \in Mats
    BY DEF Typed, ReceiptsTyped, GuardsBound
  <2>3. CASE Lapse(c)
    <3> DEFINE r == [receipt[c] EXCEPT !.lapsed = TRUE, !.owner = NoCall]
    <3>1. r \in Receipts /\ r.guard = receipt[c].guard /\ r.owner = NoCall
          /\ r.st = receipt[c].st
      BY <2>1 DEF Receipts
    <3>2. receipt' = [receipt EXCEPT ![c] = r]
      BY <2>3 DEF Lapse
    <3> HIDE DEF r
    <3> QED
      BY <1>1, <2>2, <2>3, <3>1, <3>2, ReceiptUpdate, SentinelAssumption, SameDatabase,
         SameOutside, FaultCount DEF Typed, Lapse
  <2>4. CASE Overrun(c)
    <3> DEFINE r == [receipt[c] EXCEPT !.lapsed = TRUE]
    <3>1. r \in Receipts /\ r.guard = receipt[c].guard /\ r.owner = receipt[c].owner
          /\ r.st = receipt[c].st
      BY <2>1 DEF Receipts
    <3>2. receipt' = [receipt EXCEPT ![c] = r]
      BY <2>4 DEF Overrun
    <3> HIDE DEF r
    <3> QED
      BY <1>1, <2>2, <2>4, <3>1, <3>2, ReceiptUpdate, SameDatabase, SameOutside, FaultCount
      DEF Typed, Overrun
  <2>5. CASE NewKey(c)
    <3>1. NoReceipt.owner = NoCall /\ NoReceipt.st = "NONE"
      BY DEF NoReceipt
    <3> QED
      BY <1>1, <2>5, <3>1, NoReceiptType, ReceiptUpdate, SentinelAssumption, SameDatabase,
         SameOutside, FaultCount DEF Typed, NewKey
  <2> QED
    BY <1>2, <2>3, <2>4, <2>5
<1>3. ASSUME NEW m \in Mats, Expire(m) PROVE Typed'
  BY <1>1, <1>3, SameReceipts, SameDatabase, FaultCount DEF Typed, OutsideTyped, Expire
<1> QED
  BY <1>2, <1>3 DEF Time

\* Every step keeps the types.
LEMMA NextTyped == Typed /\ [Next]_vars => Typed'
<1> SUFFICES ASSUME Typed, [Next]_vars PROVE Typed'
  OBVIOUS
<1>1. ASSUME NEW s \in Calls, Run(s) PROVE Typed'
  BY <1>1, ProvisionTyped, GuardedTyped, CancelTyped, CleanupTyped, ReconcileTyped, FaultTyped
  DEF Run
<1>2. ASSUME NEW s \in Calls, Fault(s) PROVE Typed'
  BY <1>2, FaultTyped
<1>3. ASSUME NEW s \in Calls, NEW c \in Commands, Claim(s, c) PROVE Typed'
  BY <1>3, ClaimTyped
<1>4. CASE Time
  BY <1>4, TimeTyped
<1>5. CASE UNCHANGED vars
  BY <1>5, SameReceipts, SameDatabase, SameOutside, FaultCount
  DEF Typed, CallsTyped, CallsBound, vars, database
<1> QED
  BY <1>1, <1>2, <1>3, <1>4, <1>5 DEF Next

-----------------------------------------------------------------------------
\* Every step of every call, fault and clock is taken on a command, a
\* materialization and a guard that exist.
THEOREM AlwaysTyped == Spec => []Typed
  BY InitTyped, NextTyped, PTL DEF Spec

\* The rows, receipts and calls of the controller keep their types whatever
\* is executed, retried, taken over or interrupted.
THEOREM TypeCorrect == Spec => []TypeOK
<1>1. Typed => TypeOK
  BY DEF Typed, DatabaseTyped, OutsideTyped, ReceiptsTyped, CallsTyped, TypeOK
<1> QED
  BY <1>1, AlwaysTyped, PTL
=============================================================================
