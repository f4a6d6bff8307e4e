--------------------------- MODULE SandboxProofs ---------------------------
(***************************************************************************)
(* What the controller's transactions and its runtime may do, and that the *)
(* two agree.  Every step of every call changes a materialization in one   *)
(* of seven ways (RowStep): from that follow the order of generations, the *)
(* finality of a cleanup's outcome and the conservation of capacity.  What *)
(* a call is about to write is true of the row, of its receipt and of the  *)
(* runtime, whatever other calls did meanwhile (Linked): from that follow  *)
(* the interlock of the database with the runtime, what a ready runner and *)
(* its preview rest on, what receipts say, the harmlessness of stale       *)
(* owners and the implementation of the contract.                          *)
(***************************************************************************)
EXTENDS SandboxTyping, FiniteSetTheorems

-----------------------------------------------------------------------------
(* The inductive invariant.                                                *)

\* The row, the lease and the generation of a materialization agree.
RowFits(m) ==
  LET r == mat[m] IN
  /\ \A k \in r.done : Prior(k) \subseteq r.done
  /\ r.st = "NONE" => r.rev = 0
  /\ r.st \in {"NONE", "PROVISIONING", "READY"} => r.done = {} /\ r.tgt = "NONE"
  /\ r.st \in Cleaning => r.tgt # "NONE" /\ "destroy" \notin r.done
  /\ r.st \in Terminal => r.done = Steps /\ r.tgt = r.st
  /\ lease[m] = IF r.st = "NONE" THEN "NONE"
                ELSE IF "release" \in r.done THEN "RELEASED" ELSE "ACTIVE"
  /\ gen[m] = IF r.st = "NONE" THEN "NONE"
              ELSE IF "release" \in r.done THEN "RELEASED"
              ELSE IF "fence" \in r.done THEN "FENCED" ELSE "ACTIVE"

RowsFit == \A m \in Mats : RowFits(m)

\* A call about to take or to commit a step read a row that holds capacity.
CommitsBounded ==
  \A s \in Calls : call[s].pc \in {"act", "commit"} => "release" \notin call[s].cur.done

Consistent == Typed /\ RowsFit /\ CommitsBounded

-----------------------------------------------------------------------------
(* The seven ways a step may change a materialization.                     *)

Kept(m)     == mat'[m] = mat[m] /\ lease'[m] = lease[m] /\ gen'[m] = gen[m]
SameRow(m)  == mat'[m].st = mat[m].st /\ mat'[m].tgt = mat[m].tgt /\ mat'[m].done = mat[m].done
SameHold(m) == lease'[m] = lease[m] /\ gen'[m] = gen[m]
Revised(m)  == mat[m].rev < mat'[m].rev

Admitted(m) ==
  /\ mat[m].st = "NONE" /\ mat'[m].st = "PROVISIONING" /\ Revised(m)
  /\ mat'[m].tgt = mat[m].tgt /\ mat'[m].done = mat[m].done
  /\ lease'[m] = "ACTIVE" /\ gen'[m] = "ACTIVE"
  /\ \A n \in 1..MaxGeneration : n < m[2] => mat[<<m[1], n>>].st \in Terminal

Served(m) ==
  /\ mat[m].st = "PROVISIONING" /\ mat'[m].st = "READY" /\ Revised(m)
  /\ mat'[m].tgt = mat[m].tgt /\ mat'[m].done = mat[m].done /\ SameHold(m)

Touched(m) == mat[m].st = "READY" /\ Revised(m) /\ SameRow(m) /\ SameHold(m)

Closed(m) ==
  /\ mat[m].st \in {"PROVISIONING", "READY"} /\ Revised(m)
  /\ mat'[m].st \in Cleaning /\ mat'[m].tgt \in Terminal
  /\ mat'[m].tgt = "FAILED" <=> mat[m].st = "PROVISIONING"
  /\ mat'[m].done = mat[m].done /\ SameHold(m)

Interrupted(m) ==
  /\ mat[m].st \in Cleaning /\ mat'[m].st = "QUARANTINED" /\ Revised(m)
  /\ mat'[m].tgt = mat[m].tgt /\ mat'[m].done = mat[m].done /\ SameHold(m)

Stepped(m) ==
  /\ mat[m].st \in Cleaning /\ Revised(m)
  /\ \E k \in Steps \ {"destroy"} :
       /\ k \notin mat[m].done /\ Prior(k) \subseteq mat[m].done
       /\ mat'[m].st = mat[m].st /\ mat'[m].tgt = mat[m].tgt
       /\ mat'[m].done = mat[m].done \cup {k}
       /\ lease'[m] = IF k = "release" THEN "RELEASED" ELSE lease[m]
       /\ gen'[m] = IF k = "fence" THEN "FENCED"
                    ELSE IF k = "release" THEN "RELEASED" ELSE gen[m]

Ended(m) ==
  /\ mat[m].st \in Cleaning /\ mat'[m].st = mat[m].tgt /\ Revised(m)
  /\ "release" \in mat[m].done /\ mat'[m].done = mat[m].done \cup {"destroy"}
  /\ mat'[m].tgt = mat[m].tgt /\ SameHold(m)

RowStep(m) ==
  \/ Kept(m) \/ Admitted(m) \/ Served(m) \/ Touched(m)
  \/ Closed(m) \/ Interrupted(m) \/ Stepped(m) \/ Ended(m)

\* A step of any kind keeps the row, the lease and the generation in agreement.
LEMMA RowStepFits ==
  ASSUME Typed, Typed', NEW m \in Mats, RowFits(m), RowStep(m)
  PROVE  RowFits(m)'
<1> USE DEF RowFits
<1>1. mat[m] \in Rows /\ mat'[m] \in Rows
  BY DEF Typed, DatabaseTyped
<1>2. CASE Kept(m)
  BY <1>2 DEF Kept
<1>3. CASE Admitted(m)
  BY <1>3 DEF Admitted, Cleaning, Transitional, Terminal
<1>4. CASE Served(m)
  BY <1>4 DEF Served, SameHold, Cleaning, Transitional, Terminal
<1>5. CASE Touched(m)
  BY <1>5 DEF Touched, SameRow, SameHold
<1>6. CASE Closed(m)
  BY <1>6 DEF Closed, SameHold, Cleaning, Transitional, Terminal
<1>7. CASE Interrupted(m)
  BY <1>7 DEF Interrupted, SameHold, Cleaning, Transitional, Terminal
<1>8. CASE Stepped(m)
  BY <1>8 DEF Stepped, Cleaning, Transitional, Terminal, Steps, RuntimeSteps, Prior
<1>9. CASE Ended(m)
  BY <1>1, <1>9 DEF Ended, SameHold, Cleaning, Transitional, Terminal, Steps, RuntimeSteps,
    Prior, Rows
<1> QED
  BY <1>2, <1>3, <1>4, <1>5, <1>6, <1>7, <1>8, <1>9 DEF RowStep

\* A terminal row is left as it is.
LEMMA TerminalKept ==
  ASSUME Typed, NEW m \in Mats, RowFits(m), RowStep(m), mat[m].st \in Terminal
  PROVE  Kept(m)
  BY DEF RowStep, RowFits, Admitted, Served, Touched, Closed, Interrupted, Stepped, Ended,
     Cleaning, Transitional, Terminal

-----------------------------------------------------------------------------
(* Every action is such a step.                                            *)

\* A step that leaves the three tables alone keeps every row.
LEMMA Untouched == UNCHANGED <<mat, lease, gen>> => \A m \in Mats : RowStep(m)
  BY DEF RowStep, Kept

\* A transaction on the row of m alone is judged by what it does to m.
LEMMA OneRow ==
  ASSUME Typed, NEW m \in Mats, NEW r, mat' = [mat EXCEPT ![m] = r],
         UNCHANGED <<lease, gen>>,
         mat'[m] = r => RowStep(m)
  PROVE  \A n \in Mats : RowStep(n)
<1>1. mat'[m] = r
  BY DEF Typed, DatabaseTyped
<1>2. \A n \in Mats : n # m => mat'[n] = mat[n]
  BY DEF Typed, DatabaseTyped
<1> QED
  BY <1>1, <1>2 DEF RowStep, Kept

\* Moving a call to a point where it holds no step leaves the others bounded.
LEMMA CallMoved ==
  ASSUME Typed, CommitsBounded, NEW s \in Calls, NEW k, call' = [call EXCEPT ![s] = k],
         k.pc \in {"act", "commit"} => "release" \notin k.cur.done
  PROVE  CommitsBounded'
  BY DEF Typed, CallsTyped, CommitsBounded

\* A call that moves to a point where it holds no step stays bounded.
LEMMA GotoBounded ==
  ASSUME Typed, CommitsBounded, NEW s \in Calls, NEW pc, Goto(s, pc),
         pc \notin {"act", "commit"}
  PROVE  CommitsBounded'
<1>1. \A t \in Calls : /\ call'[t].pc = IF t = s THEN pc ELSE call[t].pc
                       /\ call'[t].cur = call[t].cur
  BY DEF Typed, CallsTyped, CallStates, Goto
<1> QED
  BY <1>1 DEF CommitsBounded

\* A call that returns holds no step.
LEMMA ReturnBounded ==
  ASSUME Typed, CommitsBounded, NEW s \in Calls, Return(s)
  PROVE  CommitsBounded'
  BY CallMoved DEF Return, IdleCall

\* A call that begins holds no step.
LEMMA BeginBounded ==
  ASSUME Typed, CommitsBounded, NEW s \in Calls, NEW c, NEW pc, NEW m, Begin(s, c, pc, m),
         pc \notin {"act", "commit"}
  PROVE  CommitsBounded'
  BY CallMoved DEF Begin, IdleCall

\* Calls left alone stay bounded.
LEMMA SameBounded == CommitsBounded /\ UNCHANGED call => CommitsBounded'
  BY DEF CommitsBounded

\* What each edit of a row sets.
LEMMA Edits ==
  ASSUME NEW r \in Rows, NEW st
  PROVE  /\ Moved(r, st).st = st /\ Moved(r, st).tgt = r.tgt /\ Moved(r, st).done = r.done
         /\ Orphaned(r).st = "QUARANTINED" /\ Orphaned(r).tgt = "FAILED"
         /\ Orphaned(r).done = r.done
         /\ Closing(r, st).st = TransitionOf(st) /\ Closing(r, st).tgt = st
         /\ Closing(r, st).done = r.done
         /\ r.rev < Moved(r, st).rev /\ r.rev < Orphaned(r).rev /\ r.rev < Closing(r, st).rev
  BY DEF Rows, Moved, Orphaned, Closing

\* What a stamp sets (mark_evidence_persisted and its siblings).
LEMMA Stamping ==
  ASSUME NEW r \in Rows, NEW k
  PROVE  /\ Stamped(r, k).st = r.st /\ Stamped(r, k).tgt = r.tgt
         /\ Stamped(r, k).done = r.done \cup {k} /\ r.rev < Stamped(r, k).rev
  BY DEF Rows, Stamped

\* A cleanup passes through a state of its own.
LEMMA TransitionCleans == \A t \in Terminal \ {"FAILED"} : TransitionOf(t) \in Cleaning
  BY DEF TransitionOf, Terminal, Cleaning, Transitional

RowSteps == \A m \in Mats : RowStep(m)

\* Admission writes the next generation of an execution that has no active one.
LEMMA ReserveSteps ==
  ASSUME Consistent, NEW s \in Calls, NEW c \in Commands, NEW p \in Policies,
         NEW n \in 1..MaxGeneration, Reserve(s, c, p, n)
  PROVE  RowSteps /\ CommitsBounded'
<1> DEFINE m == <<Target[c], n>>
<1>1. m \in Mats /\ m[1] = Target[c] /\ m[2] = n
  BY TargetAssumption DEF Mats
<1>2. mat[m] \in Rows /\ mat'[m] = [mat[m] EXCEPT !.st = "PROVISIONING", !.rev = 1]
  BY <1>1 DEF Reserve, Consistent, Typed, DatabaseTyped
<1>3. lease'[m] = "ACTIVE" /\ gen'[m] = "ACTIVE"
  BY <1>1 DEF Reserve, Consistent, Typed, DatabaseTyped
<1>4. \A o \in Mats : o # m => Kept(o)
  BY DEF Reserve, Kept, Consistent, Typed, DatabaseTyped
<1>5. \A k \in 1..MaxGeneration : /\ mat[<<Target[c], k>>].st # "NONE" <=> k < n
                                 /\ mat[<<Target[c], k>>].st \notin Active
  BY DEF Reserve, IsNextGeneration, Admissible, HasActive
<1>6. \A k \in 1..MaxGeneration : k < n => mat[<<Target[c], k>>].st \in Terminal
  <2> TAKE k \in 1..MaxGeneration
  <2>1. <<Target[c], k>> \in Mats
    BY TargetAssumption DEF Mats
  <2>2. mat[<<Target[c], k>>] \in Rows
    BY <2>1 DEF Consistent, Typed, DatabaseTyped
  <2> QED
    BY <1>5, <2>2 DEF Rows
<1>7. mat[m].st = "NONE" /\ mat[m].rev = 0
  BY <1>1, <1>5 DEF Consistent, RowsFit, RowFits
<1>8. Admitted(m)
  BY <1>1, <1>2, <1>3, <1>6, <1>7 DEF Admitted, Revised, Rows
<1>9. RowSteps
  BY <1>4, <1>8 DEF RowSteps, RowStep
<1>10. CommitsBounded'
  BY BeginBounded DEF Reserve, Consistent
<1> QED
  BY <1>9, <1>10

\* No other claim writes a row.
LEMMA ClaimSteps ==
  ASSUME Consistent, NEW s \in Calls, NEW c \in Commands, Claim(s, c)
  PROVE  RowSteps /\ CommitsBounded'
<1>1. CASE \E p \in Policies : \E n \in 1..MaxGeneration : Reserve(s, c, p, n)
  BY <1>1, ReserveSteps
<1>2. CASE \E p \in Policies : Refuse(s, c, p)
  BY <1>2, Untouched, SameBounded DEF Refuse, RowSteps, Consistent
<1>3. CASE RecoverProvision(s, c)
  BY <1>3, Untouched, BeginBounded DEF RecoverProvision, RowSteps, Consistent, database
<1>4. CASE \E m \in Mats : ClaimGuarded(s, c, m)
  BY <1>4, Untouched, BeginBounded DEF ClaimGuarded, RowSteps, Consistent, database
<1>5. CASE ClaimByExecution(s, c)
  BY <1>5, Untouched, BeginBounded DEF ClaimByExecution, RowSteps, Consistent, database
<1>6. CASE TakeOver(s, c)
  <2>1. ResumePoint(c) \notin {"act", "commit"}
    BY DEF ResumePoint
  <2> QED
    BY <1>6, <2>1, Untouched, BeginBounded DEF TakeOver, RowSteps, Consistent, database
<1> QED
  BY <1>1, <1>2, <1>3, <1>4, <1>5, <1>6 DEF Claim

\* A provision makes its row READY, or closes it to be cleaned up as failed.
LEMMA ProvisionSteps ==
  ASSUME Consistent, NEW s \in Calls, ProvisionStep(s)
  PROVE  RowSteps /\ CommitsBounded'
<1> USE DEF Consistent
<1> DEFINE m == call[s].m
<1>1. CASE CheckProvision(s)
  BY <1>1, Untouched, GotoBounded DEF CheckProvision, RowSteps, database
<1>2. CASE RuntimeProvision(s)
  BY <1>2, Untouched, GotoBounded DEF RuntimeProvision, RowSteps, database
<1>3. CASE RuntimeRejects(s)
  BY <1>3, Untouched, GotoBounded DEF RuntimeRejects, RowSteps, database
<1>4. CASE CompleteReady(s)
  <2>1. m \in Mats /\ mat[m] \in Rows
    BY <1>4, Working DEF CompleteReady
  <2>2. mat'[m] = Moved(mat[m], "READY") => Served(m)
    BY <1>4, <2>1, Edits DEF CompleteReady, CanMarkReady, Served, Revised, SameHold
  <2>3. RowSteps
    BY <1>4, <2>1, <2>2, OneRow DEF CompleteReady, RowSteps, RowStep
  <2> QED
    BY <1>4, <2>3, ReturnBounded DEF CompleteReady
<1>5. CASE StartFailed(s)
  <2> DEFINE row == IF mat[m].st = "PROVISIONING" THEN Orphaned(mat[m]) ELSE mat[m]
  <2>1. m \in Mats /\ mat[m] \in Rows
    BY <1>5, Working DEF StartFailed
  <2>2. mat'[m] = row => RowStep(m)
    <3>1. CASE mat[m].st = "PROVISIONING"
      <4>1. mat'[m] = row => Closed(m)
        BY <1>5, <2>1, <3>1, Edits
        DEF StartFailed, Closed, Revised, SameHold, Cleaning, Terminal
      <4> QED
        BY <4>1 DEF RowStep
    <3>2. CASE mat[m].st # "PROVISIONING"
      BY <1>5, <3>2 DEF StartFailed, RowStep, Kept
    <3> QED
      BY <3>1, <3>2
  <2>3. RowSteps
    <3>1. mat' = [mat EXCEPT ![m] = row] /\ UNCHANGED <<lease, gen>>
      BY <1>5 DEF StartFailed
    <3> HIDE DEF row
    <3> QED
      BY <2>1, <2>2, <3>1, OneRow DEF RowSteps
  <2>4. CommitsBounded'
    <3> DEFINE k == [call[s] EXCEPT !.cur = row,
                       !.pc = IF row.st = "FAILED" THEN "finish" ELSE "read"]
    <3>1. call' = [call EXCEPT ![s] = k]
      BY <1>5 DEF StartFailed
    <3> HIDE DEF row
    <3>2. k.pc \notin {"act", "commit"}
      BY DEF Typed, CallsTyped, CallStates
    <3> HIDE DEF k
    <3> QED
      BY <3>1, <3>2, CallMoved
  <2> QED
    BY <2>3, <2>4
<1> QED
  BY <1>1, <1>2, <1>3, <1>4, <1>5 DEF ProvisionStep

\* A command under a guard touches or closes the ready row it named.
LEMMA GuardedSteps ==
  ASSUME Consistent, NEW s \in Calls, GuardedStep(s)
  PROVE  RowSteps /\ CommitsBounded'
<1> USE DEF Consistent
<1> DEFINE m == call[s].m
<1>1. CASE BeginCleanup(s)
  <2> DEFINE t == TerminalOf(Op[Cmd(s)])
  <2>1. m \in Mats /\ mat[m] \in Rows /\ t \in {"RELEASED", "FINALIZED"}
    BY <1>1, Working DEF BeginCleanup, TerminalOf
  <2>2. mat'[m] = Closing(mat[m], t) => Closed(m)
    BY <1>1, <2>1, Edits, TransitionCleans DEF BeginCleanup, Guarded, Closed, Revised, SameHold, Terminal
  <2>3. RowSteps
    BY <1>1, <2>1, <2>2, OneRow DEF BeginCleanup, RowSteps, RowStep
  <2> QED
    BY <1>1, <2>3, GotoBounded DEF BeginCleanup
<1>2. CASE BeginPreview(s)
  <2> DEFINE r == [mat[m] EXCEPT !.rev = @ + 1]
  <2>1. m \in Mats /\ mat[m] \in Rows
    BY <1>2, Working DEF BeginPreview
  <2>2. mat'[m] = r => Touched(m)
    BY <1>2, <2>1 DEF BeginPreview, Guarded, Touched, Revised, SameRow, SameHold, Rows
  <2>3. mat' = [mat EXCEPT ![m] = r] /\ UNCHANGED <<lease, gen>>
    BY <1>2 DEF BeginPreview
  <2> HIDE DEF r
  <2>4. RowSteps
    BY <2>1, <2>2, <2>3, OneRow DEF RowSteps, RowStep
  <2> QED
    BY <1>2, <2>4, GotoBounded DEF BeginPreview
<1>3. CASE Refused(s) \/ RuntimePublish(s) \/ RuntimeRefusesPreview(s)
  BY <1>3, Untouched, GotoBounded
  DEF Refused, RuntimePublish, RuntimeRefusesPreview, RowSteps, database
<1>4. CASE Deny(s)
  BY <1>4, Untouched, ReturnBounded DEF Deny, RowSteps, database
<1>5. CASE CompletePreview(s)
  BY <1>5, Untouched, ReturnBounded, GotoBounded DEF CompletePreview, RowSteps
<1> QED
  BY <1>1, <1>2, <1>3, <1>4, <1>5 DEF GuardedStep

\* A cancellation closes the ready row it finds, or leaves a terminal one.
LEMMA CancelSteps ==
  ASSUME Consistent, NEW s \in Calls, CancelStep(s)
  PROVE  RowSteps /\ CommitsBounded'
<1> USE DEF Consistent
<1>1. ASSUME NEW m \in Mats, BeginCancel(s, m) PROVE RowSteps /\ CommitsBounded'
  <2> DEFINE t == TerminalOf(Op[Cmd(s)])
  <2>0. /\ mat[m].st = "READY" => mat' = [mat EXCEPT ![m] = Closing(@, t)]
        /\ mat[m].st # "READY" => mat' = mat
        /\ UNCHANGED <<lease, gen>>
    BY <1>1 DEF BeginCancel
  <2>1. mat[m] \in Rows /\ t \in {"CANCELED", "TIMED_OUT"}
    <3>1. Op[Cmd(s)] \in {"cancel", "timeout"}
      BY <1>1 DEF BeginCancel
    <3>2. t \in {"CANCELED", "TIMED_OUT"}
      BY <3>1 DEF TerminalOf
    <3> QED
      BY <3>2 DEF Typed, DatabaseTyped
  <2> HIDE DEF t
  <2>2. mat'[m] = Closing(mat[m], t) /\ mat[m].st = "READY" => Closed(m)
    BY <2>0, <2>1, Edits, TransitionCleans DEF Closed, Revised, SameHold, Terminal
  <2>3. ASSUME mat[m].st = "READY" PROVE RowSteps
    BY <2>0, <2>2, <2>3, OneRow DEF RowSteps, RowStep
  <2>4. ASSUME mat[m].st # "READY" PROVE RowSteps
    BY <2>0, <2>4, Untouched DEF RowSteps
  <2>5. CommitsBounded'
    <3> DEFINE k == [call[s] EXCEPT !.m = m,
                       !.pc = IF mat[m].st = "READY" THEN "read" ELSE "already"]
    <3>1. k.pc \notin {"act", "commit"}
      BY DEF Typed, CallsTyped, CallStates
    <3>2. call' = [call EXCEPT ![s] = k]
      BY <1>1 DEF BeginCancel
    <3> HIDE DEF k
    <3> QED
      BY <3>1, <3>2, CallMoved
  <2> QED
    BY <2>3, <2>4, <2>5
<1>2. CASE ResumeCancel(s)
  BY <1>2, Untouched, GotoBounded DEF ResumeCancel, RowSteps, database
<1>3. CASE AlreadyTerminal(s)
  BY <1>3, Untouched, ReturnBounded DEF AlreadyTerminal, RowSteps, database
<1> QED
  BY <1>1, <1>2, <1>3 DEF CancelStep

\* A committed step stamps the row and moves its lease and generation with it.
LEMMA CommitSteps ==
  ASSUME Consistent, NEW s \in Calls, NEW k \in Steps, CommitStep(s, k)
  PROVE  RowSteps /\ CommitsBounded'
<1> USE DEF Consistent
<1> DEFINE m == call[s].m
<1>1. /\ m \in Mats /\ mat[m] \in Rows /\ call[s].pc = "commit"
      /\ k \in Pending(call[s].cur) /\ CanCommit(s, k)
  BY Working DEF CommitStep
<1>2. k # "destroy"
  BY <1>1 DEF Pending, Prior, CommitsBounded
<1>3. /\ mat'[m] = Stamped(mat[m], k)
      /\ \A n \in Mats : n # m => mat'[n] = mat[n]
  BY <1>1 DEF CommitStep, Typed, DatabaseTyped
<1>4. /\ mat'[m].st = mat[m].st /\ mat'[m].tgt = mat[m].tgt
      /\ mat'[m].done = mat[m].done \cup {k} /\ Revised(m)
  BY <1>1, <1>3, Stamping DEF Revised
<1>5. /\ lease'[m] = IF k = "release" THEN "RELEASED" ELSE lease[m]
      /\ \A n \in Mats : n # m => lease'[n] = lease[n]
  BY <1>1 DEF CommitStep, Typed, DatabaseTyped
<1>6. RowFits(m) /\ k \notin mat[m].done /\ Prior(k) \subseteq mat[m].done
  BY <1>1 DEF CanCommit, RowsFit
<1>7. mat[m].st \in Cleaning
  <2>1. k = "evidence" => mat[m].st \in Cleaning
    BY <1>1 DEF CanCommit
  <2>2. k # "evidence" => mat[m].done # {}
    BY <1>6 DEF Prior, Steps, RuntimeSteps
  <2>3. mat[m].st \notin Terminal
    BY <1>6 DEF RowFits
  <2> QED
    BY <1>1, <1>6, <2>1, <2>2, <2>3 DEF RowFits, Rows, Active
<1>8. /\ gen'[m] = IF k = "fence" THEN "FENCED"
                   ELSE IF k = "release" /\ gen[m] = "FENCED" THEN "RELEASED" ELSE gen[m]
      /\ \A n \in Mats : n # m => gen'[n] = gen[n]
  BY <1>1 DEF CommitStep, Typed, DatabaseTyped
<1>9. k = "release" => gen[m] = "FENCED"
  <2>1. k = "release" => "revoke" \in mat[m].done /\ "release" \notin mat[m].done
    BY <1>6 DEF Prior
  <2>2. k = "release" => "fence" \in mat[m].done
    BY <1>6, <2>1 DEF RowFits, Prior
  <2>3. mat[m].st # "NONE"
    BY <1>7 DEF Cleaning, Transitional
  <2> QED
    BY <1>6, <2>1, <2>2, <2>3 DEF RowFits
<1>10. Stepped(m)
  BY <1>2, <1>4, <1>5, <1>6, <1>7, <1>8, <1>9 DEF Stepped
<1>11. RowSteps
  BY <1>3, <1>5, <1>8, <1>10 DEF RowSteps, RowStep, Kept
<1>12. CommitsBounded'
  BY GotoBounded DEF CommitStep
<1> QED
  BY <1>11, <1>12

\* Completing a cleanup gives it the outcome it was begun with.
LEMMA FinishedSteps ==
  ASSUME Consistent, NEW m \in Mats, NEW t, NEW row, CanComplete(m, t, row), Finished(m, t),
         UNCHANGED <<lease, gen>>
  PROVE  RowSteps
<1> USE DEF Consistent
<1> DEFINE r == [Stamped(mat[m], "destroy") EXCEPT !.st = t]
<1>1. /\ mat[m] \in Rows /\ RowFits(m)
      /\ mat[m].tgt = t /\ "release" \in mat[m].done /\ "destroy" \notin mat[m].done
  BY DEF Typed, DatabaseTyped, RowsFit, CanComplete
<1>2. mat[m].st \in Cleaning
  BY <1>1 DEF RowFits, Rows, Active, Steps
<1>3. /\ r.st = t /\ r.tgt = mat[m].tgt /\ r.done = mat[m].done \cup {"destroy"}
      /\ mat[m].rev < r.rev
  BY <1>1 DEF Rows, Stamped
<1>4. mat' = [mat EXCEPT ![m] = r]
  BY DEF Finished
<1> HIDE DEF r
<1>5. mat'[m] = r => Ended(m)
  BY <1>1, <1>2, <1>3 DEF Ended, Revised, SameHold
<1> QED
  BY <1>4, <1>5, OneRow DEF RowSteps, RowStep

\* The common cleanup chain.
LEMMA CleanupSteps ==
  ASSUME Consistent, NEW s \in Calls, CleanupStep(s)
  PROVE  RowSteps /\ CommitsBounded'
<1> USE DEF Consistent
<1> DEFINE m == call[s].m
<1>1. CASE ReadRecord(s)
  <2> DEFINE row == mat[m]
             pc == IF call[s].pc = "read" /\ row.st \in Terminal THEN "finish"
                   ELSE IF ~(RuntimeSteps \subseteq row.done) THEN "act"
                   ELSE IF "release" \notin row.done THEN "commit" ELSE "destroy"
             k == [call[s] EXCEPT !.cur = row, !.pc = pc]
  <2>1. m \in Mats /\ call[s] \in CallStates
    BY <1>1, Working DEF ReadRecord
  <2>2. "release" \in row.done => RuntimeSteps \subseteq row.done
    BY <2>1 DEF RowsFit, RowFits, RuntimeSteps, Prior
  <2>3. pc \in {"act", "commit"} => "release" \notin row.done
    BY <2>2
  <2>4. call' = [call EXCEPT ![s] = k]
    BY <1>1 DEF ReadRecord
  <2> HIDE DEF row, pc
  <2>5. k.pc = pc /\ k.cur = row
    BY <2>1 DEF CallStates
  <2> HIDE DEF k
  <2>6. CommitsBounded'
    BY <2>3, <2>4, <2>5, CallMoved
  <2> QED
    BY <1>1, <2>6, Untouched DEF ReadRecord, RowSteps, database
<1>2. CASE RuntimeDestroy(s)
  BY <1>2, Untouched, GotoBounded DEF RuntimeDestroy, RowSteps, database
<1>3. CASE FinishCommand(s)
  <2>1. m \in Mats
    BY <1>3, Working DEF FinishCommand
  <2>2. ASSUME SettledFor(s) PROVE RowSteps
    BY <1>3, <2>2, Untouched DEF FinishCommand, RowSteps
  <2>3. ASSUME ~SettledFor(s) PROVE RowSteps
    BY <1>3, <2>1, <2>3, FinishedSteps DEF FinishCommand, CanFinish
  <2> QED
    BY <1>3, <2>2, <2>3, ReturnBounded DEF FinishCommand
<1>4. CASE Quarantine(s)
  <2>1. /\ m \in Mats /\ mat[m] \in Rows
        /\ mat[m].st \in Cleaning /\ UNCHANGED <<lease, gen>>
    <3>1. call[s].pc = "quarantine" /\ CanQuarantine(s) /\ UNCHANGED <<lease, gen>>
      BY <1>4 DEF Quarantine
    <3> QED
      BY <3>1, Working DEF CanQuarantine
  <2>2. mat'[m] = Moved(mat[m], "QUARANTINED") => Interrupted(m)
    BY <2>1, Edits DEF Interrupted, Revised, SameHold
  <2>3. RowSteps
    BY <1>4, <2>1, <2>2, OneRow DEF Quarantine, RowSteps, RowStep
  <2> QED
    BY <1>4, <2>3, ReturnBounded, GotoBounded DEF Quarantine
<1>5. ASSUME NEW k \in Steps, RuntimeStep(s, k) PROVE RowSteps /\ CommitsBounded'
  <2>1. call[s].pc = "act" /\ Goto(s, "commit") /\ UNCHANGED <<mat, lease, gen>>
    BY <1>5 DEF RuntimeStep, database
  <2>2. \A t \in Calls : /\ call'[t].pc = IF t = s THEN "commit" ELSE call[t].pc
                         /\ call'[t].cur = call[t].cur
    BY <2>1 DEF Typed, CallsTyped, CallStates, Goto
  <2>3. CommitsBounded'
    BY <2>1, <2>2 DEF CommitsBounded
  <2> QED
    BY <2>1, <2>3, Untouched DEF RowSteps
<1>6. ASSUME NEW k \in Steps, CommitStep(s, k) PROVE RowSteps /\ CommitsBounded'
  BY <1>6, CommitSteps
<1> QED
  BY <1>1, <1>2, <1>3, <1>4, <1>5, <1>6 DEF CleanupStep

\* The reconciler closes the orphaned and the expired, and finishes the rest.
LEMMA ReconcileSteps ==
  ASSUME Consistent, NEW s \in Calls, ReconcileStep(s)
  PROVE  RowSteps /\ CommitsBounded'
<1> USE DEF Consistent
<1>1. CASE Scan(s)
  <2> DEFINE found == IF receipt[Cmd(s)].scanned THEN receipt[Cmd(s)].left ELSE Candidates
             k == [call[s] EXCEPT !.pc = "pick",
                     !.seen = [m \in Mats |-> IF m \in found THEN mat[m] ELSE NoRow]]
  <2>1. call' = [call EXCEPT ![s] = k]
    BY <1>1 DEF Scan
  <2> HIDE DEF found
  <2>2. k.pc = "pick"
    BY DEF Typed, CallsTyped, CallStates
  <2> HIDE DEF k
  <2>3. CommitsBounded'
    BY <2>1, <2>2, CallMoved
  <2> QED
    BY <1>1, <2>3, Untouched DEF Scan, RowSteps, database
<1>2. CASE FinishItem(s)
  <2> DEFINE m == call[s].m  cur == call[s].cur
  <2>1. m \in Mats
    BY <1>2, Working DEF FinishItem
  <2>2. ASSUME cur.st = cur.tgt PROVE RowSteps
    BY <1>2, <2>2, Untouched DEF FinishItem, RowSteps
  <2>3. ASSUME cur.st # cur.tgt PROVE RowSteps
    BY <1>2, <2>1, <2>3, FinishedSteps DEF FinishItem, CanFinishItem
  <2> QED
    BY <1>2, <2>2, <2>3, GotoBounded DEF FinishItem
<1>3. CASE Report(s)
  BY <1>3, Untouched, ReturnBounded DEF Report, RowSteps, database
<1>4. ASSUME NEW m \in Mats, PickCandidate(s, m) PROVE RowSteps /\ CommitsBounded'
  <2> DEFINE st == call[s].seen[m].st
             k == [call[s] EXCEPT !.pc = "read", !.m = m, !.seen[m] = NoRow]
  <2>1. mat[m] \in Rows /\ CanPick(s, m) /\ mat' = Opened(m, st) /\ UNCHANGED <<lease, gen>>
    BY <1>4 DEF PickCandidate, Typed, DatabaseTyped
  <2>2. ASSUME st = "PROVISIONING" PROVE RowSteps
    <3>1. mat' = [mat EXCEPT ![m] = Orphaned(@)] /\ mat[m].st = "PROVISIONING"
      BY <2>1, <2>2 DEF Opened, CanPick
    <3>2. mat'[m] = Orphaned(mat[m]) => Closed(m)
      BY <2>1, <3>1, Edits DEF Closed, Revised, SameHold, Cleaning, Terminal
    <3> QED
      BY <2>1, <3>1, <3>2, OneRow DEF RowSteps, RowStep
  <2>3. ASSUME st = "READY" PROVE RowSteps
    <3>1. mat' = [mat EXCEPT ![m] = Closing(@, "TIMED_OUT")] /\ mat[m].st = "READY"
      BY <2>1, <2>3 DEF Opened, CanPick
    <3>2. mat'[m] = Closing(mat[m], "TIMED_OUT") => Closed(m)
      BY <2>1, <3>1, Edits, TransitionCleans DEF Closed, Revised, SameHold, Terminal
    <3> QED
      BY <2>1, <3>1, <3>2, OneRow DEF RowSteps, RowStep
  <2>4. ASSUME st \notin {"PROVISIONING", "READY"} PROVE RowSteps
    BY <2>1, <2>4, Untouched DEF Opened, RowSteps
  <2>5. CommitsBounded'
    <3>1. call' = [call EXCEPT ![s] = k]
      BY <1>4 DEF PickCandidate
    <3>2. k.pc = "read"
      BY DEF Typed, CallsTyped, CallStates
    <3> HIDE DEF k
    <3> QED
      BY <3>1, <3>2, CallMoved
  <2> QED
    BY <2>2, <2>3, <2>4, <2>5
<1> QED
  BY <1>1, <1>2, <1>3, <1>4 DEF ReconcileStep

\* Faults and time write no row of the database.
LEMMA OutsideSteps ==
  ASSUME Consistent,
         Time \/ \E s \in Calls : Fault(s) \/ Raise(s)
  PROVE  RowSteps /\ CommitsBounded'
<1> USE DEF Consistent
<1>1. ASSUME NEW s \in Calls, Fault(s) \/ Raise(s) PROVE RowSteps /\ CommitsBounded'
  BY <1>1, Untouched, GotoBounded, ReturnBounded
  DEF Fault, ProvisionFails, CleanupFails, Crash, Raise, RowSteps, database
<1>2. CASE Time
  BY <1>2, Untouched, SameBounded DEF Time, Lapse, Overrun, NewKey, Expire, RowSteps, database
<1> QED
  BY <1>1, <1>2

\* Whatever the system does, every row is kept or takes one of the seven steps.
LEMMA NextSteps ==
  ASSUME Consistent, [Next]_vars
  PROVE  RowSteps /\ CommitsBounded'
<1>1. ASSUME NEW s \in Calls, Run(s) PROVE RowSteps /\ CommitsBounded'
  BY <1>1, ProvisionSteps, GuardedSteps, CancelSteps, CleanupSteps, ReconcileSteps,
     OutsideSteps DEF Run
<1>2. CASE UNCHANGED vars
  BY <1>2, Untouched, SameBounded DEF Consistent, vars, RowSteps
<1> QED
  BY <1>1, <1>2, ClaimSteps, OutsideSteps DEF Next

-----------------------------------------------------------------------------
(* The invariant and what follows from it.                                 *)

\* The agreement holds at the start.
LEMMA InitConsistent == Init => Consistent
  BY InitTyped DEF Init, Consistent, RowsFit, RowFits, CommitsBounded, NoRow, IdleCall,
     Cleaning, Transitional, Terminal

\* Every step keeps it.
LEMMA ConsistentStep ==
  ASSUME Consistent, [Next]_vars
  PROVE  Consistent'
<1>1. Typed /\ Typed' /\ RowSteps /\ CommitsBounded'
  BY NextTyped, NextSteps DEF Consistent
<1>2. RowsFit'
  BY <1>1, RowStepFits DEF RowSteps, RowsFit, Consistent
<1> QED
  BY <1>1, <1>2 DEF Consistent

\* Every state the controller reaches keeps rows, leases and generations in
\* agreement: a cleanup stamp is never there without the one before it, a
\* lease is active exactly until its release is stamped.
THEOREM AlwaysConsistent == Spec => []Consistent
  BY InitConsistent, ConsistentStep, PTL DEF Spec

\* The outcome a cleanup was begun with is the outcome it ends with, and what
\* it has stamped stays stamped (begin_cleanup, complete_cleanup).
LEMMA IntentStep ==
  ASSUME Consistent, RowSteps, NEW m \in Mats
  PROVE  /\ mat[m].tgt # "NONE" => mat'[m].tgt = mat[m].tgt
         /\ mat[m].st \in Cleaning => mat'[m].st \in {mat[m].st, "QUARANTINED", mat[m].tgt}
         /\ mat[m].st \in Terminal => mat'[m] = mat[m]
         /\ mat[m].done \subseteq mat'[m].done
<1>1. RowStep(m) /\ RowFits(m) /\ Typed
  BY DEF RowSteps, Consistent, RowsFit
<1>2. mat[m].st \in Terminal => mat'[m] = mat[m]
  BY <1>1, TerminalKept DEF Kept
<1>3. mat[m].tgt # "NONE" => mat[m].st \notin {"NONE", "PROVISIONING", "READY"}
  BY <1>1 DEF RowFits
<1>4. mat[m].st \in Cleaning => mat[m].st \notin {"NONE", "PROVISIONING", "READY"}
  BY DEF Cleaning, Transitional
<1> QED
  BY <1>1, <1>2, <1>3, <1>4
  DEF RowStep, Kept, Admitted, Served, Touched, SameRow, Closed, Interrupted, Stepped, Ended

\* No call, however late or repeated, redirects or undoes a cleanup.
THEOREM IntentStays == Spec => IntentIsFinal
<1> DEFINE A == \A m \in Mats :
       /\ mat[m].tgt # "NONE" => mat'[m].tgt = mat[m].tgt
       /\ mat[m].st \in Cleaning => mat'[m].st \in {mat[m].st, "QUARANTINED", mat[m].tgt}
       /\ mat[m].st \in Terminal => mat'[m] = mat[m]
       /\ mat[m].done \subseteq mat'[m].done
<1>1. Consistent /\ [Next]_vars => A
  BY NextSteps, IntentStep
<1>2. Consistent /\ [Next]_vars => [A]_vars
  BY <1>1
<1> QED
  BY <1>2, AlwaysConsistent, PTL DEF Spec, IntentIsFinal

\* An execution has one current generation: a later one is admitted only when
\* every earlier one is terminal, and a terminal row never comes back.
THEOREM GenerationsInOrder == Spec => []OneCurrentGeneration
<1>1. Init => OneCurrentGeneration
  BY DEF Init, OneCurrentGeneration, NoRow
<1>2. Consistent /\ OneCurrentGeneration /\ [Next]_vars => OneCurrentGeneration'
  <2> SUFFICES ASSUME Consistent, OneCurrentGeneration, [Next]_vars,
                      NEW m \in Mats, NEW n \in Mats,
                      m[1] = n[1], m[2] < n[2], mat'[n].st # "NONE"
               PROVE  (mat[m].st \in Terminal /\ lease[m] = "RELEASED" /\ gen[m] = "RELEASED")'
    BY DEF OneCurrentGeneration
  <2>1. Typed /\ RowStep(m) /\ RowStep(n) /\ RowFits(m)
    BY NextSteps DEF RowSteps, Consistent, RowsFit
  <2>2. mat[m].st \in Terminal
    <3>1. CASE mat[n].st # "NONE"
      BY <3>1 DEF OneCurrentGeneration
    <3>2. CASE mat[n].st = "NONE"
      <4>1. Admitted(n)
        BY <2>1, <3>2 DEF RowStep, Kept, Served, Touched, Closed, Interrupted, Stepped, Ended,
           Cleaning, Transitional
      <4>2. m[2] \in 1..MaxGeneration /\ m = <<n[1], m[2]>>
        BY DEF Mats
      <4> QED
        BY <4>1, <4>2 DEF Admitted
    <3> QED
      BY <3>1, <3>2
  <2>3. Kept(m)
    BY <2>1, <2>2, TerminalKept
  <2>4. lease[m] = "RELEASED" /\ gen[m] = "RELEASED"
    BY <2>1, <2>2 DEF RowFits, Steps, Terminal
  <2> QED
    BY <2>2, <2>3, <2>4 DEF Kept
<1> QED
  BY <1>1, <1>2, AlwaysConsistent, PTL DEF Spec

-----------------------------------------------------------------------------
(* Capacity.                                                               *)

Held == {m \in Mats : lease[m] = "ACTIVE"}

\* CapacityConserved with what it needs to be inductive.
Counted ==
  /\ IsFiniteSet(Held)
  /\ ledger.attempts = Cardinality(Held)
  /\ ledger.policy = NoPolicy => ledger.attempts = 0
  /\ ledger.policy # NoPolicy =>
       ledger.attempts <= ledger.policy.limit /\ ledger.attempts <= ledger.policy.units

SameCapacity == UNCHANGED <<lease, ledger>>

\* Only admission, a refused admission and a committed step touch the ledger.
LEMMA LedgerSteps ==
  ASSUME [Next]_vars
  PROVE  \/ SameCapacity
         \/ \E s \in Calls, c \in Commands, p \in Policies :
              \/ Refuse(s, c, p)
              \/ \E n \in 1..MaxGeneration : Reserve(s, c, p, n)
         \/ \E s \in Calls, k \in Steps : CommitStep(s, k)
<1>1. CASE UNCHANGED vars
  BY <1>1 DEF vars, SameCapacity
<1>2. CASE Time
  BY <1>2 DEF Time, Lapse, Overrun, NewKey, Expire, database, SameCapacity
<1>3. ASSUME NEW s \in Calls, Fault(s) \/ Raise(s) PROVE SameCapacity
  BY <1>3 DEF Fault, ProvisionFails, CleanupFails, Crash, Raise, database, SameCapacity
<1>4. ASSUME NEW s \in Calls, ProvisionStep(s) PROVE SameCapacity
  BY <1>4 DEF ProvisionStep, CheckProvision, RuntimeProvision, RuntimeRejects, CompleteReady,
     StartFailed, database, SameCapacity
<1>5. ASSUME NEW s \in Calls, GuardedStep(s) PROVE SameCapacity
  BY <1>5 DEF GuardedStep, BeginCleanup, Refused, Deny, BeginPreview, RuntimePublish,
     RuntimeRefusesPreview, CompletePreview, database, SameCapacity
<1>6. ASSUME NEW s \in Calls, CancelStep(s) PROVE SameCapacity
  BY <1>6 DEF CancelStep, BeginCancel, ResumeCancel, AlreadyTerminal, database, SameCapacity
<1>7. ASSUME NEW s \in Calls, ReconcileStep(s) PROVE SameCapacity
  BY <1>7 DEF ReconcileStep, Scan, FinishItem, Report, PickCandidate, database, SameCapacity
<1>8. ASSUME NEW s \in Calls, CleanupStep(s)
      PROVE  SameCapacity \/ \E k \in Steps : CommitStep(s, k)
  BY <1>8 DEF CleanupStep, ReadRecord, RuntimeDestroy, FinishCommand, Quarantine, RuntimeStep,
     database, SameCapacity
<1>9. ASSUME NEW s \in Calls, NEW c \in Commands, Claim(s, c)
      PROVE  \/ SameCapacity
             \/ \E p \in Policies : \/ Refuse(s, c, p)
                                    \/ \E n \in 1..MaxGeneration : Reserve(s, c, p, n)
  BY <1>9 DEF Claim, RecoverProvision, ClaimGuarded, ClaimByExecution, TakeOver, database,
     SameCapacity
<1>10. ASSUME NEW s \in Calls, Run(s)
       PROVE  SameCapacity \/ \E k \in Steps : CommitStep(s, k)
  BY <1>3, <1>4, <1>5, <1>6, <1>7, <1>8, <1>10 DEF Run
<1> QED
  BY <1>1, <1>2, <1>3, <1>9, <1>10 DEF Next

\* Admission takes one unit for a lease nobody held.
LEMMA ReserveCounts ==
  ASSUME Consistent, Counted, NEW s \in Calls, NEW c \in Commands, NEW p \in Policies,
         NEW n \in 1..MaxGeneration, Reserve(s, c, p, n)
  PROVE  Counted'
<1> DEFINE m == <<Target[c], n>>
<1>1. m \in Mats
  BY TargetAssumption DEF Mats
<1>2. lease' = [lease EXCEPT ![m] = "ACTIVE"] /\ lease \in [Mats -> {"NONE", "ACTIVE", "RELEASED"}]
  BY DEF Reserve, Consistent, Typed, DatabaseTyped
<1>3. mat[m].st = "NONE"
  BY DEF Reserve, IsNextGeneration
<1>4. m \notin Held
  BY <1>1, <1>3 DEF Held, Consistent, RowsFit, RowFits
<1>5. Held' = Held \cup {m}
  BY <1>1, <1>2 DEF Held
<1>6. IsFiniteSet(Held') /\ Cardinality(Held') = Cardinality(Held) + 1
  BY <1>4, <1>5, FS_AddElement DEF Counted
<1>7. ledger' = [policy |-> p, attempts |-> ledger.attempts + 1]
  BY DEF Reserve
<1>8. ledger.attempts < p.limit /\ ledger.attempts + 1 <= p.units
  BY DEF Reserve, Admissible
<1>9. ledger.attempts \in Nat /\ p.limit \in Nat /\ p.units \in Nat /\ p # NoPolicy
  BY PoliciesAssumption, SentinelAssumption DEF Consistent, Typed, DatabaseTyped
<1>10. ledger'.policy = p /\ ledger'.attempts = ledger.attempts + 1
  BY <1>7
<1> QED
  BY <1>6, <1>8, <1>9, <1>10 DEF Counted

\* A refusal may adopt a snapshot, but only over a ledger that holds nothing.
LEMMA RefuseCounts ==
  ASSUME Consistent, Counted, NEW s \in Calls, NEW c \in Commands, NEW p \in Policies,
         Refuse(s, c, p)
  PROVE  Counted'
<1>1. Held' = Held
  BY DEF Refuse, Held
<1>2. ledger \in [policy : Policies \cup {NoPolicy}, attempts : Nat]
  BY DEF Consistent, Typed, DatabaseTyped
<1>3. p.limit \in Nat /\ p.units \in Nat /\ p # NoPolicy
  BY PoliciesAssumption, SentinelAssumption
<1>4. CASE SnapshotConflict(p)
  BY <1>1, <1>4 DEF Refuse, Adopted, Counted
<1>5. CASE ~SnapshotConflict(p)
  <2>1. ledger'.policy = p /\ ledger'.attempts = ledger.attempts
    BY <1>2, <1>5 DEF Refuse, Adopted
  <2>2. ledger.policy = p \/ ledger.attempts = 0
    BY <1>5 DEF SnapshotConflict, Counted
  <2> QED
    BY <1>1, <1>2, <1>3, <2>1, <2>2 DEF Counted
<1> QED
  BY <1>4, <1>5

\* A released lease gives its unit back, once.
LEMMA CommitCounts ==
  ASSUME Consistent, Counted, NEW s \in Calls, NEW k \in Steps, CommitStep(s, k)
  PROVE  Counted'
<1> DEFINE m == call[s].m
<1>1. m \in Mats
  BY Working DEF CommitStep, Consistent
<1>2. ledger \in [policy : Policies \cup {NoPolicy}, attempts : Nat]
  BY DEF Consistent, Typed, DatabaseTyped
<1>3. CASE k = "release"
  <2>1. /\ lease' = [lease EXCEPT ![m] = "RELEASED"]
        /\ lease[m] = "ACTIVE" /\ ledger.attempts >= 1
        /\ ledger' = [ledger EXCEPT !.attempts = @ - 1]
    BY <1>3 DEF CommitStep, CanCommit
  <2>2. lease \in [Mats -> {"NONE", "ACTIVE", "RELEASED"}]
    BY DEF Consistent, Typed, DatabaseTyped
  <2>3. m \in Held /\ Held' = Held \ {m}
    BY <1>1, <2>1, <2>2 DEF Held
  <2>4. IsFiniteSet(Held') /\ Cardinality(Held') = Cardinality(Held) - 1
    BY <2>3, FS_RemoveElement DEF Counted
  <2>5. ledger'.policy = ledger.policy /\ ledger'.attempts = ledger.attempts - 1
    BY <1>2, <2>1
  <2>6. ledger.attempts \in Nat /\ ledger.policy \in Policies \cup {NoPolicy}
    BY <1>2
  <2> QED
    BY <2>1, <2>4, <2>5, <2>6, PoliciesAssumption DEF Counted
<1>4. CASE k # "release"
  BY <1>4 DEF CommitStep, Held, Counted
<1> QED
  BY <1>3, <1>4

\* The ledger counts the leases nobody has released and never exceeds the
\* policy it was admitted under.
THEOREM CapacityIsConserved == Spec => []CapacityConserved
<1>1. Init => Counted
  BY FS_EmptySet DEF Init, Counted, Held
<1>2. Consistent /\ Counted /\ [Next]_vars => Counted'
  BY LedgerSteps, ReserveCounts, RefuseCounts, CommitCounts DEF SameCapacity, Counted, Held
<1>3. Counted => CapacityConserved
  BY DEF Counted, CapacityConserved, Held
<1> QED
  BY <1>1, <1>2, <1>3, AlwaysConsistent, PTL DEF Spec

-----------------------------------------------------------------------------
(* What calls, receipts and the runtime know of one another.               *)

\* The states of a materialization whose cleanup has begun.
Begun == Cleaning \cup Terminal

\* The locations of the cleanup chain, and those that act on a row read earlier.
Chain   == {"read", "next", "act", "commit", "destroy", "finish", "quarantine"}
Decided == {"act", "commit", "destroy", "finish"}

ProvisionPath == {"check", "provision", "markReady", "fail"}

\* q is what the row r may have become since it was read: the same row, or one
\* of a later revision that keeps every stamp and the course of a cleanup.
Later(r, q) ==
  \/ q = r
  \/ /\ r.rev < q.rev /\ r.done \subseteq q.done
     /\ r.st \notin Terminal /\ q.st # "NONE"
     /\ q.st = "PROVISIONING" => r.st = "NONE"
     /\ r.st = "READY" => q.st \in {"READY"} \cup Begun /\ q.tgt # "FAILED"
     /\ r.st \in Cleaning => q.st \in Begun /\ q.tgt = r.tgt

\* Stamps are taken in order.
Stacked(r) == \A k \in r.done : Prior(k) \subseteq r.done

\* A call in the cleanup chain works on a row whose cleanup has begun, and what
\* it decided to do next follows from a row it read then.
KnowsRow(s) ==
  LET m == call[s].m  cur == call[s].cur  pc == call[s].pc IN
  /\ pc \in Chain \cup {"resume"} => mat[m].st \in Begun
  /\ pc = "already" => mat[m].st \in Terminal
  /\ pc \in Decided => Later(cur, mat[m]) /\ cur.st \in Begun /\ Stacked(cur)
  /\ pc = "act" => ~(RuntimeSteps \subseteq cur.done)
  /\ pc = "destroy" => "release" \in cur.done
  /\ pc = "finish" => cur.st \in Terminal \/ "release" \in cur.done
  /\ \A n \in Mats : call[s].seen[n].st \in Begun => mat[n].st \in Begun

\* A denial of a preview command is never a denial of what the runtime serves.
Unserved(c) ==
  LET m == receipt[c].subject IN
  Op[c] = "preview" =>
    \/ m = NoMat
    \/ mat[m].st \in Begun
    \/ rt[m].previewOp # {} /\ c \notin rt[m].previewOp

\* A call works on the subject of its receipt, from the step that binds it on.
KnowsReceipt(s) ==
  LET m == call[s].m  c == Cmd(s)  pc == call[s].pc IN
  pc # "idle" =>
    /\ pc \in ProvisionPath => Op[c] = "provision"
    /\ Op[c] = "provision" => pc \in ProvisionPath \cup Chain
    /\ pc \in {"publish", "markPublished"} => Op[c] = "preview"
    /\ pc \in {"scan", "pick"} => Op[c] = "reconcile"
    /\ pc \in {"resume", "already"} => Op[c] # "reconcile"
    /\ Op[c] # "reconcile" /\ pc \notin {"begin", "deny"} => receipt[c].subject = m
    /\ receipt[c].owner = s /\ pc = "begin" => receipt[c].subject = NoMat
    /\ receipt[c].owner = s /\ pc = "deny" => Unserved(c)

\* What a call is about to record, the runtime has done.
KnowsRuntime(s) ==
  LET m == call[s].m  cur == call[s].cur  pc == call[s].pc IN
  /\ pc = "markReady" => rt[m].present
  /\ pc = "commit" /\ rt[m].present => Pending(cur) \ {"release"} \subseteq rt[m].done
  /\ pc = "finish" /\ cur.st \notin Terminal /\ rt[m].present => "destroy" \in rt[m].done
  /\ pc = "markPublished" => rt[m].previewOp = {Cmd(s)}

Knows(s) == KnowsRow(s) /\ KnowsReceipt(s) /\ KnowsRuntime(s)

\* An open provision still provisions or is being cleaned up.
HonestProvision(c) ==
  LET r == receipt[c]  m == r.subject IN
  Op[c] = "provision" =>
    /\ m # NoMat => mat[m].st # "NONE"
    /\ r.st = "IN_PROGRESS" => m # NoMat /\ mat[m].st \in {"PROVISIONING"} \cup Begun
    /\ m # NoMat /\ mat[m].st = "PROVISIONING" =>
         r.st = "IN_PROGRESS" /\ r.phase = "RESERVED"

\* Any other bound command found its subject ready, or its cleanup has begun.
HonestSubject(c) ==
  LET r == receipt[c]  m == r.subject IN
  /\ Op[c] \notin {"provision", "preview"} /\ m # NoMat => mat[m].st \in Begun
  /\ Op[c] = "preview" /\ m # NoMat =>
       /\ mat[m].st \in {"READY"} \cup Begun
       /\ r.st = "IN_PROGRESS" => intent[c] = "INTENT"

\* A result says what is true of the subject, now and at any later replay.
HonestResult(c) ==
  LET r == receipt[c]  m == r.subject IN
  /\ r.st = "NONE" => m = NoMat /\ r.cleaned = {}
  /\ r.st # "COMPLETED" => r.result = "NONE"
  /\ r.result \in Terminal => m # NoMat /\ mat[m].st = r.result
  /\ r.result = "READY" =>
       m # NoMat /\ mat[m].st \in {"READY"} \cup Begun /\ mat[m].tgt # "FAILED"
  /\ r.result = "PUBLISHED" =>
       m # NoMat /\ intent[c] = "PUBLISHED" /\ rt[m].previewOp = {c}
  /\ r.result = "DENIED" => Unserved(c)
  /\ \A n \in r.cleaned : mat[n].st \in Terminal

Honest(c) == HonestProvision(c) /\ HonestSubject(c) /\ HonestResult(c)

\* The runtime's record of a runner against the database's.
Mirrors(m) ==
  LET row == mat[m]  u == rt[m] IN
  /\ ~u.present => u.done = {} /\ u.previewOp = {} /\ ~u.preview
  /\ u.present => row.st # "NONE" /\ row.done \ {"release"} \subseteq u.done
  /\ row.st = "READY" => u.present
  /\ u.done # {} => row.st \in Begun
  /\ \A k \in u.done : Prior(k) \subseteq row.done
  /\ u.preview => u.done \cap {"fence", "destroy"} = {}
  /\ \A c \in u.previewOp :
       Op[c] = "preview" /\ receipt[c].subject = m /\ u.previewOp = {c}
  /\ row.st = "PROVISIONING" =>
       \E c \in Commands : Op[c] = "provision" /\ receipt[c].subject = m

\* A materialization is reserved by one command.
OneReservation ==
  \A c, d \in Commands :
    /\ Op[c] = "provision" /\ Op[d] = "provision"
    /\ receipt[c].subject = receipt[d].subject /\ receipt[c].subject # NoMat
    => c = d

Linked ==
  /\ Consistent
  /\ \A s \in Calls : Knows(s)
  /\ \A c \in Commands : Honest(c)
  /\ \A m \in Mats : Mirrors(m)
  /\ OneReservation

-----------------------------------------------------------------------------
(* What no step undoes.                                                    *)

\* Each of the row's steps leaves a later row.
LEMMA StepIsLater ==
  ASSUME Consistent, NEW m \in Mats, RowStep(m)
  PROVE  Later(mat[m], mat'[m])
<1> USE DEF Later
<1>1. RowFits(m) /\ mat[m] \in Rows
  BY DEF Consistent, Typed, DatabaseTyped, RowsFit
<1>2. CASE Kept(m)
  BY <1>2 DEF Kept
<1>3. CASE Admitted(m)
  BY <1>1, <1>3 DEF Admitted, Revised, RowFits, Cleaning, Transitional, Terminal
<1>4. CASE Served(m)
  BY <1>1, <1>4 DEF Served, Revised, RowFits, Cleaning, Transitional, Terminal
<1>5. CASE Touched(m)
  BY <1>1, <1>5 DEF Touched, Revised, SameRow, RowFits, Cleaning, Transitional, Terminal
<1>6. CASE Closed(m)
  BY <1>1, <1>6 DEF Closed, Revised, Begun, Cleaning, Transitional, Terminal
<1>7. CASE Interrupted(m)
  BY <1>1, <1>7 DEF Interrupted, Revised, Begun, Cleaning, Transitional, Terminal
<1>8. CASE Stepped(m)
  BY <1>1, <1>8 DEF Stepped, Revised, Begun, Cleaning, Transitional, Terminal
<1>9. CASE Ended(m)
  <2>1. mat[m].tgt \in Terminal
    BY <1>1, <1>9 DEF Ended, RowFits, Rows
  <2> QED
    BY <1>1, <1>9, <2>1 DEF Ended, Revised, Begun, Cleaning, Transitional, Terminal
<1> QED
  BY <1>2, <1>3, <1>4, <1>5, <1>6, <1>7, <1>8, <1>9 DEF RowStep

\* What a row becomes after two steps is what it may become.
LEMMA LaterTwice ==
  ASSUME NEW r \in Rows, NEW q \in Rows, NEW p \in Rows, Later(r, q), Later(q, p)
  PROVE  Later(r, p)
<1>1. CASE q = r \/ p = q
  BY <1>1
<1>2. CASE q # r /\ p # q
  <2>1. r.rev < p.rev /\ r.done \subseteq p.done
    BY <1>2 DEF Later, Rows
  <2> QED
    BY <1>2, <2>1 DEF Later, Begun, Cleaning, Transitional, Terminal
<1> QED
  BY <1>1, <1>2

\* The runtime forgets no step and no publication, and creates a runner only
\* for a row that is provisioning.
Remembers(m) ==
  /\ rt[m].done \subseteq rt'[m].done
  /\ rt[m].present => rt'[m].present
  /\ mat[m].st # "PROVISIONING" => rt'[m].present = rt[m].present
  /\ rt[m].previewOp # {} => rt'[m].previewOp = rt[m].previewOp

Grows == \A m \in Mats : Later(mat[m], mat'[m]) /\ Remembers(m)

\* The five steps that write the runtime's record.
LEMMA RuntimeWrites ==
  ASSUME [Next]_vars
  PROVE  \/ rt' = rt
         \/ \E s \in Calls :
              \/ RuntimeProvision(s) \/ RuntimePublish(s) \/ RuntimeDestroy(s)
              \/ \E k \in Steps : RuntimeStep(s, k)
              \/ \E created \in BOOLEAN : ProvisionFails(s, created)
<1>1. CASE UNCHANGED vars
  BY <1>1 DEF vars
<1>2. CASE Time
  BY <1>2 DEF Time, Lapse, Overrun, NewKey, Expire
<1>3. ASSUME NEW s \in Calls, CleanupFails(s) \/ Crash(s) \/ Raise(s) PROVE rt' = rt
  BY <1>3 DEF CleanupFails, Crash, Raise
<1>4. ASSUME NEW s \in Calls, ProvisionStep(s) PROVE rt' = rt \/ RuntimeProvision(s)
  BY <1>4 DEF ProvisionStep, CheckProvision, RuntimeRejects, CompleteReady, StartFailed
<1>5. ASSUME NEW s \in Calls, GuardedStep(s) PROVE rt' = rt \/ RuntimePublish(s)
  BY <1>5 DEF GuardedStep, BeginCleanup, Refused, Deny, BeginPreview, RuntimeRefusesPreview,
     CompletePreview
<1>6. ASSUME NEW s \in Calls, CancelStep(s) PROVE rt' = rt
  BY <1>6 DEF CancelStep, BeginCancel, ResumeCancel, AlreadyTerminal
<1>7. ASSUME NEW s \in Calls, ReconcileStep(s) PROVE rt' = rt
  BY <1>7 DEF ReconcileStep, Scan, FinishItem, Report, PickCandidate
<1>8. ASSUME NEW s \in Calls, CleanupStep(s)
      PROVE  rt' = rt \/ RuntimeDestroy(s) \/ \E k \in Steps : RuntimeStep(s, k)
  BY <1>8 DEF CleanupStep, ReadRecord, CommitStep, FinishCommand, Quarantine
<1>9. ASSUME NEW s \in Calls, NEW c \in Commands, Claim(s, c) PROVE rt' = rt
  BY <1>9 DEF Claim, Refuse, Reserve, RecoverProvision, ClaimGuarded, ClaimByExecution, TakeOver
<1> QED
  BY <1>1, <1>2, <1>3, <1>4, <1>5, <1>6, <1>7, <1>8, <1>9 DEF Next, Run, Fault

\* Every step leaves later rows and a runtime that remembers.
LEMMA NextGrows ==
  ASSUME Consistent, [Next]_vars
  PROVE  Grows
<1>1. ASSUME NEW m \in Mats PROVE Later(mat[m], mat'[m])
  BY NextSteps, StepIsLater DEF RowSteps
<1>2. rt \in [Mats -> RuntimeRows]
  BY DEF Consistent, Typed, OutsideTyped
<1>3. ASSUME rt' = rt, NEW m \in Mats PROVE Remembers(m)
  BY <1>3 DEF Remembers
<1>4. ASSUME NEW s \in Calls, RuntimeProvision(s), NEW m \in Mats PROVE Remembers(m)
  BY <1>2, <1>4 DEF RuntimeProvision, RuntimeAccepts, Remembers, RuntimeRows
<1>5. ASSUME NEW s \in Calls, NEW created \in BOOLEAN, ProvisionFails(s, created),
             NEW m \in Mats
      PROVE  Remembers(m)
  BY <1>2, <1>5 DEF ProvisionFails, RuntimeAccepts, Remembers, RuntimeRows
<1>6. ASSUME NEW s \in Calls, RuntimePublish(s), NEW m \in Mats PROVE Remembers(m)
  BY <1>2, <1>6 DEF RuntimePublish, Remembers, RuntimeRows
<1>7. ASSUME NEW n \in Mats, NEW k \in Steps, rt' = AfterRuntime(n, k), NEW m \in Mats
      PROVE  Remembers(m)
  BY <1>2, <1>7 DEF AfterRuntime, Taken, Remembers, RuntimeRows
<1>8. ASSUME NEW s \in Calls, NEW k \in Steps, RuntimeStep(s, k) PROVE \A m \in Mats : Remembers(m)
  BY <1>7, <1>8, Working DEF RuntimeStep, Consistent
<1>9. ASSUME NEW s \in Calls, RuntimeDestroy(s) PROVE \A m \in Mats : Remembers(m)
  BY <1>7, <1>9, Working DEF RuntimeDestroy, Consistent, Steps
<1> QED
  BY <1>1, <1>3, <1>4, <1>5, <1>6, <1>8, <1>9, RuntimeWrites DEF Grows

-----------------------------------------------------------------------------
(* What a step must show of the call, the receipt and the row it writes.   *)

\* What a step leaves alone stays true as the rest grows.
Undisturbed(s) ==
  /\ call'[s] = call[s]
  /\ call[s].pc # "idle" /\ receipt'[Cmd(s)].owner = s =>
       receipt[Cmd(s)].owner = s /\ receipt'[Cmd(s)].subject = receipt[Cmd(s)].subject

SameTerms(c) ==
  /\ receipt'[c].st = receipt[c].st /\ receipt'[c].phase = receipt[c].phase
  /\ receipt'[c].subject = receipt[c].subject /\ receipt'[c].result = receipt[c].result
  /\ receipt'[c].cleaned = receipt[c].cleaned /\ intent'[c] = intent[c]

NotServed(m) == mat[m].st = "PROVISIONING" => mat'[m].st # "READY"

SubjectsStay ==
  \A c \in Commands :
    Op[c] # "reconcile" /\ receipt[c].subject # NoMat =>
      receipt'[c].subject = receipt[c].subject

ReservationsStay ==
  \A c \in Commands : Op[c] = "provision" => receipt'[c].subject = receipt[c].subject

\* A row read earlier stays an earlier one.
LEMMA KnowsRowStays ==
  ASSUME Linked, Typed', Grows, NEW s \in Calls, call'[s] = call[s]
  PROVE  KnowsRow(s)'
<1> DEFINE m == call[s].m  cur == call[s].cur  pc == call[s].pc
<1>1. KnowsRow(s) /\ call[s] \in CallStates /\ Typed
  BY DEF Linked, Knows, Consistent, Typed, CallsTyped
<1>2. pc \in Chain \cup {"resume", "already"} => m \in Mats
  BY <1>1, Working DEF Chain
<1>3. \A n \in Mats : /\ mat[n] \in Rows /\ mat'[n] \in Rows /\ Later(mat[n], mat'[n])
                      /\ mat[n].st \in Begun => mat'[n].st \in Begun
                      /\ mat[n].st \in Terminal => mat'[n].st \in Terminal
  <2> TAKE n \in Mats
  <2>1. mat[n] \in Rows /\ mat'[n] \in Rows /\ Later(mat[n], mat'[n])
    BY <1>1 DEF Typed, DatabaseTyped, Grows
  <2> QED
    BY <2>1 DEF Later, Begun
<1>4. pc \in Decided => Later(cur, mat'[m])
  <2>1. Decided \subseteq Chain
    BY DEF Decided, Chain
  <2>2. cur \in Rows
    BY <1>1 DEF CallStates
  <2> QED
    BY <1>1, <1>2, <1>3, <2>1, <2>2, LaterTwice DEF KnowsRow
<1> QED
  BY <1>1, <1>2, <1>3, <1>4 DEF KnowsRow

\* What the runtime has done for a call stays done.
LEMMA KnowsRuntimeStays ==
  ASSUME Linked, Grows, NEW s \in Calls, call'[s] = call[s]
  PROVE  KnowsRuntime(s)'
<1> DEFINE m == call[s].m  pc == call[s].pc
<1>1. KnowsRow(s) /\ KnowsRuntime(s) /\ Typed
  BY DEF Linked, Knows, Consistent
<1>2. pc \in {"markReady", "commit", "finish", "markPublished"} => m \in Mats
  BY <1>1, Working
<1>3. pc \in {"commit", "finish"} => mat[m].st # "PROVISIONING"
  BY <1>1 DEF KnowsRow, Chain, Begun, Cleaning, Transitional, Terminal
<1>4. m \in Mats => Remembers(m)
  BY DEF Grows
<1> QED
  BY <1>1, <1>2, <1>3, <1>4 DEF KnowsRuntime, Remembers, Cmd

\* What a denial rests on stays so.
LEMMA UnservedStays ==
  ASSUME Linked, Typed', Grows, NEW c \in Commands, Unserved(c),
         receipt'[c].subject = receipt[c].subject
  PROVE  Unserved(c)'
<1> DEFINE m == receipt[c].subject
<1>1. m \in Mats \cup {NoMat}
  BY DEF Linked, Consistent, Typed, ReceiptsTyped, Receipts
<1>2. m \in Mats => Later(mat[m], mat'[m]) /\ Remembers(m)
  BY DEF Grows
<1> QED
  BY <1>1, <1>2 DEF Unserved, Later, Remembers, Begun

\* A call and its receipt stay bound to one another.
LEMMA KnowsReceiptStays ==
  ASSUME Linked, Typed', Grows, SubjectsStay, NEW s \in Calls, Undisturbed(s)
  PROVE  KnowsReceipt(s)'
<1> DEFINE m == call[s].m  c == Cmd(s)  pc == call[s].pc
<1>1. CASE pc = "idle"
  BY <1>1 DEF Undisturbed, KnowsReceipt
<1>2. CASE pc # "idle"
  <2>1. KnowsReceipt(s) /\ c \in Commands /\ Cmd(s)' = c
    BY <1>2, Working DEF Linked, Knows, Consistent, Undisturbed, Cmd
  <2>2. call[s].pc \notin {"begin", "deny"} /\ Op[c] # "reconcile" => m \in Mats
    BY <1>2, <2>1, Working DEF Linked, Consistent, KnowsReceipt
  <2> QED
    BY <1>2, <2>1, <2>2, NoMatAssumption, UnservedStays
    DEF KnowsReceipt, Undisturbed, SubjectsStay
<1> QED
  BY <1>1, <1>2

\* What a receipt says stays true.
LEMMA HonestStays ==
  ASSUME Linked, Typed', Grows, NEW c \in Commands, SameTerms(c),
         Op[c] = "provision" /\ receipt[c].subject # NoMat => NotServed(receipt[c].subject)
  PROVE  Honest(c)'
<1> DEFINE m == receipt[c].subject
<1>1. Honest(c) /\ m \in Mats \cup {NoMat} /\ receipt[c].cleaned \subseteq Mats
  BY DEF Linked, Consistent, Typed, ReceiptsTyped, Receipts
<1>2. ASSUME NEW n \in Mats
      PROVE  /\ mat[n] \in Rows /\ Later(mat[n], mat'[n]) /\ Remembers(n)
             /\ mat[n].st \in Terminal => mat'[n].st = mat[n].st
             /\ mat[n].st \in Begun => mat'[n].st \in Begun
  <2>1. mat[n] \in Rows /\ Later(mat[n], mat'[n]) /\ Remembers(n)
    BY DEF Linked, Consistent, Typed, DatabaseTyped, Grows
  <2> QED
    BY <2>1 DEF Later, Begun
<1>3. HonestProvision(c)'
  <2>1. CASE Op[c] = "provision" /\ m # NoMat
    <3>1. /\ mat[m] \in Rows /\ mat'[m] \in Rows
          /\ mat[m].st # "NONE" /\ NotServed(m) /\ Later(mat[m], mat'[m])
      BY <1>1, <1>2, <2>1 DEF Honest, HonestProvision, Typed, DatabaseTyped
    <3>2. mat'[m].st # "NONE" /\ (mat'[m].st = "PROVISIONING" => mat[m].st = "PROVISIONING")
      BY <3>1 DEF Later
    <3>3. mat[m].st = "PROVISIONING" => mat'[m].st \in {"PROVISIONING"} \cup Begun
      BY <3>1, <3>2 DEF NotServed, Rows, Active, Begun
    <3> QED
      BY <1>1, <1>2, <2>1, <3>1, <3>2, <3>3 DEF Honest, HonestProvision, SameTerms
  <2>2. CASE Op[c] = "provision" /\ m = NoMat
    BY <1>1, <2>2 DEF Honest, HonestProvision, SameTerms
  <2> QED
    BY <2>1, <2>2 DEF HonestProvision
<1>4. HonestSubject(c)'
  BY <1>1, <1>2 DEF Honest, HonestSubject, SameTerms, Later
<1>5. HonestResult(c)'
  <2>1. receipt[c].result = "DENIED" => Unserved(c)'
    BY <1>1, UnservedStays DEF Honest, HonestResult, SameTerms
  <2>2. receipt[c].result = "READY" =>
          mat'[m].st \in {"READY"} \cup Begun /\ mat'[m].tgt # "FAILED"
    BY <1>1, <1>2 DEF Honest, HonestResult, Later, Begun
  <2> QED
    BY <1>1, <1>2, <2>1, <2>2 DEF Honest, HonestResult, SameTerms, Remembers
<1> QED
  BY <1>3, <1>4, <1>5 DEF Honest

\* A row and a runner left alone keep agreeing.
LEMMA MirrorsStay ==
  ASSUME Linked, SubjectsStay, NEW m \in Mats, mat'[m] = mat[m], rt'[m] = rt[m]
  PROVE  Mirrors(m)'
<1>1. Mirrors(m) /\ rt[m] \in RuntimeRows /\ m # NoMat
  BY NoMatAssumption DEF Linked, Consistent, Typed, OutsideTyped
<1>2. \A c \in Commands : Op[c] \in {"preview", "provision"} /\ receipt[c].subject = m
                            => receipt'[c].subject = m
  BY <1>1 DEF SubjectsStay
<1>3. rt[m].previewOp \subseteq Commands
  BY <1>1 DEF RuntimeRows
<1> QED
  BY <1>1, <1>2, <1>3 DEF Mirrors

\* A step shows of each part that it is left alone or holds again.
LEMMA Frame ==
  ASSUME Linked, Consistent', Grows, SubjectsStay,
         \A s \in Calls : Undisturbed(s) \/ Knows(s)',
         \A c \in Commands :
           \/ /\ SameTerms(c)
              /\ Op[c] = "provision" /\ receipt[c].subject # NoMat
                   => NotServed(receipt[c].subject)
           \/ Honest(c)',
         \A m \in Mats : (mat'[m] = mat[m] /\ rt'[m] = rt[m]) \/ Mirrors(m)',
         ReservationsStay \/ OneReservation'
  PROVE  Linked'
<1>1. Typed'
  BY DEF Consistent
<1>2. ASSUME NEW s \in Calls PROVE Knows(s)'
  BY <1>1, KnowsRowStays, KnowsReceiptStays, KnowsRuntimeStays DEF Knows, Undisturbed
<1>3. ASSUME NEW c \in Commands PROVE Honest(c)'
  BY <1>1, HonestStays
<1>4. ASSUME NEW m \in Mats PROVE Mirrors(m)'
  BY MirrorsStay
<1>5. OneReservation'
  BY DEF Linked, OneReservation, ReservationsStay
<1> QED
  BY <1>2, <1>3, <1>4, <1>5 DEF Linked

\* A cleanup that has begun stays begun, and a terminal row stays.
LEMMA BegunStays ==
  ASSUME Grows, NEW m \in Mats
  PROVE  /\ mat[m].st \in Begun => mat'[m].st \in Begun
         /\ mat[m].st \in Terminal => mat'[m] = mat[m]
<1>1. Later(mat[m], mat'[m])
  BY DEF Grows
<1> QED
  BY <1>1 DEF Later, Begun

\* What a call at work knows of itself.
LEMMA AtWork ==
  ASSUME Linked, NEW s \in Calls, call[s].pc # "idle"
  PROVE  /\ Typed /\ Knows(s) /\ Honest(Cmd(s)) /\ Cmd(s) \in Commands
         /\ call[s] \in CallStates /\ receipt[Cmd(s)] \in Receipts /\ Op[Cmd(s)] \in Operations
         /\ call[s].pc \notin {"scan", "pick", "begin"} =>
              /\ call[s].m \in Mats /\ call[s].m # NoMat
              /\ mat[call[s].m] \in Rows /\ RowFits(call[s].m)
              /\ rt[call[s].m] \in RuntimeRows /\ Mirrors(call[s].m)
         /\ Owns(s) => receipt[Cmd(s)].st = "IN_PROGRESS"
         /\ Op[Cmd(s)] = "provision" => receipt[Cmd(s)].subject # NoMat
<1>1. Typed /\ Cmd(s) \in Commands /\ call[s] \in CallStates /\ Op[Cmd(s)] \in Operations
      /\ receipt[Cmd(s)] \in Receipts
  BY Working DEF Linked, Consistent
<1>2. Knows(s) /\ Honest(Cmd(s))
  BY <1>1 DEF Linked
<1>3. call[s].pc \notin {"scan", "pick", "begin"} =>
              /\ call[s].m \in Mats /\ call[s].m # NoMat
              /\ mat[call[s].m] \in Rows /\ RowFits(call[s].m)
              /\ rt[call[s].m] \in RuntimeRows /\ Mirrors(call[s].m)
  BY <1>1, Working, NoMatAssumption
  DEF Linked, Consistent, RowsFit, Typed, OutsideTyped
<1>4. Owns(s) => receipt[Cmd(s)].st = "IN_PROGRESS"
  BY <1>1 DEF Owns, Typed, ReceiptsTyped, GuardsBound
<1>5. Op[Cmd(s)] = "provision" => receipt[Cmd(s)].subject # NoMat
  BY <1>2, <1>3 DEF Knows, KnowsReceipt, ProvisionPath, Chain
<1> QED
  BY <1>1, <1>2, <1>3, <1>4, <1>5

\* A transaction of a call that owns its receipt.
LEMMA Work ==
  ASSUME Linked, Consistent', Grows, NEW s \in Calls, NEW c, c = Cmd(s), call[s].pc # "idle",
         \A t \in Calls : t # s => call'[t] = call[t],
         \A d \in Commands : d # c =>
           /\ receipt'[d] = receipt[d] /\ intent'[d] = intent[d]
           /\ Op[d] = "provision" /\ receipt[d].subject # NoMat
                => NotServed(receipt[d].subject),
         Owns(s), receipt'[c].owner \in {s, NoCall},
         receipt[c].subject # NoMat => receipt'[c].subject = receipt[c].subject,
         Knows(s)', Honest(c)',
         \A m \in Mats : (mat'[m] = mat[m] /\ rt'[m] = rt[m]) \/ Mirrors(m)'
  PROVE  Linked'
<1>1. c \in Commands /\ (Op[c] = "provision" => receipt[c].subject # NoMat)
  BY AtWork
<1>2. SubjectsStay /\ ReservationsStay
  BY <1>1 DEF SubjectsStay, ReservationsStay
<1>3. ASSUME NEW t \in Calls, t # s PROVE Undisturbed(t)
  <2>1. call[t].pc # "idle" => Cmd(t) \in Commands
    BY AtWork
  <2>2. t # NoCall
    BY SentinelAssumption
  <2> QED
    BY <1>3, <2>1, <2>2 DEF Undisturbed, Owns
<1>4. \A d \in Commands :
           \/ /\ SameTerms(d)
              /\ Op[d] = "provision" /\ receipt[d].subject # NoMat
                   => NotServed(receipt[d].subject)
           \/ Honest(d)'
  BY DEF SameTerms
<1> QED
  BY <1>2, <1>3, <1>4, Frame

\* A step of a call that writes neither a row nor a receipt.
LEMMA Look ==
  ASSUME Linked, Consistent', Grows, NEW s \in Calls, call[s].pc # "idle",
         \A t \in Calls : t # s => call'[t] = call[t],
         mat' = mat, receipt' = receipt, intent' = intent,
         Knows(s)', \A m \in Mats : rt'[m] = rt[m] \/ Mirrors(m)'
  PROVE  Linked'
<1>1. SubjectsStay /\ ReservationsStay
  BY DEF SubjectsStay, ReservationsStay
<1>2. \A t \in Calls : Undisturbed(t) \/ Knows(t)'
  BY DEF Undisturbed
<1>3. \A c \in Commands :
        /\ SameTerms(c)
        /\ Op[c] = "provision" /\ receipt[c].subject # NoMat => NotServed(receipt[c].subject)
  BY DEF SameTerms, NotServed
<1> QED
  BY <1>1, <1>2, <1>3, Frame

\* What moving on and returning leave of a call.
LEMMA GotoFacts ==
  ASSUME Linked, NEW s \in Calls, NEW pc, Goto(s, pc)
  PROVE  /\ call'[s].pc = pc /\ call'[s].cmd = call[s].cmd /\ call'[s].m = call[s].m
         /\ call'[s].cur = call[s].cur /\ call'[s].seen = call[s].seen
         /\ Cmd(s)' = Cmd(s)
         /\ \A t \in Calls : t # s => call'[t] = call[t]
  BY DEF Linked, Consistent, Typed, CallsTyped, CallStates, Goto, Cmd

\* An idle call knows nothing.
LEMMA ReturnKnows ==
  ASSUME Linked, NEW s \in Calls, Return(s)
  PROVE  Knows(s)' /\ \A t \in Calls : t # s => call'[t] = call[t]
<1>1. call'[s] = IdleCall /\ \A t \in Calls : t # s => call'[t] = call[t]
  BY DEF Linked, Consistent, Typed, CallsTyped, Return
<1>2. call'[s].pc = "idle" /\ \A n \in Mats : call'[s].seen[n].st = "NONE"
  BY <1>1 DEF IdleCall, NoRow
<1>3. KnowsRow(s)' /\ KnowsReceipt(s)' /\ KnowsRuntime(s)'
  BY <1>2 DEF KnowsRow, KnowsReceipt, KnowsRuntime, Chain, Decided, Begun, Cleaning,
     Transitional, Terminal
<1> QED
  BY <1>1, <1>3 DEF Knows

-----------------------------------------------------------------------------
(* Every action keeps them linked.                                         *)

\* Completing a command leaves its other terms.
LEMMA CompleteFacts ==
  ASSUME Linked, NEW c \in Commands, NEW result, Complete(c, result)
  PROVE  /\ receipt'[c].st = "COMPLETED" /\ receipt'[c].result = result
         /\ receipt'[c].owner = NoCall /\ receipt'[c].subject = receipt[c].subject
         /\ receipt'[c].cleaned = receipt[c].cleaned
         /\ \A d \in Commands : d # c => receipt'[d] = receipt[d]
  BY DEF Linked, Consistent, Typed, ReceiptsTyped, Receipts, Complete, Completed

\* Advancing a command leaves its other terms.
LEMMA AdvanceFacts ==
  ASSUME Linked, NEW c \in Commands, NEW phase, NEW m, Advance(c, phase, m)
  PROVE  /\ receipt'[c].st = receipt[c].st /\ receipt'[c].result = receipt[c].result
         /\ receipt'[c].owner = receipt[c].owner /\ receipt'[c].subject = m
         /\ receipt'[c].phase = phase /\ receipt'[c].cleaned = receipt[c].cleaned
         /\ \A d \in Commands : d # c => receipt'[d] = receipt[d]
  BY DEF Linked, Consistent, Typed, ReceiptsTyped, Receipts, Advance

\* A cleanup that stamps only what the runtime has done still mirrors it.
LEMMA RowMirrors ==
  ASSUME Linked, Grows, NEW m \in Mats, rt'[m] = rt[m], mat'[m].st \in Begun,
         rt[m].present => mat'[m].done \ {"release"} \subseteq rt[m].done,
         \A c \in Commands : receipt[c].subject = m => receipt'[c].subject = m
  PROVE  Mirrors(m)'
<1>1. Mirrors(m) /\ rt[m] \in RuntimeRows
  BY DEF Linked, Consistent, Typed, OutsideTyped
<1>2. mat[m].done \subseteq mat'[m].done
  BY DEF Grows, Later
<1>3. mat'[m].st \notin {"NONE", "PROVISIONING", "READY"}
  BY DEF Begun, Cleaning, Transitional, Terminal
<1> QED
  BY <1>1, <1>2, <1>3 DEF Mirrors, RuntimeRows

\* A call that owns its command binds it to a row whose cleanup has begun.
LEMMA Advancing ==
  ASSUME Linked, Consistent', Grows, NEW s \in Calls, NEW c, c = Cmd(s), NEW m \in Mats,
         call[s].pc # "idle", Owns(s),
         \A t \in Calls : t # s => call'[t] = call[t],
         rt' = rt, intent' = intent,
         \A n \in Mats : n # m => mat'[n] = mat[n],
         mat'[m].st \in Begun, mat'[m].done = mat[m].done,
         receipt[c].subject = m \/ (receipt[c].subject = NoMat /\ Op[c] # "preview"),
         receipt'[c].st = receipt[c].st, receipt'[c].result = receipt[c].result,
         receipt'[c].owner = receipt[c].owner, receipt'[c].subject = m,
         receipt'[c].cleaned = receipt[c].cleaned,
         \A d \in Commands : d # c => receipt'[d] = receipt[d],
         Knows(s)'
  PROVE  Linked'
<1>1. /\ c \in Commands /\ Honest(c) /\ receipt[c].cleaned \subseteq Mats /\ m # NoMat
      /\ receipt[c].st = "IN_PROGRESS" /\ receipt[c].result = "NONE" /\ receipt[c].owner = s
  BY AtWork, NoMatAssumption DEF Receipts, Honest, HonestResult, Owns
<1>2. mat'[m].st \notin {"NONE", "PROVISIONING", "READY"}
  BY DEF Begun, Cleaning, Transitional, Terminal
<1>3. \A n \in receipt[c].cleaned : mat'[n].st \in Terminal
  BY <1>1, BegunStays DEF Honest, HonestResult
<1>4. Honest(c)'
  BY <1>1, <1>2, <1>3 DEF Honest, HonestProvision, HonestSubject, HonestResult, Terminal
<1>5. \A d \in Commands : receipt[d].subject # NoMat => NotServed(receipt[d].subject)
  BY <1>2 DEF NotServed, Linked, Consistent, Typed, ReceiptsTyped, Receipts
<1>6. Mirrors(m)'
  <2>1. Mirrors(m)
    BY DEF Linked
  <2> QED
    BY <2>1, RowMirrors DEF Mirrors
<1> QED
  BY <1>1, <1>4, <1>5, <1>6, Work

\* A call of the provision path that moves on along it.
LEMMA ProvisionMoves ==
  ASSUME Linked, NEW s \in Calls, NEW pc \in {"provision", "fail", "markReady"},
         call[s].pc \in ProvisionPath, Goto(s, pc), mat' = mat, receipt' = receipt,
         pc = "markReady" => rt'[call[s].m].present
  PROVE  Knows(s)'
<1>1. Knows(s) /\ Op[Cmd(s)] = "provision" /\ receipt[Cmd(s)].subject = call[s].m
  BY AtWork DEF ProvisionPath, Knows, KnowsReceipt
<1>2. KnowsRow(s)'
  BY <1>1, GotoFacts DEF Knows, KnowsRow, Chain, Decided
<1>3. KnowsReceipt(s)'
  BY <1>1, GotoFacts DEF Knows, KnowsReceipt, ProvisionPath, Chain
<1>4. KnowsRuntime(s)'
  BY GotoFacts DEF KnowsRuntime
<1> QED
  BY <1>2, <1>3, <1>4 DEF Knows

\* A runner is created, or found, only for a row that is still wanted.
LEMMA CreatedMirrors ==
  ASSUME Linked, NEW m \in Mats, RuntimeAccepts(m), rt' = [rt EXCEPT ![m].present = TRUE],
         mat' = mat, receipt' = receipt
  PROVE  /\ \A n \in Mats : rt'[n] = rt[n] \/ Mirrors(n)'
         /\ rt'[m].present
<1>1. Mirrors(m) /\ RowFits(m) /\ rt \in [Mats -> RuntimeRows]
  BY DEF Linked, Consistent, RowsFit, Typed, OutsideTyped
<1>2. /\ rt'[m].present /\ rt'[m].done = rt[m].done /\ rt'[m].preview = rt[m].preview
      /\ rt'[m].previewOp = rt[m].previewOp
      /\ \A n \in Mats : n # m => rt'[n] = rt[n]
  BY <1>1 DEF RuntimeRows
<1>3. ~rt[m].present => mat[m].st = "PROVISIONING" /\ mat[m].done = {}
  BY <1>1 DEF RuntimeAccepts, RowFits
<1>4. Mirrors(m)'
  BY <1>1, <1>2, <1>3 DEF Mirrors
<1> QED
  BY <1>2, <1>4

\* Provisioning: the runtime creates the runner, readiness or failure is recorded.
LEMMA ProvisionLinks ==
  ASSUME Linked, Consistent', Grows, NEW s \in Calls, NEW c, NEW m, c = Cmd(s),
         m = call[s].m, ProvisionStep(s)
  PROVE  Linked'
<1>1. /\ call[s].pc \in ProvisionPath
      /\ call[s].pc \notin Chain \cup {"resume", "already"}
  BY DEF ProvisionStep, CheckProvision, RuntimeProvision, RuntimeRejects, CompleteReady,
     StartFailed, ProvisionPath, Chain
<1>2. /\ Typed /\ Knows(s) /\ Honest(c) /\ c \in Commands /\ Op[c] = "provision"
      /\ m \in Mats /\ m # NoMat /\ mat[m] \in Rows /\ RowFits(m) /\ Mirrors(m)
      /\ rt[m] \in RuntimeRows /\ receipt[c].subject = m
  BY <1>1, AtWork DEF ProvisionPath, Knows, KnowsReceipt
<1>5. CASE CheckProvision(s)
  BY <1>1, <1>5, ProvisionMoves, Look, GotoFacts DEF CheckProvision, database, ProvisionPath
<1>6. CASE RuntimeProvision(s)
  BY <1>1, <1>2, <1>6, CreatedMirrors, ProvisionMoves, Look, GotoFacts DEF RuntimeProvision, database, ProvisionPath
<1>7. CASE RuntimeRejects(s)
  BY <1>1, <1>7, ProvisionMoves, Look, GotoFacts DEF RuntimeRejects, database, ProvisionPath
<1>8. CASE CompleteReady(s)
  <2>1. /\ Owns(s) /\ mat[m].st = "PROVISIONING" /\ rt' = rt /\ intent' = intent
        /\ mat'[m] = Moved(mat[m], "READY") /\ (\A n \in Mats : n # m => mat'[n] = mat[n])
        /\ rt[m].present
    BY <1>2, <1>8
    DEF CompleteReady, CanMarkReady, Typed, DatabaseTyped, Knows, KnowsRuntime
  <2>2. mat'[m].st = "READY" /\ mat'[m].tgt = "NONE" /\ mat'[m].done = {}
    BY <1>2, <2>1, Edits DEF RowFits
  <2>3. \A d \in Commands : d # c /\ Op[d] = "provision" /\ receipt[d].subject # NoMat
          => NotServed(receipt[d].subject)
    <3> TAKE d \in Commands
    <3>1. receipt[d].subject \in Mats \cup {NoMat}
      BY <1>2 DEF Typed, ReceiptsTyped, Receipts
    <3>2. d # c /\ Op[d] = "provision" /\ receipt[d].subject # NoMat => receipt[d].subject # m
      BY <1>2 DEF Linked, OneReservation
    <3> QED
      BY <2>1, <3>1, <3>2 DEF NotServed
  <2>4. /\ receipt'[c].st = "COMPLETED" /\ receipt'[c].result = "READY"
        /\ receipt'[c].owner = NoCall /\ receipt'[c].subject = m
        /\ receipt'[c].cleaned = receipt[c].cleaned
        /\ \A d \in Commands : d # c => receipt'[d] = receipt[d]
    BY <1>2, <1>8, CompleteFacts DEF CompleteReady
  <2>5. receipt[c].cleaned \subseteq Mats
    BY <1>2 DEF Typed, ReceiptsTyped, Receipts
  <2>6. Honest(c)'
    <3>1. HonestProvision(c)'
      BY <1>2, <2>2, <2>4 DEF HonestProvision
    <3>2. HonestSubject(c)'
      BY <1>2, <2>4 DEF HonestSubject
    <3>3. \A n \in receipt[c].cleaned : mat'[n].st \in Terminal
      BY <1>2, <2>5, BegunStays DEF Honest, HonestResult
    <3>4. HonestResult(c)'
      BY <1>2, <2>2, <2>4, <3>3 DEF HonestResult, Terminal
    <3> QED
      BY <3>1, <3>2, <3>4 DEF Honest
  <2>7. Mirrors(m)'
    <3>1. rt[m].done = {} /\ mat[m].st # "NONE"
      BY <1>2, <2>1 DEF Mirrors, Begun, Cleaning, Transitional, Terminal
    <3>2. \A d \in rt[m].previewOp : receipt'[d].subject = receipt[d].subject
      BY <1>2, <2>4 DEF RuntimeRows
    <3> QED
      BY <1>2, <2>1, <2>2, <3>1, <3>2 DEF Mirrors
  <2>8. Knows(s)' /\ \A t \in Calls : t # s => call'[t] = call[t]
    BY <1>8, ReturnKnows DEF CompleteReady
  <2>9. \A n \in Mats : (mat'[n] = mat[n] /\ rt'[n] = rt[n]) \/ Mirrors(n)'
    BY <2>1, <2>7
  <2> QED
    BY <1>1, <1>2, <2>1, <2>3, <2>4, <2>6, <2>8, <2>9, Work DEF ProvisionPath
<1>9. CASE StartFailed(s)
  <2> DEFINE row == IF mat[m].st = "PROVISIONING" THEN Orphaned(mat[m]) ELSE mat[m]
  <2>1. /\ call[s].pc = "fail" /\ Owns(s) /\ rt' = rt /\ intent' = intent
        /\ mat' = [mat EXCEPT ![m] = row]
        /\ call' = [call EXCEPT ![s] = [@ EXCEPT !.cur = row,
                      !.pc = IF row.st = "FAILED" THEN "finish" ELSE "read"]]
    BY <1>9 DEF StartFailed
  <2>2. /\ mat[m].st # "PROVISIONING" => mat[m].st \in Begun
        /\ receipt[c].st = "IN_PROGRESS" /\ receipt[c].result = "NONE"
    BY <1>1, <1>2, <2>1, AtWork
    DEF Honest, HonestProvision, HonestResult, ProvisionPath
  <2>3. /\ row.st \in Begun /\ row.done = mat[m].done
        /\ row.st # "FAILED" \/ row.st \in Terminal
    BY <1>2, <2>2, Edits DEF Begun, Cleaning, Terminal
  <2>4. /\ mat'[m] = row /\ \A n \in Mats : n # m => mat'[n] = mat[n]
        /\ call'[s].cur = row /\ call'[s].m = m /\ call'[s].cmd = call[s].cmd
        /\ call'[s].seen = call[s].seen
        /\ call'[s].pc = IF row.st = "FAILED" THEN "finish" ELSE "read"
        /\ \A t \in Calls : t # s => call'[t] = call[t]
    BY <1>2, <2>1 DEF Typed, DatabaseTyped, CallsTyped, CallStates
  <2>5. /\ receipt'[c].st = "IN_PROGRESS" /\ receipt'[c].result = "NONE"
        /\ receipt'[c].subject = m /\ receipt'[c].owner = s
        /\ receipt'[c].cleaned = receipt[c].cleaned
        /\ \A d \in Commands : d # c => receipt'[d] = receipt[d]
    BY <1>2, <1>9, <2>1, <2>2, AdvanceFacts DEF StartFailed, Owns
  <2> HIDE DEF row
  <2>6. Stacked(row)
    BY <1>2, <2>3 DEF Stacked, RowFits
  <2>7. Knows(s)'
    <3>1. KnowsRow(s)'
      BY <1>2, <2>3, <2>4, <2>6, BegunStays DEF KnowsRow, Knows, Later, Chain, Decided
    <3>2. KnowsReceipt(s)'
      BY <1>2, <2>4, <2>5 DEF KnowsReceipt, Cmd, ProvisionPath, Chain
    <3>3. KnowsRuntime(s)'
      BY <2>3, <2>4 DEF KnowsRuntime
    <3> QED
      BY <3>1, <3>2, <3>3 DEF Knows
  <2> QED
    BY <1>2, <2>1, <2>2, <2>3, <2>4, <2>5, <2>7, Advancing DEF Owns
<1> QED
  BY <1>5, <1>6, <1>7, <1>8, <1>9 DEF ProvisionStep

\* A cleanup under the caller's guard begins, or its denial rests on no service.
LEMMA GuardLinks ==
  ASSUME Linked, Consistent', Grows, NEW s \in Calls, NEW c, NEW m, c = Cmd(s),
         m = call[s].m, BeginCleanup(s) \/ Refused(s) \/ Deny(s)
  PROVE  Linked'
<1>1. call[s].pc \in {"begin", "deny"}
  BY DEF BeginCleanup, Refused, Deny
<1>2. /\ Typed /\ Knows(s) /\ Honest(c) /\ c \in Commands /\ Op[c] # "provision"
      /\ Owns(s) => receipt[c].st = "IN_PROGRESS" /\ receipt[c].result = "NONE"
      /\ receipt[c].cleaned \subseteq Mats
  BY <1>1, AtWork
  DEF Knows, KnowsReceipt, ProvisionPath, Chain, Honest, HonestResult, Receipts
<1>3. CASE BeginCleanup(s)
  <2> DEFINE t == TerminalOf(Op[c])
  <2>1. /\ call[s].pc = "begin" /\ Owns(s) /\ rt' = rt /\ intent' = intent
        /\ mat[m].st = "READY" /\ mat' = [mat EXCEPT ![m] = Closing(@, t)]
        /\ Advance(c, "CLEANUP_STARTED", m) /\ Goto(s, "read")
        /\ Op[c] \in {"release", "finalize"}
    BY <1>3 DEF BeginCleanup, Guarded
  <2>2. m \in Mats /\ mat[m] \in Rows /\ t \in {"RELEASED", "FINALIZED"}
    BY <1>3, <2>1, Working DEF Linked, Consistent, BeginCleanup, TerminalOf
  <2>3. /\ mat'[m].st \in Begun /\ mat'[m].done = mat[m].done
        /\ \A n \in Mats : n # m => mat'[n] = mat[n]
    <3>1. mat'[m] = Closing(mat[m], t) /\ \A n \in Mats : n # m => mat'[n] = mat[n]
      BY <1>2, <2>1, <2>2 DEF Typed, DatabaseTyped
    <3> HIDE DEF t
    <3> QED
      BY <2>2, <3>1, Edits, TransitionCleans DEF Begun, Terminal
  <2>4. Knows(s)'
    <3>1. KnowsRow(s)'
      BY <1>2, <2>1, <2>3, GotoFacts, BegunStays DEF Knows, KnowsRow, Chain, Decided
    <3>2. KnowsReceipt(s)'
      BY <1>2, <2>1, GotoFacts, AdvanceFacts DEF KnowsReceipt, ProvisionPath
    <3>3. KnowsRuntime(s)'
      BY <2>1, GotoFacts DEF KnowsRuntime
    <3> QED
      BY <3>1, <3>2, <3>3 DEF Knows
  <2>5. receipt[c].subject = NoMat
    BY <1>2, <2>1 DEF Knows, KnowsReceipt, Owns
  <2> QED
    BY <1>2, <2>1, <2>2, <2>3, <2>4, <2>5, GotoFacts, AdvanceFacts, Advancing
<1>4. CASE Refused(s)
  <2>1. /\ call[s].pc = "begin" /\ Goto(s, "deny") /\ mat' = mat /\ receipt' = receipt
        /\ intent' = intent /\ rt' = rt
    BY <1>4 DEF Refused, database
  <2>2. receipt[c].owner = s => Unserved(c)'
    BY <1>2, <2>1 DEF Knows, KnowsReceipt, Unserved
  <2>3. Knows(s)'
    <3>1. KnowsRow(s)'
      BY <1>2, <2>1, GotoFacts DEF Knows, KnowsRow, Chain, Decided
    <3>2. KnowsReceipt(s)'
      BY <1>2, <2>1, <2>2, GotoFacts DEF KnowsReceipt, ProvisionPath, Chain
    <3>3. KnowsRuntime(s)'
      BY <2>1, GotoFacts DEF KnowsRuntime
    <3> QED
      BY <3>1, <3>2, <3>3 DEF Knows
  <2> QED
    BY <2>1, <2>3, GotoFacts, Look
<1>5. CASE Deny(s)
  <2>1. /\ call[s].pc = "deny" /\ Owns(s) /\ Complete(c, "DENIED") /\ Return(s)
        /\ mat' = mat /\ intent' = intent /\ rt' = rt
    BY <1>5 DEF Deny, database
  <2>2. Unserved(c)'
    BY <1>2, <2>1, CompleteFacts DEF Knows, KnowsReceipt, Unserved, Owns
  <2>3. Honest(c)'
    BY <1>2, <2>1, <2>2, CompleteFacts
    DEF Honest, HonestProvision, HonestSubject, HonestResult, Terminal
  <2> QED
    BY <1>2, <2>1, <2>3, CompleteFacts, ReturnKnows, Work DEF NotServed
<1> QED
  BY <1>3, <1>4, <1>5

\* A preview is bound, published and recorded, or its denial rests on no service.
LEMMA PreviewLinks ==
  ASSUME Linked, Consistent', Grows, NEW s \in Calls, NEW c, NEW m, c = Cmd(s),
         m = call[s].m,
         \/ BeginPreview(s) \/ RuntimePublish(s) \/ RuntimeRefusesPreview(s)
         \/ CompletePreview(s)
  PROVE  Linked'
<1>1. /\ call[s].pc \in {"begin", "publish", "markPublished"}
      /\ call[s].pc = "begin" => Op[c] = "preview"
  BY DEF BeginPreview, RuntimePublish, RuntimeRefusesPreview, CompletePreview
<1>2. /\ Typed /\ Knows(s) /\ Honest(c) /\ c \in Commands /\ Op[c] = "preview"
      /\ m \in Mats /\ m # NoMat /\ mat[m] \in Rows /\ RowFits(m)
      /\ rt[m] \in RuntimeRows /\ Mirrors(m)
      /\ Owns(s) => receipt[c].st = "IN_PROGRESS" /\ receipt[c].result = "NONE"
      /\ call[s].pc # "begin" => receipt[c].subject = m
      /\ receipt[c].cleaned \subseteq Mats
  <2>1. /\ Typed /\ Knows(s) /\ Honest(c) /\ c \in Commands
        /\ Owns(s) => receipt[c].st = "IN_PROGRESS"
        /\ receipt[c].cleaned \subseteq Mats
    BY <1>1, AtWork DEF Receipts
  <2>2. Op[c] = "preview" /\ (call[s].pc # "begin" => receipt[c].subject = m)
    BY <1>1, <2>1 DEF Knows, KnowsReceipt
  <2>3. m \in Mats
    BY <1>1, <2>1, <2>2, Working
  <2> QED
    BY <2>1, <2>2, <2>3, NoMatAssumption
    DEF Linked, Consistent, RowsFit, Typed, DatabaseTyped, OutsideTyped, Honest, HonestResult
<1>3. CASE BeginPreview(s)
  <2> DEFINE r == [mat[m] EXCEPT !.rev = @ + 1]
  <2>1. /\ call[s].pc = "begin" /\ Owns(s) /\ rt' = rt /\ mat[m].st = "READY"
        /\ mat' = [mat EXCEPT ![m] = r] /\ intent' = [intent EXCEPT ![c] = "INTENT"]
        /\ Advance(c, "PREVIEW_INTENT", m) /\ Goto(s, "publish")
    BY <1>3 DEF BeginPreview, Guarded
  <2>2. /\ mat'[m].st = "READY" /\ mat'[m].done = mat[m].done
        /\ \A n \in Mats : n # m => mat'[n] = mat[n]
        /\ intent'[c] = "INTENT" /\ \A d \in Commands : d # c => intent'[d] = intent[d]
    BY <1>2, <2>1 DEF Typed, DatabaseTyped, Rows
  <2> HIDE DEF r
  <2>3. receipt[c].subject = NoMat
    BY <1>2, <2>1 DEF Knows, KnowsReceipt, Owns
  <2>4. Knows(s)'
    <3>1. KnowsRow(s)'
      BY <1>2, <2>1, GotoFacts, BegunStays DEF Knows, KnowsRow, Chain, Decided
    <3>2. KnowsReceipt(s)'
      BY <1>2, <2>1, GotoFacts, AdvanceFacts DEF KnowsReceipt, ProvisionPath
    <3>3. KnowsRuntime(s)'
      BY <2>1, GotoFacts DEF KnowsRuntime
    <3> QED
      BY <3>1, <3>2, <3>3 DEF Knows
  <2>5. Honest(c)'
    <3>1. \A n \in receipt[c].cleaned : mat'[n].st \in Terminal
      BY <1>2, BegunStays DEF Honest, HonestResult
    <3> QED
      BY <1>2, <2>1, <2>2, <3>1, AdvanceFacts
      DEF Honest, HonestProvision, HonestSubject, HonestResult, Terminal
  <2>6. \A d \in Commands : receipt[d].subject # NoMat => NotServed(receipt[d].subject)
    BY <1>2, <2>1, <2>2 DEF NotServed, Typed, ReceiptsTyped, Receipts
  <2>7. Mirrors(m)'
    <3>1. \A d \in rt[m].previewOp : receipt'[d].subject = m
      BY <1>2, <2>1, AdvanceFacts DEF Mirrors, RuntimeRows
    <3> QED
      BY <1>2, <2>1, <2>2, <3>1 DEF Mirrors
  <2> QED
    BY <1>2, <2>1, <2>2, <2>3, <2>4, <2>5, <2>6, <2>7, GotoFacts, AdvanceFacts, Work
    DEF Owns
<1>4. ASSUME NEW pc \in {"markPublished", "deny"}, call[s].pc # "begin", Goto(s, pc),
             mat' = mat, receipt' = receipt, intent' = intent,
             pc = "markPublished" => rt'[m].previewOp = {c},
             pc = "deny" /\ receipt[c].owner = s => Unserved(c)',
             \A n \in Mats : rt'[n] = rt[n] \/ Mirrors(n)'
      PROVE  Linked'
  <2>1. KnowsRow(s)'
    BY <1>2, <1>4, GotoFacts DEF Knows, KnowsRow, Chain, Decided
  <2>2. KnowsReceipt(s)'
    BY <1>2, <1>4, GotoFacts DEF KnowsReceipt, ProvisionPath, Chain
  <2>3. KnowsRuntime(s)'
    BY <1>2, <1>4, GotoFacts DEF KnowsRuntime
  <2> QED
    BY <1>1, <1>4, <2>1, <2>2, <2>3, GotoFacts, Look DEF Knows
<1>5. CASE RuntimePublish(s)
  <2>1. /\ CanPublish(m, c) /\ Goto(s, "markPublished") /\ mat' = mat /\ receipt' = receipt
        /\ intent' = intent /\ call[s].pc = "publish"
        /\ rt' = IF rt[m].previewOp = {}
                   THEN [rt EXCEPT ![m] = [@ EXCEPT !.previewOp = {c}, !.preview = TRUE]]
                   ELSE rt
    BY <1>5 DEF RuntimePublish, database
  <2>2. /\ rt'[m].previewOp = {c} /\ rt'[m].present = rt[m].present
        /\ rt'[m].done = rt[m].done /\ \A n \in Mats : n # m => rt'[n] = rt[n]
    BY <1>2, <2>1 DEF CanPublish, Typed, OutsideTyped, RuntimeRows
  <2>3. Mirrors(m)'
    BY <1>2, <2>1, <2>2 DEF Mirrors, CanPublish
  <2> QED
    BY <1>4, <2>1, <2>2, <2>3
<1>6. CASE RuntimeRefusesPreview(s)
  <2>1. /\ ~CanPublish(m, c) /\ Goto(s, "deny") /\ mat' = mat /\ receipt' = receipt
        /\ intent' = intent /\ rt' = rt /\ call[s].pc = "publish"
    BY <1>6 DEF RuntimeRefusesPreview, database
  <2>2. mat[m].st \in {"READY"} \cup Begun
    BY <1>2, <2>1 DEF Honest, HonestSubject
  <2>3. mat[m].st \in Begun \/ (rt[m].previewOp # {} /\ c \notin rt[m].previewOp)
    <3>1. CASE ~rt[m].present \/ rt[m].done # {}
      <4>1. /\ mat[m].st = "READY" => rt[m].present
            /\ rt[m].done # {} => mat[m].st \in Begun
        BY <1>2 DEF Mirrors
      <4> QED
        BY <2>2, <3>1, <4>1
    <3>2. CASE rt[m].present /\ rt[m].done = {}
      <4>1. rt[m].previewOp # {} /\ rt[m].previewOp # {c}
        BY <2>1, <3>2 DEF CanPublish
      <4> QED
        BY <1>2, <4>1 DEF Mirrors
    <3> QED
      BY <3>1, <3>2
  <2> QED
    BY <1>2, <1>4, <2>1, <2>3 DEF Unserved
<1>7. CASE CompletePreview(s)
  <2>1. call[s].pc = "markPublished" /\ mat' = mat /\ rt' = rt
    BY <1>7 DEF CompletePreview
  <2>2. CASE Owns(s) /\ intent[c] = "INTENT" /\ mat[m].st = "READY"
    <3>1. /\ intent' = [intent EXCEPT ![c] = "PUBLISHED"] /\ Complete(c, "PUBLISHED")
          /\ Return(s)
      BY <1>7, <2>2 DEF CompletePreview
    <3>2. intent'[c] = "PUBLISHED" /\ \A d \in Commands : d # c => intent'[d] = intent[d]
      BY <1>2, <3>1 DEF Typed, DatabaseTyped
    <3>3. Honest(c)'
      BY <1>2, <2>1, <3>1, <3>2, CompleteFacts
      DEF Honest, HonestProvision, HonestSubject, HonestResult, Terminal, Knows, KnowsRuntime
    <3> QED
      BY <1>2, <2>1, <2>2, <3>1, <3>2, <3>3, CompleteFacts, ReturnKnows, Work DEF NotServed
  <2>3. CASE ~(Owns(s) /\ intent[c] = "INTENT" /\ mat[m].st = "READY")
    <3>1. Goto(s, "deny") /\ intent' = intent /\ receipt' = receipt
      BY <1>7, <2>3 DEF CompletePreview
    <3>2. Owns(s) => mat[m].st \in Begun
      BY <1>2, <2>1, <2>3 DEF Honest, HonestSubject
    <3> QED
      BY <1>2, <1>4, <2>1, <3>1, <3>2 DEF Unserved, Owns
  <2> QED
    BY <2>2, <2>3
<1> QED
  BY <1>3, <1>5, <1>6, <1>7

\* A cancellation closes the ready row, or answers with the terminal state it found.
LEMMA CancelLinks ==
  ASSUME Linked, Consistent', Grows, NEW s \in Calls, NEW c, c = Cmd(s), CancelStep(s)
  PROVE  Linked'
<1>1. call[s].pc \in {"begin", "resume", "already"}
  BY DEF CancelStep, BeginCancel, ResumeCancel, AlreadyTerminal
<1>2. /\ Typed /\ Knows(s) /\ Honest(c) /\ c \in Commands /\ Op[c] # "provision"
      /\ receipt[c].cleaned \subseteq Mats /\ call[s] \in CallStates
      /\ Owns(s) => receipt[c].st = "IN_PROGRESS" /\ receipt[c].result = "NONE"
  BY <1>1, AtWork
  DEF Knows, KnowsReceipt, ProvisionPath, Chain, Honest, HonestResult, Receipts
<1>3. ASSUME NEW m \in Mats, BeginCancel(s, m) PROVE Linked'
  <2> DEFINE t == TerminalOf(Op[c])
             pc == IF mat[m].st = "READY" THEN "read" ELSE "already"
  <2>1. /\ call[s].pc = "begin" /\ Owns(s) /\ rt' = rt /\ intent' = intent
        /\ mat[m].st \in Terminal \cup {"READY"}
        /\ mat' = IF mat[m].st = "READY" THEN [mat EXCEPT ![m] = Closing(@, t)] ELSE mat
        /\ Advance(c, "CLEANUP_STARTED", m)
        /\ call' = [call EXCEPT ![s] = [@ EXCEPT !.m = m, !.pc = pc]]
        /\ Op[c] \in {"cancel", "timeout"}
    BY <1>3 DEF BeginCancel
  <2>2. mat[m] \in Rows /\ t \in {"CANCELED", "TIMED_OUT"} /\ m # NoMat
    BY <1>2, <2>1, NoMatAssumption DEF Typed, DatabaseTyped, TerminalOf
  <2>3. /\ mat'[m].st \in Begun /\ mat'[m].done = mat[m].done
        /\ \A n \in Mats : n # m => mat'[n] = mat[n]
        /\ mat[m].st # "READY" => mat'[m].st \in Terminal
    <3>1. /\ mat'[m] = IF mat[m].st = "READY" THEN Closing(mat[m], t) ELSE mat[m]
          /\ \A n \in Mats : n # m => mat'[n] = mat[n]
      BY <1>2, <2>1 DEF Typed, DatabaseTyped
    <3> HIDE DEF t
    <3> QED
      BY <2>1, <2>2, <3>1, Edits, TransitionCleans DEF Begun, Terminal
  <2>4. /\ call'[s].pc = pc /\ call'[s].m = m /\ call'[s].cmd = call[s].cmd
        /\ call'[s].cur = call[s].cur /\ call'[s].seen = call[s].seen
        /\ \A u \in Calls : u # s => call'[u] = call[u]
    BY <1>2, <2>1 DEF Typed, CallsTyped, CallStates
  <2>5. Knows(s)'
    <3>1. KnowsRow(s)'
      BY <1>2, <2>3, <2>4, BegunStays DEF Knows, KnowsRow, Chain, Decided
    <3>2. KnowsReceipt(s)'
      BY <1>2, <2>1, <2>4, AdvanceFacts DEF KnowsReceipt, Cmd, ProvisionPath
    <3>3. KnowsRuntime(s)'
      BY <2>4 DEF KnowsRuntime
    <3> QED
      BY <3>1, <3>2, <3>3 DEF Knows
  <2>6. receipt[c].subject = NoMat
    BY <1>2, <2>1 DEF Knows, KnowsReceipt, Owns
  <2> QED
    BY <1>2, <2>1, <2>3, <2>4, <2>5, <2>6, AdvanceFacts, Advancing
<1>4. CASE ResumeCancel(s)
  <2> DEFINE m == call[s].m
             pc == IF mat[m].st \in Terminal THEN "already" ELSE "read"
  <2>1. /\ call[s].pc = "resume" /\ Goto(s, pc) /\ mat' = mat /\ receipt' = receipt
        /\ intent' = intent /\ rt' = rt
    BY <1>4 DEF ResumeCancel, database
  <2>2. mat[m].st \in Begun /\ Op[c] # "reconcile" /\ receipt[c].subject = m
    BY <1>2, <2>1 DEF Knows, KnowsRow, KnowsReceipt
  <2>3. KnowsRow(s)'
    BY <1>2, <2>1, <2>2, GotoFacts DEF Knows, KnowsRow, Chain, Decided
  <2>4. KnowsReceipt(s)'
    BY <1>2, <2>1, <2>2, GotoFacts DEF KnowsReceipt, ProvisionPath, Chain
  <2>5. KnowsRuntime(s)'
    BY <2>1, GotoFacts DEF KnowsRuntime
  <2> QED
    BY <2>1, <2>3, <2>4, <2>5, GotoFacts, Look DEF Knows
<1>5. CASE AlreadyTerminal(s)
  <2>1. /\ call[s].pc = "already" /\ Owns(s) /\ Complete(c, mat[call[s].m].st) /\ Return(s)
        /\ mat' = mat /\ intent' = intent /\ rt' = rt
    BY <1>5 DEF AlreadyTerminal, database
  <2>2. /\ call[s].m \in Mats /\ call[s].m # NoMat /\ mat[call[s].m].st \in Terminal
        /\ Op[c] # "reconcile" /\ receipt[c].subject = call[s].m
    BY <1>2, <2>1, AtWork DEF Knows, KnowsRow, KnowsReceipt
  <2>3. Honest(c)'
    BY <1>2, <2>1, <2>2, CompleteFacts
    DEF Honest, HonestProvision, HonestSubject, HonestResult, Terminal
  <2> QED
    BY <1>2, <2>1, <2>3, CompleteFacts, ReturnKnows, Work DEF NotServed
<1> QED
  BY <1>3, <1>4, <1>5 DEF CancelStep

\* A step the runtime takes for a cleanup whose earlier steps are recorded.
LEMMA TakenMirrors ==
  ASSUME Linked, NEW m \in Mats, NEW k \in Steps, rt' = AfterRuntime(m, k), mat' = mat,
         receipt' = receipt, mat[m].st \in Begun, Prior(k) \subseteq mat[m].done
  PROVE  /\ \A n \in Mats : rt'[n] = rt[n] \/ Mirrors(n)'
         /\ rt'[m].present => k \in rt'[m].done
<1>1. Mirrors(m) /\ rt \in [Mats -> RuntimeRows]
  BY DEF Linked, Consistent, Typed, OutsideTyped
<1>2. CASE rt[m].present
  <2>1. /\ rt'[m].present /\ rt'[m].done = rt[m].done \cup {k}
        /\ rt'[m].preview = (rt[m].preview /\ k \notin {"fence", "destroy"})
        /\ rt'[m].previewOp = rt[m].previewOp
        /\ \A n \in Mats : n # m => rt'[n] = rt[n]
    BY <1>1, <1>2 DEF AfterRuntime, Taken, RuntimeRows
  <2>2. Mirrors(m)'
    BY <1>1, <1>2, <2>1 DEF Mirrors
  <2> QED
    BY <2>1, <2>2
<1>3. CASE ~rt[m].present
  BY <1>1, <1>3 DEF AfterRuntime
<1> QED
  BY <1>2, <1>3

\* A call that looks on at its row keeps what it knows, and what it decides now.
LEMMA ChainStep ==
  ASSUME Linked, Consistent', Grows, NEW s \in Calls, NEW m, m = call[s].m, NEW pc, NEW cur,
         call[s].pc \in Chain, pc \in Chain,
         call'[s].pc = pc, call'[s].cmd = call[s].cmd, call'[s].m = m,
         call'[s].cur = cur, call'[s].seen = call[s].seen,
         \A t \in Calls : t # s => call'[t] = call[t],
         mat' = mat, receipt' = receipt, intent' = intent,
         \A n \in Mats : rt'[n] = rt[n] \/ Mirrors(n)',
         pc \in Decided => Later(cur, mat[m]) /\ cur.st \in Begun /\ Stacked(cur),
         pc = "act" => ~(RuntimeSteps \subseteq cur.done),
         pc = "destroy" => "release" \in cur.done,
         pc = "finish" => cur.st \in Terminal \/ "release" \in cur.done,
         pc = "commit" /\ rt'[m].present => Pending(cur) \ {"release"} \subseteq rt'[m].done,
         pc = "finish" /\ cur.st \notin Terminal /\ rt'[m].present => "destroy" \in rt'[m].done
  PROVE  Linked'
<1>1. call[s].pc \notin {"idle", "begin", "deny"} \cup ProvisionPath
  BY DEF Chain, ProvisionPath
<1>2. Knows(s)
  BY DEF Linked
<1>3. KnowsRow(s)'
  BY <1>2 DEF Knows, KnowsRow, Chain, Decided
<1>4. KnowsReceipt(s)'
  BY <1>1, <1>2 DEF Knows, KnowsReceipt, Cmd, Chain, ProvisionPath
<1>5. KnowsRuntime(s)'
  BY DEF KnowsRuntime, Chain
<1> QED
  BY <1>1, <1>3, <1>4, <1>5, Look DEF Knows

\* Reading the record and calling the runtime.
LEMMA ChainLinks ==
  ASSUME Linked, Consistent', Grows, NEW s \in Calls, NEW m, m = call[s].m,
         NEW cur, cur = call[s].cur,
         ReadRecord(s) \/ RuntimeDestroy(s) \/ \E k \in Steps : RuntimeStep(s, k)
  PROVE  Linked'
<1>1. call[s].pc \in Chain
  BY DEF ReadRecord, RuntimeDestroy, RuntimeStep, Chain
<1>2. /\ Typed /\ Knows(s) /\ m \in Mats /\ mat[m] \in Rows /\ RowFits(m)
      /\ call[s] \in CallStates /\ mat[m].st \in Begun
  BY <1>1, AtWork DEF Chain, Knows, KnowsRow
<1>3. CASE ReadRecord(s)
  <2> DEFINE pc == IF call[s].pc = "read" /\ mat[m].st \in Terminal THEN "finish"
                   ELSE IF ~(RuntimeSteps \subseteq mat[m].done) THEN "act"
                   ELSE IF "release" \notin mat[m].done THEN "commit" ELSE "destroy"
  <2>1. /\ call' = [call EXCEPT ![s] = [@ EXCEPT !.cur = mat[m], !.pc = pc]]
        /\ mat' = mat /\ rt' = rt /\ receipt' = receipt /\ intent' = intent
    BY <1>3 DEF ReadRecord, database
  <2>2. /\ call'[s].pc = pc /\ call'[s].cur = mat[m] /\ call'[s].m = m
        /\ call'[s].cmd = call[s].cmd /\ call'[s].seen = call[s].seen
        /\ \A t \in Calls : t # s => call'[t] = call[t]
    BY <1>2, <2>1 DEF Typed, CallsTyped, CallStates
  <2>3. Later(mat[m], mat[m]) /\ Stacked(mat[m])
    BY <1>2 DEF Later, Stacked, RowFits
  <2>4. pc = "commit" => Pending(mat[m]) \ {"release"} = {}
    BY DEF Pending, Steps, RuntimeSteps, Prior
  <2>5. /\ pc = "act" => ~(RuntimeSteps \subseteq mat[m].done)
        /\ pc = "destroy" => "release" \in mat[m].done
        /\ pc = "finish" => mat[m].st \in Terminal
        /\ pc \in Chain
    BY DEF Chain
  <2> HIDE DEF pc
  <2> QED
    BY <1>1, <1>2, <2>1, <2>2, <2>3, <2>4, <2>5, ChainStep
<1>4. ASSUME NEW k \in Steps, RuntimeStep(s, k) PROVE Linked'
  <2>1. /\ call[s].pc = "act" /\ k \in Pending(cur) /\ rt' = AfterRuntime(m, k)
        /\ Goto(s, "commit") /\ mat' = mat /\ receipt' = receipt /\ intent' = intent
    BY <1>4 DEF RuntimeStep, database
  <2>2. /\ Later(cur, mat[m]) /\ cur.st \in Begun /\ Stacked(cur)
        /\ ~(RuntimeSteps \subseteq cur.done) /\ "release" \notin cur.done
    BY <1>2, <2>1 DEF Knows, KnowsRow, Decided, Linked, Consistent, CommitsBounded
  <2>3. Prior(k) \subseteq mat[m].done
    BY <2>1, <2>2 DEF Pending, Later
  <2>4. Pending(cur) \subseteq {k}
    BY <2>1, <2>2 DEF Pending, Steps, RuntimeSteps, Prior, Stacked
  <2>5. /\ \A n \in Mats : rt'[n] = rt[n] \/ Mirrors(n)'
        /\ rt'[m].present => k \in rt'[m].done
    BY <1>2, <2>1, <2>3, TakenMirrors
  <2> QED
    BY <1>1, <1>2, <2>1, <2>2, <2>4, <2>5, GotoFacts, ChainStep DEF Chain
<1>5. CASE RuntimeDestroy(s)
  <2>1. /\ call[s].pc = "destroy" /\ rt' = AfterRuntime(m, "destroy")
        /\ Goto(s, "finish") /\ mat' = mat /\ receipt' = receipt /\ intent' = intent
    BY <1>5 DEF RuntimeDestroy, database
  <2>2. /\ Later(cur, mat[m]) /\ cur.st \in Begun /\ Stacked(cur) /\ "release" \in cur.done
    BY <1>2, <2>1 DEF Knows, KnowsRow, Decided
  <2>3. "destroy" \in Steps /\ Prior("destroy") \subseteq mat[m].done
    BY <2>2 DEF Steps, Prior, Later
  <2>4. /\ \A n \in Mats : rt'[n] = rt[n] \/ Mirrors(n)'
        /\ rt'[m].present => "destroy" \in rt'[m].done
    BY <1>2, <2>1, <2>3, TakenMirrors
  <2> QED
    BY <1>1, <1>2, <2>1, <2>2, <2>4, GotoFacts, ChainStep DEF Chain
<1> QED
  BY <1>3, <1>4, <1>5

\* The record of a step is committed only after the runtime took it.
LEMMA CommitLinks ==
  ASSUME Linked, Consistent', Grows, NEW s \in Calls, NEW c, c = Cmd(s), NEW m, m = call[s].m,
         NEW cur, cur = call[s].cur, NEW k \in Steps, CommitStep(s, k)
  PROVE  Linked'
<1>1. /\ call[s].pc = "commit" /\ k \in Pending(cur) /\ Owns(s) /\ mat[m].rev = cur.rev
      /\ mat' = [mat EXCEPT ![m] = Stamped(@, k)] /\ Goto(s, "next")
      /\ rt' = rt /\ receipt' = receipt /\ intent' = intent
  BY DEF CommitStep, CanCommit
<1>2. /\ Typed /\ Knows(s) /\ c \in Commands /\ m \in Mats /\ mat[m] \in Rows
      /\ call[s] \in CallStates /\ cur \in Rows /\ rt[m] \in RuntimeRows /\ Mirrors(m)
      /\ receipt[c].owner = s /\ Typed'
  BY <1>1, AtWork DEF CallStates, Owns, Consistent
<1>3. Later(cur, mat[m]) /\ cur.st \in Begun
  BY <1>1, <1>2 DEF Knows, KnowsRow, Decided
<1>4. cur = mat[m]
  BY <1>1, <1>2, <1>3 DEF Later, Rows
<1>5. /\ mat'[m].st = mat[m].st /\ mat'[m].done = mat[m].done \cup {k}
      /\ \A n \in Mats : n # m => mat'[n] = mat[n]
  <2>1. mat'[m] = Stamped(mat[m], k) /\ \A n \in Mats : n # m => mat'[n] = mat[n]
    BY <1>1, <1>2 DEF Typed, DatabaseTyped
  <2> QED
    BY <1>2, <2>1, Stamping
<1>6. rt[m].present /\ k # "release" => k \in rt[m].done
  BY <1>1, <1>2 DEF Knows, KnowsRuntime
<1>7. rt[m].present => mat'[m].done \ {"release"} \subseteq rt[m].done
  BY <1>2, <1>5, <1>6 DEF Mirrors
<1>8. Mirrors(m)'
  BY <1>1, <1>2, <1>3, <1>4, <1>5, <1>7, RowMirrors
<1>9. Knows(s)'
  <2>1. KnowsRow(s)'
    BY <1>1, <1>2, <1>3, <1>4, <1>5, GotoFacts, BegunStays DEF Knows, KnowsRow, Chain, Decided
  <2>2. KnowsReceipt(s)'
    BY <1>1, <1>2, GotoFacts DEF Knows, KnowsReceipt, ProvisionPath, Chain
  <2>3. KnowsRuntime(s)'
    BY <1>1, GotoFacts DEF KnowsRuntime
  <2> QED
    BY <2>1, <2>2, <2>3 DEF Knows
<1>10. \A n \in Mats : NotServed(n)
  BY <1>5 DEF NotServed
<1>11. \A d \in Commands : receipt[d].subject # NoMat => NotServed(receipt[d].subject)
  BY <1>2, <1>10 DEF Typed, ReceiptsTyped, Receipts
<1>12. Honest(c)'
  BY <1>1, <1>2, <1>11, HonestStays DEF SameTerms
<1> QED
  BY <1>1, <1>2, <1>5, <1>8, <1>9, <1>11, <1>12, GotoFacts, Work

\* The row of m alone reaches its outcome, and the runtime agrees.
SettledAt(m, t) ==
  /\ t \in Terminal /\ mat'[m].st = t /\ Mirrors(m)'
  /\ \A n \in Mats : n # m => mat'[n] = mat[n]

\* A cleanup is recorded as finished only when nothing is left of the runner.
LEMMA FinishedFacts ==
  ASSUME Linked, Grows, NEW s \in Calls, NEW m, m = call[s].m, NEW cur, cur = call[s].cur,
         call[s].pc = "finish", NEW t, CanComplete(m, t, cur), Finished(m, t), rt' = rt,
         \A c \in Commands : receipt[c].subject = m => receipt'[c].subject = m
  PROVE  SettledAt(m, t)
<1>1. /\ Typed /\ Knows(s) /\ m \in Mats /\ mat[m] \in Rows /\ RowFits(m)
      /\ cur \in Rows /\ rt[m] \in RuntimeRows /\ Mirrors(m)
  BY AtWork DEF CallStates
<1>2. /\ mat[m].tgt = t /\ mat[m].rev = cur.rev /\ "destroy" \notin mat[m].done
      /\ mat' = [mat EXCEPT ![m] = [Stamped(@, "destroy") EXCEPT !.st = t]]
  BY DEF CanComplete, Finished
<1>3. cur = mat[m] /\ mat[m].st \in Begun
  BY <1>1, <1>2 DEF Knows, KnowsRow, Decided, Later, Rows
<1>4. mat[m].st \in Cleaning /\ mat[m].st \notin Terminal
  BY <1>1, <1>2, <1>3 DEF RowFits, Begun, Steps
<1>5. t \in Terminal
  BY <1>1, <1>2, <1>4 DEF RowFits, Rows
<1>6. rt[m].present => "destroy" \in rt[m].done
  BY <1>1, <1>3, <1>4 DEF Knows, KnowsRuntime
<1>7. /\ mat'[m].st = t /\ mat'[m].done = mat[m].done \cup {"destroy"}
      /\ \A n \in Mats : n # m => mat'[n] = mat[n]
  <2>1. mat'[m] = [Stamped(mat[m], "destroy") EXCEPT !.st = t]
        /\ \A n \in Mats : n # m => mat'[n] = mat[n]
    BY <1>1, <1>2 DEF Typed, DatabaseTyped
  <2> QED
    BY <1>1, <2>1 DEF Stamped, Rows
<1>8. Mirrors(m)'
  BY <1>1, <1>5, <1>6, <1>7, RowMirrors DEF Mirrors, Begun
<1> QED
  BY <1>5, <1>7, <1>8 DEF SettledAt

\* The outcome a command answers with is the one its subject has.
LEMMA FinishLinks ==
  ASSUME Linked, Consistent', Grows, NEW s \in Calls, NEW c, c = Cmd(s), NEW m, m = call[s].m,
         NEW cur, cur = call[s].cur, NEW t, TerminalOf(Op[c]) = t,
         FinishCommand(s)
  PROVE  Linked'
<1>1. /\ call[s].pc = "finish" /\ Op[c] # "reconcile" /\ CanFinish(s)
      /\ SettledFor(s) => mat' = mat
      /\ ~SettledFor(s) => Finished(m, t)
      /\ Complete(c, t) /\ Return(s) /\ rt' = rt /\ intent' = intent
  BY DEF FinishCommand
<1>2. /\ Typed /\ Knows(s) /\ Honest(c) /\ c \in Commands /\ m \in Mats /\ m # NoMat
      /\ cur \in Rows /\ Owns(s) /\ receipt[c].cleaned \subseteq Mats
      /\ ~SettledFor(s) => CanComplete(m, t, cur)
  BY <1>1, AtWork DEF CallStates, CanFinish, Receipts
<1>3. receipt[c].subject = m
  BY <1>1, <1>2 DEF Knows, KnowsReceipt
<1>4. t \in Terminal
  BY DEF TerminalOf, Terminal
<1>5. /\ mat'[m].st = t /\ \A n \in Mats : n # m => mat'[n] = mat[n]
      /\ \A n \in Mats : (mat'[n] = mat[n] /\ rt'[n] = rt[n]) \/ Mirrors(n)'
  <2>1. CASE SettledFor(s)
    <3>1. Later(cur, mat[m])
      BY <1>1, <1>2 DEF Knows, KnowsRow, Decided
    <3>2. Op[c] = "provision" => mat[m].st = "FAILED" /\ t = "FAILED"
      BY <1>2, <2>1, <3>1 DEF SettledFor, Later, Terminal, TerminalOf
    <3>3. Op[c] # "provision" => mat[m].st = t
      BY <2>1 DEF SettledFor
    <3> QED
      BY <1>1, <2>1, <3>2, <3>3
  <2>2. CASE ~SettledFor(s)
    <3>1. \A d \in Commands : receipt[d].subject = m => receipt'[d].subject = m
      BY <1>1, <1>2, CompleteFacts
    <3>2. CanComplete(m, t, cur) /\ Finished(m, t) /\ rt' = rt /\ call[s].pc = "finish"
      BY <1>1, <1>2, <2>2
    <3>3. SettledAt(m, t)
      BY <3>1, <3>2, FinishedFacts
    <3> QED
      BY <3>2, <3>3 DEF SettledAt
  <2> QED
    BY <2>1, <2>2
<1>6. \A n \in receipt[c].cleaned : mat'[n].st \in Terminal
  BY <1>2, BegunStays DEF Honest, HonestResult
<1>7. Honest(c)'
  <2>1. /\ receipt'[c].st = "COMPLETED" /\ receipt'[c].result = t
        /\ receipt'[c].subject = m /\ receipt'[c].cleaned = receipt[c].cleaned
    BY <1>1, <1>2, <1>3, CompleteFacts
  <2>2. mat'[m].st \in Begun /\ mat'[m].st \notin {"NONE", "PROVISIONING", "READY"}
        /\ t \notin {"READY", "PUBLISHED", "DENIED"}
    BY <1>4, <1>5 DEF Begun, Terminal
  <2>3. HonestProvision(c)' /\ HonestSubject(c)'
    BY <1>2, <2>1, <2>2 DEF HonestProvision, HonestSubject
  <2>4. HonestResult(c)'
    BY <1>2, <1>5, <1>6, <2>1, <2>2 DEF HonestResult
  <2> QED
    BY <2>3, <2>4 DEF Honest
<1>8. \A d \in Commands : receipt[d].subject # NoMat => NotServed(receipt[d].subject)
  <2>1. mat'[m].st # "READY"
    BY <1>4, <1>5 DEF Terminal
  <2> QED
    BY <1>2, <1>5, <2>1 DEF Typed, ReceiptsTyped, Receipts, NotServed
<1> QED
  BY <1>1, <1>2, <1>5, <1>7, <1>8, CompleteFacts, ReturnKnows, Work

\* What the reconciler lists as cleaned is terminal.
LEMMA ItemLinks ==
  ASSUME Linked, Consistent', Grows, NEW s \in Calls, NEW c, c = Cmd(s), NEW m, m = call[s].m,
         NEW cur, cur = call[s].cur, FinishItem(s)
  PROVE  Linked'
<1>1. /\ call[s].pc = "finish" /\ Op[c] = "reconcile" /\ Owns(s)
      /\ cur.st = cur.tgt => mat' = mat
      /\ cur.st # cur.tgt => CanComplete(m, cur.tgt, cur) /\ Finished(m, cur.tgt)
      /\ receipt' = [receipt EXCEPT ![c] = ItemDone(@, m)]
      /\ Goto(s, "pick") /\ rt' = rt /\ intent' = intent
  BY DEF FinishItem, CanFinishItem
<1>2. /\ Typed /\ Knows(s) /\ Honest(c) /\ c \in Commands /\ m \in Mats /\ m # NoMat
      /\ cur \in Rows /\ receipt[c] \in Receipts /\ mat[m] \in Rows
      /\ receipt[c].owner = s
  BY <1>1, AtWork DEF CallStates, Owns
<1>3. /\ receipt'[c].st = receipt[c].st /\ receipt'[c].result = receipt[c].result
      /\ receipt'[c].owner = receipt[c].owner /\ receipt'[c].subject = receipt[c].subject
      /\ receipt'[c].cleaned = receipt[c].cleaned \cup {m}
      /\ \A d \in Commands : d # c => receipt'[d] = receipt[d]
  <2>1. receipt'[c] = ItemDone(receipt[c], m)
        /\ \A d \in Commands : d # c => receipt'[d] = receipt[d]
    BY <1>1, <1>2 DEF Typed, ReceiptsTyped
  <2> QED
    BY <1>2, <2>1 DEF ItemDone, Receipts
<1>4. /\ mat'[m].st \in Terminal /\ \A n \in Mats : n # m => mat'[n] = mat[n]
      /\ \A n \in Mats : (mat'[n] = mat[n] /\ rt'[n] = rt[n]) \/ Mirrors(n)'
  <2>1. CASE cur.st = cur.tgt
    <3>1. Later(cur, mat[m]) /\ cur.st \in Begun
      BY <1>1, <1>2 DEF Knows, KnowsRow, Decided
    <3>2. cur.st \in Terminal
      BY <1>2, <2>1, <3>1 DEF Rows, Begun, Cleaning, Transitional
    <3> QED
      BY <1>1, <2>1, <3>1, <3>2 DEF Later
  <2>2. CASE cur.st # cur.tgt
    <3>1. \A d \in Commands : receipt[d].subject = m => receipt'[d].subject = m
      BY <1>3
    <3>2. CanComplete(m, cur.tgt, cur) /\ Finished(m, cur.tgt) /\ rt' = rt
          /\ call[s].pc = "finish"
      BY <1>1, <2>2
    <3>3. SettledAt(m, cur.tgt)
      BY <3>1, <3>2, FinishedFacts
    <3> QED
      BY <3>2, <3>3 DEF SettledAt
  <2> QED
    BY <2>1, <2>2
<1>5. mat'[m].st \in Begun /\ mat'[m].st \notin {"NONE", "PROVISIONING", "READY"}
  BY <1>4 DEF Begun, Terminal
<1>6. Knows(s)'
  <2>1. KnowsRow(s)'
    BY <1>1, <1>2, GotoFacts, BegunStays DEF Knows, KnowsRow, Chain, Decided
  <2>2. KnowsReceipt(s)'
    BY <1>1, <1>2, GotoFacts DEF KnowsReceipt, ProvisionPath, Chain
  <2>3. KnowsRuntime(s)'
    BY <1>1, GotoFacts DEF KnowsRuntime
  <2> QED
    BY <2>1, <2>2, <2>3 DEF Knows
<1>7. Honest(c)'
  <2>1. receipt[c].st = "IN_PROGRESS" /\ receipt[c].result = "NONE"
        /\ receipt[c].cleaned \subseteq Mats
    BY <1>1, <1>2, AtWork DEF Honest, HonestResult, Receipts
  <2>2. receipt[c].subject \in Mats => (mat[receipt[c].subject].st \in Begun =>
                                         mat'[receipt[c].subject].st \in Begun)
    BY BegunStays
  <2>3. HonestProvision(c)' /\ HonestSubject(c)'
    BY <1>1, <1>2, <1>3, <2>2 DEF Honest, HonestProvision, HonestSubject, Receipts
  <2>4. \A n \in receipt'[c].cleaned : mat'[n].st \in Terminal
    BY <1>2, <1>3, <1>4, <2>1, BegunStays DEF Honest, HonestResult
  <2>5. HonestResult(c)'
    BY <1>3, <2>1, <2>4 DEF HonestResult, Terminal
  <2> QED
    BY <2>3, <2>5 DEF Honest
<1>8. \A d \in Commands : receipt[d].subject # NoMat => NotServed(receipt[d].subject)
  BY <1>2, <1>4, <1>5 DEF Typed, ReceiptsTyped, Receipts, NotServed
<1> QED
  BY <1>1, <1>2, <1>3, <1>4, <1>6, <1>7, <1>8, GotoFacts, Work DEF Owns

\* An interrupted cleanup stays open for the next owner, or leaves the batch.
LEMMA QuarantineLinks ==
  ASSUME Linked, Consistent', Grows, NEW s \in Calls, NEW c, c = Cmd(s), NEW m, m = call[s].m,
         Quarantine(s)
  PROVE  Linked'
<1>1. /\ call[s].pc = "quarantine" /\ Owns(s) /\ mat[m].st \in Cleaning
      /\ mat' = [mat EXCEPT ![m] = Moved(@, "QUARANTINED")]
      /\ rt' = rt /\ intent' = intent
  BY DEF Quarantine, CanQuarantine
<1>2. /\ Typed /\ Typed' /\ Knows(s) /\ c \in Commands /\ m \in Mats /\ m # NoMat
      /\ mat[m] \in Rows /\ Mirrors(m) /\ receipt[c] \in Receipts /\ receipt[c].owner = s
  BY <1>1, AtWork DEF Owns, Consistent
<1>3. /\ mat'[m].st = "QUARANTINED" /\ mat'[m].done = mat[m].done
      /\ \A n \in Mats : n # m => mat'[n] = mat[n]
  <2>1. mat'[m] = Moved(mat[m], "QUARANTINED") /\ \A n \in Mats : n # m => mat'[n] = mat[n]
    BY <1>1, <1>2 DEF Typed, DatabaseTyped
  <2> QED
    BY <1>2, <2>1, Edits
<1>4. mat'[m].st \in Begun
  BY <1>3 DEF Begun, Cleaning
<1>5. CASE Op[c] = "reconcile"
  <2>1. receipt' = [receipt EXCEPT ![c].left = @ \ {m}] /\ Goto(s, "pick")
    BY <1>5 DEF Quarantine
  <2>2. /\ SameTerms(c) /\ receipt'[c].owner = receipt[c].owner
        /\ \A d \in Commands : d # c => receipt'[d] = receipt[d]
    BY <1>1, <1>2, <2>1 DEF Typed, ReceiptsTyped, Receipts, SameTerms
  <2>3. \A d \in Commands : receipt[d].subject # NoMat => NotServed(receipt[d].subject)
    BY <1>2, <1>3 DEF Typed, ReceiptsTyped, Receipts, NotServed
  <2>4. Knows(s)'
    <3>1. KnowsRow(s)'
      BY <1>2, <2>1, GotoFacts, BegunStays DEF Knows, KnowsRow, Chain, Decided
    <3>2. KnowsReceipt(s)'
      BY <1>2, <1>5, <2>1, GotoFacts DEF KnowsReceipt, ProvisionPath, Chain
    <3>3. KnowsRuntime(s)'
      BY <2>1, GotoFacts DEF KnowsRuntime
    <3> QED
      BY <3>1, <3>2, <3>3 DEF Knows
  <2>5. Honest(c)'
    BY <1>2, <2>2, <2>3, HonestStays
  <2>6. Mirrors(m)'
    <3>1. \A d \in Commands : receipt[d].subject = m => receipt'[d].subject = m
      BY <2>2 DEF SameTerms
    <3> QED
      BY <1>1, <1>2, <1>3, <1>4, <3>1, RowMirrors DEF Mirrors
  <2> QED
    BY <1>1, <1>2, <1>3, <2>1, <2>2, <2>3, <2>4, <2>5, <2>6, GotoFacts, Work DEF SameTerms
<1>6. CASE Op[c] # "reconcile"
  <2>1. Advance(c, "CLEANUP_QUARANTINED", m) /\ Return(s)
    BY <1>6 DEF Quarantine
  <2>2. receipt[c].subject = m
    BY <1>1, <1>2, <1>6 DEF Knows, KnowsReceipt
  <2> QED
    BY <1>1, <1>2, <1>3, <1>4, <2>1, <2>2, AdvanceFacts, ReturnKnows, Advancing
<1> QED
  BY <1>5, <1>6

\* Reading the candidates and reporting on them.
LEMMA BatchLinks ==
  ASSUME Linked, Consistent', Grows, NEW s \in Calls, NEW c, c = Cmd(s), Scan(s) \/ Report(s)
  PROVE  Linked'
<1>1. /\ call[s].pc \in {"scan", "pick"} /\ Owns(s) /\ mat' = mat /\ rt' = rt
      /\ intent' = intent
  BY DEF Scan, Report, database
<1>2. /\ Typed /\ Typed' /\ Knows(s) /\ Honest(c) /\ c \in Commands /\ call[s] \in CallStates
      /\ receipt[c] \in Receipts /\ receipt[c].owner = s /\ Op[c] = "reconcile"
  BY <1>1, AtWork DEF Owns, Consistent, Knows, KnowsReceipt
<1>3. CASE Scan(s)
  <2> DEFINE found == IF receipt[c].scanned THEN receipt[c].left ELSE Candidates
             rows  == [n \in Mats |-> IF n \in found THEN mat[n] ELSE NoRow]
  <2>1. /\ receipt' = [receipt EXCEPT ![c] = [@ EXCEPT !.scanned = TRUE, !.left = found]]
        /\ call' = [call EXCEPT ![s] = [@ EXCEPT !.pc = "pick", !.seen = rows]]
    BY <1>3 DEF Scan
  <2>2. \A n \in Mats : rows[n].st \in Begun => mat[n].st \in Begun
    BY DEF NoRow, Begun, Cleaning, Transitional, Terminal
  <2> HIDE DEF found, rows
  <2>3. /\ SameTerms(c) /\ receipt'[c].owner = receipt[c].owner
        /\ \A d \in Commands : d # c => receipt'[d] = receipt[d]
    BY <1>1, <1>2, <2>1 DEF Typed, ReceiptsTyped, Receipts, SameTerms
  <2>4. /\ call'[s].pc = "pick" /\ call'[s].seen = rows /\ call'[s].cmd = call[s].cmd
        /\ \A t \in Calls : t # s => call'[t] = call[t]
    BY <1>2, <2>1 DEF Typed, CallsTyped, CallStates
  <2>5. Knows(s)'
    <3>1. KnowsRow(s)'
      BY <1>1, <2>2, <2>4 DEF KnowsRow, Chain, Decided
    <3>2. KnowsReceipt(s)'
      BY <1>2, <2>4 DEF KnowsReceipt, Cmd, ProvisionPath, Chain
    <3>3. KnowsRuntime(s)'
      BY <2>4 DEF KnowsRuntime
    <3> QED
      BY <3>1, <3>2, <3>3 DEF Knows
  <2>6. \A d \in Commands : NotServed(receipt[d].subject)
    BY <1>1 DEF NotServed
  <2>7. Honest(c)'
    BY <1>2, <2>3, <2>6, HonestStays
  <2> QED
    BY <1>1, <1>2, <2>3, <2>4, <2>5, <2>6, <2>7, Work DEF SameTerms
<1>4. CASE Report(s)
  <2>1. Complete(c, "RECONCILED") /\ Return(s)
    BY <1>4 DEF Report
  <2>2. Honest(c)'
    BY <1>1, <1>2, <2>1, CompleteFacts
    DEF Honest, HonestProvision, HonestSubject, HonestResult, Terminal
  <2> QED
    BY <1>1, <1>2, <2>1, <2>2, CompleteFacts, ReturnKnows, Work DEF NotServed
<1> QED
  BY <1>3, <1>4

\* A candidate is closed by the reconciler that owns the batch, or was closed before.
LEMMA PickLinks ==
  ASSUME Linked, Consistent', Grows, NEW s \in Calls, NEW c, c = Cmd(s), NEW m \in Mats,
         PickCandidate(s, m)
  PROVE  Linked'
<1> DEFINE st == call[s].seen[m].st
<1>1. /\ call[s].pc = "pick" /\ st # "NONE" /\ CanPick(s, m) /\ mat' = Opened(m, st)
      /\ call' = [call EXCEPT ![s] = [@ EXCEPT !.pc = "read", !.m = m, !.seen[m] = NoRow]]
      /\ rt' = rt /\ receipt' = receipt /\ intent' = intent
  BY DEF PickCandidate, Waiting
<1>2. /\ Typed /\ Typed' /\ Knows(s) /\ Honest(c) /\ c \in Commands /\ call[s] \in CallStates
      /\ Op[c] = "reconcile" /\ mat[m] \in Rows /\ Mirrors(m) /\ m # NoMat
  BY <1>1, AtWork, NoMatAssumption
  DEF Consistent, Knows, KnowsReceipt, Typed, DatabaseTyped, Linked
<1>3. /\ call'[s].pc = "read" /\ call'[s].m = m /\ call'[s].cmd = call[s].cmd
      /\ \A n \in Mats : call'[s].seen[n] = IF n = m THEN NoRow ELSE call[s].seen[n]
      /\ \A t \in Calls : t # s => call'[t] = call[t]
  BY <1>1, <1>2 DEF Typed, CallsTyped, CallStates
<1>4. ASSUME mat'[m].st \in Begun PROVE Knows(s)'
  <2>1. KnowsRow(s)'
    <3>1. \A n \in Mats : call'[s].seen[n].st \in Begun => mat'[n].st \in Begun
      BY <1>2, <1>3, <1>4, BegunStays DEF Knows, KnowsRow
    <3> QED
      BY <1>3, <1>4, <3>1 DEF KnowsRow, Chain, Decided
  <2>2. KnowsReceipt(s)'
    BY <1>2, <1>3 DEF KnowsReceipt, Cmd, ProvisionPath, Chain
  <2>3. KnowsRuntime(s)'
    BY <1>3 DEF KnowsRuntime
  <2> QED
    BY <2>1, <2>2, <2>3 DEF Knows
<1>5. ASSUME Owns(s), NEW r, mat' = [mat EXCEPT ![m] = r], r.st \in Begun,
             r.done = mat[m].done
      PROVE  Linked'
  <2>1. mat'[m] = r /\ \A n \in Mats : n # m => mat'[n] = mat[n]
    BY <1>2, <1>5 DEF Typed, DatabaseTyped
  <2>2. Mirrors(m)'
    BY <1>1, <1>2, <1>5, <2>1, RowMirrors DEF Mirrors
  <2>3. mat'[m].st # "READY"
    BY <1>5, <2>1 DEF Begun, Cleaning, Transitional, Terminal
  <2>4. \A d \in Commands : receipt[d].subject # NoMat => NotServed(receipt[d].subject)
    BY <1>2, <2>1, <2>3 DEF Typed, ReceiptsTyped, Receipts, NotServed
  <2>5. Honest(c)'
    BY <1>1, <1>2, <2>4, HonestStays DEF SameTerms
  <2> QED
    BY <1>1, <1>2, <1>3, <1>4, <1>5, <2>1, <2>2, <2>4, <2>5, Work DEF Owns
<1>6. CASE st = "PROVISIONING"
  <2>1. Owns(s) /\ mat' = [mat EXCEPT ![m] = Orphaned(mat[m])]
    BY <1>1, <1>6 DEF CanPick, Opened
  <2>2. Orphaned(mat[m]).st \in Begun /\ Orphaned(mat[m]).done = mat[m].done
    BY <1>2, Edits DEF Begun, Cleaning
  <2> QED
    BY <1>5, <2>1, <2>2
<1>7. CASE st = "READY"
  <2>1. Owns(s) /\ mat' = [mat EXCEPT ![m] = Closing(mat[m], "TIMED_OUT")]
    BY <1>1, <1>7 DEF CanPick, Opened
  <2>2. /\ Closing(mat[m], "TIMED_OUT").st \in Begun
        /\ Closing(mat[m], "TIMED_OUT").done = mat[m].done
    BY <1>2, Edits, TransitionCleans DEF Begun, Terminal
  <2> QED
    BY <1>5, <2>1, <2>2
<1>8. CASE st \notin {"PROVISIONING", "READY"}
  <2>1. mat' = mat
    BY <1>1, <1>8 DEF Opened
  <2>2. st \in Begun
    BY <1>1, <1>2, <1>8 DEF CallStates, Rows, Active, Begun
  <2>3. mat[m].st \in Begun
    BY <1>2, <2>2 DEF Knows, KnowsRow
  <2> QED
    BY <1>1, <1>3, <1>4, <2>1, <2>3, Look
<1> QED
  BY <1>6, <1>7, <1>8

\* Failures, crashes and errors leave what is written, and the call quarantines or returns.
LEMMA FaultLinks ==
  ASSUME Linked, Consistent', Grows, NEW s \in Calls, NEW m, m = call[s].m,
         Fault(s) \/ Raise(s)
  PROVE  Linked'
<1>1. ASSUME NEW created \in BOOLEAN, ProvisionFails(s, created) PROVE Linked'
  <2>1. /\ call[s].pc = "provision" /\ Goto(s, "fail") /\ mat' = mat /\ receipt' = receipt
        /\ intent' = intent
        /\ created => RuntimeAccepts(m)
    BY <1>1 DEF ProvisionFails, database
  <2>2. m \in Mats /\ rt \in [Mats -> RuntimeRows] /\ call[s].pc \in ProvisionPath
    BY <2>1, AtWork DEF Typed, OutsideTyped, ProvisionPath
  <2>3. rt' = IF created THEN [rt EXCEPT ![m].present = TRUE] ELSE rt
    BY <1>1, <2>2 DEF ProvisionFails, RuntimeRows
  <2>4. \A n \in Mats : rt'[n] = rt[n] \/ Mirrors(n)'
    <3>1. CASE created
      <4>1. RuntimeAccepts(m) /\ rt' = [rt EXCEPT ![m].present = TRUE]
        BY <2>1, <2>3, <3>1
      <4> QED
        BY <2>1, <2>2, <4>1, CreatedMirrors
    <3>2. CASE ~created
      BY <2>3, <3>2
    <3> QED
      BY <3>1, <3>2
  <2>5. Knows(s)'
    BY <2>1, <2>2, ProvisionMoves
  <2>6. call[s].pc # "idle" /\ \A t \in Calls : t # s => call'[t] = call[t]
    BY <2>1, GotoFacts
  <2> QED
    BY <2>1, <2>4, <2>5, <2>6, Look
<1>2. CASE CleanupFails(s)
  <2>1. /\ call[s].pc \in {"act", "destroy"} /\ Goto(s, "quarantine") /\ mat' = mat
        /\ receipt' = receipt /\ intent' = intent /\ rt' = rt
    BY <1>2 DEF CleanupFails, database
  <2> QED
    BY <2>1, GotoFacts, ChainStep DEF Chain, Decided
<1>3. CASE Crash(s) \/ Raise(s)
  BY <1>3, ReturnKnows, Look DEF Crash, Raise, database
<1> QED
  BY <1>1, <1>2, <1>3 DEF Fault

\* A claim loses its owner, a deadline passes, a reconciliation gets a new key.
LEMMA TimeLinks ==
  ASSUME Linked, Consistent', Grows, Time
  PROVE  Linked'
<1>1. mat' = mat /\ rt' = rt /\ intent' = intent /\ call' = call /\ Typed
  BY DEF Time, Lapse, Overrun, NewKey, Expire, database, Linked, Consistent
<1>2. \A c \in Commands : receipt[c].subject # NoMat => NotServed(receipt[c].subject)
  BY <1>1 DEF NotServed
<1>3. ASSUME NEW c \in Commands, Lapse(c) \/ Overrun(c)
      PROVE  /\ \A d \in Commands : SameTerms(d)
             /\ \A d \in Commands : receipt'[d].owner \in {receipt[d].owner, NoCall}
  <2>1. \A d \in Commands : d # c => receipt'[d] = receipt[d]
    BY <1>1, <1>3 DEF Lapse, Overrun, Typed, ReceiptsTyped
  <2>2. /\ receipt'[c].owner \in {receipt[c].owner, NoCall}
        /\ receipt'[c].st = receipt[c].st /\ receipt'[c].phase = receipt[c].phase
        /\ receipt'[c].subject = receipt[c].subject /\ receipt'[c].result = receipt[c].result
        /\ receipt'[c].cleaned = receipt[c].cleaned
    <3>1. receipt[c] \in Receipts /\ receipt \in [Commands -> Receipts]
      BY <1>1 DEF Typed, ReceiptsTyped
    <3>2. CASE Lapse(c)
      BY <3>1, <3>2 DEF Lapse, Receipts
    <3>3. CASE Overrun(c)
      BY <3>1, <3>3 DEF Overrun, Receipts
    <3> QED
      BY <1>3, <3>2, <3>3
  <2> QED
    BY <1>1, <2>1, <2>2 DEF SameTerms
<1>4. ASSUME NEW c \in Commands, Lapse(c) \/ Overrun(c) PROVE Linked'
  <2>1. \A s \in Calls : Undisturbed(s)
    <3> TAKE s \in Calls
    <3>1. call[s].pc # "idle" => Cmd(s) \in Commands
      BY AtWork
    <3> QED
      BY <1>1, <1>3, <1>4, <3>1, SentinelAssumption DEF Undisturbed, SameTerms
  <2>2. SubjectsStay /\ ReservationsStay
    BY <1>3, <1>4 DEF SubjectsStay, ReservationsStay, SameTerms
  <2> QED
    BY <1>1, <1>2, <1>3, <1>4, <2>1, <2>2, Frame
<1>5. ASSUME NEW c \in Commands, NewKey(c) PROVE Linked'
  <2>1. /\ receipt'[c] = NoReceipt /\ Op[c] = "reconcile"
        /\ \A d \in Commands : d # c => receipt'[d] = receipt[d]
    BY <1>1, <1>5 DEF NewKey, Typed, ReceiptsTyped
  <2>2. Honest(c)'
    BY <2>1 DEF Honest, HonestProvision, HonestSubject, HonestResult, NoReceipt, Terminal
  <2>3. \A s \in Calls : Undisturbed(s)
    BY <1>1, <2>1, AtWork, SentinelAssumption DEF Undisturbed, NoReceipt
  <2>4. SubjectsStay /\ ReservationsStay
    BY <2>1 DEF SubjectsStay, ReservationsStay
  <2>5. \A d \in Commands : d # c => SameTerms(d)
    BY <1>1, <2>1 DEF SameTerms
  <2> QED
    BY <1>1, <1>2, <2>2, <2>3, <2>4, <2>5, Frame
<1>6. ASSUME NEW m \in Mats, Expire(m) PROVE Linked'
  <2>1. receipt' = receipt
    BY <1>6 DEF Expire
  <2>2. \A s \in Calls : Undisturbed(s)
    BY <1>1, <2>1 DEF Undisturbed
  <2>3. \A d \in Commands : SameTerms(d)
    BY <1>1, <2>1 DEF SameTerms
  <2> QED
    BY <1>1, <1>2, <2>1, <2>2, <2>3, Frame DEF SubjectsStay, ReservationsStay
<1> QED
  BY <1>4, <1>5, <1>6 DEF Time

\* What a call knows when it begins.
LEMMA BeginFacts ==
  ASSUME Linked, NEW s \in Calls, NEW c, NEW pc, NEW m, Begin(s, c, pc, m)
  PROVE  /\ call'[s].pc = pc /\ call'[s].m = m /\ Cmd(s)' = c
         /\ \A n \in Mats : call'[s].seen[n].st = "NONE"
         /\ \A t \in Calls : t # s => call'[t] = call[t]
<1>1. call'[s] = [IdleCall EXCEPT !.pc = pc, !.cmd = c, !.m = m]
      /\ \A t \in Calls : t # s => call'[t] = call[t]
  BY DEF Linked, Consistent, Typed, CallsTyped, Begin
<1> QED
  BY <1>1 DEF IdleCall, NoRow, Cmd

\* A call that begins outside the chain knows what its receipt says.
LEMMA BeginKnows ==
  ASSUME Linked, NEW s \in Calls, NEW c \in Commands, NEW m,
         NEW pc \in {"check", "begin", "scan", "publish", "resume", "read"}, Begin(s, c, pc, m),
         pc \in {"resume", "read"} => mat'[m].st \in Begun,
         Op[c] = "provision" <=> pc = "check",
         Op[c] = "reconcile" <=> pc = "scan",
         pc = "publish" => Op[c] = "preview",
         pc = "begin" => receipt'[c].subject = NoMat,
         pc \notin {"begin", "scan"} => receipt'[c].subject = m
  PROVE  Knows(s)'
<1>1. KnowsRow(s)'
  <2>1. \A n \in Mats : call'[s].seen[n].st \notin Begun
    BY BeginFacts DEF Begun, Cleaning, Transitional, Terminal
  <2> QED
    BY <2>1, BeginFacts DEF KnowsRow, Chain, Decided
<1>2. KnowsReceipt(s)'
  BY BeginFacts DEF KnowsReceipt, ProvisionPath, Chain
<1>3. KnowsRuntime(s)'
  BY BeginFacts DEF KnowsRuntime
<1> QED
  BY <1>1, <1>2, <1>3 DEF Knows

\* A claim by an idle call leaves the others what they know.
LEMMA ClaimFrame ==
  ASSUME Linked, Consistent', Grows, NEW s \in Calls, NEW c \in Commands, Fresh(s, c),
         \A t \in Calls : t # s => call'[t] = call[t],
         call'[s] = call[s] \/ Knows(s)',
         \A d \in Commands : d # c => receipt'[d] = receipt[d],
         receipt'[c].owner \in {s, NoCall}, intent' = intent, rt' = rt,
         receipt[c].subject # NoMat => receipt'[c].subject = receipt[c].subject,
         Honest(c)',
         \A d \in Commands : receipt[d].subject # NoMat => NotServed(receipt[d].subject),
         \A m \in Mats : mat'[m] = mat[m] \/ Mirrors(m)',
         receipt'[c].subject = receipt[c].subject \/ Op[c] # "provision" \/ OneReservation'
  PROVE  Linked'
<1>1. SubjectsStay /\ (ReservationsStay \/ OneReservation')
  BY DEF SubjectsStay, ReservationsStay
<1>2. ASSUME NEW t \in Calls, t # s PROVE Undisturbed(t)
  <2>1. call[t].pc # "idle" => Cmd(t) \in Commands
    BY AtWork
  <2> QED
    BY <1>2, <2>1, SentinelAssumption DEF Undisturbed
<1>3. Undisturbed(s) \/ Knows(s)'
  BY DEF Undisturbed, Fresh
<1>4. \A d \in Commands : d # c => SameTerms(d)
  BY DEF SameTerms
<1> QED
  BY <1>1, <1>2, <1>3, <1>4, Frame

\* A row is reserved together with the receipt that can resume it.
LEMMA ReserveLinks ==
  ASSUME Linked, Consistent', Grows, NEW s \in Calls, NEW c \in Commands, NEW p \in Policies,
         NEW n \in 1..MaxGeneration, NEW m, m = <<Target[c], n>>, Reserve(s, c, p, n)
  PROVE  Linked'
<1>1. m \in Mats /\ m # NoMat /\ Typed /\ Honest(c) /\ RowFits(m) /\ Mirrors(m)
  BY TargetAssumption, NoMatAssumption DEF Mats, Linked, Consistent, RowsFit
<1>2. /\ Fresh(s, c) /\ Op[c] = "provision" /\ receipt[c].st = "NONE" /\ mat[m].st = "NONE"
      /\ mat' = [mat EXCEPT ![m] = [@ EXCEPT !.st = "PROVISIONING", !.rev = 1]]
      /\ receipt' = [receipt EXCEPT ![c] =
                       [Claimed(s) EXCEPT !.phase = "RESERVED", !.subject = m]]
      /\ Begin(s, c, "check", m) /\ rt' = rt /\ intent' = intent
  BY DEF Reserve, IsNextGeneration
<1>3. /\ mat'[m].st = "PROVISIONING" /\ mat'[m].done = mat[m].done
      /\ \A o \in Mats : o # m => mat'[o] = mat[o]
  BY <1>1, <1>2 DEF Typed, DatabaseTyped, Rows
<1>4. /\ receipt'[c].st = "IN_PROGRESS" /\ receipt'[c].phase = "RESERVED"
      /\ receipt'[c].subject = m /\ receipt'[c].owner = s /\ receipt'[c].result = "NONE"
      /\ receipt'[c].cleaned = {}
      /\ \A d \in Commands : d # c => receipt'[d] = receipt[d]
  BY <1>1, <1>2 DEF Typed, ReceiptsTyped, Claimed, NoReceipt
<1>5. receipt[c].subject = NoMat
  BY <1>1, <1>2 DEF Honest, HonestResult
<1>6. Knows(s)'
  BY <1>2, <1>4, BeginKnows
<1>7. Honest(c)'
  BY <1>1, <1>2, <1>3, <1>4
  DEF Honest, HonestProvision, HonestSubject, HonestResult, Terminal
<1>8. \A d \in Commands : receipt[d].subject # NoMat => NotServed(receipt[d].subject)
  BY <1>1, <1>3 DEF Typed, ReceiptsTyped, Receipts, NotServed
<1>9. Mirrors(m)'
  BY <1>1, <1>2, <1>3, <1>4 DEF Mirrors, RowFits
<1>10. OneReservation'
  <2>1. \A d \in Commands : Op[d] = "provision" /\ receipt[d].subject = m => FALSE
    BY <1>1, <1>2 DEF Linked, Honest, HonestProvision
  <2> QED
    BY <1>4, <2>1 DEF Linked, OneReservation
<1> QED
  BY <1>1, <1>2, <1>3, <1>4, <1>5, <1>6, <1>7, <1>8, <1>9, <1>10, BeginFacts, ClaimFrame

\* A new command starts from a clean receipt, a command taken over from what it persisted.
LEMMA ClaimLinks ==
  ASSUME Linked, Consistent', Grows, NEW s \in Calls, NEW c \in Commands, Claim(s, c)
  PROVE  Linked'
<1>1. Typed /\ Typed' /\ Honest(c) /\ receipt[c] \in Receipts /\ receipt \in [Commands -> Receipts]
  BY DEF Linked, Consistent, Typed, ReceiptsTyped
<1>2. ASSUME mat' = mat
      PROVE  \A d \in Commands : NotServed(receipt[d].subject)
  BY <1>2 DEF NotServed
<1>3. ASSUME receipt[c].st = "NONE", NEW r, receipt' = [receipt EXCEPT ![c] = r],
             r.subject = NoMat, r.cleaned = {}, r.owner \in {s, NoCall},
             Fresh(s, c), \A t \in Calls : t # s => call'[t] = call[t],
             call'[s] = call[s] \/ Knows(s)', mat' = mat, intent' = intent, rt' = rt,
             \/ r.st = "IN_PROGRESS" /\ r.result = "NONE" /\ Op[c] # "provision"
             \/ r.st = "COMPLETED" /\ r.result = "BLOCKED"
      PROVE  Linked'
  <2>1. receipt'[c] = r /\ \A d \in Commands : d # c => receipt'[d] = receipt[d]
    BY <1>1, <1>3
  <2>2. receipt[c].subject = NoMat
    BY <1>1, <1>3 DEF Honest, HonestResult
  <2>3. Honest(c)'
    BY <1>3, <2>1 DEF Honest, HonestProvision, HonestSubject, HonestResult, Terminal
  <2> QED
    BY <1>2, <1>3, <2>1, <2>2, <2>3, ClaimFrame
<1>4. ASSUME TakenOver(s, c), Expired(c), Fresh(s, c),
             \A t \in Calls : t # s => call'[t] = call[t], Knows(s)',
             mat' = mat, intent' = intent, rt' = rt
      PROVE  Linked'
  <2>1. /\ receipt'[c].owner = s /\ SameTerms(c)
        /\ \A d \in Commands : d # c => receipt'[d] = receipt[d]
    BY <1>1, <1>4 DEF TakenOver, SameTerms, Receipts
  <2>2. Honest(c)'
    BY <1>1, <1>2, <1>4, <2>1, HonestStays
  <2> QED
    BY <1>2, <1>4, <2>1, <2>2, ClaimFrame DEF SameTerms
<1>5. /\ Claimed(s).st = "IN_PROGRESS" /\ Claimed(s).result = "NONE" /\ Claimed(s).owner = s
      /\ Claimed(s).subject = NoMat /\ Claimed(s).cleaned = {}
  BY DEF Claimed, NoReceipt
<1>6. ASSUME NEW p \in Policies, Refuse(s, c, p) PROVE Linked'
  <2> DEFINE r == Completed(Claimed(s), "BLOCKED")
  <2>1. /\ r.subject = NoMat /\ r.cleaned = {} /\ r.owner = NoCall
        /\ r.st = "COMPLETED" /\ r.result = "BLOCKED"
    BY DEF Completed, Claimed, NoReceipt
  <2>2. /\ receipt' = [receipt EXCEPT ![c] = r] /\ receipt[c].st = "NONE" /\ Fresh(s, c)
        /\ call' = call /\ mat' = mat /\ intent' = intent /\ rt' = rt
    BY <1>6 DEF Refuse
  <2> HIDE DEF r
  <2> QED
    BY <1>3, <2>1, <2>2
<1>7. ASSUME NEW p \in Policies, NEW n \in 1..MaxGeneration, Reserve(s, c, p, n) PROVE Linked'
  BY <1>7, ReserveLinks
<1>8. CASE RecoverProvision(s, c)
  <2>1. /\ Fresh(s, c) /\ Op[c] = "provision" /\ Expired(c) /\ TakenOver(s, c)
        /\ Begin(s, c, "check", receipt[c].subject)
        /\ mat' = mat /\ intent' = intent /\ rt' = rt
    BY <1>8 DEF RecoverProvision, database
  <2>2. receipt'[c].subject = receipt[c].subject
    BY <1>1, <2>1 DEF TakenOver, Receipts
  <2>3. Knows(s)'
    BY <2>1, <2>2, BeginKnows
  <2> QED
    BY <1>4, <2>1, <2>3, BeginFacts
<1>9. ASSUME NEW m \in Mats, ClaimGuarded(s, c, m) PROVE Linked'
  <2> DEFINE r == [Claimed(s) EXCEPT !.guard = [m |-> m, rev |-> mat[m].rev]]
  <2>1. /\ r.subject = NoMat /\ r.cleaned = {} /\ r.owner = s
        /\ r.st = "IN_PROGRESS" /\ r.result = "NONE"
    BY DEF Claimed, NoReceipt
  <2>2. /\ receipt' = [receipt EXCEPT ![c] = r] /\ receipt[c].st = "NONE" /\ Fresh(s, c)
        /\ Begin(s, c, "begin", m) /\ mat' = mat /\ intent' = intent /\ rt' = rt
        /\ Op[c] \notin {"provision", "reconcile"}
    BY <1>9 DEF ClaimGuarded, GuardedOps, database
  <2> HIDE DEF r
  <2>3. receipt'[c] = r
    BY <1>1, <2>2
  <2>4. Knows(s)'
    BY <2>1, <2>2, <2>3, BeginKnows
  <2> QED
    BY <1>3, <2>1, <2>2, <2>4, BeginFacts
<1>10. CASE ClaimByExecution(s, c)
  <2> DEFINE pc == IF Op[c] = "reconcile" THEN "scan" ELSE "begin"
  <2>1. /\ receipt' = [receipt EXCEPT ![c] = Claimed(s)] /\ receipt[c].st = "NONE"
        /\ Fresh(s, c) /\ Begin(s, c, pc, NoMat)
        /\ mat' = mat /\ intent' = intent /\ rt' = rt
        /\ Op[c] # "provision"
    BY <1>10 DEF ClaimByExecution, database
  <2>2. receipt'[c] = Claimed(s)
    BY <1>1, <2>1
  <2>3. Knows(s)'
    BY <1>5, <2>1, <2>2, BeginKnows
  <2> QED
    BY <1>3, <1>5, <2>1, <2>3, BeginFacts
<1>11. CASE TakeOver(s, c)
  <2> DEFINE pc == ResumePoint(c)
             m == IF receipt[c].subject # NoMat THEN receipt[c].subject ELSE receipt[c].guard.m
  <2>1. /\ Fresh(s, c) /\ Op[c] # "provision" /\ Expired(c) /\ TakenOver(s, c)
        /\ Begin(s, c, pc, m) /\ mat' = mat /\ intent' = intent /\ rt' = rt
    BY <1>11 DEF TakeOver, database
  <2>2. receipt'[c].subject = receipt[c].subject
    BY <1>1, <2>1 DEF TakenOver, Receipts
  <2>3. /\ pc \in {"check", "begin", "scan", "publish", "resume", "read"} /\ pc # "check"
        /\ Op[c] = "reconcile" <=> pc = "scan"
        /\ pc = "publish" => Op[c] = "preview"
        /\ pc = "begin" => receipt[c].subject = NoMat
        /\ pc \notin {"begin", "scan"} => receipt[c].subject = m
        /\ pc \in {"resume", "read"} => Op[c] # "preview" /\ receipt[c].subject # NoMat
    BY DEF ResumePoint
  <2>4. pc \in {"resume", "read"} => mat[m].st \in Begun
    BY <1>1, <2>1, <2>3 DEF Honest, HonestSubject
  <2> HIDE DEF pc, m
  <2>5. Knows(s)'
    BY <2>1, <2>2, <2>3, <2>4, BeginKnows
  <2> QED
    BY <1>4, <2>1, <2>5, BeginFacts
<1> QED
  BY <1>6, <1>7, <1>8, <1>9, <1>10, <1>11 DEF Claim

\* Every step of the controller keeps calls, receipts and the runtime linked.
LEMMA NextLinks ==
  ASSUME Linked, [Next]_vars
  PROVE  Linked'
<1>1. Consistent /\ Consistent' /\ Grows
  BY ConsistentStep, NextGrows DEF Linked
<1>2. ASSUME NEW s \in Calls, Run(s) PROVE Linked'
  <2>1. ASSUME NEW k \in Steps, CommitStep(s, k) PROVE Linked'
    BY <1>1, <2>1, CommitLinks
  <2>2. CASE CleanupStep(s)
    BY <1>1, <2>1, <2>2, ChainLinks, FinishLinks, QuarantineLinks DEF CleanupStep
  <2>3. CASE GuardedStep(s)
    BY <1>1, <2>3, GuardLinks, PreviewLinks DEF GuardedStep
  <2>4. CASE ReconcileStep(s)
    BY <1>1, <2>4, BatchLinks, ItemLinks, PickLinks DEF ReconcileStep
  <2> QED
    BY <1>1, <1>2, <2>2, <2>3, <2>4, ProvisionLinks, CancelLinks, FaultLinks DEF Run
<1>3. ASSUME NEW s \in Calls, Fault(s) PROVE Linked'
  BY <1>1, <1>3, FaultLinks
<1>4. ASSUME NEW s \in Calls, NEW c \in Commands, Claim(s, c) PROVE Linked'
  BY <1>1, <1>4, ClaimLinks
<1>5. CASE Time
  BY <1>1, <1>5, TimeLinks
<1>6. CASE UNCHANGED vars
  <2>1. /\ mat' = mat /\ rt' = rt /\ receipt' = receipt /\ intent' = intent /\ call' = call
    BY <1>6 DEF vars
  <2>2. \A s \in Calls : Undisturbed(s)
    BY <2>1 DEF Undisturbed
  <2>3. \A c \in Commands : SameTerms(c) /\ NotServed(receipt[c].subject)
    BY <2>1 DEF SameTerms, NotServed
  <2> QED
    BY <1>1, <2>1, <2>2, <2>3, Frame DEF SubjectsStay, ReservationsStay
<1> QED
  BY <1>2, <1>3, <1>4, <1>5, <1>6 DEF Next

\* They are linked from the start.
LEMMA InitLinked == Init => Linked
<1> SUFFICES ASSUME Init PROVE Linked
  OBVIOUS
<1>1. Consistent
  BY InitConsistent
<1>2. /\ \A m \in Mats : mat[m] = NoRow /\ rt[m] = NoRuntime
      /\ \A c \in Commands : receipt[c] = NoReceipt
      /\ \A s \in Calls : call[s] = IdleCall
  BY DEF Init
<1>3. ASSUME NEW s \in Calls PROVE Knows(s)
  <2>1. call[s].pc = "idle" /\ \A n \in Mats : call[s].seen[n].st = "NONE"
    BY <1>2 DEF IdleCall, NoRow
  <2> QED
    BY <2>1 DEF Knows, KnowsRow, KnowsReceipt, KnowsRuntime, Chain, Decided, Begun, Cleaning,
       Transitional, Terminal
<1>4. ASSUME NEW c \in Commands PROVE Honest(c)
  BY <1>2 DEF Honest, HonestProvision, HonestSubject, HonestResult, NoReceipt, Terminal
<1>5. ASSUME NEW m \in Mats PROVE Mirrors(m)
  BY <1>2 DEF Mirrors, NoRow, NoRuntime
<1>6. OneReservation
  BY <1>2 DEF OneReservation, NoReceipt
<1> QED
  BY <1>1, <1>3, <1>4, <1>5, <1>6 DEF Linked

\* In every state the controller reaches, what a call is about to write is
\* true of the row, of its receipt and of the runtime, whatever the other
\* calls did since it last looked.
THEOREM AlwaysLinked == Spec => []Linked
  BY InitLinked, NextLinks, PTL DEF Spec

-----------------------------------------------------------------------------
(* What follows from the links.                                            *)

\* The database and the runtime's record never contradict one another: a
\* stamp is committed after the runtime took the step, and the runtime takes
\* none before the stamp of the one before it.
THEOREM RecordsStayInterlocked == Spec => []RecordsInterlock
<1>1. Linked => RecordsInterlock
  BY DEF Linked, Mirrors, RecordsInterlock, RuntimeSteps
<1> QED
  BY <1>1, AlwaysLinked, PTL

\* Whoever resumes a cleanup, the runtime's own order check never fires.
THEOREM RuntimeIsNeverRefused == Spec => []RuntimeNeverRefuses
<1>1. Linked => RuntimeNeverRefuses
  <2> SUFFICES ASSUME Linked, NEW s \in Calls
               PROVE  /\ call[s].pc = "act" =>
                           \A k \in Pending(call[s].cur) : RuntimeAllows(call[s].m, k)
                      /\ call[s].pc = "destroy" => RuntimeAllows(call[s].m, "destroy")
    BY DEF RuntimeNeverRefuses
  <2> DEFINE m == call[s].m  cur == call[s].cur
  <2>1. ASSUME call[s].pc \in {"act", "destroy"}
        PROVE  /\ Mirrors(m) /\ KnowsRow(s) /\ RowFits(m) /\ Later(cur, mat[m])
               /\ m \in Mats
    BY <2>1, AtWork DEF Knows, KnowsRow, Decided
  <2>2. ASSUME call[s].pc = "act", NEW k \in Pending(cur) PROVE RuntimeAllows(m, k)
    <3>1. k # "destroy"
      BY <2>2 DEF Linked, Consistent, CommitsBounded, Pending, Prior
    <3>2. k \in Steps /\ Prior(k) \subseteq mat[m].done \ {"release"}
      BY <2>1, <2>2, <3>1 DEF Pending, Later, Prior, Steps, RuntimeSteps
    <3> QED
      BY <2>1, <2>2, <3>1, <3>2 DEF RuntimeAllows, RuntimePrior, Mirrors
  <2>3. ASSUME call[s].pc = "destroy" PROVE RuntimeAllows(m, "destroy")
    <3>1. "release" \in mat[m].done
      BY <2>1, <2>3 DEF KnowsRow, Later
    <3>2. "revoke" \in mat[m].done
      <4>1. Prior("release") = {"revoke"} /\ RowFits(m)
        BY <2>1, <2>3 DEF Prior
      <4> QED
        BY <3>1, <4>1 DEF RowFits
    <3> QED
      BY <2>1, <2>3, <3>2 DEF RuntimeAllows, RuntimePrior, Mirrors
  <2> QED
    BY <2>2, <2>3
<1> QED
  BY <1>1, AlwaysLinked, PTL

\* READY is only said of a runner that exists, that no cleanup has touched,
\* and whose lease and generation are current.
THEOREM ReadyStaysServed == Spec => []ReadyIsServed
<1>1. Linked => ReadyIsServed
  <2> SUFFICES ASSUME Linked, NEW m \in Mats, mat[m].st = "READY"
               PROVE  /\ rt[m].present /\ rt[m].done = {} /\ mat[m].done = {}
                      /\ lease[m] = "ACTIVE" /\ gen[m] = "ACTIVE"
    BY DEF ReadyIsServed
  <2>1. RowFits(m) /\ Mirrors(m) /\ mat[m].st \notin Begun
    BY DEF Linked, Consistent, RowsFit, Begun, Cleaning, Transitional, Terminal
  <2> QED
    BY <2>1 DEF RowFits, Mirrors
<1> QED
  BY <1>1, AlwaysLinked, PTL

\* Access to a preview ends with the fence, and a preview that was denied is
\* not the one a ready runner serves.
THEOREM PreviewStaysFenced == Spec => []PreviewFenced
<1>1. Linked => PreviewFenced
  <2> SUFFICES ASSUME Linked, NEW m \in Mats, rt[m].preview
               PROVE  /\ gen[m] = "ACTIVE" /\ "fence" \notin mat[m].done
                      /\ \A c \in rt[m].previewOp :
                           receipt[c].result = "DENIED" => mat[m].st # "READY"
    BY DEF PreviewFenced
  <2>1. RowFits(m) /\ Mirrors(m) /\ rt[m] \in RuntimeRows /\ m # NoMat
    BY NoMatAssumption DEF Linked, Consistent, RowsFit, Typed, OutsideTyped
  <2>2. rt[m].present /\ "fence" \notin mat[m].done /\ mat[m].st # "NONE"
    BY <2>1 DEF Mirrors
  <2>3. "release" \notin mat[m].done
    BY <2>1, <2>2 DEF RowFits, Prior
  <2>4. ASSUME NEW c \in rt[m].previewOp, receipt[c].result = "DENIED"
        PROVE  mat[m].st # "READY"
    <3>1. c \in Commands /\ Op[c] = "preview" /\ receipt[c].subject = m
      BY <2>1 DEF Mirrors, RuntimeRows
    <3>2. Unserved(c)
      BY <2>4, <3>1 DEF Linked, Honest, HonestResult
    <3> QED
      BY <2>1, <3>1, <3>2 DEF Unserved, Begun, Cleaning, Transitional, Terminal
  <2> QED
    BY <2>1, <2>2, <2>3, <2>4 DEF RowFits
<1> QED
  BY <1>1, AlwaysLinked, PTL

\* A reservation that is still provisioning can always be resumed by the
\* command that made it.
THEOREM ReservationStaysRecoverable == Spec => []ReservationRecoverable
<1>1. Linked => ReservationRecoverable
  <2> SUFFICES ASSUME Linked, NEW m \in Mats, mat[m].st = "PROVISIONING"
               PROVE  \E c \in Commands :
                        /\ Op[c] = "provision" /\ receipt[c].subject = m
                        /\ receipt[c].st = "IN_PROGRESS" /\ receipt[c].phase = "RESERVED"
    BY DEF ReservationRecoverable
  <2>1. Mirrors(m) /\ m # NoMat
    BY NoMatAssumption DEF Linked
  <2>2. PICK c \in Commands : Op[c] = "provision" /\ receipt[c].subject = m
    BY <2>1 DEF Mirrors
  <2>3. HonestProvision(c)
    BY DEF Linked, Honest
  <2> QED
    BY <2>1, <2>2, <2>3 DEF HonestProvision
<1> QED
  BY <1>1, AlwaysLinked, PTL

\* What a completed receipt says is true of its subject whenever the command
\* is replayed.
THEOREM ReceiptsStayTrue == Spec => []ReceiptsAreTrue
<1>1. Linked => ReceiptsAreTrue
  <2> SUFFICES ASSUME Linked, NEW c \in Commands
               PROVE  LET r == receipt[c] IN
                      /\ r.result \in Terminal => mat[r.subject].st = r.result
                      /\ r.result = "READY" =>
                           mat[r.subject].st \notin {"NONE", "PROVISIONING", "FAILED"}
                      /\ r.result = "PUBLISHED" =>
                           intent[c] = "PUBLISHED" /\ rt[r.subject].previewOp = {c}
                      /\ \A m \in r.cleaned : mat[m].st \in Terminal
    BY DEF ReceiptsAreTrue
  <2>1. HonestResult(c) /\ receipt[c].subject \in Mats \cup {NoMat}
    BY DEF Linked, Honest, Consistent, Typed, ReceiptsTyped, Receipts
  <2>2. \A m \in Mats : RowFits(m)
    BY DEF Linked, Consistent, RowsFit
  <2>3. receipt[c].result = "READY" =>
          mat[receipt[c].subject].st \notin {"NONE", "PROVISIONING", "FAILED"}
    BY <2>1, <2>2 DEF HonestResult, RowFits, Begun, Cleaning, Transitional, Terminal
  <2> QED
    BY <2>1, <2>3 DEF HonestResult
<1> QED
  BY <1>1, AlwaysLinked, PTL

-----------------------------------------------------------------------------
(* Owners.                                                                 *)

\* A step of one call moves no other.
LEMMA OneCallMoves ==
  ASSUME Consistent, [Next]_vars, NEW s \in Calls, call[s].pc # "idle", call'[s] # call[s]
  PROVE  Run(s) \/ Fault(s)
<1>1. call \in [Calls -> CallStates]
  BY DEF Consistent, Typed, CallsTyped
<1> DEFINE Mine(t) == \A u \in Calls : u # t => call'[u] = call[u]
<1>2. ASSUME NEW t \in Calls, NEW k, call' = [call EXCEPT ![t] = k] PROVE Mine(t)
  BY <1>1, <1>2
<1>3. ASSUME NEW t \in Calls, NEW pc, Goto(t, pc) PROVE Mine(t)
  BY <1>1, <1>3 DEF Goto
<1>4. ASSUME NEW t \in Calls, Return(t) PROVE Mine(t)
  BY <1>1, <1>4 DEF Return
<1>5. ASSUME NEW t \in Calls, NEW c, NEW pc, NEW m, Begin(t, c, pc, m) PROVE Mine(t)
  BY <1>1, <1>5 DEF Begin
<1> HIDE DEF Mine
<1>6. ASSUME NEW t \in Calls, Run(t) PROVE Mine(t)
  <2>1. CASE ProvisionStep(t)
    BY <1>2, <1>3, <1>4, <2>1
    DEF ProvisionStep, CheckProvision, RuntimeProvision, RuntimeRejects, CompleteReady, StartFailed
  <2>2. CASE GuardedStep(t)
    BY <1>3, <1>4, <2>2
    DEF GuardedStep, BeginCleanup, Refused, Deny, BeginPreview, RuntimePublish,
        RuntimeRefusesPreview, CompletePreview
  <2>3. CASE CancelStep(t)
    BY <1>2, <1>3, <1>4, <2>3 DEF CancelStep, BeginCancel, ResumeCancel, AlreadyTerminal
  <2>4. CASE CleanupStep(t)
    BY <1>2, <1>3, <1>4, <2>4
    DEF CleanupStep, ReadRecord, RuntimeDestroy, FinishCommand, Quarantine, RuntimeStep, CommitStep
  <2>5. CASE ReconcileStep(t)
    BY <1>2, <1>3, <1>4, <2>5 DEF ReconcileStep, Scan, FinishItem, Report, PickCandidate
  <2>6. CASE Raise(t)
    BY <1>4, <2>6 DEF Raise
  <2> QED
    BY <1>6, <2>1, <2>2, <2>3, <2>4, <2>5, <2>6 DEF Run
<1>7. ASSUME NEW t \in Calls, Fault(t) PROVE Mine(t)
  BY <1>3, <1>4, <1>7 DEF Fault, ProvisionFails, CleanupFails, Crash
<1>8. ASSUME NEW t \in Calls, NEW c \in Commands, Claim(t, c)
      PROVE  call' = call \/ (call[t].pc = "idle" /\ Mine(t))
  BY <1>5, <1>8
  DEF Claim, Refuse, Reserve, RecoverProvision, ClaimGuarded, ClaimByExecution, TakeOver, Fresh
<1>9. Time \/ UNCHANGED vars => call' = call
  BY DEF Time, Lapse, Overrun, NewKey, Expire, vars
<1> QED
  BY <1>6, <1>7, <1>8, <1>9 DEF Next, Mine

\* A call that lost its command writes nothing.
LEMMA StaleStep ==
  ASSUME NEW s \in Calls, Run(s) \/ Fault(s), ~Owns(s)
  PROVE  UNCHANGED <<database, receipt>>
<1>1. CASE ProvisionStep(s)
  BY <1>1
  DEF ProvisionStep, CheckProvision, RuntimeProvision, RuntimeRejects, CompleteReady, CanMarkReady,
      StartFailed
<1>2. CASE GuardedStep(s)
  BY <1>2
  DEF GuardedStep, BeginCleanup, Refused, Deny, BeginPreview, RuntimePublish,
      RuntimeRefusesPreview, CompletePreview, database
<1>3. CASE CancelStep(s)
  BY <1>3 DEF CancelStep, BeginCancel, ResumeCancel, AlreadyTerminal
<1>4. CASE CleanupStep(s)
  BY <1>4
  DEF CleanupStep, ReadRecord, RuntimeDestroy, FinishCommand, CanFinish, Quarantine,
      CanQuarantine, RuntimeStep, CommitStep, CanCommit
<1>5. ASSUME NEW m \in Mats, PickCandidate(s, m) PROVE UNCHANGED <<database, receipt>>
  <2>1. call[s].seen[m].st \notin {"PROVISIONING", "READY"}
    BY <1>5 DEF PickCandidate, CanPick
  <2> QED
    BY <1>5, <2>1 DEF PickCandidate, Opened, database
<1>6. CASE ReconcileStep(s)
  BY <1>5, <1>6 DEF ReconcileStep, Scan, FinishItem, CanFinishItem, Report
<1>7. CASE Raise(s) \/ Fault(s)
  BY <1>7 DEF Raise, Fault, ProvisionFails, CleanupFails, Crash
<1> QED
  BY <1>1, <1>2, <1>3, <1>4, <1>6, <1>7 DEF Run

\* Once its command was taken over, a call changes no row and no receipt, at
\* whatever point of its work it was (_operation_row).
THEOREM StaleOwnersAreHarmless == Spec => StaleOwnerWritesNothing
<1> DEFINE A == \A s \in Calls :
       (call[s].pc # "idle" /\ call'[s] # call[s] /\ receipt[Cmd(s)].owner # s)
         => UNCHANGED <<database, receipt>>
<1>1. Consistent /\ [Next]_vars => A
  BY OneCallMoves, StaleStep DEF Owns
<1>2. Consistent /\ [Next]_vars => [A]_vars
  BY <1>1
<1> QED
  BY <1>2, AlwaysConsistent, PTL DEF Spec, StaleOwnerWritesNothing

-----------------------------------------------------------------------------
(* Guards.                                                                 *)

\* A guard that was let through is older than its row, and a call about to use
\* one works on the materialization it names.
GuardsFit ==
  /\ \A c \in Commands : Spent(c) => receipt[c].guard.rev < mat[receipt[c].guard.m].rev
  /\ \A s \in Calls : call[s].pc = "begin" /\ Op[Cmd(s)] \in GuardedOps =>
       receipt[Cmd(s)].st # "NONE" /\ call[s].m = receipt[Cmd(s)].guard.m

\* What a step does to a guarded command: nothing that matters here, its guard
\* is new, or its guard is let through at the row's own revision.
GuardHeld(c) ==
  /\ receipt'[c].guard = receipt[c].guard /\ receipt'[c].subject = receipt[c].subject
  /\ receipt[c].st # "NONE" => receipt'[c].st # "NONE"

GuardNew(c) ==
  receipt[c].st = "NONE" /\ receipt'[c].st # "NONE" /\ receipt'[c].subject = NoMat

GuardLetThrough(c) ==
  LET g == receipt[c].guard IN
  /\ receipt[c].st # "NONE" /\ receipt'[c].st # "NONE" /\ receipt'[c].guard = g
  /\ g.rev = mat[g.m].rev /\ mat[g.m].rev < mat'[g.m].rev
  /\ \A d \in Commands \ {c} : receipt'[d] = receipt[d]

GuardMoved(c) == GuardHeld(c) \/ GuardNew(c) \/ GuardLetThrough(c)

\* The steps of a call that owns its command.
LEMMA OwnerMovesGuards ==
  ASSUME Linked, GuardsFit, NEW s \in Calls, Run(s), Owns(s), NEW c \in Commands,
         Op[c] \in GuardedOps
  PROVE  GuardMoved(c)
<1> USE DEF GuardMoved
<1>1. call[s].pc # "idle"
  <2>1. CASE ProvisionStep(s)
    BY <2>1
    DEF ProvisionStep, CheckProvision, RuntimeProvision, RuntimeRejects, CompleteReady, StartFailed
  <2>2. CASE GuardedStep(s)
    BY <2>2
    DEF GuardedStep, BeginCleanup, Refused, Deny, BeginPreview, RuntimePublish,
        RuntimeRefusesPreview, CompletePreview
  <2>3. CASE CancelStep(s)
    <3>1. ASSUME NEW m \in Mats, BeginCancel(s, m) PROVE call[s].pc # "idle"
      BY <3>1 DEF BeginCancel
    <3> QED
      BY <2>3, <3>1 DEF CancelStep, ResumeCancel, AlreadyTerminal
  <2>4. CASE CleanupStep(s)
    BY <2>4
    DEF CleanupStep, ReadRecord, RuntimeDestroy, FinishCommand, Quarantine, RuntimeStep, CommitStep
  <2>5. CASE ReconcileStep(s)
    <3>1. ASSUME NEW m \in Mats, PickCandidate(s, m) PROVE call[s].pc # "idle"
      BY <3>1 DEF PickCandidate
    <3> QED
      BY <2>5, <3>1 DEF ReconcileStep, Scan, FinishItem, Report
  <2>6. CASE Raise(s)
    BY <2>6 DEF Raise
  <2> QED
    BY <2>1, <2>2, <2>3, <2>4, <2>5, <2>6 DEF Run
<1>2. /\ Cmd(s) \in Commands /\ receipt[Cmd(s)].st = "IN_PROGRESS" /\ KnowsReceipt(s)
      /\ receipt \in [Commands -> Receipts]
  BY <1>1, AtWork DEF Knows, Typed, ReceiptsTyped
<1>3. UNCHANGED receipt => GuardHeld(c)
  BY DEF GuardHeld
<1>4. ASSUME NEW result, Complete(Cmd(s), result) PROVE GuardHeld(c)
  BY <1>2, <1>4 DEF Complete, Completed, Receipts, GuardHeld
<1>5. ASSUME NEW phase, NEW m, Advance(Cmd(s), phase, m),
             m = receipt[Cmd(s)].subject \/ Op[Cmd(s)] \notin GuardedOps
      PROVE  GuardHeld(c)
  BY <1>2, <1>5 DEF Advance, Receipts, GuardHeld
<1>6. CASE ProvisionStep(s)
  BY <1>1, <1>2, <1>3, <1>4, <1>5, <1>6
  DEF ProvisionStep, CheckProvision, RuntimeProvision, RuntimeRejects, CompleteReady,
      StartFailed, KnowsReceipt, ProvisionPath, GuardedOps
<1>7. CASE BeginCleanup(s) \/ BeginPreview(s)
  <2> DEFINE b == Cmd(s)  m == call[s].m
  <2>1. /\ call[s].pc = "begin" /\ Op[b] \in GuardedOps /\ Guarded(s)
        /\ \E phase \in {"CLEANUP_STARTED", "PREVIEW_INTENT"} : Advance(b, phase, m)
    BY <1>7 DEF BeginCleanup, BeginPreview, GuardedOps
  <2>2. m = receipt[b].guard.m /\ receipt[b].guard.rev = mat[m].rev
    BY <2>1 DEF GuardsFit, Guarded, GuardHolds
  <2>3. /\ receipt'[b].guard = receipt[b].guard /\ receipt'[b].st = receipt[b].st
        /\ \A d \in Commands \ {b} : receipt'[d] = receipt[d]
    BY <1>2, <2>1 DEF Advance, Receipts
  <2>4. m \in Mats /\ mat[m] \in Rows /\ mat \in [Mats -> Rows]
    BY <1>1, <2>1, Working DEF Linked, Consistent, Typed, DatabaseTyped, GuardedOps
  <2>5. mat[m].rev < mat'[m].rev
    <3> DEFINE t == TerminalOf(Op[b])
    <3>1. mat'[m] = Closing(mat[m], t) \/ mat'[m] = [mat[m] EXCEPT !.rev = @ + 1]
      BY <1>7, <2>4 DEF BeginCleanup, BeginPreview
    <3> HIDE DEF t
    <3> QED
      BY <2>4, <3>1, Edits DEF Rows
  <2> QED
    BY <1>2, <2>2, <2>3, <2>5 DEF GuardLetThrough, GuardHeld
<1>8. CASE GuardedStep(s) /\ ~BeginCleanup(s) /\ ~BeginPreview(s)
  BY <1>3, <1>4, <1>8
  DEF GuardedStep, Refused, Deny, RuntimePublish, RuntimeRefusesPreview, CompletePreview
<1>9. CASE CancelStep(s)
  <2>1. ASSUME NEW m \in Mats, BeginCancel(s, m) PROVE GuardHeld(c)
    <3>1. Advance(Cmd(s), "CLEANUP_STARTED", m) /\ Op[Cmd(s)] \notin GuardedOps
      BY <2>1 DEF BeginCancel, GuardedOps
    <3> QED
      BY <1>5, <3>1
  <2>2. CASE AlreadyTerminal(s)
    BY <1>4, <2>2 DEF AlreadyTerminal
  <2> QED
    BY <1>3, <1>9, <2>1, <2>2 DEF CancelStep, ResumeCancel
<1>10. CASE CleanupStep(s)
  <2>1. CASE Quarantine(s) /\ Op[Cmd(s)] = "reconcile"
    <3>1. receipt' = [receipt EXCEPT ![Cmd(s)].left = @ \ {call[s].m}]
      BY <2>1 DEF Quarantine
    <3> QED
      BY <1>2, <3>1 DEF Receipts, GuardHeld
  <2>2. CASE Quarantine(s) /\ Op[Cmd(s)] # "reconcile"
    BY <1>1, <1>2, <1>5, <2>2 DEF Quarantine, KnowsReceipt
  <2> QED
    BY <1>3, <1>4, <1>10, <2>1, <2>2
    DEF CleanupStep, ReadRecord, RuntimeDestroy, FinishCommand, RuntimeStep, CommitStep
<1>11. CASE ReconcileStep(s)
  <2>1. CASE Scan(s)
    BY <1>2, <2>1 DEF Scan, Receipts, GuardHeld
  <2>2. CASE FinishItem(s)
    BY <1>2, <2>2 DEF FinishItem, ItemDone, Receipts, GuardHeld
  <2>3. CASE Report(s)
    BY <1>4, <2>3 DEF Report
  <2>4. ASSUME NEW m \in Mats, PickCandidate(s, m) PROVE GuardHeld(c)
    BY <1>3, <2>4 DEF PickCandidate
  <2> QED
    BY <1>11, <2>1, <2>2, <2>3, <2>4 DEF ReconcileStep
<1>12. CASE Raise(s)
  BY <1>3, <1>12 DEF Raise
<1> QED
  BY <1>6, <1>7, <1>8, <1>9, <1>10, <1>11, <1>12 DEF Run

LEMMA GuardsMove ==
  ASSUME Linked, GuardsFit, [Next]_vars, NEW c \in Commands, Op[c] \in GuardedOps
  PROVE  GuardMoved(c)
<1>1. receipt \in [Commands -> Receipts] /\ Honest(c)
  BY DEF Linked, Consistent, Typed, ReceiptsTyped
<1>2. UNCHANGED receipt => GuardMoved(c)
  BY DEF GuardHeld, GuardMoved
<1>3. ASSUME NEW d \in Commands, d # c, NEW r, receipt' = [receipt EXCEPT ![d] = r]
      PROVE  GuardMoved(c)
  BY <1>1, <1>3 DEF GuardHeld, GuardMoved
<1>4. ASSUME NEW s \in Calls, Run(s) \/ Fault(s) PROVE GuardMoved(c)
  <2>1. Fault(s) => UNCHANGED receipt
    BY DEF Fault, ProvisionFails, CleanupFails, Crash
  <2> QED
    BY <1>2, <1>4, <2>1, StaleStep, OwnerMovesGuards
<1>5. ASSUME NEW s \in Calls, NEW d \in Commands, Claim(s, d) PROVE GuardMoved(c)
  <2>1. CASE \E m \in Mats : ClaimGuarded(s, d, m)
    BY <1>1, <2>1 DEF ClaimGuarded, Claimed, NoReceipt, GuardHeld, GuardNew, GuardMoved
  <2>2. CASE RecoverProvision(s, d) \/ TakeOver(s, d)
    <3>1. TakenOver(s, d)
      BY <2>2 DEF RecoverProvision, TakeOver
    <3>2. GuardHeld(c)
      BY <1>1, <3>1 DEF TakenOver, Receipts, GuardHeld
    <3> QED
      BY <3>2 DEF GuardMoved
  <2>3. ASSUME NEW p \in Policies, Refuse(s, d, p) PROVE GuardMoved(c)
    <3>1. d # c /\ receipt' = [receipt EXCEPT ![d] = Completed(Claimed(s), "BLOCKED")]
      BY <2>3 DEF Refuse, GuardedOps
    <3> QED
      BY <1>1, <1>3, <3>1
  <2>4. ASSUME NEW p \in Policies, NEW n \in 1..MaxGeneration, Reserve(s, d, p, n)
        PROVE  GuardMoved(c)
    <3>1. d # c /\ receipt' = [receipt EXCEPT ![d] =
                     [Claimed(s) EXCEPT !.phase = "RESERVED", !.subject = <<Target[d], n>>]]
      BY <2>4 DEF Reserve, GuardedOps
    <3> QED
      BY <1>1, <1>3, <3>1
  <2>5. CASE ClaimByExecution(s, d)
    <3>1. d # c /\ receipt' = [receipt EXCEPT ![d] = Claimed(s)]
      BY <2>5 DEF ClaimByExecution, GuardedOps
    <3> QED
      BY <1>1, <1>3, <3>1
  <2> QED
    BY <1>5, <2>1, <2>2, <2>3, <2>4, <2>5 DEF Claim
<1>6. CASE Time
  <2>1. ASSUME NEW d \in Commands, Lapse(d) PROVE GuardMoved(c)
    BY <1>1, <2>1 DEF Lapse, Receipts, GuardHeld, GuardMoved
  <2>2. ASSUME NEW d \in Commands, Overrun(d) PROVE GuardMoved(c)
    BY <1>1, <2>2 DEF Overrun, Receipts, GuardHeld, GuardMoved
  <2>3. ASSUME NEW d \in Commands, NewKey(d) PROVE GuardMoved(c)
    <3>1. d # c /\ receipt' = [receipt EXCEPT ![d] = NoReceipt]
      BY <2>3 DEF NewKey, GuardedOps
    <3> QED
      BY <1>1, <1>3, <3>1
  <2>4. ASSUME NEW m \in Mats, Expire(m) PROVE GuardMoved(c)
    BY <1>2, <2>4 DEF Expire
  <2> QED
    BY <1>6, <2>1, <2>2, <2>3, <2>4 DEF Time
<1>7. CASE UNCHANGED vars
  BY <1>2, <1>7 DEF vars
<1> QED
  BY <1>4, <1>5, <1>6, <1>7 DEF Next

\* Only a claim begins a call.
LEMMA BegunByClaim ==
  ASSUME Linked, [Next]_vars, NEW s \in Calls, call'[s] # call[s], call'[s].pc = "begin"
  PROVE  \E c \in Commands : Claim(s, c)
<1>1. call \in [Calls -> CallStates]
  BY DEF Linked, Consistent, Typed, CallsTyped
<1> DEFINE Works == call'[s] = call[s] \/ call'[s].pc # "begin"
<1>2. ASSUME NEW t \in Calls, NEW pc, pc # "begin", Goto(t, pc) PROVE Works
  BY <1>1, <1>2 DEF Goto, CallStates
<1>3. ASSUME NEW t \in Calls, Return(t) PROVE Works
  BY <1>1, <1>3 DEF Return, IdleCall
<1> HIDE DEF Works
<1>4. ASSUME NEW t \in Calls, Run(t) PROVE Works
  <2>1. CASE ProvisionStep(t)
    <3>1. CASE StartFailed(t)
      <4>1. PICK row, pc \in {"finish", "read"} :
              call' = [call EXCEPT ![t] = [@ EXCEPT !.cur = row, !.pc = pc]]
        BY <3>1 DEF StartFailed
      <4> QED
        BY <1>1, <4>1 DEF CallStates, Works
    <3> QED
      BY <1>2, <1>3, <2>1, <3>1
      DEF ProvisionStep, CheckProvision, RuntimeProvision, RuntimeRejects, CompleteReady
  <2>2. CASE GuardedStep(t)
    BY <1>2, <1>3, <2>2
    DEF GuardedStep, BeginCleanup, Refused, Deny, BeginPreview, RuntimePublish,
        RuntimeRefusesPreview, CompletePreview
  <2>3. CASE CancelStep(t)
    <3>1. ASSUME NEW m \in Mats, BeginCancel(t, m) PROVE Works
      <4>1. PICK pc \in {"read", "already"} : call' = [call EXCEPT ![t] = [@ EXCEPT !.m = m, !.pc = pc]]
        BY <3>1 DEF BeginCancel
      <4> QED
        BY <1>1, <4>1 DEF CallStates, Works
    <3> QED
      BY <1>2, <1>3, <2>3, <3>1 DEF CancelStep, ResumeCancel, AlreadyTerminal
  <2>4. CASE CleanupStep(t)
    <3>1. CASE ReadRecord(t)
      <4>1. PICK row, pc \in {"finish", "act", "commit", "destroy"} :
              call' = [call EXCEPT ![t] = [@ EXCEPT !.cur = row, !.pc = pc]]
        BY <3>1 DEF ReadRecord
      <4> QED
        BY <1>1, <4>1 DEF CallStates, Works
    <3> QED
      BY <1>2, <1>3, <2>4, <3>1
      DEF CleanupStep, RuntimeDestroy, FinishCommand, Quarantine, RuntimeStep, CommitStep
  <2>5. CASE ReconcileStep(t)
    <3>1. CASE Scan(t)
      <4> DEFINE found == IF receipt[Cmd(t)].scanned THEN receipt[Cmd(t)].left ELSE Candidates
                 seen == [m \in Mats |-> IF m \in found THEN mat[m] ELSE NoRow]
      <4>1. call' = [call EXCEPT ![t] = [@ EXCEPT !.pc = "pick", !.seen = seen]]
        BY <3>1 DEF Scan
      <4> HIDE DEF seen
      <4> QED
        BY <1>1, <4>1 DEF CallStates, Works
    <3>2. ASSUME NEW m \in Mats, PickCandidate(t, m) PROVE Works
      BY <1>1, <3>2 DEF PickCandidate, CallStates, Works
    <3> QED
      BY <1>2, <1>3, <2>5, <3>1, <3>2 DEF ReconcileStep, FinishItem, Report
  <2>6. CASE Raise(t)
    BY <1>3, <2>6 DEF Raise
  <2> QED
    BY <1>4, <2>1, <2>2, <2>3, <2>4, <2>5, <2>6 DEF Run
<1>5. ASSUME NEW t \in Calls, Fault(t) PROVE Works
  BY <1>2, <1>3, <1>5 DEF Fault, ProvisionFails, CleanupFails, Crash
<1>6. ASSUME NEW t \in Calls \ {s}, NEW c \in Commands, Claim(t, c) PROVE Works
  <2>1. ASSUME NEW d, NEW pc, NEW m, Begin(t, d, pc, m) PROVE Works
    BY <1>1, <1>6, <2>1 DEF Begin, Works
  <2>2. ASSUME NEW p \in Policies, NEW n \in 1..MaxGeneration, Reserve(t, c, p, n) PROVE Works
    BY <2>1, <2>2 DEF Reserve
  <2>3. ASSUME NEW p \in Policies, Refuse(t, c, p) PROVE Works
    BY <2>3 DEF Refuse, Works
  <2>4. ASSUME NEW m \in Mats, ClaimGuarded(t, c, m) PROVE Works
    BY <2>1, <2>4 DEF ClaimGuarded
  <2>5. CASE RecoverProvision(t, c) \/ ClaimByExecution(t, c) \/ TakeOver(t, c)
    BY <2>1, <2>5 DEF RecoverProvision, ClaimByExecution, TakeOver
  <2> QED
    BY <1>6, <2>2, <2>3, <2>4, <2>5 DEF Claim
<1>7. ASSUME Time PROVE Works
  <2>1. ASSUME NEW c \in Commands, Lapse(c) \/ Overrun(c) \/ NewKey(c) PROVE call' = call
    BY <2>1 DEF Lapse, Overrun, NewKey
  <2>2. ASSUME NEW m \in Mats, Expire(m) PROVE call' = call
    BY <2>2 DEF Expire
  <2> QED
    BY <1>7, <2>1, <2>2 DEF Time, Works
<1>8. CASE UNCHANGED vars
  BY <1>8 DEF vars, Works
<1> QED
  BY <1>4, <1>5, <1>6, <1>7, <1>8 DEF Next, Works

LEMMA GuardsFitStep ==
  ASSUME Linked, GuardsFit, [Next]_vars, Typed'
  PROVE  GuardsFit'
<1>1. /\ mat \in [Mats -> Rows] /\ mat' \in [Mats -> Rows] /\ receipt \in [Commands -> Receipts]
      /\ receipt' \in [Commands -> Receipts] /\ call \in [Calls -> CallStates]
      /\ \A c \in Commands :
           receipt[c].st # "NONE" /\ Op[c] \in GuardedOps => receipt[c].guard.m \in Mats
  BY DEF Linked, Consistent, Typed, DatabaseTyped, ReceiptsTyped, GuardsBound, CallsTyped
<1>2. ASSUME NEW c \in Commands, Spent(c)'
      PROVE  receipt'[c].guard.rev < mat'[receipt'[c].guard.m].rev
  <2>1. Op[c] \in GuardedOps /\ receipt'[c].subject # NoMat /\ HonestResult(c)
    BY <1>2 DEF Spent, Linked, Honest
  <2>2. GuardMoved(c)
    BY <2>1, GuardsMove
  <2>3. CASE GuardHeld(c)
    <3>1. Spent(c) /\ receipt[c].st # "NONE" /\ receipt'[c].guard = receipt[c].guard
      BY <2>1, <2>3 DEF GuardHeld, Spent, HonestResult
    <3> DEFINE g == receipt[c].guard
    <3>2. g.m \in Mats /\ g.rev \in Nat /\ g.rev < mat[g.m].rev
      BY <1>1, <2>1, <3>1 DEF GuardsFit, Receipts
    <3>3. Later(mat[g.m], mat'[g.m])
      BY <3>2, NextGrows DEF Grows, Linked
    <3>4. mat[g.m].rev \in Nat /\ mat'[g.m].rev \in Nat
      BY <1>1, <3>2 DEF Rows
    <3>5. mat[g.m].rev <= mat'[g.m].rev
      BY <3>3, <3>4 DEF Later
    <3> QED
      BY <3>1, <3>2, <3>4, <3>5
  <2>4. CASE GuardLetThrough(c)
    BY <2>4 DEF GuardLetThrough
  <2> QED
    BY <2>1, <2>2, <2>3, <2>4 DEF GuardMoved, GuardNew
<1>3. ASSUME NEW s \in Calls, call'[s].pc = "begin", Op[call'[s].cmd] \in GuardedOps,
             call'[s].cmd \in Commands
      PROVE  /\ receipt'[call'[s].cmd].st # "NONE"
             /\ call'[s].m = receipt'[call'[s].cmd].guard.m
  <2>1. CASE call'[s] = call[s]
    <3>1. receipt[Cmd(s)].st # "NONE" /\ call[s].m = receipt[Cmd(s)].guard.m
      BY <1>3, <2>1 DEF GuardsFit, Cmd
    <3>2. GuardMoved(Cmd(s))
      BY <1>3, <2>1, GuardsMove DEF Cmd
    <3> QED
      BY <2>1, <3>1, <3>2 DEF GuardMoved, GuardHeld, GuardNew, GuardLetThrough, Cmd
  <2>2. ASSUME NEW c \in Commands, Claim(s, c), Op[call'[s].cmd] \in GuardedOps
        PROVE  /\ receipt'[call'[s].cmd].st # "NONE"
               /\ call'[s].m = receipt'[call'[s].cmd].guard.m
    <3>1. ASSUME NEW pc, NEW m, Begin(s, c, pc, m)
          PROVE  call'[s].cmd = c /\ call'[s].pc = pc /\ call'[s].m = m
      BY <1>1, <3>1 DEF Begin, IdleCall
    <3>2. ASSUME NEW m \in Mats, ClaimGuarded(s, c, m)
          PROVE  /\ receipt'[c].st # "NONE" /\ m = receipt'[c].guard.m
                 /\ call'[s].cmd = c /\ call'[s].m = m
      BY <1>1, <3>1, <3>2 DEF ClaimGuarded, Claimed, NoReceipt
    <3>3. CASE TakeOver(s, c)
      <4>1. /\ TakenOver(s, c) /\ Expired(c)
            /\ Begin(s, c, ResumePoint(c), IF receipt[c].subject # NoMat THEN receipt[c].subject
                                                         ELSE receipt[c].guard.m)
        BY <3>3 DEF TakeOver
      <4>2. receipt'[c].st # "NONE" /\ receipt'[c].guard = receipt[c].guard
        BY <1>1, <4>1 DEF TakenOver, Expired, Receipts
      <4>3. call'[s].cmd = c /\ ResumePoint(c) = "begin"
            /\ call'[s].m = IF receipt[c].subject # NoMat THEN receipt[c].subject
                                                         ELSE receipt[c].guard.m
        BY <1>3, <3>1, <4>1
      <4>4. receipt[c].subject = NoMat
        BY <2>2, <4>3 DEF ResumePoint, GuardedOps
      <4> QED
        BY <4>2, <4>3, <4>4
    <3>4. CASE RecoverProvision(s, c)
      <4>1. call'[s].cmd = c /\ Op[c] = "provision"
        BY <3>1, <3>4 DEF RecoverProvision
      <4> QED
        BY <2>2, <4>1 DEF GuardedOps
    <3>5. CASE ClaimByExecution(s, c)
      <4>1. call'[s].cmd = c /\ Op[c] \notin GuardedOps
        BY <3>1, <3>5 DEF ClaimByExecution, GuardedOps
      <4> QED
        BY <2>2, <4>1
    <3>6. ASSUME NEW p \in Policies, NEW n \in 1..MaxGeneration, Reserve(s, c, p, n) PROVE FALSE
      <4>1. call'[s].cmd = c /\ Op[c] = "provision"
        BY <3>1, <3>6 DEF Reserve
      <4> QED
        BY <2>2, <4>1 DEF GuardedOps
    <3>7. ASSUME NEW p \in Policies, Refuse(s, c, p) PROVE FALSE
      <4>1. call' = call /\ call[s].pc = "idle"
        BY <3>7 DEF Refuse, Fresh
      <4> QED
        BY <1>3, <4>1
    <3> QED
      BY <2>2, <3>2, <3>3, <3>4, <3>5, <3>6, <3>7 DEF Claim
  <2> QED
    BY <1>3, <2>1, <2>2, BegunByClaim
<1>4. \A s \in Calls : call'[s].pc = "begin" => call'[s].cmd \in Commands
  BY DEF Typed, CallsTyped, CallsBound
<1> QED
  BY <1>2, <1>3, <1>4 DEF GuardsFit, Cmd

LEMMA SpentOnceStep ==
  ASSUME Linked, GuardsFit, GuardSpentOnce, [Next]_vars
  PROVE  GuardSpentOnce'
<1> SUFFICES ASSUME NEW c \in Commands, NEW d \in Commands, Spent(c)', Spent(d)', c # d,
                    receipt'[c].guard = receipt'[d].guard
             PROVE  FALSE
  BY DEF GuardSpentOnce
<1>1. ASSUME NEW b \in Commands, Spent(b)' PROVE (GuardHeld(b) /\ Spent(b)) \/ GuardLetThrough(b)
  <2>1. GuardMoved(b) /\ receipt'[b].subject # NoMat
    BY <1>1, GuardsMove DEF Spent
  <2> QED
    BY <1>1, <2>1 DEF GuardMoved, GuardHeld, GuardNew, Spent
<1>2. ASSUME NEW a \in Commands, NEW b \in Commands, a # b, GuardLetThrough(a), Spent(b)',
             receipt'[a].guard = receipt'[b].guard
      PROVE  FALSE
  <2> DEFINE g == receipt[b].guard
  <2>1. receipt'[b] = receipt[b] /\ receipt[a].guard = g /\ g.rev = mat[g.m].rev
    BY <1>2 DEF GuardLetThrough
  <2>2. Spent(b)
    BY <1>2, <2>1 DEF Spent
  <2>3. g.m \in Mats
    BY <2>2 DEF Spent, Linked, Honest, HonestResult, Consistent, Typed, ReceiptsTyped, GuardsBound
  <2>4. g.rev < mat[g.m].rev /\ mat[g.m].rev \in Nat
    BY <2>2, <2>3 DEF GuardsFit, Linked, Consistent, Typed, DatabaseTyped, Rows
  <2> QED
    BY <2>1, <2>4
<1>3. CASE GuardLetThrough(c) \/ GuardLetThrough(d)
  BY <1>2, <1>3
<1>4. CASE GuardHeld(c) /\ Spent(c) /\ GuardHeld(d) /\ Spent(d)
  BY <1>4 DEF GuardHeld, GuardSpentOnce
<1> QED
  BY <1>1, <1>3, <1>4

\* Of the commands sent with one revision of a materialization at most one is
\* let through, for any number of callers, takeovers and faults.
THEOREM GuardsSpentOnce == Spec => []GuardSpentOnce
<1>1. Init => GuardsFit /\ GuardSpentOnce
  <2>1. Init => /\ \A c \in Commands : receipt[c].subject = NoMat
                /\ \A s \in Calls : call[s].pc = "idle"
    BY DEF Init, NoReceipt, IdleCall
  <2> QED
    BY <2>1 DEF GuardsFit, GuardSpentOnce, Spent
<1>2. Linked /\ Linked' /\ GuardsFit /\ GuardSpentOnce /\ [Next]_vars =>
        GuardsFit' /\ GuardSpentOnce'
  BY GuardsFitStep, SpentOnceStep DEF Linked, Consistent
<1> QED
  BY <1>1, <1>2, AlwaysLinked, PTL DEF Spec

-----------------------------------------------------------------------------
(* The controller implements the contract.                                 *)

Stage   == [m \in Mats |-> PhaseOf(mat[m].st)]
Outcome == [m \in Mats |-> mat[m].tgt]
Runner  == [m \in Mats |-> RunnerOf(rt[m])]

\* The contract's variables, as the refinement mapping gives them.
LEMMA ContractIs ==
  /\ UNCHANGED <<Stage, Outcome, Held, Runner>> => UNCHANGED Contract!contract
  /\ Contract!Mats = Mats
  BY DEF Contract!contract, Stage, Outcome, Held, Runner, Contract!Mats, Mats

\* The phase of each state.
LEMMA PhaseTable ==
  /\ PhaseOf("NONE") = "free" /\ PhaseOf("PROVISIONING") = "starting"
  /\ PhaseOf("READY") = "serving"
  /\ \A st \in Cleaning : PhaseOf(st) = "closing"
  /\ \A st \in Terminal : PhaseOf(st) = "closed"
  BY DEF PhaseOf, Cleaning, Transitional, Terminal

\* The step leaves every row but that of m alone.
Alone(m) == \A n \in Mats : n # m => mat'[n] = mat[n] /\ lease'[n] = lease[n]

\* No step writes the rows of two materializations.
LEMMA OneRowMoves ==
  ASSUME Consistent, [Next]_vars
  PROVE  \E m : Alone(m)
<1>1. mat \in [Mats -> Rows] /\ lease \in [Mats -> {"NONE", "ACTIVE", "RELEASED"}]
  BY DEF Consistent, Typed, DatabaseTyped
<1>2. UNCHANGED <<mat, lease>> => \E m : Alone(m)
  BY DEF Alone
<1>3. ASSUME NEW m, NEW r, mat' = [mat EXCEPT ![m] = r], lease' = lease PROVE Alone(m)
  BY <1>1, <1>3 DEF Alone
<1>4. ASSUME NEW s \in Calls, ProvisionStep(s) PROVE \E m : Alone(m)
  BY <1>2, <1>3, <1>4
  DEF ProvisionStep, CheckProvision, RuntimeProvision, RuntimeRejects, CompleteReady, StartFailed,
      database
<1>5. ASSUME NEW s \in Calls, GuardedStep(s) PROVE \E m : Alone(m)
  <2>1. CASE BeginPreview(s)
    BY <1>1, <2>1 DEF BeginPreview, Alone
  <2>2. CASE BeginCleanup(s)
    BY <1>3, <2>2 DEF BeginCleanup
  <2> QED
    BY <1>2, <1>5, <2>1, <2>2
    DEF GuardedStep, Refused, Deny, RuntimePublish, RuntimeRefusesPreview, CompletePreview, database
<1>6. ASSUME NEW s \in Calls, CancelStep(s) PROVE \E m : Alone(m)
  <2>1. ASSUME NEW m \in Mats, BeginCancel(s, m) PROVE \E n : Alone(n)
    BY <1>2, <1>3, <2>1 DEF BeginCancel
  <2> QED
    BY <1>2, <1>6, <2>1 DEF CancelStep, ResumeCancel, AlreadyTerminal, database
<1>7. ASSUME NEW m, NEW t, Finished(m, t), lease' = lease PROVE Alone(m)
  BY <1>1, <1>7 DEF Finished, Alone
<1>8. ASSUME NEW s \in Calls, CleanupStep(s) PROVE \E m : Alone(m)
  <2>1. CASE FinishCommand(s)
    BY <1>2, <1>7, <2>1 DEF FinishCommand
  <2>2. CASE Quarantine(s)
    BY <1>3, <2>2 DEF Quarantine
  <2>3. ASSUME NEW k \in Steps, CommitStep(s, k) PROVE Alone(call[s].m)
    BY <1>1, <2>3 DEF CommitStep, Alone
  <2> QED
    BY <1>2, <1>8, <2>1, <2>2, <2>3
    DEF CleanupStep, ReadRecord, RuntimeDestroy, RuntimeStep, database
<1>9. ASSUME NEW s \in Calls, ReconcileStep(s) PROVE \E m : Alone(m)
  <2>1. CASE FinishItem(s)
    BY <1>2, <1>7, <2>1 DEF FinishItem
  <2>2. ASSUME NEW m \in Mats, PickCandidate(s, m) PROVE Alone(m)
    BY <1>1, <2>2 DEF PickCandidate, Opened, Alone
  <2> QED
    BY <1>2, <1>9, <2>1, <2>2 DEF ReconcileStep, Scan, Report, database
<1>10. ASSUME NEW s \in Calls, Fault(s) \/ Raise(s) PROVE \E m : Alone(m)
  BY <1>2, <1>10 DEF Fault, ProvisionFails, CleanupFails, Crash, Raise, database
<1>11. ASSUME NEW s \in Calls, NEW c \in Commands, Claim(s, c) PROVE \E m : Alone(m)
  <2>1. ASSUME NEW p \in Policies, NEW n \in 1..MaxGeneration, Reserve(s, c, p, n)
        PROVE  Alone(<<Target[c], n>>)
    BY <1>1, <2>1 DEF Reserve, Alone
  <2> QED
    BY <1>2, <1>11, <2>1
    DEF Claim, Refuse, RecoverProvision, ClaimGuarded, ClaimByExecution, TakeOver, database
<1>12. Time \/ UNCHANGED vars => \E m : Alone(m)
  BY <1>2 DEF Time, Lapse, Overrun, NewKey, Expire, vars, database
<1> QED
  BY <1>4, <1>5, <1>6, <1>8, <1>9, <1>10, <1>11, <1>12 DEF Next, Run

\* What a step on one row does to the contract's variables.
LEMMA RowShows ==
  ASSUME NEW m \in Mats, Alone(m)
  PROVE  /\ Stage' = [Stage EXCEPT ![m] = PhaseOf(mat'[m].st)]
         /\ PhaseOf(mat'[m].st) = PhaseOf(mat[m].st) => Stage' = Stage
         /\ Outcome' = [Outcome EXCEPT ![m] = mat'[m].tgt]
         /\ mat'[m].tgt = mat[m].tgt => Outcome' = Outcome
         /\ lease'[m] = "ACTIVE" => Held' = Held \cup {m}
         /\ lease'[m] # "ACTIVE" => Held' = Held \ {m}
         /\ lease'[m] = lease[m] => Held' = Held
  BY DEF Alone, Stage, Outcome, Held

\* Each of the steps on a row is a step of the contract, or invisible to it.
LEMMA RowImplements ==
  ASSUME Linked, Linked', rt' = rt, NEW m \in Mats, RowStep(m), Alone(m)
  PROVE  Contract!Next \/ UNCHANGED Contract!contract
<1>1. /\ RowFits(m) /\ RowFits(m)' /\ Mirrors(m) /\ Mirrors(m)' /\ mat[m] \in Rows
      /\ mat'[m] \in Rows
  BY DEF Linked, Consistent, RowsFit, Typed, DatabaseTyped
<1>2. Runner' = Runner /\ Runner[m] = RunnerOf(rt[m]) /\ Stage[m] = PhaseOf(mat[m].st)
      /\ (m \in Held <=> lease[m] = "ACTIVE")
  BY DEF Runner, Stage, Held
<1>3. CASE Kept(m) \/ Touched(m) \/ Interrupted(m)
  <2>1. Stage' = Stage /\ Outcome' = Outcome /\ Held' = Held
    BY <1>3, RowShows, PhaseTable
    DEF Kept, Touched, SameRow, SameHold, Interrupted, Cleaning
  <2> QED
    BY <1>2, <2>1, ContractIs
<1>4. CASE Admitted(m)
  <2>1. /\ Stage[m] = "free" /\ Stage' = [Stage EXCEPT ![m] = "starting"]
        /\ Outcome' = Outcome /\ Held' = Held \cup {m}
    BY <1>2, <1>4, RowShows, PhaseTable DEF Admitted
  <2>2. \A n \in 1..MaxGeneration : n < m[2] => Stage[<<m[1], n>>] = "closed"
    BY <1>4, PhaseTable DEF Admitted, Stage, Mats
  <2>3. Contract!Admit(m)
    BY <1>2, <2>1, <2>2 DEF Contract!Admit, Stage, Outcome, Held, Runner
  <2> QED
    BY <2>3, ContractIs DEF Contract!Next
<1>5. CASE Served(m)
  <2>1. /\ Stage[m] = "starting" /\ Stage' = [Stage EXCEPT ![m] = "serving"]
        /\ Outcome' = Outcome /\ Held' = Held
    BY <1>2, <1>5, RowShows, PhaseTable DEF Served, SameHold
  <2>2. Runner[m] = "running"
    BY <1>1, <1>2, <1>5 DEF Served, Mirrors, RunnerOf, Begun, Cleaning, Transitional, Terminal
  <2>3. Contract!Serve(m)
    BY <1>2, <2>1, <2>2 DEF Contract!Serve, Stage, Outcome, Held, Runner
  <2> QED
    BY <2>3, ContractIs DEF Contract!Next
<1>6. CASE Closed(m)
  <2>0. PICK o : o = mat'[m].tgt
    OBVIOUS
  <2>1. /\ \/ Stage[m] = "starting" /\ o = "FAILED"
           \/ Stage[m] = "serving" /\ o # "FAILED"
        /\ Stage' = [Stage EXCEPT ![m] = "closing"]
        /\ Outcome' = [Outcome EXCEPT ![m] = o] /\ Held' = Held
    BY <1>2, <1>6, <2>0, RowShows, PhaseTable DEF Closed, SameHold
  <2>2. o \in Contract!Outcomes
    BY <1>6, <2>0 DEF Closed, Contract!Outcomes, Terminal
  <2>3. Contract!Close(m, o)
    BY <1>2, <2>1 DEF Contract!Close, Stage, Outcome, Held, Runner
  <2> QED
    BY <2>2, <2>3, ContractIs DEF Contract!Next
<1>7. CASE Stepped(m)
  <2>1. PICK k \in Steps \ {"destroy"} :
           /\ Prior(k) \subseteq mat[m].done
           /\ k \notin mat[m].done
           /\ mat'[m].st = mat[m].st /\ mat'[m].tgt = mat[m].tgt
           /\ lease'[m] = IF k = "release" THEN "RELEASED" ELSE lease[m]
    BY <1>7 DEF Stepped
  <2>2. Stage' = Stage /\ Outcome' = Outcome /\ Stage[m] = "closing"
    BY <1>2, <1>7, <2>1, RowShows, PhaseTable DEF Stepped
  <2>3. CASE k = "release"
    <3>1. m \in Held /\ Held' = Held \ {m}
      BY <1>1, <1>2, <1>7, <2>1, <2>3, RowShows DEF Stepped, RowFits, Cleaning, Transitional
    <3>2. rt[m].present => "fence" \in rt[m].done
      <4>1. Prior("release") = {"revoke"} /\ Prior("revoke") = {"fence"}
        BY DEF Prior
      <4>2. "fence" \in mat[m].done
        BY <1>1, <2>1, <2>3, <4>1 DEF RowFits
      <4> QED
        BY <1>1, <4>2 DEF Mirrors
    <3>3. Runner[m] # "running"
      BY <1>2, <3>2 DEF RunnerOf
    <3>4. Contract!Free(m)
      BY <1>2, <2>2, <3>1, <3>3 DEF Contract!Free, Stage, Outcome, Held, Runner
    <3> QED
      BY <3>4, ContractIs DEF Contract!Next
  <2>4. CASE k # "release"
    BY <1>2, <2>1, <2>2, <2>4, RowShows, ContractIs
  <2> QED
    BY <2>3, <2>4
<1>8. CASE Ended(m)
  <2>1. /\ Stage[m] = "closing" /\ Outcome' = Outcome /\ Held' = Held
        /\ Stage' = [Stage EXCEPT ![m] = "closed"]
    <3>1. mat'[m].st \in Terminal
      BY <1>1, <1>8 DEF Ended, RowFits, Rows
    <3> QED
      BY <1>2, <1>8, <3>1, RowShows, PhaseTable DEF Ended, SameHold
  <2>2. m \notin Held
    BY <1>1, <1>2, <1>8 DEF Ended, RowFits, Cleaning, Transitional
  <2>3. Runner[m] \in {"absent", "gone"}
    <3>1. rt[m].present => "destroy" \in rt[m].done
      BY <1>1, <1>8 DEF Ended, Mirrors
    <3> QED
      BY <1>2, <3>1 DEF RunnerOf
  <2>4. Contract!Finish(m)
    BY <1>2, <2>1, <2>2, <2>3 DEF Contract!Finish, Stage, Outcome, Held, Runner
  <2> QED
    BY <2>4, ContractIs DEF Contract!Next
<1> QED
  BY <1>3, <1>4, <1>5, <1>6, <1>7, <1>8 DEF RowStep

\* What a step of the runtime on one runner does to the contract's variables.
LEMMA RunnerShows ==
  ASSUME NEW m \in Mats, \A n \in Mats : n # m => rt'[n] = rt[n], mat' = mat, lease' = lease
  PROVE  /\ Stage' = Stage /\ Outcome' = Outcome /\ Held' = Held
         /\ Runner' = [Runner EXCEPT ![m] = RunnerOf(rt'[m])]
         /\ RunnerOf(rt'[m]) = RunnerOf(rt[m]) => Runner' = Runner
         /\ Runner[m] = RunnerOf(rt[m]) /\ Stage[m] = PhaseOf(mat[m].st)
         /\ m \in Held <=> lease[m] = "ACTIVE"
  BY DEF Stage, Outcome, Held, Runner

\* A runner is created while its row is provisioning.
LEMMA CreationImplements ==
  ASSUME Linked, NEW m \in Mats, RuntimeAccepts(m), rt' = [rt EXCEPT ![m].present = TRUE],
         mat' = mat, lease' = lease
  PROVE  Contract!Next \/ UNCHANGED Contract!contract
<1>1. Mirrors(m) /\ rt \in [Mats -> RuntimeRows]
  BY DEF Linked, Consistent, Typed, OutsideTyped
<1>2. /\ rt'[m].present /\ rt'[m].done = rt[m].done
      /\ \A n \in Mats : n # m => rt'[n] = rt[n]
  BY <1>1 DEF RuntimeRows
<1>3. CASE rt[m].present
  <2>1. RunnerOf(rt'[m]) = RunnerOf(rt[m])
    BY <1>2, <1>3 DEF RunnerOf
  <2> QED
    BY <1>2, <2>1, RunnerShows, ContractIs
<1>4. CASE ~rt[m].present
  <2>1. mat[m].st = "PROVISIONING" /\ rt[m].done = {}
    BY <1>1, <1>4 DEF RuntimeAccepts, Mirrors
  <2>2. RunnerOf(rt[m]) = "absent" /\ RunnerOf(rt'[m]) = "running"
    BY <1>2, <1>4, <2>1 DEF RunnerOf
  <2>3. /\ Stage[m] = "starting" /\ Runner[m] = "absent"
        /\ Runner' = [Runner EXCEPT ![m] = "running"]
        /\ Stage' = Stage /\ Outcome' = Outcome /\ Held' = Held
    BY <1>2, <2>1, <2>2, RunnerShows, PhaseTable
  <2>4. Contract!Start(m)
    BY <2>3 DEF Contract!Start, Stage, Outcome, Held, Runner
  <2> QED
    BY <2>4, ContractIs DEF Contract!Next
<1> QED
  BY <1>3, <1>4

\* A runner is fenced while its cleanup holds capacity, destroyed once it does not.
LEMMA StepImplements ==
  ASSUME Linked, Linked', NEW m \in Mats, NEW k \in Steps, mat[m].st \in Begun,
         rt' = AfterRuntime(m, k), mat' = mat, lease' = lease
  PROVE  Contract!Next \/ UNCHANGED Contract!contract
<1>1. /\ Mirrors(m) /\ Mirrors(m)' /\ RowFits(m) /\ mat[m] \in Rows
      /\ rt \in [Mats -> RuntimeRows]
  BY DEF Linked, Consistent, RowsFit, Typed, DatabaseTyped, OutsideTyped
<1>2. /\ rt'[m].present = rt[m].present
      /\ rt'[m].done = IF rt[m].present THEN rt[m].done \cup {k} ELSE rt[m].done
      /\ \A n \in Mats : n # m => rt'[n] = rt[n]
  BY <1>1 DEF AfterRuntime, Taken, RuntimeRows
<1>3. CASE ~rt[m].present \/ k \in rt[m].done \/ k \notin {"fence", "destroy"}
  <2>1. RunnerOf(rt'[m]) = RunnerOf(rt[m])
    BY <1>2, <1>3 DEF RunnerOf
  <2> QED
    BY <1>2, <2>1, RunnerShows, ContractIs
<1>4. CASE rt[m].present /\ k \notin rt[m].done /\ k \in {"fence", "destroy"}
  <2>1. k \notin mat[m].done
    BY <1>1, <1>4 DEF Mirrors
  <2>2. mat[m].st \in Cleaning
    BY <1>1, <2>1 DEF RowFits, Begun
  <2>3. "release" \in mat[m].done => "fence" \in rt[m].done
    <3>1. Prior("release") = {"revoke"} /\ Prior("revoke") = {"fence"}
      BY DEF Prior
    <3> QED
      BY <1>1, <1>4, <3>1 DEF RowFits, Mirrors
  <2>4. Prior("destroy") = {"release"}
    BY DEF Prior
  <2>5. CASE k = "fence"
    <3>1. "destroy" \notin rt[m].done
      BY <1>1, <1>4, <2>3, <2>4, <2>5 DEF Mirrors
    <3>2. RunnerOf(rt[m]) = "running" /\ RunnerOf(rt'[m]) = "fenced"
      BY <1>2, <1>4, <2>5, <3>1 DEF RunnerOf
    <3>3. /\ Stage[m] = "closing" /\ Runner[m] = "running"
          /\ Runner' = [Runner EXCEPT ![m] = "fenced"]
          /\ Stage' = Stage /\ Outcome' = Outcome /\ Held' = Held
      BY <1>2, <2>2, <3>2, RunnerShows, PhaseTable
    <3>4. Contract!Fence(m)
      BY <3>3 DEF Contract!Fence, Stage, Outcome, Held, Runner
    <3> QED
      BY <3>4, ContractIs DEF Contract!Next
  <2>6. CASE k = "destroy"
    <3>1. "release" \in mat[m].done
      BY <1>1, <1>2, <1>4, <2>4, <2>6 DEF Mirrors
    <3>2. RunnerOf(rt[m]) = "fenced" /\ RunnerOf(rt'[m]) = "gone"
      BY <1>2, <1>4, <2>3, <2>6, <3>1 DEF RunnerOf
    <3>3. lease[m] # "ACTIVE"
      BY <1>1, <2>2, <3>1 DEF RowFits, Cleaning, Transitional
    <3>4. /\ Stage[m] = "closing" /\ Runner[m] = "fenced" /\ m \notin Held
          /\ Runner' = [Runner EXCEPT ![m] = "gone"]
          /\ Stage' = Stage /\ Outcome' = Outcome /\ Held' = Held
      BY <1>2, <2>2, <3>2, <3>3, RunnerShows, PhaseTable
    <3>5. Contract!Destroy(m)
      BY <3>4 DEF Contract!Destroy, Stage, Outcome, Held, Runner
    <3> QED
      BY <3>5, ContractIs DEF Contract!Next
  <2> QED
    BY <1>4, <2>5, <2>6
<1> QED
  BY <1>3, <1>4

\* Each call of the runtime is a step of the contract, or invisible to it.
LEMMA RuntimeImplements ==
  ASSUME Linked, Linked', [Next]_vars, rt' # rt
  PROVE  Contract!Next \/ UNCHANGED Contract!contract
<1>1. rt \in [Mats -> RuntimeRows]
  BY DEF Linked, Consistent, Typed, OutsideTyped
<1>2. ASSUME NEW s \in Calls, RuntimeProvision(s)
      PROVE  Contract!Next \/ UNCHANGED Contract!contract
  BY <1>2, AtWork, CreationImplements DEF RuntimeProvision, database
<1>3. ASSUME NEW s \in Calls, NEW created \in BOOLEAN, ProvisionFails(s, created)
      PROVE  Contract!Next \/ UNCHANGED Contract!contract
  <2>1. call[s].m \in Mats /\ mat' = mat /\ lease' = lease
    BY <1>3, AtWork DEF ProvisionFails, database
  <2>2. created
    BY <1>1, <1>3, <2>1 DEF ProvisionFails, RuntimeRows
  <2>3. RuntimeAccepts(call[s].m) /\ rt' = [rt EXCEPT ![call[s].m].present = TRUE]
    BY <1>1, <1>3, <2>2 DEF ProvisionFails
  <2> QED
    BY <2>1, <2>3, CreationImplements
<1>4. ASSUME NEW s \in Calls, RuntimePublish(s)
      PROVE  Contract!Next \/ UNCHANGED Contract!contract
  <2> DEFINE m == call[s].m
  <2>1. /\ m \in Mats /\ mat' = mat /\ lease' = lease
        /\ rt' = [rt EXCEPT ![m] = [@ EXCEPT !.previewOp = {Cmd(s)}, !.preview = TRUE]]
    BY <1>4, AtWork DEF RuntimePublish, database
  <2>2. /\ rt'[m].present = rt[m].present /\ rt'[m].done = rt[m].done
        /\ \A n \in Mats : n # m => rt'[n] = rt[n]
    BY <1>1, <2>1 DEF RuntimeRows
  <2>3. RunnerOf(rt'[m]) = RunnerOf(rt[m])
    BY <2>2 DEF RunnerOf
  <2> QED
    BY <2>1, <2>2, <2>3, RunnerShows, ContractIs
<1>5. ASSUME NEW s \in Calls, call[s].pc \in {"act", "destroy"}
      PROVE  call[s].m \in Mats /\ mat[call[s].m].st \in Begun
  BY <1>5, AtWork DEF Knows, KnowsRow, Chain
<1>6. ASSUME NEW s \in Calls, NEW k \in Steps, RuntimeStep(s, k)
      PROVE  Contract!Next \/ UNCHANGED Contract!contract
  BY <1>5, <1>6, StepImplements DEF RuntimeStep, database
<1>7. ASSUME NEW s \in Calls, RuntimeDestroy(s)
      PROVE  Contract!Next \/ UNCHANGED Contract!contract
  BY <1>5, <1>7, StepImplements DEF RuntimeDestroy, database, Steps
<1> QED
  BY <1>2, <1>3, <1>4, <1>6, <1>7, RuntimeWrites

\* A step that does not write the runtime's record writes one row at most.
LEMMA DatabaseImplements ==
  ASSUME Linked, Linked', [Next]_vars, rt' = rt
  PROVE  Contract!Next \/ UNCHANGED Contract!contract
<1>1. PICK m : Alone(m)
  BY OneRowMoves DEF Linked
<1>2. CASE m \in Mats
  BY <1>1, <1>2, NextSteps, RowImplements DEF Linked, RowSteps
<1>3. CASE m \notin Mats
  <2>1. Stage' = Stage /\ Outcome' = Outcome /\ Held' = Held /\ Runner' = Runner
    BY <1>1, <1>3 DEF Alone, Stage, Outcome, Held, Runner
  <2> QED
    BY <2>1, ContractIs
<1> QED
  BY <1>2, <1>3

\* The contract's variables start as the contract says.
LEMMA InitImplements == Init => Contract!Init
<1> SUFFICES ASSUME Init PROVE Contract!Init
  OBVIOUS
<1>1. RunnerOf(NoRuntime) = "absent" /\ PhaseOf(NoRow.st) = "free" /\ NoRow.tgt = "NONE"
  BY PhaseTable DEF RunnerOf, NoRuntime, NoRow
<1>2. /\ Stage = [m \in Mats |-> "free"] /\ Outcome = [m \in Mats |-> "NONE"]
      /\ Held = {} /\ Runner = [m \in Mats |-> "absent"]
  BY <1>1 DEF Init, Stage, Outcome, Held, Runner
<1> QED
  BY <1>2, ContractIs DEF Contract!Init, Stage, Outcome, Held, Runner

\* Every step of every call, whatever crashes and takeovers fall between, is
\* one step of what the controller promises or invisible to its callers.
THEOREM ContractIsImplemented == Spec => ImplementsContract
<1>1. Linked /\ Linked' /\ [Next]_vars => [Contract!Next]_(Contract!contract)
  BY RuntimeImplements, DatabaseImplements
<1> QED
  BY <1>1, InitImplements, AlwaysLinked, PTL DEF Spec, ImplementsContract, Contract!Spec
=============================================================================
