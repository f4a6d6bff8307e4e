------------------------- MODULE BranchBindingProofs -------------------------
(***************************************************************************)
(* The records of the branch saga agree, for any number of workers,        *)
(* messages, commits and faults.                                           *)
(***************************************************************************)
EXTENDS BranchBinding, TLAPS

\* A request may have reached GitLab.
Started == effect.state \in Unsettled \cup Final

\* What a worker's locals promise of the records, where they stand.
Doing(c) ==
  /\ c.at = "plan" => c.base \in Commits
  /\ c.at = "start" => c.job = "request" /\ c.state = "PLANNED"
  /\ c.at \in {"post", "readback", "settle"} =>
       /\ Started
       /\ \/ c.job = "request" /\ c.state = "IN_FLIGHT"
          \/ c.job = "reconcile" /\ c.state = "RECONCILIATION"
  /\ c.at = "settle" =>
       /\ c.why \in Reasons \cup {"VERIFIED", "EXTERNAL_RESULT_UNKNOWN"}
       /\ c.why = "VERIFIED" => branch # NoCommit

Reconciling(c) ==
  /\ c.at = "observe" => c.job = "reconcile"
  /\ c.at \in {"context", "observe"} /\ c.job = "reconcile" =>
       Started /\ c.state = "RECONCILIATION"

Asking(c) ==
  /\ c.at = "context" => c.job \in {"request", "reconcile", "replay"}
  /\ c.at = "binding" => c.job \in {"request", "replay"}
  /\ c.at \in {"effect", "seen", "check", "plan"} => c.job = "request"
  /\ c.at = "seen" => Started
  /\ c.bound => effect.state = "SUCCEEDED"
  /\ c.at = "refuse" => c.why \in Reasons
  /\ c.at = "refused" => \E a \in answers : a.key[1] = c.msg

\* What a worker that tells or has told an outcome knows of it.
Knows(c) ==
  /\ c.state \in {"UNKNOWN"} \cup Final
  /\ c.state = "SUCCEEDED" => effect.state = "SUCCEEDED"
  /\ c.state # "SUCCEEDED" => c.why \in Reasons \cup {"EXTERNAL_RESULT_UNKNOWN"}

Answering(c) ==
  /\ c.at \in {"tell", "ack", "nack"} => Knows(c)
  /\ c.at \in {"context", "binding"} /\ c.job = "replay" => Knows(c)
  /\ c.at = "ack" /\ c.state = "SUCCEEDED" => item.state = "BOUND"

Fits(c) == Doing(c) /\ Reconciling(c) /\ Asking(c) /\ Answering(c)

CallsFit == \A w \in Workers : Fits(call[w])

RowsFit ==
  /\ effect.state = "NONE" <=> effect.base = NoCommit
  /\ effect.state \in {"NONE", "PLANNED", "IN_FLIGHT"} => effect.told = "PENDING"
  /\ effect.state = "BLOCKED" => effect.why \in Reasons
  /\ transit => Started
  /\ Used(<<NoMessage, "READY">>) => item.state = "BOUND"

Rows ==
  RowsFit /\ BindingIsProved /\ BoundAgrees /\ AckedIsTrue /\ NoRequestDropped

Inv == TypeOK /\ Rows /\ CallsFit
-----------------------------------------------------------------------------
(* Edits of the rows keep their types.                                     *)

\* A value outside the prime: the locals of w become d, the others stay.
Put(w, d) ==
  /\ call' \in [Workers -> CallRows]
  /\ \A v \in Workers \ {w} : call'[v] = call[v]
  /\ call'[w] = d

\* One worker moves at a time (every action of a worker).
LEMMA MovesTyped ==
  ASSUME call \in [Workers -> CallRows], NEW w \in Workers, NEW d \in CallRows,
         Moves(w, d)
  PROVE  Put(w, d)
  BY DEF Moves, Put

\* An idle worker's locals (a call that returned or was unwound).
LEMMA IdleTyped == IdleCall \in CallRows
  BY DEF IdleCall, CallRows, Locations, Jobs, EffectStates, Outcomes, Errors

\* A worker that returns or is unwound keeps the types.
LEMMA LeaveTyped ==
  ASSUME call \in [Workers -> CallRows], NEW w \in Workers, Leave(w)
  PROVE  Put(w, IdleCall)
  BY IdleTyped DEF Leave, Put

\* Locals stay locals when the fields a read or a check fills in are set.
LEMMA ReadTyped ==
  ASSUME NEW c \in CallRows, NEW at \in Locations
  PROVE  /\ [c EXCEPT !.at = at] \in CallRows
         /\ \A why \in Outcomes : [c EXCEPT !.at = at, !.why = why] \in CallRows
         /\ \A state \in EffectStates : [c EXCEPT !.at = at, !.state = state] \in CallRows
         /\ \A bound \in BOOLEAN : [c EXCEPT !.at = at, !.bound = bound] \in CallRows
         /\ \A base \in Commits : [c EXCEPT !.at = at, !.base = base] \in CallRows
  BY DEF CallRows

\* The same of a context and of a refusal.
LEMMA ContextTyped ==
  ASSUME NEW c \in CallRows, NEW at \in Locations
  PROVE  /\ \A rev \in Nat, owned \in BOOLEAN :
              [c EXCEPT !.at = at, !.rev = rev, !.owned = owned] \in CallRows
         /\ \A why \in Outcomes, state \in EffectStates :
              [c EXCEPT !.at = at, !.why = why, !.state = state] \in CallRows
         /\ \A job \in Jobs : [c EXCEPT !.at = at, !.job = job] \in CallRows
         /\ \A job \in Jobs, m \in Messages :
              [c EXCEPT !.at = at, !.job = job, !.msg = m] \in CallRows
         /\ \A job \in Jobs, why \in Outcomes :
              [c EXCEPT !.at = at, !.job = job, !.why = why] \in CallRows
         /\ [c EXCEPT !.at = at, !.base = NoCommit] \in CallRows
  BY DEF CallRows

\* The row a transaction returns is held with its type.
LEMMA HoldingTyped ==
  ASSUME NEW c \in CallRows, NEW row \in Effects
  PROVE  /\ Holding(c, row) \in CallRows
         /\ Holding(c, row).state = row.state /\ Holding(c, row).tries = row.tries
         /\ Holding(c, row).at = c.at /\ Holding(c, row).job = c.job
         /\ Holding(c, row).msg = c.msg /\ Holding(c, row).why = c.why
         /\ Holding(c, row).bound = c.bound /\ Holding(c, row).base = c.base
  BY DEF Holding, CallRows, Effects
-----------------------------------------------------------------------------
(* What a step of one worker leaves to the others.                         *)

\* The facts the others rely on only ever grow.
Onward ==
  /\ Started => Started'
  /\ effect.state = "SUCCEEDED" => effect'.state = "SUCCEEDED"
  /\ branch # NoCommit => branch' # NoCommit
  /\ item.state = "BOUND" => item'.state = "BOUND"
  /\ answers \subseteq answers'

\* A worker that does not move still fits: what its locals say of the rows does
\* not expire while others commit (saga.py:351-526, reconciliation.py:261-399).
LEMMA Undisturbed ==
  ASSUME Onward, NEW v \in Workers, call'[v] = call[v], Fits(call[v])
  PROVE  Fits(call[v])'
<1>1. Doing(call[v])'
  BY DEF Fits, Doing, Onward
<1>2. Reconciling(call[v])'
  BY DEF Fits, Reconciling, Onward
<1>3. Asking(call[v])'
  BY DEF Fits, Asking, Onward
<1>4. Knows(call[v]) => Knows(call[v])'
  BY DEF Knows, Onward
<1>5. Answering(call[v])'
  BY <1>4 DEF Fits, Answering, Onward
<1> QED BY <1>1, <1>2, <1>3, <1>5 DEF Fits

\* All workers fit when the one that moved does.
LEMMA OthersFit ==
  ASSUME CallsFit, Onward, NEW w \in Workers,
         \A v \in Workers \ {w} : call'[v] = call[v], Fits(call[w])'
  PROVE  CallsFit'
<1> SUFFICES ASSUME NEW v \in Workers PROVE Fits(call[v])'
  BY DEF CallsFit
<1>1. CASE v = w
  BY <1>1
<1>2. CASE v # w
  BY <1>2, Undisturbed DEF CallsFit
<1> QED BY <1>1, <1>2

\* A worker that has returned or died claims nothing.
LEMMA RestFits ==
  ASSUME NEW w \in Workers, call'[w] = IdleCall
  PROVE  Fits(call[w])'
  BY DEF IdleCall, Fits, Doing, Reconciling, Asking, Answering

\* A step outside the database: the rows stay, GitLab's branch does not vanish.
LEMMA GitLabStep ==
  ASSUME Inv, UNCHANGED <<records, work>>, faults' \in Nat, edits' \in Nat,
         branch' \in Commits \cup {NoCommit}, branch # NoCommit => branch' # NoCommit,
         transit' \in BOOLEAN, transit' => Started,
         call' \in [Workers -> CallRows], CallsFit'
  PROVE  Inv'
<1> USE DEF records, work
<1>1. TypeOK'
  BY DEF Inv, TypeOK
<1>2. RowsFit' /\ AckedIsTrue' /\ BoundAgrees'
  BY DEF Inv, Rows, RowsFit, BoundAgrees, AckedIsTrue, Used, Started
<1>3. BindingIsProved'
  BY DEF Inv, Rows, BindingIsProved
<1>4. NoRequestDropped'
  BY DEF Inv, Rows, NoRequestDropped
<1> QED BY <1>1, <1>2, <1>3, <1>4 DEF Inv, Rows

\* A step that reads and moves on (the reads and checks of saga.py:351-440 and
\* reconciliation.py:272-372) keeps the invariant when its worker fits.
LEMMA ReadStep ==
  ASSUME Inv, UNCHANGED <<records, work, gitlab, edits>>, faults' \in Nat,
         NEW w \in Workers, call' \in [Workers -> CallRows],
         \A v \in Workers \ {w} : call'[v] = call[v], Fits(call[w])'
  PROVE  Inv'
<1>1. Onward
  BY DEF Onward, Started, records, work, gitlab
<1>2. CallsFit'
  BY <1>1, OthersFit DEF Inv
<1>3. UNCHANGED <<records, work>>
  OBVIOUS
<1>4. branch' = branch /\ transit' = transit /\ edits' = edits
  BY DEF gitlab
<1>5. branch \in Commits \cup {NoCommit} /\ transit \in BOOLEAN /\ edits \in Nat
  BY DEF Inv, TypeOK
<1>6. transit => Started
  BY DEF Inv, Rows, RowsFit
<1> QED BY <1>2, <1>3, <1>4, <1>5, <1>6, GitLabStep

\* A fault is counted.
LEMMA FaultTyped == ASSUME TypeOK, Fault \/ UNCHANGED faults PROVE faults' \in Nat
  BY DEF TypeOK, Fault

\* The context of the work item is read (saga.py:351, reconciliation.py:272).
LEMMA ReadContextStep == ASSUME Inv, NEW w \in Workers, ReadContext(w) PROVE Inv'
<1> DEFINE d == [call[w] EXCEPT
       !.at = IF call[w].job = "reconcile" THEN "observe" ELSE "binding",
       !.rev = item.rev, !.owned = item.owned]
<1>1. call[w] \in CallRows /\ call \in [Workers -> CallRows] /\ item \in Items
  BY DEF Inv, TypeOK
<1>2. item.rev \in Nat /\ item.owned \in BOOLEAN
  BY <1>1 DEF Items
<1>3. d \in CallRows
  <2>1. \A at \in {"observe", "binding"} :
          [call[w] EXCEPT !.at = at, !.rev = item.rev, !.owned = item.owned] \in CallRows
    BY <1>1, <1>2, ContextTyped DEF Locations
  <2>2. (IF call[w].job = "reconcile" THEN "observe" ELSE "binding")
          \in {"observe", "binding"}
    OBVIOUS
  <2> QED BY <2>1, <2>2
<1>4. Put(w, d)
  BY <1>1, <1>3, MovesTyped DEF ReadContext
<1>5. /\ d.at = IF call[w].job = "reconcile" THEN "observe" ELSE "binding"
      /\ d.job = call[w].job /\ d.state = call[w].state /\ d.why = call[w].why
      /\ d.bound = call[w].bound
  BY <1>1 DEF CallRows
<1>6. Fits(call[w])
  BY DEF Inv, CallsFit
<1>7. UNCHANGED <<records, work, gitlab, edits>> /\ faults' = faults
  BY DEF ReadContext
<1>8. call[w].at = "context" /\ call'[w] = d
  BY <1>4 DEF ReadContext, Put
<1> HIDE DEF d
<1>9. Knows(call[w]) => Knows(call[w])'
  BY <1>5, <1>7, <1>8 DEF Knows, records
<1>10. Fits(call[w])'
  BY <1>5, <1>6, <1>7, <1>8, <1>9
  DEF Fits, Doing, Reconciling, Asking, Answering, Started, records
<1> QED BY <1>4, <1>7, <1>10, ReadStep, FaultTyped DEF Put, Inv

\* The binding of the work item is read (saga.py:354).
LEMMA ReadBindingStep == ASSUME Inv, NEW w \in Workers, ReadBinding(w) PROVE Inv'
<1> DEFINE d == [call[w] EXCEPT
       !.at = IF call[w].job = "replay" THEN "tell" ELSE "effect",
       !.bound = binding # NoCommit]
<1>1. call[w] \in CallRows /\ call \in [Workers -> CallRows]
  BY DEF Inv, TypeOK
<1>2. d \in CallRows
  <2>1. \A at \in {"tell", "effect"} :
          [call[w] EXCEPT !.at = at, !.bound = binding # NoCommit] \in CallRows
    BY <1>1, ReadTyped DEF Locations
  <2>2. (IF call[w].job = "replay" THEN "tell" ELSE "effect") \in {"tell", "effect"}
    OBVIOUS
  <2> QED BY <2>1, <2>2
<1>3. Put(w, d)
  BY <1>1, <1>2, MovesTyped DEF ReadBinding
<1>4. /\ d.at = IF call[w].job = "replay" THEN "tell" ELSE "effect"
      /\ d.job = call[w].job /\ d.state = call[w].state /\ d.why = call[w].why
      /\ d.bound = (binding # NoCommit)
  BY <1>1 DEF CallRows
<1>5. Fits(call[w]) /\ BindingIsProved
  BY DEF Inv, CallsFit, Rows
<1>6. UNCHANGED <<records, work, gitlab, edits>> /\ faults' = faults
  BY DEF ReadBinding
<1>7. call[w].at = "binding" /\ call'[w] = d
  BY <1>3 DEF ReadBinding, Put
<1> HIDE DEF d
<1>8. Knows(call[w]) => Knows(call[w])'
  BY <1>4, <1>6, <1>7 DEF Knows, records
<1>9. Fits(call[w])'
  BY <1>4, <1>5, <1>6, <1>7, <1>8
  DEF Fits, Doing, Reconciling, Asking, Answering, BindingIsProved, Started, records
<1> QED BY <1>3, <1>6, <1>9, ReadStep, FaultTyped DEF Put, Inv

\* The effect of the work item is read (saga.py:355).
LEMMA ReadEffectStep == ASSUME Inv, NEW w \in Workers, ReadEffect(w) PROVE Inv'
<1> DEFINE h == Holding(call[w], effect)
           d == [h EXCEPT
             !.at = IF effect.state \in {"NONE", "PLANNED"} THEN "check" ELSE "seen"]
<1>1. call[w] \in CallRows /\ call \in [Workers -> CallRows] /\ effect \in Effects
  BY DEF Inv, TypeOK
<1>2. /\ h \in CallRows /\ h.state = effect.state /\ h.job = call[w].job
      /\ h.why = call[w].why /\ h.bound = call[w].bound
  BY <1>1, HoldingTyped
<1>3. ReadEffect(w) => Moves(w, d)
  BY DEF ReadEffect
<1> HIDE DEF h
<1>4. d \in CallRows
  <2>1. \A at \in {"check", "seen"} : [h EXCEPT !.at = at] \in CallRows
    BY <1>2, ReadTyped DEF Locations
  <2>2. (IF effect.state \in {"NONE", "PLANNED"} THEN "check" ELSE "seen")
          \in {"check", "seen"}
    OBVIOUS
  <2> QED BY <2>1, <2>2
<1>5. Put(w, d)
  BY <1>1, <1>3, <1>4, MovesTyped
<1>6. /\ d.at = IF effect.state \in {"NONE", "PLANNED"} THEN "check" ELSE "seen"
      /\ d.job = call[w].job /\ d.bound = call[w].bound
  BY <1>2 DEF CallRows
<1>7. Fits(call[w]) /\ effect.state \in EffectStates
  BY <1>1 DEF Inv, CallsFit, Effects
<1>8. UNCHANGED <<records, work, gitlab, edits>> /\ faults' = faults
  BY DEF ReadEffect
<1>9. call[w].at = "effect" /\ call'[w] = d
  BY <1>5 DEF ReadEffect, Put
<1> HIDE DEF d
<1>10. Fits(call[w])'
  BY <1>6, <1>7, <1>8, <1>9
  DEF Fits, Doing, Reconciling, Asking, Answering, Started, records, EffectStates
<1> QED BY <1>5, <1>8, <1>10, ReadStep, FaultTyped DEF Put, Inv

\* The checks before an external write answer (saga.py:383-440).
LEMMA CheckStep == ASSUME Inv, NEW w \in Workers, Check(w) PROVE Inv'
<1>1. call[w] \in CallRows /\ call \in [Workers -> CallRows] /\ call[w].at = "check"
  BY DEF Inv, TypeOK, Check
<1>2. Fits(call[w])
  BY DEF Inv, CallsFit
<1>3. UNCHANGED <<records, work, gitlab, edits>> /\ faults' = faults
  BY DEF Check
<1>4. ASSUME NEW why \in Refusals \cup {"OWNER_UNASSIGNED"},
             Moves(w, [call[w] EXCEPT !.at = "refuse", !.why = why, !.state = "NONE"])
      PROVE  Inv'
  <2> DEFINE d == [call[w] EXCEPT !.at = "refuse", !.why = why, !.state = "NONE"]
  <2>1. why \in Reasons
    BY RefusalsAssumption DEF Reasons, Standing, OwnerBlocks
  <2>2. d \in CallRows
    BY <1>1, <2>1, ContextTyped DEF Locations, Outcomes, Errors, EffectStates
  <2>3. Put(w, d)
    BY <1>1, <1>4, <2>2, MovesTyped
  <2>4. d.at = "refuse" /\ d.why = why /\ d.bound = call[w].bound
    BY <1>1 DEF CallRows
  <2>5. call'[w] = d
    BY <2>3 DEF Put
  <2> HIDE DEF d
  <2>6. Fits(call[w])'
    BY <1>1, <1>2, <1>3, <2>1, <2>4, <2>5
    DEF Fits, Doing, Reconciling, Asking, Answering, Started, records
  <2> QED BY <1>3, <2>3, <2>6, ReadStep, FaultTyped DEF Put, Inv
<1>5. ASSUME NEW base \in Commits,
             Moves(w, [call[w] EXCEPT !.at = "plan", !.base = base])
      PROVE  Inv'
  <2> DEFINE d == [call[w] EXCEPT !.at = "plan", !.base = base]
  <2>1. d \in CallRows
    BY <1>1, ReadTyped DEF Locations
  <2>2. Put(w, d)
    BY <1>1, <1>5, <2>1, MovesTyped
  <2>3. d.at = "plan" /\ d.base = base /\ d.bound = call[w].bound /\ d.job = call[w].job
    BY <1>1 DEF CallRows
  <2>4. call'[w] = d
    BY <2>2 DEF Put
  <2> HIDE DEF d
  <2>5. Fits(call[w])'
    BY <1>1, <1>2, <1>3, <2>3, <2>4
    DEF Fits, Doing, Reconciling, Asking, Answering, Started, records
  <2> QED BY <1>3, <2>2, <2>5, ReadStep, FaultTyped DEF Put, Inv
<1> QED BY <1>4, <1>5 DEF Check

\* A worker that is superseded returns (saga.py:239, 544, 626; reconciliation.py:141, 206, 246).
LEMMA SupersededStep == ASSUME Inv, NEW w \in Workers, Superseded(w) PROVE Inv'
<1>1. call \in [Workers -> CallRows]
  BY DEF Inv, TypeOK
<1>2. Put(w, IdleCall)
  BY <1>1, LeaveTyped DEF Superseded
<1>3. UNCHANGED <<records, work, gitlab, edits>> /\ faults' = faults
  BY DEF Superseded
<1>4. Fits(call[w])'
  BY <1>2, RestFits DEF Put
<1> QED BY <1>2, <1>3, <1>4, ReadStep, FaultTyped DEF Put, Inv

\* A crash loses the locals and nothing else.
LEMMA CrashStep == ASSUME Inv, NEW w \in Workers, Crash(w) PROVE Inv'
<1>1. call \in [Workers -> CallRows]
  BY DEF Inv, TypeOK
<1>2. Put(w, IdleCall)
  BY <1>1, LeaveTyped DEF Crash
<1>3. UNCHANGED <<records, work, gitlab, edits>> /\ Fault
  BY DEF Crash
<1>4. Fits(call[w])'
  BY <1>2, RestFits DEF Put
<1> QED BY <1>2, <1>3, <1>4, ReadStep, FaultTyped DEF Put, Inv

\* A pending callback is taken for replay (reconciliation.py:430-455).
LEMMA ReplayStep == ASSUME Inv, NEW w \in Workers, Replay(w) PROVE Inv'
<1> DEFINE h == Holding(IdleCall, effect)
           d == [h EXCEPT !.at = "context", !.job = "replay", !.why = effect.why]
<1>1. call \in [Workers -> CallRows] /\ effect \in Effects
  BY DEF Inv, TypeOK
<1>2. /\ effect.why \in Errors /\ effect.state \in Final
      /\ effect.state = "BLOCKED" => effect.why \in Reasons
  BY <1>1 DEF Inv, Rows, RowsFit, Effects, Replay
<1>3. h \in CallRows /\ h.state = effect.state /\ h.bound = FALSE
  BY <1>1, IdleTyped, HoldingTyped DEF IdleCall
<1>4. Moves(w, d)
  BY DEF Replay
<1> HIDE DEF h
<1>5. d \in CallRows
  BY <1>2, <1>3, ContextTyped DEF Locations, Jobs, Outcomes
<1>6. Put(w, d)
  BY <1>1, <1>4, <1>5, MovesTyped
<1>7. /\ d.at = "context" /\ d.job = "replay" /\ d.why = effect.why
      /\ d.state = effect.state /\ d.bound = FALSE
  BY <1>3 DEF CallRows
<1>8. UNCHANGED <<records, work, gitlab, edits>> /\ faults' = faults
  BY DEF Replay
<1>9. call'[w] = d
  BY <1>6 DEF Put
<1> HIDE DEF d
<1>10. Knows(call[w])'
  BY <1>2, <1>7, <1>8, <1>9 DEF Knows, records, Final
<1>11. Fits(call[w])'
  BY <1>7, <1>8, <1>9, <1>10 DEF Fits, Doing, Reconciling, Asking, Answering
<1> QED BY <1>6, <1>8, <1>11, ReadStep, FaultTyped DEF Put, Inv
-----------------------------------------------------------------------------
(* The attempt itself.                                                     *)

\* The places of an attempt in flight.
Trying(c) == c.at \in {"observe", "post", "readback"}

\* A worker that has an outcome to settle fits.
LEMMA SettleFits ==
  ASSUME Inv, Onward, NEW w \in Workers, Trying(call[w]),
         NEW outcome \in Reasons \cup {"VERIFIED", "EXTERNAL_RESULT_UNKNOWN"},
         outcome = "VERIFIED" => branch' # NoCommit, Settling(w, outcome)
  PROVE  /\ call' \in [Workers -> CallRows]
         /\ \A v \in Workers \ {w} : call'[v] = call[v]
         /\ Fits(call[w])'
<1> DEFINE d == [call[w] EXCEPT !.at = "settle", !.why = outcome]
<1>1. call[w] \in CallRows /\ call \in [Workers -> CallRows]
  BY DEF Inv, TypeOK
<1>2. d \in CallRows
  BY <1>1, ReadTyped DEF Locations, Outcomes, Errors
<1>3. Put(w, d)
  BY <1>1, <1>2, MovesTyped DEF Settling
<1>4. /\ d.at = "settle" /\ d.why = outcome /\ d.bound = call[w].bound
      /\ d.job = call[w].job /\ d.state = call[w].state
  BY <1>1 DEF CallRows
<1>5. Fits(call[w])
  BY DEF Inv, CallsFit
<1>6. call'[w] = d
  BY <1>3 DEF Put
<1> HIDE DEF d
<1>7. Fits(call[w])'
  BY <1>4, <1>5, <1>6
  DEF Fits, Doing, Reconciling, Asking, Answering, Trying, Onward
<1> QED BY <1>3, <1>7 DEF Put

\* A worker that goes on with its attempt fits.
LEMMA TryFits ==
  ASSUME Inv, Onward, NEW w \in Workers, Trying(call[w]),
         NEW at \in {"post", "readback"}, Goto(w, at)
  PROVE  /\ call' \in [Workers -> CallRows]
         /\ \A v \in Workers \ {w} : call'[v] = call[v]
         /\ Fits(call[w])'
<1> DEFINE d == [call[w] EXCEPT !.at = at]
<1>1. call[w] \in CallRows /\ call \in [Workers -> CallRows]
  BY DEF Inv, TypeOK
<1>2. d \in CallRows
  BY <1>1, ReadTyped DEF Locations
<1>3. Moves(w, d)
  BY <1>1 DEF Goto, Moves
<1>4. Put(w, d)
  BY <1>1, <1>2, <1>3, MovesTyped
<1>5. /\ d.at = at /\ d.bound = call[w].bound
      /\ d.job = call[w].job /\ d.state = call[w].state
  BY <1>1 DEF CallRows
<1>6. Fits(call[w])
  BY DEF Inv, CallsFit
<1>7. call'[w] = d
  BY <1>4 DEF Put
<1> HIDE DEF d
<1>8. Fits(call[w])'
  BY <1>5, <1>6, <1>7
  DEF Fits, Doing, Reconciling, Asking, Answering, Trying, Onward
<1> QED BY <1>4, <1>8 DEF Put

\* What a read of the branch proves is an outcome.
LEMMA ProofTyped == Proof \in Reasons \cup {"VERIFIED", "EXTERNAL_RESULT_UNKNOWN"}
  BY DEF Proof, Reasons

\* Nothing of the database or of GitLab moves under a read.
LEMMA StillOnward == ASSUME UNCHANGED <<records, work, gitlab>> PROVE Onward
  BY DEF Onward, Started, records, work, gitlab

\* The task branch is read back (ports/gitlab.py:101-110).
LEMMA ReadBackStep == ASSUME Inv, NEW w \in Workers, ReadBack(w) PROVE Inv'
<1>1. UNCHANGED <<records, work, gitlab, edits>> /\ (Fault \/ UNCHANGED faults)
  BY DEF ReadBack
<1>2. Onward
  BY <1>1, StillOnward
<1>3. branch' = branch /\ faults' \in Nat
  BY <1>1, FaultTyped DEF gitlab, Inv
<1>4. Trying(call[w])
  BY DEF ReadBack, Trying
<1>5. \/ branch # NoCommit /\ Settling(w, Proof)
      \/ Settling(w, "EXTERNAL_RESULT_UNKNOWN")
  BY DEF ReadBack
<1>6. /\ call' \in [Workers -> CallRows]
      /\ \A v \in Workers \ {w} : call'[v] = call[v]
      /\ Fits(call[w])'
  BY <1>2, <1>3, <1>4, <1>5, SettleFits, ProofTyped
<1> QED BY <1>1, <1>3, <1>6, ReadStep

\* The reconciler checks again and reads the branch (reconciliation.py:272-372).
LEMMA ObserveStep == ASSUME Inv, NEW w \in Workers, Observe(w) PROVE Inv'
<1>1. UNCHANGED <<records, work, gitlab, edits>> /\ (Fault \/ UNCHANGED faults)
  BY DEF Observe
<1>2. Onward
  BY <1>1, StillOnward
<1>3. branch' = branch /\ faults' \in Nat
  BY <1>1, FaultTyped DEF gitlab, Inv
<1>4. Trying(call[w])
  BY DEF Observe, Trying
<1>5. \/ \E reason \in Standing \cup {"OWNER_UNASSIGNED", "EXTERNAL_RESULT_UNKNOWN"} :
           Settling(w, reason)
      \/ branch # NoCommit /\ Settling(w, Proof)
      \/ Goto(w, "post")
  BY DEF Observe
<1>6. Standing \cup {"OWNER_UNASSIGNED"} \subseteq Reasons /\ "VERIFIED" \notin Standing
  BY DEF Reasons, Standing, OwnerBlocks
<1>7. /\ call' \in [Workers -> CallRows]
      /\ \A v \in Workers \ {w} : call'[v] = call[v]
      /\ Fits(call[w])'
  <2>1. CASE \E reason \in Standing \cup {"OWNER_UNASSIGNED", "EXTERNAL_RESULT_UNKNOWN"} :
               Settling(w, reason)
    BY <1>2, <1>4, <1>6, <2>1, SettleFits
  <2>2. CASE branch # NoCommit /\ Settling(w, Proof)
    BY <1>2, <1>3, <1>4, <2>2, SettleFits, ProofTyped
  <2>3. CASE Goto(w, "post")
    BY <1>2, <1>4, <2>3, TryFits
  <2> QED BY <1>5, <2>1, <2>2, <2>3
<1> QED BY <1>1, <1>3, <1>7, ReadStep

\* A branch that arrives is there, at the commit the effect names.
LEMMA ArriveTyped ==
  ASSUME Inv, Started, Arrive
  PROVE  branch' \in Commits /\ (branch # NoCommit => branch' = branch)
<1>1. effect.base \in Commits
  BY DEF Inv, TypeOK, Rows, RowsFit, Effects, Started, Unsettled, Final
<1>2. branch \in Commits \cup {NoCommit}
  BY DEF Inv, TypeOK
<1> QED BY <1>1, <1>2 DEF Arrive

\* The request is sent to GitLab (ports/gitlab.py:85-100).
LEMMA PostStep == ASSUME Inv, NEW w \in Workers, Post(w) PROVE Inv'
<1>1. UNCHANGED <<records, work, edits>> /\ (Fault \/ UNCHANGED faults)
  BY DEF Post
<1>2. Trying(call[w]) /\ Started
  BY DEF Post, Trying, Inv, CallsFit, Fits, Doing
<1>3. /\ branch' \in Commits \cup {NoCommit}
      /\ branch # NoCommit => branch' # NoCommit
      /\ transit' \in BOOLEAN
  <2>1. branch \in Commits \cup {NoCommit} /\ transit \in BOOLEAN
    BY DEF Inv, TypeOK
  <2>2. Arrive \/ branch' = branch
    BY DEF Post, gitlab
  <2>3. transit' = TRUE \/ transit' = transit
    BY DEF Post, gitlab
  <2>4. CASE Arrive
    BY <1>2, <2>1, <2>3, <2>4, ArriveTyped, NoneAssumption
  <2> QED BY <2>1, <2>2, <2>3, <2>4
<1>4. Onward
  BY <1>1, <1>3 DEF Onward, Started, records, work
<1>5. \/ Goto(w, "readback")
      \/ \E reason \in {"ACCESS_DENIED", "EXTERNAL_RESULT_UNKNOWN", "CONNECTOR_UNAVAILABLE"} :
           Settling(w, reason)
  BY DEF Post
<1>6. /\ call' \in [Workers -> CallRows]
      /\ \A v \in Workers \ {w} : call'[v] = call[v]
      /\ Fits(call[w])'
  BY <1>2, <1>4, <1>5, SettleFits, TryFits DEF Reasons, Standing
<1>7. CallsFit'
  BY <1>4, <1>6, OthersFit DEF Inv
<1>8. faults' \in Nat /\ edits' \in Nat
  BY <1>1, FaultTyped DEF Inv, TypeOK
<1> QED BY <1>1, <1>2, <1>3, <1>6, <1>7, <1>8, GitLabStep

\* A step of no worker: all of them still fit.
LEMMA AllFit == ASSUME CallsFit, Onward, UNCHANGED call PROVE CallsFit'
  BY Undisturbed DEF CallsFit

\* A request that timed out arrives late.
LEMMA LateStep == ASSUME Inv, Late PROVE Inv'
<1>1. UNCHANGED <<records, work, call, faults, edits>> /\ Arrive /\ transit' = FALSE
  BY DEF Late
<1>2. Started
  BY DEF Inv, Rows, RowsFit, Late
<1>3. branch' \in Commits \cup {NoCommit} /\ (branch # NoCommit => branch' # NoCommit)
  BY <1>1, <1>2, ArriveTyped, NoneAssumption
<1>4. CallsFit'
  <2>1. Onward
    BY <1>1, <1>3 DEF Onward, Started, records, work
  <2> QED BY <1>1, <2>1, AllFit DEF Inv
<1>5. call' \in [Workers -> CallRows] /\ faults' \in Nat /\ edits' \in Nat
  BY <1>1 DEF Inv, TypeOK
<1> QED BY <1>1, <1>3, <1>4, <1>5, GitLabStep

\* A developer pushes to the branch.
LEMMA PushStep == ASSUME Inv, Push PROVE Inv'
<1>1. UNCHANGED <<records, work, transit, call, faults>> /\ Edit /\ branch' \in Commits
  BY DEF Push
<1>2. branch' \in Commits \cup {NoCommit} /\ branch' # NoCommit
  BY <1>1, NoneAssumption
<1>3. CallsFit'
  <2>1. Onward
    BY <1>1, <1>2 DEF Onward, Started, records, work
  <2> QED BY <1>1, <2>1, AllFit DEF Inv
<1>4. call' \in [Workers -> CallRows] /\ faults' \in Nat /\ edits' \in Nat
  BY <1>1 DEF Inv, TypeOK, Edit
<1>5. transit' \in BOOLEAN /\ (transit' => Started)
  BY <1>1 DEF Inv, TypeOK, Rows, RowsFit
<1> QED BY <1>1, <1>2, <1>3, <1>4, <1>5, GitLabStep
-----------------------------------------------------------------------------
(* The inbox.                                                              *)

\* A step that moves a message and at most one worker.
LEMMA InboxStep ==
  ASSUME Inv, UNCHANGED <<effect, binding, work, gitlab, edits>>, faults' \in Nat,
         inbox' \in [Messages -> InboxStates],
         call' \in [Workers -> CallRows], CallsFit', NoRequestDropped'
  PROVE  Inv'
<1> USE DEF work, gitlab
<1>1. TypeOK'
  BY DEF Inv, TypeOK
<1>2. RowsFit' /\ AckedIsTrue' /\ BoundAgrees'
  BY DEF Inv, Rows, RowsFit, BoundAgrees, AckedIsTrue, Used, Started
<1>3. BindingIsProved'
  BY DEF Inv, Rows, BindingIsProved
<1> QED BY <1>1, <1>2, <1>3 DEF Inv, Rows

\* Only the rows of a message move.
LEMMA MessageOnward ==
  ASSUME UNCHANGED <<effect, binding, work, gitlab>> PROVE Onward
  BY DEF Onward, Started, work, gitlab

\* The inbox accepts a request, or its lease lapses (relay.py and
\* adapters/sqlalchemy.py:197-222).
LEMMA MessageStep == ASSUME Inv, NEW m \in Messages, Relay(m) \/ LapseInbox(m) PROVE Inv'
<1>1. /\ UNCHANGED <<effect, binding, work, gitlab, edits>> /\ call' = call
      /\ Fault \/ UNCHANGED faults
  BY DEF Relay, LapseInbox, Expires
<1>2. PICK state \in {"RECEIVED", "LAPSED"} : inbox' = [inbox EXCEPT ![m] = state]
  BY DEF Relay, LapseInbox
<1>3. inbox' \in [Messages -> InboxStates]
  BY <1>2 DEF Inv, TypeOK, InboxStates
<1>4. NoRequestDropped'
  <2> SUFFICES ASSUME NEW n \in Messages, inbox'[n] = "PROCESSED"
               PROVE  \/ effect'.state \notin {"NONE", "PLANNED"}
                      \/ \E a \in answers' : a.key[1] = n
    BY DEF NoRequestDropped
  <2>1. inbox[n] = "PROCESSED"
    BY <1>2 DEF Inv, TypeOK
  <2> QED BY <1>1, <2>1 DEF Inv, Rows, NoRequestDropped, work
<1>5. CallsFit' /\ call' \in [Workers -> CallRows]
  BY <1>1, MessageOnward, AllFit DEF Inv, TypeOK
<1>6. faults' \in Nat
  BY <1>1, FaultTyped DEF Inv
<1> QED BY <1>1, <1>3, <1>4, <1>5, <1>6, InboxStep

\* A request is claimed (saga.py:338-349).
LEMMA TakeRequestStep ==
  ASSUME Inv, NEW w \in Workers, NEW m \in Messages, TakeRequest(w, m) PROVE Inv'
<1> DEFINE d == [IdleCall EXCEPT !.at = "context", !.job = "request", !.msg = m]
<1>1. /\ UNCHANGED <<effect, binding, work, gitlab, edits>> /\ faults' = faults
      /\ inbox' = [inbox EXCEPT ![m] = "PROCESSING"] /\ Moves(w, d)
  BY DEF TakeRequest
<1>2. call \in [Workers -> CallRows] /\ inbox \in [Messages -> InboxStates] /\ faults \in Nat
  BY DEF Inv, TypeOK
<1>3. d \in CallRows
  BY IdleTyped, ContextTyped DEF Locations, Jobs
<1>4. Put(w, d)
  BY <1>1, <1>2, <1>3, MovesTyped
<1>5. d.at = "context" /\ d.job = "request" /\ d.bound = FALSE
  BY DEF IdleCall
<1>6. call'[w] = d
  BY <1>4 DEF Put
<1> HIDE DEF d
<1>7. Fits(call[w])'
  BY <1>5, <1>6 DEF Fits, Doing, Reconciling, Asking, Answering
<1>8. CallsFit'
  BY <1>1, <1>4, <1>7, MessageOnward, OthersFit DEF Inv, Put
<1>9. inbox' \in [Messages -> InboxStates]
  BY <1>1, <1>2 DEF InboxStates
<1>10. NoRequestDropped'
  <2> SUFFICES ASSUME NEW n \in Messages, inbox'[n] = "PROCESSED"
               PROVE  \/ effect'.state \notin {"NONE", "PLANNED"}
                      \/ \E a \in answers' : a.key[1] = n
    BY DEF NoRequestDropped
  <2>1. inbox[n] = "PROCESSED"
    BY <1>1, <1>2
  <2> QED BY <1>1, <2>1 DEF Inv, Rows, NoRequestDropped, work
<1> QED BY <1>1, <1>2, <1>4, <1>8, <1>9, <1>10, InboxStep DEF Put

\* A message is processed when its request is answered for.
LEMMA ProcessedAnswered ==
  ASSUME Inv, NEW m, Processed(m), UNCHANGED <<effect, answers>>,
         Started \/ \E a \in answers : a.key[1] = m
  PROVE  inbox' \in [Messages -> InboxStates] /\ NoRequestDropped'
<1>1. inbox \in [Messages -> InboxStates]
  BY DEF Inv, TypeOK
<1>2. inbox' \in [Messages -> InboxStates]
  BY <1>1 DEF Processed, InboxStates
<1>3. NoRequestDropped'
  <2> SUFFICES ASSUME NEW n \in Messages, inbox'[n] = "PROCESSED"
               PROVE  \/ effect.state \notin {"NONE", "PLANNED"}
                      \/ \E a \in answers : a.key[1] = n
    BY DEF NoRequestDropped
  <2>1. CASE n = m
    BY <2>1 DEF Started, Unsettled, Final
  <2>2. CASE n # m
    BY <1>1, <2>2 DEF Processed, Inv, Rows, NoRequestDropped
  <2> QED BY <2>1, <2>2
<1> QED BY <1>2, <1>3

\* A request answered by what is already under way (saga.py:356-372).
LEMMA SeenStep == ASSUME Inv, NEW w \in Workers, Seen(w) PROVE Inv'
<1> DEFINE d == [call[w] EXCEPT !.at = IF call[w].bound THEN "tell" ELSE "check",
                                !.state = IF call[w].bound THEN "SUCCEEDED" ELSE "NONE"]
<1>1. /\ UNCHANGED <<effect, binding, work, gitlab, edits>> /\ faults' = faults
      /\ Processed(call[w].msg) /\ Moves(w, d) /\ call[w].at = "seen"
  BY DEF Seen
<1>2. call \in [Workers -> CallRows] /\ call[w] \in CallRows /\ faults \in Nat
  BY DEF Inv, TypeOK
<1>3. Fits(call[w]) /\ Started
  BY <1>1 DEF Inv, CallsFit, Fits, Asking
<1>4. d \in CallRows
  <2>1. \A at \in {"tell", "check"}, state \in {"SUCCEEDED", "NONE"} :
          [call[w] EXCEPT !.at = at, !.state = state] \in CallRows
    BY <1>2, ReadTyped DEF Locations, EffectStates, Final
  <2>2. /\ (IF call[w].bound THEN "tell" ELSE "check") \in {"tell", "check"}
        /\ (IF call[w].bound THEN "SUCCEEDED" ELSE "NONE") \in {"SUCCEEDED", "NONE"}
    OBVIOUS
  <2> QED BY <2>1, <2>2
<1>5. Put(w, d)
  BY <1>1, <1>2, <1>4, MovesTyped
<1>6. /\ d.at = IF call[w].bound THEN "tell" ELSE "check"
      /\ d.state = IF call[w].bound THEN "SUCCEEDED" ELSE "NONE"
      /\ d.job = call[w].job /\ d.bound = call[w].bound
  BY <1>2 DEF CallRows
<1>7. call'[w] = d
  BY <1>5 DEF Put
<1> HIDE DEF d
<1>8. Fits(call[w])'
  BY <1>1, <1>3, <1>6, <1>7
  DEF Fits, Doing, Reconciling, Asking, Answering, Knows, Started, Final
<1>9. CallsFit'
  BY <1>1, <1>5, <1>8, MessageOnward, OthersFit DEF Inv, Put
<1>10. inbox' \in [Messages -> InboxStates] /\ NoRequestDropped'
  BY <1>1, <1>3, ProcessedAnswered DEF work
<1> QED BY <1>1, <1>2, <1>5, <1>9, <1>10, InboxStep DEF Put

\* A refused request is complete once the work item has heard (saga.py:186-208).
LEMMA RefusedStep == ASSUME Inv, NEW w \in Workers, Refused(w) PROVE Inv'
<1>1. /\ UNCHANGED <<effect, binding, work, gitlab, edits>> /\ faults' = faults
      /\ Processed(call[w].msg) /\ Leave(w) /\ call[w].at = "refused"
  BY DEF Refused
<1>2. call \in [Workers -> CallRows] /\ faults \in Nat
  BY DEF Inv, TypeOK
<1>3. Put(w, IdleCall)
  BY <1>1, <1>2, LeaveTyped
<1>4. CallsFit'
  BY <1>1, <1>3, RestFits, MessageOnward, OthersFit DEF Inv, Put
<1>5. \E a \in answers : a.key[1] = call[w].msg
  BY <1>1 DEF Inv, CallsFit, Fits, Asking
<1>6. inbox' \in [Messages -> InboxStates] /\ NoRequestDropped'
  BY <1>1, <1>5, ProcessedAnswered DEF work
<1> QED BY <1>1, <1>2, <1>3, <1>4, <1>6, InboxStep DEF Put
-----------------------------------------------------------------------------
(* The effect.                                                             *)

\* The effect keeps its type under each of its updates (adapters/sqlalchemy.py).
LEMMA EffectTyped ==
  ASSUME NEW e \in Effects
  PROVE  /\ \A base \in Commits : [e EXCEPT !.state = "PLANNED", !.base = base] \in Effects
         /\ \A tries \in Nat : [e EXCEPT !.state = "IN_FLIGHT", !.due = FALSE,
                                         !.tries = tries] \in Effects
         /\ \A state \in EffectStates, why \in Errors, told \in {"PENDING", "ACKED", "FAILED"} :
              [e EXCEPT !.state = state, !.why = why, !.due = FALSE, !.told = told] \in Effects
         /\ \A why \in Errors :
              [e EXCEPT !.state = "UNKNOWN", !.why = why, !.due = FALSE] \in Effects
         /\ [e EXCEPT !.state = "RECONCILIATION", !.tries = @ + 1, !.due = FALSE] \in Effects
         /\ \A told \in {"ACKED", "FAILED"} : [e EXCEPT !.told = told] \in Effects
         /\ [e EXCEPT !.due = TRUE] \in Effects
<1>1. {"PLANNED", "IN_FLIGHT", "UNKNOWN", "RECONCILIATION"} \subseteq EffectStates
  BY DEF EffectStates, Unsettled
<1>2. \A base \in Commits : [e EXCEPT !.state = "PLANNED", !.base = base] \in Effects
  BY <1>1 DEF Effects
<1>3. \A tries \in Nat : [e EXCEPT !.state = "IN_FLIGHT", !.due = FALSE,
                                   !.tries = tries] \in Effects
  BY <1>1 DEF Effects
<1>4. \A state \in EffectStates, why \in Errors, told \in {"PENDING", "ACKED", "FAILED"} :
        [e EXCEPT !.state = state, !.why = why, !.due = FALSE, !.told = told] \in Effects
  BY DEF Effects
<1>5. \A why \in Errors :
        [e EXCEPT !.state = "UNKNOWN", !.why = why, !.due = FALSE] \in Effects
  BY <1>1 DEF Effects
<1>6. [e EXCEPT !.state = "RECONCILIATION", !.tries = @ + 1, !.due = FALSE] \in Effects
  <2>1. e.tries + 1 \in Nat
    BY DEF Effects
  <2> QED BY <1>1, <2>1 DEF Effects
<1>7. /\ \A told \in {"ACKED", "FAILED"} : [e EXCEPT !.told = told] \in Effects
      /\ [e EXCEPT !.due = TRUE] \in Effects
  BY DEF Effects
<1> QED BY <1>2, <1>3, <1>4, <1>5, <1>6, <1>7

\* A step of the saga's own rows.
LEMMA RecordStep ==
  ASSUME Inv, UNCHANGED <<work, gitlab, edits>>, faults' \in Nat,
         inbox' \in [Messages -> InboxStates], effect' \in Effects,
         binding' \in Commits \cup {NoCommit}, call' \in [Workers -> CallRows],
         CallsFit', Rows'
  PROVE  Inv'
<1>1. TypeOK'
  BY DEF Inv, TypeOK, work, gitlab
<1> QED BY <1>1 DEF Inv

\* A message left alone stays accounted for.
LEMMA InboxKept ==
  ASSUME Inv, UNCHANGED <<inbox, answers>>,
         effect.state \notin {"NONE", "PLANNED"} => effect'.state \notin {"NONE", "PLANNED"}
  PROVE  inbox' \in [Messages -> InboxStates] /\ NoRequestDropped'
  BY DEF Inv, TypeOK, Rows, NoRequestDropped

\* The effect of the work item is planned, or found planned (saga.py:442-486).
LEMMA PlanStep == ASSUME Inv, NEW w \in Workers, Plan(w) PROVE Inv'
<1>1. /\ UNCHANGED <<inbox, binding, work, gitlab, edits>> /\ faults' = faults
      /\ call[w].at = "plan"
  BY DEF Plan
<1>2. /\ call \in [Workers -> CallRows] /\ call[w] \in CallRows /\ faults \in Nat
      /\ effect \in Effects /\ binding \in Commits \cup {NoCommit}
  BY DEF Inv, TypeOK
<1>3. Fits(call[w])
  BY DEF Inv, CallsFit
<1>4. call[w].base \in Commits /\ call[w].job = "request"
  BY <1>1, <1>3 DEF Fits, Doing, Asking
<1>5. \/ effect.state # "NONE" /\ effect' = effect
      \/ /\ effect.state = "NONE"
         /\ effect' = [effect EXCEPT !.state = "PLANNED", !.base = call[w].base]
  BY DEF Plan
<1>6. /\ effect' \in Effects
      /\ \/ effect' = effect
         \/ /\ effect.state = "NONE" /\ effect'.state = "PLANNED"
            /\ effect'.base \in Commits /\ effect'.told = effect.told
  <2>1. effect.state = "NONE" => effect' \in Effects
    BY <1>2, <1>4, <1>5, EffectTyped
  <2> QED BY <1>2, <1>4, <1>5, <2>1 DEF Effects
<1>7. Onward
  BY <1>1, <1>6 DEF Onward, Started, Unsettled, Final, work, gitlab
<1>8. inbox' \in [Messages -> InboxStates] /\ NoRequestDropped'
  BY <1>1, <1>6, InboxKept DEF work
<1>9. Rows'
  BY <1>1, <1>2, <1>6, <1>7, <1>8, NoneAssumption
  DEF Inv, Rows, RowsFit, BindingIsProved, BoundAgrees, AckedIsTrue, Used, Started,
      Unsettled, Final, work, gitlab
<1>10. Put(w, IdleCall) \/ \E h \in CallRows :
          /\ Put(w, [h EXCEPT !.at = "start", !.base = NoCommit])
          /\ h.state = "PLANNED" /\ h.job = "request" /\ h.bound = call[w].bound
  <2>1. CASE effect'.state = "PLANNED"
    <3> DEFINE h == Holding(call[w], effect')
               d == [h EXCEPT !.at = "start", !.base = NoCommit]
    <3>1. Moves(w, d)
      BY <2>1 DEF Plan
    <3>2. /\ h \in CallRows /\ h.state = "PLANNED" /\ h.job = "request"
          /\ h.bound = call[w].bound
      BY <1>2, <1>4, <1>6, <2>1, HoldingTyped
    <3> HIDE DEF h
    <3>3. d \in CallRows
      BY <3>2, ContextTyped DEF Locations
    <3>4. Put(w, d)
      BY <1>2, <3>1, <3>3, MovesTyped
    <3> QED BY <3>2, <3>4
  <2>2. CASE effect'.state # "PLANNED"
    BY <1>2, <2>2, LeaveTyped DEF Plan
  <2> QED BY <2>1, <2>2
<1>11. Fits(call[w])'
  <2>1. CASE Put(w, IdleCall)
    BY <2>1, RestFits DEF Put
  <2>2. ASSUME NEW h \in CallRows, Put(w, [h EXCEPT !.at = "start", !.base = NoCommit]),
               h.state = "PLANNED", h.job = "request", h.bound = call[w].bound
        PROVE  Fits(call[w])'
    <3>1. /\ call'[w].at = "start" /\ call'[w].state = "PLANNED"
          /\ call'[w].job = "request" /\ call'[w].bound = call[w].bound
      BY <2>2 DEF Put, CallRows
    <3> QED BY <1>3, <1>7, <3>1 DEF Fits, Doing, Reconciling, Asking, Answering, Onward
  <2> QED BY <1>10, <2>1, <2>2
<1>12. call' \in [Workers -> CallRows] /\ CallsFit'
  BY <1>7, <1>10, <1>11, OthersFit DEF Put, Inv
<1> QED BY <1>1, <1>2, <1>6, <1>8, <1>9, <1>12, RecordStep

\* An attempt goes in flight, or another one has (saga.py:487-516).
LEMMA StartStep == ASSUME Inv, NEW w \in Workers, Start(w) PROVE Inv'
<1>1. /\ UNCHANGED <<inbox, binding, work, gitlab, edits>> /\ faults' = faults
      /\ call[w].at = "start"
  BY DEF Start
<1>2. /\ call \in [Workers -> CallRows] /\ call[w] \in CallRows /\ faults \in Nat
      /\ effect \in Effects /\ binding \in Commits \cup {NoCommit}
  BY DEF Inv, TypeOK
<1>3. Fits(call[w])
  BY DEF Inv, CallsFit
<1>4. CASE effect.state = "PLANNED"
  <2> DEFINE h == Holding(call[w], effect')
             d == [h EXCEPT !.at = "post"]
  <2>1. /\ effect' = [effect EXCEPT !.state = "IN_FLIGHT", !.due = FALSE,
                                    !.tries = call[w].tries + 1]
        /\ Moves(w, d)
    BY <1>4 DEF Start
  <2>2. call[w].tries + 1 \in Nat
    BY <1>2 DEF CallRows
  <2>3. effect' \in Effects
    BY <1>2, <2>1, <2>2, EffectTyped
  <2>4. /\ effect'.state = "IN_FLIGHT" /\ effect'.base = effect.base
        /\ effect'.told = effect.told
    BY <1>2, <2>1 DEF Effects
  <2>5. /\ h \in CallRows /\ h.state = "IN_FLIGHT" /\ h.job = call[w].job
        /\ h.bound = call[w].bound
    BY <1>2, <2>3, <2>4, HoldingTyped
  <2> HIDE DEF h
  <2>6. d \in CallRows
    BY <2>5, ReadTyped DEF Locations
  <2>7. Put(w, d)
    BY <1>2, <2>1, <2>6, MovesTyped
  <2>8. /\ call'[w].at = "post" /\ call'[w].state = "IN_FLIGHT"
        /\ call'[w].job = "request" /\ call'[w].bound = call[w].bound
    BY <1>1, <1>3, <2>5, <2>7 DEF Put, CallRows, Fits, Doing
  <2>9. Started' /\ Onward
    BY <1>1, <1>4, <2>4 DEF Onward, Started, Unsettled, work, gitlab
  <2>10. Fits(call[w])'
    BY <1>3, <2>8, <2>9 DEF Fits, Doing, Reconciling, Asking, Answering, Onward
  <2>11. inbox' \in [Messages -> InboxStates] /\ NoRequestDropped'
    BY <1>1, <1>4, <2>4, InboxKept DEF work
  <2>12. RowsFit'
    BY <1>1, <1>4, <2>4, <2>9 DEF Inv, Rows, RowsFit, Used, work, gitlab
  <2>13. BindingIsProved' /\ BoundAgrees' /\ AckedIsTrue'
    BY <1>1, <1>4, <2>4
    DEF Inv, Rows, BindingIsProved, BoundAgrees, AckedIsTrue, work, gitlab
  <2>14. call' \in [Workers -> CallRows] /\ CallsFit'
    BY <2>7, <2>9, <2>10, OthersFit DEF Put, Inv
  <2> QED BY <1>1, <1>2, <2>3, <2>11, <2>12, <2>13, <2>14, RecordStep DEF Rows
<1>5. CASE effect.state # "PLANNED"
  <2>1. UNCHANGED <<records, work, gitlab, edits>> /\ Leave(w)
    BY <1>5 DEF Start, records
  <2>2. Put(w, IdleCall)
    BY <1>2, <2>1, LeaveTyped
  <2> QED BY <1>1, <1>2, <2>1, <2>2, RestFits, ReadStep DEF Put
<1> QED BY <1>4, <1>5

\* What a worker knows that is still the last to attempt.
LEMMA SettlingKnows ==
  ASSUME Inv, NEW w \in Workers, call[w].at = "settle", Current(w)
  PROVE  /\ effect.state \in {"IN_FLIGHT", "RECONCILIATION"}
         /\ call[w].job # "reconcile" => effect.told = "PENDING"
         /\ effect.base \in Commits
         /\ call[w].why = "VERIFIED" => branch # NoCommit
<1>1. Fits(call[w])
  BY DEF Inv, CallsFit
<1>2. effect.state \in {"IN_FLIGHT", "RECONCILIATION"}
  BY <1>1 DEF Fits, Doing, Current
<1>3. call[w].job # "reconcile" => effect.state = "IN_FLIGHT"
  BY <1>1 DEF Fits, Doing, Current
<1>4. effect.told = "PENDING" \/ call[w].job = "reconcile"
  BY <1>3 DEF Inv, Rows, RowsFit
<1>5. effect.base \in Commits
  BY <1>2 DEF Inv, TypeOK, Rows, RowsFit, Effects
<1> QED BY <1>1, <1>2, <1>4, <1>5 DEF Fits, Doing

\* The request of the saga is answered with the outcome it wrote.
LEMMA AnswerTyped ==
  ASSUME Inv, NEW w \in Workers, Answer(w), Started'
  PROVE  inbox' \in [Messages -> InboxStates] /\ NoRequestDropped'
<1>1. inbox' \in [Messages -> InboxStates]
  BY DEF Inv, TypeOK, Answer, Processed, InboxStates
<1>2. effect'.state \notin {"NONE", "PLANNED"}
  BY DEF Started, Unsettled, Final
<1> QED BY <1>1, <1>2 DEF NoRequestDropped

\* A worker about to tell an outcome knows it.
LEMMA TellingFits ==
  ASSUME Inv, Onward, NEW w \in Workers, Telling(w), effect' \in Effects,
         effect'.state \in {"UNKNOWN"} \cup Final,
         effect'.state # "SUCCEEDED" =>
           call[w].why \in Reasons \cup {"EXTERNAL_RESULT_UNKNOWN"}
  PROVE  call' \in [Workers -> CallRows] /\ CallsFit'
<1> DEFINE h == Holding(call[w], effect')
           d == [h EXCEPT !.at = "tell"]
<1>1. call \in [Workers -> CallRows] /\ call[w] \in CallRows
  BY DEF Inv, TypeOK
<1>2. /\ h \in CallRows /\ h.state = effect'.state /\ h.job = call[w].job
      /\ h.bound = call[w].bound /\ h.why = call[w].why
  BY <1>1, HoldingTyped
<1>3. Moves(w, d)
  BY DEF Telling
<1> HIDE DEF h
<1>4. d \in CallRows
  BY <1>2, ReadTyped DEF Locations
<1>5. Put(w, d)
  BY <1>1, <1>3, <1>4, MovesTyped
<1>6. /\ call'[w].at = "tell" /\ call'[w].state = effect'.state
      /\ call'[w].bound = call[w].bound /\ call'[w].why = call[w].why
  BY <1>2, <1>5 DEF Put, CallRows
<1>7. Knows(call[w])'
  BY <1>6 DEF Knows
<1>8. call[w].bound => effect'.state = "SUCCEEDED"
  BY DEF Inv, CallsFit, Fits, Asking, Onward
<1>9. Fits(call[w])'
  BY <1>6, <1>7, <1>8 DEF Fits, Doing, Reconciling, Asking, Answering
<1> QED BY <1>5, <1>9, OthersFit DEF Put, Inv

\* The branch is proved: effect, binding and inbox in one transaction
\* (saga.py:612-656, reconciliation.py:114-181).
LEMMA SucceedStep == ASSUME Inv, NEW w \in Workers, Succeed(w) PROVE Inv'
<1>1. /\ UNCHANGED <<work, gitlab, edits>> /\ faults' = faults
      /\ effect' = Outcome(w, "SUCCEEDED", "NONE") /\ binding' = effect.base
      /\ Answer(w) /\ Telling(w)
  BY DEF Succeed
<1>2. effect \in Effects /\ faults \in Nat
  BY DEF Inv, TypeOK
<1>3. /\ effect.state \in {"IN_FLIGHT", "RECONCILIATION"}
      /\ call[w].job # "reconcile" => effect.told = "PENDING"
      /\ effect.base \in Commits /\ branch # NoCommit
  BY SettlingKnows DEF Succeed
<1>4. effect.told \in {"PENDING", "ACKED", "FAILED"}
  BY <1>2 DEF Effects
<1>5. effect' \in Effects
  BY <1>1, <1>2, <1>4, EffectTyped DEF Outcome, EffectStates, Final, Errors
<1>6. /\ effect'.state = "SUCCEEDED" /\ effect'.base = effect.base
      /\ effect'.told = "PENDING"
  BY <1>1, <1>2, <1>3 DEF Outcome, Effects
<1>7. Started' /\ Onward
  BY <1>1, <1>3, <1>6 DEF Onward, Started, Final, work, gitlab
<1>8. inbox' \in [Messages -> InboxStates] /\ NoRequestDropped'
  BY <1>1, <1>7, AnswerTyped
<1>9. call' \in [Workers -> CallRows] /\ CallsFit'
  BY <1>1, <1>5, <1>6, <1>7, TellingFits DEF Final
<1>10. RowsFit'
  BY <1>1, <1>3, <1>6, <1>7, NoneAssumption DEF Inv, Rows, RowsFit, Used, work, gitlab
<1>11. BindingIsProved' /\ BoundAgrees' /\ AckedIsTrue'
  BY <1>1, <1>3, <1>6, NoneAssumption
  DEF Inv, Rows, BindingIsProved, BoundAgrees, AckedIsTrue, work, gitlab
<1> QED BY <1>1, <1>2, <1>3, <1>5, <1>8, <1>9, <1>10, <1>11, RecordStep DEF Rows

\* The effect is blocked for good (saga.py:216-251, reconciliation.py:184-218).
LEMMA BlockStep == ASSUME Inv, NEW w \in Workers, Block(w) PROVE Inv'
<1>1. /\ UNCHANGED <<binding, work, gitlab, edits>> /\ faults' = faults
      /\ effect' = Outcome(w, "BLOCKED", call[w].why) /\ call[w].why \in Reasons
      /\ Answer(w) /\ Telling(w)
  BY DEF Block
<1>2. effect \in Effects /\ faults \in Nat /\ binding \in Commits \cup {NoCommit}
  BY DEF Inv, TypeOK
<1>3. /\ effect.state \in {"IN_FLIGHT", "RECONCILIATION"}
      /\ call[w].job # "reconcile" => effect.told = "PENDING"
      /\ effect.base \in Commits
  BY SettlingKnows DEF Block
<1>4. effect.told \in {"PENDING", "ACKED", "FAILED"}
  BY <1>2 DEF Effects
<1>5. effect' \in Effects
  BY <1>1, <1>2, <1>4, EffectTyped DEF Outcome, EffectStates, Final, Errors
<1>6. /\ effect'.state = "BLOCKED" /\ effect'.base = effect.base
      /\ effect'.told = "PENDING" /\ effect'.why = call[w].why
  BY <1>1, <1>2, <1>3 DEF Outcome, Effects
<1>7. Started' /\ Onward
  BY <1>1, <1>3, <1>6 DEF Onward, Started, Final, work, gitlab
<1>8. inbox' \in [Messages -> InboxStates] /\ NoRequestDropped'
  BY <1>1, <1>7, AnswerTyped
<1>9. call' \in [Workers -> CallRows] /\ CallsFit'
  BY <1>1, <1>5, <1>6, <1>7, TellingFits DEF Final
<1>10. RowsFit'
  BY <1>1, <1>3, <1>6, <1>7, NoneAssumption DEF Inv, Rows, RowsFit, Used, work, gitlab
<1>11. BindingIsProved' /\ BoundAgrees' /\ AckedIsTrue'
  BY <1>1, <1>3, <1>6, NoneAssumption
  DEF Inv, Rows, BindingIsProved, BoundAgrees, AckedIsTrue, work, gitlab
<1> QED BY <1>1, <1>2, <1>5, <1>8, <1>9, <1>10, <1>11, RecordStep DEF Rows

\* The outcome is in doubt (saga.py:527-559, reconciliation.py:221-258).
LEMMA DoubtStep == ASSUME Inv, NEW w \in Workers, Doubt(w) PROVE Inv'
<1>1. /\ UNCHANGED <<binding, work, gitlab, edits>> /\ faults' = faults
      /\ effect' = [effect EXCEPT !.state = "UNKNOWN", !.why = call[w].why, !.due = FALSE]
      /\ call[w].why = "EXTERNAL_RESULT_UNKNOWN" /\ Answer(w)
      /\ Telling(w) \/ Leave(w)
  BY DEF Doubt
<1>2. /\ effect \in Effects /\ faults \in Nat /\ binding \in Commits \cup {NoCommit}
      /\ call \in [Workers -> CallRows]
  BY DEF Inv, TypeOK
<1>3. effect.state \in {"IN_FLIGHT", "RECONCILIATION"} /\ effect.base \in Commits
  BY SettlingKnows DEF Doubt
<1>4. effect' \in Effects
  BY <1>1, <1>2, EffectTyped DEF Errors
<1>5. effect'.state = "UNKNOWN" /\ effect'.base = effect.base
  BY <1>1, <1>2 DEF Effects
<1>6. Started' /\ Onward
  BY <1>1, <1>3, <1>5 DEF Onward, Started, Unsettled, work, gitlab
<1>7. inbox' \in [Messages -> InboxStates] /\ NoRequestDropped'
  BY <1>1, <1>6, AnswerTyped
<1>8. call' \in [Workers -> CallRows] /\ CallsFit'
  <2>1. CASE Telling(w)
    BY <1>1, <1>4, <1>5, <1>6, <2>1, TellingFits
  <2>2. CASE Leave(w)
    BY <1>2, <1>6, <2>2, LeaveTyped, RestFits, OthersFit DEF Put, Inv
  <2> QED BY <1>1, <2>1, <2>2
<1>9. RowsFit'
  BY <1>1, <1>3, <1>5, <1>6, NoneAssumption DEF Inv, Rows, RowsFit, Used, work, gitlab
<1>10. BindingIsProved' /\ BoundAgrees' /\ AckedIsTrue'
  BY <1>1, <1>3, <1>5, NoneAssumption
  DEF Inv, Rows, BindingIsProved, BoundAgrees, AckedIsTrue, work, gitlab
<1> QED BY <1>1, <1>2, <1>4, <1>7, <1>8, <1>9, <1>10, RecordStep DEF Rows

\* An effect that is due is taken for reconciliation (adapters/sqlalchemy.py:323-346).
LEMMA TakeEffectStep == ASSUME Inv, NEW w \in Workers, TakeEffect(w) PROVE Inv'
<1> DEFINE h == Holding(IdleCall, effect')
           d == [h EXCEPT !.at = "context", !.job = "reconcile"]
<1>1. /\ UNCHANGED <<inbox, binding, work, gitlab, edits>> /\ faults' = faults
      /\ effect' = [effect EXCEPT !.state = "RECONCILIATION", !.tries = @ + 1, !.due = FALSE]
      /\ effect.state \in Unsettled /\ Moves(w, d)
  BY DEF TakeEffect
<1>2. /\ effect \in Effects /\ faults \in Nat /\ binding \in Commits \cup {NoCommit}
      /\ call \in [Workers -> CallRows]
  BY DEF Inv, TypeOK
<1>3. effect' \in Effects
  BY <1>1, <1>2, EffectTyped
<1>4. effect'.state = "RECONCILIATION" /\ effect'.base = effect.base
  BY <1>1, <1>2 DEF Effects
<1>5. h \in CallRows /\ h.state = "RECONCILIATION" /\ h.bound = FALSE
  BY <1>3, <1>4, IdleTyped, HoldingTyped DEF IdleCall
<1> HIDE DEF h
<1>6. d \in CallRows
  BY <1>5, ContextTyped DEF Locations, Jobs
<1>7. Put(w, d)
  BY <1>1, <1>2, <1>6, MovesTyped
<1>8. /\ call'[w].at = "context" /\ call'[w].job = "reconcile"
      /\ call'[w].state = "RECONCILIATION" /\ call'[w].bound = FALSE
  BY <1>5, <1>7 DEF Put, CallRows
<1>9. Started' /\ Onward
  BY <1>1, <1>4 DEF Onward, Started, Unsettled, work, gitlab
<1>10. Fits(call[w])'
  BY <1>8, <1>9 DEF Fits, Doing, Reconciling, Asking, Answering
<1>11. call' \in [Workers -> CallRows] /\ CallsFit'
  BY <1>7, <1>9, <1>10, OthersFit DEF Put, Inv
<1>12. inbox' \in [Messages -> InboxStates] /\ NoRequestDropped'
  BY <1>1, <1>4, InboxKept DEF work
<1>13. RowsFit'
  BY <1>1, <1>4, <1>9 DEF Inv, Rows, RowsFit, Used, Unsettled, work, gitlab
<1>14. BindingIsProved' /\ BoundAgrees' /\ AckedIsTrue'
  BY <1>1, <1>4
  DEF Inv, Rows, BindingIsProved, BoundAgrees, AckedIsTrue, Unsettled, work, gitlab
<1> QED BY <1>1, <1>2, <1>3, <1>11, <1>12, <1>13, <1>14, RecordStep DEF Rows

\* The callback state is set, unless the effect has moved (saga.py:114-153).
LEMMA MarkStep == ASSUME Inv, NEW w \in Workers, Mark(w) PROVE Inv'
<1>1. /\ UNCHANGED <<inbox, binding, work, gitlab, edits>> /\ faults' = faults
      /\ Leave(w)
      /\ \/ effect' = effect
         \/ /\ effect.state = call[w].state
            /\ \E told \in {"ACKED", "FAILED"} :
                 /\ effect' = [effect EXCEPT !.told = told]
                 /\ told = "ACKED" => call[w].at = "ack"
  BY DEF Mark
<1>2. /\ effect \in Effects /\ faults \in Nat /\ binding \in Commits \cup {NoCommit}
      /\ call \in [Workers -> CallRows]
  BY DEF Inv, TypeOK
<1>3. Fits(call[w]) /\ call[w].at \in {"ack", "nack"}
  BY DEF Inv, CallsFit, Mark
<1>4. effect' \in Effects
  BY <1>1, <1>2, EffectTyped
<1>5. /\ effect'.state = effect.state /\ effect'.base = effect.base
      /\ effect'.why = effect.why
      /\ \/ effect'.told = effect.told
         \/ /\ effect.state \in {"UNKNOWN"} \cup Final
            /\ effect'.told = "ACKED" /\ effect.state = "SUCCEEDED" => item.state = "BOUND"
  <2>1. /\ call[w].state \in {"UNKNOWN"} \cup Final
        /\ call[w].at = "ack" /\ call[w].state = "SUCCEEDED" => item.state = "BOUND"
    BY <1>3 DEF Fits, Answering, Knows
  <2>2. CASE effect' = effect
    BY <2>2
  <2>3. ASSUME NEW told \in {"ACKED", "FAILED"}, effect.state = call[w].state,
               effect' = [effect EXCEPT !.told = told], told = "ACKED" => call[w].at = "ack"
        PROVE  /\ effect'.state = effect.state /\ effect'.base = effect.base
               /\ effect'.why = effect.why /\ effect'.told = told
    BY <1>2, <2>3 DEF Effects
  <2> QED BY <1>1, <2>1, <2>2, <2>3
<1>6. Started' = Started /\ Onward
  BY <1>1, <1>5 DEF Onward, Started, work, gitlab
<1>7. call' \in [Workers -> CallRows] /\ CallsFit'
  BY <1>1, <1>2, <1>6, LeaveTyped, RestFits, OthersFit DEF Put, Inv
<1>8. inbox' \in [Messages -> InboxStates] /\ NoRequestDropped'
  BY <1>1, <1>5, InboxKept DEF work
<1>9. RowsFit'
  BY <1>1, <1>5, <1>6 DEF Inv, Rows, RowsFit, Used, Final, work, gitlab
<1>10. BindingIsProved' /\ BoundAgrees' /\ AckedIsTrue'
  BY <1>1, <1>5 DEF Inv, Rows, BindingIsProved, BoundAgrees, AckedIsTrue, work, gitlab
<1> QED BY <1>1, <1>2, <1>4, <1>7, <1>8, <1>9, <1>10, RecordStep DEF Rows

\* The next attempt falls due.
LEMMA FallDueStep == ASSUME Inv, FallDue PROVE Inv'
<1>1. /\ UNCHANGED <<inbox, binding, work, gitlab, call, edits>>
      /\ Fault \/ UNCHANGED faults
      /\ effect' = [effect EXCEPT !.due = TRUE]
  BY DEF FallDue, Expires
<1>2. /\ effect \in Effects /\ binding \in Commits \cup {NoCommit}
      /\ call \in [Workers -> CallRows]
  BY DEF Inv, TypeOK
<1>3. effect' \in Effects
  BY <1>1, <1>2, EffectTyped
<1>4. /\ effect'.state = effect.state /\ effect'.base = effect.base
      /\ effect'.why = effect.why /\ effect'.told = effect.told
  BY <1>1, <1>2 DEF Effects
<1>5. Started' = Started /\ Onward
  BY <1>1, <1>4 DEF Onward, Started, work, gitlab
<1>6. CallsFit' /\ call' \in [Workers -> CallRows]
  BY <1>1, <1>2, <1>5, AllFit DEF Inv
<1>7. inbox' \in [Messages -> InboxStates] /\ NoRequestDropped'
  BY <1>1, <1>4, InboxKept DEF work
<1>8. RowsFit'
  BY <1>1, <1>4, <1>5 DEF Inv, Rows, RowsFit, Used, work, gitlab
<1>9. BindingIsProved' /\ BoundAgrees' /\ AckedIsTrue'
  BY <1>1, <1>4 DEF Inv, Rows, BindingIsProved, BoundAgrees, AckedIsTrue, work, gitlab
<1>10. faults' \in Nat
  BY <1>1, FaultTyped DEF Inv
<1> QED BY <1>1, <1>2, <1>3, <1>6, <1>7, <1>8, <1>9, <1>10, RecordStep DEF Rows
-----------------------------------------------------------------------------
(* The work item.                                                          *)

\* What a worker tells, and under which key.
LEMMA WordTyped ==
  ASSUME Inv, NEW w \in Workers, call[w].at \in {"refuse", "tell"}
  PROVE  /\ Key(call[w]) \in Keys
         /\ Word(call[w]).state \in {"BLOCKED", "BOUND"}
         /\ Word(call[w]).why \in Reasons \cup {"NONE"}
         /\ Word(call[w]).sha \in Commits \cup {NoCommit}
         /\ Key(call[w]) = <<NoMessage, "READY">> => Word(call[w]).state = "BOUND"
         /\ call[w].at = "tell" /\ call[w].state = "SUCCEEDED" =>
              Key(call[w]) = <<NoMessage, "READY">>
         /\ Word(call[w]).state = "BOUND" =>
              effect.state = "SUCCEEDED" /\ Word(call[w]).sha = binding
         /\ call[w].at = "refuse" => Key(call[w])[1] = call[w].msg
<1>1. call[w] \in CallRows /\ binding \in Commits \cup {NoCommit}
  BY DEF Inv, TypeOK
<1>2. Fits(call[w])
  BY DEF Inv, CallsFit
<1>3. call[w].msg \in Messages \cup {NoMessage}
  BY <1>1 DEF CallRows
<1>4. /\ "READY" \notin Reasons /\ "EXTERNAL_RESULT_UNKNOWN" \notin Reasons
      /\ "RECONCILIATION_PENDING" \in Reasons /\ Reasons \subseteq Errors
      /\ "EXTERNAL_RESULT_UNKNOWN" \in Errors
  BY DEF Reasons, Standing, OwnerBlocks, Errors
<1>5. CASE call[w].at = "refuse"
  <2>1. call[w].why \in Reasons
    BY <1>2, <1>5 DEF Fits, Asking
  <2>2. /\ Key(call[w]) = <<call[w].msg, call[w].why>>
        /\ Word(call[w]) = [state |-> "BLOCKED", sha |-> NoCommit, why |-> call[w].why]
    BY <1>4, <1>5, <2>1 DEF Key, Word
  <2> QED BY <1>3, <1>4, <1>5, <2>1, <2>2 DEF Keys
<1>6. CASE call[w].at = "tell" /\ call[w].state = "SUCCEEDED"
  <2>1. effect.state = "SUCCEEDED"
    BY <1>2, <1>6 DEF Fits, Answering, Knows
  <2>2. /\ Key(call[w]) = <<NoMessage, "READY">>
        /\ Word(call[w]) = [state |-> "BOUND", why |-> "NONE", sha |-> binding]
    BY <1>6 DEF Key, Word
  <2> QED BY <1>1, <1>6, <2>1, <2>2 DEF Keys
<1>7. CASE call[w].at = "tell" /\ call[w].state # "SUCCEEDED"
  <2>1. call[w].why \in Reasons \cup {"EXTERNAL_RESULT_UNKNOWN"}
    BY <1>2, <1>7 DEF Fits, Answering, Knows
  <2>2. Key(call[w]) = <<NoMessage, call[w].why>>
    BY <1>7 DEF Key
  <2>3. Word(call[w]) = [state |-> "BLOCKED", sha |-> NoCommit,
          why |-> IF call[w].why = "EXTERNAL_RESULT_UNKNOWN" THEN "RECONCILIATION_PENDING"
                  ELSE call[w].why]
    BY <1>7 DEF Word
  <2> QED BY <1>4, <1>7, <2>1, <2>2, <2>3 DEF Keys
<1> QED BY <1>5, <1>6, <1>7

\* A command the work item accepts (requirement commands.py:511-735) keeps it
\* bound, and binds it only to what source_control has proved.
LEMMA AcceptedKeeps ==
  ASSUME Inv, NEW key \in Keys, NEW rev \in Nat, NEW word,
         word.state \in {"BLOCKED", "BOUND"}, word.why \in Reasons \cup {"NONE"},
         word.sha \in Commits \cup {NoCommit},
         word.state = "BOUND" => effect.state = "SUCCEEDED" /\ word.sha = binding,
         key = <<NoMessage, "READY">> => word.state = "BOUND",
         Accepts(key, rev, word), Record(key, rev, word)
  PROVE  /\ item' \in Items /\ answers' \subseteq Answers
         /\ answers \subseteq answers' /\ \E a \in answers' : a.key = key
         /\ item.state = "BOUND" => item' = item
         /\ item' = item \/ item'.state \in {"BLOCKED", "BOUND"}
         /\ item'.state = "BOUND" => effect.state = "SUCCEEDED" /\ item'.sha = binding
         /\ (\E a \in answers' : a.key = <<NoMessage, "READY">>) => item'.state = "BOUND"
         /\ key = <<NoMessage, "READY">> => item'.state = "BOUND"
<1>1. item \in Items /\ answers \subseteq Answers
  BY DEF Inv, TypeOK
<1>2. [key |-> key, rev |-> rev] \in Answers
  BY DEF Answers
<1>3. /\ answers' = answers \cup {[key |-> key, rev |-> rev]}
      /\ answers' \subseteq Answers
  BY <1>1, <1>2 DEF Record
<1>4. \E a \in answers' : a.key = key
  <2> DEFINE r == [key |-> key, rev |-> rev]
  <2>1. r \in answers' /\ r.key = key
    BY <1>3
  <2> QED BY <2>1
<1>5. item' \in Items
  <2>1. item.rev + 1 \in Nat
    BY <1>1 DEF Items
  <2>2. [item EXCEPT !.state = word.state, !.why = word.why,
                     !.sha = word.sha, !.rev = @ + 1] \in Items
    BY <1>1, <2>1 DEF Items
  <2> QED BY <1>1, <2>2 DEF Record
<1>6. \/ item' = item /\ (Used(key) \/ Says(word))
      \/ /\ item.state # "BOUND" /\ ~Used(key)
         /\ item'.state = word.state /\ item'.sha = word.sha
  BY <1>1 DEF Record, Accepts, Items
<1>7. item.state = "BOUND" => effect.state = "SUCCEEDED" /\ item.sha = binding
  BY DEF Inv, Rows, BoundAgrees
<1>8. key = <<NoMessage, "READY">> => item'.state = "BOUND"
  BY <1>6 DEF Says, Inv, Rows, RowsFit
<1>9. (\E a \in answers' : a.key = <<NoMessage, "READY">>) => item'.state = "BOUND"
  <2>1. Used(<<NoMessage, "READY">>) => item'.state = "BOUND"
    BY <1>6 DEF Inv, Rows, RowsFit
  <2>2. \A a \in answers' : a \in answers \/ a.key = key
    BY <1>3
  <2> QED BY <1>8, <2>1, <2>2 DEF Used
<1>10. item'.state = "BOUND" => effect.state = "SUCCEEDED" /\ item'.sha = binding
  BY <1>6, <1>7
<1> QED BY <1>3, <1>4, <1>5, <1>6, <1>8, <1>9, <1>10

\* A step of the work item, and of the inbox when it asks again.
LEMMA WorkStep ==
  ASSUME Inv, UNCHANGED <<effect, binding, gitlab>>, faults' \in Nat, edits' \in Nat,
         inbox' \in [Messages -> InboxStates], NoRequestDropped',
         item' \in Items, answers' \subseteq Answers,
         item.state = "BOUND" => item'.state = "BOUND",
         item'.state = "BOUND" => effect.state = "SUCCEEDED" /\ item'.sha = binding,
         (\E a \in answers' : a.key = <<NoMessage, "READY">>) => item'.state = "BOUND",
         call' \in [Workers -> CallRows], CallsFit'
  PROVE  Inv'
<1>1. TypeOK'
  BY DEF Inv, TypeOK, gitlab
<1>2. RowsFit'
  BY DEF Inv, Rows, RowsFit, Started, Used, gitlab
<1>3. BindingIsProved' /\ BoundAgrees' /\ AckedIsTrue'
  BY DEF Inv, Rows, BindingIsProved, BoundAgrees, AckedIsTrue, gitlab
<1> QED BY <1>1, <1>2, <1>3 DEF Inv, Rows

\* The locals after a callback: acknowledged, failed, or given up.
LEMMA ToldFits ==
  ASSUME Inv, Onward, NEW w \in Workers, call[w].at \in {"refuse", "tell"},
         \/ Leave(w)
         \/ call[w].at = "tell" /\ Goto(w, "nack")
         \/ /\ call[w].at = "tell" /\ Goto(w, "ack")
            /\ call[w].state = "SUCCEEDED" => item'.state = "BOUND"
         \/ /\ call[w].at = "refuse" /\ Goto(w, "refused")
            /\ \E a \in answers' : a.key[1] = call[w].msg
  PROVE  call' \in [Workers -> CallRows] /\ CallsFit'
<1>1. call \in [Workers -> CallRows] /\ call[w] \in CallRows
  BY DEF Inv, TypeOK
<1>2. CASE Leave(w)
  BY <1>1, <1>2, LeaveTyped, RestFits, OthersFit DEF Put, Inv
<1>3. ASSUME NEW at \in {"ack", "nack", "refused"}, Goto(w, at),
             at \in {"ack", "nack"} => call[w].at = "tell",
             at = "ack" /\ call[w].state = "SUCCEEDED" => item'.state = "BOUND",
             at = "refused" => \E a \in answers' : a.key[1] = call[w].msg
      PROVE  call' \in [Workers -> CallRows] /\ CallsFit'
  <2> DEFINE d == [call[w] EXCEPT !.at = at]
  <2>1. d \in CallRows
    BY <1>1, ReadTyped DEF Locations
  <2>2. Moves(w, d)
    BY <1>1, <1>3 DEF Goto, Moves
  <2>3. Put(w, d)
    BY <1>1, <2>1, <2>2, MovesTyped
  <2>4. /\ call'[w].at = at /\ call'[w].state = call[w].state
        /\ call'[w].why = call[w].why /\ call'[w].bound = call[w].bound
        /\ call'[w].msg = call[w].msg
    BY <1>1, <2>3 DEF Put, CallRows
  <2> HIDE DEF d
  <2>5. at \in {"ack", "nack"} => Knows(call[w])'
    BY <1>3, <2>4 DEF Inv, CallsFit, Fits, Answering, Knows, Onward
  <2>6. call[w].bound => effect'.state = "SUCCEEDED"
    BY DEF Inv, CallsFit, Fits, Asking, Onward
  <2>7. Fits(call[w])'
    BY <1>3, <2>4, <2>5, <2>6 DEF Fits, Doing, Reconciling, Asking, Answering
  <2> QED BY <2>3, <2>7, OthersFit DEF Put, Inv
<1>4. CASE call[w].at = "tell" /\ Goto(w, "nack")
  BY <1>3, <1>4
<1>5. CASE /\ call[w].at = "tell" /\ Goto(w, "ack")
           /\ call[w].state = "SUCCEEDED" => item'.state = "BOUND"
  BY <1>3, <1>5
<1>6. CASE /\ call[w].at = "refuse" /\ Goto(w, "refused")
           /\ \E a \in answers' : a.key[1] = call[w].msg
  BY <1>3, <1>6
<1> QED BY <1>2, <1>4, <1>5, <1>6

\* The work item is told (reconciliation.py:73-111 and saga.py:156-176).
LEMMA TellStep == ASSUME Inv, NEW w \in Workers, Tell(w) PROVE Inv'
<1> DEFINE key == Key(call[w])
           word == Word(call[w])
           rev == call[w].rev
           failed == \/ call[w].at = "tell" /\ Goto(w, "nack")
                     \/ call[w].at = "refuse" /\ Leave(w)
<1>1. /\ UNCHANGED <<records, gitlab, edits>> /\ (Fault \/ UNCHANGED faults)
      /\ call[w].at \in {"refuse", "tell"}
  BY DEF Tell
<1>2. /\ rev \in Nat /\ inbox \in [Messages -> InboxStates] /\ edits \in Nat
      /\ item \in Items /\ answers \subseteq Answers
  BY DEF Inv, TypeOK, CallRows
<1>3. \/ /\ Accepts(key, rev, word) /\ Record(key, rev, word)
         /\ \/ call[w].at = "tell" /\ Goto(w, "ack")
            \/ call[w].at = "refuse" /\ Goto(w, "refused")
            \/ failed
      \/ failed /\ UNCHANGED work
  BY <1>1 DEF Tell
<1>4. UNCHANGED <<effect, binding, gitlab, inbox, edits>> /\ faults' \in Nat
  BY <1>1, FaultTyped DEF records, Inv
<1>5. CASE failed /\ UNCHANGED work
  <2>1. UNCHANGED <<item, answers>>
    BY <1>5 DEF work
  <2>2. Onward
    BY <1>4, <2>1 DEF Onward, Started, gitlab
  <2>3. call' \in [Workers -> CallRows] /\ CallsFit'
    BY <1>1, <1>5, <2>2, ToldFits
  <2>4. NoRequestDropped'
    BY <1>4, <2>1 DEF Inv, Rows, NoRequestDropped
  <2>5. /\ item.state = "BOUND" => effect.state = "SUCCEEDED" /\ item.sha = binding
        /\ (\E a \in answers : a.key = <<NoMessage, "READY">>) => item.state = "BOUND"
    BY DEF Inv, Rows, BoundAgrees, RowsFit, Used
  <2> QED BY <1>2, <1>4, <2>1, <2>3, <2>4, <2>5, WorkStep
<1>6. ASSUME Accepts(key, rev, word), Record(key, rev, word),
             \/ call[w].at = "tell" /\ Goto(w, "ack")
             \/ call[w].at = "refuse" /\ Goto(w, "refused")
             \/ failed
      PROVE  Inv'
  <2> HIDE DEF key, word, rev
  <2>1. /\ key \in Keys /\ word.state \in {"BLOCKED", "BOUND"}
        /\ word.why \in Reasons \cup {"NONE"} /\ word.sha \in Commits \cup {NoCommit}
        /\ key = <<NoMessage, "READY">> => word.state = "BOUND"
        /\ call[w].at = "tell" /\ call[w].state = "SUCCEEDED" => key = <<NoMessage, "READY">>
        /\ word.state = "BOUND" => effect.state = "SUCCEEDED" /\ word.sha = binding
        /\ call[w].at = "refuse" => key[1] = call[w].msg
    BY <1>1, WordTyped DEF key, word
  <2>2. /\ item' \in Items /\ answers' \subseteq Answers
        /\ answers \subseteq answers' /\ \E a \in answers' : a.key = key
        /\ item.state = "BOUND" => item' = item
        /\ item'.state = "BOUND" => effect.state = "SUCCEEDED" /\ item'.sha = binding
        /\ (\E a \in answers' : a.key = <<NoMessage, "READY">>) => item'.state = "BOUND"
        /\ key = <<NoMessage, "READY">> => item'.state = "BOUND"
    BY <1>2, <1>6, <2>1, AcceptedKeeps
  <2>3. Onward
    BY <1>4, <2>2 DEF Onward, Started, gitlab
  <2>4. call[w].at = "refuse" => \E a \in answers' : a.key[1] = call[w].msg
    BY <2>1, <2>2
  <2>5. call[w].at = "tell" /\ call[w].state = "SUCCEEDED" => item'.state = "BOUND"
    BY <2>1, <2>2
  <2>6. call' \in [Workers -> CallRows] /\ CallsFit'
    BY <1>1, <1>6, <2>3, <2>4, <2>5, ToldFits
  <2>7. NoRequestDropped'
    BY <1>4, <2>2 DEF Inv, Rows, NoRequestDropped
  <2>8. inbox' \in [Messages -> InboxStates] /\ edits' \in Nat
    BY <1>2, <1>4
  <2> QED BY <1>4, <2>2, <2>6, <2>7, <2>8, WorkStep
<1> QED BY <1>3, <1>5, <1>6

\* A new owner, and with it perhaps a new request (requirement planning.py:272-365).
LEMMA AssignStep == ASSUME Inv, Assign PROVE Inv'
<1>1. UNCHANGED <<effect, binding, answers, gitlab, call, faults>> /\ Edit
  BY DEF Assign
<1>2. /\ item \in Items /\ answers \subseteq Answers /\ edits \in Nat /\ faults \in Nat
      /\ inbox \in [Messages -> InboxStates] /\ call \in [Workers -> CallRows]
  BY DEF Inv, TypeOK
<1>3. /\ item' \in Items /\ item'.sha = item.sha
      /\ item'.state = "BOUND" <=> item.state = "BOUND"
  <2> DEFINE blocked == item.state = "BLOCKED" /\ item.why \in OwnerBlocks
             state == IF blocked THEN "WAITING" ELSE item.state
             why == IF blocked THEN "NONE" ELSE item.why
  <2>1. item' = [item EXCEPT !.owned = TRUE, !.rev = @ + 1, !.state = state, !.why = why]
    BY DEF Assign
  <2>2. /\ state \in {"WAITING", "BLOCKED", "BOUND"} /\ why \in Reasons \cup {"NONE"}
        /\ item.rev + 1 \in Nat /\ (state = "BOUND" <=> item.state = "BOUND")
    BY <1>2 DEF Items
  <2> HIDE DEF state, why
  <2> QED BY <1>2, <2>1, <2>2 DEF Items
<1>4. \/ inbox' = inbox
      \/ \E m \in Messages : inbox[m] = "ABSENT" /\ inbox' = [inbox EXCEPT ![m] = "SENT"]
  BY DEF Assign
<1>5. inbox' \in [Messages -> InboxStates]
  BY <1>2, <1>4 DEF InboxStates
<1>6. NoRequestDropped'
  <2> SUFFICES ASSUME NEW n \in Messages, inbox'[n] = "PROCESSED"
               PROVE  \/ effect.state \notin {"NONE", "PLANNED"}
                      \/ \E a \in answers : a.key[1] = n
    BY <1>1 DEF NoRequestDropped
  <2>1. inbox[n] = "PROCESSED"
    BY <1>2, <1>4
  <2> QED BY <2>1 DEF Inv, Rows, NoRequestDropped
<1>7. Onward
  BY <1>1, <1>3 DEF Onward, Started, gitlab
<1>8. CallsFit' /\ call' \in [Workers -> CallRows]
  BY <1>1, <1>2, <1>7, AllFit DEF Inv
<1>9. /\ item.state = "BOUND" => effect.state = "SUCCEEDED" /\ item.sha = binding
      /\ (\E a \in answers : a.key = <<NoMessage, "READY">>) => item.state = "BOUND"
  BY DEF Inv, Rows, BoundAgrees, RowsFit, Used
<1>10. edits' \in Nat
  BY <1>1, <1>2 DEF Edit
<1> QED BY <1>1, <1>2, <1>3, <1>5, <1>6, <1>8, <1>9, <1>10, WorkStep
-----------------------------------------------------------------------------
(* The invariant.                                                          *)

\* The first request of a work item: nothing is planned, bound or told.
LEMMA InitInv == Init => Inv
<1> SUFFICES ASSUME Init PROVE Inv
  OBVIOUS
<1>1. effect \in Effects
  BY DEF Init, Effects, EffectStates, Errors
<1>2. item \in Items
  BY DEF Init, Items
<1>3. inbox \in [Messages -> InboxStates]
  BY DEF Init, InboxStates
<1>4. call \in [Workers -> CallRows]
  BY IdleTyped DEF Init
<1>5. TypeOK
  BY <1>1, <1>2, <1>3, <1>4 DEF Init, TypeOK
<1>6. CallsFit
  BY DEF Init, CallsFit, IdleCall, Fits, Doing, Reconciling, Asking, Answering
<1>7. RowsFit
  BY DEF Init, RowsFit, Used, Started, Unsettled, Final
<1>8. BindingIsProved /\ BoundAgrees /\ AckedIsTrue
  BY DEF Init, BindingIsProved, BoundAgrees, AckedIsTrue
<1>9. NoRequestDropped
  BY DEF Init, NoRequestDropped
<1> QED BY <1>5, <1>6, <1>7, <1>8, <1>9 DEF Inv, Rows

\* Nothing moves: a stuttering step.
LEMMA StutterInv == Inv /\ UNCHANGED vars => Inv'
<1> SUFFICES ASSUME Inv, UNCHANGED vars PROVE Inv'
  OBVIOUS
<1>1. UNCHANGED <<records, work, gitlab, edits>> /\ UNCHANGED <<call, faults>>
  BY DEF vars
<1>2. CallsFit'
  BY <1>1, StillOnward, AllFit DEF Inv
<1>3. /\ branch' = branch /\ transit' = transit /\ edits' = edits
      /\ UNCHANGED <<records, work>>
  BY <1>1 DEF gitlab
<1>4. /\ branch \in Commits \cup {NoCommit} /\ transit \in BOOLEAN /\ edits \in Nat
      /\ faults \in Nat /\ call \in [Workers -> CallRows] /\ (transit => Started)
  BY DEF Inv, TypeOK, Rows, RowsFit
<1> QED BY <1>1, <1>2, <1>3, <1>4, GitLabStep

\* Every transaction, call and request of the saga, of the reconciler and of the
\* systems around them keeps the invariant.
LEMMA NextInv == Inv /\ [Next]_vars => Inv'
<1> SUFFICES ASSUME Inv, [Next]_vars PROVE Inv'
  OBVIOUS
<1>1. ASSUME NEW w \in Workers, Work(w) PROVE Inv'
  BY <1>1, ReadContextStep, ReadBindingStep, ReadEffectStep, SeenStep, CheckStep,
     RefusedStep, PlanStep, StartStep, PostStep, ReadBackStep, SupersededStep,
     SucceedStep, BlockStep, DoubtStep, ObserveStep, TellStep, MarkStep
  DEF Work
<1>2. ASSUME NEW w \in Workers, TakeEffect(w) \/ Replay(w) \/ Crash(w) PROVE Inv'
  BY <1>2, TakeEffectStep, ReplayStep, CrashStep
<1>3. ASSUME NEW w \in Workers, NEW m \in Messages, TakeRequest(w, m) PROVE Inv'
  BY <1>3, TakeRequestStep
<1>4. ASSUME NEW m \in Messages, Relay(m) \/ LapseInbox(m) PROVE Inv'
  BY <1>4, MessageStep
<1>5. CASE Late \/ FallDue \/ Assign \/ Push
  BY <1>5, LateStep, FallDueStep, AssignStep, PushStep
<1>6. CASE UNCHANGED vars
  BY <1>6, StutterInv
<1> QED BY <1>1, <1>2, <1>3, <1>4, <1>5, <1>6 DEF Next

\* The saga keeps its rows, its workers' locals and the work item in step, for
\* every number of workers, messages and faults.
THEOREM Consistent == Spec => []Inv
  BY InitInv, NextInv, PTL DEF Spec

\* The type invariant of the saga.
THEOREM Typed == Spec => []TypeOK
<1>1. Inv => TypeOK
  BY DEF Inv
<1> QED BY <1>1, Consistent, PTL

\* A binding is the planned commit of a succeeded effect and its branch exists
\* (saga.py:612-640).
THEOREM BindingAlwaysProved == Spec => []BindingIsProved
<1>1. Inv => BindingIsProved
  BY DEF Inv, Rows
<1> QED BY <1>1, Consistent, PTL

\* The work item is bound only to what source_control has proved.
THEOREM BoundAlwaysAgrees == Spec => []BoundAgrees
<1>1. Inv => BoundAgrees
  BY DEF Inv, Rows
<1> QED BY <1>1, Consistent, PTL

\* An acknowledged success is one the work item shows.
THEOREM AckedAlwaysTrue == Spec => []AckedIsTrue
<1>1. Inv => AckedIsTrue
  BY DEF Inv, Rows
<1> QED BY <1>1, Consistent, PTL

\* No request leaves the inbox unanswered.
THEOREM NoRequestEverDropped == Spec => []NoRequestDropped
<1>1. Inv => NoRequestDropped
  BY DEF Inv, Rows
<1> QED BY <1>1, Consistent, PTL
-----------------------------------------------------------------------------
(* What a step changes, and with it the action properties.                 *)

Same == effect'.base = effect.base /\ effect'.state = effect.state /\ binding' = binding
Planned ==
  /\ effect.base = NoCommit /\ effect'.base \in Commits
  /\ {effect.state, effect'.state} \cap Final = {} /\ binding' = binding
Tried ==
  /\ effect'.base = effect.base
  /\ {effect.state, effect'.state} \cap Final = {} /\ binding' = binding
Settled ==
  /\ effect'.base = effect.base /\ effect.base # NoCommit /\ effect.state \notin Final
  /\ effect'.state \in Final
  /\ effect'.state = "SUCCEEDED" => branch # NoCommit

Answered ==
  /\ item.state = "BOUND" => item'.state = "BOUND" /\ item'.sha = item.sha
  /\ \/ item'.state = item.state
     \/ item'.state = "BOUND" /\ effect.state = "SUCCEEDED"
     \/ {item.state, item'.state} = {"WAITING", "BLOCKED"}

Sent ==
  /\ branch # NoCommit => branch' # NoCommit
  /\ branch = NoCommit /\ branch' # NoCommit => Started /\ branch' = effect.base

\* A step changes the effect, or what the work item says, or the branch.
Steps ==
  \/ (Same \/ Planned \/ Tried \/ Settled) /\ item' = item /\ branch' = branch
  \/ Same /\ Answered /\ branch' = branch
  \/ Same /\ item' = item /\ Sent

\* The steps that write the effect (adapters/sqlalchemy.py:231-378).
LEMMA EffectMoves ==
  ASSUME Inv, NEW w \in Workers,
         \/ Plan(w) \/ Start(w) \/ Succeed(w) \/ Block(w) \/ Doubt(w)
         \/ TakeEffect(w) \/ Mark(w)
  PROVE  Steps
<1>1. effect \in Effects
  BY DEF Inv, TypeOK
<1>2. UNCHANGED <<work, gitlab>>
  BY DEF Plan, Start, Succeed, Block, Doubt, TakeEffect, Mark
<1>3. item' = item /\ branch' = branch
  BY <1>2 DEF work, gitlab
<1>4. ASSUME Plan(w) PROVE Same \/ Planned
  <2>1. call[w].base \in Commits
    BY <1>4 DEF Plan, Inv, CallsFit, Fits, Doing
  <2>2. effect.state = "NONE" <=> effect.base = NoCommit
    BY DEF Inv, Rows, RowsFit
  <2>3. CASE effect.state = "NONE"
    <3>1. effect' = [effect EXCEPT !.state = "PLANNED", !.base = call[w].base]
          /\ binding' = binding
      BY <1>4, <2>3 DEF Plan
    <3>2. effect'.state = "PLANNED" /\ effect'.base = call[w].base
      BY <1>1, <3>1 DEF Effects
    <3> QED BY <2>1, <2>2, <2>3, <3>1, <3>2 DEF Planned, Final
  <2>4. CASE effect.state # "NONE"
    BY <1>4, <2>4 DEF Plan, Same
  <2> QED BY <2>3, <2>4
<1>5. ASSUME Start(w) PROVE Same \/ Tried
  <2>1. CASE effect.state = "PLANNED"
    <3>1. effect' = [effect EXCEPT !.state = "IN_FLIGHT", !.due = FALSE,
                                   !.tries = call[w].tries + 1]
          /\ binding' = binding
      BY <1>5, <2>1 DEF Start
    <3>2. effect'.state = "IN_FLIGHT" /\ effect'.base = effect.base
      BY <1>1, <3>1 DEF Effects
    <3> QED BY <2>1, <3>1, <3>2 DEF Tried, Final
  <2>2. CASE effect.state # "PLANNED"
    BY <1>5, <2>2 DEF Start, Same
  <2> QED BY <2>1, <2>2
<1>6. ASSUME Succeed(w) \/ Block(w) PROVE Settled
  <2>1. call[w].at = "settle" /\ Current(w)
    BY <1>6 DEF Succeed, Block
  <2>2. /\ effect.state \in {"IN_FLIGHT", "RECONCILIATION"} /\ effect.base # NoCommit
        /\ call[w].why = "VERIFIED" => branch # NoCommit
    BY <2>1, SettlingKnows, NoneAssumption
  <2>3. /\ effect'.base = effect.base /\ effect'.state \in Final
        /\ effect'.state = "SUCCEEDED" => call[w].why = "VERIFIED"
    BY <1>1, <1>6 DEF Succeed, Block, Outcome, Effects, Final
  <2> QED BY <2>2, <2>3 DEF Settled, Final
<1>7. ASSUME Doubt(w) \/ TakeEffect(w) PROVE Tried
  <2>1. effect.state \notin Final
    BY <1>7, SettlingKnows DEF Doubt, TakeEffect, Unsettled, Final
  <2>2. effect'.base = effect.base /\ effect'.state \in Unsettled /\ binding' = binding
    BY <1>1, <1>7 DEF Doubt, TakeEffect, Effects, Unsettled
  <2> QED BY <2>1, <2>2 DEF Tried, Unsettled, Final
<1>8. ASSUME Mark(w) PROVE Same
  BY <1>1, <1>8 DEF Mark, Same, Effects
<1> QED BY <1>3, <1>4, <1>5, <1>6, <1>7, <1>8 DEF Steps

\* The step that tells the work item (requirement commands.py:511-735).
LEMMA ItemMoves ==
  ASSUME Inv, NEW w \in Workers, Tell(w)
  PROVE  Steps
<1>1. item \in Items
  BY DEF Inv, TypeOK
<1>2. effect' = effect /\ binding' = binding /\ branch' = branch
  BY DEF Tell, records, gitlab
<1>3. Answered
  <2> DEFINE key == Key(call[w])
             word == Word(call[w])
             rev == call[w].rev
  <2>1. call[w].at \in {"refuse", "tell"} /\ rev \in Nat
    BY DEF Tell, Inv, TypeOK, CallRows
  <2>2. item' = item \/ (Accepts(key, rev, word) /\ Record(key, rev, word))
    BY DEF Tell, work
  <2> HIDE DEF key, word, rev
  <2>3. /\ key \in Keys /\ word.state \in {"BLOCKED", "BOUND"}
        /\ word.why \in Reasons \cup {"NONE"} /\ word.sha \in Commits \cup {NoCommit}
        /\ key = <<NoMessage, "READY">> => word.state = "BOUND"
        /\ word.state = "BOUND" => effect.state = "SUCCEEDED" /\ word.sha = binding
    BY <2>1, WordTyped DEF key, word
  <2>4. \/ item' = item
        \/ /\ item.state = "BOUND" => item' = item
           /\ item' = item \/ item'.state \in {"BLOCKED", "BOUND"}
           /\ item'.state = "BOUND" => effect.state = "SUCCEEDED"
    BY <2>1, <2>2, <2>3, AcceptedKeeps
  <2>5. item.state \in {"WAITING", "BLOCKED", "BOUND"}
    BY <1>1 DEF Items
  <2> QED BY <2>4, <2>5 DEF Answered
<1> QED BY <1>2, <1>3 DEF Steps, Same

\* The steps of a worker that read, or write to GitLab or to the inbox.
LEMMA OtherMoves ==
  ASSUME Inv, NEW w \in Workers,
         \/ Post(w) \/ ReadContext(w) \/ ReadBinding(w) \/ ReadEffect(w) \/ Seen(w)
         \/ Check(w) \/ Refused(w) \/ ReadBack(w) \/ Superseded(w) \/ Observe(w)
         \/ Replay(w) \/ Crash(w) \/ \E m \in Messages : TakeRequest(w, m)
  PROVE  Steps
<1>1. effect' = effect /\ binding' = binding /\ item' = item
  BY DEF Post, ReadContext, ReadBinding, ReadEffect, Seen, Check, Refused,
         ReadBack, Superseded, Observe, Replay, Crash, TakeRequest, records, work
<1>2. branch' = branch \/ (Post(w) /\ Arrive)
  BY DEF Post, ReadContext, ReadBinding, ReadEffect, Seen, Check, Refused,
         ReadBack, Superseded, Observe, Replay, Crash, TakeRequest, gitlab
<1>3. Post(w) => Started
  BY DEF Post, Inv, CallsFit, Fits, Doing
<1>4. Started /\ Arrive => Sent
  BY ArriveTyped, NoneAssumption DEF Sent, Arrive
<1> QED BY <1>1, <1>2, <1>3, <1>4 DEF Steps, Same, Sent

\* The steps of no worker: requests, deadlines, owners and pushes.
LEMMA WorldMoves ==
  ASSUME Inv, \/ Late \/ FallDue \/ Assign \/ Push
              \/ \E m \in Messages : Relay(m) \/ LapseInbox(m)
  PROVE  Steps
<1>1. effect \in Effects /\ item \in Items
  BY DEF Inv, TypeOK
<1>2. CASE Late
  <2>1. Started /\ Arrive /\ effect' = effect /\ binding' = binding /\ item' = item
    BY <1>2 DEF Late, Inv, Rows, RowsFit, records, work
  <2>2. Sent
    BY <2>1, ArriveTyped, NoneAssumption DEF Sent, Arrive
  <2> QED BY <2>1, <2>2 DEF Steps, Same
<1>3. CASE FallDue
  BY <1>1, <1>3 DEF FallDue, Steps, Same, Effects, work, gitlab
<1>4. CASE Assign
  <2> DEFINE blocked == item.state = "BLOCKED" /\ item.why \in OwnerBlocks
             why == IF blocked THEN "NONE" ELSE item.why
             state == IF blocked THEN "WAITING" ELSE item.state
  <2>1. item' = [item EXCEPT !.owned = TRUE, !.rev = @ + 1, !.state = state, !.why = why]
    BY <1>4 DEF Assign
  <2>2. state = item.state \/ (item.state = "BLOCKED" /\ state = "WAITING")
    OBVIOUS
  <2> HIDE DEF state, why
  <2>3. item'.state = state /\ item'.sha = item.sha
    BY <1>1, <2>1 DEF Items
  <2>4. effect' = effect /\ binding' = binding /\ branch' = branch
    BY <1>4 DEF Assign, gitlab
  <2> QED BY <2>2, <2>3, <2>4 DEF Steps, Same, Answered
<1>5. CASE Push
  BY <1>5, NoneAssumption DEF Push, Steps, Same, Sent, records, work
<1>6. CASE \E m \in Messages : Relay(m) \/ LapseInbox(m)
  BY <1>6 DEF Relay, LapseInbox, Steps, Same, Sent, work, gitlab
<1> QED BY <1>2, <1>3, <1>4, <1>5, <1>6

\* Every step of the saga changes at most one of these, in these ways.
LEMMA NextMoves == Inv /\ [Next]_vars => Steps
<1> SUFFICES ASSUME Inv, [Next]_vars PROVE Steps
  OBVIOUS
<1>1. ASSUME NEW w \in Workers, Work(w) PROVE Steps
  BY <1>1, EffectMoves, ItemMoves, OtherMoves DEF Work
<1>2. ASSUME NEW w \in Workers, \/ TakeEffect(w) \/ Replay(w) \/ Crash(w)
                                \/ \E m \in Messages : TakeRequest(w, m)
      PROVE  Steps
  BY <1>2, EffectMoves, OtherMoves
<1>3. CASE \/ Late \/ FallDue \/ Assign \/ Push
           \/ \E m \in Messages : Relay(m) \/ LapseInbox(m)
  BY <1>3, WorldMoves
<1>4. CASE UNCHANGED vars
  BY <1>4 DEF vars, records, work, gitlab, Steps, Same
<1> QED BY <1>1, <1>2, <1>3, <1>4 DEF Next

\* Nothing reaches GitLab that was not committed as in flight before.
THEOREM NothingEverUnrecorded == Spec => NothingUnrecorded
<1>1. Steps => (branch = NoCommit /\ branch' # NoCommit
                  => effect.state \in Unsettled \cup Final /\ branch' = effect.base)
  BY DEF Steps, Sent, Started
<1>2. Inv /\ [Next]_vars =>
        [branch = NoCommit /\ branch' # NoCommit
           => effect.state \in Unsettled \cup Final /\ branch' = effect.base]_vars
  BY <1>1, NextMoves
<1> QED BY <1>2, Consistent, PTL DEF Spec, NothingUnrecorded

\* An outcome, once written, stands (adapters/sqlalchemy.py:292-346).
THEOREM OutcomeAlwaysFinal == Spec => OutcomeIsFinal
<1>1. Steps => (effect.state \in Final => effect'.state = effect.state /\ binding' = binding)
  BY DEF Steps, Same, Planned, Tried, Settled
<1>2. Inv /\ [Next]_vars =>
        [effect.state \in Final => effect'.state = effect.state /\ binding' = binding]_vars
  BY <1>1, NextMoves
<1> QED BY <1>2, Consistent, PTL DEF Spec, OutcomeIsFinal

\* A bound work item stays bound to the same commit.
THEOREM BoundForever == Spec => BoundStaysBound
<1>1. Steps => (item.state = "BOUND" => item'.state = "BOUND" /\ item'.sha = item.sha)
  BY DEF Steps, Answered
<1>2. Inv /\ [Next]_vars =>
        [item.state = "BOUND" => item'.state = "BOUND" /\ item'.sha = item.sha]_vars
  BY <1>1, NextMoves
<1> QED BY <1>2, Consistent, PTL DEF Spec, BoundStaysBound
-----------------------------------------------------------------------------
(* The refinement.                                                         *)

\* The first request starts from an empty contract.
LEMMA ContractInit == Init => Contract!Init
  BY DEF Init, Contract!Init, verdict, Final

\* Each step of the saga is a step of the contract or none.
LEMMA ContractNext == Inv /\ [Next]_vars => [Contract!Next]_(Contract!contract)
<1> SUFFICES ASSUME Inv, Steps PROVE Contract!Next \/ UNCHANGED Contract!contract
  BY NextMoves
<1>1. /\ item.state \in {"WAITING", "BLOCKED", "BOUND"}
      /\ effect.base \in Commits \cup {NoCommit}
  BY DEF Inv, TypeOK, Items, Effects
<1>2. Started => effect.base # NoCommit
  BY DEF Inv, Rows, RowsFit, Started, Unsettled, Final
<1>3. ASSUME Same \/ Planned \/ Tried \/ Settled, item' = item, branch' = branch
      PROVE  Contract!Next \/ UNCHANGED Contract!contract
  <2>1. CASE Same
    BY <1>3, <2>1 DEF Same, Contract!contract, verdict
  <2>2. CASE Planned
    <3>1. verdict = "OPEN" /\ verdict' = "OPEN"
      BY <2>2 DEF Planned, verdict
    <3>2. Contract!Choose
      BY <1>3, <2>2, <3>1 DEF Planned, Contract!Choose
    <3> QED BY <3>2 DEF Contract!Next
  <2>3. CASE Tried
    BY <1>3, <2>3 DEF Tried, Contract!contract, verdict
  <2>4. CASE Settled
    <3>1. verdict = "OPEN" /\ verdict' = effect'.state /\ effect'.state \in Final
      BY <2>4 DEF Settled, verdict
    <3>2. CASE effect'.state = "SUCCEEDED"
      <4>1. Contract!Prove
        BY <1>3, <2>4, <3>1, <3>2 DEF Settled, Contract!Prove
      <4> QED BY <4>1 DEF Contract!Next
    <3>3. CASE effect'.state = "BLOCKED"
      <4>1. Contract!Refuse
        BY <1>3, <2>4, <3>1, <3>3 DEF Settled, Contract!Refuse
      <4> QED BY <4>1 DEF Contract!Next
    <3> QED BY <3>1, <3>2, <3>3 DEF Final
  <2> QED BY <1>3, <2>1, <2>2, <2>3, <2>4
<1>4. ASSUME Same, Answered, branch' = branch
      PROVE  Contract!Next \/ UNCHANGED Contract!contract
  <2>1. effect'.base = effect.base /\ verdict' = verdict
    BY <1>4 DEF Same, verdict
  <2>2. CASE item'.state = item.state
    BY <1>4, <2>1, <2>2 DEF Contract!contract
  <2>3. CASE item'.state = "BOUND" /\ effect.state = "SUCCEEDED" /\ item.state # "BOUND"
    <3>1. verdict = "SUCCEEDED"
      BY <2>3 DEF verdict, Final
    <3>2. Contract!Bind
      BY <1>4, <2>1, <2>3, <3>1 DEF Contract!Bind
    <3> QED BY <3>2 DEF Contract!Next
  <2>4. CASE item.state = "WAITING" /\ item'.state = "BLOCKED"
    <3>1. Contract!Hinder
      BY <1>4, <2>1, <2>4 DEF Contract!Hinder
    <3> QED BY <3>1 DEF Contract!Next
  <2>5. CASE item.state = "BLOCKED" /\ item'.state = "WAITING"
    <3>1. Contract!Reopen
      BY <1>4, <2>1, <2>5 DEF Contract!Reopen
    <3> QED BY <3>1 DEF Contract!Next
  <2> QED BY <1>1, <1>4, <2>2, <2>3, <2>4, <2>5 DEF Answered
<1>5. ASSUME Same, item' = item, Sent
      PROVE  Contract!Next \/ UNCHANGED Contract!contract
  <2>1. effect'.base = effect.base /\ verdict' = verdict
    BY <1>5 DEF Same, verdict
  <2>2. CASE (branch' # NoCommit) = (branch # NoCommit)
    BY <1>5, <2>1, <2>2 DEF Contract!contract
  <2>3. CASE branch = NoCommit /\ branch' # NoCommit
    <3>1. effect.base # NoCommit
      BY <1>2, <1>5, <2>3 DEF Sent
    <3>2. Contract!Create
      BY <1>5, <2>1, <2>3, <3>1 DEF Contract!Create
    <3> QED BY <3>2 DEF Contract!Next
  <2> QED BY <1>5, <2>2, <2>3 DEF Sent
<1> QED BY <1>3, <1>4, <1>5 DEF Steps

\* The saga, its reconciler and the work item do together what BranchContract
\* says.
THEOREM Refinement == Spec => ImplementsBranchContract
  BY ContractInit, ContractNext, Consistent, PTL
  DEF Spec, ImplementsBranchContract, Contract!Spec
=============================================================================
