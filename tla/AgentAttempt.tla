----------------------------- MODULE AgentAttempt -----------------------------
(***************************************************************************)
(* An agent run of modules/agent with its attempt: the people who start,   *)
(* cancel and resume it, the events of its runner, and the workers that    *)
(* hand its commands to the orchestrator and reconcile what they do not    *)
(* know.  The orchestrator knows a command by its key and takes it once    *)
(* (WorkflowOrchestratorPort).                                             *)
(*                                                                         *)
(* A run has one attempt: no code makes a second.  A command of people is  *)
(* one transaction under the locks of run and attempt, but starting, which *)
(* reads the assignment before, and resuming, which also holds the locks   *)
(* of the requirement until it has committed.  A revision that does not    *)
(* match, and a key used before, change nothing.  A worker claims one      *)
(* command at a time; its token is the worker's name, since a worker whose *)
(* call is over has forgotten its claim.                                   *)
(***************************************************************************)
EXTENDS Naturals, Sequences

CONSTANTS
  Workers,        \* processes that dispatch and reconcile
  MaxAssignments, \* bound on the assignments of the work item
  MaxGeneration,  \* bound on the resumptions
  MaxClaims,      \* _MAX_CLAIMS
  MaxFaults,      \* bound on crashes, overruns and failures of the orchestrator
  NoWorker

ASSUME AttemptAssumption ==
  /\ MaxAssignments \in Nat /\ MaxGeneration \in Nat /\ MaxClaims \in Nat /\ MaxFaults \in Nat
  /\ NoWorker \notin Workers

VARIABLES
  run,       \* agent.agent_run: state and the assignment it was started for
  attempt,   \* agent.agent_attempt
  log,       \* agent.canonical_event, in the order of acceptance
  commands,  \* agent.workflow_command, by key
  assigned,  \* requirement: the current assignment of the work item
  request,   \* a start or resumption in flight
  orders,    \* the orchestrator's outcomes, by key
  call,      \* the locals of each worker
  faults

vars == <<run, attempt, log, commands, assigned, request, orders, call, faults>>
people == <<run, attempt, log, assigned, request>>
dispatch == <<commands, orders, call>>

Terminal == {"SUCCEEDED", "FAILED", "CANCELED", "TIMED_OUT"}
Active == {"QUEUED", "PROVISIONING", "RUNNING", "FINALIZING"}
States == Active \cup Terminal \cup {"WAITING_INPUT", "CANCELING"}

\* ALLOWED_TRANSITIONS, as far as events take them.
Follows(s) ==
  CASE s = "QUEUED"       -> {"PROVISIONING"}
    [] s = "PROVISIONING" -> {"RUNNING", "FAILED"}
    [] s = "RUNNING"      -> {"WAITING_INPUT", "FINALIZING"}
    [] s = "FINALIZING"   -> {"SUCCEEDED", "FAILED"}
    [] s = "CANCELING"    -> {"CANCELED", "TIMED_OUT"}
    [] OTHER              -> {}

Settled == {"DISPATCHED", "FAILED"}
\* The command key: its kind and the generation it starts, resumes or cancels.
Keys ==
  {<<"START", 1>>} \cup {"RESUME"} \X (2 .. MaxGeneration) \cup {"CANCEL"} \X (1 .. MaxGeneration)
Rows ==
  [state : {"PLANNED", "UNKNOWN"} \cup Settled, tries : 0 .. MaxClaims,
   holder : Workers \cup {NoWorker}, due : BOOLEAN]
Planned == [state |-> "PLANNED", tries |-> 0, holder |-> NoWorker, due |-> FALSE]
Calls ==
  [at : {"idle", "send", "look", "record"}, key : Keys, state : {"PLANNED", "UNKNOWN"},
   tries : 0 .. MaxClaims, next : {"PLANNED", "UNKNOWN"} \cup Settled]
Idle ==
  [at |-> "idle", key |-> <<"START", 1>>, state |-> "PLANNED", tries |-> 0, next |-> "PLANNED"]

\* The function f with the value v at k.
With(f, k, v) == [x \in DOMAIN f \cup {k} |-> IF x = k THEN v ELSE f[x]]

\* A run that is not there yet has generation 0.
TypeOK ==
  /\ run \in [state : {"NONE", "ACTIVE"} \cup Terminal, assignment : Nat]
  /\ attempt \in [state : States, gen : 0 .. MaxGeneration, seq : Nat, open : BOOLEAN]
  /\ log \in Seq([gen : 1 .. MaxGeneration, seq : Nat, state : States])
  /\ DOMAIN commands \subseteq Keys /\ commands \in [DOMAIN commands -> Rows]
  /\ assigned \in Nat
  /\ request \in [at : {"none", "resolved", "locked", "protected", "committed"},
                  assignment : Nat]
  /\ DOMAIN orders \subseteq DOMAIN commands
  /\ orders \in [DOMAIN orders -> {"ACCEPTED", "REJECTED"}]
  /\ call \in [Workers -> Calls]
  /\ \A w \in Workers : call[w].at # "idle" => call[w].key \in DOMAIN commands
  /\ faults \in Nat

Init ==
  /\ run = [state |-> "NONE", assignment |-> 0] /\ assigned = 1
  /\ request = [at |-> "none", assignment |-> 0]
  /\ attempt = [state |-> "QUEUED", gen |-> 0, seq |-> 0, open |-> FALSE]
  /\ log = <<>> /\ commands = <<>> /\ orders = <<>>
  /\ call = [w \in Workers |-> Idle]
  /\ faults = 0

Fault == faults < MaxFaults /\ faults' = faults + 1
-----------------------------------------------------------------------------
(* Starting a run.                                                         *)

\* The assignment is read in a transaction of the requirement, and not held.
Resolve ==
  /\ run.state = "NONE" /\ request.at = "none"
  /\ request' = [at |-> "resolved", assignment |-> assigned]
  /\ UNCHANGED <<run, attempt, log, assigned, dispatch, faults>>

Start ==
  /\ request.at = "resolved" /\ MaxGeneration > 0
  /\ run' = [state |-> "ACTIVE", assignment |-> request.assignment]
  /\ attempt' = [state |-> "QUEUED", gen |-> 1, seq |-> 1, open |-> FALSE]
  /\ log' = <<[gen |-> 1, seq |-> 1, state |-> "QUEUED"]>>
  /\ commands' = With(commands, <<"START", 1>>, Planned)
  /\ request' = [request EXCEPT !.at = "none"]
  /\ UNCHANGED <<assigned, orders, call, faults>>
-----------------------------------------------------------------------------
(* What the runner reports.                                                *)

\* The locks of run and attempt are free.
Unlocked == request.at \notin {"locked", "protected"}

Accepted(g, s, t) ==
  /\ attempt' = [attempt EXCEPT !.state = t, !.seq = s,
                                !.open = (t = "WAITING_INPUT" \/ attempt.open)]
  /\ log' = Append(log, [gen |-> g, seq |-> s, state |-> t])
  /\ run' = [run EXCEPT !.state = IF t \in Terminal THEN t ELSE run.state]
  /\ UNCHANGED <<assigned, request, dispatch, faults>>

\* Mutant: an event of a generation that was resumed since is taken.
AcceptLateEvent(g, s, t) ==
  /\ run.state # "NONE" /\ Unlocked
  /\ s = attempt.seq + 1 /\ t \in Follows(attempt.state)
  /\ Accepted(g, s, t)

\* An event that comes again, late, early or against the states changes nothing.
AcceptEvent(g, s, t) ==
  /\ run.state # "NONE" /\ Unlocked
  /\ g = attempt.gen /\ s = attempt.seq + 1 /\ t \in Follows(attempt.state)
  /\ Accepted(g, s, t)

PassDeadline ==
  /\ attempt.open /\ attempt' = [attempt EXCEPT !.open = FALSE]
  /\ UNCHANGED <<run, log, assigned, request, dispatch, faults>>
-----------------------------------------------------------------------------
(* Canceling and resuming.                                                 *)

Cancel ==
  /\ run.state # "NONE" /\ Unlocked
  /\ attempt.state \notin Terminal \cup {"CANCELING"}
  /\ attempt' = [attempt EXCEPT !.state = "CANCELING"]
  /\ commands' = With(commands, <<"CANCEL", attempt.gen>>, Planned)
  /\ UNCHANGED <<run, log, assigned, request, orders, call, faults>>

\* The first look at state and deadline, under the locks of run and attempt.
AskResume ==
  /\ run.state # "NONE" /\ request.at = "none"
  /\ attempt.state = "WAITING_INPUT" /\ attempt.open /\ attempt.gen < MaxGeneration
  /\ request' = [request EXCEPT !.at = "locked"]
  /\ UNCHANGED <<run, attempt, log, assigned, dispatch, faults>>

\* protect: the assignment is the run's and its owner eligible, and stays so while
\* the lock is held.
Protect ==
  /\ request.at = "locked"
  /\ \E at \in IF assigned = run.assignment THEN {"protected", "none"} ELSE {"none"} :
       request' = [request EXCEPT !.at = at]
  /\ UNCHANGED <<run, attempt, log, assigned, dispatch, faults>>

Resume ==
  /\ request.at = "protected"
  /\ IF attempt.open
     THEN LET g == attempt.gen + 1 IN
          /\ attempt' = [state |-> "QUEUED", gen |-> g, seq |-> 0, open |-> FALSE]
          /\ commands' = With(commands, <<"RESUME", g>>, Planned)
          /\ request' = [request EXCEPT !.at = "committed"]
     ELSE request' = [request EXCEPT !.at = "none"] /\ UNCHANGED <<attempt, commands>>
  /\ UNCHANGED <<run, log, assigned, orders, call, faults>>

Unprotect ==
  /\ request.at = "committed" /\ request' = [request EXCEPT !.at = "none"]
  /\ UNCHANGED <<run, attempt, log, assigned, dispatch, faults>>

\* The process dies; its transactions roll back and its locks go.
Abandon ==
  /\ request.at # "none" /\ Fault /\ request' = [request EXCEPT !.at = "none"]
  /\ UNCHANGED <<run, attempt, log, assigned, dispatch>>

\* Mutant: the check of the assignment holds no lock.
AssignUnlocked ==
  /\ assigned < MaxAssignments /\ assigned' = assigned + 1
  /\ UNCHANGED <<run, attempt, log, request, dispatch, faults>>

\* assign_work_item of the requirement module, which waits for its locks and makes a
\* new assignment.
Assign ==
  /\ request.at \notin {"protected", "committed"}
  /\ assigned < MaxAssignments /\ assigned' = assigned + 1
  /\ UNCHANGED <<run, attempt, log, request, dispatch, faults>>
-----------------------------------------------------------------------------
(* Handing commands to the orchestrator.                                   *)

Moves(w, c) == call' = [call EXCEPT ![w] = c]
Row(w) == commands[call[w].key]

Claims(w, k, at, tries) ==
  /\ call[w].at = "idle"
  /\ commands' = [commands EXCEPT ![k].tries = tries, ![k].holder = w, ![k].due = FALSE]
  /\ Moves(w, [Idle EXCEPT !.at = at, !.key = k, !.state = commands[k].state, !.tries = tries])
  /\ UNCHANGED <<people, orders, faults>>

ClaimDispatch(w, k) ==
  /\ commands[k].state = "PLANNED" /\ commands[k].holder = NoWorker
  /\ commands[k].tries < MaxClaims
  /\ Claims(w, k, "send", commands[k].tries + 1)

\* Mutant: a claim whose worker died is not taken over.
ClaimUnheldOnly(w, k) ==
  LET r == commands[k] IN
  /\ r.state = "UNKNOWN" /\ r.holder = NoWorker /\ r.tries < MaxClaims
  /\ Claims(w, k, "look", r.tries + 1)

\* What nobody holds and is not known counts as a try; a claim that lapsed does not.
ClaimReconcile(w, k) ==
  LET r == commands[k] IN
  \/ /\ r.state = "UNKNOWN" /\ r.holder = NoWorker /\ r.tries < MaxClaims
     /\ Claims(w, k, "look", r.tries + 1)
  \/ /\ r.state \in {"PLANNED", "UNKNOWN"} /\ r.holder # NoWorker /\ r.due
     /\ Claims(w, k, "look", r.tries)

Records(w, next) == Moves(w, [call[w] EXCEPT !.at = "record", !.next = next])
Outcome(k) == IF orders[k] = "ACCEPTED" THEN "DISPATCHED" ELSE "FAILED"

\* The call did not leave the process: the command stays planned below the bound.
FailBeforeCall(w) ==
  /\ call[w].at = "send" /\ Fault
  /\ Records(w, IF call[w].tries < MaxClaims THEN "PLANNED" ELSE "UNKNOWN")
  /\ UNCHANGED <<people, commands, orders>>

FailUnseen(w) ==
  /\ call[w].at = "send" /\ Fault /\ Records(w, "UNKNOWN")
  /\ UNCHANGED <<people, commands, orders>>

\* The orchestrator answers a key it knows as before; the answer may be lost.
Send(w) ==
  /\ call[w].at = "send"
  /\ \E o \in IF call[w].key \in DOMAIN orders THEN {orders[call[w].key]}
              ELSE {"ACCEPTED", "REJECTED"} :
       /\ orders' = With(orders, call[w].key, o)
       /\ \/ Fault /\ Records(w, "UNKNOWN")
          \/ UNCHANGED faults /\ Records(w, IF o = "ACCEPTED" THEN "DISPATCHED" ELSE "FAILED")
  /\ UNCHANGED <<people, commands>>

\* A key never seen is planned again if it was; one that may have been sent is not.
Lookup(w) ==
  /\ call[w].at = "look"
  /\ \/ /\ call[w].key \in DOMAIN orders
        /\ Records(w, Outcome(call[w].key)) /\ UNCHANGED faults
     \/ /\ call[w].key \notin DOMAIN orders
        /\ Records(w, IF call[w].tries < MaxClaims THEN call[w].state ELSE "UNKNOWN")
        /\ UNCHANGED faults
     \/ Fault /\ Records(w, "UNKNOWN")
  /\ UNCHANGED <<people, commands, orders>>

\* Mutant: the result is recorded without comparing state and claim.
RecordAnyway(w) ==
  /\ call[w].at = "record" /\ Moves(w, Idle)
  /\ commands' = [commands EXCEPT ![call[w].key] =
                    [@ EXCEPT !.state = call[w].next, !.holder = NoWorker, !.due = FALSE]]
  /\ UNCHANGED <<people, orders, faults>>

\* Only the holder of the claim records what it found, and only on the state it took.
Record(w) ==
  /\ call[w].at = "record" /\ Moves(w, Idle)
  /\ commands' =
       IF Row(w).state = call[w].state /\ Row(w).holder = w
       THEN [commands EXCEPT ![call[w].key] =
               [@ EXCEPT !.state = call[w].next, !.holder = NoWorker, !.due = FALSE]]
       ELSE commands
  /\ UNCHANGED <<people, orders, faults>>

Crash(w) ==
  /\ call[w].at # "idle" /\ Fault /\ Moves(w, Idle)
  /\ UNCHANGED <<people, commands, orders>>

\* A lease passes; it is a fault where its holder is still at work.
Lapse(k) ==
  LET w == commands[k].holder IN
  /\ w # NoWorker /\ ~commands[k].due
  /\ commands' = [commands EXCEPT ![k].due = TRUE]
  /\ IF call[w].at # "idle" /\ call[w].key = k THEN Fault ELSE UNCHANGED faults
  /\ UNCHANGED <<people, orders, call>>
-----------------------------------------------------------------------------
Asks == Resolve \/ Start \/ Cancel \/ AskResume \/ Assign
Answers == Protect \/ Resume \/ Unprotect
Work(w) == FailBeforeCall(w) \/ FailUnseen(w) \/ Send(w) \/ Lookup(w) \/ Record(w)

Next ==
  \/ Asks \/ Answers \/ Abandon \/ PassDeadline
  \/ \E g \in 1 .. MaxGeneration, t \in States : AcceptEvent(g, attempt.seq + 1, t)
  \/ \E w \in Workers :
       \/ Work(w) \/ Crash(w)
       \/ \E k \in DOMAIN commands : ClaimDispatch(w, k) \/ ClaimReconcile(w, k)
  \/ \E k \in DOMAIN commands : Lapse(k)

Spec == Init /\ [][Next]_vars

\* Some live worker goes on, some lease passes, and the tools are run again and
\* again, on whichever command there is.  Nobody need ask for anything, and no runner
\* need report.
Fairness ==
  /\ WF_vars(\E w \in Workers : Work(w))
  /\ WF_vars(\E k \in DOMAIN commands : Lapse(k))
  /\ WF_vars(\E w \in Workers, k \in DOMAIN commands : ClaimDispatch(w, k) \/ ClaimReconcile(w, k))

FairSpec == Spec /\ Fairness
-----------------------------------------------------------------------------
(* Properties.                                                             *)

\* Each generation's events are numbered from 1 without a gap, the attempt shows the
\* last one unless it was canceled or resumed since, and the run ends with one of them.
EventsInOrder ==
  /\ \A i \in DOMAIN log :
       IF i > 1 /\ log[i - 1].gen = log[i].gen THEN log[i].seq = log[i - 1].seq + 1
       ELSE log[i].seq = 1 /\ (i > 1 => log[i].gen = log[i - 1].gen + 1)
  /\ \A i \in DOMAIN log : log[i].state \in Terminal => i = Len(log) /\ run.state = log[i].state
  /\ run.state \in Terminal =>
       log[Len(log)] = [gen |-> attempt.gen, seq |-> attempt.seq, state |-> run.state]

\* A run goes on only under the assignment it was started for, however the work item
\* is assigned while the resumption is under way.
ResumedUnderItsAssignment ==
  [][attempt.gen > 0 /\ attempt'.gen # attempt.gen => assigned = run.assignment]_vars

Phase ==
  CASE run.state = "NONE" -> "none"
    [] run.state = "ACTIVE" /\ attempt.state \in Active -> "active"
    [] run.state = "ACTIVE" /\ attempt.state = "WAITING_INPUT" -> "waiting"
    [] run.state = "ACTIVE" /\ attempt.state = "CANCELING" -> "canceling"
    [] run.state \in Terminal /\ attempt.state = run.state -> "ended"
    [] OTHER -> "broken"

\* What the rows say of the commands that are settled.
Recorded ==
  [k \in {k \in DOMAIN commands : commands[k].state \in Settled} |->
     IF commands[k].state = "DISPATCHED" THEN "ACCEPTED" ELSE "REJECTED"]

Contract ==
  INSTANCE AttemptContract WITH
    phase <- Phase, gen <- attempt.gen, owed <- DOMAIN commands, done <- orders,
    settled <- Recorded

ImplementsAttemptContract == Contract!Spec

\* In the end every command is decided, or was tried as often as the workers try.
CommandsSettle ==
  <>[](\A k \in DOMAIN commands :
         \/ commands[k].state \in Settled
         \/ commands[k].state = "UNKNOWN" /\ commands[k].holder = NoWorker
              /\ commands[k].tries = MaxClaims)
=============================================================================
