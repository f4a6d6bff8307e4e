-------------------------- MODULE AgentAttemptProofs --------------------------
(***************************************************************************)
(* The agent run of AgentAttempt keeps its types, its events in order and  *)
(* its assignment, and implements AttemptContract, for any workers and any *)
(* number of generations, assignments and faults.                          *)
(***************************************************************************)
EXTENDS AgentAttempt, TLAPS

\* The state of the run follows the attempt, and a run that is there has an event.
RunFits ==
  /\ run.state = "NONE" => attempt.gen = 0 /\ log = <<>> /\ DOMAIN commands = {}
  /\ run.state # "NONE" => attempt.gen > 0 /\ Len(log) > 0
  /\ run.state = "ACTIVE" => attempt.state \notin Terminal
  /\ run.state \in Terminal => attempt.state = run.state /\ attempt.seq > 0

\* The attempt's counter is at the end of the log, or behind a resumption.
LogFits ==
  Len(log) > 0 =>
    /\ attempt.seq > 0 => log[Len(log)].gen = attempt.gen /\ log[Len(log)].seq = attempt.seq
    /\ attempt.seq = 0 =>
         log[Len(log)].gen + 1 = attempt.gen /\ attempt.state \in {"QUEUED", "CANCELING"}
    /\ run.state \in Terminal => log[Len(log)].state = run.state

\* What a start or resumption in flight has found out still holds.
RequestFits ==
  /\ request.at = "resolved" => run.state = "NONE"
  /\ request.at \in {"locked", "protected"} =>
       run.state = "ACTIVE" /\ attempt.state = "WAITING_INPUT" /\ attempt.gen < MaxGeneration
  /\ request.at = "protected" => assigned = run.assignment

\* No command is of a generation to come, and nothing follows a cancellation.
CommandsFit ==
  \A k \in DOMAIN commands :
    /\ k[2] <= attempt.gen
    /\ k[1] = "CANCEL" => attempt.state \in Terminal \cup {"CANCELING"}

\* An outcome that a worker is about to record is what the orchestrator said.
CallsFit ==
  \A w \in Workers : call[w].at = "record" /\ call[w].next \in Settled =>
    call[w].key \in DOMAIN orders /\ call[w].next = Outcome(call[w].key)

Inv ==
  /\ TypeOK /\ RunFits /\ LogFits /\ EventsInOrder /\ RequestFits /\ CommandsFit /\ CallsFit
-----------------------------------------------------------------------------
(* Lemmas about the operators.                                             *)

\* An event leads from an active state to an active one, to waiting or to an end, and
\* from a cancellation to an end (ALLOWED_TRANSITIONS).
LEMMA FollowsTo ==
  ASSUME NEW s \in States, NEW t \in Follows(s)
  PROVE  /\ t \in States \ {"CANCELING", "QUEUED"}
         /\ s \in Active \cup {"CANCELING"}
         /\ s = "CANCELING" => t \in Terminal
         /\ t \in Terminal => s # "WAITING_INPUT"
  BY DEF Follows, States, Active, Terminal

\* A key is added with its value; the others keep theirs (insert_workflow_command).
LEMMA WithType ==
  ASSUME NEW S, NEW f, f \in [DOMAIN f -> S], NEW k, NEW v \in S
  PROVE  /\ DOMAIN With(f, k, v) = DOMAIN f \cup {k}
         /\ With(f, k, v) \in [DOMAIN With(f, k, v) -> S]
         /\ With(f, k, v)[k] = v
         /\ \A x \in DOMAIN f : x # k => With(f, k, v)[x] = f[x]
  BY DEF With

\* Every entry of a sequence is of its type.
LEMMA EventsTyped ==
  ASSUME NEW S, NEW q \in Seq(S), NEW i \in 1 .. Len(q)
  PROVE  q[i] \in S
  OBVIOUS

\* A step of a worker that leaves people, attempt and events alone has to keep only
\* the commands' types and what the workers know.
LEMMA Elsewhere ==
  ASSUME Inv, UNCHANGED people, DOMAIN commands' = DOMAIN commands, TypeOK', CallsFit'
  PROVE  Inv'
  BY DEF Inv, people, RunFits, LogFits, EventsInOrder, RequestFits, CommandsFit

\* A step of people or the runner that leaves orders and workers alone keeps what the
\* workers know.
LEMMA WorkersKeep ==
  ASSUME CallsFit, UNCHANGED <<orders, call>>
  PROVE  CallsFit'
  BY DEF CallsFit, Outcome
-----------------------------------------------------------------------------
(* The invariant.                                                          *)

\* The invariant holds before a run is started.
LEMMA Initially == Init => Inv
<1> SUFFICES ASSUME Init PROVE Inv
  OBVIOUS
<1>1. TypeOK
  BY AttemptAssumption DEF Init, TypeOK, States, Active, Calls, Idle, Settled, Keys
<1>2. RunFits /\ LogFits /\ EventsInOrder /\ RequestFits /\ CommandsFit /\ CallsFit
  BY DEF Init, RunFits, LogFits, EventsInOrder, RequestFits, CommandsFit, CallsFit, Idle, Terminal
<1> QED
  BY <1>1, <1>2 DEF Inv

\* Reading the assignment keeps the invariant (start_run).
LEMMA ResolveKeeps == Inv /\ Resolve => Inv'
<1> SUFFICES ASSUME Inv, Resolve PROVE Inv'
  OBVIOUS
<1>1. TypeOK'
  BY DEF Inv, TypeOK, Resolve, dispatch
<1>2. RunFits' /\ LogFits' /\ EventsInOrder' /\ RequestFits' /\ CommandsFit'
  BY DEF Inv, Resolve, dispatch, RunFits, LogFits, EventsInOrder, RequestFits, CommandsFit
<1>3. CallsFit'
  BY WorkersKeep DEF Inv, Resolve, dispatch
<1> QED
  BY <1>1, <1>2, <1>3 DEF Inv

\* Starting writes run, attempt, first event and first command together (start_run).
LEMMA StartKeeps == Inv /\ Start => Inv'
<1> SUFFICES ASSUME Inv, Start PROVE Inv'
  OBVIOUS
<1> DEFINE k == <<"START", 1>>
<1>1. run.state = "NONE" /\ DOMAIN commands = {} /\ DOMAIN orders = {}
  BY DEF Inv, Start, RequestFits, RunFits, TypeOK
<1>2. k \in Keys /\ Planned \in Rows
  BY AttemptAssumption DEF Keys, Planned, Rows
<1>3. DOMAIN commands' = {k} /\ commands' \in [DOMAIN commands' -> Rows]
  <2>1. commands \in [DOMAIN commands -> Rows] /\ commands' = With(commands, k, Planned)
    BY DEF Inv, TypeOK, Start
  <2> HIDE DEF k
  <2>2. DOMAIN With(commands, k, Planned) = DOMAIN commands \cup {k}
        /\ With(commands, k, Planned) \in [DOMAIN With(commands, k, Planned) -> Rows]
    BY <1>2, <2>1 DEF With
  <2> QED
    BY <1>1, <2>1, <2>2
<1>4. TypeOK'
  <2>1. run' \in [state : {"NONE", "ACTIVE"} \cup Terminal, assignment : Nat]
    BY DEF Inv, TypeOK, Start
  <2>2. attempt' \in [state : States, gen : 0 .. MaxGeneration, seq : Nat, open : BOOLEAN]
    BY AttemptAssumption DEF Start, States, Active
  <2>3. log' \in Seq([gen : 1 .. MaxGeneration, seq : Nat, state : States])
    BY AttemptAssumption DEF Start, States, Active
  <2>4. request' \in [at : {"none", "resolved", "locked", "protected", "committed"},
                      assignment : Nat]
    BY DEF Inv, TypeOK, Start
  <2>5. \A w \in Workers : call[w].at = "idle"
    BY <1>1 DEF Inv, TypeOK
  <2> QED
    BY <1>1, <1>2, <1>3, <2>1, <2>2, <2>3, <2>4, <2>5 DEF Inv, TypeOK, Start
<1>5. RunFits' /\ LogFits' /\ EventsInOrder' /\ RequestFits'
  BY DEF Start, RunFits, LogFits, EventsInOrder, RequestFits, Terminal
<1>6. CommandsFit'
  BY <1>3 DEF Start, CommandsFit
<1>7. CallsFit'
  BY WorkersKeep DEF Inv, Start
<1> QED
  BY <1>4, <1>5, <1>6, <1>7 DEF Inv

\* The events stay in order: the one that is taken continues the numbers of its
\* generation, or is the first after a resumption (accept_event).
LEMMA AcceptEventKeeps ==
  ASSUME Inv, NEW g \in 1 .. MaxGeneration, NEW t \in States, AcceptEvent(g, attempt.seq + 1, t)
  PROVE  Inv'
<1> DEFINE n == Len(log)
           s == attempt.seq + 1
           e == [gen |-> g, seq |-> s, state |-> t]
<1>1. /\ attempt \in [state : States, gen : 0 .. MaxGeneration, seq : Nat, open : BOOLEAN]
      /\ log \in Seq([gen : 1 .. MaxGeneration, seq : Nat, state : States])
      /\ run \in [state : {"NONE", "ACTIVE"} \cup Terminal, assignment : Nat]
  BY DEF Inv, TypeOK
<1>2. /\ run.state # "NONE" /\ Unlocked /\ g = attempt.gen /\ t \in Follows(attempt.state)
      /\ attempt' = [attempt EXCEPT !.state = t, !.seq = s,
                                    !.open = (t = "WAITING_INPUT" \/ attempt.open)]
      /\ log' = Append(log, e)
      /\ run' = [run EXCEPT !.state = IF t \in Terminal THEN t ELSE run.state]
      /\ UNCHANGED <<assigned, request, commands, orders, call, faults>>
  BY DEF AcceptEvent, Accepted, dispatch
<1>3. /\ t \in States \ {"CANCELING", "QUEUED"} /\ attempt.state \in Active \cup {"CANCELING"}
      /\ attempt.state = "CANCELING" => t \in Terminal
  BY <1>1, <1>2, FollowsTo
<1>4. run.state = "ACTIVE" /\ n > 0
  BY <1>1, <1>2, <1>3 DEF Inv, RunFits, Active, Terminal
<1>5. /\ attempt'.state = t /\ attempt'.gen = attempt.gen /\ attempt'.seq = s
      /\ attempt' \in [state : States, gen : 0 .. MaxGeneration, seq : Nat, open : BOOLEAN]
  <2> DEFINE b == (t = "WAITING_INPUT" \/ attempt.open)
  <2>1. b \in BOOLEAN
    BY Zenon
  <2>2. attempt' = [attempt EXCEPT !.state = t, !.seq = s, !.open = b]
    BY <1>2
  <2>3. s \in Nat
    BY <1>1
  <2> HIDE DEF b, s
  <2> QED
    BY <1>1, <2>1, <2>2, <2>3
<1>6. /\ run'.state = (IF t \in Terminal THEN t ELSE "ACTIVE") /\ run'.assignment = run.assignment
      /\ run' \in [state : {"NONE", "ACTIVE"} \cup Terminal, assignment : Nat]
  BY <1>1, <1>2, <1>4
<1>7. /\ log' \in Seq([gen : 1 .. MaxGeneration, seq : Nat, state : States])
      /\ Len(log') = n + 1 /\ n \in Nat /\ log'[n + 1] = e
      /\ \A i \in 1 .. n : log'[i] = log[i]
      /\ DOMAIN log = 1 .. n /\ DOMAIN log' = 1 .. n + 1
  BY <1>1, <1>2
<1>8. TypeOK'
  BY <1>2, <1>5, <1>6, <1>7 DEF Inv, TypeOK
<1>9. RunFits'
  BY <1>1, <1>3, <1>4, <1>5, <1>6, <1>7 DEF Inv, RunFits, Terminal
<1>10. LogFits'
  BY <1>1, <1>2, <1>3, <1>5, <1>6, <1>7 DEF LogFits, Terminal
<1>11. EventsInOrder'
  <2> SUFFICES ASSUME NEW i \in 1 .. n + 1
               PROVE  /\ IF i > 1 /\ log'[i - 1].gen = log'[i].gen
                         THEN log'[i].seq = log'[i - 1].seq + 1
                         ELSE log'[i].seq = 1 /\ (i > 1 => log'[i].gen = log'[i - 1].gen + 1)
                      /\ log'[i].state \in Terminal => i = n + 1 /\ run'.state = log'[i].state
    <3>1. run'.state \in Terminal =>
            log'[Len(log')] = [gen |-> attempt'.gen, seq |-> attempt'.seq, state |-> run'.state]
      BY <1>2, <1>5, <1>6, <1>7 DEF Terminal
    <3> QED
      BY <1>7, <3>1 DEF EventsInOrder
  <2>1. CASE i = n + 1
    <3>1. log'[i] = e /\ log'[i - 1] = log[n] /\ i > 1 /\ i - 1 = n /\ n \in 1 .. n
      BY <1>4, <1>7, <2>1
    <3>2. /\ attempt.seq > 0 => log[n].gen = attempt.gen /\ log[n].seq = attempt.seq
          /\ attempt.seq = 0 => log[n].gen + 1 = attempt.gen
      BY <1>4 DEF Inv, LogFits
    <3>3. log[n].gen \in 1 .. MaxGeneration /\ log[n].seq \in Nat
      <4>1. log[n] \in [gen : 1 .. MaxGeneration, seq : Nat, state : States]
        BY <1>1, <3>1, EventsTyped
      <4> QED
        BY <4>1
    <3>4. CASE attempt.seq = 0
      BY <1>1, <1>2, <1>6, <3>1, <3>2, <3>3, <3>4, <2>1, AttemptAssumption
    <3>5. CASE attempt.seq > 0
      BY <1>1, <1>2, <1>6, <3>1, <3>2, <3>3, <3>5, <2>1
    <3> QED
      BY <1>1, <3>4, <3>5
  <2>2. CASE i \in 1 .. n
    <3>1. log'[i] = log[i] /\ (i > 1 => log'[i - 1] = log[i - 1])
      BY <1>7, <2>2
    <3>2. log[i].state \notin Terminal
      BY <1>4, <1>7, <2>2 DEF Inv, EventsInOrder, Terminal
    <3> QED
      BY <1>7, <2>2, <3>1, <3>2 DEF Inv, EventsInOrder
  <2> QED
    BY <1>7, <2>1, <2>2
<1>12. RequestFits'
  BY <1>2, <1>4 DEF Inv, RequestFits, Unlocked
<1>13. CommandsFit'
  BY <1>2, <1>3, <1>5 DEF Inv, CommandsFit, Active, Terminal
<1>14. CallsFit'
  BY <1>2, WorkersKeep DEF Inv
<1> QED
  BY <1>8, <1>9, <1>10, <1>11, <1>12, <1>13, <1>14 DEF Inv

\* Passing the deadline of an interaction keeps the invariant.
LEMMA PassDeadlineKeeps == Inv /\ PassDeadline => Inv'
<1> SUFFICES ASSUME Inv, PassDeadline PROVE Inv'
  OBVIOUS
<1>1. attempt \in [state : States, gen : 0 .. MaxGeneration, seq : Nat, open : BOOLEAN]
  BY DEF Inv, TypeOK
<1>2. /\ attempt' = [attempt EXCEPT !.open = FALSE]
      /\ UNCHANGED <<run, log, assigned, request, commands, orders, call, faults>>
  BY DEF PassDeadline, dispatch
<1>3. /\ attempt'.state = attempt.state /\ attempt'.gen = attempt.gen
      /\ attempt'.seq = attempt.seq
      /\ attempt' \in [state : States, gen : 0 .. MaxGeneration, seq : Nat, open : BOOLEAN]
  BY <1>1, <1>2
<1>4. TypeOK'
  BY <1>2, <1>3 DEF Inv, TypeOK
<1>5. RunFits' /\ LogFits' /\ EventsInOrder' /\ RequestFits' /\ CommandsFit'
  BY <1>2, <1>3 DEF Inv, RunFits, LogFits, EventsInOrder, RequestFits, CommandsFit
<1>6. CallsFit'
  BY <1>2, WorkersKeep DEF Inv
<1> QED
  BY <1>4, <1>5, <1>6 DEF Inv
\* Canceling writes the state and its command together, once (cancel_run).
LEMMA CancelKeeps == Inv /\ Cancel => Inv'
<1> SUFFICES ASSUME Inv, Cancel PROVE Inv'
  OBVIOUS
<1> DEFINE k == <<"CANCEL", attempt.gen>>
<1>1. /\ attempt \in [state : States, gen : 0 .. MaxGeneration, seq : Nat, open : BOOLEAN]
      /\ run \in [state : {"NONE", "ACTIVE"} \cup Terminal, assignment : Nat]
  BY DEF Inv, TypeOK
<1>2. /\ run.state # "NONE" /\ Unlocked /\ attempt.state \notin Terminal \cup {"CANCELING"}
      /\ attempt' = [attempt EXCEPT !.state = "CANCELING"]
      /\ commands' = With(commands, k, Planned)
      /\ UNCHANGED <<run, log, assigned, request, orders, call, faults>>
  BY DEF Cancel
<1>3. run.state = "ACTIVE" /\ attempt.gen \in 1 .. MaxGeneration
  BY <1>1, <1>2 DEF Inv, RunFits
<1>4. /\ attempt'.state = "CANCELING" /\ attempt'.gen = attempt.gen /\ attempt'.seq = attempt.seq
      /\ attempt' \in [state : States, gen : 0 .. MaxGeneration, seq : Nat, open : BOOLEAN]
  BY <1>1, <1>2 DEF States
<1>5. k \in Keys /\ k[1] = "CANCEL" /\ k[2] = attempt.gen /\ Planned \in Rows
  BY <1>3, AttemptAssumption DEF Keys, Planned, Rows
<1>6. DOMAIN commands' = DOMAIN commands \cup {k} /\ commands' \in [DOMAIN commands' -> Rows]
  <2>1. commands \in [DOMAIN commands -> Rows]
    BY DEF Inv, TypeOK
  <2> HIDE DEF k
  <2> QED
    BY <1>2, <1>5, <2>1 DEF With
<1> HIDE DEF k
<1>7. TypeOK'
  BY <1>2, <1>4, <1>5, <1>6 DEF Inv, TypeOK
<1>8. RunFits' /\ LogFits' /\ EventsInOrder' /\ RequestFits'
  BY <1>2, <1>3, <1>4, <1>6
     DEF Inv, RunFits, LogFits, EventsInOrder, RequestFits, Terminal, Unlocked
<1>9. CommandsFit'
  BY <1>1, <1>4, <1>5, <1>6 DEF Inv, CommandsFit
<1>10. CallsFit'
  BY <1>2, WorkersKeep DEF Inv
<1> QED
  BY <1>7, <1>8, <1>9, <1>10 DEF Inv

\* Looking at state and deadline takes the locks of run and attempt (resume_run).
LEMMA AskResumeKeeps == Inv /\ AskResume => Inv'
<1> SUFFICES ASSUME Inv, AskResume PROVE Inv'
  OBVIOUS
<1>1. TypeOK'
  BY DEF Inv, TypeOK, AskResume, dispatch
<1>2. run.state = "ACTIVE"
  BY DEF Inv, TypeOK, AskResume, RunFits, Terminal
<1>3. RunFits' /\ LogFits' /\ EventsInOrder' /\ CommandsFit'
  BY DEF Inv, AskResume, dispatch, RunFits, LogFits, EventsInOrder, CommandsFit
<1>4. RequestFits'
  BY <1>2 DEF Inv, TypeOK, AskResume, dispatch, RequestFits
<1>5. CallsFit'
  BY WorkersKeep DEF Inv, AskResume, dispatch
<1> QED
  BY <1>1, <1>3, <1>4, <1>5 DEF Inv

\* What protect has found out holds when it has (resume_run, protect).
LEMMA ProtectKeeps == Inv /\ Protect => Inv'
<1> SUFFICES ASSUME Inv, Protect PROVE Inv'
  OBVIOUS
<1>1. PICK at \in {"protected", "none"} :
        /\ at = "protected" => assigned = run.assignment
        /\ request' = [request EXCEPT !.at = at]
  BY DEF Protect
<1>2. request.at = "locked" /\ UNCHANGED <<run, attempt, log, assigned, dispatch, faults>>
  BY DEF Protect
<1>3. request'.at = at /\ request' \in [at : {"none", "resolved", "locked", "protected",
                                              "committed"}, assignment : Nat]
  BY <1>1 DEF Inv, TypeOK
<1>4. TypeOK'
  BY <1>2, <1>3 DEF Inv, TypeOK, dispatch
<1>5. RunFits' /\ LogFits' /\ EventsInOrder' /\ CommandsFit'
  BY <1>2 DEF Inv, dispatch, RunFits, LogFits, EventsInOrder, CommandsFit
<1>6. RequestFits'
  BY <1>1, <1>2, <1>3 DEF Inv, RequestFits, dispatch
<1>7. CallsFit'
  BY <1>2, WorkersKeep DEF Inv, dispatch
<1> QED
  BY <1>4, <1>5, <1>6, <1>7 DEF Inv

\* A resumption opens a new generation and writes its command (resume_run).
LEMMA ResumeKeeps == Inv /\ Resume => Inv'
<1> SUFFICES ASSUME Inv, Resume PROVE Inv'
  OBVIOUS
<1> DEFINE g == attempt.gen + 1
           k == <<"RESUME", g>>
           Attempts == [state : States, gen : 0 .. MaxGeneration, seq : Nat, open : BOOLEAN]
           Requests == [at : {"none", "resolved", "locked", "protected", "committed"},
                        assignment : Nat]
<1>1. attempt \in Attempts /\ request \in Requests
  BY DEF Inv, TypeOK
<1>2. request.at = "protected" /\ UNCHANGED <<run, log, assigned, orders, call, faults>>
  BY DEF Resume
<1>3. /\ run.state = "ACTIVE" /\ attempt.state = "WAITING_INPUT" /\ attempt.gen < MaxGeneration
      /\ attempt.gen > 0 /\ attempt.gen \in Nat /\ Len(log) > 0
  BY <1>1, <1>2 DEF Inv, RequestFits, RunFits
<1>4. CallsFit'
  BY <1>2, WorkersKeep DEF Inv
<1>5. CASE attempt.open
  <2>1. /\ attempt' = [state |-> "QUEUED", gen |-> g, seq |-> 0, open |-> FALSE]
        /\ commands' = With(commands, k, Planned)
        /\ request' = [request EXCEPT !.at = "committed"]
    BY <1>5 DEF Resume
  <2>2. /\ attempt'.state = "QUEUED" /\ attempt'.gen = g /\ attempt'.seq = 0
        /\ attempt' \in Attempts /\ request' \in Requests /\ request'.at = "committed"
    BY <1>1, <1>3, <2>1, AttemptAssumption DEF States, Active
  <2>3. k \in Keys /\ k[1] = "RESUME" /\ k[2] = g /\ Planned \in Rows
    BY <1>3, AttemptAssumption DEF Keys, Planned, Rows
  <2>4. DOMAIN commands' = DOMAIN commands \cup {k} /\ commands' \in [DOMAIN commands' -> Rows]
    <3>1. commands \in [DOMAIN commands -> Rows]
      BY DEF Inv, TypeOK
    <3> HIDE DEF k
    <3> QED
      BY <2>1, <2>3, <3>1 DEF With
  <2> HIDE DEF k
  <2>5. TypeOK'
    BY <1>2, <2>2, <2>3, <2>4 DEF Inv, TypeOK
  <2>6. RunFits' /\ RequestFits'
    BY <1>2, <1>3, <2>2, <2>4 DEF RunFits, RequestFits, Terminal
  <2>7. LogFits'
    BY <1>1, <1>2, <1>3, <2>2 DEF Inv, LogFits, Terminal
  <2>8. EventsInOrder'
    BY <1>2, <1>3, <2>2 DEF Inv, EventsInOrder, Terminal
  <2>9. CommandsFit'
    <3> SUFFICES ASSUME NEW c \in DOMAIN commands'
                 PROVE  c[2] <= g /\ c[1] # "CANCEL"
      BY <2>2 DEF CommandsFit
    <3>1. CASE c = k
      BY <1>3, <2>3, <3>1
    <3>2. CASE c \in DOMAIN commands
      <4>1. c \in Keys
        BY <3>2 DEF Inv, TypeOK
      <4>2. c[2] \in Nat
        BY <4>1, AttemptAssumption DEF Keys
      <4> QED
        BY <1>3, <3>2, <4>2 DEF Inv, CommandsFit, Terminal
    <3> QED
      BY <2>4, <3>1, <3>2
  <2> QED
    BY <1>4, <2>5, <2>6, <2>7, <2>8, <2>9 DEF Inv
<1>6. CASE ~attempt.open
  <2>1. request' = [request EXCEPT !.at = "none"] /\ UNCHANGED <<attempt, commands>>
    BY <1>6 DEF Resume
  <2>2. request' \in Requests /\ request'.at = "none"
    BY <1>1, <2>1
  <2>3. TypeOK'
    BY <1>2, <2>1, <2>2 DEF Inv, TypeOK
  <2>4. RunFits' /\ LogFits' /\ EventsInOrder' /\ RequestFits' /\ CommandsFit'
    BY <1>2, <2>1, <2>2 DEF Inv, RunFits, LogFits, EventsInOrder, RequestFits, CommandsFit
  <2> QED
    BY <1>4, <2>3, <2>4 DEF Inv
<1> QED
  BY <1>5, <1>6

\* A request that ends, by its commit or its death, keeps the invariant.
LEMMA RequestEnds == Inv /\ (Unprotect \/ Abandon) => Inv'
<1> SUFFICES ASSUME Inv, Unprotect \/ Abandon PROVE Inv'
  OBVIOUS
<1>1. /\ request' = [request EXCEPT !.at = "none"]
      /\ UNCHANGED <<run, attempt, log, assigned, dispatch>> /\ faults' \in Nat
  BY DEF Inv, TypeOK, Unprotect, Abandon, Fault
<1>2. request'.at = "none" /\ request' \in [at : {"none", "resolved", "locked", "protected",
                                                  "committed"}, assignment : Nat]
  BY <1>1 DEF Inv, TypeOK
<1>3. TypeOK'
  BY <1>1, <1>2 DEF Inv, TypeOK, dispatch
<1>4. RunFits' /\ LogFits' /\ EventsInOrder' /\ RequestFits' /\ CommandsFit'
  BY <1>1, <1>2
     DEF Inv, dispatch, RunFits, LogFits, EventsInOrder, RequestFits, CommandsFit
<1>5. CallsFit'
  BY <1>1, WorkersKeep DEF Inv, dispatch
<1> QED
  BY <1>3, <1>4, <1>5 DEF Inv

\* An assignment waits for a resumption under way (assign_work_item).
LEMMA AssignKeeps == Inv /\ Assign => Inv'
<1> SUFFICES ASSUME Inv, Assign PROVE Inv'
  OBVIOUS
<1>1. TypeOK'
  BY DEF Inv, TypeOK, Assign, dispatch
<1>2. RunFits' /\ LogFits' /\ EventsInOrder' /\ RequestFits' /\ CommandsFit'
  BY DEF Inv, Assign, dispatch, RunFits, LogFits, EventsInOrder, RequestFits, CommandsFit
<1>3. CallsFit'
  BY WorkersKeep DEF Inv, Assign, dispatch
<1> QED
  BY <1>1, <1>2, <1>3 DEF Inv
\* A worker's call moves on and the others' stay.
LEMMA CallMoves ==
  ASSUME TypeOK, NEW w \in Workers, NEW c \in Calls, Moves(w, c),
         c.at # "idle" => c.key \in DOMAIN commands
  PROVE  /\ call' \in [Workers -> Calls] /\ call'[w] = c
         /\ \A v \in Workers : v # w => call'[v] = call[v]
         /\ \A v \in Workers : call'[v].at # "idle" => call'[v].key \in DOMAIN commands
<1>1. call \in [Workers -> Calls] /\ call' = [call EXCEPT ![w] = c]
  BY DEF TypeOK, Moves
<1>2. call' \in [Workers -> Calls] /\ call'[w] = c
      /\ \A v \in Workers : v # w => call'[v] = call[v]
  BY <1>1
<1>3. \A v \in Workers : call[v].at # "idle" => call[v].key \in DOMAIN commands
  BY DEF TypeOK
<1> QED
  BY <1>2, <1>3

\* A worker that has forgotten its call holds nothing.
LEMMA IdleTyped == Idle \in Calls /\ Idle.at = "idle"
  BY AttemptAssumption DEF Idle, Calls, Keys, Settled

\* A worker that has found out what to record keeps the invariant, if an outcome is
\* what the orchestrator said and the orchestrator forgets nothing.
LEMMA RecordsKeep ==
  ASSUME Inv, NEW w \in Workers, call[w].at # "idle",
         NEW next \in {"PLANNED", "UNKNOWN"} \cup Settled, Records(w, next),
         DOMAIN orders \subseteq DOMAIN orders', DOMAIN orders' \subseteq DOMAIN commands,
         \A x \in DOMAIN orders : orders'[x] = orders[x],
         orders' \in [DOMAIN orders' -> {"ACCEPTED", "REJECTED"}],
         next \in Settled =>
           /\ call[w].key \in DOMAIN orders'
           /\ next = IF orders'[call[w].key] = "ACCEPTED" THEN "DISPATCHED" ELSE "FAILED",
         UNCHANGED <<people, commands>>, faults' \in Nat
  PROVE  Inv'
<1> DEFINE c == [call[w] EXCEPT !.at = "record", !.next = next]
<1>1. call[w] \in Calls /\ call[w].key \in DOMAIN commands
  BY DEF Inv, TypeOK
<1>2. c \in Calls /\ c.at = "record" /\ c.next = next /\ c.key = call[w].key /\ Moves(w, c)
  BY <1>1 DEF Calls, Records
<1> HIDE DEF c
<1>3. /\ call' \in [Workers -> Calls] /\ call'[w] = c
      /\ \A v \in Workers : v # w => call'[v] = call[v]
      /\ \A v \in Workers : call'[v].at # "idle" => call'[v].key \in DOMAIN commands
  BY <1>1, <1>2, CallMoves DEF Inv
<1>4. TypeOK'
  BY <1>3 DEF Inv, TypeOK, people
<1>5. CallsFit'
  BY <1>2, <1>3 DEF Inv, CallsFit, Outcome
<1> QED
  BY <1>4, <1>5, Elsewhere

\* A failure of the orchestrator is recorded as no outcome (dispatch_workflow_commands).
LEMMA FailKeeps ==
  ASSUME Inv, NEW w \in Workers, FailBeforeCall(w) \/ FailUnseen(w)
  PROVE  Inv'
<1>1. PICK next \in {"PLANNED", "UNKNOWN"} : Records(w, next)
  BY DEF FailBeforeCall, FailUnseen
<1>2. /\ call[w].at # "idle" /\ UNCHANGED <<people, commands, orders>> /\ faults' \in Nat
  BY DEF FailBeforeCall, FailUnseen, Fault, Inv, TypeOK
<1>3. /\ DOMAIN orders \subseteq DOMAIN commands
      /\ orders \in [DOMAIN orders -> {"ACCEPTED", "REJECTED"}]
  BY DEF Inv, TypeOK
<1>4. next \notin Settled
  BY DEF Settled
<1> QED
  BY <1>1, <1>2, <1>3, <1>4, RecordsKeep

\* The orchestrator takes a key once, and says of a key it knows what it said before.
LEMMA SendTakesOnce ==
  ASSUME Inv, NEW w \in Workers, Send(w)
  PROVE  \E o \in {"ACCEPTED", "REJECTED"} :
           /\ orders' = With(orders, call[w].key, o)
           /\ \A x \in DOMAIN orders : orders'[x] = orders[x]
           /\ DOMAIN orders' = DOMAIN orders \cup {call[w].key} /\ orders'[call[w].key] = o
           /\ orders' \in [DOMAIN orders' -> {"ACCEPTED", "REJECTED"}]
           /\ \/ Fault /\ Records(w, "UNKNOWN")
              \/ UNCHANGED faults /\ Records(w, IF o = "ACCEPTED" THEN "DISPATCHED" ELSE "FAILED")
<1> DEFINE k == call[w].key
<1>1. orders \in [DOMAIN orders -> {"ACCEPTED", "REJECTED"}]
  BY DEF Inv, TypeOK
<1>2. PICK o \in IF k \in DOMAIN orders THEN {orders[k]} ELSE {"ACCEPTED", "REJECTED"} :
        /\ orders' = With(orders, k, o)
        /\ \/ Fault /\ Records(w, "UNKNOWN")
           \/ UNCHANGED faults /\ Records(w, IF o = "ACCEPTED" THEN "DISPATCHED" ELSE "FAILED")
  BY DEF Send
<1>3. o \in {"ACCEPTED", "REJECTED"} /\ (k \in DOMAIN orders => o = orders[k])
  BY <1>1, <1>2
<1>4. /\ DOMAIN orders' = DOMAIN orders \cup {k} /\ orders'[k] = o
      /\ \A x \in DOMAIN orders : orders'[x] = orders[x]
      /\ orders' \in [DOMAIN orders' -> {"ACCEPTED", "REJECTED"}]
  <2>1. orders' = With(orders, k, o)
    BY <1>2
  <2> HIDE DEF k
  <2> QED
    BY <1>1, <1>3, <2>1 DEF With
<1> QED
  BY <1>2, <1>3, <1>4

\* Sending keeps the invariant (dispatch_workflow_commands).
LEMMA SendKeeps ==
  ASSUME Inv, NEW w \in Workers, Send(w)
  PROVE  Inv'
<1>1. PICK o \in {"ACCEPTED", "REJECTED"} :
        /\ \A x \in DOMAIN orders : orders'[x] = orders[x]
        /\ DOMAIN orders' = DOMAIN orders \cup {call[w].key} /\ orders'[call[w].key] = o
        /\ orders' \in [DOMAIN orders' -> {"ACCEPTED", "REJECTED"}]
        /\ \/ Fault /\ Records(w, "UNKNOWN")
           \/ UNCHANGED faults /\ Records(w, IF o = "ACCEPTED" THEN "DISPATCHED" ELSE "FAILED")
  BY SendTakesOnce
<1>2. call[w].at # "idle" /\ UNCHANGED <<people, commands>>
  BY DEF Send
<1>3. PICK next \in {"PLANNED", "UNKNOWN"} \cup Settled :
        /\ Records(w, next)
        /\ next \in Settled => next = IF o = "ACCEPTED" THEN "DISPATCHED" ELSE "FAILED"
  BY <1>1 DEF Settled
<1>4. faults' \in Nat
  BY <1>1 DEF Fault, Inv, TypeOK
<1>5. DOMAIN orders' \subseteq DOMAIN commands
  BY <1>1, <1>2 DEF Inv, TypeOK
<1> QED
  BY <1>1, <1>2, <1>3, <1>4, <1>5, RecordsKeep

\* Looking up keeps the invariant (reconcile_workflow_commands).
LEMMA LookupKeeps ==
  ASSUME Inv, NEW w \in Workers, Lookup(w)
  PROVE  Inv'
<1>1. call[w].at # "idle" /\ call[w] \in Calls /\ UNCHANGED <<people, commands, orders>>
      /\ faults' \in Nat
  BY DEF Lookup, Fault, Inv, TypeOK
<1>2. PICK next \in {"PLANNED", "UNKNOWN"} \cup Settled :
        /\ Records(w, next)
        /\ next \in Settled => call[w].key \in DOMAIN orders /\ next = Outcome(call[w].key)
  <2>1. call[w].state \in {"PLANNED", "UNKNOWN"}
    BY <1>1 DEF Calls
  <2> QED
    BY <2>1 DEF Lookup, Outcome, Settled
<1>3. /\ DOMAIN orders \subseteq DOMAIN commands
      /\ orders \in [DOMAIN orders -> {"ACCEPTED", "REJECTED"}]
  BY DEF Inv, TypeOK
<1>4. next \in Settled =>
        /\ call[w].key \in DOMAIN orders'
        /\ next = IF orders'[call[w].key] = "ACCEPTED" THEN "DISPATCHED" ELSE "FAILED"
  BY <1>1, <1>2 DEF Outcome
<1> QED
  BY <1>1, <1>2, <1>3, <1>4, RecordsKeep

\* A row of the table changes to another one of its type.
LEMMA RowChanges ==
  ASSUME TypeOK, NEW k \in DOMAIN commands, NEW r \in Rows, commands' = [commands EXCEPT ![k] = r]
  PROVE  commands' \in [DOMAIN commands -> Rows] /\ DOMAIN commands' = DOMAIN commands
  BY DEF TypeOK

\* A claim keeps the invariant (claim_workflow_command).
LEMMA ClaimsKeep ==
  ASSUME Inv, NEW w \in Workers, NEW k \in DOMAIN commands, NEW at \in {"send", "look"},
         NEW tries \in 0 .. MaxClaims, commands[k].state \in {"PLANNED", "UNKNOWN"},
         Claims(w, k, at, tries)
  PROVE  Inv'
<1> DEFINE r == [commands[k] EXCEPT !.tries = tries, !.holder = w, !.due = FALSE]
           c == [Idle EXCEPT !.at = at, !.key = k, !.state = commands[k].state, !.tries = tries]
<1>1. commands[k] \in Rows /\ k \in Keys
  BY DEF Inv, TypeOK
<1>2. r \in Rows
  BY <1>1 DEF Rows
<1>3. c \in Calls /\ c.at = at /\ c.key = k
  BY <1>1 DEF Calls, Idle, Settled
<1>4. /\ commands' = [commands EXCEPT ![k] = r] /\ Moves(w, c)
      /\ UNCHANGED <<people, orders, faults>>
  BY DEF Claims
<1> HIDE DEF r, c
<1>5. commands' \in [DOMAIN commands -> Rows] /\ DOMAIN commands' = DOMAIN commands
  BY <1>2, <1>4, RowChanges DEF Inv
<1>6. /\ call' \in [Workers -> Calls] /\ call'[w] = c
      /\ \A v \in Workers : v # w => call'[v] = call[v]
      /\ \A v \in Workers : call'[v].at # "idle" => call'[v].key \in DOMAIN commands
  BY <1>3, <1>4, CallMoves DEF Inv
<1>7. TypeOK'
  BY <1>4, <1>5, <1>6 DEF Inv, TypeOK, people
<1>8. CallsFit'
  BY <1>3, <1>4, <1>6 DEF Inv, CallsFit, Outcome
<1> QED
  BY <1>4, <1>5, <1>7, <1>8, Elsewhere

\* Both kinds of claim are of a command that is not settled, within the bound.
LEMMA ClaimKeeps ==
  ASSUME Inv, NEW w \in Workers, NEW k \in DOMAIN commands,
         ClaimDispatch(w, k) \/ ClaimReconcile(w, k)
  PROVE  Inv'
<1>1. commands[k].tries \in 0 .. MaxClaims /\ MaxClaims \in Nat
  BY AttemptAssumption DEF Inv, TypeOK, Rows
<1>2. commands[k].state \in {"PLANNED", "UNKNOWN"}
  BY DEF ClaimDispatch, ClaimReconcile
<1>3. \E at \in {"send", "look"}, tries \in 0 .. MaxClaims : Claims(w, k, at, tries)
  <2> DEFINE n == commands[k].tries
  <2>1. \/ n < MaxClaims /\ Claims(w, k, "send", n + 1)
        \/ n < MaxClaims /\ Claims(w, k, "look", n + 1)
        \/ Claims(w, k, "look", n)
    BY DEF ClaimDispatch, ClaimReconcile
  <2>2. n < MaxClaims => n + 1 \in 0 .. MaxClaims
    BY <1>1
  <2> QED
    BY <1>1, <2>1, <2>2
<1> QED
  BY <1>2, <1>3, ClaimsKeep

\* Recording compares state and claim and keeps the invariant (complete_workflow_command).
LEMMA RecordKeeps ==
  ASSUME Inv, NEW w \in Workers, Record(w)
  PROVE  Inv'
<1> DEFINE k == call[w].key
           r == [commands[k] EXCEPT !.state = call[w].next, !.holder = NoWorker, !.due = FALSE]
<1>1. /\ call[w] \in Calls /\ k \in DOMAIN commands /\ commands[k] \in Rows
  BY DEF Inv, TypeOK, Record
<1>2. r \in Rows
  BY <1>1 DEF Rows, Calls
<1>3. /\ commands' = [commands EXCEPT ![k] = r] \/ commands' = commands
      /\ Moves(w, Idle) /\ UNCHANGED <<people, orders, faults>>
  BY DEF Record
<1> HIDE DEF r
<1>4. commands' \in [DOMAIN commands -> Rows] /\ DOMAIN commands' = DOMAIN commands
  BY <1>1, <1>2, <1>3, RowChanges DEF Inv, TypeOK
<1>5. /\ call' \in [Workers -> Calls] /\ call'[w] = Idle
      /\ \A v \in Workers : v # w => call'[v] = call[v]
      /\ \A v \in Workers : call'[v].at # "idle" => call'[v].key \in DOMAIN commands
  BY <1>3, CallMoves, IdleTyped DEF Inv
<1>6. TypeOK'
  BY <1>3, <1>4, <1>5 DEF Inv, TypeOK, people
<1>7. CallsFit'
  BY <1>3, <1>5, IdleTyped DEF Inv, CallsFit, Outcome
<1> QED
  BY <1>3, <1>4, <1>6, <1>7, Elsewhere

\* A worker that dies forgets its call.
LEMMA CrashKeeps ==
  ASSUME Inv, NEW w \in Workers, Crash(w)
  PROVE  Inv'
<1>1. Moves(w, Idle) /\ UNCHANGED <<people, commands, orders>> /\ faults' \in Nat
  BY DEF Crash, Fault, Inv, TypeOK
<1>2. /\ call' \in [Workers -> Calls] /\ call'[w] = Idle
      /\ \A v \in Workers : v # w => call'[v] = call[v]
      /\ \A v \in Workers : call'[v].at # "idle" => call'[v].key \in DOMAIN commands
  BY <1>1, CallMoves, IdleTyped DEF Inv
<1>3. TypeOK'
  BY <1>1, <1>2 DEF Inv, TypeOK, people
<1>4. CallsFit'
  BY <1>1, <1>2, IdleTyped DEF Inv, CallsFit, Outcome
<1> QED
  BY <1>1, <1>3, <1>4, Elsewhere

\* A lease that passes keeps the invariant.
LEMMA LapseKeeps ==
  ASSUME Inv, NEW k \in DOMAIN commands, Lapse(k)
  PROVE  Inv'
<1> DEFINE r == [commands[k] EXCEPT !.due = TRUE]
<1>1. commands[k] \in Rows
  BY DEF Inv, TypeOK
<1>2. r \in Rows
  BY <1>1 DEF Rows
<1>3. commands' = [commands EXCEPT ![k] = r] /\ UNCHANGED <<people, orders, call>>
      /\ faults' \in Nat
  BY DEF Lapse, Fault, Inv, TypeOK
<1> HIDE DEF r
<1>4. commands' \in [DOMAIN commands -> Rows] /\ DOMAIN commands' = DOMAIN commands
  BY <1>2, <1>3, RowChanges DEF Inv
<1>5. TypeOK'
  BY <1>3, <1>4 DEF Inv, TypeOK, people
<1>6. CallsFit'
  BY <1>3, WorkersKeep DEF Inv
<1> QED
  BY <1>3, <1>4, <1>5, <1>6, Elsewhere
\* Every step keeps the invariant.
LEMMA NextKeeps == Inv /\ [Next]_vars => Inv'
<1> SUFFICES ASSUME Inv, [Next]_vars PROVE Inv'
  OBVIOUS
<1>1. CASE Asks
  BY <1>1, ResolveKeeps, StartKeeps, CancelKeeps, AskResumeKeeps, AssignKeeps DEF Asks
<1>2. CASE Answers
  BY <1>2, ProtectKeeps, ResumeKeeps, RequestEnds DEF Answers
<1>3. CASE Abandon \/ PassDeadline
  BY <1>3, RequestEnds, PassDeadlineKeeps
<1>4. CASE \E g \in 1 .. MaxGeneration, t \in States : AcceptEvent(g, attempt.seq + 1, t)
  BY <1>4, AcceptEventKeeps
<1>5. ASSUME NEW w \in Workers, Work(w) PROVE Inv'
  BY <1>5, FailKeeps, SendKeeps, LookupKeeps, RecordKeeps DEF Work
<1>6. ASSUME NEW w \in Workers, Crash(w) PROVE Inv'
  BY <1>6, CrashKeeps
<1>7. ASSUME NEW w \in Workers, NEW k \in DOMAIN commands,
             ClaimDispatch(w, k) \/ ClaimReconcile(w, k)
      PROVE  Inv'
  BY <1>7, ClaimKeeps
<1>8. ASSUME NEW k \in DOMAIN commands, Lapse(k) PROVE Inv'
  BY <1>8, LapseKeeps
<1>9. CASE UNCHANGED vars
  BY <1>9 DEF vars, Inv, TypeOK, RunFits, LogFits, EventsInOrder, RequestFits, CommandsFit,
              CallsFit, Outcome
<1> QED
  BY <1>1, <1>2, <1>3, <1>4, <1>5, <1>6, <1>7, <1>8, <1>9 DEF Next

\* The invariant holds in every state of every execution.
THEOREM Invariance == Spec => []Inv
<1> QED
  BY Initially, NextKeeps, PTL DEF Spec

\* Run, attempt, events, commands and the workers' locals keep their types.
THEOREM TypeCorrect == Spec => []TypeOK
<1>1. Inv => TypeOK
  BY DEF Inv
<1> QED
  BY <1>1, Invariance, PTL

\* The events of a generation are numbered from 1 without a gap, and an end is the last
\* event and the run's own (accept_event under the locks of run and attempt).
THEOREM EventsOrdered == Spec => []EventsInOrder
<1>1. Inv => EventsInOrder
  BY DEF Inv
<1> QED
  BY <1>1, Invariance, PTL

\* A step that opens a generation after the first does so under the assignment of the run.
LEMMA ResumesUnderItsAssignment ==
  ASSUME Inv, [Next]_vars, attempt.gen > 0, attempt'.gen # attempt.gen
  PROVE  assigned = run.assignment
<1>1. attempt \in [state : States, gen : 0 .. MaxGeneration, seq : Nat, open : BOOLEAN]
  BY DEF Inv, TypeOK
<1>2. CASE UNCHANGED attempt
  BY <1>2
<1>3. CASE Start
  BY <1>3 DEF Start, Inv, RequestFits, RunFits
<1>4. CASE Resume
  BY <1>4 DEF Resume, Inv, RequestFits
<1>5. CASE Cancel
  BY <1>1, <1>5 DEF Cancel
<1>6. CASE PassDeadline
  BY <1>1, <1>6 DEF PassDeadline
<1>7. CASE \E g \in 1 .. MaxGeneration, t \in States : AcceptEvent(g, attempt.seq + 1, t)
  <2>1. attempt'.gen = attempt.gen
    BY <1>1, <1>7 DEF AcceptEvent, Accepted
  <2> QED
    BY <2>1
<1>8. CASE \/ Resolve \/ AskResume \/ Assign \/ Protect \/ Unprotect \/ Abandon
  BY <1>2, <1>8 DEF Resolve, AskResume, Assign, Protect, Unprotect, Abandon
<1>9. ASSUME NEW w \in Workers, Work(w) \/ Crash(w) PROVE UNCHANGED attempt
  BY <1>9 DEF Work, FailBeforeCall, FailUnseen, Send, Lookup, Record, Crash, people
<1>10. ASSUME NEW w \in Workers, NEW k \in DOMAIN commands,
              ClaimDispatch(w, k) \/ ClaimReconcile(w, k)
       PROVE  UNCHANGED attempt
  BY <1>10 DEF ClaimDispatch, ClaimReconcile, Claims, people
<1>11. ASSUME NEW k \in DOMAIN commands, Lapse(k) PROVE UNCHANGED attempt
  BY <1>11 DEF Lapse, people
<1> QED
  BY <1>2, <1>3, <1>4, <1>5, <1>6, <1>7, <1>8, <1>9, <1>10, <1>11
     DEF Next, Asks, Answers, vars

\* A run goes on only under the assignment it was started for (resume_run, protect,
\* assign_work_item).
THEOREM AssignmentKept == Spec => ResumedUnderItsAssignment
<1>1. Inv /\ [Next]_vars =>
        [attempt.gen > 0 /\ attempt'.gen # attempt.gen => assigned = run.assignment]_vars
  BY ResumesUnderItsAssignment
<1> QED
  BY <1>1, Invariance, PTL DEF Spec, ResumedUnderItsAssignment
-----------------------------------------------------------------------------
(* The contract.                                                           *)

\* The contract before a run is started.
LEMMA ContractInit == Init => Contract!Init
<1> SUFFICES ASSUME Init PROVE Contract!Init
  OBVIOUS
<1>1. Phase = "none" /\ attempt.gen = 0 /\ DOMAIN commands = {} /\ orders = <<>>
  BY DEF Init, Phase
<1>2. Recorded = <<>>
  BY <1>1 DEF Recorded
<1> QED
  BY <1>1, <1>2 DEF Contract!Init

\* A step that changes neither states nor keys is none of the contract's.
LEMMA Stutters ==
  ASSUME run'.state = run.state, attempt'.state = attempt.state, attempt'.gen = attempt.gen,
         DOMAIN commands' = DOMAIN commands,
         \A k \in DOMAIN commands : commands'[k].state = commands[k].state,
         orders' = orders
  PROVE  UNCHANGED Contract!contract
<1>1. Phase' = Phase
  BY DEF Phase
<1>2. Recorded' = Recorded
  BY DEF Recorded
<1> QED
  BY <1>1, <1>2 DEF Contract!contract

\* A new command is not recorded as settled.
LEMMA PlannedIsOpen ==
  ASSUME NEW k, k \notin DOMAIN commands, commands' = With(commands, k, Planned)
  PROVE  DOMAIN commands' = DOMAIN commands \cup {k} /\ Recorded' = Recorded
<1>1. /\ DOMAIN commands' = DOMAIN commands \cup {k} /\ commands'[k] = Planned
      /\ \A x \in DOMAIN commands : commands'[x] = commands[x]
  BY DEF With
<1>2. commands'[k].state \notin Settled
  BY <1>1 DEF Planned, Settled
<1>3. {x \in DOMAIN commands' : commands'[x].state \in Settled}
        = {x \in DOMAIN commands : commands[x].state \in Settled}
  BY <1>1, <1>2
<1> QED
  BY <1>1, <1>3 DEF Recorded

\* Starting begins the first generation with its command.
LEMMA StartBegins == Inv /\ Start => Contract!Begin
<1> SUFFICES ASSUME Inv, Start PROVE Contract!Begin
  OBVIOUS
<1>1. run.state = "NONE" /\ DOMAIN commands = {}
  BY DEF Inv, Start, RequestFits, RunFits
<1>2. Phase = "none" /\ Phase' = "active" /\ attempt'.gen = 1
  BY <1>1 DEF Start, Phase, Active, Terminal
<1>3. DOMAIN commands' = {<<"START", 1>>} /\ Recorded' = Recorded
  BY <1>1, PlannedIsOpen DEF Start
<1> QED
  BY <1>2, <1>3 DEF Contract!Begin, Start

\* Canceling is decided once.
LEMMA CancelCancels == Inv /\ Cancel => Contract!Cancel
<1> SUFFICES ASSUME Inv, Cancel PROVE Contract!Cancel
  OBVIOUS
<1>1. /\ run.state # "NONE" /\ attempt.state \notin Terminal \cup {"CANCELING"}
      /\ attempt' = [attempt EXCEPT !.state = "CANCELING"]
      /\ commands' = With(commands, <<"CANCEL", attempt.gen>>, Planned)
      /\ UNCHANGED <<run, orders>>
  BY DEF Cancel
<1>2. /\ attempt \in [state : States, gen : 0 .. MaxGeneration, seq : Nat, open : BOOLEAN]
      /\ run.state \in {"NONE", "ACTIVE"} \cup Terminal
  BY DEF Inv, TypeOK
<1>3. run.state = "ACTIVE" /\ attempt'.state = "CANCELING" /\ attempt'.gen = attempt.gen
  BY <1>1, <1>2 DEF Inv, RunFits
<1>4. Phase \in {"active", "waiting"} /\ Phase' = "canceling"
  BY <1>1, <1>2, <1>3 DEF Phase, States, Active, Terminal
<1>5. <<"CANCEL", attempt.gen>> \notin DOMAIN commands
  BY <1>1 DEF Inv, CommandsFit
<1>6. DOMAIN commands' = DOMAIN commands \cup {<<"CANCEL", attempt.gen>>} /\ Recorded' = Recorded
  BY <1>1, <1>5, PlannedIsOpen
<1> QED
  BY <1>1, <1>3, <1>4, <1>6 DEF Contract!Cancel
\* A resumption opens the next generation with its command, or comes too late.
LEMMA ResumeResumes == Inv /\ Resume => Contract!Resume \/ UNCHANGED Contract!contract
<1> SUFFICES ASSUME Inv, Resume PROVE Contract!Resume \/ UNCHANGED Contract!contract
  OBVIOUS
<1> DEFINE g == attempt.gen + 1
<1>1. run.state = "ACTIVE" /\ attempt.state = "WAITING_INPUT" /\ attempt.gen \in Nat
  BY DEF Inv, TypeOK, Resume, RequestFits
<1>2. CASE attempt.open
  <2>1. /\ attempt' = [state |-> "QUEUED", gen |-> g, seq |-> 0, open |-> FALSE]
        /\ commands' = With(commands, <<"RESUME", g>>, Planned) /\ UNCHANGED <<run, orders>>
    BY <1>2 DEF Resume
  <2>2. Phase = "waiting" /\ Phase' = "active" /\ attempt'.gen = g
    BY <1>1, <2>1 DEF Phase, Active, Terminal
  <2>3. <<"RESUME", g>> \notin DOMAIN commands
    BY <1>1 DEF Inv, CommandsFit
  <2>4. DOMAIN commands' = DOMAIN commands \cup {<<"RESUME", g>>} /\ Recorded' = Recorded
    BY <2>1, <2>3, PlannedIsOpen
  <2> QED
    BY <2>1, <2>2, <2>4 DEF Contract!Resume
<1>3. CASE ~attempt.open
  BY <1>3, Stutters DEF Resume
<1> QED
  BY <1>2, <1>3

\* An event goes on, waits for input or ends the run.
LEMMA EventMoves ==
  ASSUME Inv, NEW g \in 1 .. MaxGeneration, NEW t \in States, AcceptEvent(g, attempt.seq + 1, t)
  PROVE  Contract!Wait \/ Contract!End \/ UNCHANGED Contract!contract
<1>1. /\ attempt \in [state : States, gen : 0 .. MaxGeneration, seq : Nat, open : BOOLEAN]
      /\ run \in [state : {"NONE", "ACTIVE"} \cup Terminal, assignment : Nat]
  BY DEF Inv, TypeOK
<1>2. /\ run.state # "NONE" /\ t \in Follows(attempt.state)
      /\ run' = [run EXCEPT !.state = IF t \in Terminal THEN t ELSE run.state]
      /\ UNCHANGED <<commands, orders>>
  BY DEF AcceptEvent, Accepted, dispatch
<1>3. attempt'.state = t /\ attempt'.gen = attempt.gen
  BY <1>1 DEF AcceptEvent, Accepted
<1>4. /\ t \in States \ {"CANCELING", "QUEUED"} /\ attempt.state \in Active \cup {"CANCELING"}
      /\ attempt.state = "CANCELING" => t \in Terminal
  BY <1>1, <1>2, FollowsTo
<1>5. run.state = "ACTIVE"
  BY <1>1, <1>2, <1>4 DEF Inv, RunFits, Active, Terminal
<1>6. run'.state = IF t \in Terminal THEN t ELSE "ACTIVE"
  BY <1>1, <1>2, <1>5
<1>7. Recorded' = Recorded
  BY <1>2 DEF Recorded
<1>8. Phase = IF attempt.state = "CANCELING" THEN "canceling" ELSE "active"
  BY <1>4, <1>5 DEF Phase, Active, Terminal
<1>9. CASE t \in Terminal
  <2>1. Phase' = "ended"
    BY <1>3, <1>6, <1>9 DEF Phase, Active, Terminal
  <2> QED
    BY <1>2, <1>3, <1>7, <1>8, <2>1 DEF Contract!End
<1>10. CASE t = "WAITING_INPUT"
  <2>1. Phase' = "waiting" /\ Phase = "active"
    BY <1>3, <1>4, <1>6, <1>8, <1>10 DEF Phase, Active, Terminal
  <2> QED
    BY <1>2, <1>3, <1>7, <2>1 DEF Contract!Wait
<1>11. CASE t \in Active
  <2>1. Phase' = "active" /\ Phase = "active"
    BY <1>3, <1>4, <1>6, <1>8, <1>11 DEF Phase, Active, Terminal
  <2> QED
    BY <1>2, <1>3, <1>7, <2>1 DEF Contract!contract
<1> QED
  BY <1>4, <1>9, <1>10, <1>11 DEF States

\* The orchestrator takes up a command that was decided on, or knows it already.
LEMMA SendTakesUp ==
  ASSUME Inv, NEW w \in Workers, Send(w)
  PROVE  Contract!Effect \/ UNCHANGED Contract!contract
<1> DEFINE k == call[w].key
<1>1. PICK o \in {"ACCEPTED", "REJECTED"} :
        /\ orders' = With(orders, k, o)
        /\ \A x \in DOMAIN orders : orders'[x] = orders[x]
        /\ DOMAIN orders' = DOMAIN orders \cup {k} /\ orders'[k] = o
        /\ orders' \in [DOMAIN orders' -> {"ACCEPTED", "REJECTED"}]
  BY SendTakesOnce
<1>2. /\ k \in DOMAIN commands /\ orders \in [DOMAIN orders -> {"ACCEPTED", "REJECTED"}]
  BY DEF Inv, TypeOK, Send
<1>3. UNCHANGED <<run, attempt, commands>>
  BY DEF Send, people
<1> HIDE DEF k
<1>4. CASE k \in DOMAIN orders
  <2>1. orders' = orders
    BY <1>1, <1>2, <1>4
  <2> QED
    BY <1>3, <2>1, Stutters
<1>5. CASE k \notin DOMAIN orders
  <2>1. orders' = Contract!Adding(orders, k, o)
    BY <1>1 DEF With, Contract!Adding
  <2>2. Phase' = Phase /\ Recorded' = Recorded
    BY <1>3 DEF Phase, Recorded
  <2> QED
    BY <1>1, <1>2, <1>3, <1>5, <2>1, <2>2 DEF Contract!Effect
<1> QED
  BY <1>4, <1>5

\* What is recorded as settled is what the orchestrator said.
LEMMA RecordSettles ==
  ASSUME Inv, NEW w \in Workers, Record(w)
  PROVE  Contract!Settle \/ UNCHANGED Contract!contract
<1> DEFINE k == call[w].key
           next == call[w].next
           r == [commands[k] EXCEPT !.state = next, !.holder = NoWorker, !.due = FALSE]
<1>1. /\ call[w].at = "record" /\ call[w] \in Calls
      /\ k \in DOMAIN commands /\ commands[k] \in Rows
      /\ commands \in [DOMAIN commands -> Rows]
      /\ orders \in [DOMAIN orders -> {"ACCEPTED", "REJECTED"}]
  BY DEF Inv, TypeOK, Record
<1>2. UNCHANGED <<run, attempt, orders>>
  BY DEF Record, people
<1>3. CASE commands' = commands
  BY <1>2, <1>3, Stutters
<1>4. CASE /\ commands' = [commands EXCEPT ![k] = r]
           /\ commands[k].state = call[w].state
  <2>1. commands[k].state \in {"PLANNED", "UNKNOWN"} /\ next \in {"PLANNED", "UNKNOWN"} \cup Settled
    BY <1>1, <1>4 DEF Calls
  <2>2. r.state = next
    BY <1>1 DEF Rows
  <2> HIDE DEF r
  <2>3. /\ DOMAIN commands' = DOMAIN commands /\ commands'[k].state = next
        /\ \A x \in DOMAIN commands : x # k => commands'[x] = commands[x]
    BY <1>1, <1>4, <2>2
  <2>4. Phase' = Phase
    BY <1>2 DEF Phase
  <2>5. CASE next \in Settled
    <3>1. k \in DOMAIN orders /\ next = Outcome(k)
      BY <1>1, <2>5 DEF Inv, CallsFit
    <3>2. k \in DOMAIN orders \ DOMAIN Recorded
      BY <2>1, <3>1 DEF Recorded, Settled
    <3>3. {x \in DOMAIN commands' : commands'[x].state \in Settled}
            = {x \in DOMAIN commands : commands[x].state \in Settled} \cup {k}
      BY <1>1, <2>3, <2>5
    <3>4. orders[k] = IF next = "DISPATCHED" THEN "ACCEPTED" ELSE "REJECTED"
      BY <1>1, <3>1 DEF Outcome
    <3> HIDE DEF k, next
    <3>5. Recorded' = Contract!Adding(Recorded, k, orders[k])
      BY <2>3, <3>3, <3>4 DEF Recorded, Contract!Adding
    <3> QED
      BY <1>2, <2>3, <2>4, <3>2, <3>5 DEF Contract!Settle
  <2>6. CASE next \notin Settled
    <3>1. {x \in DOMAIN commands' : commands'[x].state \in Settled}
            = {x \in DOMAIN commands : commands[x].state \in Settled}
      BY <2>1, <2>3, <2>6 DEF Settled
    <3>2. Recorded' = Recorded
      BY <2>1, <2>3, <2>6, <3>1 DEF Recorded, Settled
    <3> QED
      BY <1>2, <2>3, <2>4, <3>2 DEF Contract!contract
  <2> QED
    BY <2>5, <2>6
<1> QED
  BY <1>3, <1>4 DEF Record, Row

\* A claim and a lease that passes change no state of a command.
LEMMA ClaimStutters ==
  ASSUME Inv, NEW k \in DOMAIN commands,
         (\E w \in Workers : ClaimDispatch(w, k) \/ ClaimReconcile(w, k)) \/ Lapse(k)
  PROVE  UNCHANGED Contract!contract
<1>1. UNCHANGED <<run, attempt, orders>>
  BY DEF ClaimDispatch, ClaimReconcile, Claims, Lapse, people
<1>2. commands \in [DOMAIN commands -> Rows]
  BY DEF Inv, TypeOK
<1>3. ASSUME NEW w \in Workers, NEW at, NEW tries, Claims(w, k, at, tries)
      PROVE  /\ DOMAIN commands' = DOMAIN commands
             /\ \A x \in DOMAIN commands : commands'[x].state = commands[x].state
  <2> DEFINE r == [commands[k] EXCEPT !.tries = tries, !.holder = w, !.due = FALSE]
  <2>1. r.state = commands[k].state
    BY <1>2 DEF Rows
  <2>2. commands' = [commands EXCEPT ![k] = r]
    BY <1>3 DEF Claims
  <2> HIDE DEF r
  <2> QED
    BY <1>2, <2>1, <2>2
<1>4. CASE Lapse(k)
  <2> DEFINE r == [commands[k] EXCEPT !.due = TRUE]
  <2>1. r.state = commands[k].state
    BY <1>2 DEF Rows
  <2>2. commands' = [commands EXCEPT ![k] = r]
    BY <1>4 DEF Lapse
  <2> HIDE DEF r
  <2>3. /\ DOMAIN commands' = DOMAIN commands
        /\ \A x \in DOMAIN commands : commands'[x].state = commands[x].state
    BY <1>2, <2>1, <2>2
  <2> QED
    BY <1>1, <2>3, Stutters
<1>5. CASE \E w \in Workers : ClaimDispatch(w, k) \/ ClaimReconcile(w, k)
  <2>1. \E w \in Workers, at \in {"send", "look"}, tries \in {commands[k].tries,
                                                             commands[k].tries + 1} :
          Claims(w, k, at, tries)
    BY <1>5 DEF ClaimDispatch, ClaimReconcile
  <2>2. /\ DOMAIN commands' = DOMAIN commands
        /\ \A x \in DOMAIN commands : commands'[x].state = commands[x].state
    BY <2>1, <1>3
  <2> QED
    BY <1>1, <2>2, Stutters
<1> QED
  BY <1>4, <1>5

\* Every step is one of the contract's or none.
LEMMA ContractNext == Inv /\ [Next]_vars => [Contract!Next]_(Contract!contract)
<1> SUFFICES ASSUME Inv, [Next]_vars PROVE Contract!Next \/ UNCHANGED Contract!contract
  OBVIOUS
<1>1. CASE Start \/ Cancel \/ Resume
  BY <1>1, StartBegins, CancelCancels, ResumeResumes DEF Contract!Next
<1>2. CASE \E g \in 1 .. MaxGeneration, t \in States : AcceptEvent(g, attempt.seq + 1, t)
  BY <1>2, EventMoves DEF Contract!Next
<1>3. CASE PassDeadline
  <2>1. attempt'.state = attempt.state /\ attempt'.gen = attempt.gen
    BY <1>3 DEF PassDeadline, Inv, TypeOK
  <2>2. UNCHANGED <<run, commands, orders>>
    BY <1>3 DEF PassDeadline, dispatch
  <2> QED
    BY <2>1, <2>2, Stutters
<1>4. CASE UNCHANGED <<run, attempt, commands, orders>>
  BY <1>4, Stutters
<1>5. CASE Resolve \/ AskResume \/ Assign \/ Protect \/ Unprotect \/ Abandon \/ UNCHANGED vars
  BY <1>4, <1>5
     DEF Resolve, AskResume, Assign, Protect, Unprotect, Abandon, vars, dispatch
<1>6. ASSUME NEW w \in Workers, Work(w) \/ Crash(w)
      PROVE  Contract!Next \/ UNCHANGED Contract!contract
  <2>1. CASE FailBeforeCall(w) \/ FailUnseen(w) \/ Lookup(w) \/ Crash(w)
    BY <1>4, <2>1 DEF FailBeforeCall, FailUnseen, Lookup, Crash, people
  <2>2. CASE Send(w) \/ Record(w)
    BY <2>2, SendTakesUp, RecordSettles DEF Contract!Next
  <2> QED
    BY <1>6, <2>1, <2>2 DEF Work
<1>7. ASSUME NEW k \in DOMAIN commands,
             (\E w \in Workers : ClaimDispatch(w, k) \/ ClaimReconcile(w, k)) \/ Lapse(k)
      PROVE  UNCHANGED Contract!contract
  BY <1>7, ClaimStutters
<1> QED
  BY <1>1, <1>2, <1>3, <1>5, <1>6, <1>7 DEF Next, Asks, Answers

\* The run, its attempt and its commands keep the contract: one command for each
\* generation, each taken up at most once, and recorded as what became of it.
THEOREM Refinement == Spec => ImplementsAttemptContract
<1> QED
  BY ContractInit, ContractNext, Invariance, PTL
     DEF Spec, ImplementsAttemptContract, Contract!Spec
=============================================================================
