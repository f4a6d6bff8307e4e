# Verification of the engineering platform backend

TLA+ models of the control plane under `src/control_plane`, model-checked with
TLC and proved about with TLAPS.

## 1. The system

The repository is one Python service (`control_plane.app`): FastAPI routes over
application services, each service working in short database transactions
against one PostgreSQL schema per module, with external systems (GitLab, a
sandbox runtime, model providers) called between transactions. There is no
scheduler in the process: work that is left behind is picked up when somebody
calls a command again or when a worker tool is run. Hence the behaviours that
are hard everywhere in it:

* a command is a sequence of transactions, and any other command, a crash or an
  external failure may fall between two of them;
* an operation that was interrupted is finished by somebody else, who must
  neither repeat nor lose what was done (receipts, owners with a time to live,
  leases, compare-and-swap on a revision);
* what was read in one transaction is used in the next.

### Inventory

| Part (under `src/control_plane/app`) | State | Operations | Interacts with | Hard about it | What makes it correct |
|---|---|---|---|---|---|
| `modules/agent_run` Sandbox Controller | materializations, capacity leases and ledger, runner generations, command receipts, preview intents, reconcile items; the runtime's own state | provision, publish preview, handoff, release, finalize, cancel, timeout, reconcile | the runtime (called between transactions), admission policy, authorization, audit | takeover of commands, the runtime and the database drifting apart, races of commands on one materialization, capacity counted twice | one current generation, capacity conserved, nothing left running behind a terminal row, cleanups converge |
| `modules/source_control` branch saga (`saga`, `reconciliation`, `batches`) | branch operations and batches, bindings | create, retry, reconcile | GitLab | unknown outcome of a remote call, partial batches | a branch is created once, a batch reports what its items did |
| `modules/source_control` integration (`integration`, `_integration_*`, `integration_reconciliation`, `delivery_relay`) | request inbox, effects, merge-request bindings with their observations | claim, admit, plan, create, merge, settle, reconcile, replay | GitLab, five callbacks of `requirement` | a merge whose answer was lost, a push or a person between check and write, an admission gone stale, effects told late or twice | a merge is recorded only when it happened at the head it was planned for, every request is answered |
| `modules/source_control` formal delivery (`formal`, `formal_relay`) | request inbox, effects, formal bindings, review assignments | the same, to main and under a review | GitLab, four callbacks of `requirement` | several work items share one acceptance: one's outcome takes back what another is delivered under | only reviewed heads reach main; the acceptance and the deliveries under it end together |
| `modules/source_control` agent delivery (`agent_delivery`, `agent_delivery_reconciliation`) | push requests, delivery facts, fences of attempts | authorise, execute, reconcile a push; fence an attempt; reconcile its revocation | a broker that writes branches | an attempt fenced while its push is under way or being authorised, answers of executor and reconciler that cross | a fact says what became of the push; what a fence listed works no more, and once revoked lands no more |
| `modules/source_control` evidence | evidence receipts | assemble | `requirement`, `agent` | evidence that lacks what arrived meanwhile | evidence belongs to the delivered revision |
| `modules/agent` runs, workflow, control, events | runs, attempts, event streams, control operations | start, accept an event, cancel, resume, dispatch and reconcile commands | a workflow orchestrator, `requirement` | out-of-order and repeated events, a dispatcher overtaken by its successor | one live attempt, no command accepted twice, no event of an older generation |
| `modules/model_gateway` workers | check and metadata jobs, leases | enqueue, claim, complete, expire | model providers | a slow worker and its successor | one result per job, a newer configuration is never overwritten by an older check |
| `modules/requirement` commands, planning, gates | requirements, work items, selections of evidence, acceptance and review gates | create, plan, assign, select, accept, decline, request, approve, reject, rework | `authorization`, `source_control` | stale versions, evidence that changes after it was accepted, work items that share one acceptance | a gate passes on the facts it names and falls with them |
| `modules/requirement` delivery and its relay | the delivery projection of a work item, outbox messages, receipts of callbacks | start, ask for a merge request or a merge, rework, five callbacks | `source_control` | callbacks that come late, twice or after the work moved on | what is shown is what happened; a callback counts once |
| `modules/identity` | users, sessions, policies | login, refresh, lock, disable, approve | all APIs | revocation racing use | a revoked session is not renewed |
| `modules/authorization` | role bindings, policies, decisions | bind, decide, orchestrate | all modules | decision taken from a stale snapshot | a decision names the policy it was taken under |
| `modules/configuration` | drafts, releases | draft, validate, publish | all modules | two editors | publication is compare-and-swap |
| `modules/organization`, `workspace`, `audit` | reference rows, members, append-only log | create, read, update | all | little | -- |
| `shared`, `bootstrap`, `tools`, migrations | -- | wiring, helpers, schema | -- | -- | -- |

`PROJECT.json` lists every part with its status. The Sandbox Controller comes
first: it is the part with the longest multi-transaction protocols, its own
recovery protocol and an external system whose state must be kept in step. The
branch saga comes second: it writes to a system it does not own, may lose the
answer, and has two modules agree on the outcome by callbacks alone. The
integration and the formal delivery come third and fourth: they merge, which
cannot be undone, and the formal one joins the fates of several work items.
The four follow one another in the life of a work item: its branch is bound, it
is integrated by a merge request, its evidence is accepted with that of its
siblings, it is merged to main.
The `agent` runs are the fifth: they are what works on the branch, and hand their
commands to an orchestrator as the sagas hand theirs to GitLab. The agents' delivery
is the sixth: it lets a run write to its branch, and takes that right back.

## 2. Modules

| Module | What it is |
|---|---|
| `Sandbox` | the Sandbox Controller: state, one action per transaction and per runtime call, faults, time, properties, fairness |
| `SandboxContract` | what the controller promises, without transactions, receipts or calls |
| `MCSandbox` | the instances TLC checks: which commands are issued, the policies, the symmetry |
| `SandboxTyping` | type correctness, proved |
| `SandboxProofs` | the consistency of rows, leases and generations, what calls, receipts and the runtime know of one another, every safety property and the refinement of the contract, proved |
| `BranchBinding` | the branch saga of `source_control` with GitLab and the work item: state, one action per transaction, callback and HTTP request, faults, time, properties, fairness |
| `BranchContract` | what the saga promises: one plan, one branch, one verdict, one binding |
| `MCBranchBinding` | its instances for TLC |
| `BranchBindingProofs` | types, every safety property and the refinement of the contract, proved |
| `WorkItemDelivery` | the delivery of a work item in `requirement`: its commands, its outbox, its five callbacks |
| `IntegrationDelivery` | the integration of `source_control` with GitLab, on top of `WorkItemDelivery`: state, one action per transaction, callback and HTTP request, faults, people, properties, fairness |
| `DeliveryContract` | what an integration delivery promises |
| `MCIntegrationDelivery` | its instances for TLC |
| `IntegrationDeliveryProofs` | types, every safety property and the refinement of the contract, proved |
| `FormalGates` | selection, acceptance, reviews and formal projections of several work items in `requirement`, their requests and callbacks |
| `FormalDelivery` | the formal delivery of `source_control` with GitLab, on top of `FormalGates` |
| `MCFormalDelivery` | its instances for TLC |
| `FormalTyping` | the first part of its inductive invariant: types |
| `FormalProofs` | the other two, the acceptance and the merge requests; the invariant put together and the theorems that follow |
| `AgentAttempt` | an agent run with its attempt, events and commands, and the workers that dispatch and reconcile them |
| `AttemptContract` | what a run promises: generation after generation until it ends, each command taken up once and recorded as what became of it |
| `MCAgentAttempt` | its instances for TLC |
| `AgentAttemptProofs` | types, order of the events, the assignment of a resumption and the refinement of the contract, proved |
| `AgentPush` | the pushes of agents: authorised, executed, reconciled, fenced and revoked, with the broker |
| `PushContract` | what the ledger of pushes and fences promises |
| `MCAgentPush` | its instance for TLC |
| `AgentPushProofs` | types, every safety property and the refinement of the contract, proved |

### `Sandbox`: how it corresponds to the code

| Variable | In the code |
|---|---|
| `mat` | `agent_run.sandbox_materialization`: state, `cleanup_target_state`, `revision`, and the stamps `evidence_persisted_at` ... `destroyed_at` as the set `done` |
| `lease`, `gen` | `capacity_lease.state`, `runner_generation.state` |
| `ledger` | `capacity_ledger`: the policy snapshot it holds and its active attempts (an attempt weighs one unit, `policy.py:48`) |
| `expired` | whether `deadline_at` or the lease's `expires_at` has passed |
| `rt` | `agent_run.runtime_state`, the runtime's own record, written by `adapters/dev_runtime.py` in its own transactions |
| `receipt` | `command_receipt` with its owner, phase, subject and result, and the reconcile items of the command (`left`, `cleaned`) |
| `intent` | `preview_intent.state` |
| `call` | the locals of a controller method in flight: where it is, its command, its materialization, the record it last read (`cur`) and the candidates it listed (`seen`) |
| `faults` | crashes, runtime failures and overruns so far, bounded by `MaxFaults` |

An action is one `with self._uow()` block, or one call of the runtime between
two of them. `_operation_row`, the check every transaction opens with, is
`Owns`. A guard that fails inside a transaction raises, rolls back and leaves
the method: that is `Raise`, enabled exactly when the transaction a call stands
before does not go through (`Proceeds`). `ReadRecord` to `Quarantine` are
`_continue_cleanup` and its callers, shared by release, finalize, cancel,
timeout, failed provisioning and reconciliation as in the code.

Time is abstract. `Lapse` is the passing of an owner's time to live when its
call is gone; `Overrun` the same for a call that is still running, which is a
fault. `Expire` passes a deadline. A completed reconciliation is called again
under a new key (`NewKey`), since the API takes a fresh idempotency key and
nothing is left of the old one that a later step reads.

Left out: the content of evidence, audit and authorization rows; reads of
status; the second operation a repeated preview of another command would be
(refused by the runtime, kept); more than one environment (every query is
restricted to one); bindings that fail validation before the first transaction.

### `SandboxContract`

A materialization is free, starting, serving, closing or closed; closing has an
outcome from its first moment to its last; its capacity is taken on admission
and given back after the runner's preview was fenced and before it is closed;
its runner is absent, running, fenced or gone, and gone before it is closed.
`Sandbox!ImplementsContract` maps rows, leases and the runtime's record to
these and says every step of the detailed model is one step of the contract or
none.

### `BranchBinding`: how it corresponds to the code

| Variable | In the code |
|---|---|
| `inbox` | `source_control.binding_request_inbox`, by message: `SENT` is still in the outbox of `requirement`, `LAPSED` a `PROCESSING` row whose lease has passed |
| `effect` | the work item's row of `source_control_effect`: state, planned commit, attempts, error code, callback state, and whether its time of the next attempt has come |
| `binding` | the base commit of the `repository_branch_binding` row |
| `item` | `requirement.work_item`: its repository state, the reason it is blocked for, the commit it is bound at, its revision, and whether it has an owner |
| `answers` | `requirement.idempotency_record` of the two callbacks: the key and the expected revision that is part of the fingerprint |
| `branch`, `transit` | GitLab: where the task branch stands; a create request that timed out and may still arrive (they all name the same branch and the same commit, so one bit stands for any number) |
| `call` | the locals of a worker: where it is, for which command, the rows and answers it holds |
| `faults`, `edits` | bounded by `MaxFaults`, `MaxEdits` |

`TakeRequest` to `Doubt` are `_process_binding_request` (`saga.py`);
`TakeEffect`, `Observe` and then the same `Post`, `ReadBack` and outcome actions
are `_reconcile_effect`; `Replay` is the second half of `reconcile_due_effects`,
for outcomes whose callback is not acknowledged. `Tell` is `record_ready` or
`record_blocked` of `requirement`, `Mark` is `_set_callback_state`. Where the
code raises, the worker leaves what it did and becomes free: `Leave`.

The rows of one work item make an instance: the effect and the binding are unique
for it and every query of the saga names it, so two work items share nothing but
the workers. `Check` and `Observe` let the owner's eligibility, the registry and
GitLab's project answer anything in `Refusals`. `Post` has the outcomes the
adapter tells apart: created or already there, refused, sent without an answer
(it may arrive later: `Late`), not sent. A push to the branch (`Push`) may move
it before it is read. `Assign` is `assign_work_item`, which sends another request
if the item had no owner or was blocked for its owner.

Left out: `process_binding_request`, the saga without a claim, which nothing in
`src/` calls; registration of repositories; webhooks, except that a push makes an
effect in doubt due (`FallDue`); deletion of the branch, which no part of the
system does. `FAILED` of the inbox is a state the schema allows and no code writes
for binding requests.

### `BranchContract`

The commit is planned once and before anything is created; the branch is created
at most once; there is one verdict, and success only of a branch that exists; the
work item is bound after success and for good. `Create` may follow the verdict
`BLOCKED`: a request that timed out may arrive after everyone has given up.

### `WorkItemDelivery`: how it corresponds to the code

| Variable | In the code |
|---|---|
| `req`, `item` | `requirement.requirement.state`; `requirement.work_item` with its delivery projection: state, reason, binding, revision |
| `answers` | `requirement.idempotency_record` of the callbacks: kind, key and what was said |
| `requests` | the outbox message of a command, `SENT`, and the `delivery_request_inbox` row of `source_control` it becomes, with its revision, binding, lease (`due`), claim (`tries`) and the refusal it keeps (`why`) |

`StartWorkItem`, `RequestMergeRequest`, `RequestMerge` and `Rework` are the human
commands (`requirement/application/delivery.py`), `Record` the five callbacks
ready, blocked, pending, merged and drift (`delivery_relay.py` of `requirement`),
each one transaction under the locks of the requirement and the work item: `Admits`
is what a callback asks of them, `Projected` what it makes of the item. `Relay` moves a message to the inbox.

### `IntegrationDelivery`: how it corresponds to the code

| Variable | In the code |
|---|---|
| `effects` | `source_control_effect` rows by their subject, a creation at a head or a merge of a binding at a head: state, attempts, lease, callback state, reason, and the request they were planned for |
| `bindings` | `merge_request_binding` with its observations |
| `mrs`, `branch` | GitLab: the merge requests of the task branch with their head and who merged them; the commit of the branch |
| `call` | the locals of a worker: where it is, for which request and effect, the attempts, revision, head and facts it read |
| `faults`, `edits` | bounded by `MaxFaults`, `MaxEdits` |

A request is taken (`TakeRequest`), compared with what is stored (`ReadFacts`),
asked about in `requirement` (`Admit`) and, after the reads its kind needs
(`ReadSource`, `Review`, `ReadMergeRequest`, `Prove`), becomes an effect (`Classify`,
`Plan`, `Launch`: `_integration_state.py`, `_integration_merge_state.py`). A
creation lists the merge requests of the branch before it posts (`List`, `Post`);
a merge is put at an exact head (`Put`). Each ends in `Settle`, `Block` or `Doubt`,
and the reconciler goes the same ways from `TakeEffect`. `Tell` is the callback, by
the worker or by the replay (`Replay`), under the lock of the effect's row.
`Fails` and `Mark` are the refusals before there is an effect. `Person` opens,
closes or merges a merge request in GitLab, `Push` moves the branch,
`DeleteBranch` removes it.

A fencing counter is only ever compared with the copies workers hold, so `Fresh`
picks one that nobody holds and the counters stay small. `Refuses` says whether
the checks of connection, registry, owner and policy may answer no; all of these
are one reason, `Standing`. The rows are those of one work item with its branch
bound; every query of the code names the work item or a row of it.

### `DeliveryContract`

A merge request is proposed after somebody asked; it is put up for a merge only
while it is open; the platform merges only what a human asked it to merge; the
work item shows INTEGRATED only of a binding that was wanted and is merged. People
may merge at any time (`Overtake`), and whatever is wrong is held for a person.

### `FormalGates`: how it corresponds to the code

| Variable | In the code |
|---|---|
| `req`, `acceptance`, `cycle` | `requirement.state`, the acceptance gate with its decision, the current evidence selection and the last one made |
| `proof`, `late`, `stale` | the head each work item's evidence is of; the validations `source_control` has not received; whether it has one the selected evidence lacks |
| `items`, `gates` | `requirement.work_item` with its formal projection; the review gates and their decisions, by work item and selection |
| `answers`, `requests` | receipts of the four callbacks, by kind and request; the outbox messages with the `formal_delivery_request_inbox` rows they become |

`Select`, `Accept`, `Decline`, `SubmitValidation`, `Request`, `Approve` and
`Reject` are commands of people (`acceptance.py`, `evidence.py`, `formal.py` of
`requirement`); `Record` is the four callbacks, whose last act is to take back an
acceptance that was contradicted (`Concludes`, `Invalidate`).

### `FormalDelivery`: how it corresponds to the code

`effects`, `bindings`, `mrs`, `branch`, `call`, `faults` and `edits` are as in
`IntegrationDelivery`, for every work item; an effect has the number of its request,
whose hash its subject holds. `Admit` is admission, survey and plan; a lease passes
when a claim needs it to, and a claim of what a live worker holds is a fault
(`Expires`). `Agree` asks `requirement` again before a write of the reconciler;
`Discover`, `Post` and `Prove` belong to a creation, `Check` and `Put` to a merge;
`Settle`, `Block`, `Doubt` and `Tell` are as before. A standing refusal counts as
a fault, a push for rework is part of `Rework`, the attempts of a settled row count
no more and are 0, and there is no relay, which could only delay a claim. A work
item has at most one formal merge request, so that "bound" is a Boolean of it.
A merge deletes the task branch (`Gone`), as the merge request asks GitLab to.
Left out: the routing of reviewers and the audit rows; a deletion of the branch by
a person.

### `AgentAttempt`: how it corresponds to the code

| Variable | In the code |
|---|---|
| `run`, `attempt` | `agent.agent_run` with the assignment it was started for; `agent.agent_attempt`: state, `runner_generation`, `event_sequence`, and whether `waiting_deadline` lies ahead |
| `log` | `agent.canonical_event`, in the order of acceptance |
| `commands` | `agent.workflow_command` by key: state, `dispatch_attempts`, who holds the claim and whether its lease has passed |
| `assigned`, `request` | the current assignment in `requirement`; a start or a resumption between its transactions, with the locks it holds |
| `orders` | the orchestrator: what became of a key |
| `call` | a worker between its claim, its call and its record |
| `faults` | bounded by `MaxFaults` |

`Start` is `start_run`, which has read the assignment in a transaction of its own
(`Resolve`); `AcceptEvent` is `accept_workflow_event`; `Cancel` is `cancel_attempt`.
`resume_attempt` is three steps: `AskResume` takes the locks of run and attempt,
`Protect` those of the requirement, and only when the transaction has committed
(`Resume`) are the latter given back (`Unprotect`). `ClaimDispatch`, `Send` and
`Record` are `dispatch_workflow_commands`; `ClaimReconcile`, `Lookup` and `Record`
`reconcile_workflow_commands`. A run has one attempt, since no code makes a second.
A worker claims one command: those of a larger batch that it has not reached are
held under a lease that may pass, like the one it works on. A claim's token is its
worker's name, since a worker that claims again has forgotten what it held.
`park_expired_workflow_claims` finds nothing to do on rows this code writes, since
`_uncertain` has labelled them. The orchestrator is the port's promise: it knows a
command by its key and answers it as before. Events come in any generation and at any
time, as the handler allows. Left out: definitions and bindings, the content of events and
checkpoints, audit; a repeated event or key changes nothing.

### `AttemptContract`

A run is active, waits, is resumed, is canceled and ends once; generations count up
with each resumption; a command is decided on by starting, resuming or canceling,
becomes accepted or rejected at most once after that, and what is recorded of it is
what it became.

### `AgentPush`: how it corresponds to the code

| Variable | In the code |
|---|---|
| `push`, `fact` | `source_control.agent_push_request`: state, who raised its attempts last, the commit observed; `agent_delivery_fact` |
| `fence` | `agent_delivery_fence`, by attempt: its generation (0: no row) and the state of the revocation |
| `checking`, `exec` | an authorisation between its reads and its insert; where the one execution of a grant stands |
| `sweep`, `errand` | the locals of a reconciler of pushes; of a caller that fences or a worker that revokes, a fence that has not committed included |
| `head`, `barred`, `frozen` | the broker: heads of branches, the generation revoked for an attempt on a branch, branches frozen after a drift |
| `slipped`, `faults` | history: what was inserted inside the transaction of a fence that covers it, after its list was made; bounded by `MaxFaults` |

`Authorize` is `authorize_agent_push`: it locks the fence row if there is one, and
nothing if there is none (`AuthorizeCheck`, `AuthorizeInsert`). `Execute` is
`execute_agent_push`, from the consumption of the grant to the last of its four
transactions; `Reconcile` is `reconcile_agent_pushes`; `OpenFence` and `CommitFence`
are `fence_agent_attempt`, whose locks are `Locked` and `FenceHeld` meanwhile;
`Withdraw` is its tail and `reconcile_agent_revocations`. The port that validates an
execution binding answers either way. Left out: the hash and the signature of a
grant, audit rows, the time a grant expires (it may at any time: `BlockExpired`).

### `PushContract`

A push is authorised, worked on and settled once, and the fact told of it is its
settlement; a fence only rises and takes what it covers from authorised or working to
fenced; a fence is recorded as revoked after it was made, and no longer when it rises.

## 3. What is checked

| Run | Instance | Properties | Shows |
|---|---|---|---|
| `recovery` | one execution, two generations, two provisions + cancel + reconcile, two calls, one fault | `RecordsInterlock`, `RuntimeNeverRefuses`, `OneCurrentGeneration`, `ReservationRecoverable`, `StaleOwnerWritesNothing`, `ImplementsContract` | with a crash, failure or overrun anywhere, the record and the runtime stay in step, a second generation comes only over a finished first, no reservation is stranded, and the contract is implemented |
| `guard` | provision, preview, release and timeout of one materialization, a second execution with its provision, one ledger, three policy snapshots (one tight on each bound, one disabled), one fault | `CapacityConserved`, `PreviewFenced`, `ReceiptsAreTrue`, `GuardSpentOnce` | races of guarded commands, of which one revision lets only one through; what a receipt says when replayed is true; capacity is neither lost nor given twice across policy changes (981,000 states) |
| `liveness` | one execution, one generation, provision + handoff + finalize + reconcile, one fault, `FairSpec` | `CleanupConverges`, `ReservationResolves` | every cleanup and every reservation ends |
| `expiry` | one execution, one generation, provision + cancel + reconcile, one fault | `TimedOutOnlyWhenExpired` (violated) | see Findings |
| `binding` | two workers, one request, two commits, two refusals, one fault, one edit or push, `FairSpec` | `BindingIsProved`, `AckedIsTrue`, `NoRequestDropped`, `NothingUnrecorded`, `ImplementsBranchContract`, `EffectResolves` | whatever is lost, late, repeated or overtaken, effect, binding, branch and work item agree, the contract is implemented, and an effect that may have reached GitLab gets its outcome |
| `binding_callback` | as `binding` | `CallbackConverges` (violated) | see Findings |
| `delivery` | two workers, three requests, heads 0 to 2, standing refusals, one fault, one act of a person | `IntegratedIsProved`, `AckedIsTrue`, `NoRequestDropped`, `MergedAtPlannedHead`, `CreationIsOver`, `ImplementsDeliveryContract` | what is integrated was merged at the planned head, what was told is what was found, no request is dropped, and the contract is implemented (864,000 states) |
| `delivery_liveness` | the same with two requests and no refusals, `FairSpec` | `EffectsSettle`, `RequestsEnd` | every effect is decided, but a creation that GitLab refuses for ever (`Stuck`); every request still waited for leaves the inbox |
| `formal` | two work items, two workers, two selections, heads 1 and 2, one fault, one act of a person or late validation, five turns | `PendingKeepsAcceptance`, `InvalidationApplied`, `DeliveredIsMerged`, `AckedIsTrue`, `MergesApprovedHead` | the acceptance and the deliveries under it end together; only reviewed heads reach main (840,000 states) |
| `formal_refresh` | the same with two requests, no fault, no edit | `ReviewRefreshable` (violated) | see Findings |
| `agent` | two workers, two assignments, two generations, three claims, one fault, `FairSpec` | `EventsInOrder`, `ResumedUnderItsAssignment`, `ImplementsAttemptContract`, `CommandsSettle` | late events change nothing, a resumption keeps its assignment, a command takes effect once and is recorded as what became of it; each is decided or was tried three times (1,161,000 states) |
| `agent_push` | one push, one attempt fenced at generations 1 and 2, one reconciler, one caller that fences and one worker that revokes, one fault, `FairSpec` | `FactsAreTrue`, `FenceShuts`, `RevokedNeverLands`, `ImplementsPushContract`, `RevocationSettles` | the fact is what became of the push, a fence shuts every push it listed and none of them lands once revoked, answered or not, and every fence is revoked in the end (256,000 states) |

The types of every component are proved and not checked in runs of their own.

**Bounds.** `MaxGeneration` bounds the generations of an execution (a second one
is enough for a predecessor and a successor to meet; the theorems have no
bound). Two calls let a stale owner and its successor, or two commands, meet;
each call's owner id is taken again once no receipt names it, so more than two
take part in a behaviour. `MaxFaults` is the number of faults; the theorems have no
bound on it. Commands are issued once each, except
reconciliation, which is issued again and again; a command whose owner lapsed is
retried any number of times. `CHECK_DEADLOCK FALSE`: callers may stop asking,
and a system whose commands are all completed rests.

The contracts imply more than is listed: that an intent of a cleanup and an outcome
of the saga are final and that a bound item stays bound are parts of
`ImplementsContract` and `ImplementsBranchContract`, and theorems of their own.

For the branch saga two workers are an attempt and its successor, or the saga and
the reconciler; what a second request adds, that of a new owner, is left to the proofs,
which have any number; two commits are the planned one and another, read later from a default branch that
has moved or pushed to the task branch. One of the two refusals forbids a write
for good, the other leaves the reconciler in doubt: `Observe` tells them apart.
`edits` counts assignments and pushes together.

For the integration, three requests are the creation, a second one after the work
item was given back or refused, and the merge; heads 0, 1 and 2 are the base (a
branch without a commit of its own), the delivered head and one pushed later. One
act of a person is a push, an opened, closed or merged merge request, or a deleted
branch. For the formal delivery two work items make one the sibling of another,
four requests are both their creations and merges, two cycles the selection and the
one after it was taken back. `MaxTurns` bounds requests, faults and edits
together: a full delivery of both work items leaves room for one fault or one edit,
a shorter one for both. A slow PUT that lands after its effect was settled BLOCKED
and the acceptance was taken back needs two faults and stays outside these bounds;
`MergesApprovedHead` is about the reviewed head and not about the acceptance being
current, and is proved for any number of faults.

For the agent run two generations are a runner and its successor, two assignments
the one a run was started for and the next, and three claims the bound of the code
(`dispatch_attempts < 3`). One fault is enough for a claim to be taken over from a
live worker, for an answer to be lost and for a command to be tried out.

For the agents' pushes one push is enough for executor, reconciler and fence to meet
on a row, and two generations for a fence to rise while the revocation of the lower
one is under way; pushes of one attempt meet only in the fence that covers them, and
the proofs have any number.

**Fairness.** `Fairness` of `Sandbox` asks that a call in flight keeps running (a Python
process that is alive), that a dead owner's time to live passes, and that the
environment is reconciled again and again, each new reconciliation eventually
finding a free call. The last is an assumption on the operator: the code has no
scheduler that would call `reconcile_lease`. Nothing is assumed of retries of
other commands, so liveness holds even when every caller gives up. The model
bounds the faults, so it says: once failures stop, everything converges.

`Fairness` of `BranchBinding` asks the same of a worker in flight, of leases and
of the relay. The commands are run by a tool (`tools/source_control_worker.py`)
again and again, each taking what is due: `TakeEffect`, `Replay` and
`TakeRequest` are strongly fair, since a worker is free again and again and not
always. `Fairness` of `IntegrationDelivery` is the same: weak for a worker in
flight, for the relay and the lease of each message and for the lease of an effect;
strong for the taking of each message, of an effect and for the replay. People need
ask for nothing and do nothing. `EffectsSettle` excepts a creation whose branch is
gone or holds an open merge request that is bound already: GitLab then opens no
other, and the code asks again and again. `Fairness` of `AgentAttempt` asks that a
worker that holds a claim goes on, that leases pass and that both tools are run again
and again, whichever command they take; all of it is weak, since every fault and every try
is counted and no command can be passed over for ever. People and runner need do
nothing. `CommandsSettle` excepts what was tried `MaxClaims` times: the code leaves it
UNKNOWN, even if the orchestrator took it, and a person looks. `Fairness` of `AgentPush` is about revocations alone: a fence commits and a
worker goes on with what it claimed (weak); the tool is run again and again, and a
revocation waits for no lock for ever (strong). The formal delivery has no liveness
property: a creation that was lost is not repeated by design (below).

### Findings

`TimedOutOnlyWhenExpired` (run `expiry`). When a reconcile command is resumed by
a second owner, its candidates are read again by id and treated by the state they
are in *now* (`controller.py:1814-1875`); whether they are still eligible is not
asked again. A reservation saved as orphaned that has become READY in the
meantime, with its lease and deadline in the future, is closed as TIMED_OUT. The
candidate query requires an expired deadline or lease of a READY row
(`sqlalchemy_repository.py:839-840`), and the design says the operation
converges expired, orphaned or partial facts.

`CallbackConverges` (run `binding_callback`). A callback's idempotency key is
derived from the effect (`reconciliation.py:82,96`), but the fingerprint it is
bound to contains the expected revision (`commands.py:583-589` of `requirement`),
which a replay reads anew (`reconciliation.py:442`). If the first callback was
committed and its answer lost, the revision has moved, and the replay is an
`IdempotencyConflict` (`shared/idempotency.py:174-175`) for ever: the effect stays
SUCCEEDED with a failed callback, though the work item is bound. The design says
that callbacks converge in their own transaction under a stable idempotency key
(`2026-08-26-backend-source-control-v03-foundation-design.md:49`).

`ReviewRefreshable` (run `formal_refresh`). When a sibling is rejected the whole
selection is taken back, and under the next acceptance the merge request of an
unchanged work item needs a new review. `_request_formal_delivery`
(`requirement/application/formal.py:304`) allows that only if the lost review had
been decided. A sibling whose review was still open keeps `MR_OPEN` with an
invalidated gate: creation, merge and decision are all refused for ever. The test
`test_negative_formal_review_refreshes_same_head_sibling_in_new_selection`
(`test_v06_formal_multi_work_item_recovery.py:272`) approves the sibling first.

Two more disagreements were met in `AgentPush` and have no run.

The design of the agents' delivery
(`2026-08-31-backend-v10-agent-delivery-design.md:180-181`) says that a fence race
cannot produce a successful delivery fact. An authorisation that found no fence row
holds no lock (`agent_delivery_sqlalchemy.py:223`): its insert may commit inside the
transaction of a fence that covers it, the attempt's first or a later one, after the
open pushes were shut (`:264-290`) and listed (`:292-311`). The grant is consumed
before that fence commits, the executor reads the fence once more before it commits,
and the push is confirmed under it, since the last compare-and-set looks at the state
and the attempts of the row alone. In the model this is `AuthorizeCheck`, `OpenFence`,
`AuthorizeInsert`, the steps of `Execute` and `CommitFence` before the last of them.
These are the pushes of `slipped`. Their branches are not in the list that is revoked
either: such a push may land when the ledger already says SUCCEEDED, which is why
`FenceShuts` and `RevokedNeverLands` except them, and the contract admits them. Every
other push is shut and listed, as these two properties say. The tests of the fence races
let the fence begin after the authorisation has committed
(`test_agent_delivery_reconciliation.py:322,365`).

A test of the validation after the broker's answer
(`test_agent_delivery_commands.py:379`) has no fact of an execution that was turned away. If a reconciler claims the row between the verdict and
the compare-and-set, the executor freezes the branch, and the reconciler, which does
not validate the binding, may confirm the push.

### Hazards that no property covers

Each is listed with its line in `PROJECT.json`; the models contain the behaviours
named here unless it says otherwise.

* `agent_delivery_sqlalchemy.py:275`: a push inserted past the list of an open fence
  is neither shut nor revoked (Findings); `FenceShuts` and `RevokedNeverLands` speak of
  every other push.
* `_integration_merge_provider.py:205`: a merge may exist without a MERGED
  observation after a 405 or a slow PUT; no document asks for more than that an
  observation is kept.
* `delivery_relay.py:600` (`requirement`): a creation told as pending and then found
  closed is reported under a binding the work item does not know, for ever; the lack of
  convergence is that of `CallbackConverges`.
* `gitlab_merge_requests.py:262`: a request handled twice around a push plans two creations,
  of which GitLab refuses one for ever once the other is bound; `EffectsSettle` excepts it
  (`Stuck`), and no document says what is to become of it.
* `saga.py:189`: a refused request may wait for its reason to change.
* `requirement/application/formal.py:167`: a validation received after the selection
  makes the evidence stale while a delivery is pending, which can then neither end nor
  be taken back; nothing in the code claims otherwise.
* `source_control/application/formal.py:1988`: a creation whose answer and effect are
  both lost waits for a person; the tests pin this.

Smaller ones, which nothing in the repository promises to exclude: an effect planned
under an admission gone stale makes the next request of the work item collide
(`_integration_state.py:192`); a displayed reason is old (`saga.py:561`); a batch ends
at an effect that has moved, which needs several work items (`saga.py:153`); a blocked
effect is not reopened for a new owner (`planning.py:353`); a run starts under an
assignment that changes before it commits (`agent/application/runs.py:87`).

## 4. What is proved

For any sets of executions, commands, calls and policies, of workers, requests,
commits and work items, any number of generations, assignments, faults and edits:

| Theorem | Statement |
|---|---|
| `SandboxTyping!AlwaysTyped`, `TypeCorrect` | `Spec => []Typed`, `Spec => []TypeOK` |
| `SandboxProofs!AlwaysConsistent` | `Spec => []Consistent` |
| `SandboxProofs!IntentStays` | `Spec => IntentIsFinal` |
| `SandboxProofs!GenerationsInOrder` | `Spec => []OneCurrentGeneration` |
| `SandboxProofs!CapacityIsConserved` | `Spec => []CapacityConserved` |
| `SandboxProofs!AlwaysLinked` | `Spec => []Linked` |
| `SandboxProofs!RecordsStayInterlocked`, `RuntimeIsNeverRefused`, `ReadyStaysServed` | `Spec => []RecordsInterlock`, and of `RuntimeNeverRefuses`, `ReadyIsServed` |
| `SandboxProofs!PreviewStaysFenced`, `ReservationStaysRecoverable`, `ReceiptsStayTrue` | `Spec => []PreviewFenced`, and of `ReservationRecoverable`, `ReceiptsAreTrue` |
| `SandboxProofs!GuardsSpentOnce` | `Spec => []GuardSpentOnce` |
| `SandboxProofs!StaleOwnersAreHarmless` | `Spec => StaleOwnerWritesNothing` |
| `SandboxProofs!ContractIsImplemented` | `Spec => ImplementsContract` |
| `BranchBindingProofs!Consistent`, `Typed` | `Spec => []Inv`, `Spec => []TypeOK` |
| `BranchBindingProofs!BindingAlwaysProved`, `BoundAlwaysAgrees`, `AckedAlwaysTrue`, `NoRequestEverDropped` | `Spec => []BindingIsProved`, and of the other invariants |
| `BranchBindingProofs!NothingEverUnrecorded`, `OutcomeAlwaysFinal`, `BoundForever` | `Spec => NothingUnrecorded`, and of the other action properties |
| `BranchBindingProofs!Refinement` | `Spec => ImplementsBranchContract` |
| `IntegrationDeliveryProofs!Invariance`, `TypeCorrect` | `Spec => []Inv`, `Spec => []TypeOK` |
| `IntegrationDeliveryProofs!IntegratedProved`, `AckedTrue`, `NoneDropped` | `Spec => []IntegratedIsProved`, and of `AckedIsTrue`, `NoRequestDropped` |
| `IntegrationDeliveryProofs!MergedWhereAsked`, `CreationOver` | `Spec => MergedAtPlannedHead`, `Spec => CreationIsOver` |
| `IntegrationDeliveryProofs!Refinement` | `Spec => ImplementsDeliveryContract` |
| `FormalProofs!Invariance`, `TypeCorrect` | `Spec => []Inductive`, `Spec => []TypeOK` |
| `FormalProofs!AcceptanceKept`, `ContradictionApplied`, `DeliveryTrue`, `AcknowledgementTrue` | `Spec => []PendingKeepsAcceptance`, and of `InvalidationApplied`, `DeliveredIsMerged`, `AckedIsTrue` |
| `FormalProofs!MergesReviewed` | `Spec => MergesApprovedHead` |
| `AgentAttemptProofs!Invariance`, `TypeCorrect` | `Spec => []Inv`, `Spec => []TypeOK` |
| `AgentAttemptProofs!EventsOrdered` | `Spec => []EventsInOrder` |
| `AgentAttemptProofs!AssignmentKept` | `Spec => ResumedUnderItsAssignment` |
| `AgentAttemptProofs!Refinement` | `Spec => ImplementsAttemptContract` |
| `AgentPushProofs!Invariance`, `TypeCorrect` | `Spec => []Inv`, `Spec => []TypeOK` |
| `AgentPushProofs!FactsTrue`, `FencesShut`, `NeverLands` | `Spec => []FactsAreTrue`, `Spec => []FenceShuts`, `Spec => RevokedNeverLands` |
| `AgentPushProofs!Refinement` | `Spec => ImplementsPushContract` |

Assumptions: `DeliveryAssumption` and `IntegrationAssumption` of the integration
delivery (there are finitely many workers, or `Fresh` would find no free number; `Refuses`
is a truth value; `NoBinding` and `Gone` are no heads), `PushAssumption` of the agents'
pushes (a push asks for another commit than it starts from; executor, reconcilers and
nobody are told apart, and so are fencers and revokers); `GatesAssumption` and `FormalAssumption` of the formal delivery;
`AttemptAssumption` of the agent run; those of `BranchBinding` (`RefusalsAssumption`, `NoneAssumption`,
`BoundsAssumption`) and those of `Sandbox` on its constants (`MaxGenerationAssumption`,
`OpAssumption`, `TargetAssumption`, `PoliciesAssumption`, `MaxFaultsAssumption`,
`SentinelAssumption`, `NoMatAssumption`); TLC evaluates them in every run.

**Types.** `TypeOK` is not inductive: an action reads the command and the
materialization of its call, and a takeover reads the guard of the receipt it
takes. `Typed` adds `CallsBound` (a call past its claim has a command, and a
materialization unless it is still to find one) and `GuardsBound` (a receipt with
an owner is open; a guarded receipt has its guard). One lemma per group of
actions, on top of lemmas for the row edits and for the ways a call and a receipt
move.

**Consistency.** No transaction checks everything: `mark_secret_revoked` does not
look at the state, `release_capacity` does not look at the generation, and
`complete_cleanup` trusts a stamp. That they are right together needs
`Consistent`: the stamps of a row are closed under their order, agree with its
state and its target, and determine its lease and generation (`RowsFit`), and a
call about to take or commit a step has read a row that still holds its lease
(`CommitsBounded`: without it, a commit of "destroy" could not be excluded, which
only `complete_cleanup` may stamp). The argument has two halves. `NextSteps`:
under `Consistent`, every action of every call, fault or clock changes a
materialization in one of seven ways, or not at all (`RowStep`). `RowStepFits`:
each of the seven keeps a row in agreement. What is true of the seven steps is
then true of the system: `IntentStays` and `GenerationsInOrder` are case
analyses over `RowStep`. `CapacityIsConserved` adds that only three actions touch
the ledger (`LedgerSteps`) and that an empty ledger has no policy to exceed
(`Counted`).

**The links.** Between the row and the runner stand calls that act on what they read
some transactions ago. `Linked` adds to `Consistent` what they may rely on:

* `Knows`, for each place of a call: it works on a row whose cleanup has begun, on the
  subject of its receipt, and what it is about to record the runtime has done
  (`KnowsRow`, `KnowsReceipt`, `KnowsRuntime`);
* `Honest`, for each command: an open provision is still provisioning or being cleaned
  up, another bound command found its subject ready or being cleaned up, and a result
  says what stays true;
* `Mirrors`, for each materialization: the runtime has taken every step the row has
  stamped, and none whose predecessors are not stamped; what is READY exists;
* `OneReservation`: a materialization is reserved by one command.

None of them holds alone: `complete_cleanup` stamps what the call says it did
(`KnowsRuntime`), to a row the call read before others moved on (`KnowsRow`). What a row
may have become since it was read is `Later`: the same, or a row of a greater revision
that keeps every stamp and the course of its cleanup. Every write advances the revision,
so the compare-and-swap of a commit makes the row read the row that is there, and what
was true then is true now. All of this is about what only grows (`Grows`: rows become
later ones, the runtime forgets no step and no publication), so a step of one call leaves
the others' promises standing (`Frame`); `Work` and `Look` carry the call that moves, and
one lemma per group of actions is left. The properties that follow from the links are short.
`StaleOwnersAreHarmless` is a case analysis over the actions: one call moves
(`OneCallMoves`), and each of its writes is behind `_operation_row`. `GuardsSpentOnce` needs
`GuardsFit`, that a guard let through is older than its row: what lets a guard through
advances the revision it was compared with, and no step lowers it (`Grows`). For
`ContractIsImplemented` the seven ways of `RowStep` and the five actions that write the
runtime's record (`RuntimeWrites`) are each mapped to a step of the contract. TLC checked
`Linked` on the instances of the recovery, guard and liveness runs before it was proved.

**The branch saga.** Any number of workers, requests, commits, faults and edits.
The invariants are not inductive: what a worker will write was decided
transactions ago. `Inv` adds to them what a worker's locals promise of the rows
where the worker stands (`CallsFit`): one that holds the verdict "verified" has
seen the branch, and the branch never goes; one that tells success knows of a
succeeded effect, and success is final; one that is about to complete a refused
request has an answer on record, and answers are not removed. These promises are
about facts that only ever grow (`Onward`: an effect, once started, stays started,
once succeeded stays so; a branch stays; answers stay; a bound item stays bound).
So a step of one worker disturbs no other (`Undisturbed`, `OthersFit`), and each
action's lemma is about the worker that moves and the rows it writes. `Current`,
the compare-and-swap on state and attempts, is what `OutcomeIsFinal` rests on: a
worker to settle holds `IN_FLIGHT` or `RECONCILIATION`, never an outcome.
`NextMoves` then says which ways a step can change the effect, the item, the
branch and the answers (`Steps`); the action properties and the refinement are
case analyses over these ways.

**The integration delivery.** `Inv` has four parts besides the types. `Rows`: an effect
belongs to the request it was planned for and agrees with it; a binding comes of one
creation effect that is over, and has a merge request of its own; the platform merges
only what is bound; a merge is asked for only of a binding whose creation the work item
was told of; and the three invariants the run checks. `CallsFit` says for each of the
thirty places of a worker what its locals promise of the rows: whose job it is, which
effect, in which state it left it, which merge request it saw merged at which head.
`Leased`: no two workers hold the same attempt of a request; `Refusing`: the refusal
that is about to be told is the one that is stored, which `NoRequestDropped` needs.
Promises to others do not expire because what they speak of only grows (`Onward`,
`Undisturbed`): effects stay planned for their request and final once final, bindings
keep their merge request, a merged merge request stays merged at its head, processed
requests stay processed, answers stay. So again each action's lemma is about the worker
that moves. `IntegratedIsProved` cannot do without this chain: a merge effect is
SUCCEEDED because its worker stood at `settle`, and stood there because it had seen the
merge at the effect's head, by its own `Put` or by the verdict of the reconciler
(`Judge`). For the action properties and the contract `NextSteps` sorts all steps into
seven kinds (`Steps`). `CreationOver` then needs `Opened`: of a binding whose merge was
asked for the answer "ready" is on record, and since the outcome of its creation is
final, whatever is said of it again carries the key of that answer (`CreationToldOnce`).

**The formal delivery.** None of the four safety invariants is inductive alone: what
is shown as merged depends on what a callback says, which depends on the row of an
effect, which a worker wrote by what it had read. `Inductive` follows this chain.
`Typed` (`FormalTyping`) is the types, with what the locals of a call and the tables
they index have to do with one another. `Standing` is about
`requirement` alone: the acceptance stands while a delivery is pending, and
contradicted evidence does not outlive the last pending one. Every command and
callback that writes a formal state either leaves one pending or runs `Invalidate`
in the same transaction; that is the case analysis over `Record`. `Placed`
is about the way from a request to a merge: a merge request of a
work item exists for each binding, a request to merge names an approved head, a call
about to write names the merge request of its request's binding, and an effect that
succeeded has its merge request, or its merge at that very head. `Delivered` and
`Acked` join the two sides. A step of one worker leaves the promises of the others
because what they speak of only grows (`Grows`): a binding stays at its merge
request, a merged merge request stays merged at its head, an approval is never
removed, requests and answers stay. `MergesReviewed` follows from `Placed` at
`Put`: GitLab takes the merge only if the head is still the one that was sent, and
`RequestFits` says that head was approved.

**The agent run.** The number of an event says nothing of the one before it unless
the attempt's counter agrees with the end of the log (`LogFits`), which resuming resets:
the last event is then of the generation before. The assignment of a resumption is
checked two steps before the generation moves; `RequestFits` carries it there, and
holds because `Assign` waits for the lock. For the refinement what a worker is about
to record must be what the orchestrator said (`CallsFit`), which stays so since
the orchestrator never changes its answer, and no command may be decided on twice:
a generation is resumed into once and canceled only where nothing follows
(`CommandsFit`). `Record` is then a step of the contract because it compares the
state: a row that is still PLANNED or UNKNOWN has not been settled.

**The agents' pushes.** A fact is what became of its push because only who claimed the
row last may settle it; but a fence settles rows nobody claimed, in a transaction whose
list of rows was made before it commits. `LedgerFits` says what a row, its fact and its
owner have to do with one another; `OneFence` that an attempt has one fence under way,
since its row is locked; `ErrandsFit` that such a fence holds every open push it
covers, or the push `slipped`, and that a revocation under way has asked for, or still
lists, the branch of every push of its attempt that may land; `BarredFits` that the
broker bars what is recorded as revoked. `FenceShuts` is inductive only together with
them: what `CommitFence` shuts is what was open when it began, and nothing it covers
opens meanwhile but what slipped. `RevokedNeverLands` follows from `BarredFits` at
`PushLands` and `PushUnanswered`, whatever the row says by then: the broker checks what
it bars before it writes, whether its answer arrives or not. Both theorems, like the
properties, say nothing of what slipped past a fence's list; those pushes are the
ones told of under Findings.

Every invariant, action property and refinement of the passing runs is a theorem, and
so are `IntentIsFinal` and `ReadyIsServed`, which no run checks. Only model-checked are the
liveness properties (`CleanupConverges`, `ReservationResolves`, `RequestsEnd`,
`EffectResolves`, `EffectsSettle`, `CommandsSettle`, `RevocationSettles`): they rest
on fairness, hence on ENABLED, which is out of the prover's reach. The counterexamples
of the findings are TLC's as well.

## 5. Plan

*Done*: `Sandbox`, `BranchBinding`, `WorkItemDelivery` and `IntegrationDelivery`,
`FormalGates` and `FormalDelivery`, `AgentAttempt` and `AgentPush` with their
contracts and their runs, and all of their safety proved.

What is left, in order of importance:

1. The job workers of `model_gateway`: claims under a lease, a slow worker and its
   successor, results against a configuration that has moved on.
2. `identity` sessions, `authorization` orchestration, `configuration` drafts.
3. What several work items have to do with one another in a worker's batch: an
   effect that has moved ends the batch, and the others wait for their leases.

### Not modelled

* Routes, serialization, hashing, audit rows and notifications: they translate or
  record what a transaction did and decide nothing about the next.
* `identity`, `authorization`, `configuration`, `model_gateway`: not yet,
  see the plan. Most of their commands are one transaction under a compare-and-swap
  on a revision, where the protocols modelled here have many; the workers
  of `model_gateway` are the exception and come first.
* Drafting and editing a requirement, the gate policy, organization and workspace:
  records edited under a revision, read by the modelled parts as facts.
* Migrations, bootstrap, operator tools: the constraints that matter are in the
  models of the tables they guard; a tool is who calls a worker's command.
* Registration of repositories and receipt of webhooks: the models have their effect,
  that a project answers or not and that an effect in doubt falls due.

## 6. Running

    tlc -workers 2 -config SandboxRecovery.cfg MCSandbox
    tlapm SandboxTyping.tla
    tlapm SandboxProofs.tla
    tlc -workers 2 -config Binding.cfg MCBranchBinding
    tlapm BranchBindingProofs.tla
    tlc -workers 2 -config Delivery.cfg MCIntegrationDelivery
    tlc -workers 2 -config DeliveryLiveness.cfg MCIntegrationDelivery
    tlapm IntegrationDeliveryProofs.tla
    tlc -workers 2 -config Formal.cfg MCFormalDelivery
    tlc -workers 2 -config FormalRefresh.cfg MCFormalDelivery
    tlapm FormalTyping.tla
    tlapm FormalProofs.tla
    tlc -workers 2 -config Agent.cfg MCAgentAttempt
    tlapm AgentAttemptProofs.tla
    tlc -workers 2 -config AgentPush.cfg MCAgentPush
    tlapm AgentPushProofs.tla

`FormalRefresh.cfg`, `SandboxExpiry.cfg` and `BindingCallback.cfg` end with the counterexamples of the findings.
