# Verification of the multi-agent refactoring service

TLA+ specifications of the backend in `src/backend` (a FastAPI service that runs a
LangGraph workflow of three model-driven agents over a copy of the user's code) and of
the page in `src/frontend` that drives it, the TLC configurations that check them, and
TLAPS proofs of what matters most. Paths below are relative to `src/`.

## 1. The system

A *run* takes a request through one graph: a directory with a copy of the user's
`CodeSmells/` tree is created; the **Architect** delivers a plan of tasks with
dependencies, one file each; a scheduler hands the tasks one by one to the **Developer**,
who may write only the file of the task at hand; when all tasks are done the **Reviewer**
runs the tests and accepts or rejects; a rejection reopens tasks; an accepted change is
shown to the user as one diff; the run is suspended until the user decides, and an
approved change is applied to the user's files. Budgets on model steps, tool calls and
tokens, limits on retries of tasks, review rounds and protocol misses bound all of it.

A run lives through several *requests*: the one that begins it ends when the graph waits
for the approval, and the one that brings the decision resumes it. Each has a thread that
runs the graph, a coroutine that sends its events, and a cleanup.

| component | code | state it keeps | operations | hard behaviours |
|---|---|---|---|---|
| plan validation | `backend/agent/plans.py` | none (pure) | validate, topological sort | cycles behind valid parts, two spellings of one file |
| task scheduler | `backend/agent/scheduler.py` | statuses, active task, completed list, failures, retry counts, results | initialise, schedule, complete/fail, reopen | reopening in mid-plan, stale results, blocking, two limits that add up |
| agent graph, routing | `backend/agent/workflow.py`, `edges.py`, `nodes.py` | next node, review status, protocol misses | 18 nodes, 6 conditional edges | nested loops, nine ways to end |
| budgets | `backend/agent/budgets.py` | `run_usage` | preflight, accounting | limit crossed in the middle of a response, against the framework's own limit |
| evidence gate, reducers | `backend/agent/state.py` | change records, test records | merge, digest, gate | evidence of a tree that is no longer there |
| tools | `backend/agent/tools.py` | files of the workspace | read, write, run tests | parallel calls, failing after the file was opened, tests that change files |
| isolated workspace | `backend/agent/workspace.py` | the run's directory | create, diff, clean up | removal on every path |
| atomic apply | `backend/agent/workspace.py` | backups, prepared files, applied list | preflight, prepare, commit, roll back | an editor at work on the same files, failure in mid-commit |
| run lifecycle | `backend/agent/run_lifecycle.py` | what is released, producer thread, retention | start, retain, cleanup, deferred cleanup | a producer that outlives its time-out, a release that fails, cleanup twice |
| run status registry | `backend/agent/run_status.py` | last status per run, expiry | start, update, get, prune | old lifecycle overwrites new, eviction |
| session registry | `backend/session_registry.py` | lease of the session's run, approval | begin/finish run, begin approval, decide, consume | replays, expiry under a waiting run |
| credential vault | `backend/agent/credentials.py` | keys by reference | store, resolve, revoke, expire | release on every path |
| stream service | `backend/app.py` | event queue, termination reason | request, resume, approve, stream, shutdown | disconnect against retention, a request that overtakes a cleanup |
| event projection | `backend/agent/__init__.py`, `events.py` | last emitted plan status | graph update to events | order and completeness of events |
| task DAG view | `frontend/src/composables/useTaskDag.ts` | status of each node shown | plan, snapshot, event | snapshots and single changes on one diagram |
| stream and approval UI | `frontend/src/composables/useRefactorStream.ts`, `useApprovalFlow.ts`, `useRunLifecycle.ts`, `useBackendSession.ts`, `useAgentChat.ts`, `App.vue` | generations, dialogue, status | stream, decide, refresh, reset | answers that come after they were superseded, two channels |

How they interact. The stream service leases the session's run, builds the budget and
the recursion limit, starts a producer thread that drives the graph, and forwards its
events; at the interrupt it opens an approval in the session registry and retains the
run; a decision consumed by a second request resumes the graph from its checkpoint. The
graph's nodes share one checkpointed state; the tool nodes also share the workspace
directory. The lifecycle releases credential, checkpoint, lease and workspace when a
request ends. The page reads one stream of events per request, listens to a WebSocket
beside it, and answers an approval on either channel; the diagram of the plan is reduced
from the events.

What makes each part correct: a plan is carried out in dependency order and accepted
only as a whole; a result handed to a dependent describes the current file; a live plan
always has something to do; failures are attributed to their cause; no budget is
overrun and the business budgets end a run before the framework does; every run settles;
what is applied to the user's source was tested, accepted and shown, and the outcome
reported is what happened; no thread works for a run that another one has taken over; a
run that waits can be resumed; somebody answers for whatever is held; every request ends;
the diagram shows the state of the backend; the page shows one run and becomes usable
again. `PROJECT.json` lists the hazards at their lines, with the properties that cover
them.

## 2. Modules

| module | what it is |
|---|---|
| `TaskGraph` | plans as dependency graphs: valid plans, downstream closure, unlocked tasks |
| `PlanExecution` | abstract: what the control plane promises about a plan |
| `TaskScheduler` | the control plane: plan fields of the graph state and the nodes and edges that change them |
| `TaskScheduler_proofs` | theorems about it |
| `TaskAttempts` | `TaskScheduler` with a history variable that counts attempts |
| `TaskAttempts_proofs` | theorems about it |
| `TaskDag` | `TaskAttempts` with the events of each node and the diagram reduced from them |
| `TaskDag_proofs` | theorems about it |
| `AgentGraph` | the whole graph: `TaskScheduler` with budgets, tools, workspace, evidence, approval |
| `AgentGraph_proofs` | theorems about it, and that it implements `TaskScheduler` |
| `PlanValidation` | the validator and the dependents' sweep, loop by loop, against `TaskGraph` |
| `PlanValidation_proofs` | theorems about it |
| `ApplyTransaction` | the application of an approved change, file by file, beside an editor |
| `ApplyTransaction_proofs` | theorems about it |
| `SessionRegistry` | the record of one session: lease, approval, decision |
| `RunStatusRegistry`, `CredentialVault` | the status of each run; the keys of the models |
| `RunLifecycle` | the cleanup of each request, with the three registries |
| `StreamService` | the requests of a session: handler, producer thread, generator, user, shutdown, over `RunLifecycle` |
| `StreamService_proofs` | theorems about it |
| `WorkbenchClient` | the page: session, WebSocket, stream, approval dialogue, what is shown |
| `WorkbenchClient_proofs` | theorems about it |
| `MC...` | instances for TLC |

Composition is by extension: `RunLifecycle` extends the registries and `StreamService`
extends it; `AgentGraph` and `TaskAttempts` extend `TaskScheduler`; `TaskDag` extends
`TaskAttempts`. The layers meet in abstractions of each other: to `StreamService` the
graph is the checkpoint and the workspace it leaves, to `WorkbenchClient` the service is
the order of its events.

**Plans.** Ids and files are unique in an accepted plan, so a task is its position: a
plan is a function from `1..n` to sets of positions. `refactor_plan = None` is the empty
function `NoPlan`. `PlanValidation` is where ids, paths and dependency lists still are
what the model delivered, and where it is shown that exactly the admissible ones pass.

**TaskScheduler.** A variable named as a field of `agent/state.py` is that field. `node`
is the graph node that runs next; a node and the conditional edge after it are one
action, since LangGraph writes one checkpoint for both. The contents of a task's file
are abstract values: `written[t]` is what `write_code_file` last left, and
`task_results[t]` the content that `_build_task_dependency_result` froze. A model
response is nondeterministic: any valid plan or none, any reply of the Reviewer,
including ids outside the plan. `CompleteTask` and `FailTask` may both be enabled after
a successful write because building the result may raise. Any node may raise.

**TaskAttempts** adds one history variable to answer how often a task is really
attempted; the code has no such count.

**TaskDag** gives each step of the scheduler the events that `stream_refactor` yields for
that node's update, in order, with their snapshots, and folds `applyDagEvent` over them.
The stream keeps the order of the events, so they are reduced in the same step. The
variables are `dag` (the status shown of each node) and the local
`last_emitted_plan_status`, by which the producer avoids telling a failure twice; `told`
and `outcome` are history. What follows an accepted plan, the approval and the
application, is one action here, `RunEnds`.

**AgentGraph** is a superposition: each of its steps is a step of `TaskScheduler` or
leaves its variables unchanged. `stage` distinguishes the nodes between which `node`
does not change (tool nodes, protocol retry, apply, cleanup). The token budget is a
verdict (`left`, `spent`, `crossed`) chosen freely at each model call. `tree` is the
working copy; `latest_test.snapshot`, `reviewed` and `shown` are the trees whose digests
the code keeps (a digest is what it is taken of). Tool calls of one response run in
parallel: of several writes to a file any may be last, a test run may see another one's
changes. 
The application is a chain of steps between `waiting` and `end`: the comparison of the
working copy with the reviewed and the shown digest (`CheckWorkspace`), that of the whole
source (`CheckSource`), the reading of each changed file and its backup (`PrepareFile`),
and for each file the comparison before its replacement (`CheckTarget`) and the
replacement (`ReplaceFile`). Any of them may fail, also the clean-up after the last one,
and of what had been replaced the rollback leaves some or nothing (`ApplyFails(kept)`).
`changed`, `staged` and `replaced` are the locals of that function. `TamperTree` is a
process that writes into the workspace after the review, `EditSource` the user editing the
source while the run waits, both at any time until the application is over. The checks
leave two windows per file: between the comparison of the working copy and the reading of
the file, and between the comparison of the target and its replacement. `intrusions` is
history: which files were written from outside, and whether in a window.

**PlanValidation** has one action per loop round of `validate_refactor_plan`,
`_assert_acyclic` and `_downstream_task_ids`. A path is a name with an identity
(canonical form, case folded) given by a table.

**ApplyTransaction** has one action per loop body of `_atomic_apply_workspace_locked`,
with `phase` the loop and `at` its file (`rollback` counts down), and one action for the
failure of each. The comparison of a target and the `os.replace` that relies on it are
two actions, so that an editor fits between them; so are the comparison before a rollback
and the restoration. The list `applied` is a prefix of the files and kept as its length.
`CleanFails` is an exception in the `finally` clause as `_workspace_failure_detail`
reports it. `AgentGraph` has the same loops over the trees, with the rollback and the
temporary files left out; here the prepared files are given, the working copy is not a part
of the module. `edits` is history: which files another program edited, and whether
before the backup was taken, in a window, or at another time. A directory at the path of
a target stands for whatever is no regular file.

**SessionRegistry, RunStatusRegistry, CredentialVault.** One session; each method holds
its registry's lock and is one operator. A run is named by the request that began it, an
approval by the request whose stream asked for it, a key by the request that brought it.
Requests are named in the order they arrive. Records may be dropped at any time, which
stands for their time-outs and for the limits of the registries.

**RunLifecycle.** `lifecycle[q]` is the object of request `q`, `active_runs[r]` what
`ActiveRunRegistry` has for run `r`. `cleanup` is where `_cleanup_impl` is: each await of
it is a step boundary, so the producer, other requests and other cleanups come in
between. A release may raise; it is recorded, the next one is tried, and the object stays
registered for another call. The producer may outlive its five seconds only in steps that
can be that long (`Slow`): in the graph, and in the snapshot before an approval.

**StreamService.** `request[q]` holds the locals of the handler and of `event_generator`
that two coroutines or threads share or that live across an await, `producer[q]` is the
statement `produce_events` has come to, `queue[q]` the queue between them. The handler is
cut where it awaits: `Admit`, then a decision is consumed or none found, then the lease is
taken, then the generator starts, which the server may never do (`LoseResponse`). The
graph begins, resumes, suspends, applies, fails or raises; `checkpoint` is what it leaves
for whoever looks next. The finally reads `termination` and `hitl_retained` at the moment it
runs (`CallCleanup`), whatever the producer is about to write. `UserDecides` needs only
that the user has been told of the approval, by the stream or the WebSocket. `Shutdown`
comes when no request is in progress: the server ends its requests before the lifespan's
shutdown runs. History: `approved`, `applied` (workspaces), and `overtaken`, the runs that
were resumed while the request that suspended them was not yet cleaned up.

**WorkbenchClient.** JavaScript runs to the next await: that is a step, and a continuation
that needs not wait (`Continues`) runs before any other event is handled. `current` is the
request `streamGeneration` stands for, `opening` the newest start of a session,
`screen` names for each part (plan, status, approval) the run it is of. While the approval
dialogue is open it covers the page (`frontend/src/styles/workspace.css:657`), so the user
can only decide. Events come in order on the stream and on the WebSocket, and in any order
between them. The backend is what the page can tell of it: it serves, refuses, asks,
ends or cancels.

## 3. Runs

| run | question | bounds | distinct states |
|---|---|---|---|
| `task_scheduler` | order, freshness, progress, attribution, refinement of `PlanExecution` | all valid plans of up to 3 tasks, 2 contents, 3 task retries (the code's value), 1 review round | 765,036 |
| `plan_given_up` | violation: a plan is given up while a task is ready | as above | |
| `task_dag` | the diagram agrees with the control plane, a failure is told once, the verdict shown is the outcome; attempts are bounded by both limits together | plans of 1 task, 2 in a row, 2 side by side, 2 in a row and 1 beside; 3 task retries, 2 review rounds | 379,185 |
| `agent_graph` | whole graph: budgets, evidence, application beside writes into the workspace and edits of the source, outcome, workspace | 1 task or fallback, 2 files, 9 model steps, 4 tool calls (2 in one response), 2 task retries, 1 review round, 1 protocol retry, 2 change records, writes from outside of up to 2 kinds (file and time) | 1,162,097 |
| `run_settles` | every run ends, aborts or waits for the user, and does so again after an approval | 1 file, 9 model steps, 2 tool calls, the same retries, 1 kind of write from outside | 11,391 |
| `plan_validation` | validator and sweep are exact | see below | 60,815 |
| `apply_transaction` | edits survive, originals stay, the report is true | every change of 1 and 2 files out of modified, created, created in a new directory, deleted; two changes of 3; 3 contents; edits of up to 3 kinds (file and time) | 1,238,389 |
| `stopped_before_writing` | violation: reported as stopped, yet applied | as above | |
| `stream_service` | ownership of the run, retention, accountability, truth of reports, every request ends | 2 requests, 1 fault (a release that raises or a record that expires) | 640,804 |
| `overtaken` | violation: a resumed run keeps its workspace | 2 requests, no fault | |
| `workbench_client` | the screen is of one run, the page becomes usable, a decision is carried out | 3 requests, 2 sessions, 2 clicks on an approval, channels that break | 447,239 |
| `answer_shown` | violation: the answer to a follow-up question is shown | 2 requests, 1 session, 1 click | |

*Why the bounds are enough.* Three tasks give every shape that matters to the scheduler:
chain, fork, join, independent tasks, and dependents listed before their dependencies.
One review round reopens any subset of them in any state of the retry counts; the proofs
cover all plans and limits. The plans of `task_dag` have a dependent to block, an
independent task to leave pending and a task to reopen alone, and two rounds let a task
fail, be completed, be reopened and fail for good. Nine model steps are what it takes to
plan, fail a task, retry it, be rejected, rework, miss the protocol once and be accepted,
with tool calls on the way; every limit is reached and passed in the state space, which
the mutants of the limits confirm. The validator runs on all two-task plans over five
paths (two of them one file, one outside the tree) and all dependency lists of length two
over known and unknown ids, all 3-task plans with every dependency relation, cyclic ones
included, and one plan too long. `MaxCallsPerTurn` bounds the calls in one response;
`supersteps` is counted up to one past the recursion limit. `MaxIntrusions` bounds the
kinds of writes from outside, not their number: two of them open both windows in one
application, or one window of both files. Two requests are a run and
the request that resumes it, or a run and the next one of the session: that is every pair
the code can set against each other, since a lease admits one run; the single fault can
strike at any release, expiry or discovery of either. Three requests of the page are a
first turn, its resumption or a question, and one more that supersedes either, in the
same session or in the next.

*Fairness.* `AgentGraph`: weak fairness of the graph's own nodes; LangGraph starts the
next node as soon as one is done, a model call is bounded by its time-out and a test run
by its own, so a node that is due runs; the steps of an application are parts of one
node, which is not interrupted. `StreamService`: as long as a handler, a producer,
a generator or a cleanup has a step to take, one is taken (`Step`); nobody has to send, to
answer or to leave, the time-out of the producer need not strike, nothing has to expire.
`WorkbenchClient`: the browser runs a continuation that is ready and reads what has
arrived, the start of a session comes to an answer or an error, and the backend ends the
streams it serves, which is what `EveryRequestEnds` says of it. No fairness is assumed of
the user, of tampering or of failures; a waiting run may wait for ever. `RunSettles` says
that a run stops in one of the ways it may, `BecomesUsable` that the page never stays busy,
`EveryRequestEnds` that the finite sequence of requests of a session comes to rest.

*Deadlock* is checked everywhere; a run that has ended, or a page that waits for its user,
stutters by an action of its own (`Ended`, `Resting`, `Decided`, `Over`, `DagEnded`).

*What properties leave out*, each time for a behaviour listed in the next section:
`AppliedAsReviewed` leaves out, file by file, what was written in one of the two windows;
`EditsRespected` an edit between the last comparison of a target and its replacement;
`OriginalKept` and `OutcomeTold` a file edited before its backup was taken; `OneProducer`,
`ProducerOwnsRun`, `WaitingRunKept`, `NothingForgotten` and `ToldTruly` say nothing of a run
that was `overtaken`, the first two nothing of the time after shutdown; `NothingForgotten`
names the `lost` requests as those that leak; `WaitingRunKept` and `ProducerOwnsRun` leave
out a run that was shown the graph of another, whose workspace is that one's to delete;
`DecisionCarriedOut` leaves out a decision clicked twice. The behaviours are in the state
space: without the exemption each of these fails. `ScreenOfOneRun` asks that one run is
shown, not which run of the session.

Every property of a passing run has a *mutant*, an operator beside the original that
changes it as a plausible bug would; under it TLC finds the property violated.

## 4. What the runs found

Against the repository's own words, each a run that is expected to fail:

- **A plan is given up early** (`plan_given_up`). `docs/architecture.md:96` and ADR-0004
  say the plan fails when a dependency failed and no task is ready.
  `complete_active_task_node` fails it as soon as one task is out of retries, though an
  independent task is ready; that task stays `pending`, neither run nor blocked. With it
  `NeverStuck` holds: the defensive branch of the scheduler, which implements the
  documented rule, is unreachable.
- **Applied, reported as stopped** (`stopped_before_writing`). If a backup cannot be
  unlinked after the last replacement, the exception of the `finally` clause reaches the
  node, which reports a failed validation; `workspace.py:146` then tells the user that the
  application stopped before it wrote. A partial rollback is hidden the same way.
- **A follow-up question is answered to nobody** (`answer_shown`). The chat invites the
  user to go on asking when a refactoring is done (`AgentChatroom.vue:34`), but the page
  keeps following the former run and drops every event and message of the new one, its
  approval included, while that run holds the lease of the session.
- **A request can overtake the cleanup of its own run** (`overtaken`). `app.py:779` says
  that the retention follows from the state verified against snapshot and approval. If the
  client leaves after the verification and before `hitl_retained` is set (`app.py:628`), the
  cleanup is told to retain nothing; the approval is announced on the WebSocket all the
  same, the user decides, the next request resumes the run, and the former cleanup deletes
  checkpoint, lease and workspace under it.

Also against its own words, found with the same models but without a run of their own:

- **More attempts than documented.** `docs/architecture.md:92`: at most 3 attempts per task.
  A review reopens tasks without resetting or consulting the count of failures
  (`scheduler.py:447`), so the bound is the sum of both limits, which
  `AttemptsWithinBothLimits` states and which the run `task_dag` reaches.
- **Misses are cumulative.** `nodes.py:512` and the message to the user speak of consecutive
  protocol misses; `review_protocol_errors` is never reset, so `ReviewerProtocolRetry` counts
  over the whole run.
- **Approved A, applied B.** `docs/security-model.md:59` says the digests of the working copy
  and of the diff are compared again so that this cannot be. The files are read once more
  after that comparison (`workspace.py:794`) and compared with nothing; what a process writes
  into the working copy in between is applied, and counts as the approved change. That is the
  first window of `AppliedAsReviewed`; the second, of the source, `docs/architecture.md:165`
  and ADR-0007 admit.
- **A late message binds the page to a former run.** `docs/architecture.md:113`, ADR-0001 and
  `docs/security-model.md:104` say that the page ignores late messages of an old run. A first
  turn empties `activeRunId`; the next message on the WebSocket fills it, whatever run it is
  of (`useBackendSession.ts:73`), and the events of the new run are then the ones that are
  dropped. `AnswerShown` is violated by this as well, in a longer behaviour than the one the
  run `answer_shown` prints; `ScreenOfOneRun` is not, it asks that one run is shown, of the
  session at hand, and not which.

Behaviours of the stream service and its cleanup that the properties have to name:

- **A lost request keeps its lease and its key** (`app.py:492`). Both are taken before the
  response's generator runs its first step; if it never does, or if the session expires
  between the calls of the handler, whose exception is not a `RunStateError`, nothing gives
  back what was taken.
- **The lease is given up though the checkpoint could not be deleted**
  (`run_lifecycle.py:349`). The next run of the session then finds the former run's
  suspended graph, and asks for the approval of that change.
- **Shutdown repeats a failed cleanup** (`run_lifecycle.py:439`, `:350`) by the session's
  thread, which may by then carry the checkpoint of a newer run; the newer run's
  checkpoint is deleted.
- A workspace that could not be found because the checkpoint could not be read is
  forgotten when the service shuts down. A completed run whose cleanup fails is reported as
  failed. The status of a long run may be dropped while it is under way.
- On the page: two clicks on *approve* resume the run twice, and the second request aborts
  the first (`useApprovalFlow.ts:74`).

And of the application of a change: the backup is not compared with the baseline
(`workspace.py:797`), so an edit made before it and undone after it is what a rollback
restores, reported as complete; a directory made for new files is removed
(`workspace.py:858`) before the prepared files still in it are (`workspace.py:881`), so it
stays if the commit had not come to them; and a file whose restoration raised is not among
the reported conflicts.

## 5. Proofs

`TaskScheduler_proofs` proves for every set of valid plans and all values of the limits
(`PlansAssumption`, `ContentsAssumption`, `RetryAssumption`, `MaxPlanTasksAssumption`):
`TypeCorrect`, `DependencyOrder`, `FreshResults`, `WholePlanReviewed`,
`NeverOutOfReadyTasks`, `OneFailure`, `FailureAttribution`, `OneStateOfEachTask`, and
`Implementation`, that `TaskScheduler` implements `PlanExecution` under the mapping of its
`Abstract` instance.

The argument. None of the properties is inductive alone. `IInv` adds `NodeContext` (what
each node may count on: a task is active only at the Developer and its completion, the
Reviewer is reached only with everything complete, ...), `LiveTasksOpen` (while the plan
lives no task is out of retries or blocked) and `FailureContext` (a failed task is the
first open task in plan order, which is why it is retried before any other runs and why
there is never a second failure). `Init => IInv` and one lemma per action give
`Invariance`. Two lemmas carry the graph theory: `DownstreamFacts` (the closure is the
least closed set) and `OpenTaskUnlocked` (in an acyclic plan that is not complete some
open task has all its dependencies done, by well-foundedness of the ranks), from which
`LivePlanIsReady` and so `NeverStuck` follow.

`TaskAttempts_proofs` proves the bounds on attempts, `AttemptAccounts` and
`AttemptBound`. `AttemptInv` adds `RetryUnspent` to the accounts: a task that is done or
under way has a retry left, so the attempt not yet paid for by a failure fits under the
limit. Steps that neither start an attempt nor take a completion back are one lemma,
`QuietStep`.

`AgentGraph_proofs` proves, with `BudgetAssumption` besides, `GraphImplementsScheduler`
(`GraphSpec => Spec`: every node of the graph is a step of the control plane or none, so
all theorems above hold of the graph) and `GraphTypeCorrect`, `ReportedOutcome`,
`ToolsStayWithinBudget`, `WorkspaceKept`, `RecursionLimitSuffices` and `AppliedTree`.
`AppliedTree` is for any number of writes into the workspace and edits of the source, at
any point of the application: what is applied is what was tested, accepted and shown,
except in the two windows. `ReportedOutcome` is about success: it is reported only when
every file to change was replaced and none put back; a failure may leave files replaced.
The invariant `GInv` is `IInv` with the types and `ControlInv`: what each `stage` may count
on (`StageContext`), that an exceeded budget stops tools (`BudgetStops`), what the review
records say of the tree (`ReviewContext`), and `SuperstepBudget`; and `TransactionContext`,
what the application has established of each file that was not written in a window: of its
content in the working copy until it is read, then of the prepared content, and of the list
of files to change. `SuperstepBudget` is the argument
for `build_graph_config`: a model call pays for three supersteps (itself, the node it leads
to, and the scheduler before it), `StepsPaid` says how much of that is spent at each node,
and the six supersteps the formula adds are the way from the call that is refused to END.

`ApplyTransaction_proofs` proves for every set of changes (`ChangesAssumption`) and any
number of edits: `EditsSurvive`, `OriginalsOnDisk`, `ReportDescribesFiles` and
`ApplyTypeCorrect`. Its `IInv` says of each loop what it has done to the files behind it
and has not to those before it (`FilePrepared`, `FileCommitted`, `FileRolledBack`), that a
backup is the baseline unless the file was edited before it was taken (`BackedUp`), that
every error of a rollback has its backup preserved or renamed (`LoopFacts`, `Kept`), and
that the last comparison still holds unless somebody used the window (`WindowFacts`). All
ways to give up on a file in a rollback are instances of one lemma, `FileGivenUp`.

`StreamService_proofs` proves for any number of requests and faults (`RequestsAssumption`):
`ServiceTypeCorrect`, `OneProducerAtATime`, and `NoKeyLeftBehind`, that a key is in the
vault only for a request that is still answered for or whose response was lost. Its
invariant has two parts. `Inv` is the types and `StreamContext`, what the parts of a
request know of each other: a cleanup runs only once the generator has left, a thread lives
on only while a cleanup waits for it, a key stays no longer than the first release.
`OneHolder` says that of all requests at most one holds the run (from taking the lease to
the release in its cleanup) and that the lease names its run. It is inductive because a run
begins only with the lease free; a cleanup releases the lease as the only holder; a
decision is consumed only when the request that asked has left, or else the run counts as
`overtaken`; and an approval is asked only by a thread at work, so none is pending while
a request that has taken the lease is yet to start.

What a run leaves behind needs more, `RunInvariance`, for any number of requests and
faults (`NoSession` and `NoCheckpoint` say that the absent session and checkpoint are no
records). From its invariant `RunInv` follow `GraphsKeepTheirCheckpoint`,
`KeptRunResumable`, `ToldAsItIs` and `SomebodyAnswers`, the four properties of the run
`stream_service` about checkpoints, waiting runs, reports and leaks. Its parts differ in
what they survive:

- `GeneralInv` holds always: a request, its object and its registration know the same run,
  and the status, the checkpoint and the object tell the same of an application.
- `UndisturbedInv` holds until a resumption overtakes a cleanup or the service shuts down:
  the interrupted checkpoint, the workspace and the lease belong to the request that was
  retained; no two requests work on the checkpoint; a run that was shown another one's
  graph does not count.
- `ApprovedOnly` survives the shutdown, `LeaseAnswered` survives both: a lease names a
  run whose request is yet to start, is registered as at work, or is retained.
- `FaultsCounted` and `OwnedInv` account for workspaces: without a fault every object that
  is done has released what it held, so even after shutdown each workspace has one
  registered object that knows of it (`Owns`), by its own field or by the checkpoint it
  will still read. It is inductive only together with `Unclean`, that at most one cleanup
  may still change the checkpoint.

`TaskDag_proofs` proves `DiagramAgrees`, `FailureToldOnce`, `VerdictTruthful` and
`StreamFollowsControlPlane` (`DagSpec => ASpec`, so that the theorems of the control plane
hold beside the diagram), for all plans that use no id of the diagram's fixed nodes
(`ReservedTaskIds`, which `validate_task_id` rejects). The events of one update are a short
sequence, so the fold over it unrolls; `DagContext` adds what lies between two updates:
nodes are drawn with the plan, and the stream remembers what it told. `IInv` of the
scheduler is what makes the snapshots right.

`PlanValidation_proofs` proves `AcceptedExactly`, `DegreesCount` and
`SweepFindsDependents` for plans of every size (`RawPlansAssumption`: they are sequences
of what pydantic has let through). `PlanInv` says of each loop what it has established
(`Checked`); of the sort, that the degrees and the stack are right (`Books`) and that what
was popped can be numbered along its dependencies (`Sorted`), which is the rank function by
which `TaskGraph` defines acyclic; if the stack is empty before everything was popped, the
tasks that are left have each a dependency among them, so no rank exists, its smallest
value would have a smaller one. Of the sweep: it added nothing but dependents, and
a pass that changed nothing has left none out. The closures are least fixed sets, so none
of this is induction over the plan.

`WorkbenchClient_proofs` proves for any number of requests, sessions and clicks
(`ClientAssumption`): `ShownRunIsFollowed`, `BusyOnlyWithRequest`, `OneDecisionCarriedOut`
and `ClientTypeCorrect`. `ClientInv` adds to them: what the backend knows of a request
(`RunContext`); that a current request that waits has a session or waits for one, and a
current open one is of the page's session with the page busy (`CurrentContext`); that the
first event a page reads of a run it does not follow yet is `run.started` or a refusal
(`Unheard`); and that messages on their way are of runs of the session (`PageContext`).
`Once` is the argument for decisions: a confirmation on its way, a decision awaited over
HTTP and a resumption under way of the same run exclude each other after a single click,
hence whatever supersedes a resumption in the same session was a second click
(`Superseded`).

The inductive invariants were checked by TLC before they were proved: `RunInv` with two
requests and two faults and by simulation with three requests, `ClientInv` on the instance
of the run `workbench_client`, `DagInv` and `PlanInv` on the instances of their runs.

Model-checked only: liveness (`RunSettles`, `EveryRequestEnds`, `BecomesUsable`), which is
out of the prover's reach. Every safety property of a passing run is a theorem.

## 6. Not modelled

Prompts, messages, event wording, model clients, the text syntax of plans and paths
(tables), token arithmetic (a verdict), digests (identified with what they cover), older
test records than the last (never read). The indexers, model catalog, network and path
predicates, evaluation harness and presentation code hold no state of a run.

Of the application: the lock (two applications of one service never overlap), reparse
points other than as failures, several levels of new directories, power loss. A killed
process is any state of the model in which it takes no further step.

Of the stream service: tokens and origins (a call with a wrong one is refused before it
changes anything), heartbeats, the endpoints that only read, several sessions (they share
nothing but the limits of the registries, which are the expiry of a record here), and a
start after a crash: workspaces survive the process, and with Redis the checkpoints, but
neither leases nor approvals do, so no code finds them again. Of the page: the bubbles of
the chat, forms, theme, and a backend that answers a decision with an error, which is
shown and changes nothing.

## 7. Plan

1. The application of one change refines the transaction of `AgentGraph`, its rollback and
   its temporary files hidden.
2. An abstract specification of what the session promises a client (a lease admits one
   run, a decision resumes the run that asked, once), implemented by `StreamService`
   while no cleanup is overtaken.
3. `WorkbenchClient` over the events of `StreamService` instead of its own backend.
