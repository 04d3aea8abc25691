--------------------------- MODULE TaskScheduler ---------------------------
(***************************************************************************)
(* The task control plane of a run (backend/agent/scheduler.py and the     *)
(* plan fields of backend/agent/nodes.py, edges.py and tools.py): the      *)
(* Architect's plan is initialised, its tasks are scheduled one by one,    *)
(* the Developer's attempts are closed, a Reviewer verdict reopens tasks   *)
(* or ends the run.                                                        *)
(*                                                                         *)
(* A variable named as a field of agent/state.py State is that field.      *)
(* node is the graph node LangGraph runs next; a node and the conditional  *)
(* edge after it are one step, as they are one checkpoint.                 *)
(***************************************************************************)
EXTENDS TaskGraph

CONSTANTS Plans,               \* the plans an Architect may deliver
          Contents,            \* abstract contents of a file
          Baseline,            \* what every file holds when the run starts
          NoResult,            \* no entry in task_results
          MaxTaskRetries,      \* scheduler.py MAX_TASK_RETRIES
          MaxDeveloperRetries  \* edges.py MAX_DEVELOPER_RETRIES

ASSUME PlansAssumption == \A p \in Plans : ValidPlan(p)
ASSUME ContentsAssumption == Baseline \in Contents /\ NoResult \notin Contents
ASSUME RetryAssumption ==
    MaxTaskRetries \in Nat \ {0} /\ MaxDeveloperRetries \in Nat

VARIABLES
    node,
    refactor_plan, plan_status, task_statuses, active_task_id,
    completed_task_ids,            \* a list without repetitions: a set here
    task_failures,                 \* the ids that have a recorded failure
    task_retry_counts,
    task_results,                  \* per task: the content its result froze
    active_task_write_succeeded,
    budget_exceeded,
    retry_count,                   \* Developer rounds opened by a review
    written                        \* per task: what write_code_file last left in its file

planVars == <<refactor_plan, written>>
taskVars == <<task_statuses, completed_task_ids, task_failures,
              task_retry_counts, task_results>>
vars == <<node, planVars, plan_status, active_task_id, taskVars,
          active_task_write_succeeded, budget_exceeded, retry_count>>

Tasks == TaskIds(refactor_plan)
TaskStatus == {"pending", "running", "completed", "failed", "blocked"}
PlanStatus == {"fallback", "pending", "running", "completed", "failed"}
EndNode == {"prepare_workspace_approval", "cleanup_workspace", "raised"}
FinalizeNode ==
    {"finalize_budget_failure", "finalize_plan_failure", "finalize_review_failure"}
Node == EndNode \cup FinalizeNode \cup
    {"architect", "schedule_task", "developer", "complete_task", "reviewer",
     "developer_retry", "finalize_review_success"}

\* Nodes a run is at only when its whole plan, if it has one, is complete.
WholePlanNode ==
    {"reviewer", "developer_retry", "finalize_review_success",
     "finalize_review_failure", "prepare_workspace_approval"}

DynamicPlan == refactor_plan # NoPlan /\ plan_status # "fallback"

\* Mutant of ReadyTasks: the dependencies are not looked at.
ReadyRegardless ==
    {t \in Tasks \ completed_task_ids :
        /\ task_statuses[t] \in {"pending", "failed"}
        /\ task_retry_counts[t] < MaxTaskRetries}
ReadyTasks ==
    {t \in Unlocked(refactor_plan, completed_task_ids) :
        /\ task_statuses[t] \in {"pending", "failed"}
        /\ task_retry_counts[t] < MaxTaskRetries}

\* Mutant of FirstReady: tasks never tried go before one that failed.
FirstUntried ==
    LET untried == {t \in ReadyTasks : task_statuses[t] = "pending"}
        pool == IF untried = {} THEN ReadyTasks ELSE untried
    IN  CHOOSE t \in pool : \A u \in pool : t <= u
FirstReady == CHOOSE t \in ReadyTasks : \A u \in ReadyTasks : t <= u

\* Mutant of AllCompleted: a task that was tried counts.
NonePending(done) == \A t \in Tasks \ done : task_statuses[t] # "pending"
AllCompleted(done) == done = Tasks
-----------------------------------------------------------------------------
Init ==
    /\ node = "architect"
    /\ refactor_plan = NoPlan /\ plan_status = "pending"
    /\ task_statuses = <<>> /\ task_retry_counts = <<>> /\ task_results = <<>>
    /\ active_task_id = NoTask
    /\ completed_task_ids = {} /\ task_failures = {}
    /\ active_task_write_succeeded = FALSE /\ budget_exceeded = FALSE
    /\ retry_count = 0
    /\ written = <<>>

\* initialize_plan_execution, on the Architect's last response: a plan, or
\* NoPlan when the response holds no valid one.
ArchitectPlans(plan) ==
    /\ node = "architect"
    /\ refactor_plan' = plan
    /\ plan_status' = IF plan = NoPlan THEN "fallback" ELSE "pending"
    /\ task_statuses' = [t \in TaskIds(plan) |-> "pending"]
    /\ task_retry_counts' = [t \in TaskIds(plan) |-> 0]
    /\ task_results' = [t \in TaskIds(plan) |-> NoResult]
    /\ written' = [t \in TaskIds(plan) |-> Baseline]
    /\ completed_task_ids' = {} /\ task_failures' = {}
    /\ active_task_id' = NoTask /\ active_task_write_succeeded' = FALSE
    /\ node' = "schedule_task"
    /\ UNCHANGED <<budget_exceeded, retry_count>>

ArchitectExceedsBudget ==
    /\ node = "architect"
    /\ budget_exceeded' = TRUE
    /\ node' = "finalize_budget_failure"
    /\ UNCHANGED <<planVars, plan_status, active_task_id, taskVars,
                   active_task_write_succeeded, retry_count>>
-----------------------------------------------------------------------------
\* route_task_scheduler when no task was made active.
RouteWithoutTask(status) ==
    CASE status = "fallback"  -> "developer"
      [] status = "completed" -> "reviewer"
      [] OTHER -> IF budget_exceeded THEN "finalize_budget_failure"
                                     ELSE "finalize_plan_failure"

Schedulable ==
    DynamicPlan /\ plan_status \notin {"completed", "failed"}

\* schedule_next_task_node finds a ready task: the first in plan order.
ScheduleTask ==
    /\ node = "schedule_task" /\ Schedulable
    /\ ~AllCompleted(completed_task_ids) /\ ReadyTasks # {}
    /\ task_statuses' = [task_statuses EXCEPT ![FirstReady] = "running"]
    /\ active_task_id' = FirstReady
    /\ plan_status' = "running"
    /\ active_task_write_succeeded' = FALSE
    /\ node' = "developer"
    /\ UNCHANGED <<planVars, completed_task_ids, task_failures,
                   task_retry_counts, task_results, budget_exceeded, retry_count>>

\* The early returns of the same node, and its defensive end: with no ready
\* task left the pending ones are blocked and the plan fails.
ScheduleNothing ==
    /\ node = "schedule_task"
    /\ ~(Schedulable /\ ~AllCompleted(completed_task_ids) /\ ReadyTasks # {})
    /\ plan_status' =
         CASE ~Schedulable -> plan_status
           [] Schedulable /\ AllCompleted(completed_task_ids) -> "completed"
           [] OTHER -> "failed"
    /\ task_statuses' =
         IF plan_status' # plan_status /\ plan_status' = "failed"
         THEN [t \in Tasks |-> IF task_statuses[t] = "pending"
                               THEN "blocked" ELSE task_statuses[t]]
         ELSE task_statuses
    /\ active_task_id' = IF DynamicPlan THEN NoTask ELSE active_task_id
    /\ node' = RouteWithoutTask(plan_status')
    /\ UNCHANGED <<planVars, completed_task_ids, task_failures, task_retry_counts,
                   task_results, active_task_write_succeeded, budget_exceeded,
                   retry_count>>
-----------------------------------------------------------------------------
\* write_code_file under an active task: only that task's file can change.  A
\* call that fails after open(..., "w") may leave the file changed as well.
DeveloperWrites(content, success) ==
    /\ node = "developer" /\ active_task_id # NoTask
    /\ written' = [written EXCEPT ![active_task_id] = content]
    /\ active_task_write_succeeded' = success
    /\ UNCHANGED <<node, refactor_plan, plan_status, active_task_id, taskVars,
                   budget_exceeded, retry_count>>

\* A Developer response without tool calls, or one a budget replaced.
DeveloperEnds(exceeded) ==
    /\ node = "developer"
    /\ budget_exceeded' = exceeded
    /\ node' = IF DynamicPlan THEN "complete_task"
               ELSE IF exceeded THEN "finalize_budget_failure" ELSE "reviewer"
    /\ UNCHANGED <<planVars, plan_status, active_task_id, taskVars,
                   active_task_write_succeeded, retry_count>>
-----------------------------------------------------------------------------
\* complete_active_task_node when the write succeeded, the budget holds and
\* the dependency result could be built.
CompleteTask ==
    /\ node = "complete_task" /\ active_task_id # NoTask
    /\ active_task_write_succeeded /\ ~budget_exceeded
    /\ task_statuses' = [task_statuses EXCEPT ![active_task_id] = "completed"]
    /\ completed_task_ids' = completed_task_ids \cup {active_task_id}
    /\ task_failures' = task_failures \ {active_task_id}
    /\ task_results' = [task_results EXCEPT ![active_task_id] = written[active_task_id]]
    /\ plan_status' = IF AllCompleted(completed_task_ids') THEN "completed" ELSE "running"
    /\ active_task_id' = NoTask /\ active_task_write_succeeded' = FALSE
    /\ node' = "schedule_task"
    /\ UNCHANGED <<planVars, task_retry_counts, budget_exceeded, retry_count>>

\* The same node otherwise.  Building the result may raise, so a successful
\* write can end here as well.

\* Mutants: a retry too many, direct dependents only, a retried task left
\* running, a failure that is not counted.
ExhaustedLate(count) == budget_exceeded \/ count > MaxTaskRetries
StatusesBlockingDirect(task, exhausted) ==
    [t \in Tasks |->
        IF t = task THEN "failed"
        ELSE IF exhausted /\ task \in refactor_plan[t] THEN "blocked"
        ELSE task_statuses[t]]
StatusesLeftRunning(task, exhausted) ==
    [t \in Tasks |->
        IF t = task /\ exhausted THEN "failed"
        ELSE IF t # task /\ exhausted /\ t \in Downstream(refactor_plan, {task})
        THEN "blocked" ELSE task_statuses[t]]
FailureUncounted(task) == task_retry_counts[task]

FailureCount(task) == task_retry_counts[task] + 1
Exhausted(count) == budget_exceeded \/ count >= MaxTaskRetries
StatusesAfterFailure(task, exhausted) ==
    [t \in Tasks |->
        IF t = task THEN "failed"
        ELSE IF /\ exhausted
                /\ t \in Downstream(refactor_plan, {task})
                /\ task_statuses[t] # "failed"
             THEN "blocked"
        ELSE task_statuses[t]]

FailTask ==
    LET count == FailureCount(active_task_id) IN
    /\ node = "complete_task" /\ active_task_id # NoTask
    /\ task_retry_counts' = [task_retry_counts EXCEPT ![active_task_id] = count]
    /\ task_failures' = task_failures \cup {active_task_id}
    /\ task_statuses' = StatusesAfterFailure(active_task_id, Exhausted(count))
    /\ plan_status' = IF Exhausted(count) THEN "failed" ELSE "running"
    /\ active_task_id' = NoTask /\ active_task_write_succeeded' = FALSE
    /\ node' = "schedule_task"
    /\ UNCHANGED <<planVars, completed_task_ids, task_results, budget_exceeded,
                   retry_count>>
-----------------------------------------------------------------------------
\* Mutant of RetryLeft: one review round too many.
RetryLeftLate == retry_count <= MaxDeveloperRetries
RetryLeft == retry_count < MaxDeveloperRetries

\* route_reviewer on the Reviewer's final response.  Whether a success claim
\* has evidence, and whether a protocol retry is left, is AgentGraph's part.
ReviewerEnds(exceeded, next) ==
    /\ node = "reviewer"
    /\ budget_exceeded' = exceeded
    /\ IF exceeded THEN next = "finalize_budget_failure"
       ELSE \/ next = "developer_retry" /\ RetryLeft
            \/ next \in {"finalize_review_success", "finalize_review_failure"}
    /\ node' = next
    /\ UNCHANGED <<planVars, plan_status, active_task_id, taskVars,
                   active_task_write_succeeded, retry_count>>

\* parse_reviewer_failure_result: {} is a reply outside the protocol; it and
\* a reply naming a task outside the plan stand for the whole plan.
FailedTaskIds(reply) == IF reply = {} \/ ~(reply \subseteq Tasks) THEN Tasks ELSE reply

\* Mutant of ReopenedTasks: what was built on a named task is kept.
ReopenedNamedOnly(reply) == FailedTaskIds(reply)
ReopenedTasks(reply) == Downstream(refactor_plan, FailedTaskIds(reply))

\* Mutant of Reopen: the results of the reopened tasks stay.
ReopenKeepingResults(reopened) ==
    /\ task_statuses' = [t \in Tasks |-> IF t \in reopened THEN "pending"
                                         ELSE task_statuses[t]]
    /\ task_failures' = task_failures \ reopened
    /\ completed_task_ids' = completed_task_ids \ reopened
    /\ active_task_id' = NoTask /\ active_task_write_succeeded' = FALSE
    /\ plan_status' = "running"
    /\ UNCHANGED <<task_retry_counts, task_results>>

\* reopen_tasks_after_review.  Retry counts stay.
Reopen(reopened) ==
    /\ task_statuses' = [t \in Tasks |-> IF t \in reopened THEN "pending"
                                         ELSE task_statuses[t]]
    /\ task_failures' = task_failures \ reopened
    /\ task_results' = [t \in Tasks |-> IF t \in reopened THEN NoResult
                                        ELSE task_results[t]]
    /\ completed_task_ids' = completed_task_ids \ reopened
    /\ active_task_id' = NoTask /\ active_task_write_succeeded' = FALSE
    /\ plan_status' = "running"
    /\ UNCHANGED task_retry_counts

\* developer_retry_node.
DeveloperRetry(reply) ==
    /\ node = "developer_retry"
    /\ retry_count' = retry_count + 1
    /\ node' = "schedule_task"
    /\ IF DynamicPlan THEN Reopen(ReopenedTasks(reply))
       ELSE UNCHANGED <<taskVars, active_task_id, plan_status,
                        active_task_write_succeeded>>
    /\ UNCHANGED <<planVars, budget_exceeded>>
-----------------------------------------------------------------------------
\* finalize_budget_failure_node, finalize_plan_failure_node and
\* finalize_review_failure_node; all three are followed by the cleanup.
FinalizeFailure ==
    /\ node \in FinalizeNode
    /\ plan_status' = IF refactor_plan # NoPlan \/ node = "finalize_plan_failure"
                      THEN "failed" ELSE plan_status
    /\ node' = "cleanup_workspace"
    /\ UNCHANGED <<planVars, active_task_id, taskVars, active_task_write_succeeded,
                   budget_exceeded, retry_count>>

FinalizeReviewSuccess ==
    /\ node = "finalize_review_success"
    /\ node' = "prepare_workspace_approval"
    /\ UNCHANGED <<planVars, plan_status, active_task_id, taskVars,
                   active_task_write_succeeded, budget_exceeded, retry_count>>

\* A node raises (a model call fails, a time-out): stream_refactor cleans up.
NodeRaises ==
    /\ node \notin EndNode
    /\ node' = "raised"
    /\ UNCHANGED <<planVars, plan_status, active_task_id, taskVars,
                   active_task_write_succeeded, budget_exceeded, retry_count>>

\* The control plane has handed over; only stuttering is left.
Ended == node \in EndNode /\ UNCHANGED vars

Next ==
    \/ \E plan \in Plans \cup {NoPlan} : ArchitectPlans(plan)
    \/ ArchitectExceedsBudget
    \/ ScheduleTask \/ ScheduleNothing
    \/ \E content \in Contents, success \in BOOLEAN : DeveloperWrites(content, success)
    \/ \E exceeded \in BOOLEAN : DeveloperEnds(exceeded)
    \/ CompleteTask \/ FailTask
    \/ \E exceeded \in BOOLEAN, next \in Node : ReviewerEnds(exceeded, next)
    \/ \E reply \in SUBSET (Tasks \cup {MaxPlanTasks + 1}) : DeveloperRetry(reply)
    \/ FinalizeFailure \/ FinalizeReviewSuccess \/ NodeRaises \/ Ended

Spec == Init /\ [][Next]_vars
-----------------------------------------------------------------------------
TypeOK ==
    /\ node \in Node
    /\ refactor_plan \in Plans \cup {NoPlan}
    /\ plan_status \in PlanStatus
    /\ task_statuses \in [Tasks -> TaskStatus]
    /\ active_task_id \in Tasks \cup {NoTask}
    /\ completed_task_ids \in SUBSET Tasks
    /\ task_failures \in SUBSET Tasks
    /\ task_retry_counts \in [Tasks -> 0 .. MaxTaskRetries]
    /\ task_results \in [Tasks -> Contents \cup {NoResult}]
    /\ active_task_write_succeeded \in BOOLEAN
    /\ budget_exceeded \in BOOLEAN
    /\ retry_count \in 0 .. MaxDeveloperRetries
    /\ written \in [Tasks -> Contents]

\* No task runs, or counts as done, before everything it depends on is done,
\* however many tasks a review has reopened in between.
DependenciesFirst ==
    \A t \in Tasks :
        t \in completed_task_ids \/ t = active_task_id =>
            refactor_plan[t] \subseteq completed_task_ids

\* The result a task shows to its dependents describes its file as the
\* Developer left it: no rewrite after a review leaves a stale entry in
\* task_results.  (Tests that change files in the workspace are in AgentGraph.)
ResultsFresh ==
    \A t \in Tasks :
        /\ t \in completed_task_ids <=> task_results[t] # NoResult
        /\ t \in completed_task_ids => task_results[t] = written[t]

\* A live plan never runs out of ready tasks, so the defensive end of
\* schedule_next_task_node is not reached.
NeverStuck ==
    node = "schedule_task" /\ Schedulable /\ ~AllCompleted(completed_task_ids)
        => ReadyTasks # {}

\* route_task_scheduler: a dynamic plan is reviewed only when every task of it
\* is complete, and is accepted only in that state.
ReviewedOnlyWhole ==
    DynamicPlan /\ node \in WholePlanNode
        => \A t \in Tasks : task_statuses[t] = "completed" /\ t \in completed_task_ids

\* finalize_plan_failure_node reports the failure recorded last; there is never
\* more than one, because a failed task is retried before any other runs.
SoleFailure == \A t, u \in task_failures : t = u

\* Exactly the tasks behind the failure that ended the plan are blocked.
BlockedBehindFailure ==
    {t \in Tasks : task_statuses[t] = "blocked"} =
        IF plan_status = "failed"
        THEN Downstream(refactor_plan, task_failures) \ task_failures ELSE {}

\* The two records of progress agree: statuses and completed_task_ids, and
\* the running status and active_task_id.
StatusesAgree ==
    \A t \in Tasks :
        /\ task_statuses[t] = "completed" <=> t \in completed_task_ids
        /\ task_statuses[t] = "running" <=> t = active_task_id

\* The refinement mapping: a run that has left the control plane works on no
\* task, and its last node is the verdict.
CurrentTask == IF node \in EndNode THEN NoTask ELSE active_task_id
Verdict == IF node = "prepare_workspace_approval" THEN "accepted"
           ELSE IF node \in EndNode THEN "rejected" ELSE "open"

Abstract == INSTANCE PlanExecution
                WITH plan <- refactor_plan, done <- completed_task_ids,
                     current <- CurrentTask, verdict <- Verdict

\* Whatever the retries, reviews and budgets, the control plane carries a plan
\* out in dependency order and accepts only a whole one.
ImplementsPlanExecution == Abstract!Spec

-----------------------------------------------------------------------------
(***************************************************************************)
(* The inductive invariant: what each node may count on when it runs.      *)
(***************************************************************************)
NodeContext ==
    /\ plan_status = "fallback" => refactor_plan = NoPlan
    /\ refactor_plan = NoPlan => plan_status \in {"pending", "fallback"}
    /\ node = "architect" => refactor_plan = NoPlan
    /\ refactor_plan = NoPlan /\ plan_status = "pending" =>
         node \in {"architect", "finalize_budget_failure", "cleanup_workspace", "raised"}
    /\ node = "finalize_plan_failure" => refactor_plan # NoPlan
    /\ node \in WholePlanNode => completed_task_ids = Tasks /\ plan_status # "failed"
    /\ plan_status = "completed" => completed_task_ids = Tasks
    /\ active_task_id # NoTask => node \in {"developer", "complete_task", "raised"}
    /\ node \in {"developer", "complete_task"} =>
         \/ plan_status = "fallback" /\ node = "developer"
         \/ plan_status = "running" /\ active_task_id # NoTask
    /\ node = "developer_retry" => retry_count < MaxDeveloperRetries
    /\ node \in FinalizeNode => plan_status = "failed" \/ completed_task_ids = Tasks

\* While the plan lives no task is out of retries or blocked.
LiveTasksOpen ==
    plan_status # "failed" =>
        \A t \in Tasks : /\ task_retry_counts[t] < MaxTaskRetries
                         /\ task_statuses[t] # "blocked"

FirstOpen(t) ==
    /\ refactor_plan[t] \subseteq completed_task_ids
    /\ \A u \in Unlocked(refactor_plan, completed_task_ids) \ completed_task_ids : t <= u

\* The task under way, and one that failed and may be retried, are the first
\* open tasks in plan order; a recorded failure is of a task not completed.
FailureContext ==
    /\ \A t \in Tasks :
         /\ task_statuses[t] = "failed" => t \in task_failures
         /\ t \in task_failures => t \notin completed_task_ids
         /\ t = active_task_id => FirstOpen(t)
         /\ t \in task_failures /\ plan_status # "failed" => FirstOpen(t)

IInv ==
    /\ TypeOK /\ NodeContext /\ LiveTasksOpen /\ FailureContext
    /\ StatusesAgree /\ DependenciesFirst /\ ResultsFresh
    /\ SoleFailure /\ BlockedBehindFailure
-----------------------------------------------------------------------------
\* ADR-0004: pending tasks are blocked, and the plan fails, when no task is
\* ready.  Says that a plan is given up only then.
FailsOnlyWithoutReadyTask ==
    node = "schedule_task" /\ plan_status = "failed" /\ ~budget_exceeded
        => ReadyTasks = {}
=============================================================================
