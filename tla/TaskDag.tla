------------------------------- MODULE TaskDag -------------------------------
(***************************************************************************)
(* What the user sees of a run's plan: the events that stream_refactor      *)
(* (backend/agent/__init__.py) makes of the updates of the graph nodes, and *)
(* the diagram that applyDagEvent (frontend useTaskDag.ts) makes of those   *)
(* events.  The stream keeps the order of the events, so a node's events    *)
(* are reduced in the step of that node.                                    *)
(*                                                                         *)
(* An edge of the diagram is styled by the status of its source, and left   *)
(* out; so are the events the diagram ignores.                              *)
(***************************************************************************)
EXTENDS TaskAttempts, SequencesExt

CONSTANTS ArchitectTask, ReviewerTask       \* the two nodes beside the tasks

\* plans.py RESERVED_TASK_IDS.
ASSUME ReservedTaskIds ==
    ArchitectTask # ReviewerTask /\ ArchitectTask \notin Nat /\ ReviewerTask \notin Nat

VARIABLES
    dag,                        \* dagNodes: the status shown of each node
    last_emitted_plan_status,   \* local of stream_refactor
    told,                       \* history: the plan.failed events of the run
    outcome                     \* the run.completed or run.failed of the run

dagVars == <<vars, attempts, dag, last_emitted_plan_status, told, outcome>>

NoNodes == <<>>
Nodes == Tasks \cup {ArchitectTask, ReviewerTask}
Status == {"pending", "in_progress", "completed", "failed", "blocked"}
-----------------------------------------------------------------------------
(***************************************************************************)
(* useTaskDag.  An event carries the statuses of the tasks, or does not.    *)
(***************************************************************************)
NoSnapshot == <<>>
Event(type, id) == [type |-> type, id |-> id, statuses |-> NoSnapshot]

\* control_payload after the node's update.
WithSnapshot(type) == [type |-> type, id |-> NoTask, statuses |-> task_statuses']

Shown(status) == IF status = "running" THEN "in_progress" ELSE status

\* initializeDagFromPlan.
InitializeDag(tasks) ==
    [n \in tasks \cup {ArchitectTask, ReviewerTask} |->
        IF n = ArchitectTask THEN "completed" ELSE "pending"]

\* updateDagNodeStatus.
Update(nodes, id, status) ==
    IF id \in DOMAIN nodes THEN [nodes EXCEPT ![id] = status] ELSE nodes

\* applyBackendTaskSnapshot.
ApplySnapshot(nodes, statuses) ==
    [n \in DOMAIN nodes |-> IF n \in DOMAIN statuses THEN Shown(statuses[n]) ELSE nodes[n]]

\* Mutant of ApplyDagEvent: run.failed is taken for a log entry.
ApplyDagEventButOutcome(nodes, event) ==
    IF event.type = "plan.created"
    THEN ApplySnapshot(InitializeDag(DOMAIN event.statuses), event.statuses)
    ELSE IF event.statuses # NoSnapshot THEN ApplySnapshot(nodes, event.statuses)
    ELSE CASE event.type = "task.started"                -> Update(nodes, event.id, "in_progress")
           [] event.type = "task.completed"              -> Update(nodes, event.id, "completed")
           [] event.type = "run.budget.exceeded"         -> Update(nodes, event.id, "failed")
           [] event.type \in {"review.passed", "run.completed"} ->
                Update(nodes, ReviewerTask, "completed")
           [] event.type = "review.failed" -> Update(nodes, ReviewerTask, "failed")
           [] event.type = "run.retrying" -> Update(nodes, ReviewerTask, "in_progress")
           [] OTHER                       -> nodes

\* applyDagEvent; what an event with a snapshot says of its own task is in it.
ApplyDagEvent(nodes, event) ==
    IF event.type = "plan.created"
    THEN ApplySnapshot(InitializeDag(DOMAIN event.statuses), event.statuses)
    ELSE IF event.statuses # NoSnapshot THEN ApplySnapshot(nodes, event.statuses)
    ELSE CASE event.type = "task.started"                -> Update(nodes, event.id, "in_progress")
           [] event.type = "task.completed"              -> Update(nodes, event.id, "completed")
           [] event.type = "run.budget.exceeded"         -> Update(nodes, event.id, "failed")
           [] event.type \in {"review.passed", "run.completed"} ->
                Update(nodes, ReviewerTask, "completed")
           [] event.type \in {"review.failed", "run.failed"} -> Update(nodes, ReviewerTask, "failed")
           [] event.type = "run.retrying" -> Update(nodes, ReviewerTask, "in_progress")
           [] OTHER                       -> nodes

\* The branch of stream_refactor yields these events for the update at hand.
Yield(events) ==
    dag' = FoldLeft(ApplyDagEvent, dag, events)
-----------------------------------------------------------------------------
DagInit ==
    /\ AInit
    /\ dag = NoNodes /\ last_emitted_plan_status = "none" /\ told = 0 /\ outcome = "none"

Same == UNCHANGED <<last_emitted_plan_status, told, outcome>>

If(condition, event) == IF condition THEN <<event>> ELSE <<>>

BudgetExceeded(exceeded, id) == If(exceeded, Event("run.budget.exceeded", id))

DagArchitectPlans(plan) ==
    /\ ArchitectPlans(plan) /\ Same
    /\ Yield(<<Event("task.started", ArchitectTask)>>
             \o If(plan # NoPlan, WithSnapshot("plan.created"))
             \o <<Event("task.completed", ArchitectTask)>>)

DagArchitectExceedsBudget ==
    /\ ArchitectExceedsBudget /\ Same
    /\ Yield(<<Event("task.started", ArchitectTask)>> \o BudgetExceeded(TRUE, ArchitectTask))

DagScheduleTask == ScheduleTask /\ Same /\ Yield(<<WithSnapshot("task.started")>>)

\* schedule_task tells of a task that is started and of nothing else.
DagScheduleNothing == ScheduleNothing /\ Same /\ Yield(<<>>)

DagDeveloperWrites(content, success) ==
    DeveloperWrites(content, success) /\ Same /\ Yield(<<>>)

DagDeveloperEnds(exceeded) ==
    /\ DeveloperEnds(exceeded) /\ Same
    /\ Yield(BudgetExceeded(exceeded, active_task_id))

DagCompleteTask ==
    /\ CompleteTask
    /\ Yield(<<WithSnapshot("task.completed")>>
             \o If(plan_status' = "completed", WithSnapshot("plan.completed")))
    /\ last_emitted_plan_status' = IF plan_status' = "completed" THEN "completed"
                                   ELSE last_emitted_plan_status
    /\ UNCHANGED <<told, outcome>>

\* task.blocked, with the same snapshot, is left out.
DagFailTask ==
    LET failed == plan_status' = "failed" IN
    /\ FailTask
    /\ Yield(<<WithSnapshot("task.failed")>> \o If(failed, WithSnapshot("plan.failed")))
    /\ last_emitted_plan_status' = IF failed THEN "failed" ELSE last_emitted_plan_status
    /\ told' = IF failed THEN told + 1 ELSE told
    /\ UNCHANGED outcome

\* A response with tool calls, or one whose protocol is to be corrected.
DagReviewerContinues ==
    /\ node = "reviewer" /\ UNCHANGED <<vars, attempts>> /\ Same
    /\ Yield(<<Event("task.started", ReviewerTask)>>)

\* review.failed goes with a verdict to that effect, which is retried if it can
\* be.
DagReviewerEnds(exceeded, next) ==
    \E fails \in BOOLEAN :
        /\ ReviewerEnds(exceeded, next) /\ Same
        /\ next = "developer_retry" => fails
        /\ next = "finalize_review_success" => ~fails
        /\ Yield(<<Event("task.started", ReviewerTask)>>
                 \o BudgetExceeded(exceeded, ReviewerTask)
                 \o If(fails, Event("review.failed", ReviewerTask)))

\* Mutant of RetryEvents: the reopened tasks are not told of.
RetryEventsOnly(dynamic) == <<Event("run.retrying", ReviewerTask)>>
RetryEvents(dynamic) ==
    If(dynamic, WithSnapshot("task.failed")) \o <<Event("run.retrying", ReviewerTask)>>

DagDeveloperRetry(reply) ==
    DeveloperRetry(reply) /\ Same /\ Yield(RetryEvents(DynamicPlan))

\* Mutant of TellsFailure: whether it was told before is not asked.
TellsFailureAgain == refactor_plan # NoPlan \/ node = "finalize_plan_failure"
TellsFailure ==
    /\ refactor_plan # NoPlan \/ node = "finalize_plan_failure"
    /\ last_emitted_plan_status # "failed"

DagFinalizeFailure ==
    /\ FinalizeFailure
    /\ Yield(If(TellsFailure, WithSnapshot("plan.failed")))
    /\ last_emitted_plan_status' = IF TellsFailure THEN "failed" ELSE last_emitted_plan_status
    /\ told' = IF TellsFailure THEN told + 1 ELSE told
    /\ UNCHANGED outcome

\* The evidence is looked at again, and may be gone.
DagFinalizeReviewSuccess ==
    /\ FinalizeReviewSuccess /\ Same
    /\ \E verdict \in {"review.passed", "review.failed"} : Yield(<<Event(verdict, ReviewerTask)>>)

DagNodeRaises ==
    /\ NodeRaises
    /\ Yield(<<Event("run.failed", NoTask)>>) /\ outcome' = "failed"
    /\ UNCHANGED <<last_emitted_plan_status, told>>

\* What comes of the run: of an accepted plan, in the approval and the
\* application to the source (backend/app.py tells run.completed, and run.failed
\* of a review that failed).
RunEnds(result) ==
    /\ node \in {"prepare_workspace_approval", "cleanup_workspace"} /\ outcome = "none"
    /\ node = "cleanup_workspace" => result = "failed"
    /\ outcome' = result
    /\ Yield(<<Event(IF result = "completed" THEN "run.completed" ELSE "run.failed", NoTask)>>)
    /\ UNCHANGED <<vars, last_emitted_plan_status, told>>

DagEnded == outcome # "none" /\ UNCHANGED dagVars

DagStep ==
    \/ \E plan \in Plans \cup {NoPlan} : DagArchitectPlans(plan)
    \/ DagArchitectExceedsBudget
    \/ DagScheduleTask \/ DagScheduleNothing
    \/ \E content \in Contents, success \in BOOLEAN : DagDeveloperWrites(content, success)
    \/ \E exceeded \in BOOLEAN : DagDeveloperEnds(exceeded)
    \/ DagCompleteTask \/ DagFailTask
    \/ \E exceeded \in BOOLEAN, next \in Node : DagReviewerEnds(exceeded, next)
    \/ \E reply \in SUBSET (Tasks \cup {MaxPlanTasks + 1}) : DagDeveloperRetry(reply)
    \/ DagFinalizeFailure \/ DagFinalizeReviewSuccess \/ DagNodeRaises
    \/ \E result \in {"completed", "failed"} : RunEnds(result)

DagNext ==
    \/ DagStep /\ CountAttempt
    \/ DagReviewerContinues \/ DagEnded

DagSpec == DagInit /\ [][DagNext]_dagVars
-----------------------------------------------------------------------------
\* The diagram and the control plane agree after every event, though the diagram
\* is put together from snapshots and single changes; only the task whose
\* Developer has exceeded the budget is shown as failed before it is.
DagAgrees ==
    refactor_plan # NoPlan =>
        /\ DOMAIN dag = Nodes /\ dag[ArchitectTask] = "completed"
        /\ \A t \in Tasks :
             \/ dag[t] = Shown(task_statuses[t])
             \/ budget_exceeded /\ t = active_task_id /\ dag[t] = "failed"

\* The failure of a plan is told once, whichever of the four nodes is the first
\* to know, and never of a plan that goes on.
PlanFailureToldOnce ==
    /\ told <= 1
    /\ told = 1 => plan_status = "failed" /\ node \in {"schedule_task", "cleanup_workspace", "raised"} \cup FinalizeNode
    /\ node = "cleanup_workspace" /\ refactor_plan # NoPlan => told = 1

\* The Reviewer is shown as done only for a plan that is accepted and shown as
\* complete, and, after its last event, as the run ended.
VerdictShown ==
    dag # NoNodes =>
        /\ dag[ReviewerTask] = "completed" =>
             /\ node = "prepare_workspace_approval" /\ outcome # "failed"
             /\ \A n \in DOMAIN dag : dag[n] = "completed"
        /\ outcome # "none" => dag[ReviewerTask] = outcome

\* The inductive invariant: nodes are drawn with the plan, a budget is shown as
\* exceeded until the attempt is closed, and the stream remembers what it told.
DagContext ==
    /\ refactor_plan = NoPlan => dag = NoNodes
    /\ \A t \in Tasks : dag[t] = Shown(task_statuses[t]) \/ node \in {"complete_task", "raised"}
    /\ outcome \in {"none", "completed", "failed"}
    /\ outcome # "none" => node \in EndNode
    /\ told \in {0, 1} /\ (told = 1 <=> last_emitted_plan_status = "failed")

DagInv == DagContext /\ DagAgrees /\ PlanFailureToldOnce /\ VerdictShown
=============================================================================
