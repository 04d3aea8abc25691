------------------------ MODULE TaskScheduler_proofs ------------------------
EXTENDS TaskScheduler, WellFoundedInduction, TLAPS

LEMMA LeastElement ==
    ASSUME NEW S \in SUBSET Nat, S # {}
    PROVE  \E m \in S : \A k \in S : m <= k
<1> DEFINE Less == {ss \in Nat \X Nat : ss[1] < ss[2]}
<1>1. OpToRel(<, Nat) = Less
  BY Zenon DEF OpToRel
<1>2. IsWellFoundedOn(Less, Nat)
  BY <1>1, NatLessThanWellFounded, Zenon
<1> HIDE DEF Less
<1>3. PICK m \in S : \A k \in S : ~ (<<k, m>> \in Less)
  BY <1>2, WFMin, Zenon
<1>4. ASSUME NEW k \in S PROVE m <= k
  <2>1. k \in Nat /\ m \in Nat
    OBVIOUS
  <2>2. k < m => <<k, m>> \in Less
    BY <2>1 DEF Less
  <2>3. QED BY <1>3, <2>1, <2>2
<1>5. QED BY <1>4

-----------------------------------------------------------------------------
(* Plans and their closures. *)

\* A plan's tasks are positive numbers and depend on tasks of the plan.
LEMMA PlanType ==
    ASSUME NEW plan \in Plans \cup {NoPlan}
    PROVE  /\ TaskIds(plan) \in SUBSET (Nat \ {0})
           /\ NoTask \notin TaskIds(plan)
           /\ \A t \in TaskIds(plan) : plan[t] \in SUBSET TaskIds(plan)
<1>1. CASE plan = NoPlan
  BY <1>1 DEF NoPlan, TaskIds, NoTask
<1>2. CASE plan \in Plans
  <2>1. PICK n \in 1 .. MaxPlanTasks : plan \in [1 .. n -> SUBSET (1 .. n)]
    BY <1>2, PlansAssumption DEF ValidPlan
  <2>2. n \in Nat
    BY MaxPlanTasksAssumption
  <2>3. QED BY <2>1, <2>2 DEF TaskIds, NoTask
<1>3. QED BY <1>1, <1>2

LEMMA NoPlanEmpty == TaskIds(NoPlan) = {}
  BY DEF NoPlan, TaskIds

LEMMA EmptyFunction == \A S : <<>> \in [{} -> S]
  OBVIOUS

\* What the fixpoint loop of _downstream_task_ids is relied on for.
LEMMA DownstreamFacts ==
    ASSUME NEW plan, NEW roots \in SUBSET TaskIds(plan)
    PROVE  /\ Downstream(plan, roots) \in SUBSET TaskIds(plan)
           /\ roots \subseteq Downstream(plan, roots)
           /\ DownstreamClosed(plan, Downstream(plan, roots))
           /\ \A S \in SUBSET TaskIds(plan) :
                roots \subseteq S /\ DownstreamClosed(plan, S)
                    => Downstream(plan, roots) \subseteq S
<1>1. \A S \in SUBSET TaskIds(plan) :
        roots \subseteq S /\ DownstreamClosed(plan, S) => Downstream(plan, roots) \subseteq S
  BY DEF Downstream
<1>2. DownstreamClosed(plan, Downstream(plan, roots))
  <2>1. SUFFICES ASSUME NEW t \in TaskIds(plan),
                        NEW d \in plan[t] \cap Downstream(plan, roots),
                        NEW S \in SUBSET TaskIds(plan),
                        roots \subseteq S, DownstreamClosed(plan, S)
                 PROVE  t \in S
    BY DEF DownstreamClosed, Downstream
  <2>2. d \in S
    BY <1>1, <2>1
  <2>3. QED BY <2>1, <2>2 DEF DownstreamClosed
<1>3. QED BY <1>1, <1>2 DEF Downstream

\* In an acyclic plan some open task has all its dependencies done.
LEMMA OpenTaskUnlocked ==
    ASSUME NEW plan \in Plans \cup {NoPlan}, NEW done \in SUBSET TaskIds(plan),
           done # TaskIds(plan)
    PROVE  Unlocked(plan, done) \ done # {}
<1>1. plan \in Plans
  BY NoPlanEmpty
<1>2. PICK rank \in [TaskIds(plan) -> TaskIds(plan)] :
        \A t \in TaskIds(plan) : \A d \in plan[t] : rank[d] < rank[t]
  BY <1>1, PlansAssumption DEF ValidPlan, Acyclic
<1> DEFINE Open == TaskIds(plan) \ done
           Ranks == {rank[t] : t \in Open}
<1>3. Ranks \in SUBSET Nat /\ Ranks # {}
  BY <1>2, PlanType
<1>4. PICK m \in Ranks : \A k \in Ranks : m <= k
  BY <1>3, LeastElement
<1>5. PICK t \in Open : rank[t] = m
  BY <1>4
<1>6. ASSUME NEW d \in plan[t], d \notin done PROVE FALSE
  <2>1. d \in Open
    BY <1>5, <1>6, PlanType
  <2>2. rank[d] < rank[t]
    BY <1>2, <1>5
  <2>3. rank[t] <= rank[d]
    BY <1>4, <1>5, <2>1
  <2>4. rank[d] \in Nat /\ rank[t] \in Nat
    BY <1>3, <1>5, <2>1
  <2>5. QED BY <2>2, <2>3, <2>4
<1>7. QED BY <1>5, <1>6 DEF Unlocked
-----------------------------------------------------------------------------
(* The inductive invariant, action by action. *)

\* The least ready task is what the scan of the scheduler stops at.
LEMMA FirstReadyFacts ==
    ASSUME TypeOK, ReadyTasks # {}
    PROVE  FirstReady \in ReadyTasks /\ \A u \in ReadyTasks : FirstReady <= u
<1>1. ReadyTasks \in SUBSET Nat
  BY PlanType DEF TypeOK, ReadyTasks, Unlocked, Tasks
<1>2. PICK m \in ReadyTasks : \A u \in ReadyTasks : m <= u
  BY <1>1, LeastElement
<1>3. QED BY <1>2 DEF FirstReady

\* NeverStuck, from the invariant: the defensive end is unreachable.
LEMMA LivePlanIsReady ==
    ASSUME IInv, node = "schedule_task", Schedulable, ~AllCompleted(completed_task_ids)
    PROVE  ReadyTasks # {}
<1>1. PICK t \in Unlocked(refactor_plan, completed_task_ids) : t \notin completed_task_ids
  BY OpenTaskUnlocked DEF IInv, TypeOK, AllCompleted, Tasks
<1>2. t \in Tasks /\ t # active_task_id /\ plan_status # "failed"
  BY <1>1, PlanType DEF IInv, TypeOK, NodeContext, Unlocked, Tasks, Schedulable
<1>3. task_statuses[t] \in {"pending", "failed"} /\ task_retry_counts[t] < MaxTaskRetries
  BY <1>1, <1>2 DEF IInv, TypeOK, LiveTasksOpen, StatusesAgree, TaskStatus
<1>4. QED BY <1>1, <1>3 DEF ReadyTasks

LEMMA InitInvariant == Init => IInv
<1> SUFFICES ASSUME Init PROVE IInv
  OBVIOUS
<1>1. Tasks = {}
  BY NoPlanEmpty DEF Init, Tasks
<1>2. TypeOK
  <2>1. /\ node \in Node /\ refactor_plan \in Plans \cup {NoPlan}
        /\ plan_status \in PlanStatus /\ active_task_id \in Tasks \cup {NoTask}
        /\ completed_task_ids \in SUBSET Tasks /\ task_failures \in SUBSET Tasks
    BY DEF Init, Node, PlanStatus
  <2>2. /\ task_statuses \in [Tasks -> TaskStatus]
        /\ task_retry_counts \in [Tasks -> 0 .. MaxTaskRetries]
        /\ task_results \in [Tasks -> Contents \cup {NoResult}]
        /\ written \in [Tasks -> Contents]
    BY <1>1, EmptyFunction DEF Init
  <2>3. /\ active_task_write_succeeded \in BOOLEAN /\ budget_exceeded \in BOOLEAN
        /\ retry_count \in 0 .. MaxDeveloperRetries
    <3>1. active_task_write_succeeded = FALSE /\ budget_exceeded = FALSE
      BY Zenon DEF Init
    <3>2. active_task_write_succeeded \in BOOLEAN /\ budget_exceeded \in BOOLEAN
      BY <3>1, Zenon
    <3>3. QED BY <3>2, RetryAssumption DEF Init
  <2>4. QED BY <2>1, <2>2, <2>3 DEF TypeOK
<1>3. NodeContext
  BY <1>1 DEF Init, NodeContext, WholePlanNode, FinalizeNode
<1>4. LiveTasksOpen /\ FailureContext /\ StatusesAgree /\ DependenciesFirst
       /\ ResultsFresh /\ SoleFailure
  BY <1>1 DEF Init, LiveTasksOpen, FailureContext, StatusesAgree, DependenciesFirst,
              ResultsFresh, SoleFailure
<1>5. BlockedBehindFailure
  BY <1>1 DEF Init, BlockedBehindFailure
<1>6. QED BY <1>2, <1>3, <1>4, <1>5 DEF IInv

LEMMA ArchitectPlansStep ==
    ASSUME IInv, NEW plan \in Plans \cup {NoPlan}, ArchitectPlans(plan)
    PROVE  IInv'
<1>1. Tasks' = TaskIds(plan) /\ NoTask \notin TaskIds(plan)
  BY PlanType DEF ArchitectPlans, Tasks
<1>2. TypeOK'
  <2>1. /\ node' \in Node /\ refactor_plan' \in Plans \cup {NoPlan}
        /\ plan_status' \in PlanStatus /\ active_task_id' \in Tasks' \cup {NoTask}
        /\ completed_task_ids' \in SUBSET Tasks' /\ task_failures' \in SUBSET Tasks'
    BY DEF ArchitectPlans, Node, PlanStatus
  <2>2. /\ task_statuses' \in [Tasks' -> TaskStatus]
        /\ task_retry_counts' \in [Tasks' -> 0 .. MaxTaskRetries]
        /\ task_results' \in [Tasks' -> Contents \cup {NoResult}]
        /\ written' \in [Tasks' -> Contents]
    BY <1>1, RetryAssumption, ContentsAssumption DEF ArchitectPlans, TaskStatus
  <2>3. /\ active_task_write_succeeded' \in BOOLEAN /\ budget_exceeded' \in BOOLEAN
        /\ retry_count' \in 0 .. MaxDeveloperRetries
    BY DEF ArchitectPlans, IInv, TypeOK
  <2>4. QED BY <2>1, <2>2, <2>3 DEF TypeOK
<1>3. NodeContext'
  BY <1>1 DEF ArchitectPlans, NodeContext, WholePlanNode, FinalizeNode
<1>4. (LiveTasksOpen /\ FailureContext /\ StatusesAgree /\ DependenciesFirst
       /\ ResultsFresh /\ SoleFailure)'
  BY <1>1, RetryAssumption DEF ArchitectPlans, LiveTasksOpen, FailureContext,
     StatusesAgree, DependenciesFirst, ResultsFresh, SoleFailure
<1>5. BlockedBehindFailure'
  BY <1>1 DEF ArchitectPlans, BlockedBehindFailure
<1>6. QED BY <1>2, <1>3, <1>4, <1>5 DEF IInv

LEMMA ArchitectExceedsBudgetStep ==
    ASSUME IInv, ArchitectExceedsBudget
    PROVE  IInv'
<1>1. Tasks' = Tasks
  BY DEF ArchitectExceedsBudget, planVars, Tasks
<1>2. TypeOK'
  BY <1>1 DEF IInv, TypeOK, ArchitectExceedsBudget, planVars, taskVars, Node, FinalizeNode
<1>3. NodeContext'
  BY <1>1, NoPlanEmpty DEF IInv, TypeOK, NodeContext, ArchitectExceedsBudget, planVars,
     taskVars, WholePlanNode, FinalizeNode, Tasks
<1>4. (LiveTasksOpen /\ FailureContext /\ StatusesAgree /\ DependenciesFirst
       /\ ResultsFresh /\ SoleFailure)'
  BY <1>1 DEF IInv, ArchitectExceedsBudget, planVars, taskVars, LiveTasksOpen,
     FailureContext, FirstOpen, StatusesAgree, DependenciesFirst, ResultsFresh, SoleFailure
<1>5. BlockedBehindFailure'
  BY <1>1 DEF IInv, ArchitectExceedsBudget, planVars, taskVars, BlockedBehindFailure
<1>6. QED BY <1>2, <1>3, <1>4, <1>5 DEF IInv

LEMMA ScheduleTaskStep ==
    ASSUME IInv, ScheduleTask
    PROVE  IInv'
<1> DEFINE next == FirstReady
<1>1. /\ Tasks' = Tasks /\ next \in Tasks /\ next \in ReadyTasks
      /\ \A u \in ReadyTasks : next <= u
  BY FirstReadyFacts, PlanType
  DEF ScheduleTask, planVars, Tasks, IInv, TypeOK, ReadyTasks, Unlocked
<1>2. /\ plan_status \notin {"fallback", "completed", "failed"}
      /\ active_task_id = NoTask /\ NoTask \notin Tasks /\ refactor_plan # NoPlan
  BY PlanType DEF ScheduleTask, Schedulable, DynamicPlan, IInv, TypeOK, NodeContext, Tasks
<1>3. /\ refactor_plan[next] \subseteq completed_task_ids /\ next \notin completed_task_ids
      /\ task_retry_counts[next] < MaxTaskRetries
  BY <1>1 DEF ReadyTasks, Unlocked, IInv, StatusesAgree
<1> HIDE DEF next
<1>4. /\ task_statuses' = [task_statuses EXCEPT ![next] = "running"]
      /\ active_task_id' = next /\ plan_status' = "running" /\ node' = "developer"
      /\ active_task_write_succeeded' = FALSE
      /\ UNCHANGED <<refactor_plan, written, completed_task_ids, task_failures,
                     task_retry_counts, task_results, budget_exceeded, retry_count>>
  BY DEF ScheduleTask, planVars, next
<1>5. TypeOK'
  BY <1>1, <1>4 DEF IInv, TypeOK, Node, PlanStatus, TaskStatus
<1>6. NodeContext'
  BY <1>1, <1>2, <1>4 DEF IInv, TypeOK, NodeContext, WholePlanNode, FinalizeNode
<1>7. (LiveTasksOpen /\ StatusesAgree)'
  BY <1>1, <1>2, <1>3, <1>4 DEF IInv, TypeOK, LiveTasksOpen, StatusesAgree
<1>8. (DependenciesFirst /\ ResultsFresh /\ SoleFailure)'
  BY <1>1, <1>2, <1>3, <1>4 DEF IInv, TypeOK, DependenciesFirst, ResultsFresh, SoleFailure
<1>9. FailureContext'
  <2>1. FirstOpen(next)
    <3>1. ASSUME NEW u \in Unlocked(refactor_plan, completed_task_ids) \ completed_task_ids
          PROVE  u \in ReadyTasks
      <4>1. u \in Tasks /\ u # active_task_id
        BY <1>2, PlanType DEF Unlocked, Tasks, IInv, TypeOK
      <4>2. task_statuses[u] \in {"pending", "failed"} /\ task_retry_counts[u] < MaxTaskRetries
        BY <1>2, <4>1 DEF IInv, TypeOK, LiveTasksOpen, StatusesAgree, TaskStatus
      <4>3. QED BY <4>2 DEF ReadyTasks
    <3>2. QED BY <1>1, <1>3, <3>1 DEF FirstOpen
  <2>2. \A t : FirstOpen(t)' <=> FirstOpen(t)
    BY <1>4 DEF FirstOpen
  <2>3. QED BY <1>1, <1>2, <1>3, <1>4, <2>1, <2>2 DEF IInv, TypeOK, FailureContext
<1>10. BlockedBehindFailure'
  BY <1>1, <1>2, <1>4 DEF IInv, TypeOK, BlockedBehindFailure, LiveTasksOpen
<1>11. QED BY <1>5, <1>6, <1>7, <1>8, <1>9, <1>10 DEF IInv

LEMMA ScheduleNothingStep ==
    ASSUME IInv, ScheduleNothing
    PROVE  IInv'
<1>1. /\ Tasks' = Tasks /\ node = "schedule_task"
      /\ UNCHANGED <<refactor_plan, written, completed_task_ids, task_failures,
                     task_retry_counts, task_results, active_task_write_succeeded,
                     budget_exceeded, retry_count>>
  BY DEF ScheduleNothing, planVars, Tasks
<1>2. active_task_id = NoTask /\ active_task_id' = NoTask
  BY <1>1 DEF ScheduleNothing, IInv, NodeContext
<1>3. /\ ~Schedulable => plan_status' = plan_status
      /\ Schedulable => plan_status' = "completed" /\ completed_task_ids = Tasks
      /\ plan_status' # "failed" \/ plan_status = "failed"
      /\ task_statuses' = task_statuses
  BY LivePlanIsReady DEF ScheduleNothing, AllCompleted, Schedulable
<1>4. /\ refactor_plan = NoPlan <=> plan_status = "fallback"
      /\ plan_status \in PlanStatus
      /\ plan_status = "completed" => completed_task_ids = Tasks
  BY <1>1 DEF IInv, TypeOK, NodeContext
<1>5. \/ plan_status = "fallback" /\ plan_status' = "fallback" /\ node' = "developer"
      \/ plan_status' = "completed" /\ completed_task_ids = Tasks /\ node' = "reviewer"
         /\ refactor_plan # NoPlan /\ plan_status # "failed"
      \/ /\ plan_status = "failed" /\ plan_status' = "failed" /\ refactor_plan # NoPlan
         /\ node' \in {"finalize_budget_failure", "finalize_plan_failure"}
  BY <1>3, <1>4 DEF ScheduleNothing, RouteWithoutTask, Schedulable, DynamicPlan, PlanStatus
<1>6. TypeOK'
  BY <1>1, <1>2, <1>3, <1>5 DEF IInv, TypeOK, Node, FinalizeNode, PlanStatus
<1>7. NodeContext'
  BY <1>1, <1>2, <1>5 DEF IInv, TypeOK, NodeContext, WholePlanNode, FinalizeNode
<1>8. (LiveTasksOpen /\ StatusesAgree /\ DependenciesFirst /\ ResultsFresh /\ SoleFailure)'
  BY <1>1, <1>2, <1>3, <1>5 DEF IInv, LiveTasksOpen, StatusesAgree, DependenciesFirst,
     ResultsFresh, SoleFailure
<1>9. FailureContext'
  BY <1>1, <1>2, <1>3, <1>5 DEF IInv, FailureContext, FirstOpen
<1>10. BlockedBehindFailure'
  BY <1>1, <1>3, <1>5 DEF IInv, BlockedBehindFailure
<1>11. QED BY <1>6, <1>7, <1>8, <1>9, <1>10 DEF IInv

LEMMA DeveloperWritesStep ==
    ASSUME IInv, NEW content \in Contents, NEW success \in BOOLEAN,
           DeveloperWrites(content, success)
    PROVE  IInv'
<1>1. /\ Tasks' = Tasks /\ active_task_id \in Tasks
      /\ written' = [written EXCEPT ![active_task_id] = content]
      /\ active_task_write_succeeded' = success
      /\ UNCHANGED <<node, refactor_plan, plan_status, active_task_id, taskVars,
                     budget_exceeded, retry_count>>
  BY DEF DeveloperWrites, Tasks, IInv, TypeOK
<1>2. active_task_id \notin completed_task_ids
  BY <1>1 DEF IInv, StatusesAgree
<1>3. TypeOK'
  BY <1>1 DEF IInv, TypeOK, taskVars
<1>4. (NodeContext /\ LiveTasksOpen /\ StatusesAgree /\ DependenciesFirst /\ SoleFailure)'
  BY <1>1 DEF IInv, NodeContext, LiveTasksOpen, StatusesAgree, DependenciesFirst,
     SoleFailure, taskVars
<1>5. FailureContext'
  BY <1>1 DEF IInv, FailureContext, FirstOpen, taskVars
<1>6. ResultsFresh'
  BY <1>1, <1>2 DEF IInv, TypeOK, ResultsFresh, taskVars
<1>7. BlockedBehindFailure'
  BY <1>1 DEF IInv, BlockedBehindFailure, taskVars
<1>8. QED BY <1>3, <1>4, <1>5, <1>6, <1>7 DEF IInv

LEMMA DeveloperEndsStep ==
    ASSUME IInv, NEW exceeded \in BOOLEAN, DeveloperEnds(exceeded)
    PROVE  IInv'
<1>1. /\ Tasks' = Tasks /\ node = "developer"
      /\ budget_exceeded' = exceeded
      /\ UNCHANGED <<refactor_plan, written, plan_status, active_task_id, taskVars,
                     active_task_write_succeeded, retry_count>>
  BY DEF DeveloperEnds, planVars, Tasks
<1>2. \/ plan_status = "fallback" /\ refactor_plan = NoPlan /\ active_task_id = NoTask
         /\ node' \in {"finalize_budget_failure", "reviewer"}
      \/ plan_status = "running" /\ refactor_plan # NoPlan /\ active_task_id # NoTask
         /\ node' = "complete_task"
  <2>1. refactor_plan = NoPlan => Tasks = {}
    BY NoPlanEmpty DEF Tasks
  <2>2. QED BY <1>1, <2>1 DEF DeveloperEnds, DynamicPlan, IInv, TypeOK, NodeContext
<1>3. TypeOK'
  BY <1>1, <1>2 DEF IInv, TypeOK, taskVars, Node, FinalizeNode
<1>4. NodeContext'
  <2>1. refactor_plan = NoPlan => completed_task_ids = Tasks
    BY NoPlanEmpty DEF Tasks, IInv, TypeOK
  <2>2. QED BY <1>1, <1>2, <2>1
     DEF IInv, TypeOK, NodeContext, taskVars, WholePlanNode, FinalizeNode
<1>5. (LiveTasksOpen /\ StatusesAgree /\ DependenciesFirst /\ ResultsFresh /\ SoleFailure)'
  BY <1>1 DEF IInv, LiveTasksOpen, StatusesAgree, DependenciesFirst, ResultsFresh,
     SoleFailure, taskVars
<1>6. FailureContext'
  BY <1>1 DEF IInv, FailureContext, FirstOpen, taskVars
<1>7. BlockedBehindFailure'
  BY <1>1 DEF IInv, BlockedBehindFailure, taskVars
<1>8. QED BY <1>3, <1>4, <1>5, <1>6, <1>7 DEF IInv

\* The node runs with its task: the first open one, its dependencies done.
LEMMA ActiveTaskFacts ==
    ASSUME IInv, node = "complete_task", active_task_id # NoTask
    PROVE  /\ active_task_id \in Tasks /\ active_task_id \notin completed_task_ids
           /\ plan_status = "running" /\ refactor_plan # NoPlan
           /\ refactor_plan[active_task_id] \subseteq completed_task_ids
           /\ task_failures \subseteq {active_task_id}
<1>1. /\ active_task_id \in Tasks /\ plan_status = "running" /\ refactor_plan # NoPlan
      /\ active_task_id \notin completed_task_ids
  BY DEF IInv, TypeOK, NodeContext, StatusesAgree
<1>2. /\ refactor_plan[active_task_id] \subseteq completed_task_ids
      /\ FirstOpen(active_task_id)
  BY <1>1 DEF IInv, DependenciesFirst, FailureContext
<1>3. ASSUME NEW f \in task_failures PROVE f = active_task_id
  <2>1. f \in Tasks /\ f \notin completed_task_ids /\ FirstOpen(f)
    BY <1>1, <1>3 DEF IInv, TypeOK, FailureContext
  <2>2. {f, active_task_id}
          \subseteq Unlocked(refactor_plan, completed_task_ids) \ completed_task_ids
    BY <1>1, <1>2, <2>1 DEF FirstOpen, Unlocked, Tasks
  <2>3. f <= active_task_id /\ active_task_id <= f
    BY <1>2, <2>1, <2>2 DEF FirstOpen
  <2>4. f \in Nat /\ active_task_id \in Nat
    BY <1>1, <2>1, PlanType DEF IInv, TypeOK, Tasks
  <2>5. QED BY <2>3, <2>4
<1>4. QED BY <1>1, <1>2, <1>3

LEMMA CompleteTaskStep ==
    ASSUME IInv, CompleteTask
    PROVE  IInv'
<1> DEFINE task == active_task_id
<1>1. /\ Tasks' = Tasks /\ task \in Tasks /\ task \notin completed_task_ids
      /\ NoTask \notin Tasks /\ plan_status = "running" /\ refactor_plan # NoPlan
      /\ refactor_plan[task] \subseteq completed_task_ids
      /\ task_failures \subseteq {task}
  BY ActiveTaskFacts, PlanType DEF CompleteTask, planVars, Tasks, IInv, TypeOK
<1>2. /\ task_statuses' = [task_statuses EXCEPT ![task] = "completed"]
      /\ completed_task_ids' = completed_task_ids \cup {task}
      /\ task_failures' = {}
      /\ task_results' = [task_results EXCEPT ![task] = written[task]]
      /\ active_task_id' = NoTask /\ active_task_write_succeeded' = FALSE
      /\ node' = "schedule_task"
      /\ UNCHANGED <<refactor_plan, written, task_retry_counts, budget_exceeded, retry_count>>
  BY <1>1 DEF CompleteTask, planVars
<1>3. \/ plan_status' = "completed" /\ completed_task_ids' = Tasks
      \/ plan_status' = "running"
  BY <1>1 DEF CompleteTask, AllCompleted
<1>4. \A t \in Tasks : task_statuses[t] = "running" <=> t = task
  BY DEF IInv, StatusesAgree
<1> HIDE DEF task
<1>5. TypeOK'
  BY <1>1, <1>2, <1>3 DEF IInv, TypeOK, Node, PlanStatus, TaskStatus
<1>6. NodeContext'
  BY <1>1, <1>2, <1>3 DEF NodeContext, WholePlanNode, FinalizeNode
<1>7. (LiveTasksOpen /\ StatusesAgree)'
  BY <1>1, <1>2, <1>3, <1>4 DEF IInv, TypeOK, LiveTasksOpen, StatusesAgree
<1>8. (DependenciesFirst /\ SoleFailure)'
  BY <1>1, <1>2 DEF IInv, TypeOK, DependenciesFirst, SoleFailure
<1>9. ResultsFresh'
  BY <1>1, <1>2, ContentsAssumption DEF IInv, TypeOK, ResultsFresh
<1>10. FailureContext'
  <2>1. \A t \in Tasks : task_statuses'[t] # "failed"
    BY <1>1, <1>2 DEF IInv, TypeOK, FailureContext
  <2>2. QED BY <1>1, <1>2, <2>1 DEF FailureContext
<1>11. BlockedBehindFailure'
  BY <1>1, <1>2, <1>3 DEF IInv, TypeOK, BlockedBehindFailure, LiveTasksOpen
<1>12. QED BY <1>5, <1>6, <1>7, <1>8, <1>9, <1>10, <1>11 DEF IInv

LEMMA FailTaskStep ==
    ASSUME IInv, FailTask
    PROVE  IInv'
<1> DEFINE task == active_task_id
           count == task_retry_counts[task] + 1
           behind == Downstream(refactor_plan, {task})
<1>1. /\ Tasks' = Tasks /\ task \in Tasks /\ task \notin completed_task_ids
      /\ NoTask \notin Tasks /\ plan_status = "running" /\ refactor_plan # NoPlan
      /\ refactor_plan[task] \subseteq completed_task_ids
      /\ task_failures \subseteq {task}
  BY ActiveTaskFacts, PlanType DEF FailTask, planVars, Tasks, IInv, TypeOK
<1>2. /\ task_retry_counts' = [task_retry_counts EXCEPT ![task] = count]
      /\ task_failures' = {task}
      /\ task_statuses' = StatusesAfterFailure(task, Exhausted(count))
      /\ plan_status' = IF Exhausted(count) THEN "failed" ELSE "running"
      /\ active_task_id' = NoTask /\ active_task_write_succeeded' = FALSE
      /\ node' = "schedule_task"
      /\ UNCHANGED <<refactor_plan, written, completed_task_ids, task_results,
                     budget_exceeded, retry_count>>
  BY <1>1 DEF FailTask, FailureCount, planVars
<1>3. count \in 1 .. MaxTaskRetries /\ (~Exhausted(count) => count < MaxTaskRetries)
  BY <1>1, RetryAssumption DEF IInv, TypeOK, LiveTasksOpen, Exhausted
<1>4. /\ behind \in SUBSET Tasks /\ task \in behind
      /\ behind \cap completed_task_ids = {}
  <2>1. DownstreamClosed(refactor_plan, Tasks \ completed_task_ids)
    BY DEF DownstreamClosed, Tasks, IInv, DependenciesFirst
  <2>2. behind \subseteq Tasks \ completed_task_ids
    BY <1>1, <2>1, DownstreamFacts DEF Tasks
  <2>3. task \in behind
    BY <1>1, DownstreamFacts DEF Tasks
  <2>4. QED BY <2>2, <2>3
<1>5. \A t \in Tasks : /\ task_statuses[t] = "running" <=> t = task
                       /\ task_statuses[t] = "completed" <=> t \in completed_task_ids
                       /\ task_statuses[t] # "blocked"
                       /\ task_statuses[t] = "failed" => t \in task_failures
  BY <1>1 DEF IInv, StatusesAgree, LiveTasksOpen, FailureContext
<1>6. task_statuses' = [t \in Tasks |-> IF t = task THEN "failed"
                                        ELSE IF Exhausted(count) /\ t \in behind
                                        THEN "blocked" ELSE task_statuses[t]]
  BY <1>1, <1>2, <1>5 DEF StatusesAfterFailure
<1> HIDE DEF task, count, behind
<1>7. TypeOK'
  <2>1. task_statuses' \in [Tasks -> TaskStatus]
    BY <1>6 DEF IInv, TypeOK, TaskStatus
  <2>2. task_retry_counts' \in [Tasks -> 0 .. MaxTaskRetries]
    BY <1>1, <1>2, <1>3 DEF IInv, TypeOK
  <2>3. plan_status' \in PlanStatus /\ node' \in Node
    BY <1>2 DEF PlanStatus, Node
  <2>4. QED BY <1>1, <1>2, <2>1, <2>2, <2>3 DEF IInv, TypeOK
<1>8. NodeContext'
  BY <1>1, <1>2 DEF NodeContext, WholePlanNode, FinalizeNode
<1>9. LiveTasksOpen'
  BY <1>1, <1>2, <1>3, <1>5, <1>6 DEF IInv, TypeOK, LiveTasksOpen
<1>10. StatusesAgree'
  BY <1>1, <1>2, <1>4, <1>5, <1>6 DEF StatusesAgree
<1>11. (DependenciesFirst /\ ResultsFresh /\ SoleFailure)'
  BY <1>1, <1>2 DEF IInv, DependenciesFirst, ResultsFresh, SoleFailure
<1>12. FailureContext'
  <2>1. FirstOpen(task)
    BY <1>1 DEF IInv, FailureContext, task
  <2>2. \A t : FirstOpen(t)' <=> FirstOpen(t)
    BY <1>2 DEF FirstOpen
  <2>3. QED BY <1>1, <1>2, <1>5, <1>6, <2>1, <2>2 DEF FailureContext
<1>13. BlockedBehindFailure'
  <2>1. Downstream(refactor_plan, task_failures)' = behind
    BY <1>2 DEF behind
  <2>2. QED BY <1>1, <1>2, <1>4, <1>5, <1>6, <2>1 DEF BlockedBehindFailure
<1>14. QED BY <1>7, <1>8, <1>9, <1>10, <1>11, <1>12, <1>13 DEF IInv

\* Steps that change neither the plan nor the tasks keep what is said of them.
LEMMA TasksKept ==
    ASSUME IInv, UNCHANGED <<planVars, taskVars, active_task_id>>,
           plan_status' = plan_status
    PROVE  /\ Tasks' = Tasks
           /\ (LiveTasksOpen /\ FailureContext /\ StatusesAgree /\ DependenciesFirst
               /\ ResultsFresh /\ SoleFailure /\ BlockedBehindFailure)'
<1>1. Tasks' = Tasks
  BY DEF planVars, Tasks
<1>2. (LiveTasksOpen /\ FailureContext /\ StatusesAgree /\ DependenciesFirst)'
  BY <1>1 DEF IInv, planVars, taskVars, LiveTasksOpen, FailureContext, FirstOpen,
     StatusesAgree, DependenciesFirst
<1>3. (ResultsFresh /\ SoleFailure /\ BlockedBehindFailure)'
  BY <1>1 DEF IInv, planVars, taskVars, ResultsFresh, SoleFailure, BlockedBehindFailure
<1>4. QED BY <1>1, <1>2, <1>3

LEMMA ReviewerEndsStep ==
    ASSUME IInv, NEW exceeded \in BOOLEAN, NEW next \in Node, ReviewerEnds(exceeded, next)
    PROVE  IInv'
<1>1. /\ node = "reviewer" /\ node' = next /\ budget_exceeded' = exceeded
      /\ UNCHANGED <<planVars, plan_status, active_task_id, taskVars,
                     active_task_write_succeeded, retry_count>>
      /\ next \in {"finalize_budget_failure", "developer_retry",
                   "finalize_review_success", "finalize_review_failure"}
      /\ next = "developer_retry" => retry_count < MaxDeveloperRetries
  BY DEF ReviewerEnds, RetryLeft
<1>2. Tasks' = Tasks /\ completed_task_ids = Tasks /\ plan_status # "failed"
  BY <1>1, TasksKept DEF IInv, NodeContext, WholePlanNode
<1>3. TypeOK'
  BY <1>1, <1>2 DEF IInv, TypeOK, planVars, taskVars
<1>4. NodeContext'
  BY <1>1, <1>2 DEF IInv, NodeContext, WholePlanNode, FinalizeNode, planVars, taskVars
<1>5. QED BY <1>1, <1>3, <1>4, TasksKept DEF IInv

LEMMA DeveloperRetryStep ==
    ASSUME IInv, NEW reply, DeveloperRetry(reply)
    PROVE  IInv'
<1> DEFINE reopened == Downstream(refactor_plan, FailedTaskIds(reply))
<1>1. /\ Tasks' = Tasks /\ node = "developer_retry" /\ node' = "schedule_task"
      /\ completed_task_ids = Tasks /\ plan_status # "failed"
      /\ refactor_plan = NoPlan => plan_status = "fallback"
      /\ active_task_id = NoTask /\ NoTask \notin Tasks
      /\ retry_count < MaxDeveloperRetries
      /\ retry_count' = retry_count + 1
      /\ UNCHANGED <<refactor_plan, written, budget_exceeded, task_retry_counts>>
  BY PlanType DEF DeveloperRetry, Reopen, planVars, taskVars, Tasks, IInv, TypeOK, NodeContext,
     WholePlanNode
<1>2. retry_count' \in 0 .. MaxDeveloperRetries
  BY <1>1, RetryAssumption DEF IInv, TypeOK
<1>3. CASE DynamicPlan
  <2>1. /\ task_statuses' = [t \in Tasks |-> IF t \in reopened THEN "pending"
                                             ELSE task_statuses[t]]
        /\ task_failures' = task_failures \ reopened
        /\ task_results' = [t \in Tasks |-> IF t \in reopened THEN NoResult
                                            ELSE task_results[t]]
        /\ completed_task_ids' = completed_task_ids \ reopened
        /\ active_task_id' = NoTask /\ plan_status' = "running"
        /\ active_task_write_succeeded' = FALSE
    BY <1>3 DEF DeveloperRetry, Reopen, ReopenedTasks
  <2>2. DownstreamClosed(refactor_plan, reopened)
    BY DownstreamFacts DEF FailedTaskIds, Tasks
  <2>3. refactor_plan # NoPlan
    BY <1>3 DEF DynamicPlan
  <2>4. task_failures = {}
    BY <1>1 DEF IInv, TypeOK, FailureContext
  <2> HIDE DEF reopened
  <2>5. TypeOK'
    <3>1. task_statuses' \in [Tasks -> TaskStatus]
      BY <2>1 DEF IInv, TypeOK, TaskStatus
    <3>2. task_results' \in [Tasks -> Contents \cup {NoResult}]
      BY <2>1 DEF IInv, TypeOK
    <3>3. plan_status' \in PlanStatus /\ node' \in Node
      BY <1>1, <2>1 DEF PlanStatus, Node
    <3>4. QED BY <1>1, <1>2, <2>1, <3>1, <3>2, <3>3 DEF IInv, TypeOK
  <2>6. NodeContext'
    BY <1>1, <2>1, <2>3 DEF NodeContext, WholePlanNode, FinalizeNode
  <2>7. (LiveTasksOpen /\ StatusesAgree)'
    BY <1>1, <2>1 DEF IInv, LiveTasksOpen, StatusesAgree
  <2>8. DependenciesFirst'
    BY <1>1, <2>1, <2>2, PlanType
    DEF IInv, TypeOK, DependenciesFirst, DownstreamClosed, Tasks
  <2>9. ResultsFresh'
    BY <1>1, <2>1 DEF IInv, ResultsFresh
  <2>10. (SoleFailure /\ FailureContext)'
    <3>1. \A t \in Tasks : task_statuses'[t] # "failed"
      BY <1>1, <2>1, <2>4 DEF IInv, FailureContext
    <3>2. QED BY <1>1, <2>1, <2>4, <3>1 DEF SoleFailure, FailureContext
  <2>11. BlockedBehindFailure'
    BY <1>1, <2>1 DEF IInv, LiveTasksOpen, BlockedBehindFailure
  <2>12. QED BY <2>5, <2>6, <2>7, <2>8, <2>9, <2>10, <2>11 DEF IInv
<1>4. CASE ~DynamicPlan
  <2>1. UNCHANGED <<taskVars, active_task_id, plan_status, active_task_write_succeeded>>
    BY <1>4 DEF DeveloperRetry
  <2>2. TypeOK'
    BY <1>1, <1>2, <2>1 DEF IInv, TypeOK, taskVars, Node
  <2>3. NodeContext'
    BY <1>1, <2>1 DEF IInv, NodeContext, taskVars, WholePlanNode, FinalizeNode
  <2>4. QED BY <1>1, <2>1, <2>2, <2>3, TasksKept DEF IInv, planVars
<1>5. QED BY <1>3, <1>4

LEMMA FinalizeFailureStep ==
    ASSUME IInv, FinalizeFailure
    PROVE  IInv'
<1>1. /\ Tasks' = Tasks /\ node \in FinalizeNode /\ node' = "cleanup_workspace"
      /\ UNCHANGED <<refactor_plan, written, active_task_id, taskVars,
                     active_task_write_succeeded, budget_exceeded, retry_count>>
  BY DEF FinalizeFailure, planVars, Tasks
<1>2. active_task_id = NoTask
  BY <1>1 DEF IInv, NodeContext, FinalizeNode
<1>3. plan_status' = IF refactor_plan # NoPlan THEN "failed" ELSE plan_status
  BY <1>1 DEF FinalizeFailure, IInv, NodeContext
<1>4. TypeOK'
  BY <1>1, <1>3 DEF IInv, TypeOK, taskVars, Node, EndNode, PlanStatus
<1>5. NodeContext'
  BY <1>1, <1>2, <1>3
  DEF IInv, TypeOK, NodeContext, taskVars, WholePlanNode, FinalizeNode, PlanStatus
<1>6. CASE plan_status' = plan_status
  BY <1>1, <1>4, <1>5, <1>6, TasksKept DEF IInv, planVars
<1>7. CASE plan_status' # plan_status
  <2>1. plan_status # "failed" /\ plan_status' = "failed" /\ completed_task_ids = Tasks
    BY <1>1, <1>3, <1>7 DEF IInv, NodeContext
  <2>2. task_failures = {}
    BY <2>1 DEF IInv, TypeOK, FailureContext
  <2>3. (LiveTasksOpen /\ StatusesAgree /\ DependenciesFirst /\ ResultsFresh /\ SoleFailure)'
    BY <1>1, <2>1 DEF IInv, taskVars, LiveTasksOpen, StatusesAgree, DependenciesFirst,
       ResultsFresh, SoleFailure
  <2>4. FailureContext'
    BY <1>1, <2>1 DEF IInv, taskVars, FailureContext, FirstOpen
  <2>5. BlockedBehindFailure'
    <3>1. Downstream(refactor_plan, {}) = {}
      BY DownstreamFacts DEF DownstreamClosed
    <3>2. {t \in Tasks : task_statuses[t] = "blocked"} = {}
      BY <2>1 DEF IInv, LiveTasksOpen
    <3>3. QED BY <1>1, <2>1, <2>2, <3>1, <3>2 DEF taskVars, BlockedBehindFailure
  <2>6. QED BY <1>4, <1>5, <2>3, <2>4, <2>5 DEF IInv
<1>8. QED BY <1>6, <1>7

LEMMA FinalizeReviewSuccessStep ==
    ASSUME IInv, FinalizeReviewSuccess
    PROVE  IInv'
<1>1. /\ node = "finalize_review_success" /\ node' = "prepare_workspace_approval"
      /\ UNCHANGED <<planVars, plan_status, active_task_id, taskVars,
                     active_task_write_succeeded, budget_exceeded, retry_count>>
  BY DEF FinalizeReviewSuccess
<1>2. Tasks' = Tasks
  BY <1>1, TasksKept
<1>3. TypeOK'
  BY <1>1, <1>2 DEF IInv, TypeOK, planVars, taskVars, Node, EndNode
<1>4. NodeContext'
  BY <1>1, <1>2 DEF IInv, NodeContext, WholePlanNode, FinalizeNode, planVars, taskVars
<1>5. QED BY <1>1, <1>3, <1>4, TasksKept DEF IInv

LEMMA NodeRaisesStep ==
    ASSUME IInv, NodeRaises
    PROVE  IInv'
<1>1. /\ node' = "raised"
      /\ UNCHANGED <<planVars, plan_status, active_task_id, taskVars,
                     active_task_write_succeeded, budget_exceeded, retry_count>>
  BY DEF NodeRaises
<1>2. Tasks' = Tasks
  BY <1>1, TasksKept
<1>3. TypeOK'
  BY <1>1, <1>2 DEF IInv, TypeOK, planVars, taskVars, Node, EndNode
<1>4. NodeContext'
  BY <1>1, <1>2 DEF IInv, NodeContext, WholePlanNode, FinalizeNode, planVars, taskVars
<1>5. QED BY <1>1, <1>3, <1>4, TasksKept DEF IInv

LEMMA StutterStep ==
    ASSUME IInv, UNCHANGED vars
    PROVE  IInv'
<1>1. UNCHANGED <<node, planVars, plan_status, active_task_id, taskVars,
                  active_task_write_succeeded, budget_exceeded, retry_count>>
  BY DEF vars
<1>2. Tasks' = Tasks
  BY <1>1, TasksKept
<1>3. TypeOK'
  BY <1>1, <1>2 DEF IInv, TypeOK, planVars, taskVars
<1>4. NodeContext'
  BY <1>1, <1>2 DEF IInv, NodeContext, WholePlanNode, FinalizeNode, planVars, taskVars
<1>5. QED BY <1>1, <1>3, <1>4, TasksKept DEF IInv

LEMMA NextInvariant == IInv /\ [Next]_vars => IInv'
<1> SUFFICES ASSUME IInv, [Next]_vars PROVE IInv'
  OBVIOUS
<1>1. ASSUME NEW plan \in Plans \cup {NoPlan}, ArchitectPlans(plan) PROVE IInv'
  BY <1>1, ArchitectPlansStep
<1>2. CASE ArchitectExceedsBudget
  BY <1>2, ArchitectExceedsBudgetStep
<1>3. CASE ScheduleTask \/ ScheduleNothing
  BY <1>3, ScheduleTaskStep, ScheduleNothingStep
<1>4. ASSUME NEW content \in Contents, NEW success \in BOOLEAN,
             DeveloperWrites(content, success)
      PROVE  IInv'
  BY <1>4, DeveloperWritesStep
<1>5. ASSUME NEW exceeded \in BOOLEAN, DeveloperEnds(exceeded) PROVE IInv'
  BY <1>5, DeveloperEndsStep
<1>6. CASE CompleteTask \/ FailTask
  BY <1>6, CompleteTaskStep, FailTaskStep
<1>7. ASSUME NEW exceeded \in BOOLEAN, NEW next \in Node, ReviewerEnds(exceeded, next)
      PROVE  IInv'
  BY <1>7, ReviewerEndsStep
<1>8. ASSUME NEW reply \in SUBSET (Tasks \cup {MaxPlanTasks + 1}), DeveloperRetry(reply)
      PROVE  IInv'
  BY <1>8, DeveloperRetryStep
<1>9. CASE FinalizeFailure \/ FinalizeReviewSuccess \/ NodeRaises
  BY <1>9, FinalizeFailureStep, FinalizeReviewSuccessStep, NodeRaisesStep
<1>10. CASE Ended \/ UNCHANGED vars
  BY <1>10, StutterStep DEF Ended
<1>11. QED BY <1>1, <1>2, <1>3, <1>4, <1>5, <1>6, <1>7, <1>8, <1>9, <1>10 DEF Next
-----------------------------------------------------------------------------
(* The theorems. *)

\* The inductive invariant holds of every run of the control plane.
THEOREM Invariance == Spec => []IInv
  BY InitInvariant, NextInvariant, PTL DEF Spec

\* For every plan, every order of attempts and reviews: the fields keep their
\* types, and no task is tried more often than MAX_TASK_RETRIES allows.
THEOREM TypeCorrect == Spec => []TypeOK
<1>1. IInv => TypeOK
  BY DEF IInv
<1>2. QED BY <1>1, Invariance, PTL

\* No task runs or counts as done before its dependencies are done, reopening
\* of parts of the plan by reviews included.
THEOREM DependencyOrder == Spec => []DependenciesFirst
<1>1. IInv => DependenciesFirst
  BY DEF IInv
<1>2. QED BY <1>1, Invariance, PTL

\* Every result handed to a dependent task describes the current file.
THEOREM FreshResults == Spec => []ResultsFresh
<1>1. IInv => ResultsFresh
  BY DEF IInv
<1>2. QED BY <1>1, Invariance, PTL

\* The Reviewer, and the approval after it, only ever see a completed plan.
THEOREM WholePlanReviewed == Spec => []ReviewedOnlyWhole
<1>1. IInv => ReviewedOnlyWhole
  BY DEF IInv, ReviewedOnlyWhole, NodeContext, StatusesAgree
<1>2. QED BY <1>1, Invariance, PTL

\* A live plan always has a ready task: acyclicity, as the validator checks
\* it, rules the defensive blocking branch of the scheduler out.
THEOREM NeverOutOfReadyTasks == Spec => []NeverStuck
<1>1. IInv => NeverStuck
  BY LivePlanIsReady DEF NeverStuck
<1>2. QED BY <1>1, Invariance, PTL

\* There is at most one recorded failure, so the one reported is the cause.
THEOREM OneFailure == Spec => []SoleFailure
<1>1. IInv => SoleFailure
  BY DEF IInv
<1>2. QED BY <1>1, Invariance, PTL

\* Exactly the tasks behind the failed one are blocked, and by it.
THEOREM FailureAttribution == Spec => []BlockedBehindFailure
<1>1. IInv => BlockedBehindFailure
  BY DEF IInv
<1>2. QED BY <1>1, Invariance, PTL

\* task_statuses, completed_task_ids and active_task_id never disagree.
THEOREM OneStateOfEachTask == Spec => []StatusesAgree
<1>1. IInv => StatusesAgree
  BY DEF IInv
<1>2. QED BY <1>1, Invariance, PTL

\* The initial states, and every step, of the control plane are allowed by
\* the abstract execution of a plan.
THEOREM Implementation == Spec => ImplementsPlanExecution
<1>1. Init => Abstract!Init
  BY DEF Init, Abstract!Init, CurrentTask, Verdict, EndNode, NoTask, Abstract!NoTask,
     NoPlan, Abstract!NoPlan
<1>2. IInv /\ [Next]_vars => [Abstract!Next]_(Abstract!vars)
  <2> SUFFICES ASSUME IInv, [Next]_vars
               PROVE  Abstract!Next \/ UNCHANGED Abstract!vars
    OBVIOUS
  <2> USE DEF Abstract!vars
  <2>1. ASSUME NEW plan \in Plans \cup {NoPlan}, ArchitectPlans(plan)
        PROVE  Abstract!Next \/ UNCHANGED Abstract!vars
    <3>1. /\ refactor_plan = NoPlan /\ completed_task_ids = {} /\ active_task_id = NoTask
          /\ node = "architect"
      BY <2>1, NoPlanEmpty DEF ArchitectPlans, IInv, TypeOK, NodeContext, Tasks
    <3>2. QED BY <2>1, <3>1
       DEF ArchitectPlans, Abstract!Next, Abstract!Adopt, CurrentTask, Verdict, EndNode,
           NoPlan, Abstract!NoPlan
  <2>2. CASE ArchitectExceedsBudget
    BY <2>2 DEF ArchitectExceedsBudget, planVars, taskVars, CurrentTask, Verdict, EndNode
  <2>3. CASE ScheduleTask
    <3>1. /\ node = "schedule_task" /\ node' = "developer" /\ active_task_id = NoTask
          /\ active_task_id' = FirstReady
          /\ UNCHANGED <<refactor_plan, completed_task_ids>>
      BY <2>3 DEF ScheduleTask, planVars, IInv, NodeContext
    <3>2. FirstReady \in Unlocked(refactor_plan, completed_task_ids) \ completed_task_ids
      BY <2>3, FirstReadyFacts
      DEF ScheduleTask, ReadyTasks, Unlocked, Tasks, IInv, StatusesAgree
    <3>3. Abstract!Start(FirstReady)
      BY <3>1, <3>2 DEF Abstract!Start, Abstract!Unlocked, Unlocked, TaskIds,
         Abstract!TaskIds, CurrentTask, Verdict, EndNode, NoTask, Abstract!NoTask
    <3>4. FirstReady \in TaskIds(refactor_plan)
      BY <3>2 DEF Unlocked
    <3>5. QED BY <3>3, <3>4 DEF Abstract!Next, TaskIds, Abstract!TaskIds
  <2>4. CASE ScheduleNothing
    <3>1. /\ node = "schedule_task" /\ active_task_id = NoTask /\ active_task_id' = NoTask
          /\ UNCHANGED <<refactor_plan, completed_task_ids>>
      BY <2>4 DEF ScheduleNothing, planVars, IInv, NodeContext
    <3>2. node' \notin EndNode
      BY <2>4 DEF ScheduleNothing, RouteWithoutTask, EndNode
    <3>3. QED BY <3>1, <3>2 DEF CurrentTask, Verdict, EndNode
  <2>5. ASSUME NEW content \in Contents, NEW success \in BOOLEAN,
               DeveloperWrites(content, success)
        PROVE  UNCHANGED Abstract!vars
    BY <2>5 DEF DeveloperWrites, taskVars, CurrentTask, Verdict
  <2>6. ASSUME NEW exceeded \in BOOLEAN, DeveloperEnds(exceeded)
        PROVE  UNCHANGED Abstract!vars
    BY <2>6 DEF DeveloperEnds, planVars, taskVars, CurrentTask, Verdict, EndNode
  <2>7. CASE CompleteTask
    BY <2>7 DEF CompleteTask, planVars, Abstract!Next, Abstract!Finish, CurrentTask,
       Verdict, EndNode, NoTask, Abstract!NoTask
  <2>8. CASE FailTask
    BY <2>8 DEF FailTask, planVars, Abstract!Next, Abstract!GiveUp, CurrentTask,
       Verdict, EndNode, NoTask, Abstract!NoTask
  <2>9. ASSUME NEW exceeded \in BOOLEAN, NEW next \in Node, ReviewerEnds(exceeded, next)
        PROVE  UNCHANGED Abstract!vars
    BY <2>9 DEF ReviewerEnds, planVars, taskVars, CurrentTask, Verdict, EndNode
  <2>10. ASSUME NEW reply, DeveloperRetry(reply)
         PROVE  Abstract!Next \/ UNCHANGED Abstract!vars
    <3> DEFINE S == Downstream(refactor_plan, FailedTaskIds(reply))
    <3>1. /\ node = "developer_retry" /\ node' = "schedule_task"
          /\ completed_task_ids = Tasks /\ active_task_id = NoTask
          /\ active_task_id' = NoTask /\ refactor_plan' = refactor_plan
      BY <2>10 DEF DeveloperRetry, Reopen, planVars, IInv, NodeContext, WholePlanNode
    <3>2. CASE DynamicPlan
      <4>1. completed_task_ids' = completed_task_ids \ S
        BY <2>10, <3>2 DEF DeveloperRetry, Reopen, ReopenedTasks
      <4>2. /\ FailedTaskIds(reply) \in SUBSET Tasks
            /\ S \in SUBSET Tasks /\ FailedTaskIds(reply) \subseteq S
            /\ DownstreamClosed(refactor_plan, S)
        BY DownstreamFacts DEF FailedTaskIds, Tasks
      <4>3. CASE S = {}
        BY <3>1, <4>1, <4>3 DEF CurrentTask, Verdict, EndNode, IInv, TypeOK
      <4>4. CASE S # {}
        <5> HIDE DEF S
        <5>1. Abstract!SendBack(S)
          BY <3>1, <4>1, <4>2, <4>4 DEF Abstract!SendBack, Abstract!TaskIds, TaskIds,
             Tasks, Abstract!DownstreamClosed, DownstreamClosed, CurrentTask, Verdict, EndNode
        <5>2. QED BY <4>2, <5>1 DEF Abstract!Next, Tasks, TaskIds, Abstract!TaskIds
      <4>5. QED BY <4>3, <4>4
    <3>3. CASE ~DynamicPlan
      BY <2>10, <3>1, <3>3 DEF DeveloperRetry, taskVars, CurrentTask, Verdict, EndNode
    <3>4. QED BY <3>2, <3>3
  <2>11. CASE FinalizeFailure
    BY <2>11 DEF FinalizeFailure, FinalizeNode, planVars, taskVars, Abstract!Next,
       Abstract!Reject, CurrentTask, Verdict, EndNode, NoTask, Abstract!NoTask
  <2>12. CASE FinalizeReviewSuccess
    BY <2>12 DEF FinalizeReviewSuccess, planVars, taskVars, Abstract!Next, Abstract!Accept,
       IInv, NodeContext, WholePlanNode, Tasks, TaskIds, Abstract!TaskIds, CurrentTask,
       Verdict, EndNode, NoTask, Abstract!NoTask
  <2>13. CASE NodeRaises
    BY <2>13 DEF NodeRaises, planVars, taskVars, Abstract!Next, Abstract!Reject,
       CurrentTask, Verdict, EndNode, NoTask, Abstract!NoTask
  <2>14. CASE Ended \/ UNCHANGED vars
    BY <2>14 DEF Ended, vars, planVars, taskVars, CurrentTask, Verdict
  <2>15. QED BY <2>1, <2>2, <2>3, <2>4, <2>5, <2>6, <2>7, <2>8, <2>9, <2>10, <2>11,
                <2>12, <2>13, <2>14 DEF Next
<1>3. QED BY <1>1, <1>2, Invariance, PTL DEF Spec, Abstract!Spec, ImplementsPlanExecution
=============================================================================
