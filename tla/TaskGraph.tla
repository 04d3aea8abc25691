----------------------------- MODULE TaskGraph -----------------------------
(***************************************************************************)
(* Refactor plans as dependency graphs (backend/agent/plans.py,            *)
(* backend/agent/scheduler.py).                                            *)
(*                                                                         *)
(* A plan is a function from the positions 1..n of its tasks, in the order *)
(* the Architect listed them, to the set of positions each task depends    *)
(* on.  validate_refactor_plan makes ids and target files unique, so a     *)
(* position stands for both the id and the one file of its task.  The      *)
(* empty plan <<>> stands for refactor_plan = None (the schema demands at  *)
(* least one task, so no accepted plan is empty).                          *)
(***************************************************************************)
EXTENDS Integers

CONSTANT MaxPlanTasks       \* plans.py MAX_PLAN_TASKS: a plan's largest size

ASSUME MaxPlanTasksAssumption == MaxPlanTasks \in Nat \ {0}

NoPlan == <<>>
NoTask == 0                 \* active_task_id = None

TaskIds(plan) == DOMAIN plan

\* Some numbering puts every dependency before its dependents.
Acyclic(plan) ==
    \E rank \in [TaskIds(plan) -> TaskIds(plan)] :
        \A t \in TaskIds(plan) : \A d \in plan[t] : rank[d] < rank[t]

\* The plans validate_refactor_plan accepts.
ValidPlan(plan) ==
    /\ \E n \in 1 .. MaxPlanTasks : plan \in [1 .. n -> SUBSET (1 .. n)]
    /\ Acyclic(plan)

\* No task outside S depends on a task of S.
DownstreamClosed(plan, S) ==
    \A t \in TaskIds(plan) : plan[t] \cap S # {} => t \in S

\* _downstream_task_ids: the loop adds dependents until nothing changes, and
\* so ends with the least downstream-closed set that holds the roots.
Downstream(plan, roots) ==
    {t \in TaskIds(plan) :
        \A S \in SUBSET TaskIds(plan) :
            roots \subseteq S /\ DownstreamClosed(plan, S) => t \in S}

\* The tasks whose dependencies all lie in done.
Unlocked(plan, done) == {t \in TaskIds(plan) : plan[t] \subseteq done}
=============================================================================
