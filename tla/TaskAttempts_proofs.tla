------------------------- MODULE TaskAttempts_proofs -------------------------
(***************************************************************************)
(* How often a task can be handed to the Developer, for all plans and both  *)
(* limits.                                                                  *)
(***************************************************************************)
EXTENDS TaskAttempts, TaskScheduler_proofs

\* A task that is done, or under way, has a retry left: what failed for the
\* last time is neither.
RetryUnspent ==
    \A t \in Tasks :
        t \in completed_task_ids \/ t = active_task_id => task_retry_counts[t] < MaxTaskRetries

AttemptInv ==
    /\ IInv /\ attempts \in [Tasks -> Nat]
    /\ AttemptsAccountedFor /\ RetryUnspent
-----------------------------------------------------------------------------
LEMMA AttemptInit == AInit => AttemptInv
<1> SUFFICES ASSUME AInit PROVE AttemptInv
  OBVIOUS
<1>1. IInv
  BY InitInvariant DEF AInit
<1>2. Tasks = {}
  BY NoPlanEmpty DEF AInit, Init, Tasks
<1>3. attempts \in [Tasks -> Nat]
  BY <1>2, EmptyFunction DEF AInit
<1>4. QED BY <1>1, <1>2, <1>3 DEF AttemptInv, AttemptsAccountedFor, RetryUnspent

\* A step that starts no attempt, keeps the plan and takes no failure back.
LEMMA QuietStep ==
    ASSUME AttemptInv, CountAttempt, IInv', Tasks' = Tasks,
           active_task_id' \in {active_task_id, NoTask},
           \A t \in Tasks :
               /\ task_retry_counts'[t] = task_retry_counts[t]
               /\ t \in completed_task_ids' => t \in completed_task_ids \/ t = active_task_id,
           \/ retry_count' = retry_count /\ completed_task_ids \subseteq completed_task_ids'
              /\ (active_task_id' = NoTask => active_task_id \in completed_task_ids' \cup {NoTask})
           \/ retry_count' = retry_count + 1
    PROVE  AttemptInv'
<1>1. NoTask \notin Tasks
  BY PlanType DEF AttemptInv, IInv, TypeOK, Tasks
<1>2. Tasks = TaskIds(refactor_plan') /\ attempts' = [t \in Tasks |-> attempts[t]]
  BY <1>1 DEF CountAttempt, Tasks
<1>3. attempts' \in [Tasks -> Nat] /\ \A t \in Tasks : attempts'[t] = attempts[t]
  BY <1>2 DEF AttemptInv
<1>4. AttemptsAccountedFor'
  <2> SUFFICES ASSUME NEW t \in Tasks
               PROVE  attempts[t] <= task_retry_counts[t] + retry_count'
                        + (IF t \in completed_task_ids' \/ t = active_task_id' THEN 1 ELSE 0)
    BY <1>3 DEF AttemptsAccountedFor
  <2>1. /\ attempts[t] \in Nat /\ task_retry_counts[t] \in Nat /\ retry_count \in Nat
        /\ attempts[t] <= task_retry_counts[t] + retry_count
             + (IF t \in completed_task_ids \/ t = active_task_id THEN 1 ELSE 0)
    BY RetryAssumption DEF AttemptInv, IInv, TypeOK, AttemptsAccountedFor
  <2>2. QED BY <1>1, <2>1
<1>5. RetryUnspent'
  BY <1>1 DEF AttemptInv, RetryUnspent
<1>6. QED BY <1>3, <1>4, <1>5 DEF AttemptInv

\* The one step that starts an attempt: the task is open, and has a retry left.
LEMMA ScheduleTaskCounts ==
    ASSUME AttemptInv, ScheduleTask, CountAttempt, IInv' PROVE AttemptInv'
<1>1. FirstReady \in ReadyTasks
  BY FirstReadyFacts DEF ScheduleTask, AttemptInv, IInv
<1>2. /\ FirstReady \in Tasks /\ FirstReady \notin completed_task_ids
      /\ task_retry_counts[FirstReady] < MaxTaskRetries
      /\ active_task_id = NoTask /\ NoTask \notin Tasks
      /\ active_task_id' = FirstReady
      /\ UNCHANGED <<refactor_plan, completed_task_ids, task_retry_counts, retry_count>>
      /\ Tasks' = Tasks
  BY <1>1, PlanType DEF ReadyTasks, Unlocked, Tasks, ScheduleTask, planVars, AttemptInv, IInv,
     TypeOK, NodeContext, StatusesAgree
<1>3. attempts' = [t \in Tasks |-> IF t = FirstReady THEN attempts[t] + 1 ELSE attempts[t]]
  BY <1>2 DEF CountAttempt, Tasks
<1>4. attempts' \in [Tasks -> Nat]
  BY <1>3 DEF AttemptInv
<1>5. AttemptsAccountedFor'
  <2> SUFFICES ASSUME NEW t \in Tasks
               PROVE  attempts'[t] <= task_retry_counts[t] + retry_count
                        + (IF t \in completed_task_ids \/ t = FirstReady THEN 1 ELSE 0)
    BY <1>2 DEF AttemptsAccountedFor
  <2>1. /\ attempts[t] \in Nat /\ task_retry_counts[t] \in Nat /\ retry_count \in Nat
        /\ attempts[t] <= task_retry_counts[t] + retry_count
             + (IF t \in completed_task_ids THEN 1 ELSE 0)
    BY <1>2, RetryAssumption DEF AttemptInv, IInv, TypeOK, AttemptsAccountedFor
  <2>2. QED BY <1>2, <1>3, <2>1
<1>6. RetryUnspent'
  BY <1>2 DEF AttemptInv, RetryUnspent
<1>7. QED BY <1>2, <1>4, <1>5, <1>6 DEF AttemptInv

\* A failure pays for the attempt that is given up.
LEMMA FailTaskCounts ==
    ASSUME AttemptInv, FailTask, CountAttempt, IInv' PROVE AttemptInv'
<1>1. /\ active_task_id \in Tasks /\ active_task_id \notin completed_task_ids
      /\ active_task_id' = NoTask /\ NoTask \notin Tasks
      /\ task_retry_counts' = [task_retry_counts EXCEPT ![active_task_id] =
                                   task_retry_counts[active_task_id] + 1]
      /\ UNCHANGED <<refactor_plan, completed_task_ids, retry_count>> /\ Tasks' = Tasks
  BY PlanType DEF FailTask, FailureCount, planVars, Tasks, AttemptInv, IInv, TypeOK, StatusesAgree
<1>2. attempts' \in [Tasks -> Nat] /\ \A t \in Tasks : attempts'[t] = attempts[t]
  BY <1>1 DEF CountAttempt, Tasks, AttemptInv
<1>3. AttemptsAccountedFor'
  <2> SUFFICES ASSUME NEW t \in Tasks
               PROVE  attempts[t] <= task_retry_counts'[t] + retry_count
                        + (IF t \in completed_task_ids THEN 1 ELSE 0)
    BY <1>1, <1>2 DEF AttemptsAccountedFor
  <2>1. /\ attempts[t] \in Nat /\ task_retry_counts[t] \in Nat /\ retry_count \in Nat
        /\ attempts[t] <= task_retry_counts[t] + retry_count
             + (IF t \in completed_task_ids \/ t = active_task_id THEN 1 ELSE 0)
    BY RetryAssumption DEF AttemptInv, IInv, TypeOK, AttemptsAccountedFor
  <2>2. task_retry_counts'[t] =
          task_retry_counts[t] + (IF t = active_task_id THEN 1 ELSE 0)
    BY <1>1, <2>1 DEF AttemptInv, IInv, TypeOK
  <2>3. QED BY <2>1, <2>2
<1>4. RetryUnspent'
  BY <1>1 DEF AttemptInv, RetryUnspent, IInv, TypeOK
<1>5. QED BY <1>1, <1>2, <1>3, <1>4 DEF AttemptInv

LEMMA ArchitectPlansCounts ==
    ASSUME AttemptInv, NEW plan \in Plans \cup {NoPlan}, ArchitectPlans(plan), CountAttempt,
           IInv'
    PROVE  AttemptInv'
<1>1. Tasks = {} /\ Tasks' = TaskIds(plan) /\ refactor_plan' = plan /\ NoTask \notin Tasks'
  BY NoPlanEmpty, PlanType DEF ArchitectPlans, AttemptInv, IInv, NodeContext, Tasks
<1>2. /\ task_retry_counts' = [t \in Tasks' |-> 0] /\ completed_task_ids' = {}
      /\ active_task_id' = NoTask
  BY <1>1 DEF ArchitectPlans
<1>3. attempts' = [t \in Tasks' |-> 0]
  BY <1>1 DEF CountAttempt
<1>4. AttemptsAccountedFor' /\ RetryUnspent'
  <2>1. \A t \in Tasks' : attempts'[t] = 0 /\ task_retry_counts'[t] = 0
    BY <1>2, <1>3
  <2>2. \A t \in Tasks' : t \notin completed_task_ids' /\ t # active_task_id'
    BY <1>1, <1>2
  <2>3. retry_count' \in Nat /\ 0 < MaxTaskRetries
    BY RetryAssumption DEF IInv, TypeOK
  <2>4. \A t \in Tasks' :
          attempts'[t] <= task_retry_counts'[t] + retry_count'
              + (IF t \in completed_task_ids' \/ t = active_task_id' THEN 1 ELSE 0)
    BY <2>1, <2>2, <2>3
  <2>5. QED BY <2>2, <2>3, <2>4 DEF AttemptsAccountedFor, RetryUnspent
<1>5. QED BY <1>3, <1>4 DEF AttemptInv

LEMMA AttemptStep == AttemptInv /\ [ANext]_<<vars, attempts>> => AttemptInv'
<1> SUFFICES ASSUME AttemptInv, [ANext]_<<vars, attempts>> PROVE AttemptInv'
  OBVIOUS
<1>1. IInv'
  BY NextInvariant DEF AttemptInv, ANext
<1>2. CASE UNCHANGED <<vars, attempts>>
  BY <1>1, <1>2 DEF AttemptInv, AttemptsAccountedFor, RetryUnspent, Tasks, vars, planVars, taskVars
<1>3. CASE ANext
  <2> USE <1>1
  <2>1. CountAttempt /\ Next
    BY <1>3 DEF ANext
  <2>2. ASSUME NEW plan \in Plans \cup {NoPlan}, ArchitectPlans(plan) PROVE AttemptInv'
    BY <2>1, <2>2, ArchitectPlansCounts
  <2>3. CASE ScheduleTask
    BY <2>1, <2>3, ScheduleTaskCounts
  <2>4. CASE FailTask
    BY <2>1, <2>4, FailTaskCounts
  <2>5. CASE ScheduleNothing
    <3>1. active_task_id = NoTask
      BY <2>5 DEF ScheduleNothing, AttemptInv, IInv, NodeContext
    <3>2. QED BY <2>1, <2>5, <3>1, QuietStep DEF ScheduleNothing, planVars, Tasks
  <2>6. CASE CompleteTask
    BY <2>1, <2>6, QuietStep DEF CompleteTask, planVars, Tasks
  <2>7. ASSUME NEW reply, DeveloperRetry(reply) PROVE AttemptInv'
    <3>1. /\ refactor_plan' = refactor_plan /\ task_retry_counts' = task_retry_counts
          /\ completed_task_ids' \subseteq completed_task_ids
          /\ active_task_id' \in {active_task_id, NoTask}
          /\ retry_count' = retry_count + 1
      BY <2>7 DEF DeveloperRetry, Reopen, planVars, taskVars
    <3>2. QED BY <2>1, <3>1, QuietStep DEF Tasks
  <2>8. ASSUME UNCHANGED <<refactor_plan, active_task_id, task_retry_counts,
                           completed_task_ids, retry_count>>
        PROVE  AttemptInv'
    BY <2>1, <2>8, QuietStep DEF Tasks
  <2>9. CASE \/ ArchitectExceedsBudget
             \/ \E content \in Contents, success \in BOOLEAN : DeveloperWrites(content, success)
             \/ \E exceeded \in BOOLEAN : DeveloperEnds(exceeded)
             \/ \E exceeded \in BOOLEAN, next \in Node : ReviewerEnds(exceeded, next)
             \/ FinalizeFailure \/ FinalizeReviewSuccess \/ NodeRaises \/ Ended
    BY <2>8, <2>9 DEF ArchitectExceedsBudget, DeveloperWrites, DeveloperEnds, ReviewerEnds,
       FinalizeFailure, FinalizeReviewSuccess, NodeRaises, Ended, vars, planVars, taskVars
  <2>10. QED BY <2>1, <2>2, <2>3, <2>4, <2>5, <2>6, <2>7, <2>9 DEF Next
<1>4. QED BY <1>2, <1>3
-----------------------------------------------------------------------------
THEOREM AttemptInvariance == ASpec => []AttemptInv
  BY AttemptInit, AttemptStep, PTL DEF ASpec

\* Every attempt is spent on a failure, a review round, the completion that
\* stands or the attempt under way.
THEOREM AttemptAccounts == ASpec => []AttemptsAccountedFor
<1>1. AttemptInv => AttemptsAccountedFor
  BY DEF AttemptInv
<1>2. QED BY <1>1, AttemptInvariance, PTL

\* However failures and reviews alternate, the Developer gets a task no more
\* often than both limits together allow.
THEOREM AttemptBound == ASpec => []AttemptsWithinBothLimits
<1>1. AttemptInv => AttemptsWithinBothLimits
  <2> SUFFICES ASSUME AttemptInv, NEW t \in Tasks
               PROVE  attempts[t] <= MaxTaskRetries + MaxDeveloperRetries
    BY DEF AttemptsWithinBothLimits
  <2>1. /\ attempts[t] \in Nat /\ task_retry_counts[t] \in 0 .. MaxTaskRetries
        /\ retry_count \in 0 .. MaxDeveloperRetries
        /\ attempts[t] <= task_retry_counts[t] + retry_count
             + (IF t \in completed_task_ids \/ t = active_task_id THEN 1 ELSE 0)
        /\ t \in completed_task_ids \/ t = active_task_id =>
             task_retry_counts[t] < MaxTaskRetries
    BY DEF AttemptInv, IInv, TypeOK, AttemptsAccountedFor, RetryUnspent
  <2>2. QED BY <2>1, RetryAssumption
<1>2. QED BY <1>1, AttemptInvariance, PTL
=============================================================================
