---------------------------- MODULE TaskAttempts ----------------------------
(***************************************************************************)
(* TaskScheduler with a history variable: how often each task has been     *)
(* handed to the Developer in the whole run.  The program keeps no such    *)
(* count: task_retry_counts counts failed attempts only, retry_count the   *)
(* review rounds, and a task has both to spend.                            *)
(***************************************************************************)
EXTENDS TaskScheduler

VARIABLE attempts

AInit == Init /\ attempts = <<>>

\* An attempt starts when schedule_next_task_node makes a task active.
CountAttempt ==
    attempts' = [t \in TaskIds(refactor_plan') |->
                    IF t \notin Tasks THEN 0
                    ELSE IF active_task_id = NoTask /\ t = active_task_id'
                    THEN attempts[t] + 1 ELSE attempts[t]]

ANext == Next /\ CountAttempt
ASpec == AInit /\ [][ANext]_<<vars, attempts>>
-----------------------------------------------------------------------------
\* A task is attempted at most once for every failure it may have and every
\* review round it may be sent back in: the two limits add up, because
\* reopen_tasks_after_review leaves task_retry_counts alone.
AttemptsWithinBothLimits ==
    \A t \in Tasks : attempts[t] <= MaxTaskRetries + MaxDeveloperRetries

\* What an attempt is spent on: a recorded failure, a completion that stands
\* or that a review undid, or the attempt under way.
AttemptsAccountedFor ==
    \A t \in Tasks :
        attempts[t] <= task_retry_counts[t] + retry_count
                       + (IF t \in completed_task_ids \/ t = active_task_id THEN 1 ELSE 0)
=============================================================================
