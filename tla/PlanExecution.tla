--------------------------- MODULE PlanExecution ---------------------------
(***************************************************************************)
(* What the control plane of a run promises about a plan, whatever the     *)
(* order, the retries and the budgets: tasks are carried out one at a      *)
(* time, none before the tasks it depends on; a review may send back a set *)
(* of tasks, and then everything built on them goes back with them; the    *)
(* run is accepted only with the whole plan carried out.                   *)
(***************************************************************************)
EXTENDS TaskGraph

CONSTANT Plans

VARIABLES plan,      \* the plan in force, NoPlan before and without one
          done,      \* the tasks carried out and not sent back
          current,   \* the task being carried out, or NoTask
          verdict    \* "open" while the run goes on, "accepted", "rejected"

vars == <<plan, done, current, verdict>>

Init == plan = NoPlan /\ done = {} /\ current = NoTask /\ verdict = "open"

Adopt ==
    /\ verdict = "open" /\ plan = NoPlan
    /\ plan' \in Plans
    /\ UNCHANGED <<done, current, verdict>>

Start(t) ==
    /\ verdict = "open" /\ current = NoTask
    /\ t \in Unlocked(plan, done) \ done
    /\ current' = t
    /\ UNCHANGED <<plan, done, verdict>>

Finish ==
    /\ verdict = "open" /\ current # NoTask
    /\ done' = done \cup {current} /\ current' = NoTask
    /\ UNCHANGED <<plan, verdict>>

GiveUp ==
    /\ verdict = "open" /\ current # NoTask
    /\ current' = NoTask
    /\ UNCHANGED <<plan, done, verdict>>

\* Only a whole plan is reviewed, so only a whole plan is sent back.
SendBack(S) ==
    /\ verdict = "open" /\ done = TaskIds(plan)
    /\ S # {} /\ DownstreamClosed(plan, S)
    /\ done' = done \ S
    /\ UNCHANGED <<plan, current, verdict>>

Accept ==
    /\ verdict = "open" /\ done = TaskIds(plan) /\ current = NoTask
    /\ verdict' = "accepted"
    /\ UNCHANGED <<plan, done, current>>

\* A run may be given up at any time, the task under way included.
Reject ==
    /\ verdict = "open"
    /\ verdict' = "rejected" /\ current' = NoTask
    /\ UNCHANGED <<plan, done>>

Next ==
    \/ Adopt
    \/ \E t \in TaskIds(plan) : Start(t)
    \/ \E S \in SUBSET TaskIds(plan) : SendBack(S)
    \/ Finish \/ GiveUp \/ Accept \/ Reject

Spec == Init /\ [][Next]_vars
=============================================================================
