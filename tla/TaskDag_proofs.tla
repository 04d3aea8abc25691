----------------------------- MODULE TaskDag_proofs -----------------------------
(***************************************************************************)
(* The diagram of a plan, whatever the plan: it agrees with the control     *)
(* plane, and a failure is told once.                                       *)
(***************************************************************************)
EXTENDS TaskDag, TaskAttempts_proofs, SequenceTheorems

-----------------------------------------------------------------------------
(* The events of an update, at most three, are reduced one after the other. *)

LEMMA MaxOfThree ==
    ASSUME NEW s \in SUBSET {1, 2, 3}, s # {}
    PROVE  Max(s) = IF 3 \in s THEN 3 ELSE IF 2 \in s THEN 2 ELSE 1
<1> DEFINE m == IF 3 \in s THEN 3 ELSE IF 2 \in s THEN 2 ELSE 1
<1>1. m \in s /\ \A y \in s : m >= y
  <2>1. \A y \in s : y = 1 \/ y = 2 \/ y = 3
    OBVIOUS
  <2>2. CASE 3 \in s
    BY <2>1, <2>2
  <2>3. CASE 3 \notin s /\ 2 \in s
    BY <2>1, <2>3
  <2>4. CASE 3 \notin s /\ 2 \notin s
    <3>1. 1 \in s /\ \A y \in s : y = 1
      BY <2>1, <2>4
    <3>2. QED BY <2>4, <3>1
  <2>5. QED BY <2>2, <2>3, <2>4
<1>2. \A x \in s : (\A y \in s : x >= y) => x = m
  BY <1>1
<1>3. QED BY <1>1, <1>2 DEF Max

LEMMA YieldUnfolds ==
    ASSUME NEW events, DOMAIN events \in SUBSET {1, 2, 3}, Yield(events)
    PROVE  \E r : /\ dag' = r[DOMAIN events]
                  /\ r[{}] = dag
                  /\ \A s \in (SUBSET DOMAIN events) \ {{}} :
                       r[s] = ApplyDagEvent(r[s \ {Max(s)}], events[Max(s)])
<1> DEFINE d == DOMAIN events
           F(f) == [s \in SUBSET d |->
                      IF s = {} THEN dag ELSE ApplyDagEvent(f[s \ {Max(s)}], events[Max(s)])]
           Add(x, s, i) == IF i \in s THEN ApplyDagEvent(x, events[i]) ELSE x
           h == [s \in SUBSET d |-> Add(Add(Add(dag, s, 1), s, 2), s, 3)]
           r == CHOOSE f : f = F(f)
<1>1. dag' = r[d]
  BY DEF Yield, FoldLeft, MapThenFoldSet
<1>2. h = F(h)
  <2>1. ASSUME NEW s \in SUBSET d, s # {}
        PROVE  h[s] = ApplyDagEvent(h[s \ {Max(s)}], events[Max(s)])
    <3>1. s \ {Max(s)} \in SUBSET d
      OBVIOUS
    <3>2. CASE 3 \in s
      BY <2>1, <3>1, <3>2, MaxOfThree
    <3>3. CASE 3 \notin s /\ 2 \in s
      BY <2>1, <3>1, <3>3, MaxOfThree
    <3>4. CASE 3 \notin s /\ 2 \notin s
      BY <2>1, <3>1, <3>4, MaxOfThree
    <3>5. QED BY <3>2, <3>3, <3>4
  <2>2. h[{}] = dag
    OBVIOUS
  <2> HIDE DEF Add
  <2>3. QED BY <2>1, <2>2
<1> HIDE DEF h
<1>3. r = F(r)
  BY <1>2
<1> HIDE DEF r
<1>4. r[{}] = dag /\ \A s \in (SUBSET d) \ {{}} :
                          r[s] = ApplyDagEvent(r[s \ {Max(s)}], events[Max(s)])
  BY <1>3
<1>5. QED BY <1>1, <1>4

LEMMA YieldNothing == ASSUME Yield(<<>>) PROVE dag' = dag
BY YieldUnfolds

LEMMA YieldOne == ASSUME NEW e, Yield(<<e>>) PROVE dag' = ApplyDagEvent(dag, e)
<1>1. DOMAIN <<e>> = {1} /\ Max({1}) = 1
  BY MaxOfThree
<1>2. QED BY <1>1, YieldUnfolds

LEMMA YieldTwo ==
    ASSUME NEW e1, NEW e2, Yield(<<e1, e2>>)
    PROVE  dag' = ApplyDagEvent(ApplyDagEvent(dag, e1), e2)
<1>1. DOMAIN <<e1, e2>> = {1, 2} /\ Max({1, 2}) = 2 /\ Max({1}) = 1
  BY MaxOfThree
<1>2. {1, 2} \ {2} = {1} /\ {1} \ {1} = {}
  OBVIOUS
<1>3. QED BY <1>1, <1>2, YieldUnfolds

LEMMA YieldThree ==
    ASSUME NEW e1, NEW e2, NEW e3, Yield(<<e1, e2, e3>>)
    PROVE  dag' = ApplyDagEvent(ApplyDagEvent(ApplyDagEvent(dag, e1), e2), e3)
<1> DEFINE events == <<e1, e2, e3>>
<1>1. /\ DOMAIN events = {1, 2, 3} /\ DOMAIN events \in SUBSET {1, 2, 3} /\ Yield(events)
      /\ events[1] = e1 /\ events[2] = e2 /\ events[3] = e3
  OBVIOUS
<1>2. Max({1, 2, 3}) = 3 /\ Max({1, 2}) = 2 /\ Max({1}) = 1
  BY MaxOfThree
<1>3. {1, 2, 3} \ {3} = {1, 2} /\ {1, 2} \ {2} = {1} /\ {1} \ {1} = {}
  OBVIOUS
<1> HIDE DEF events
<1>4. PICK r : /\ dag' = r[{1, 2, 3}] /\ r[{}] = dag
               /\ \A s \in (SUBSET {1, 2, 3}) \ {{}} :
                    r[s] = ApplyDagEvent(r[s \ {Max(s)}], events[Max(s)])
  <2> DEFINE Unfolds(d) == \E r : /\ dag' = r[d] /\ r[{}] = dag
                                 /\ \A s \in (SUBSET d) \ {{}} :
                                      r[s] = ApplyDagEvent(r[s \ {Max(s)}], events[Max(s)])
  <2>1. Unfolds(DOMAIN events)
    BY <1>1, YieldUnfolds
  <2> HIDE DEF Unfolds
  <2>2. Unfolds({1, 2, 3})
    BY <1>1, <2>1
  <2>3. QED BY <2>2 DEF Unfolds
<1>5. r[{1}] = ApplyDagEvent(dag, e1)
  BY <1>1, <1>2, <1>3, <1>4
<1>6. r[{1, 2}] = ApplyDagEvent(r[{1}], e2)
  BY <1>1, <1>2, <1>3, <1>4
<1>7. r[{1, 2, 3}] = ApplyDagEvent(r[{1, 2}], e3)
  BY <1>1, <1>2, <1>3, <1>4
<1>8. QED BY <1>4, <1>5, <1>6, <1>7

LEMMA EventsConcat ==
    ASSUME NEW e1, NEW e2, NEW e3
    PROVE  <<e1>> \o <<e2>> = <<e1, e2>> /\ <<e1, e2>> \o <<e3>> = <<e1, e2, e3>>
<1>1. <<e1>> \o <<e2>> = <<e1, e2>>
  <2> DEFINE S == {e1, e2}  s == <<e1>> \o <<e2>>  t == <<e1, e2>>
  <2>1. s \in Seq(S) /\ Len(s) = 2 /\ s[1] = e1 /\ s[2] = e2
    OBVIOUS
  <2>2. t \in Seq(S) /\ Len(t) = 2 /\ t[1] = e1 /\ t[2] = e2
    OBVIOUS
  <2> HIDE DEF s, t, S
  <2>3. \A i \in 1 .. Len(s) : s[i] = t[i]
    BY <2>1, <2>2
  <2>4. s = t
    BY <2>1, <2>2, <2>3, SeqEqual
  <2>5. QED BY <2>4 DEF s, t
<1>2. <<e1, e2>> \o <<e3>> = <<e1, e2, e3>>
  <2> DEFINE S == {e1, e2, e3}  s == <<e1, e2>> \o <<e3>>  t == <<e1, e2, e3>>
  <2>1. s \in Seq(S) /\ Len(s) = 3 /\ s[1] = e1 /\ s[2] = e2 /\ s[3] = e3
    OBVIOUS
  <2>2. t \in Seq(S) /\ Len(t) = 3 /\ t[1] = e1 /\ t[2] = e2 /\ t[3] = e3
    OBVIOUS
  <2> HIDE DEF s, t, S
  <2>3. \A i \in 1 .. Len(s) : s[i] = t[i]
    BY <2>1, <2>2
  <2>4. s = t
    BY <2>1, <2>2, <2>3, SeqEqual
  <2>5. QED BY <2>4 DEF s, t
<1>3. QED BY <1>1, <1>2

LEMMA Events ==
    ASSUME NEW e1, NEW e2, NEW e3
    PROVE  /\ If(TRUE, e1) = <<e1>> /\ If(FALSE, e1) = <<>>
           /\ <<e1>> \o <<>> = <<e1>> /\ <<>> \o <<e1>> = <<e1>>
           /\ <<e1>> \o <<e2>> = <<e1, e2>> /\ <<e1, e2>> \o <<>> = <<e1, e2>>
           /\ <<e1, e2>> \o <<e3>> = <<e1, e2, e3>>
<1>1. If(TRUE, e1) = <<e1>> /\ If(FALSE, e1) = <<>>
  BY DEF If
<1>2. <<e1>> \o <<>> = <<e1>> /\ <<>> \o <<e1>> = <<e1>>
  <2> DEFINE s == <<e1>>
  <2>1. s \in Seq({e1})
    OBVIOUS
  <2> HIDE DEF s
  <2>2. s \o <<>> = s /\ <<>> \o s = s
    BY <2>1, ConcatEmptySeq
  <2>3. QED BY <2>2 DEF s
<1>3. <<e1, e2>> \o <<>> = <<e1, e2>>
  <2> DEFINE s == <<e1, e2>>
  <2>1. s \in Seq({e1, e2})
    OBVIOUS
  <2> HIDE DEF s
  <2>2. s \o <<>> = s
    BY <2>1, ConcatEmptySeq
  <2>3. QED BY <2>2 DEF s
<1>4. QED BY <1>1, <1>2, <1>3, EventsConcat

\* What an event does to the diagram.
LEMMA EventApplied ==
    ASSUME NEW nodes, NEW id
    PROVE  /\ ApplyDagEvent(nodes, Event("task.started", id)) = Update(nodes, id, "in_progress")
           /\ ApplyDagEvent(nodes, Event("task.completed", id)) = Update(nodes, id, "completed")
           /\ ApplyDagEvent(nodes, Event("run.budget.exceeded", id)) = Update(nodes, id, "failed")
           /\ \A type \in {"review.passed", "run.completed"} :
                ApplyDagEvent(nodes, Event(type, id)) = Update(nodes, ReviewerTask, "completed")
           /\ \A type \in {"review.failed", "run.failed"} :
                ApplyDagEvent(nodes, Event(type, id)) = Update(nodes, ReviewerTask, "failed")
           /\ ApplyDagEvent(nodes, Event("run.retrying", id)) =
                Update(nodes, ReviewerTask, "in_progress")
BY DEF ApplyDagEvent, Event

LEMMA SnapshotApplied ==
    ASSUME NEW nodes, NEW type, type # "plan.created", task_statuses' # NoSnapshot
    PROVE  ApplyDagEvent(nodes, WithSnapshot(type)) = ApplySnapshot(nodes, task_statuses')
BY DEF ApplyDagEvent, WithSnapshot

\* A plan has tasks, and none of them is one of the two other nodes.
LEMMA PlanDrawn ==
    ASSUME IInv
    PROVE  /\ ArchitectTask \notin Tasks /\ ReviewerTask \notin Tasks
           /\ DOMAIN task_statuses = Tasks
           /\ refactor_plan # NoPlan => Tasks # {} /\ task_statuses # NoSnapshot
           /\ refactor_plan = NoPlan => Tasks = {} /\ task_statuses = NoSnapshot
<1>1. ArchitectTask \notin Tasks /\ ReviewerTask \notin Tasks
  BY PlanType, ReservedTaskIds DEF IInv, TypeOK, Tasks
<1>2. DOMAIN task_statuses = Tasks
  BY DEF IInv, TypeOK
<1>3. ASSUME refactor_plan # NoPlan PROVE Tasks # {} /\ task_statuses # NoSnapshot
  <2>1. PICK n \in 1 .. MaxPlanTasks : refactor_plan \in [1 .. n -> SUBSET (1 .. n)]
    BY <1>3, PlansAssumption DEF ValidPlan, IInv, TypeOK
  <2>2. 1 \in Tasks
    BY <2>1, MaxPlanTasksAssumption DEF Tasks, TaskIds
  <2>3. QED BY <1>2, <2>2 DEF NoSnapshot
<1>4. ASSUME refactor_plan = NoPlan PROVE Tasks = {} /\ task_statuses = NoSnapshot
  <2>1. Tasks = {}
    BY <1>4, NoPlanEmpty DEF Tasks
  <2>2. task_statuses \in [{} -> TaskStatus]
    BY <2>1 DEF IInv, TypeOK
  <2>3. QED BY <2>1, <2>2 DEF NoSnapshot
<1>5. QED BY <1>1, <1>2, <1>3, <1>4

-----------------------------------------------------------------------------
(* The three parts of the invariant. *)

Diagram ==
    /\ refactor_plan = NoPlan => dag = NoNodes
    /\ \A t \in Tasks : dag[t] = Shown(task_statuses[t]) \/ node \in {"complete_task", "raised"}
    /\ DagAgrees
Telling ==
    /\ told \in {0, 1} /\ (told = 1 <=> last_emitted_plan_status = "failed")
    /\ PlanFailureToldOnce
Ending ==
    /\ outcome \in {"none", "completed", "failed"}
    /\ outcome # "none" => node \in EndNode
    /\ VerdictShown

LEMMA DagInvParts == (DagInv <=> Diagram /\ Telling /\ Ending) /\ (DagInv' <=> Diagram' /\ Telling' /\ Ending')
BY DEF DagInv, DagContext, Diagram, Telling, Ending

\* An event of the Reviewer changes its node and no other.
LEMMA ReviewerDrawn ==
    ASSUME IInv, Diagram, NEW st
    PROVE  /\ refactor_plan = NoPlan => Update(dag, ReviewerTask, st) = NoNodes
           /\ refactor_plan # NoPlan =>
                LET d == Update(dag, ReviewerTask, st) IN
                /\ DOMAIN d = Nodes /\ d[ArchitectTask] = "completed"
                /\ d[ReviewerTask] = st /\ \A t \in Tasks : d[t] = dag[t]
<1>1. CASE refactor_plan = NoPlan
  BY <1>1 DEF Diagram, NoNodes, Update
<1>2. CASE refactor_plan # NoPlan
  <2>1. DOMAIN dag = Nodes /\ dag[ArchitectTask] = "completed" /\ ReviewerTask \in Nodes
    BY <1>2 DEF Diagram, DagAgrees, Nodes
  <2>2. \A t \in Tasks : t \in Nodes /\ t # ReviewerTask
    BY PlanDrawn DEF Nodes
  <2>3. ArchitectTask \in Nodes /\ ArchitectTask # ReviewerTask
    BY ReservedTaskIds DEF Nodes
  <2>4. QED BY <1>2, <2>1, <2>2, <2>3 DEF Update
<1>3. QED BY <1>1, <1>2

\* A snapshot shows every task as it is.
LEMMA SnapshotDrawn ==
    ASSUME IInv, IInv', Diagram, refactor_plan # NoPlan, refactor_plan' = refactor_plan,
           NEW type, type # "plan.created"
    PROVE  LET d == ApplyDagEvent(dag, WithSnapshot(type)) IN
           /\ DOMAIN d = Nodes /\ d[ArchitectTask] = "completed"
           /\ d[ReviewerTask] = dag[ReviewerTask]
           /\ \A t \in Tasks : d[t] = Shown(task_statuses'[t])
           /\ \A type2 : type2 # "plan.created" =>
                ApplyDagEvent(d, WithSnapshot(type2)) = d
<1> DEFINE d == ApplySnapshot(dag, task_statuses')
<1>1. Tasks' = Tasks /\ DOMAIN task_statuses' = Tasks
  BY DEF Tasks, IInv, TypeOK
<1>2. task_statuses' # NoSnapshot
  <2>1. Tasks # {}
    BY PlanDrawn
  <2>2. QED BY <1>1, <2>1 DEF NoSnapshot
<1>3. DOMAIN dag = Nodes /\ dag[ArchitectTask] = "completed"
  BY DEF Diagram, DagAgrees
<1>4. /\ ArchitectTask \in Nodes /\ ArchitectTask \notin Tasks
      /\ ReviewerTask \in Nodes /\ ReviewerTask \notin Tasks /\ Tasks \subseteq Nodes
  BY PlanDrawn DEF Nodes
<1>5. /\ DOMAIN d = Nodes /\ d[ArchitectTask] = "completed"
      /\ d[ReviewerTask] = dag[ReviewerTask]
      /\ \A t \in Tasks : d[t] = Shown(task_statuses'[t])
  BY <1>1, <1>3, <1>4 DEF ApplySnapshot
<1>6. ApplySnapshot(d, task_statuses') = d
  BY <1>1, <1>3, <1>4 DEF ApplySnapshot
<1> HIDE DEF d
<1>7. ApplyDagEvent(dag, WithSnapshot(type)) = d
  BY <1>2, SnapshotApplied DEF d
<1>8. \A type2 : type2 # "plan.created" => ApplyDagEvent(d, WithSnapshot(type2)) = d
  BY <1>2, <1>6, SnapshotApplied
<1>9. QED BY <1>5, <1>7, <1>8

-----------------------------------------------------------------------------
(* Every step keeps the count of what was told. *)

LEMMA TellingStep ==
    ASSUME IInv, Telling, DagNext \/ UNCHANGED dagVars
    PROVE  Telling'
<1> USE DEF Telling, PlanFailureToldOnce, Same, FinalizeNode, EndNode
<1>0. node \in Node /\ NodeContext
  BY DEF IInv, TypeOK
<1>1. ASSUME NEW plan, DagArchitectPlans(plan) PROVE Telling'
  BY <1>1 DEF DagArchitectPlans, ArchitectPlans
<1>2. CASE DagArchitectExceedsBudget
  BY <1>2 DEF DagArchitectExceedsBudget, ArchitectExceedsBudget
<1>3. CASE DagScheduleTask
  BY <1>3 DEF DagScheduleTask, ScheduleTask, Schedulable
<1>4. CASE DagScheduleNothing
  BY <1>0, <1>4 DEF DagScheduleNothing, ScheduleNothing, Schedulable, RouteWithoutTask
<1>5. ASSUME NEW content, NEW success, DagDeveloperWrites(content, success) PROVE Telling'
  BY <1>5 DEF DagDeveloperWrites, DeveloperWrites
<1>6. ASSUME NEW exceeded, DagDeveloperEnds(exceeded) PROVE Telling'
  BY <1>6 DEF DagDeveloperEnds, DeveloperEnds
<1>7. CASE DagCompleteTask
  BY <1>7 DEF DagCompleteTask, CompleteTask
<1>8. CASE DagFailTask
  BY <1>8 DEF DagFailTask, FailTask
<1>9. ASSUME NEW exceeded, NEW next, DagReviewerEnds(exceeded, next) PROVE Telling'
  BY <1>9 DEF DagReviewerEnds, ReviewerEnds
<1>10. ASSUME NEW reply, DagDeveloperRetry(reply) PROVE Telling'
  BY <1>10 DEF DagDeveloperRetry, DeveloperRetry
<1>11. CASE DagFinalizeFailure
  BY <1>0, <1>11 DEF DagFinalizeFailure, FinalizeFailure, TellsFailure, NodeContext, planVars
<1>12. CASE DagFinalizeReviewSuccess
  BY <1>12 DEF DagFinalizeReviewSuccess, FinalizeReviewSuccess
<1>13. CASE DagNodeRaises
  BY <1>13 DEF DagNodeRaises, NodeRaises
<1>14. ASSUME NEW result, RunEnds(result) PROVE Telling'
  BY <1>14 DEF RunEnds, vars, planVars
<1>15. CASE DagReviewerContinues \/ DagEnded \/ UNCHANGED dagVars
  BY <1>15 DEF DagReviewerContinues, DagEnded, dagVars, vars, planVars
<1>16. QED
  BY <1>1, <1>2, <1>3, <1>4, <1>5, <1>6, <1>7, <1>8, <1>9, <1>10, <1>11, <1>12, <1>13,
     <1>14, <1>15 DEF DagNext, DagStep

-----------------------------------------------------------------------------
(* Every step keeps the diagram true, and the verdict out of it. *)

LEMMA DrawnKept ==
    ASSUME IInv', refactor_plan' = refactor_plan,
           refactor_plan = NoPlan => dag' = NoNodes,
           refactor_plan # NoPlan =>
             /\ DOMAIN dag' = Nodes /\ dag'[ArchitectTask] = "completed"
             /\ \A t \in Tasks : dag'[t] = Shown(task_statuses'[t])
    PROVE  Diagram'
<1>1. Tasks' = Tasks /\ Nodes' = Nodes
  BY DEF Tasks, Nodes
<1>2. refactor_plan = NoPlan => Tasks = {}
  BY NoPlanEmpty DEF Tasks
<1>3. QED BY <1>1, <1>2 DEF Diagram, DagAgrees

LEMMA VerdictOpen ==
    ASSUME Diagram, Ending, node \notin EndNode, refactor_plan # NoPlan
    PROVE  dag # NoNodes /\ dag[ReviewerTask] # "completed"
<1>1. DOMAIN dag = Nodes /\ ReviewerTask \in Nodes
  BY DEF Diagram, DagAgrees, Nodes
<1>2. dag # NoNodes
  BY <1>1 DEF NoNodes
<1>3. QED BY <1>2 DEF Ending, VerdictShown, EndNode

LEMMA EndingKept ==
    ASSUME Ending, node \notin EndNode, refactor_plan' = refactor_plan, outcome' = outcome,
           refactor_plan = NoPlan => dag' = NoNodes,
           refactor_plan # NoPlan => dag'[ReviewerTask] # "completed"
    PROVE  Ending'
BY DEF Ending, VerdictShown

\* The steps that leave the diagram and the statuses alone.
LEMMA QuietKept ==
    ASSUME IInv, IInv', Diagram, Ending, node \notin EndNode \cup {"complete_task"},
           dag' = dag, UNCHANGED <<refactor_plan, task_statuses, outcome>>
    PROVE  Diagram' /\ Ending'
<1>1. Diagram'
  BY DrawnKept DEF Diagram, DagAgrees, EndNode
<1>2. Ending'
  BY EndingKept, VerdictOpen DEF Diagram
<1>3. QED BY <1>1, <1>2

\* The steps after which only the node of the Reviewer is another.
LEMMA ReviewedKept ==
    ASSUME IInv, IInv', Diagram, Ending, node \notin EndNode \cup {"complete_task"},
           UNCHANGED <<refactor_plan, task_statuses, outcome>>,
           NEW st, st # "completed", dag' = Update(dag, ReviewerTask, st)
    PROVE  Diagram' /\ Ending'
<1>1. /\ refactor_plan = NoPlan => dag' = NoNodes
      /\ refactor_plan # NoPlan =>
           /\ DOMAIN dag' = Nodes /\ dag'[ArchitectTask] = "completed"
           /\ dag'[ReviewerTask] = st /\ \A t \in Tasks : dag'[t] = dag[t]
  BY ReviewerDrawn
<1>2. Diagram'
  BY <1>1, DrawnKept DEF Diagram, DagAgrees, EndNode
<1>3. Ending'
  BY <1>1, EndingKept
<1>4. QED BY <1>2, <1>3

\* The steps that end with a snapshot or two.
LEMMA SnapshotKept ==
    ASSUME IInv, IInv', Diagram, Ending, node \notin EndNode, refactor_plan # NoPlan,
           UNCHANGED <<refactor_plan, outcome>>, NEW type, type # "plan.created",
           dag' = ApplyDagEvent(dag, WithSnapshot(type))
    PROVE  Diagram' /\ Ending'
<1>1. /\ DOMAIN dag' = Nodes /\ dag'[ArchitectTask] = "completed"
      /\ dag'[ReviewerTask] = dag[ReviewerTask]
      /\ \A t \in Tasks : dag'[t] = Shown(task_statuses'[t])
  BY SnapshotDrawn
<1>2. Diagram'
  BY <1>1, DrawnKept
<1>3. Ending'
  BY <1>1, VerdictOpen, EndingKept
<1>4. QED BY <1>2, <1>3

LEMMA TwoSnapshots ==
    ASSUME IInv, IInv', Diagram, refactor_plan # NoPlan, refactor_plan' = refactor_plan,
           NEW type, type # "plan.created", NEW type2, type2 # "plan.created",
           NEW both \in BOOLEAN,
           Yield(<<WithSnapshot(type)>> \o If(both, WithSnapshot(type2)))
    PROVE  dag' = ApplyDagEvent(dag, WithSnapshot(type))
<1> DEFINE e == WithSnapshot(type)  e2 == WithSnapshot(type2)
<1>1. ApplyDagEvent(ApplyDagEvent(dag, e), e2) = ApplyDagEvent(dag, e)
  BY SnapshotDrawn
<1> HIDE DEF e, e2
<1>2. CASE both
  <2>1. <<e>> \o If(both, e2) = <<e, e2>>
    BY <1>2, Events
  <2>2. Yield(<<e, e2>>)
    BY <2>1 DEF e, e2
  <2>3. QED BY <1>1, <2>2, YieldTwo DEF e
<1>3. CASE ~both
  <2>1. <<e>> \o If(both, e2) = <<e>>
    BY <1>3, Events
  <2>2. Yield(<<e>>)
    BY <2>1 DEF e, e2
  <2>3. QED BY <2>2, YieldOne DEF e
<1>4. QED BY <1>2, <1>3

LEMMA DagArchitectPlansStep ==
    ASSUME IInv, IInv', Diagram, Ending, NEW plan, DagArchitectPlans(plan)
    PROVE  Diagram' /\ Ending'
<1> DEFINE started == Event("task.started", ArchitectTask)
           created == WithSnapshot("plan.created")
           completed == Event("task.completed", ArchitectTask)
<1>1. /\ node = "architect" /\ node' = "schedule_task" /\ refactor_plan' = plan
      /\ outcome' = outcome /\ task_statuses' = [t \in TaskIds(plan) |-> "pending"]
      /\ Yield(<<started>> \o If(plan # NoPlan, created) \o <<completed>>)
  BY DEF DagArchitectPlans, ArchitectPlans, Same
<1>2. dag = NoNodes /\ outcome = "none"
  BY <1>1 DEF IInv, NodeContext, Diagram, Ending, EndNode
<1>3. ApplyDagEvent(dag, started) = NoNodes
  BY <1>2, EventApplied DEF Update, NoNodes
<1> HIDE DEF started, created
<1>4. CASE plan = NoPlan
  <2>1. Yield(<<started, completed>>)
    BY <1>1, <1>4, Events
  <2>2. dag' = Update(NoNodes, ArchitectTask, "completed")
    BY <1>3, <2>1, YieldTwo, EventApplied
  <2>3. dag' = NoNodes /\ Tasks' = {}
    BY <1>1, <1>4, <2>2, NoPlanEmpty DEF Update, NoNodes, Tasks
  <2>4. QED BY <1>1, <1>2, <1>4, <2>3 DEF Diagram, DagAgrees, Ending, VerdictShown
<1>5. CASE plan # NoPlan
  <2> DEFINE ids == TaskIds(plan)
             drawn == [n \in ids \cup {ArchitectTask, ReviewerTask} |->
                         IF n = ArchitectTask THEN "completed" ELSE "pending"]
  <2>1. /\ ids = Tasks' /\ DOMAIN task_statuses' = ids
        /\ ArchitectTask \notin ids /\ ReviewerTask \notin ids /\ ArchitectTask # ReviewerTask
    BY <1>1, PlanType, ReservedTaskIds DEF IInv, TypeOK, Tasks
  <2>2. ApplyDagEvent(NoNodes, created) = drawn
    <3>1. ApplyDagEvent(NoNodes, created)
            = ApplySnapshot(InitializeDag(DOMAIN task_statuses'), task_statuses')
      BY DEF ApplyDagEvent, WithSnapshot, created
    <3>2. InitializeDag(DOMAIN task_statuses') = drawn
      BY <2>1 DEF InitializeDag
    <3>3. ApplySnapshot(drawn, task_statuses') = drawn
      BY <1>1, <2>1 DEF ApplySnapshot, Shown
    <3>4. QED BY <3>1, <3>2, <3>3
  <2>3. Yield(<<started, created, completed>>)
    <3>1. If(plan # NoPlan, created) = <<created>>
      BY <1>5 DEF If
    <3>2. <<started>> \o <<created>> \o <<completed>> = <<started, created, completed>>
      BY EventsConcat
    <3>3. QED BY <1>1, <3>1, <3>2
  <2>4. dag' = Update(drawn, ArchitectTask, "completed")
    BY <1>3, <2>2, <2>3, YieldThree, EventApplied
  <2>5. dag' = drawn
    BY <2>1, <2>4 DEF Update
  <2>6. Nodes' = DOMAIN drawn /\ \A t \in Tasks' : dag'[t] = Shown(task_statuses'[t])
    BY <1>1, <2>1, <2>5 DEF Nodes, Shown
  <2>7. Diagram'
    BY <1>1, <1>5, <2>1, <2>5, <2>6 DEF Diagram, DagAgrees
  <2>8. Ending'
    BY <1>1, <1>2, <2>1, <2>5 DEF Ending, VerdictShown
  <2>9. QED BY <2>7, <2>8
<1>6. QED BY <1>4, <1>5

LEMMA DagArchitectExceedsBudgetStep ==
    ASSUME IInv, IInv', Diagram, Ending, DagArchitectExceedsBudget
    PROVE  Diagram' /\ Ending'
<1> DEFINE started == Event("task.started", ArchitectTask)
           exceeded == Event("run.budget.exceeded", ArchitectTask)
<1>1. /\ node = "architect" /\ UNCHANGED <<refactor_plan, task_statuses, outcome>>
      /\ Yield(<<started>> \o If(TRUE, exceeded))
  BY DEF DagArchitectExceedsBudget, ArchitectExceedsBudget, Same, BudgetExceeded, planVars, taskVars
<1>2. dag = NoNodes
  BY <1>1 DEF IInv, NodeContext, Diagram
<1> HIDE DEF started, exceeded
<1>3. Yield(<<started, exceeded>>)
  BY <1>1, Events
<1>4. dag' = Update(Update(dag, ArchitectTask, "in_progress"), ArchitectTask, "failed")
  BY <1>3, YieldTwo, EventApplied DEF started, exceeded
<1>5. dag' = dag
  BY <1>2, <1>4 DEF Update, NoNodes
<1>6. QED BY <1>1, <1>5, QuietKept DEF EndNode

LEMMA DagScheduleStep ==
    ASSUME IInv, IInv', Diagram, Ending, DagScheduleTask \/ DagScheduleNothing
    PROVE  Diagram' /\ Ending'
<1>1. CASE DagScheduleTask
  <2>1. /\ node = "schedule_task" /\ refactor_plan # NoPlan
        /\ UNCHANGED <<refactor_plan, outcome>> /\ Yield(<<WithSnapshot("task.started")>>)
    BY <1>1 DEF DagScheduleTask, ScheduleTask, Schedulable, DynamicPlan, Same, planVars
  <2>2. dag' = ApplyDagEvent(dag, WithSnapshot("task.started"))
    BY <2>1, YieldOne
  <2>3. QED BY <2>1, <2>2, SnapshotKept DEF EndNode
<1>2. CASE DagScheduleNothing
  <2>1. node = "schedule_task" /\ UNCHANGED <<refactor_plan, outcome>> /\ Yield(<<>>)
    BY <1>2 DEF DagScheduleNothing, ScheduleNothing, Same, planVars
  <2>2. task_statuses' = task_statuses
    BY <1>2, LivePlanIsReady DEF DagScheduleNothing, ScheduleNothing
  <2>3. dag' = dag
    BY <2>1, YieldNothing
  <2>4. QED BY <2>1, <2>2, <2>3, QuietKept DEF EndNode
<1>3. QED BY <1>1, <1>2

LEMMA DagDeveloperStep ==
    ASSUME IInv, IInv', Diagram, Ending,
           NEW content, NEW success, NEW exceeded \in BOOLEAN,
           DagDeveloperWrites(content, success) \/ DagDeveloperEnds(exceeded)
    PROVE  Diagram' /\ Ending'
<1>1. CASE DagDeveloperWrites(content, success)
  <2>1. /\ node = "developer" /\ UNCHANGED <<refactor_plan, task_statuses, outcome>>
        /\ Yield(<<>>)
    BY <1>1 DEF DagDeveloperWrites, DeveloperWrites, Same, taskVars
  <2>2. QED BY <2>1, YieldNothing, QuietKept DEF EndNode
<1>2. CASE DagDeveloperEnds(exceeded)
  <2>1. /\ node = "developer" /\ budget_exceeded' = exceeded
        /\ UNCHANGED <<refactor_plan, task_statuses, active_task_id, outcome>>
        /\ Yield(If(exceeded, Event("run.budget.exceeded", active_task_id)))
    BY <1>2 DEF DagDeveloperEnds, DeveloperEnds, Same, BudgetExceeded, planVars, taskVars
  <2>2. CASE ~exceeded \/ refactor_plan = NoPlan
    <3>1. CASE ~exceeded
      BY <2>1, <3>1, Events, YieldNothing, QuietKept DEF EndNode
    <3>2. CASE exceeded /\ refactor_plan = NoPlan
      <4>1. dag' = Update(dag, active_task_id, "failed")
        BY <2>1, <3>2, Events, YieldOne, EventApplied
      <4>2. dag' = dag
        BY <3>2, <4>1 DEF Update, NoNodes, Diagram
      <4>3. QED BY <2>1, <4>2, QuietKept DEF EndNode
    <3>3. QED BY <2>2, <3>1, <3>2
  <2>3. CASE exceeded /\ refactor_plan # NoPlan
    <3>1. dag' = Update(dag, active_task_id, "failed")
      BY <2>1, <2>3, Events, YieldOne, EventApplied
    <3>2. active_task_id \in Tasks /\ node' = "complete_task"
      BY <1>2, <2>1, <2>3
         DEF IInv, TypeOK, NodeContext, DagDeveloperEnds, DeveloperEnds, DynamicPlan
    <3>3. /\ DOMAIN dag = Nodes /\ dag[ArchitectTask] = "completed"
          /\ \A t \in Tasks : dag[t] = Shown(task_statuses[t])
      BY <2>1, <2>3 DEF Diagram, DagAgrees
    <3>4. active_task_id \in Nodes /\ active_task_id \notin {ArchitectTask, ReviewerTask}
      BY <3>2, PlanDrawn DEF Nodes
    <3>5. /\ DOMAIN dag' = Nodes /\ dag'[ArchitectTask] = "completed"
          /\ dag'[ReviewerTask] = dag[ReviewerTask] /\ dag'[active_task_id] = "failed"
          /\ \A t \in Tasks \ {active_task_id} : dag'[t] = dag[t]
      <4>1. /\ ArchitectTask \in Nodes /\ ReviewerTask \in Nodes /\ Tasks \subseteq Nodes
        BY DEF Nodes
      <4>2. QED BY <3>1, <3>3, <3>4, <4>1 DEF Update
    <3>6. Tasks' = Tasks /\ Nodes' = Nodes
      BY <2>1 DEF Tasks, Nodes
    <3>7. Diagram'
      BY <2>1, <2>3, <3>2, <3>3, <3>5, <3>6 DEF Diagram, DagAgrees
    <3>8. Ending'
      BY <2>1, <2>3, <3>5, VerdictOpen, EndingKept DEF EndNode
    <3>9. QED BY <3>7, <3>8
  <2>4. QED BY <2>2, <2>3
<1>3. QED BY <1>1, <1>2

LEMMA DagCompleteTaskStep ==
    ASSUME IInv, IInv', Diagram, Ending, DagCompleteTask \/ DagFailTask
    PROVE  Diagram' /\ Ending'
<1> DEFINE type == IF DagCompleteTask THEN "task.completed" ELSE "task.failed"
           type2 == IF DagCompleteTask THEN "plan.completed" ELSE "plan.failed"
           both == IF DagCompleteTask THEN plan_status' = "completed" ELSE plan_status' = "failed"
<1>1. /\ node = "complete_task" /\ UNCHANGED <<refactor_plan, outcome>>
      /\ active_task_id # NoTask
  BY DEF DagCompleteTask, CompleteTask, DagFailTask, FailTask, planVars
<1>2. Yield(<<WithSnapshot(type)>> \o If(both, WithSnapshot(type2)))
  BY DEF DagCompleteTask, DagFailTask
<1>3. refactor_plan # NoPlan
  BY <1>1, PlanDrawn DEF IInv, TypeOK
<1>4. type # "plan.created" /\ type2 # "plan.created" /\ both \in BOOLEAN
  OBVIOUS
<1> HIDE DEF type, type2, both
<1>5. dag' = ApplyDagEvent(dag, WithSnapshot(type))
  BY <1>1, <1>2, <1>3, <1>4, TwoSnapshots
<1>6. QED BY <1>1, <1>3, <1>4, <1>5, SnapshotKept DEF EndNode

LEMMA UpdatedAgain ==
    ASSUME NEW nodes, NEW id, NEW one, NEW two
    PROVE  Update(Update(nodes, id, one), id, two) = Update(nodes, id, two)
<1>1. CASE id \in DOMAIN nodes
  BY <1>1 DEF Update
<1>2. CASE id \notin DOMAIN nodes
  BY <1>2 DEF Update
<1>3. QED BY <1>1, <1>2

LEMMA DagReviewerStep ==
    ASSUME IInv, IInv', Diagram, Ending, NEW exceeded \in BOOLEAN, NEW next,
           DagReviewerEnds(exceeded, next) \/ DagReviewerContinues
    PROVE  Diagram' /\ Ending'
<1> DEFINE started == Event("task.started", ReviewerTask)
           budget == Event("run.budget.exceeded", ReviewerTask)
           failed == Event("review.failed", ReviewerTask)
<1>1. /\ node = "reviewer" /\ UNCHANGED <<refactor_plan, task_statuses, outcome>>
      /\ \/ Yield(<<started>>)
         \/ \E fails \in BOOLEAN : Yield(<<started>> \o If(exceeded, budget) \o If(fails, failed))
  BY DEF DagReviewerEnds, ReviewerEnds, DagReviewerContinues, Same, BudgetExceeded, vars,
         planVars, taskVars
<1>2. /\ ApplyDagEvent(dag, started) = Update(dag, ReviewerTask, "in_progress")
      /\ \A nodes : /\ ApplyDagEvent(nodes, budget) = Update(nodes, ReviewerTask, "failed")
                    /\ ApplyDagEvent(nodes, failed) = Update(nodes, ReviewerTask, "failed")
  BY EventApplied
<1> HIDE DEF started, budget, failed
<1> DEFINE OneOfFour ==
             \/ Yield(<<started>>) \/ Yield(<<started, budget>>)
             \/ Yield(<<started, failed>>) \/ Yield(<<started, budget, failed>>)
<1>3. OneOfFour
  <2>1. ASSUME NEW fails \in BOOLEAN,
               Yield(<<started>> \o If(exceeded, budget) \o If(fails, failed))
        PROVE  OneOfFour
    <3>1. CASE exceeded /\ fails
      BY <2>1, <3>1, Events
    <3>2. CASE exceeded /\ ~fails
      BY <2>1, <3>2, Events
    <3>3. CASE ~exceeded /\ fails
      BY <2>1, <3>3, Events
    <3>4. CASE ~exceeded /\ ~fails
      BY <2>1, <3>4, Events
    <3>5. QED BY <3>1, <3>2, <3>3, <3>4
  <2>2. QED BY <1>1, <2>1
<1>4. \E st \in {"in_progress", "failed"} : dag' = Update(dag, ReviewerTask, st)
  <2>1. CASE Yield(<<started>>)
    BY <1>2, <2>1, YieldOne
  <2>2. CASE Yield(<<started, budget>>)
    BY <1>2, <2>2, YieldTwo, UpdatedAgain
  <2>3. CASE Yield(<<started, failed>>)
    BY <1>2, <2>3, YieldTwo, UpdatedAgain
  <2>4. CASE Yield(<<started, budget, failed>>)
    BY <1>2, <2>4, YieldThree, UpdatedAgain
  <2>5. QED BY <1>3, <2>1, <2>2, <2>3, <2>4
<1>5. QED BY <1>1, <1>4, ReviewedKept DEF EndNode

LEMMA DagDeveloperRetryStep ==
    ASSUME IInv, IInv', Diagram, Ending, NEW reply, DagDeveloperRetry(reply)
    PROVE  Diagram' /\ Ending'
<1> DEFINE snapshot == WithSnapshot("task.failed")
           retrying == Event("run.retrying", ReviewerTask)
<1>1. /\ node = "developer_retry" /\ UNCHANGED <<refactor_plan, outcome>>
      /\ ~DynamicPlan => task_statuses' = task_statuses
      /\ Yield(If(DynamicPlan, snapshot) \o <<retrying>>)
  BY DEF DagDeveloperRetry, DeveloperRetry, RetryEvents, Same, planVars, taskVars
<1>2. \A nodes : ApplyDagEvent(nodes, retrying) = Update(nodes, ReviewerTask, "in_progress")
  BY EventApplied
<1>3. CASE ~DynamicPlan
  <2> HIDE DEF retrying, snapshot
  <2>1. Yield(<<retrying>>)
    <3>1. If(DynamicPlan, snapshot) = <<>>
      BY <1>3 DEF If
    <3>2. QED BY <1>1, <3>1, Events
  <2>2. dag' = Update(dag, ReviewerTask, "in_progress")
    BY <1>2, <2>1, YieldOne
  <2>3. QED BY <1>1, <1>3, <2>2, ReviewedKept DEF EndNode
<1>4. CASE DynamicPlan
  <2> DEFINE d == ApplyDagEvent(dag, snapshot)
  <2>1. refactor_plan # NoPlan
    BY <1>4 DEF DynamicPlan
  <2>2. /\ DOMAIN d = Nodes /\ d[ArchitectTask] = "completed"
        /\ \A t \in Tasks : d[t] = Shown(task_statuses'[t])
    BY <1>1, <2>1, SnapshotDrawn
  <2> HIDE DEF retrying, snapshot
  <2>3. Yield(<<snapshot, retrying>>)
    BY <1>1, <1>4, Events
  <2>4. dag' = Update(d, ReviewerTask, "in_progress")
    BY <1>2, <2>3, YieldTwo
  <2> HIDE DEF d
  <2>5. /\ ArchitectTask \in Nodes /\ ArchitectTask # ReviewerTask /\ ReviewerTask \in Nodes
        /\ \A t \in Tasks : t \in Nodes /\ t # ReviewerTask
    BY PlanDrawn, ReservedTaskIds DEF Nodes
  <2>6. /\ DOMAIN dag' = Nodes /\ dag'[ArchitectTask] = "completed"
        /\ \A t \in Tasks : dag'[t] = Shown(task_statuses'[t])
        /\ dag'[ReviewerTask] = "in_progress"
    BY <2>2, <2>4, <2>5 DEF Update
  <2>7. Diagram'
    BY <1>1, <2>1, <2>6, DrawnKept
  <2>8. Ending'
    BY <1>1, <2>1, <2>6, EndingKept DEF EndNode
  <2>9. QED BY <2>7, <2>8
<1>5. QED BY <1>3, <1>4

LEMMA DagFinalizeFailureStep ==
    ASSUME IInv, IInv', Diagram, Ending, DagFinalizeFailure
    PROVE  Diagram' /\ Ending'
<1> DEFINE snapshot == WithSnapshot("plan.failed")
<1>1. /\ node \in FinalizeNode /\ UNCHANGED <<refactor_plan, task_statuses, outcome>>
      /\ Yield(If(TellsFailure, snapshot))
  BY DEF DagFinalizeFailure, FinalizeFailure, planVars, taskVars
<1>2. TellsFailure \in BOOLEAN /\ (TellsFailure => refactor_plan # NoPlan)
  BY DEF IInv, NodeContext, TellsFailure
<1> HIDE DEF snapshot
<1>3. CASE TellsFailure
  <2>1. dag' = ApplyDagEvent(dag, snapshot)
    <3>1. If(TellsFailure, snapshot) = <<snapshot>>
      BY <1>3 DEF If
    <3>2. QED BY <1>1, <3>1, YieldOne
  <2>2. QED BY <1>1, <1>2, <1>3, <2>1, SnapshotKept DEF EndNode, FinalizeNode, snapshot
<1>4. CASE ~TellsFailure
  <2>1. dag' = dag
    <3>1. If(TellsFailure, snapshot) = <<>>
      BY <1>4 DEF If
    <3>2. QED BY <1>1, <3>1, YieldNothing
  <2>2. QED BY <1>1, <2>1, QuietKept DEF EndNode, FinalizeNode
<1>5. QED BY <1>2, <1>3, <1>4

\* The steps that give the verdict: everything else is shown as complete.
LEMMA VerdictKept ==
    ASSUME IInv, IInv', Diagram, Ending, node \in {"finalize_review_success", "prepare_workspace_approval"},
           UNCHANGED <<refactor_plan, task_statuses>>,
           NEW st \in {"completed", "failed"}, dag' = Update(dag, ReviewerTask, st),
           node' = "prepare_workspace_approval",
           outcome' \in {"none", "completed", "failed"}, outcome' # "none" => outcome' = st
    PROVE  Diagram' /\ Ending'
<1>1. /\ refactor_plan = NoPlan => dag' = NoNodes
      /\ refactor_plan # NoPlan =>
           /\ DOMAIN dag' = Nodes /\ dag'[ArchitectTask] = "completed"
           /\ dag'[ReviewerTask] = st /\ \A t \in Tasks : dag'[t] = dag[t]
  BY ReviewerDrawn
<1>2. refactor_plan # NoPlan => \A t \in Tasks : dag[t] = "completed"
  <2>1. \A t \in Tasks : task_statuses[t] = "completed"
    BY DEF IInv, NodeContext, StatusesAgree, WholePlanNode
  <2>2. QED BY <2>1 DEF Diagram, DagAgrees, Shown
<1>3. Diagram'
  BY <1>1, DrawnKept DEF Diagram, DagAgrees
<1>4. Ending'
  BY <1>1, <1>2 DEF Ending, VerdictShown, EndNode, Nodes
<1>5. QED BY <1>3, <1>4

LEMMA DagFinalizeReviewSuccessStep ==
    ASSUME IInv, IInv', Diagram, Ending, DagFinalizeReviewSuccess
    PROVE  Diagram' /\ Ending'
<1>1. /\ node = "finalize_review_success" /\ node' = "prepare_workspace_approval"
      /\ UNCHANGED <<refactor_plan, task_statuses, outcome>>
      /\ outcome = "none"
  BY DEF DagFinalizeReviewSuccess, FinalizeReviewSuccess, Same, planVars, taskVars, Ending,
         EndNode
<1>2. PICK verdict \in {"review.passed", "review.failed"} : Yield(<<Event(verdict, ReviewerTask)>>)
  BY DEF DagFinalizeReviewSuccess
<1>3. dag' = ApplyDagEvent(dag, Event(verdict, ReviewerTask))
  BY <1>2, YieldOne
<1>4. \E st \in {"completed", "failed"} : dag' = Update(dag, ReviewerTask, st)
  BY <1>3, EventApplied
<1>5. QED BY <1>1, <1>4, VerdictKept

LEMMA RunEndsStep ==
    ASSUME IInv, IInv', Diagram, Telling, Ending, NEW result \in {"completed", "failed"},
           RunEnds(result)
    PROVE  Diagram' /\ Ending'
<1>1. /\ node' = node /\ UNCHANGED <<refactor_plan, task_statuses>> /\ outcome' = result
      /\ node \in {"prepare_workspace_approval", "cleanup_workspace"}
      /\ node = "cleanup_workspace" => result = "failed"
      /\ Yield(<<Event(IF result = "completed" THEN "run.completed" ELSE "run.failed", NoTask)>>)
  BY DEF RunEnds, vars, planVars, taskVars
<1>2. dag' = Update(dag, ReviewerTask, result)
  BY <1>1, YieldOne, EventApplied
<1>3. CASE node = "prepare_workspace_approval"
  BY <1>1, <1>2, <1>3, VerdictKept
<1>4. CASE node = "cleanup_workspace"
  <2>1. /\ refactor_plan = NoPlan => dag' = NoNodes
        /\ refactor_plan # NoPlan =>
             /\ DOMAIN dag' = Nodes /\ dag'[ArchitectTask] = "completed"
             /\ dag'[ReviewerTask] = "failed" /\ \A t \in Tasks : dag'[t] = dag[t]
    BY <1>1, <1>2, <1>4, ReviewerDrawn
  <2>2. Diagram'
    BY <1>1, <1>4, <2>1, DrawnKept DEF Diagram, DagAgrees
  <2>3. Ending'
    BY <1>1, <1>4, <2>1 DEF Ending, VerdictShown, EndNode
  <2>4. QED BY <2>2, <2>3
<1>5. QED BY <1>1, <1>3, <1>4

LEMMA DagNodeRaisesStep ==
    ASSUME IInv, IInv', Diagram, Ending, DagNodeRaises
    PROVE  Diagram' /\ Ending'
<1>1. /\ node \notin EndNode /\ node' = "raised" /\ outcome' = "failed"
      /\ UNCHANGED <<refactor_plan, task_statuses, budget_exceeded, active_task_id>>
      /\ Yield(<<Event("run.failed", NoTask)>>)
  BY DEF DagNodeRaises, NodeRaises, planVars, taskVars
<1>2. dag' = Update(dag, ReviewerTask, "failed")
  BY <1>1, YieldOne, EventApplied
<1>3. /\ refactor_plan = NoPlan => dag' = NoNodes
      /\ refactor_plan # NoPlan =>
           /\ DOMAIN dag' = Nodes /\ dag'[ArchitectTask] = "completed"
           /\ dag'[ReviewerTask] = "failed" /\ \A t \in Tasks : dag'[t] = dag[t]
  BY <1>2, ReviewerDrawn
<1>4. Tasks' = Tasks /\ Nodes' = Nodes
  BY <1>1 DEF Tasks, Nodes
<1>5. Diagram'
  BY <1>1, <1>3, <1>4 DEF Diagram, DagAgrees
<1>6. Ending'
  BY <1>1, <1>3 DEF Ending, VerdictShown, EndNode
<1>7. QED BY <1>5, <1>6

-----------------------------------------------------------------------------
(* Together: the stream never disturbs the control plane, and the diagram   *)
(* follows it.                                                              *)

LEMMA DagStepIsStep ==
    ASSUME DagNext \/ UNCHANGED dagVars
    PROVE  [Next]_vars
<1> USE DEF Next
<1>1. ASSUME NEW plan \in Plans \cup {NoPlan}, DagArchitectPlans(plan) PROVE Next
  BY <1>1 DEF DagArchitectPlans
<1>2. CASE \/ DagArchitectExceedsBudget \/ DagScheduleTask \/ DagScheduleNothing
           \/ DagCompleteTask \/ DagFailTask \/ DagFinalizeFailure
           \/ DagFinalizeReviewSuccess \/ DagNodeRaises
  BY <1>2 DEF DagArchitectExceedsBudget, DagScheduleTask, DagScheduleNothing, DagCompleteTask,
              DagFailTask, DagFinalizeFailure, DagFinalizeReviewSuccess, DagNodeRaises
<1>3. ASSUME NEW content \in Contents, NEW success \in BOOLEAN,
             DagDeveloperWrites(content, success)
      PROVE  Next
  BY <1>3 DEF DagDeveloperWrites
<1>4. ASSUME NEW exceeded \in BOOLEAN, DagDeveloperEnds(exceeded) PROVE Next
  BY <1>4 DEF DagDeveloperEnds
<1>5. ASSUME NEW exceeded \in BOOLEAN, NEW next \in Node, DagReviewerEnds(exceeded, next)
      PROVE  Next
  BY <1>5 DEF DagReviewerEnds
<1>6. ASSUME NEW reply \in SUBSET (Tasks \cup {MaxPlanTasks + 1}), DagDeveloperRetry(reply)
      PROVE  Next
  BY <1>6 DEF DagDeveloperRetry
<1>7. CASE \/ \E result \in {"completed", "failed"} : RunEnds(result)
           \/ DagReviewerContinues \/ DagEnded \/ UNCHANGED dagVars
  BY <1>7 DEF RunEnds, DagReviewerContinues, DagEnded, dagVars
<1>8. QED BY <1>1, <1>2, <1>3, <1>4, <1>5, <1>6, <1>7 DEF DagNext, DagStep

LEMMA DagStepInvariant == IInv /\ DagInv /\ [DagNext]_dagVars => IInv' /\ DagInv'
<1> SUFFICES ASSUME IInv, Diagram, Telling, Ending, DagNext \/ UNCHANGED dagVars
             PROVE  IInv' /\ Diagram' /\ Telling' /\ Ending'
  BY DagInvParts
<1>1. IInv' /\ Telling'
  BY DagStepIsStep, NextInvariant, TellingStep
<1>2. ASSUME NEW plan, DagArchitectPlans(plan) PROVE Diagram' /\ Ending'
  BY <1>1, <1>2, DagArchitectPlansStep
<1>3. CASE DagArchitectExceedsBudget \/ DagScheduleTask \/ DagScheduleNothing
  BY <1>1, <1>3, DagArchitectExceedsBudgetStep, DagScheduleStep
<1>4. ASSUME NEW content, NEW success, DagDeveloperWrites(content, success)
      PROVE  Diagram' /\ Ending'
  BY <1>1, <1>4, DagDeveloperStep
<1>5. ASSUME NEW exceeded \in BOOLEAN, DagDeveloperEnds(exceeded) PROVE Diagram' /\ Ending'
  BY <1>1, <1>5, DagDeveloperStep
<1>6. CASE DagCompleteTask \/ DagFailTask
  BY <1>1, <1>6, DagCompleteTaskStep
<1>7. ASSUME NEW exceeded \in BOOLEAN, NEW next, DagReviewerEnds(exceeded, next)
      PROVE  Diagram' /\ Ending'
  BY <1>1, <1>7, DagReviewerStep
<1>8. CASE DagReviewerContinues
  BY <1>1, <1>8, DagReviewerStep
<1>9. ASSUME NEW reply, DagDeveloperRetry(reply) PROVE Diagram' /\ Ending'
  BY <1>1, <1>9, DagDeveloperRetryStep
<1>10. CASE DagFinalizeFailure \/ DagFinalizeReviewSuccess \/ DagNodeRaises
  BY <1>1, <1>10, DagFinalizeFailureStep, DagFinalizeReviewSuccessStep, DagNodeRaisesStep
<1>11. ASSUME NEW result \in {"completed", "failed"}, RunEnds(result)
       PROVE  Diagram' /\ Ending'
  BY <1>1, <1>11, RunEndsStep
<1>12. CASE DagEnded \/ UNCHANGED dagVars
  <2>1. /\ UNCHANGED <<dag, outcome, node, refactor_plan, task_statuses, budget_exceeded,
                       active_task_id>>
        /\ Tasks' = Tasks /\ Nodes' = Nodes
    BY <1>12 DEF DagEnded, dagVars, vars, planVars, taskVars, Tasks, Nodes
  <2>2. Diagram'
    BY <2>1 DEF Diagram, DagAgrees
  <2>3. Ending'
    BY <2>1 DEF Ending, VerdictShown
  <2>4. QED BY <1>1, <2>2, <2>3
<1>13. QED
  BY <1>1, <1>2, <1>3, <1>4, <1>5, <1>6, <1>7, <1>8, <1>9, <1>10, <1>11, <1>12
     DEF DagNext, DagStep

LEMMA DagInitInvariant == DagInit => IInv /\ DagInv
<1> SUFFICES ASSUME DagInit PROVE IInv /\ DagInv
  OBVIOUS
<1>1. IInv
  BY InitInvariant DEF DagInit, AInit
<1>2. /\ refactor_plan = NoPlan /\ node = "architect" /\ dag = NoNodes /\ told = 0
      /\ last_emitted_plan_status = "none" /\ outcome = "none" /\ Tasks = {}
  BY NoPlanEmpty DEF DagInit, AInit, Init, Tasks
<1>3. QED
  BY <1>1, <1>2 DEF DagInv, DagContext, DagAgrees, PlanFailureToldOnce, VerdictShown

\* What holds of the stream and the diagram between two updates.
THEOREM DagInvariance == DagSpec => [](IInv /\ DagInv)
BY DagInitInvariant, DagStepInvariant, PTL DEF DagSpec

\* The diagram agrees with the control plane after every event, whatever the
\* plan, the retries and the reviews: applyDagEvent loses nothing that
\* stream_refactor tells.
THEOREM DiagramAgrees == DagSpec => []DagAgrees
<1>1. DagInv => DagAgrees
  BY DEF DagInv
<1>2. QED BY <1>1, DagInvariance, PTL

\* stream_refactor tells the failure of a plan once, and before the run is
\* cleaned up.
THEOREM FailureToldOnce == DagSpec => []PlanFailureToldOnce
<1>1. DagInv => PlanFailureToldOnce
  BY DEF DagInv
<1>2. QED BY <1>1, DagInvariance, PTL

\* The Reviewer is shown as done only for an accepted plan shown as complete.
THEOREM VerdictTruthful == DagSpec => []VerdictShown
<1>1. DagInv => VerdictShown
  BY DEF DagInv
<1>2. QED BY <1>1, DagInvariance, PTL

LEMMA DagStepCounts ==
    ASSUME AttemptInv, DagNext \/ UNCHANGED dagVars
    PROVE  [ANext]_<<vars, attempts>>
<1>1. CASE DagStep /\ CountAttempt
  <2>1. Next \/ UNCHANGED vars
    BY <1>1, DagStepIsStep DEF DagNext
  <2>2. CASE UNCHANGED vars
    <3>1. /\ NoTask \notin Tasks /\ attempts \in [Tasks -> Nat]
          /\ TaskIds(refactor_plan') = Tasks /\ active_task_id' = active_task_id
      BY <2>2, PlanType DEF AttemptInv, IInv, TypeOK, vars, planVars, Tasks
    <3>2. attempts' = [t \in Tasks |-> attempts[t]]
      BY <1>1, <3>1 DEF CountAttempt
    <3>3. QED BY <2>2, <3>1, <3>2
  <2>3. QED BY <1>1, <2>1, <2>2 DEF ANext
<1>2. CASE DagReviewerContinues \/ DagEnded \/ UNCHANGED dagVars
  BY <1>2 DEF DagReviewerContinues, DagEnded, dagVars
<1>3. QED BY <1>1, <1>2 DEF DagNext

\* What is told and drawn never disturbs the control plane: each update of
\* stream_refactor is a step of it, or leaves it alone.
THEOREM StreamFollowsControlPlane == DagSpec => ASpec
<1>1. DagInit => AInit /\ AttemptInv
  BY AttemptInit DEF DagInit
<1>2. AttemptInv /\ [DagNext]_dagVars => [ANext]_<<vars, attempts>> /\ AttemptInv'
  BY DagStepCounts, AttemptStep
<1>3. QED BY <1>1, <1>2, PTL DEF DagSpec, ASpec
=============================================================================
