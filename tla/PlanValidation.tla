--------------------------- MODULE PlanValidation ---------------------------
(***************************************************************************)
(* How a plan of the Architect is admitted and walked: validate_refactor_   *)
(* plan with its topological sort (backend/agent/plans.py) and the sweep of *)
(* _downstream_task_ids (backend/agent/scheduler.py), loop by loop.         *)
(*                                                                         *)
(* TaskGraph states what the two compute; this module shows that they do.   *)
(***************************************************************************)
EXTENDS TaskGraph, Sequences, FiniteSets

CONSTANTS RawPlans,     \* what the model may deliver: sequences of tasks
          Identity,     \* per path: its canonical form, case folded
          BadPath       \* the identity of a path the policy refuses

\* The fields that are read, as the schema of pydantic has left them.
RefactorTask == [id : STRING, path : DOMAIN Identity, deps : Seq(STRING)]

ASSUME RawPlansAssumption == RawPlans \subseteq Seq(RefactorTask)

VARIABLES raw,         \* the tasks as they came: id, path, deps (a sequence)
          phase, at,   \* the loop at hand and its position
          seen_paths,
          indegree, ready, visited,      \* _assert_acyclic
          roots, affected, changed       \* _downstream_task_ids

vars == <<raw, phase, at, seen_paths, indegree, ready, visited, roots, affected, changed>>
checkVars == <<raw, seen_paths>>
kahnVars == <<indegree, ready, visited>>
sweepVars == <<roots, affected, changed>>

Elements(s) == {s[i] : i \in DOMAIN s}
Repeats(s) == \E i, j \in DOMAIN s : i # j /\ s[i] = s[j]
Ids == {raw[i].id : i \in DOMAIN raw}
Task(id) == CHOOSE i \in DOMAIN raw : raw[i].id = id
Deps(id) == Elements(raw[Task(id)].deps)

\* Mutant of FileIdentity: paths are compared as they are written.
FileSpelling(path) == path
FileIdentity(path) == Identity[path]

\* The ids of the tasks at the positions S, in plan order.
InPlanOrder(S) ==
    [k \in 1 .. Cardinality(S) |->
        raw[CHOOSE i \in S : Cardinality({j \in S : j < i}) = k - 1].id]

\* The plan as TaskGraph has it, by positions.
Graph == [i \in DOMAIN raw |-> {j \in DOMAIN raw : raw[j].id \in Elements(raw[i].deps)}]
-----------------------------------------------------------------------------
Init ==
    /\ raw \in RawPlans
    /\ phase = "ids" /\ at = 1 /\ seen_paths = {}
    /\ indegree = <<>> /\ ready = <<>> /\ visited = {}
    /\ roots = {} /\ affected = {} /\ changed = FALSE

\* The schema bounds the number of tasks; then the ids must differ.
CheckIds ==
    /\ phase = "ids"
    /\ phase' = IF Len(raw) \notin 1 .. MaxPlanTasks \/ Repeats([i \in DOMAIN raw |-> raw[i].id])
                THEN "rejected" ELSE "tasks"
    /\ UNCHANGED <<at, checkVars, kahnVars, sweepVars>>

Refused(task) ==
    \/ Repeats(task.deps) \/ task.id \in Elements(task.deps)
    \/ ~(Elements(task.deps) \subseteq Ids)
    \/ Identity[task.path] = BadPath
    \/ FileIdentity(task.path) \in seen_paths

CheckTask ==
    /\ phase = "tasks" /\ at <= Len(raw)
    /\ IF Refused(raw[at])
       THEN phase' = "rejected" /\ UNCHANGED <<at, seen_paths>>
       ELSE /\ seen_paths' = seen_paths \cup {FileIdentity(raw[at].path)}
            /\ at' = at + 1
            /\ UNCHANGED phase
    /\ UNCHANGED <<raw, kahnVars, sweepVars>>

\* _assert_acyclic: degrees, and the tasks without dependencies in plan order.
StartSort ==
    /\ phase = "tasks" /\ at > Len(raw)
    /\ phase' = "sort"
    /\ indegree' = [id \in Ids |-> Len(raw[Task(id)].deps)]
    /\ ready' = InPlanOrder({i \in DOMAIN raw : raw[i].deps = <<>>})
    /\ UNCHANGED <<at, checkVars, visited, sweepVars>>

\* Mutant of Freed: every dependent of the popped task is pushed.
DependentsOf(id) == InPlanOrder({i \in DOMAIN raw : id \in Elements(raw[i].deps)})

\* The dependents of id, in plan order, that wait for nothing else.
Freed(id) ==
    InPlanOrder({i \in DOMAIN raw : /\ id \in Elements(raw[i].deps)
                                    /\ indegree[raw[i].id] = 1})

\* One round of the loop: the task pushed last is popped.
PopReady ==
    /\ phase = "sort" /\ ready # <<>>
    /\ LET id == ready[Len(ready)] IN
       /\ visited' = visited \cup {id}
       /\ indegree' = [t \in Ids |-> IF id \in Deps(t) THEN indegree[t] - 1 ELSE indegree[t]]
       /\ ready' = SubSeq(ready, 1, Len(ready) - 1) \o Freed(id)
    /\ UNCHANGED <<phase, at, checkVars, sweepVars>>

EndSort ==
    /\ phase = "sort" /\ ready = <<>>
    /\ phase' = IF Cardinality(visited) = Len(raw) THEN "accepted" ELSE "rejected"
    /\ UNCHANGED <<at, checkVars, kahnVars, sweepVars>>
-----------------------------------------------------------------------------
\* _downstream_task_ids of an accepted plan.
StartSweep(S) ==
    /\ phase = "accepted"
    /\ phase' = "sweep" /\ at' = 1
    /\ roots' = S /\ affected' = S /\ changed' = FALSE
    /\ UNCHANGED <<checkVars, kahnVars>>

SweepTask ==
    /\ phase = "sweep" /\ at <= Len(raw)
    /\ at' = at + 1
    /\ LET id == raw[at].id IN
       IF id \notin affected /\ Deps(id) \cap affected # {}
       THEN affected' = affected \cup {id} /\ changed' = TRUE
       ELSE UNCHANGED <<affected, changed>>
    /\ UNCHANGED <<phase, checkVars, kahnVars, roots>>

\* Mutant of EndSweep: one sweep is enough.
EndSweepAtOnce ==
    /\ phase = "sweep" /\ at > Len(raw)
    /\ phase' = "swept"
    /\ UNCHANGED <<at, changed, checkVars, kahnVars, roots, affected>>

EndSweep ==
    /\ phase = "sweep" /\ at > Len(raw)
    /\ IF changed THEN at' = 1 /\ changed' = FALSE /\ UNCHANGED phase
       ELSE phase' = "swept" /\ UNCHANGED <<at, changed>>
    /\ UNCHANGED <<checkVars, kahnVars, roots, affected>>

Decided == phase \in {"rejected", "swept"} /\ UNCHANGED vars

Next ==
    \/ CheckIds \/ CheckTask
    \/ StartSort \/ PopReady \/ EndSort
    \/ \E S \in SUBSET Ids : StartSweep(S)
    \/ SweepTask \/ EndSweep
    \/ Decided

Spec == Init /\ [][Next]_vars
-----------------------------------------------------------------------------
\* What the scheduler may take for granted of an admitted plan.
Admissible ==
    /\ ~Repeats([i \in DOMAIN raw |-> raw[i].id])
    /\ \A i \in DOMAIN raw :
         /\ ~Repeats(raw[i].deps) /\ Elements(raw[i].deps) \subseteq Ids
         /\ Identity[raw[i].path] # BadPath
         /\ \A j \in DOMAIN raw : Identity[raw[i].path] = Identity[raw[j].path] => i = j
    /\ ValidPlan(Graph)

\* Exactly the admissible plans are accepted: no cycle of any length, hidden
\* behind whatever order of the tasks, gets through, and no valid plan falls
\* back to the single Developer.
AdmitsExactly ==
    /\ phase \in {"accepted", "sweep", "swept"} => Admissible
    /\ phase = "rejected" => ~Admissible

\* The books of the topological sort: a degree counts the dependencies not yet
\* popped, and a task is in the stack, once, as soon as it has none left.
SortInvariant ==
    phase = "sort" =>
        /\ ~Repeats(ready)
        /\ \A id \in Ids :
             /\ indegree[id] = Cardinality(Deps(id) \ visited)
             /\ id \in Elements(ready) <=> id \notin visited /\ Deps(id) \subseteq visited

\* The sweep reaches every transitive dependent of the roots and nothing else.
SweepExact ==
    phase = "swept" =>
        {i \in DOMAIN raw : raw[i].id \in affected} =
            Downstream(Graph, {i \in DOMAIN raw : raw[i].id \in roots})
=============================================================================
