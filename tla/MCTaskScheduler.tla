-------------------------- MODULE MCTaskScheduler --------------------------
(* Instances of TaskScheduler for TLC. *)
EXTENDS TaskScheduler

\* Every valid plan of one to n tasks.
AllPlans(n) ==
    {p \in UNION {[1 .. k -> SUBSET (1 .. k)] : k \in 1 .. n} : Acyclic(p)}

PlansUpTo3 == AllPlans(3)

\* Four tasks: a diamond in plan order, and a chain listed against its order
\* beside an independent task.
PlansOf4 ==
    { <<{}, {1}, {1}, {2, 3}>>,
      <<{2}, {3}, {}, {}>> }
=============================================================================
