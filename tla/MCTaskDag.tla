------------------------------ MODULE MCTaskDag ------------------------------
(* Instances of TaskDag, and of the TaskAttempts it extends, for TLC. *)
EXTENDS TaskDag

\* One task, two in a row, two beside each other, two in a row
\* and one beside them.
SmallPlans == { <<{}>>, <<{}, {1}>>, <<{}, {}>>, <<{}, {1}, {}>> }
=============================================================================
