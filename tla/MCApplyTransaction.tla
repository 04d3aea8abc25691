------------------------- MODULE MCApplyTransaction -------------------------
(* Instances of ApplyTransaction for TLC. *)
EXTENDS ApplyTransaction

File(base, final, inNewDir) == [base |-> base, final |-> final, inNewDir |-> inNewDir]

\* A file modified, created beside others, created in a new directory, deleted.
Modified == File("old", "new", FALSE)
Created == File(Missing, "new", FALSE)
CreatedInNewDir == File(Missing, "new", TRUE)
Deleted == File("old", Missing, FALSE)

Kinds == {Modified, Created, CreatedInNewDir, Deleted}

\* Every change of up to two files, and three files with one of each role.
MCChanges ==
    UNION {[1 .. n -> Kinds] : n \in 1 .. 2}
        \cup {<<Modified, CreatedInNewDir, Deleted>>, <<Deleted, CreatedInNewDir, CreatedInNewDir>>}
=============================================================================
