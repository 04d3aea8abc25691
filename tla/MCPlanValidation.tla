-------------------------- MODULE MCPlanValidation --------------------------
(* Instances of PlanValidation for TLC. *)
EXTENDS PlanValidation

\* Two spellings of one file, two more files, and a path outside CodeSmells.
MCIdentity == [p \in {"a", "A", "b", "c", "outside"} |->
                  CASE p = "A" -> "a" [] p = "outside" -> BadPath [] OTHER -> p]

SeqsUpTo(n, S) == UNION {[1 .. k -> S] : k \in 0 .. n}

\* Two tasks with everything that may be wrong with ids, paths, dependencies.
Sloppy ==
    [1 .. 2 -> [id : {"t1", "t2"}, path : DOMAIN MCIdentity,
                deps : SeqsUpTo(2, {"t1", "t2", "other"})]]

\* Well-named tasks with every dependency relation on three of them, in every
\* order of the plan, and one task too many.
Name == <<"t1", "t2", "t3", "t4">>
Path == <<"a", "b", "c", "c">>
Shaped(n, deps) == [i \in 1 .. n |-> [id |-> Name[i], path |-> Path[i], deps |-> deps[i]]]
DepLists == {s \in SeqsUpTo(3, {"t1", "t2", "t3"}) :
                \A i, j \in DOMAIN s : s[i] = s[j] => i = j}
Cyclic3 == {Shaped(3, deps) : deps \in [1 .. 3 -> DepLists]}
TooMany == {Shaped(4, [i \in 1 .. 4 |-> <<>>])}

MCRawPlans == Sloppy \cup Cyclic3 \cup TooMany
=============================================================================
