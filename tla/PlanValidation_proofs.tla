----------------------- MODULE PlanValidation_proofs -----------------------
(***************************************************************************)
(* Kahn's algorithm as plans.py writes it decides, for plans of any size,  *)
(* whether the tasks can be ordered, and the sweep of scheduler.py finds   *)
(* exactly the transitive dependents.                                      *)
(***************************************************************************)
EXTENDS PlanValidation, FiniteSetTheorems, TLAPS

\* A finite set of positions has a k-th one for every k up to its size, and
\* each of its members is one of them.
LEMMA PositionsCounted ==
    ASSUME NEW n \in Nat, NEW S \in SUBSET (1 .. n)
    PROVE  /\ IsFiniteSet(S) /\ Cardinality(S) \in Nat
           /\ \A i \in S : Cardinality({j \in S : j < i}) + 1 \in 1 .. Cardinality(S)
           /\ \A i, j \in S : Cardinality({x \in S : x < i}) = Cardinality({x \in S : x < j}) => i = j
           /\ \A k \in 1 .. Cardinality(S) : \E i \in S : Cardinality({j \in S : j < i}) = k - 1
<1> DEFINE Below(i) == {j \in S : j < i}
           c == Cardinality(S)
           rank == [i \in S |-> Cardinality(Below(i)) + 1]
<1>1. IsFiniteSet(S) /\ c \in Nat
  <2>1. IsFiniteSet(1 .. n)
    BY FS_Interval
  <2>2. IsFiniteSet(S)
    BY <2>1, FS_Subset
  <2> QED BY <2>2, FS_CardinalityType
<1>2. \A i \in S : IsFiniteSet(Below(i)) /\ Cardinality(Below(i)) \in Nat
  BY <1>1, FS_Subset, FS_CardinalityType
<1>3. ASSUME NEW i \in S PROVE Cardinality(Below(i)) + 1 \in 1 .. c
  <2>1. Below(i) \subseteq S \ {i}
    OBVIOUS
  <2>2. IsFiniteSet(S \ {i}) /\ Cardinality(S \ {i}) = c - 1
    BY <1>1, FS_RemoveElement
  <2>3. Cardinality(Below(i)) <= c - 1
    BY <2>1, <2>2, FS_Subset
  <2> QED BY <1>1, <1>2, <2>3
<1>4. ASSUME NEW i \in S, NEW j \in S, i < j PROVE Cardinality(Below(i)) # Cardinality(Below(j))
  <2>1. Below(i) \subseteq Below(j) /\ i \in Below(j) \ Below(i)
    <3>1. i \in Int /\ j \in Int /\ \A x \in S : x \in Int
      OBVIOUS
    <3>2. \A x \in S : x < i => x < j
      BY <1>4, <3>1
    <3>3. ~(i < i) /\ i < j
      BY <1>4, <3>1
    <3> QED BY <3>2, <3>3
  <2>2. IsFiniteSet(Below(j)) /\ Below(i) \in SUBSET Below(j) /\ Below(i) # Below(j)
    BY <1>2, <2>1
  <2> HIDE DEF Below
  <2> QED BY <2>2, FS_Subset
<1>5. ASSUME NEW i \in S, NEW j \in S, Cardinality(Below(i)) = Cardinality(Below(j)) PROVE i = j
  <2>1. i \in Nat /\ j \in Nat
    OBVIOUS
  <2> HIDE DEF Below
  <2> QED BY <1>4, <1>5, <2>1
<1>6. rank \in Injection(S, 1 .. c)
  <2>1. rank \in [S -> 1 .. c]
    BY <1>3
  <2>2. \A i, j \in S : rank[i] = rank[j] => i = j
    BY <1>2, <1>5
  <2> QED BY <2>1, <2>2 DEF Injection, IsInjective
<1>7. rank \in Surjection(S, 1 .. c)
  <2>1. IsFiniteSet(1 .. c) /\ Cardinality(1 .. c) = c
    BY <1>1, FS_Interval
  <2> HIDE DEF rank
  <2> QED BY <1>1, <1>6, <2>1, FS_Injection
<1>8. ASSUME NEW k \in 1 .. c PROVE \E i \in S : Cardinality(Below(i)) = k - 1
  <2>1. PICK i \in S : rank[i] = k
    BY <1>7 DEF Surjection
  <2>2. Cardinality(Below(i)) + 1 = k
    BY <2>1
  <2>3. Cardinality(Below(i)) \in Nat
    BY <1>2
  <2> HIDE DEF Below
  <2> QED BY <2>2, <2>3
<1> QED BY <1>1, <1>3, <1>5, <1>8

LEMMA PlanType == ASSUME raw \in RawPlans
                  PROVE  /\ Len(raw) \in Nat /\ DOMAIN raw = 1 .. Len(raw)
                         /\ \A i \in DOMAIN raw : raw[i] \in RefactorTask
BY RawPlansAssumption

Unique == \A i, j \in DOMAIN raw : raw[i].id = raw[j].id => i = j

\* A list in plan order holds the ids of its positions, each once.
LEMMA InPlanOrderLists ==
    ASSUME raw \in RawPlans, Unique, NEW S \in SUBSET DOMAIN raw
    PROVE  /\ InPlanOrder(S) \in Seq(Ids)
           /\ Elements(InPlanOrder(S)) = {raw[i].id : i \in S}
           /\ ~Repeats(InPlanOrder(S))
<1> DEFINE Rank(i) == Cardinality({j \in S : j < i})
           c == Cardinality(S)
           Kth(k) == CHOOSE i \in S : Rank(i) = k - 1
<1>1. /\ c \in Nat
      /\ \A i \in S : Rank(i) + 1 \in 1 .. c
      /\ \A i, j \in S : Rank(i) = Rank(j) => i = j
      /\ \A k \in 1 .. c : \E i \in S : Rank(i) = k - 1
  BY PlanType, PositionsCounted
<1>2. \A i \in S : Rank(i) \in Int
  <2>1. IsFiniteSet(S)
    BY PlanType, PositionsCounted
  <2>2. ASSUME NEW i \in S PROVE Rank(i) \in Nat
    <3>1. {j \in S : j < i} \in SUBSET S
      OBVIOUS
    <3>2. IsFiniteSet({j \in S : j < i})
      BY <2>1, <3>1, FS_Subset
    <3> QED BY <3>2, FS_CardinalityType
  <2> QED BY <2>2
<1> HIDE DEF Rank
<1>3. \A k \in 1 .. c : Kth(k) \in S /\ Rank(Kth(k)) = k - 1
  BY <1>1
<1>4. \A i \in S : i = Kth(Rank(i) + 1)
  BY <1>1, <1>2, <1>3
<1>5. InPlanOrder(S) = [k \in 1 .. c |-> raw[Kth(k)].id]
  BY DEF InPlanOrder, Rank
<1> HIDE DEF Kth
<1>6. InPlanOrder(S) \in Seq(Ids)
  BY <1>1, <1>3, <1>5 DEF Ids
<1>7. Elements(InPlanOrder(S)) = {raw[i].id : i \in S}
  BY <1>1, <1>3, <1>4, <1>5 DEF Elements
<1>8. ~Repeats(InPlanOrder(S))
  BY <1>1, <1>3, <1>5 DEF Repeats, Unique
<1> QED BY <1>6, <1>7, <1>8

LEMMA DepsAt ==
    ASSUME Unique, NEW i \in DOMAIN raw
    PROVE  Deps(raw[i].id) = Elements(raw[i].deps)
<1>1. Task(raw[i].id) = i
  BY DEF Task, Unique
<1> QED BY <1>1 DEF Deps

LEMMA IdsCounted ==
    ASSUME raw \in RawPlans, Unique
    PROVE  IsFiniteSet(Ids) /\ Cardinality(Ids) = Len(raw)
<1> DEFINE ids == [i \in 1 .. Len(raw) |-> raw[i].id]
<1>1. ids \in Bijection(1 .. Len(raw), Ids)
  BY PlanType DEF Bijection, Injection, IsInjective, Surjection, Ids, Unique
<1>2. IsFiniteSet(1 .. Len(raw)) /\ Cardinality(1 .. Len(raw)) = Len(raw)
  BY PlanType, FS_Interval
<1>3. ExistsBijection(1 .. Len(raw), Ids)
  BY <1>1 DEF ExistsBijection
<1> QED BY <1>2, <1>3, FS_Bijection

\* A list without repetitions is as long as it has elements.
LEMMA LengthCounts ==
    ASSUME NEW S, NEW s \in Seq(S), ~Repeats(s)
    PROVE  IsFiniteSet(Elements(s)) /\ Cardinality(Elements(s)) = Len(s)
<1>1. s \in Bijection(1 .. Len(s), Elements(s))
  BY DEF Bijection, Injection, IsInjective, Surjection, Elements, Repeats
<1>2. IsFiniteSet(1 .. Len(s)) /\ Cardinality(1 .. Len(s)) = Len(s)
  <2>1. Len(s) \in Nat
    OBVIOUS
  <2> QED BY <2>1, FS_Interval
<1>3. ExistsBijection(1 .. Len(s), Elements(s))
  BY <1>1 DEF ExistsBijection
<1> QED BY <1>2, <1>3, FS_Bijection

\* Lists without repetitions, as a stack: what is left of one, and two in a row.
LEMMA LastTaken ==
    ASSUME NEW S, NEW s \in Seq(S), s # <<>>, ~Repeats(s)
    PROVE  LET last == s[Len(s)]  rest == SubSeq(s, 1, Len(s) - 1) IN
           /\ last \in S /\ last \in Elements(s)
           /\ rest \in Seq(S) /\ ~Repeats(rest) /\ Elements(rest) = Elements(s) \ {last}
<1> DEFINE n == Len(s)
           last == s[n]
           rest == SubSeq(s, 1, n - 1)
<1>1. n \in Nat \ {0} /\ s \in [1 .. n -> S] /\ DOMAIN s = 1 .. n
  OBVIOUS
<1>2. rest \in Seq(S) /\ Len(rest) = n - 1 /\ DOMAIN rest = 1 .. n - 1
  BY <1>1
<1>3. \A k \in 1 .. n - 1 : rest[k] = s[k]
  BY <1>1
<1> HIDE DEF rest, n
<1>4. \A i, j \in 1 .. n : s[i] = s[j] => i = j
  BY <1>1 DEF Repeats
<1>5. ~Repeats(rest)
  BY <1>1, <1>2, <1>3, <1>4 DEF Repeats
<1>6. Elements(rest) = {s[k] : k \in 1 .. n - 1}
  BY <1>2, <1>3 DEF Elements
<1>7. last \in S /\ last \in Elements(s)
  BY <1>1 DEF Elements
<1>8. {s[k] : k \in 1 .. n - 1} = {s[k] : k \in 1 .. n} \ {s[n]}
  BY <1>1, <1>4
<1>9. Elements(s) = {s[k] : k \in 1 .. n}
  BY <1>1 DEF Elements
<1> QED BY <1>2, <1>5, <1>6, <1>7, <1>8, <1>9 DEF rest, n

LEMMA TwoInARow ==
    ASSUME NEW S, NEW s \in Seq(S), NEW t \in Seq(S), ~Repeats(s), ~Repeats(t),
           Elements(s) \cap Elements(t) = {}
    PROVE  s \o t \in Seq(S) /\ ~Repeats(s \o t) /\ Elements(s \o t) = Elements(s) \cup Elements(t)
<1> DEFINE u == s \o t
           m == Len(s)
           n == Len(t)
<1>1. /\ m \in Nat /\ n \in Nat /\ DOMAIN s = 1 .. m /\ DOMAIN t = 1 .. n
      /\ u \in Seq(S) /\ DOMAIN u = 1 .. m + n
  OBVIOUS
<1>2. /\ \A k \in 1 .. m : u[k] = s[k]
      /\ \A k \in 1 .. n : u[m + k] = t[k]
  BY <1>1
<1>3. \A k \in 1 .. m + n : k \in 1 .. m \/ (k - m \in 1 .. n /\ k = m + (k - m))
  BY <1>1
<1> HIDE DEF u, m, n
<1>4. /\ \A k \in 1 .. m : u[k] \in Elements(s)
      /\ \A k \in 1 .. m + n : k - m \in 1 .. n => u[k] \in Elements(t)
  <2>1. \A k \in 1 .. m : u[k] \in Elements(s)
    BY <1>1, <1>2 DEF Elements
  <2>2. \A k \in 1 .. m + n : k - m \in 1 .. n => u[k] = t[k - m]
    BY <1>1, <1>2, <1>3
  <2>3. \A k \in 1 .. n : t[k] \in Elements(t)
    BY <1>1 DEF Elements
  <2> QED BY <2>1, <2>2, <2>3
<1>4b. Elements(u) \subseteq Elements(s) \cup Elements(t)
  BY <1>1, <1>3, <1>4 DEF Elements
<1>5. \A k \in 1 .. m : k \in 1 .. m + n
  BY <1>1
<1>6. \A k \in 1 .. n : m + k \in 1 .. m + n
  BY <1>1
<1>7. Elements(s) \cup Elements(t) \subseteq Elements(u)
  BY <1>1, <1>2, <1>5, <1>6 DEF Elements
<1>8. ASSUME NEW i \in 1 .. m + n, NEW j \in 1 .. m + n, i # j, u[i] = u[j] PROVE FALSE
  <2>1. CASE i \in 1 .. m /\ j \in 1 .. m
    BY <1>1, <1>2, <1>8, <2>1 DEF Repeats
  <2>2. CASE i - m \in 1 .. n /\ j - m \in 1 .. n
    <3>1. t[i - m] = t[j - m] /\ i - m # j - m
      BY <1>1, <1>2, <1>3, <1>8, <2>2
    <3> QED BY <1>1, <2>2, <3>1 DEF Repeats
  <2>3. CASE i \in 1 .. m /\ j - m \in 1 .. n
    BY <1>4, <1>8, <2>3
  <2>4. CASE i - m \in 1 .. n /\ j \in 1 .. m
    BY <1>4, <1>8, <2>4
  <2> QED BY <1>3, <2>1, <2>2, <2>3, <2>4
<1>9. ~Repeats(u)
  BY <1>1, <1>8 DEF Repeats
<1> QED BY <1>1, <1>4b, <1>7, <1>9 DEF u

\* A nonempty set of positions has a first one.
LEMMA FirstPosition ==
    ASSUME NEW n \in Nat, NEW S \in SUBSET (1 .. n), S # {}
    PROVE  \E i \in S : \A j \in S : ~(j < i)
<1>1. IsFiniteSet(S) /\ Cardinality(S) \in Nat
  BY PositionsCounted
<1>2. Cardinality(S) # 0
  BY <1>1, FS_EmptySet
<1>3. PICK i \in S : Cardinality({j \in S : j < i}) = 1 - 1
  <2>1. 1 \in 1 .. Cardinality(S)
    BY <1>1, <1>2
  <2>2. \A k \in 1 .. Cardinality(S) : \E i \in S : Cardinality({j \in S : j < i}) = k - 1
    BY PositionsCounted
  <2> QED BY <2>1, <2>2
<1>4. IsFiniteSet({j \in S : j < i})
  <2>1. {j \in S : j < i} \in SUBSET S
    OBVIOUS
  <2> QED BY <1>1, <2>1, FS_Subset
<1>5. {j \in S : j < i} = {}
  BY <1>3, <1>4, FS_EmptySet
<1> QED BY <1>5
-----------------------------------------------------------------------------
\* What the checks have established of the tasks at the positions S.
Checked(S) ==
    \A i \in S :
        /\ ~Repeats(raw[i].deps) /\ raw[i].id \notin Elements(raw[i].deps)
        /\ Elements(raw[i].deps) \subseteq Ids
        /\ Identity[raw[i].path] # BadPath
        /\ \A j \in S : Identity[raw[i].path] = Identity[raw[j].path] => i = j

\* The tasks popped so far can be numbered in the order of their dependencies.
Numbering(rank) ==
    \A t \in visited : \A d \in Deps(t) : d \in visited /\ rank[d] < rank[t]
Sorted == \E rank \in [visited -> 1 .. Cardinality(visited)] : Numbering(rank)

Books ==
    /\ visited \subseteq Ids /\ ready \in Seq(Ids) /\ ~Repeats(ready)
    /\ indegree \in [Ids -> Int]
    /\ \A id \in Ids :
         /\ indegree[id] = Cardinality(Deps(id) \ visited)
         /\ id \in Elements(ready) <=> id \notin visited /\ Deps(id) \subseteq visited

Positions(S) == {i \in DOMAIN raw : raw[i].id \in S}

\* Only dependents were added, and none of the positions below n is missed.
Sweeping == roots \subseteq affected /\ Positions(affected) \subseteq Downstream(Graph, Positions(roots))
SweptBelow(n) ==
    \A i \in DOMAIN raw : i < n /\ Deps(raw[i].id) \cap affected # {} => raw[i].id \in affected

PlanInv ==
    /\ raw \in RawPlans
    /\ phase = "ids" => seen_paths = {} /\ visited = {} /\ at = 1
    /\ phase \notin {"ids", "rejected"} => Unique /\ Len(raw) \in 1 .. MaxPlanTasks
    /\ phase = "tasks" =>
         /\ visited = {} /\ at \in 1 .. Len(raw) + 1
         /\ seen_paths = {Identity[raw[j].path] : j \in 1 .. at - 1} /\ Checked(1 .. at - 1)
    /\ phase = "sort" => Checked(DOMAIN raw) /\ Books /\ Sorted
    /\ phase \in {"accepted", "sweep", "swept"} => Admissible
    /\ phase = "rejected" => ~Admissible
    /\ phase \in {"sweep", "swept"} => Sweeping
    /\ phase = "sweep" => at \in 1 .. Len(raw) + 1 /\ (~changed => SweptBelow(at))
    /\ phase = "swept" => SweptBelow(Len(raw) + 1)

LEMMA PlanInit == Init => PlanInv
BY DEF Init, PlanInv

\* What depends on the plan alone.
LEMMA PlanKept ==
    ASSUME raw' = raw
    PROVE  /\ Ids' = Ids /\ Unique' = Unique /\ Graph' = Graph /\ Admissible' = Admissible
           /\ \A id : Deps(id)' = Deps(id)
           /\ \A S : InPlanOrder(S)' = InPlanOrder(S) /\ Checked(S)' = Checked(S)
                     /\ Positions(S)' = Positions(S)
<1>1. Ids' = Ids /\ Unique' = Unique /\ Graph' = Graph
  BY DEF Ids, Unique, Graph
<1>2. Admissible' = Admissible
  BY <1>1 DEF Admissible
<1>3. \A id : Deps(id)' = Deps(id)
  BY DEF Deps, Task
<1>4. \A S : InPlanOrder(S)' = InPlanOrder(S)
  BY DEF InPlanOrder
<1>5. \A S : Checked(S)' = Checked(S)
  BY <1>1 DEF Checked
<1>6. \A S : Positions(S)' = Positions(S)
  BY DEF Positions
<1> QED BY <1>1, <1>2, <1>3, <1>4, <1>5, <1>6

LEMMA CheckIdsInv == ASSUME PlanInv, CheckIds PROVE PlanInv'
<1>1. raw' = raw /\ raw \in RawPlans
  BY DEF CheckIds, checkVars, PlanInv
<1>2. CASE Len(raw) \notin 1 .. MaxPlanTasks \/ Repeats([i \in DOMAIN raw |-> raw[i].id])
  <2>1. ~Admissible
    <3>1. CASE Len(raw) \notin 1 .. MaxPlanTasks
      <4> SUFFICES ASSUME Admissible PROVE FALSE
        OBVIOUS
      <4>1. PICK n \in 1 .. MaxPlanTasks : DOMAIN Graph = 1 .. n
        BY DEF Admissible, ValidPlan
      <4>2. Len(raw) \in Nat /\ 1 .. Len(raw) = 1 .. n
        BY <1>1, <4>1, PlanType DEF Graph
      <4>3. n \in Nat /\ n >= 1
        BY <4>1, MaxPlanTasksAssumption
      <4>4. n = Len(raw)
        BY <4>2, <4>3
      <4> QED BY <3>1, <4>4
    <3>2. CASE Repeats([i \in DOMAIN raw |-> raw[i].id])
      BY <3>2 DEF Admissible
    <3> QED BY <1>2, <3>1, <3>2
  <2> QED BY <1>1, <1>2, <2>1, PlanKept DEF CheckIds, PlanInv
<1>3. CASE ~(Len(raw) \notin 1 .. MaxPlanTasks \/ Repeats([i \in DOMAIN raw |-> raw[i].id]))
  <2>1. Unique
    BY <1>3 DEF Unique, Repeats
  <2>2. Checked(1 .. 0) /\ 1 .. 0 = {} /\ 1 \in 1 .. Len(raw) + 1
    BY <1>1, PlanType DEF Checked
  <2>3. phase' = "tasks" /\ at' = 1 /\ seen_paths' = {} /\ visited' = {}
    BY <1>3 DEF CheckIds, PlanInv, checkVars, kahnVars
  <2> QED BY <1>1, <1>3, <2>1, <2>2, <2>3, PlanKept DEF PlanInv
<1> QED BY <1>2, <1>3

LEMMA RefusedRightly ==
    ASSUME PlanInv, phase = "tasks", at <= Len(raw), Refused(raw[at])
    PROVE  ~Admissible
<1>1. at \in DOMAIN raw
  BY PlanType DEF PlanInv
<1> SUFFICES ASSUME Admissible PROVE FALSE
  OBVIOUS
<1>2. CASE raw[at].id \in Elements(raw[at].deps)
  <2>1. at \in Graph[at] /\ at \in TaskIds(Graph)
    BY <1>1, <1>2 DEF Graph, TaskIds
  <2>2. PICK rank \in [TaskIds(Graph) -> TaskIds(Graph)] :
          \A t \in TaskIds(Graph) : \A d \in Graph[t] : rank[d] < rank[t]
    BY DEF Admissible, ValidPlan, Acyclic
  <2>3. rank[at] < rank[at] /\ rank[at] \in Int
    BY <2>1, <2>2, PlanType DEF PlanInv, TaskIds, Graph
  <2> QED BY <2>3
<1>3. CASE FileIdentity(raw[at].path) \in seen_paths
  <2>1. PICK j \in 1 .. at - 1 : Identity[raw[j].path] = Identity[raw[at].path]
    BY <1>3 DEF PlanInv, FileIdentity
  <2>2. j \in DOMAIN raw /\ j # at
    BY <1>1, PlanType DEF PlanInv
  <2> QED BY <1>1, <2>1, <2>2 DEF Admissible
<1> QED BY <1>1, <1>2, <1>3 DEF Refused, Admissible

LEMMA CheckTaskInv == ASSUME PlanInv, CheckTask PROVE PlanInv'
<1>1. /\ raw' = raw /\ raw \in RawPlans /\ visited' = visited
      /\ phase = "tasks" /\ at <= Len(raw) /\ at \in 1 .. Len(raw)
  BY PlanType DEF CheckTask, kahnVars, PlanInv
<1>2. CASE Refused(raw[at])
  BY <1>1, <1>2, RefusedRightly, PlanKept DEF CheckTask, PlanInv
<1>3. CASE ~Refused(raw[at])
  <2>1. /\ phase' = "tasks" /\ at' = at + 1 /\ at' \in 1 .. Len(raw) + 1
        /\ 1 .. at' - 1 = (1 .. at - 1) \cup {at}
        /\ seen_paths' = seen_paths \cup {Identity[raw[at].path]}
    BY <1>1, <1>3, PlanType DEF CheckTask, FileIdentity
  <2>2. seen_paths' = {Identity[raw[j].path] : j \in 1 .. at' - 1}
    BY <1>1, <2>1 DEF PlanInv
  <2>3. Checked((1 .. at - 1) \cup {at})
    <3>1. Checked(1 .. at - 1) /\ \A j \in 1 .. at - 1 : Identity[raw[j].path] # Identity[raw[at].path]
      BY <1>1, <1>3 DEF PlanInv, Refused, FileIdentity
    <3> QED BY <1>3, <3>1 DEF Checked, Refused
  <2> QED BY <1>1, <2>1, <2>2, <2>3, PlanKept DEF PlanInv
<1> QED BY <1>2, <1>3

LEMMA StartSortInv == ASSUME PlanInv, StartSort PROVE PlanInv'
<1>1. /\ raw' = raw /\ raw \in RawPlans /\ Unique /\ Len(raw) \in 1 .. MaxPlanTasks
      /\ phase' = "sort" /\ visited = {} /\ visited' = {}
  BY DEF StartSort, checkVars, PlanInv
<1>2. Checked(DOMAIN raw)
  <2>1. at = Len(raw) + 1
    BY <1>1, PlanType DEF StartSort, PlanInv
  <2>2. 1 .. at - 1 = DOMAIN raw
    BY <1>1, <2>1, PlanType
  <2> QED BY <2>2 DEF StartSort, PlanInv
<1>3. ASSUME NEW i \in DOMAIN raw
      PROVE  /\ raw[i].deps \in Seq(STRING) /\ Deps(raw[i].id) = Elements(raw[i].deps)
             /\ IsFiniteSet(Deps(raw[i].id)) /\ Cardinality(Deps(raw[i].id)) = Len(raw[i].deps)
             /\ Task(raw[i].id) = i
  <2>1. raw[i].deps \in Seq(STRING) /\ ~Repeats(raw[i].deps)
    BY <1>1, <1>2, PlanType DEF RefactorTask, Checked
  <2>2. Task(raw[i].id) = i
    BY <1>1 DEF Task, Unique
  <2> QED BY <1>1, <2>1, <2>2, LengthCounts, DepsAt
<1> DEFINE free == {i \in DOMAIN raw : raw[i].deps = <<>>}
<1>4. /\ ready' = InPlanOrder(free) /\ ready' \in Seq(Ids) /\ ~Repeats(ready')
      /\ Elements(ready') = {raw[i].id : i \in free}
  BY <1>1, InPlanOrderLists DEF StartSort
<1>5. indegree' = [id \in Ids |-> Len(raw[Task(id)].deps)]
  BY DEF StartSort
<1>6. ASSUME NEW id \in Ids
      PROVE  /\ indegree'[id] = Cardinality(Deps(id) \ {}) /\ indegree'[id] \in Int
             /\ id \in Elements(ready') <=> id \notin {} /\ Deps(id) \subseteq {}
  <2>1. PICK i \in DOMAIN raw : id = raw[i].id
    BY DEF Ids
  <2>2. indegree'[id] = Cardinality(Deps(id)) /\ indegree'[id] \in Int /\ Deps(id) \ {} = Deps(id)
    BY <1>3, <1>5, <2>1
  <2>3. id \in Elements(ready') <=> raw[i].deps = <<>>
    BY <1>1, <1>4, <2>1 DEF Unique
  <2>4. raw[i].deps = <<>> <=> Deps(id) = {}
    <3>1. raw[i].deps \in Seq(STRING) /\ Cardinality(Deps(id)) = Len(raw[i].deps) /\ IsFiniteSet(Deps(id))
      BY <1>3, <2>1
    <3>2. Len(raw[i].deps) = 0 <=> Deps(id) = {}
      BY <3>1, FS_EmptySet
    <3> QED BY <3>1, <3>2
  <2> QED BY <2>2, <2>3, <2>4
<1>7. Books'
  BY <1>1, <1>4, <1>5, <1>6, PlanKept DEF Books
<1>8. Sorted'
  <2>1. [t \in {} |-> 1] \in [visited' -> 1 .. Cardinality(visited')]
    BY <1>1
  <2>2. Numbering([t \in {} |-> 1])'
    BY <1>1 DEF Numbering
  <2> QED BY <2>1, <2>2 DEF Sorted
<1> QED BY <1>1, <1>2, <1>7, <1>8, PlanKept DEF PlanInv

LEMMA PopReadyInv == ASSUME PlanInv, PopReady PROVE PlanInv'
<1> DEFINE id == ready[Len(ready)]
           rest == SubSeq(ready, 1, Len(ready) - 1)
           freed == {i \in DOMAIN raw : id \in Elements(raw[i].deps) /\ indegree[raw[i].id] = 1}
<1>1. /\ raw' = raw /\ raw \in RawPlans /\ Unique /\ Checked(DOMAIN raw) /\ Books
      /\ phase = "sort" /\ phase' = "sort"
      /\ visited' = visited \cup {id} /\ ready # <<>> /\ ready' = rest \o Freed(id)
      /\ indegree' = [t \in Ids |-> IF id \in Deps(t) THEN indegree[t] - 1 ELSE indegree[t]]
  BY DEF PopReady, checkVars, PlanInv
<1>3. /\ id \in Ids /\ id \in Elements(ready)
      /\ rest \in Seq(Ids) /\ ~Repeats(rest) /\ Elements(rest) = Elements(ready) \ {id}
  <2>1. ready \in Seq(Ids) /\ ~Repeats(ready)
    BY <1>1 DEF Books
  <2> QED BY <1>1, <2>1, LastTaken
<1>4. /\ Freed(id) \in Seq(Ids) /\ ~Repeats(Freed(id))
      /\ Elements(Freed(id)) = {raw[i].id : i \in freed}
  BY <1>1, InPlanOrderLists DEF Freed
<1> HIDE DEF id, rest
<1>5. id \notin visited /\ Deps(id) \subseteq visited
  BY <1>1, <1>3 DEF Books
<1>6. ASSUME NEW t \in Ids
      PROVE  /\ indegree'[t] = Cardinality(Deps(t) \ visited') /\ indegree'[t] \in Int
             /\ t \in Elements(Freed(id)) <=> id \in Deps(t) /\ Deps(t) \subseteq visited'
  <2>1. PICK i \in DOMAIN raw : t = raw[i].id
    BY DEF Ids
  <2>2. Deps(t) = Elements(raw[i].deps) /\ Deps(t) \subseteq Ids /\ IsFiniteSet(Deps(t))
    <3>1. raw[i].deps \in Seq(STRING) /\ ~Repeats(raw[i].deps) /\ Elements(raw[i].deps) \subseteq Ids
      BY <1>1, PlanType DEF RefactorTask, Checked
    <3> QED BY <1>1, <2>1, <3>1, DepsAt, LengthCounts
  <2>3. IsFiniteSet(Deps(t) \ visited) /\ Cardinality(Deps(t) \ visited) \in Nat
    BY <2>2, FS_Subset, FS_CardinalityType
  <2>4. Deps(t) \ visited' = (Deps(t) \ visited) \ {id}
    BY <1>1
  <2>5. Cardinality(Deps(t) \ visited') =
          IF id \in Deps(t) THEN Cardinality(Deps(t) \ visited) - 1 ELSE Cardinality(Deps(t) \ visited)
    BY <1>5, <2>3, <2>4, FS_RemoveElement
  <2>6. t \in Elements(Freed(id)) <=> id \in Deps(t) /\ indegree[t] = 1
    BY <1>1, <1>4, <2>1, <2>2 DEF Unique
  <2>7. id \in Deps(t) => (indegree[t] = 1 <=> Deps(t) \subseteq visited')
    <3> SUFFICES ASSUME id \in Deps(t) PROVE indegree[t] = 1 <=> Deps(t) \subseteq visited'
      OBVIOUS
    <3>1. IsFiniteSet(Deps(t) \ visited')
      BY <2>3, <2>4, FS_RemoveElement
    <3>2. Cardinality(Deps(t) \ visited') = 0 <=> Deps(t) \ visited' = {}
      BY <3>1, FS_EmptySet
    <3>3. Cardinality(Deps(t) \ visited') = indegree[t] - 1 /\ indegree[t] \in Int
      BY <1>1, <2>3, <2>5 DEF Books
    <3> QED BY <3>2, <3>3
  <2> QED BY <1>1, <2>3, <2>5, <2>6, <2>7 DEF Books
<1>7. ASSUME NEW t \in Elements(rest), t \in Elements(Freed(id)) PROVE FALSE
  <2>1. t \in Ids /\ Deps(t) \subseteq visited
    <3>1. ready \in Seq(Ids) /\ t \in Elements(ready)
      BY <1>1, <1>3, <1>7 DEF Books
    <3>2. t \in Ids
      BY <3>1 DEF Elements
    <3> QED BY <1>1, <3>1, <3>2 DEF Books
  <2> QED BY <1>5, <1>6, <1>7, <2>1
<1>8. ready' \in Seq(Ids) /\ ~Repeats(ready') /\ Elements(ready') = Elements(rest) \cup Elements(Freed(id))
  BY <1>1, <1>3, <1>4, <1>7, TwoInARow
<1>10. ASSUME NEW t \in Ids
       PROVE  t \in Elements(ready') <=> t \notin visited' /\ Deps(t) \subseteq visited'
  <2>1. id \notin Deps(id)
    BY <1>1, <1>3, DepsAt DEF Checked, Ids
  <2>2. t \in visited => Deps(t) \subseteq visited
    BY <1>1 DEF PlanInv, Sorted, Numbering
  <2>3. t \in Elements(ready) <=> t \notin visited /\ Deps(t) \subseteq visited
    BY <1>1 DEF Books
  <2>4. Deps(t) \subseteq visited' => id \in Deps(t) \/ Deps(t) \subseteq visited
    BY <1>1
  <2>5. t \in Elements(Freed(id)) <=> id \in Deps(t) /\ Deps(t) \subseteq visited'
    BY <1>6
  <2> QED BY <1>1, <1>3, <1>5, <1>8, <2>1, <2>2, <2>3, <2>4, <2>5
<1>11. Books'
  <2>1. indegree' \in [Ids -> Int]
    BY <1>1, <1>6
  <2>2. visited' \subseteq Ids
    BY <1>1, <1>3 DEF Books
  <2>3. ASSUME NEW t \in Ids
        PROVE  /\ indegree'[t] = Cardinality(Deps(t)' \ visited')
               /\ t \in Elements(ready') <=> t \notin visited' /\ Deps(t)' \subseteq visited'
    <3>1. Deps(t)' = Deps(t)
      BY <1>1, PlanKept
    <3> QED BY <1>6, <1>10, <3>1
  <2>4. Ids' = Ids
    BY <1>1, PlanKept
  <2>5. Elements(ready)' = Elements(ready') /\ Repeats(ready)' = Repeats(ready')
    BY DEF Elements, Repeats
  <2> QED BY <1>8, <2>1, <2>2, <2>3, <2>4, <2>5 DEF Books
<1>12. Sorted'
  <2>1. PICK rank \in [visited -> 1 .. Cardinality(visited)] : Numbering(rank)
    BY <1>1 DEF PlanInv, Sorted
  <2>2. IsFiniteSet(visited) /\ Cardinality(visited) \in Nat
    BY <1>1, IdsCounted, FS_Subset, FS_CardinalityType DEF Books
  <2>3. Cardinality(visited') = Cardinality(visited) + 1
    BY <1>1, <1>5, <2>2, FS_AddElement
  <2> DEFINE new == [t \in visited' |-> IF t = id THEN Cardinality(visited) + 1 ELSE rank[t]]
  <2>4. new \in [visited' -> 1 .. Cardinality(visited')]
    BY <1>1, <2>1, <2>2, <2>3
  <2>6. ASSUME NEW t \in visited', NEW d \in Deps(t) PROVE d \in visited' /\ new[d] < new[t]
    <3>1. CASE t = id
      BY <1>1, <1>5, <2>1, <2>2, <3>1
    <3>2. CASE t # id
      <4>1. t \in visited /\ d \in visited /\ rank[d] < rank[t]
        BY <1>1, <2>1, <3>2 DEF Numbering
      <4> QED BY <1>1, <1>5, <3>2, <4>1
    <3> QED BY <3>1, <3>2
  <2> HIDE DEF new
  <2>7. PICK f : f = new
    OBVIOUS
  <2>8. Numbering(f)'
    BY <1>1, <2>6, <2>7, PlanKept DEF Numbering
  <2> QED BY <2>4, <2>7, <2>8 DEF Sorted
<1> QED BY <1>1, <1>11, <1>12, PlanKept DEF PlanInv

\* Every task popped: the order of the pops is a numbering of the plan.
LEMMA AcceptedRightly ==
    ASSUME PlanInv, phase = "sort", Cardinality(visited) = Len(raw)
    PROVE  Admissible
<1>1. /\ raw \in RawPlans /\ Unique /\ Checked(DOMAIN raw) /\ Books
      /\ Len(raw) \in 1 .. MaxPlanTasks /\ DOMAIN raw = 1 .. Len(raw)
  BY PlanType DEF PlanInv
<1>2. visited = Ids
  BY <1>1, IdsCounted, FS_Subset DEF Books
<1>3. PICK rank \in [Ids -> 1 .. Len(raw)] : Numbering(rank)
  BY <1>2 DEF PlanInv, Sorted
<1> DEFINE number == [i \in 1 .. Len(raw) |-> rank[raw[i].id]]
<1>4. TaskIds(Graph) = 1 .. Len(raw) /\ number \in [1 .. Len(raw) -> 1 .. Len(raw)]
  BY <1>1, <1>3 DEF TaskIds, Graph, Ids
<1>5. ASSUME NEW i \in 1 .. Len(raw), NEW j \in Graph[i] PROVE number[j] < number[i]
  <2>1. j \in 1 .. Len(raw) /\ raw[j].id \in Deps(raw[i].id) /\ raw[i].id \in visited
    BY <1>1, <1>2, DepsAt DEF Graph, Ids
  <2> QED BY <1>3, <2>1 DEF Numbering
<1>6. Acyclic(Graph)
  BY <1>4, <1>5 DEF Acyclic
<1>7. Graph \in [1 .. Len(raw) -> SUBSET (1 .. Len(raw))]
  BY <1>1 DEF Graph
<1>8. ~Repeats([i \in DOMAIN raw |-> raw[i].id])
  BY <1>1 DEF Unique, Repeats
<1> QED BY <1>1, <1>6, <1>7, <1>8 DEF Admissible, ValidPlan, Checked

\* Tasks left with none to pop: each of them waits for another of them.
LEMMA CycleFound ==
    ASSUME PlanInv, phase = "sort", ready = <<>>, Cardinality(visited) # Len(raw)
    PROVE  ~Admissible
<1> SUFFICES ASSUME Admissible PROVE FALSE
  OBVIOUS
<1>1. /\ raw \in RawPlans /\ Unique /\ Checked(DOMAIN raw) /\ Books
      /\ Len(raw) \in Nat /\ DOMAIN raw = 1 .. Len(raw) /\ TaskIds(Graph) = 1 .. Len(raw)
  BY PlanType DEF PlanInv, TaskIds, Graph
<1>2. PICK rank \in [1 .. Len(raw) -> 1 .. Len(raw)] :
        \A t \in 1 .. Len(raw) : \A d \in Graph[t] : rank[d] < rank[t]
  BY <1>1 DEF Admissible, ValidPlan, Acyclic
<1> DEFINE left == {i \in 1 .. Len(raw) : raw[i].id \notin visited}
           ranks == {rank[i] : i \in left}
<1>3. left # {}
  <2>1. visited # Ids
    BY <1>1, IdsCounted
  <2> QED BY <1>1, <2>1 DEF Books, Ids
<1>4. PICK i \in left : \A j \in left : ~(rank[j] < rank[i])
  <2>1. ranks \in SUBSET (1 .. Len(raw)) /\ ranks # {}
    BY <1>2, <1>3
  <2>2. PICK r \in ranks : \A s \in ranks : ~(s < r)
    BY <1>1, <2>1, FirstPosition
  <2> QED BY <2>2
<1>5. raw[i].id \notin Elements(ready) /\ raw[i].id \in Ids
  BY <1>1 DEF Elements, Ids
<1>6. ~(Deps(raw[i].id) \subseteq visited)
  BY <1>1, <1>5 DEF Books
<1>7. PICK d \in Elements(raw[i].deps) : d \notin visited
  BY <1>1, <1>6, DepsAt
<1>8. PICK j \in DOMAIN raw : raw[j].id = d
  BY <1>1, <1>7 DEF Checked, Ids
<1>9. j \in left /\ j \in Graph[i]
  BY <1>1, <1>7, <1>8 DEF Graph
<1> QED BY <1>2, <1>4, <1>9

LEMMA EndSortInv == ASSUME PlanInv, EndSort PROVE PlanInv'
<1>1. raw' = raw /\ raw \in RawPlans /\ phase = "sort" /\ ready = <<>> /\ Unique /\ Len(raw) \in 1 .. MaxPlanTasks
  BY DEF EndSort, checkVars, PlanInv
<1>2. CASE Cardinality(visited) = Len(raw)
  BY <1>1, <1>2, AcceptedRightly, PlanKept DEF EndSort, PlanInv
<1>3. CASE Cardinality(visited) # Len(raw)
  BY <1>1, <1>3, CycleFound, PlanKept DEF EndSort, PlanInv
<1> QED BY <1>2, <1>3
-----------------------------------------------------------------------------
LEMMA AdmittedPlan ==
    ASSUME raw \in RawPlans, Admissible
    PROVE  /\ Unique /\ TaskIds(Graph) = DOMAIN raw
           /\ \A i \in DOMAIN raw : Deps(raw[i].id) = Elements(raw[i].deps)
           /\ \A i, j \in DOMAIN raw : j \in Graph[i] <=> raw[j].id \in Deps(raw[i].id)
           /\ \A i \in DOMAIN raw : Deps(raw[i].id) \subseteq Ids
<1>1. Unique
  BY DEF Admissible, Unique, Repeats
<1>2. \A i \in DOMAIN raw : Deps(raw[i].id) = Elements(raw[i].deps)
  BY <1>1, DepsAt
<1> QED BY <1>1, <1>2 DEF Admissible, TaskIds, Graph

\* What depends on a task of the transitive dependents is one of them.
LEMMA OneFurther ==
    ASSUME NEW plan, NEW R, NEW i \in TaskIds(plan), NEW j \in Downstream(plan, R), j \in plan[i]
    PROVE  i \in Downstream(plan, R)
BY DEF Downstream, DownstreamClosed

LEMMA StartSweepInv == ASSUME PlanInv, NEW S \in SUBSET Ids, StartSweep(S) PROVE PlanInv'
<1>1. /\ raw' = raw /\ raw \in RawPlans /\ Admissible /\ Unique /\ Len(raw) \in 1 .. MaxPlanTasks
      /\ phase' = "sweep" /\ at' = 1 /\ roots' = S /\ affected' = S /\ changed' = FALSE
  BY DEF StartSweep, checkVars, PlanInv
<1>2. Positions(S) \subseteq Downstream(Graph, Positions(S))
  BY <1>1, AdmittedPlan DEF Positions, Downstream
<1>3. Sweeping'
  BY <1>1, <1>2, PlanKept DEF Sweeping
<1>4. \A i \in DOMAIN raw : ~(i < 1)
  BY <1>1, PlanType
<1>5. SweptBelow(1)'
  BY <1>1, <1>4 DEF SweptBelow
<1>6. at' \in 1 .. Len(raw') + 1
  BY <1>1
<1> QED BY <1>1, <1>3, <1>5, <1>6, PlanKept DEF PlanInv

LEMMA SweepTaskInv == ASSUME PlanInv, SweepTask PROVE PlanInv'
<1> DEFINE id == raw[at].id
<1>1. /\ raw' = raw /\ raw \in RawPlans /\ Admissible /\ Unique /\ Len(raw) \in 1 .. MaxPlanTasks
      /\ phase = "sweep" /\ phase' = "sweep" /\ at' = at + 1 /\ roots' = roots
      /\ at \in 1 .. Len(raw) /\ Sweeping
  BY PlanType DEF SweepTask, checkVars, PlanInv
<1>2. at \in DOMAIN raw /\ at' \in 1 .. Len(raw) + 1
  BY <1>1, PlanType
<1>3. CASE id \notin affected /\ Deps(id) \cap affected # {}
  <2>1. affected' = affected \cup {id} /\ changed' = TRUE
    BY <1>3 DEF SweepTask
  <2>2. PICK j \in DOMAIN raw : raw[j].id \in Deps(id) /\ raw[j].id \in affected
    <3>1. PICK d \in Deps(id) : d \in affected
      BY <1>3
    <3>2. Deps(id) \subseteq Ids
      BY <1>1, <1>2, AdmittedPlan
    <3> QED BY <3>1, <3>2 DEF Ids
  <2>3. at \in Downstream(Graph, Positions(roots))
    <3>1. j \in Downstream(Graph, Positions(roots)) /\ j \in Graph[at] /\ at \in TaskIds(Graph)
      BY <1>1, <1>2, <2>2, AdmittedPlan DEF Sweeping, Positions
    <3> QED BY <3>1, OneFurther
  <2>4. Positions(affected') \subseteq Positions(affected) \cup {at}
    BY <1>1, <1>2, <2>1 DEF Positions, Unique
  <2>5. Sweeping'
    <3>1. roots' \subseteq affected' /\ Positions(affected') \subseteq Downstream(Graph, Positions(roots))
      BY <1>1, <2>1, <2>3, <2>4 DEF Sweeping
    <3> QED BY <1>1, <3>1, PlanKept DEF Sweeping, Positions
  <2> QED BY <1>1, <1>2, <2>1, <2>5, PlanKept DEF PlanInv
<1>4. CASE ~(id \notin affected /\ Deps(id) \cap affected # {})
  <2>1. affected' = affected /\ changed' = changed
    BY <1>4 DEF SweepTask
  <2>2. ASSUME SweptBelow(at) PROVE SweptBelow(at + 1)
    <3>1. \A i \in DOMAIN raw : i < at + 1 => i < at \/ i = at
      BY <1>1, PlanType
    <3> QED BY <1>4, <2>2, <3>1 DEF SweptBelow
  <2>3. SweptBelow(at + 1) => SweptBelow(at)'
    BY <1>1, <2>1, PlanKept DEF SweptBelow
  <2>4. Sweeping'
    BY <1>1, <2>1, PlanKept DEF Sweeping
  <2> QED BY <1>1, <1>2, <2>1, <2>2, <2>3, <2>4, PlanKept DEF PlanInv
<1> QED BY <1>3, <1>4

LEMMA EndSweepInv == ASSUME PlanInv, EndSweep PROVE PlanInv'
<1>1. /\ raw' = raw /\ raw \in RawPlans /\ Admissible /\ Unique /\ Len(raw) \in 1 .. MaxPlanTasks
      /\ phase = "sweep" /\ roots' = roots /\ affected' = affected /\ at = Len(raw) + 1 /\ Sweeping
  BY PlanType DEF EndSweep, checkVars, PlanInv
<1>2. Sweeping'
  BY <1>1, PlanKept DEF Sweeping
<1>3. CASE changed
  <2>1. phase' = "sweep" /\ at' = 1 /\ SweptBelow(1)' /\ 1 \in 1 .. Len(raw) + 1
    <3>1. \A i \in DOMAIN raw : ~(i < 1)
      BY <1>1, PlanType
    <3> QED BY <1>1, <1>3, <3>1 DEF EndSweep, SweptBelow
  <2> QED BY <1>1, <1>2, <2>1, PlanKept DEF PlanInv
<1>4. CASE ~changed
  <2>1. phase' = "swept" /\ SweptBelow(Len(raw) + 1)
    BY <1>1, <1>4 DEF EndSweep, PlanInv
  <2>2. SweptBelow(Len(raw) + 1)'
    BY <1>1, <2>1, PlanKept DEF SweptBelow
  <2> QED BY <1>1, <1>2, <2>1, <2>2, PlanKept DEF PlanInv
<1> QED BY <1>3, <1>4
-----------------------------------------------------------------------------
LEMMA PlanStutters == ASSUME PlanInv, UNCHANGED vars PROVE PlanInv'
<1> USE DEF vars
<1>1. Books' = Books
  BY PlanKept DEF Books
<1>2. Sorted' = Sorted
  BY PlanKept DEF Sorted, Numbering
<1>3. Sweeping' = Sweeping
  BY PlanKept DEF Sweeping, Positions
<1>4. SweptBelow(at)' = SweptBelow(at) /\ SweptBelow(Len(raw) + 1)' = SweptBelow(Len(raw) + 1)
  BY PlanKept DEF SweptBelow
<1> QED BY <1>1, <1>2, <1>3, <1>4, PlanKept DEF PlanInv

\* The inductive invariant of the loops, for plans of any size.
THEOREM PlanInvariance == Spec => []PlanInv
<1>1. ASSUME PlanInv, [Next]_vars PROVE PlanInv'
  <2>1. CASE UNCHANGED vars
    BY <1>1, <2>1, PlanStutters
  <2>2. ASSUME NEW S \in SUBSET Ids, StartSweep(S) PROVE PlanInv'
    BY <1>1, <2>2, StartSweepInv
  <2> QED BY <1>1, <2>1, <2>2, CheckIdsInv, CheckTaskInv, StartSortInv, PopReadyInv, EndSortInv,
             SweepTaskInv, EndSweepInv DEF Next, Decided
<1> QED BY <1>1, PlanInit, PTL DEF Spec

\* A plan is accepted exactly if its ids, paths and dependencies are sound and its
\* tasks can be ordered; a rejected one has a flaw (plans.py, validate_refactor_plan).
THEOREM AcceptedExactly == Spec => []AdmitsExactly
<1>1. PlanInv => AdmitsExactly
  BY DEF PlanInv, AdmitsExactly
<1> QED BY <1>1, PlanInvariance, PTL

\* Every degree counts what the task still waits for, and the stack holds each
\* task that waits for nothing once (plans.py, _assert_acyclic).
THEOREM DegreesCount == Spec => []SortInvariant
<1>1. PlanInv => SortInvariant
  BY DEF PlanInv, Books, SortInvariant
<1> QED BY <1>1, PlanInvariance, PTL

\* The sweep ends with the transitive dependents of its roots and with nothing
\* else, in whatever order the plan lists them (scheduler.py, _downstream_task_ids).
THEOREM SweepFindsDependents == Spec => []SweepExact
<1>1. PlanInv => SweepExact
  <2> SUFFICES ASSUME PlanInv, phase = "swept"
               PROVE  Positions(affected) = Downstream(Graph, Positions(roots))
    BY DEF SweepExact, Positions
  <2>1. raw \in RawPlans /\ Admissible /\ Sweeping /\ SweptBelow(Len(raw) + 1)
    BY DEF PlanInv
  <2>2. \A i \in DOMAIN raw : i < Len(raw) + 1
    BY <2>1, PlanType
  <2>3. DownstreamClosed(Graph, Positions(affected))
    <3> SUFFICES ASSUME NEW i \in TaskIds(Graph), NEW j \in Graph[i] \cap Positions(affected)
                 PROVE  i \in Positions(affected)
      BY DEF DownstreamClosed
    <3>1. i \in DOMAIN raw /\ j \in DOMAIN raw /\ raw[j].id \in Deps(raw[i].id) /\ raw[j].id \in affected
      BY <2>1, AdmittedPlan DEF Positions
    <3> QED BY <2>1, <2>2, <3>1 DEF SweptBelow, Positions
  <2>4. Positions(roots) \subseteq Positions(affected) /\ Positions(affected) \subseteq TaskIds(Graph)
    BY <2>1, AdmittedPlan DEF Sweeping, Positions
  <2> QED BY <2>1, <2>3, <2>4 DEF Downstream, Sweeping
<1> QED BY <1>1, PlanInvariance, PTL
=============================================================================
