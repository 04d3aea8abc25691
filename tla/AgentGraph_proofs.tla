-------------------------- MODULE AgentGraph_proofs --------------------------
(***************************************************************************)
(* The graph of a run carries the task control plane out, so the theorems   *)
(* about the control plane hold of it; and GInv, what a graph node may      *)
(* count on, is inductive.                                                  *)
(***************************************************************************)
EXTENDS AgentGraph, TaskScheduler_proofs, FiniteSetTheorems

GInv == IInv /\ GraphTypes /\ ControlInv /\ TransactionTypes /\ TransactionContext

\* What a model call leaves in run_usage, budget_exceeded and supersteps.
ModelCalled(exceeded) ==
    /\ agent_steps' \in 0 .. MaxAgentSteps /\ agent_steps <= agent_steps'
    /\ tool_calls' \in 0 .. MaxToolCalls + MaxCallsPerTurn
    /\ supersteps' \in Nat /\ supersteps' <= supersteps + 1
    /\ ~exceeded => agent_steps' = agent_steps + 1 /\ tool_calls' <= MaxToolCalls
-----------------------------------------------------------------------------
(* Every step of the graph is a step of the control plane, or none. *)

LEMMA ExceededBoolean ==
    ASSUME NEW n, NEW tokens PROVE Exceeded(n, tokens) \in BOOLEAN
BY DEF Exceeded, Refused

\* The tool branch of invoke_budgeted_agent: the control plane does not move.
LEMMA ToolBranchStep ==
    ASSUME BudgetStops, node \in RoleNode, budget_exceeded \in BOOLEAN,
           budget_exceeded' = FALSE,
           UNCHANGED <<node, planVars, plan_status, active_task_id, taskVars,
                       active_task_write_succeeded, retry_count>>
    PROVE  UNCHANGED vars
BY DEF BudgetStops, vars

LEMMA ArchitectTurnStep ==
    ASSUME GInv, NEW n, NEW tokens, NEW plan \in Plans \cup {NoPlan},
           ArchitectTurn(n, tokens, plan)
    PROVE  [Next]_vars
<1>1. CASE n > 0 /\ ~Exceeded(n, tokens)
  BY <1>1, ToolBranchStep DEF ArchitectTurn, ModelTurn, GInv, ControlInv, IInv, TypeOK, RoleNode
<1>2. CASE ~(n > 0 /\ ~Exceeded(n, tokens))
  <2>1. ArchitectExceedsBudget \/ ArchitectPlans(plan)
    BY <1>2 DEF ArchitectTurn, ModelTurn
  <2>2. QED BY <2>1 DEF Next
<1>3. QED BY <1>1, <1>2

LEMMA DeveloperTurnStep ==
    ASSUME GInv, NEW n, NEW tokens, DeveloperTurn(n, tokens)
    PROVE  [Next]_vars
<1>1. CASE n > 0 /\ ~Exceeded(n, tokens)
  BY <1>1, ToolBranchStep DEF DeveloperTurn, ModelTurn, GInv, ControlInv, IInv, TypeOK, RoleNode
<1>2. CASE ~(n > 0 /\ ~Exceeded(n, tokens))
  <2>1. DeveloperEnds(Exceeded(n, tokens))
    BY <1>2 DEF DeveloperTurn, ModelTurn
  <2>2. QED BY <2>1, ExceededBoolean DEF Next
<1>3. QED BY <1>1, <1>2

LEMMA ReviewerTurnStep ==
    ASSUME GInv, NEW n, NEW tokens, NEW marker \in Markers, ReviewerTurn(n, tokens, marker)
    PROVE  [Next]_vars
<1> DEFINE next == IF Exceeded(n, tokens) THEN "finalize_budget_failure"
                                          ELSE RouteReviewer(marker)
<1>1. CASE n > 0 /\ ~Exceeded(n, tokens)
  BY <1>1, ToolBranchStep DEF ReviewerTurn, ModelTurn, GInv, ControlInv, IInv, TypeOK, RoleNode
<1>2. CASE ~(n > 0 /\ ~Exceeded(n, tokens))
  <2>1. ReviewerAnswers(Exceeded(n, tokens), marker) /\ node = "reviewer"
    BY <1>2 DEF ReviewerTurn, ModelTurn
  <2>2. CASE ~Exceeded(n, tokens) /\ RouteReviewer(marker) = "reviewer_protocol_retry"
    BY <2>1, <2>2, ToolBranchStep DEF ReviewerAnswers, GInv, ControlInv, IInv, TypeOK, RoleNode
  <2>3. CASE ~(~Exceeded(n, tokens) /\ RouteReviewer(marker) = "reviewer_protocol_retry")
    <3>1. ReviewerEnds(Exceeded(n, tokens), next)
      BY <2>1, <2>3 DEF ReviewerAnswers
    <3>2. next \in Node
      BY <3>1 DEF ReviewerEnds, Node, FinalizeNode
    <3>3. QED BY <3>1, <3>2, ExceededBoolean DEF Next
  <2>4. QED BY <2>2, <2>3
<1>3. QED BY <1>1, <1>2

LEMMA ToolNodeStep == ASSUME GInv, ToolNode PROVE [Next]_vars
<1>1. ASSUME NEW w \in WriteCall, DeveloperWritesTaskFile(w) PROVE [Next]_vars
  <2>1. active_task_id \in Tasks
    BY <1>1 DEF DeveloperWritesTaskFile, GInv, IInv, TypeOK
  <2>2. written[active_task_id] \in Contents /\ w.content \in Contents
    BY <2>1 DEF GInv, IInv, TypeOK, WriteCall
  <2>3. PICK content \in Contents, success \in BOOLEAN : DeveloperWrites(content, success)
    BY <1>1, <2>2 DEF DeveloperWritesTaskFile
  <2>4. QED BY <2>3 DEF Next
<1>2. CASE ToolsRead
  BY <1>2 DEF ToolsRead
<1>3. ASSUME NEW ws, DeveloperWritesFreely(ws) PROVE UNCHANGED vars
  BY <1>3 DEF DeveloperWritesFreely
<1>4. ASSUME NEW after, NEW record, ReviewerTests(after, record) PROVE UNCHANGED vars
  BY <1>4 DEF ReviewerTests
<1>5. QED BY <1>1, <1>2, <1>3, <1>4 DEF ToolNode

LEMMA ControlNodeStep == ASSUME ControlNode PROVE Next
BY DEF ControlNode, Next

LEMMA GraphNextStep == ASSUME GInv, [GraphNext]_gvars PROVE [Next]_vars
<1>1. CASE ControlNode
  BY <1>1, ControlNodeStep
<1>2. CASE FinalizeAsFailed \/ FinalizeAsSuccess
  BY <1>2 DEF FinalizeAsFailed, FinalizeAsSuccess, Next
<1>3. CASE InitializeWorkspace \/ ReviewerProtocolRetry \/ CleanupWorkspace \/ Suspend
  BY <1>3 DEF InitializeWorkspace, ReviewerProtocolRetry, CleanupWorkspace, Suspend
<1>4. ASSUME NEW success \in BOOLEAN, PrepareApproval(success) PROVE [Next]_vars
  BY <1>4 DEF PrepareApproval
<1>5. ASSUME NEW content \in Contents, DeveloperWritesTwice(content) PROVE [Next]_vars
  BY <1>5 DEF DeveloperWritesTwice, Next
<1>6. CASE RejectChanges \/ ApproveChanges
  BY <1>6 DEF RejectChanges, ApproveChanges
<1>7. CASE Apply
  BY <1>7 DEF Apply, CheckWorkspace, CheckSource, PrepareFile, CheckTarget, ReplaceFile,
     ApplicationEnds, ApplyFails
<1>8. CASE Abort
  BY <1>8 DEF Abort, Next
<1>9. ASSUME NEW f, NEW content, TamperTree(f, content) \/ EditSource(f, content)
      PROVE  [Next]_vars
  BY <1>9 DEF TamperTree, EditSource
<1>10. CASE Resting \/ UNCHANGED gvars
  BY <1>10 DEF Resting, gvars
<1>11. CASE ModelNode
  BY <1>11, ArchitectTurnStep, DeveloperTurnStep, ReviewerTurnStep DEF ModelNode
<1>12. CASE ToolNode
  BY <1>12, ToolNodeStep
<1>13. QED BY <1>1, <1>2, <1>3, <1>4, <1>5, <1>6, <1>7, <1>8, <1>9, <1>10, <1>11, <1>12
           DEF GraphNext, GraphNode
-----------------------------------------------------------------------------
(* The invariant of the graph, action by action.                            *)

LEMMA GraphStepBase ==
    ASSUME GInv, [GraphNext]_gvars PROVE IInv'
BY GraphNextStep, NextInvariant DEF GInv

LEMMA BudgetTypes ==
    /\ MaxAgentSteps \in Nat /\ MaxToolCalls \in Nat /\ MaxCallsPerTurn \in Nat
    /\ MaxReviewProtocolErrors \in Nat /\ MaxChangeRecords \in Nat
    /\ RecursionLimit \in Nat
BY BudgetAssumption DEF RecursionLimit

LEMMA InitGraphInvariant == GraphInit => GInv
<1> SUFFICES ASSUME GraphInit PROVE GInv
  OBVIOUS
<1>1. IInv
  BY InitInvariant DEF GraphInit
<1>2. BaselineTree \in Trees
  BY ContentsAssumption DEF BaselineTree, Trees
<1>3. GraphTypes
  <2>1. tree \in Trees /\ source \in Trees
    BY <1>2 DEF GraphInit
  <2>2. /\ supersteps \in Nat /\ agent_steps \in 0 .. MaxAgentSteps
        /\ tool_calls \in 0 .. MaxToolCalls + MaxCallsPerTurn
        /\ calls \in 0 .. MaxCallsPerTurn /\ (stage = "tools" <=> calls > 0)
        /\ review_protocol_errors \in 0 .. MaxReviewProtocolErrors
        /\ change_records \in 0 .. MaxChangeRecords
    BY BudgetTypes DEF GraphInit
  <2>3. QED BY <2>1, <2>2 DEF GraphInit, GraphTypes, Stage
<1>4. StageContext /\ BudgetStops /\ ReviewContext
  BY BudgetTypes DEF Transaction, GraphInit, Init, StageContext, BudgetStops, ReviewContext
<1>5. SuperstepBudget /\ OutcomeHonest /\ ToolsWithinBudget /\ WorkspaceHeld
  BY DEF Transaction, GraphInit, SuperstepBudget, OutcomeHonest, ToolsWithinBudget,
     WorkspaceHeld
<1>6. TransactionTypes /\ TransactionContext
  BY DEF GraphInit, TransactionTypes, TransactionContext, Underway, Transaction
<1>7. QED BY <1>1, <1>3, <1>4, <1>5, <1>6 DEF GInv, ControlInv

LEMMA InitializeWorkspaceKeeps == ASSUME GInv, InitializeWorkspace PROVE GraphTypes' /\ ControlInv'
<1>1. /\ stage = "setup" /\ stage' = "node" /\ supersteps = 0 /\ supersteps' = 1
      /\ node = "architect" /\ workspace' = "exists" /\ tree' = source
      /\ UNCHANGED <<vars, usageVars, calls, reviewVars, shown, source, applied>>
  BY BudgetTypes DEF InitializeWorkspace, Goto, GInv, ControlInv, StageContext
<1>2. GraphTypes'
  BY <1>1 DEF GInv, GraphTypes, Stage, usageVars, reviewVars
<1>3. StageContext' /\ BudgetStops' /\ ReviewContext'
  BY <1>1 DEF Transaction, GInv, ControlInv, StageContext, BudgetStops, ReviewContext,
     vars, usageVars,
     reviewVars
<1>4. SuperstepBudget' /\ OutcomeHonest' /\ ToolsWithinBudget' /\ WorkspaceHeld'
  BY <1>1 DEF GInv, GraphTypes, SuperstepBudget, StepsPaid, OutcomeHonest,
     ToolsWithinBudget, WorkspaceHeld, vars, usageVars, reviewVars, FinalizeNode, RoleNode, EndNode
<1>5. QED BY <1>2, <1>3, <1>4 DEF ControlInv

\* A node that calls the model runs with StepsPaid(1) and within the budget.
LEMMA ModelCallFacts ==
    ASSUME GInv, node \in RoleNode, stage = "node",
           NEW n \in 0 .. MaxCallsPerTurn, NEW tokens, Usage(n, tokens), NEW next, Goto(next)
    PROVE  /\ ModelCalled(Exceeded(n, tokens))
           /\ n > 0 /\ ~Exceeded(n, tokens) => agent_steps' < MaxAgentSteps
           /\ supersteps' <= 3 * agent_steps + 2
<1>1. /\ tool_calls <= MaxToolCalls /\ tool_calls \in Nat /\ n \in Nat
      /\ agent_steps \in 0 .. MaxAgentSteps /\ supersteps \in Nat
      /\ tool_calls \in 0 .. MaxToolCalls + MaxCallsPerTurn
      /\ supersteps <= 3 * agent_steps + 1
  BY BudgetTypes DEF GInv, ControlInv, GraphTypes, BudgetStops, SuperstepBudget, StepsPaid,
     RoleNode
<1>2. supersteps' \in Nat /\ supersteps' <= supersteps + 1
  BY <1>1, BudgetTypes DEF Goto
<1>3. CASE Refused(tokens)
  BY <1>1, <1>2, <1>3 DEF Usage, usageVars, Exceeded, ModelCalled
<1>4. CASE ~Refused(tokens)
  <2>1. agent_steps' = agent_steps + 1 /\ tool_calls' = tool_calls + n
    BY <1>4 DEF Usage
  <2>2. agent_steps < MaxAgentSteps
    BY <1>1, <1>4, BudgetTypes DEF Refused
  <2>3. tool_calls' \in 0 .. MaxToolCalls + MaxCallsPerTurn /\ agent_steps' \in 0 .. MaxAgentSteps
    BY <1>1, <2>1, <2>2, BudgetTypes
  <2>4. ~Exceeded(n, tokens) =>
          /\ tool_calls' <= MaxToolCalls
          /\ n > 0 => agent_steps' < MaxAgentSteps
    BY <1>1, <2>1, <2>2, BudgetTypes DEF Exceeded
  <2>5. QED BY <1>1, <1>2, <2>1, <2>3, <2>4 DEF ModelCalled
<1>5. QED BY <1>3, <1>4

LEMMA ToolBranchKeeps ==
    ASSUME GInv, node \in RoleNode, stage = "node", stage' = "tools",
           calls' \in 1 .. MaxCallsPerTurn, ModelCalled(FALSE),
           agent_steps' < MaxAgentSteps, supersteps' <= 3 * agent_steps + 2,
           UNCHANGED <<vars, reviewVars, fileVars>>
    PROVE  GraphTypes' /\ ControlInv'
<1>1. GraphTypes'
  BY BudgetTypes DEF GInv, GraphTypes, ModelCalled, Stage, reviewVars, fileVars
<1>2. StageContext' /\ BudgetStops' /\ ReviewContext'
  BY DEF Transaction, GInv, ControlInv, StageContext, BudgetStops, ReviewContext,
     ModelCalled, RoleNode,
     vars, reviewVars, fileVars
<1>3. SuperstepBudget' /\ ToolsWithinBudget'
  BY DEF GInv, GraphTypes, ModelCalled, SuperstepBudget, StepsPaid, ToolsWithinBudget
<1>4. OutcomeHonest' /\ WorkspaceHeld'
  BY DEF GInv, ControlInv, OutcomeHonest, WorkspaceHeld, RoleNode, EndNode, fileVars
<1>5. QED BY <1>1, <1>2, <1>3, <1>4 DEF ControlInv

LEMMA StepsPaidLater ==
    ASSUME NEW a \in Nat, NEW b \in Nat, NEW s \in Nat, a <= b, s <= 3 * a + 2
    PROVE  s <= 3 * b + 2 /\ s <= 3 * b + 4
OBVIOUS

\* Where a role's last response may lead when the budget holds, and when not.
LEMMA FinalAnswerKeeps ==
    ASSUME GInv, node \in RoleNode, stage = "node", stage' = "node", calls' = 0,
           ModelCalled(FALSE), supersteps' <= 3 * agent_steps + 2,
           UNCHANGED <<reviewVars, fileVars>>, budget_exceeded' = FALSE,
           node' \in {"schedule_task", "complete_task", "reviewer",
               "developer_retry", "finalize_review_success", "finalize_review_failure"}
    PROVE  GraphTypes' /\ ControlInv'
<1>1. GraphTypes'
  BY BudgetTypes DEF GInv, GraphTypes, ModelCalled, Stage, reviewVars, fileVars
<1>2. StageContext' /\ BudgetStops'
  BY DEF Transaction, StageContext, BudgetStops, ModelCalled, RoleNode
<1>3. ReviewContext'
  BY DEF GInv, ControlInv, ReviewContext, RoleNode, reviewVars, fileVars
<1>4. SuperstepBudget'
  BY DEF GInv, GraphTypes, ModelCalled, SuperstepBudget, StepsPaid, RoleNode, FinalizeNode
<1>5. ToolsWithinBudget' /\ OutcomeHonest' /\ WorkspaceHeld'
  BY DEF GInv, ControlInv, ToolsWithinBudget, OutcomeHonest, WorkspaceHeld, RoleNode, EndNode,
     fileVars
<1>6. QED BY <1>1, <1>2, <1>3, <1>4, <1>5 DEF ControlInv

LEMMA BudgetSpentKeeps ==
    ASSUME GInv, node \in RoleNode, stage = "node", stage' = "node", calls' = 0,
           ModelCalled(TRUE), supersteps' <= 3 * agent_steps + 2,
           UNCHANGED <<reviewVars, fileVars>>, budget_exceeded' = TRUE,
           node' \in {"finalize_budget_failure", "complete_task"}
    PROVE  GraphTypes' /\ ControlInv'
<1>1. GraphTypes'
  BY BudgetTypes DEF GInv, GraphTypes, ModelCalled, Stage, reviewVars, fileVars
<1>2. StageContext' /\ BudgetStops'
  BY DEF Transaction, StageContext, BudgetStops, ModelCalled, RoleNode
<1>3. ReviewContext'
  BY DEF GInv, ControlInv, ReviewContext, RoleNode, reviewVars, fileVars
<1>4. SuperstepBudget'
  <2>1. /\ agent_steps \in Nat /\ agent_steps' \in Nat /\ supersteps' \in Nat
        /\ agent_steps <= agent_steps'
    BY BudgetTypes DEF GInv, GraphTypes, ModelCalled
  <2>2. supersteps' <= 3 * agent_steps' + 2 /\ supersteps' <= 3 * agent_steps' + 4
    BY <2>1, StepsPaidLater
  <2>3. QED BY <2>2 DEF SuperstepBudget, StepsPaid, RoleNode, FinalizeNode
<1>5. ToolsWithinBudget' /\ OutcomeHonest' /\ WorkspaceHeld'
  BY DEF GInv, ControlInv, ToolsWithinBudget, OutcomeHonest, WorkspaceHeld, RoleNode, EndNode,
     fileVars
<1>6. QED BY <1>1, <1>2, <1>3, <1>4, <1>5 DEF ControlInv

LEMMA ProtocolRetryBranchKeeps ==
    ASSUME GInv, node = "reviewer", stage = "node", stage' = "protocol_retry", calls' = 0,
           review_protocol_errors < MaxReviewProtocolErrors,
           ModelCalled(FALSE), supersteps' <= 3 * agent_steps + 2,
           UNCHANGED <<vars, reviewVars, fileVars>>
    PROVE  GraphTypes' /\ ControlInv'
<1>1. GraphTypes'
  BY BudgetTypes DEF GInv, GraphTypes, ModelCalled, Stage, reviewVars, fileVars
<1>2. StageContext' /\ BudgetStops' /\ ReviewContext'
  BY DEF Transaction, GInv, ControlInv, StageContext, BudgetStops, ReviewContext,
     ModelCalled, RoleNode,
     vars, reviewVars, fileVars
<1>3. SuperstepBudget' /\ ToolsWithinBudget'
  BY DEF GInv, GraphTypes, ModelCalled, SuperstepBudget, StepsPaid, ToolsWithinBudget
<1>4. OutcomeHonest' /\ WorkspaceHeld'
  BY DEF GInv, ControlInv, OutcomeHonest, WorkspaceHeld, RoleNode, EndNode, fileVars
<1>5. QED BY <1>1, <1>2, <1>3, <1>4 DEF ControlInv

LEMMA ArchitectTurnKeeps ==
    ASSUME GInv, NEW n \in 0 .. MaxCallsPerTurn, NEW tokens, NEW plan \in Plans \cup {NoPlan},
           ArchitectTurn(n, tokens, plan)
    PROVE  GraphTypes' /\ ControlInv'
<1>1. /\ node \in RoleNode /\ node = "architect" /\ stage = "node" /\ Usage(n, tokens)
      /\ \E next : Goto(next)
      /\ UNCHANGED <<reviewVars, fileVars>> /\ ~budget_exceeded
  BY DEF ArchitectTurn, ModelTurn, RoleNode, GInv, ControlInv, BudgetStops
<1>2. /\ ModelCalled(Exceeded(n, tokens))
      /\ n > 0 /\ ~Exceeded(n, tokens) => agent_steps' < MaxAgentSteps
      /\ supersteps' <= 3 * agent_steps + 2
  BY <1>1, ModelCallFacts
<1>3. CASE n > 0 /\ ~Exceeded(n, tokens)
  <2>1. /\ stage' = "tools" /\ calls' = n /\ n \in 1 .. MaxCallsPerTurn
        /\ agent_steps' < MaxAgentSteps
    BY <1>2, <1>3, BudgetTypes DEF ArchitectTurn, ModelTurn, Goto
  <2>2. ModelCalled(FALSE)
    BY <1>2, <1>3 DEF ModelCalled
  <2>3. UNCHANGED vars
    BY <1>3, ToolBranchStep, <1>1 DEF ArchitectTurn, ModelTurn, GInv, ControlInv, IInv, TypeOK
  <2>4. QED BY <1>1, <1>2, <2>1, <2>2, <2>3, ToolBranchKeeps
<1>4. CASE ~(n > 0 /\ ~Exceeded(n, tokens))
  <2>1. /\ stage' = "node" /\ calls' = 0
        /\ IF Exceeded(n, tokens) THEN ArchitectExceedsBudget ELSE ArchitectPlans(plan)
    BY <1>4 DEF ArchitectTurn, ModelTurn, Goto
  <2>2. /\ budget_exceeded' = Exceeded(n, tokens)
        /\ node' = IF Exceeded(n, tokens) THEN "finalize_budget_failure" ELSE "schedule_task"
    BY <1>1, <2>1, ExceededBoolean DEF ArchitectExceedsBudget, ArchitectPlans, GInv, IInv, TypeOK
  <2>3. CASE Exceeded(n, tokens)
    <3>1. ModelCalled(TRUE) /\ budget_exceeded' = TRUE
      BY <1>2, <2>2, <2>3 DEF ModelCalled
    <3>2. QED BY <1>1, <1>2, <2>1, <2>2, <2>3, <3>1, BudgetSpentKeeps
  <2>4. CASE ~Exceeded(n, tokens)
    <3>1. ModelCalled(FALSE) /\ budget_exceeded' = FALSE
      BY <1>2, <2>2, <2>4, ExceededBoolean DEF ModelCalled
    <3>2. QED BY <1>1, <1>2, <2>1, <2>2, <2>4, <3>1, FinalAnswerKeeps
  <2>5. QED BY <2>3, <2>4
<1>5. QED BY <1>3, <1>4

LEMMA DeveloperTurnKeeps ==
    ASSUME GInv, NEW n \in 0 .. MaxCallsPerTurn, NEW tokens, DeveloperTurn(n, tokens)
    PROVE  GraphTypes' /\ ControlInv'
<1>1. /\ node \in RoleNode /\ node = "developer" /\ stage = "node" /\ Usage(n, tokens)
      /\ \E next : Goto(next)
      /\ UNCHANGED <<reviewVars, fileVars>>
  BY DEF DeveloperTurn, ModelTurn, RoleNode
<1>2. /\ ModelCalled(Exceeded(n, tokens))
      /\ n > 0 /\ ~Exceeded(n, tokens) => agent_steps' < MaxAgentSteps
      /\ supersteps' <= 3 * agent_steps + 2
  BY <1>1, ModelCallFacts
<1>3. CASE n > 0 /\ ~Exceeded(n, tokens)
  <2>1. /\ stage' = "tools" /\ calls' = n /\ n \in 1 .. MaxCallsPerTurn
        /\ agent_steps' < MaxAgentSteps
    BY <1>2, <1>3, BudgetTypes DEF DeveloperTurn, ModelTurn, Goto
  <2>2. ModelCalled(FALSE)
    BY <1>2, <1>3 DEF ModelCalled
  <2>3. UNCHANGED vars
    BY <1>3, ToolBranchStep, <1>1 DEF DeveloperTurn, ModelTurn, GInv, ControlInv, IInv, TypeOK
  <2>4. QED BY <1>1, <1>2, <2>1, <2>2, <2>3, ToolBranchKeeps
<1>4. CASE ~(n > 0 /\ ~Exceeded(n, tokens))
  <2>1. stage' = "node" /\ calls' = 0 /\ DeveloperEnds(Exceeded(n, tokens))
    BY <1>4 DEF DeveloperTurn, ModelTurn, Goto
  <2>2. /\ budget_exceeded' = Exceeded(n, tokens)
        /\ \/ node' = "complete_task"
           \/ node' = IF Exceeded(n, tokens) THEN "finalize_budget_failure" ELSE "reviewer"
    BY <2>1 DEF DeveloperEnds
  <2>3. CASE Exceeded(n, tokens)
    <3>1. ModelCalled(TRUE) /\ budget_exceeded' = TRUE
      BY <1>2, <2>2, <2>3 DEF ModelCalled
    <3>2. QED BY <1>1, <1>2, <2>1, <2>2, <2>3, <3>1, BudgetSpentKeeps
  <2>4. CASE ~Exceeded(n, tokens)
    <3>1. ModelCalled(FALSE) /\ budget_exceeded' = FALSE
      BY <1>2, <2>2, <2>4, ExceededBoolean DEF ModelCalled
    <3>2. QED BY <1>1, <1>2, <2>1, <2>2, <2>4, <3>1, FinalAnswerKeeps
  <2>5. QED BY <2>3, <2>4
<1>5. QED BY <1>3, <1>4

LEMMA ReviewerTurnKeeps ==
    ASSUME GInv, NEW n \in 0 .. MaxCallsPerTurn, NEW tokens, NEW marker \in Markers,
           ReviewerTurn(n, tokens, marker)
    PROVE  GraphTypes' /\ ControlInv'
<1>1. /\ node \in RoleNode /\ node = "reviewer" /\ stage = "node" /\ Usage(n, tokens)
      /\ \E next : Goto(next)
      /\ UNCHANGED <<reviewVars, fileVars>>
  BY DEF ReviewerTurn, ReviewerAnswers, ModelTurn, RoleNode
<1>2. /\ ModelCalled(Exceeded(n, tokens))
      /\ n > 0 /\ ~Exceeded(n, tokens) => agent_steps' < MaxAgentSteps
      /\ supersteps' <= 3 * agent_steps + 2
  BY <1>1, ModelCallFacts
<1>3. CASE n > 0 /\ ~Exceeded(n, tokens)
  <2>1. /\ stage' = "tools" /\ calls' = n /\ n \in 1 .. MaxCallsPerTurn
        /\ agent_steps' < MaxAgentSteps
    BY <1>2, <1>3, BudgetTypes DEF ReviewerTurn, ModelTurn, Goto
  <2>2. ModelCalled(FALSE)
    BY <1>2, <1>3 DEF ModelCalled
  <2>3. UNCHANGED vars
    BY <1>3, ToolBranchStep, <1>1 DEF ReviewerTurn, ModelTurn, GInv, ControlInv, IInv, TypeOK
  <2>4. QED BY <1>1, <1>2, <2>1, <2>2, <2>3, ToolBranchKeeps
<1>4. CASE ~(n > 0 /\ ~Exceeded(n, tokens))
  <2>1. calls' = 0 /\ ReviewerAnswers(Exceeded(n, tokens), marker)
    BY <1>4 DEF ReviewerTurn, ModelTurn
  <2>2. CASE ~Exceeded(n, tokens) /\ RouteReviewer(marker) = "reviewer_protocol_retry"
    <3>1. stage' = "protocol_retry" /\ ModelCalled(FALSE)
      BY <1>2, <2>1, <2>2 DEF ReviewerAnswers, Goto, ModelCalled
    <3>2. review_protocol_errors < MaxReviewProtocolErrors
      BY <2>2 DEF RouteReviewer
    <3>3. UNCHANGED vars
      BY <1>1, <2>1, <2>2, ToolBranchStep DEF ReviewerAnswers, GInv, ControlInv, IInv, TypeOK
    <3>4. QED BY <1>1, <1>2, <2>1, <3>1, <3>2, <3>3, ProtocolRetryBranchKeeps
  <2>3. CASE ~(~Exceeded(n, tokens) /\ RouteReviewer(marker) = "reviewer_protocol_retry")
    <3>1. /\ stage' = "node" /\ budget_exceeded' = Exceeded(n, tokens)
          /\ node' = IF Exceeded(n, tokens) THEN "finalize_budget_failure"
                                            ELSE RouteReviewer(marker)
      BY <2>1, <2>3 DEF ReviewerAnswers, ReviewerEnds, Goto
    <3>2. RouteReviewer(marker) \in {"developer_retry", "finalize_review_success",
              "finalize_review_failure", "reviewer_protocol_retry"}
      BY DEF RouteReviewer, Markers
    <3>3. CASE Exceeded(n, tokens)
      <4>1. ModelCalled(TRUE) /\ budget_exceeded' = TRUE
        BY <1>2, <3>1, <3>3 DEF ModelCalled
      <4>2. QED BY <1>1, <1>2, <2>1, <3>1, <3>3, <4>1, BudgetSpentKeeps
    <3>4. CASE ~Exceeded(n, tokens)
      <4>1. ModelCalled(FALSE) /\ budget_exceeded' = FALSE
        BY <1>2, <3>1, <3>4, ExceededBoolean DEF ModelCalled
      <4>2. QED BY <1>1, <1>2, <2>1, <2>3, <3>1, <3>2, <3>4, <4>1, FinalAnswerKeeps
    <3>5. QED BY <3>3, <3>4
  <2>4. QED BY <2>2, <2>3
<1>5. QED BY <1>3, <1>4

\* What a tool node leaves to the role that called it.
LEMMA ToolsDoneKeeps ==
    ASSUME GInv, stage = "tools", Goto("node"), calls' = 0,
           UNCHANGED <<node, budget_exceeded, plan_status, usageVars, review_protocol_errors,
                       review_status, reviewed, workspace, shown, source, applied>>,
           tree' \in Trees, change_records' \in 0 .. MaxChangeRecords,
           latest_test' \in Tests \cup {NoTest}
    PROVE  GraphTypes' /\ ControlInv'
<1>1. node \in RoleNode /\ stage' = "node" /\ supersteps' \in Nat /\ supersteps' <= supersteps + 1
  BY BudgetTypes DEF GInv, ControlInv, GraphTypes, StageContext, Goto
<1>2. GraphTypes'
  BY <1>1, BudgetTypes DEF GInv, GraphTypes, Stage, usageVars
<1>3. StageContext' /\ BudgetStops' /\ ReviewContext'
  BY <1>1 DEF Transaction, GInv, ControlInv, StageContext, BudgetStops, ReviewContext,
     RoleNode, usageVars
<1>4. SuperstepBudget' /\ ToolsWithinBudget'
  BY <1>1 DEF GInv, ControlInv, GraphTypes, SuperstepBudget, StepsPaid, ToolsWithinBudget,
     RoleNode, FinalizeNode, usageVars
<1>5. OutcomeHonest' /\ WorkspaceHeld'
  BY <1>1 DEF GInv, ControlInv, OutcomeHonest, WorkspaceHeld, RoleNode, EndNode
<1>6. QED BY <1>2, <1>3, <1>4, <1>5 DEF ControlInv

\* Parallel writes leave a tree.
LEMMA TreesAfterAreTrees == ASSUME NEW ws PROVE TreesAfter(ws) \subseteq Trees
BY DEF TreesAfter

LEMMA RecordChangesTypes ==
    ASSUME GraphTypes, NEW n \in Nat, RecordChanges(n)
    PROVE  /\ change_records' \in 0 .. MaxChangeRecords
           /\ latest_test' \in Tests \cup {NoTest}
BY BudgetTypes DEF RecordChanges, GraphTypes

LEMMA ToolNodeKeeps == ASSUME GInv, ToolNode PROVE GraphTypes' /\ ControlInv'
<1>1. CASE ToolsRead
  BY <1>1, ToolsDoneKeeps DEF ToolsRead, vars, planVars, usageVars, reviewVars, fileVars, GInv,
     GraphTypes
<1>2. ASSUME NEW k \in 1 .. MaxCallsPerTurn, NEW ws \in [1 .. k -> WriteCall],
             DeveloperWritesFreely(ws)
      PROVE  GraphTypes' /\ ControlInv'
  <2> DEFINE Done == {i \in DOMAIN ws : ws[i].outcome = "written"}
  <2>1. IsFiniteSet(1 .. k) /\ k \in Nat
    BY FS_Interval, BudgetTypes
  <2>2. Cardinality(Done) \in Nat
    BY <2>1, FS_Subset, FS_CardinalityType
  <2>3. tree' \in Trees
    BY <1>2, TreesAfterAreTrees DEF DeveloperWritesFreely
  <2>4. change_records' \in 0 .. MaxChangeRecords /\ latest_test' \in Tests \cup {NoTest}
    BY <1>2, <2>2, RecordChangesTypes DEF DeveloperWritesFreely, GInv
  <2>5. QED BY <1>2, <2>3, <2>4, ToolsDoneKeeps DEF DeveloperWritesFreely, vars, usageVars
<1>3. ASSUME NEW w \in WriteCall, DeveloperWritesTaskFile(w)
      PROVE  GraphTypes' /\ ControlInv'
  <2>1. tree' \in Trees
    BY <1>3, TreesAfterAreTrees DEF DeveloperWritesTaskFile
  <2>2. change_records' \in 0 .. MaxChangeRecords /\ latest_test' \in Tests \cup {NoTest}
    BY <1>3, RecordChangesTypes DEF DeveloperWritesTaskFile, GInv
  <2>3. QED BY <1>3, <2>1, <2>2, ToolsDoneKeeps
        DEF DeveloperWritesTaskFile, DeveloperWrites, usageVars
<1>4. ASSUME NEW after \in Trees, NEW record \in Tests, ReviewerTests(after, record)
      PROVE  GraphTypes' /\ ControlInv'
  BY <1>4, ToolsDoneKeeps DEF ReviewerTests, vars, usageVars, GInv, GraphTypes
<1>5. QED BY <1>1, <1>2, <1>3, <1>4 DEF ToolNode

\* How the nodes without a model call hand the run on.
ControlMove ==
    \/ node = "schedule_task" /\ ~budget_exceeded /\ node' \in {"developer", "reviewer"}
    \/ /\ node = "schedule_task"
       /\ node' \in {"finalize_budget_failure", "finalize_plan_failure"}
    \/ /\ node = "complete_task" /\ node' = "schedule_task"
       /\ budget_exceeded => plan_status' = "failed"
    \/ node = "developer_retry" /\ node' = "schedule_task"

LEMMA ControlMoves ==
    ASSUME GInv, ControlNode PROVE ControlMove /\ budget_exceeded' = budget_exceeded
<1> USE DEF ControlMove
<1>1. CASE ScheduleTask
  BY <1>1 DEF ScheduleTask, Schedulable, GInv, ControlInv, BudgetStops
<1>2. CASE ScheduleNothing
  <2>1. /\ node = "schedule_task" /\ node' = RouteWithoutTask(plan_status')
        /\ budget_exceeded' = budget_exceeded
    BY <1>2 DEF ScheduleNothing
  <2>2. plan_status' \in {"fallback", "completed"} => ~budget_exceeded
    BY <1>2 DEF ScheduleNothing, Schedulable, GInv, ControlInv, BudgetStops
  <2>3. QED BY <2>1, <2>2 DEF RouteWithoutTask
<1>3. CASE CompleteTask
  BY <1>3 DEF CompleteTask
<1>4. CASE FailTask
  BY <1>4 DEF FailTask, Exhausted
<1>5. ASSUME NEW reply, DeveloperRetry(reply)
      PROVE  ControlMove /\ budget_exceeded' = budget_exceeded
  BY <1>5 DEF DeveloperRetry
<1>6. QED BY <1>1, <1>2, <1>3, <1>4, <1>5 DEF ControlNode

LEMMA ControlNodeKeeps == ASSUME GInv, ControlNode PROVE GraphTypes' /\ ControlInv'
<1>1. /\ stage = "node" /\ stage' = "node" /\ supersteps' \in Nat /\ supersteps' <= supersteps + 1
      /\ UNCHANGED <<usageVars, calls, reviewVars, fileVars>>
  BY BudgetTypes DEF ControlNode, Goto, GInv, GraphTypes
<1>2. ControlMove /\ budget_exceeded' = budget_exceeded /\ budget_exceeded \in BOOLEAN
  BY ControlMoves DEF GInv, IInv, TypeOK
<1>3. GraphTypes'
  BY <1>1 DEF GInv, GraphTypes, usageVars, reviewVars, fileVars
<1>4. StageContext' /\ BudgetStops' /\ ReviewContext'
  BY <1>1, <1>2 DEF ControlMove, GInv, ControlInv, StageContext, BudgetStops, ReviewContext,
     RoleNode, usageVars, reviewVars, fileVars
<1>5. SuperstepBudget'
  BY <1>1, <1>2 DEF Transaction, ControlMove, GInv, ControlInv, GraphTypes,
     SuperstepBudget, StepsPaid,
     RoleNode, FinalizeNode, usageVars
<1>6. ToolsWithinBudget' /\ OutcomeHonest' /\ WorkspaceHeld'
  BY <1>1, <1>2 DEF ControlMove, GInv, ControlInv, ToolsWithinBudget, OutcomeHonest,
     WorkspaceHeld, EndNode, fileVars
<1>7. QED BY <1>3, <1>4, <1>5, <1>6 DEF ControlInv

LEMMA ReviewerProtocolRetryKeeps ==
    ASSUME GInv, ReviewerProtocolRetry PROVE GraphTypes' /\ ControlInv'
<1>1. /\ stage = "protocol_retry" /\ stage' = "node"
      /\ supersteps' \in Nat /\ supersteps' <= supersteps + 1
      /\ node = "reviewer" /\ review_protocol_errors < MaxReviewProtocolErrors
      /\ review_protocol_errors' = review_protocol_errors + 1
      /\ UNCHANGED <<vars, usageVars, calls, review_status, change_records, latest_test,
                     reviewed, fileVars>>
  BY BudgetTypes DEF ReviewerProtocolRetry, Goto, GInv, ControlInv, StageContext, GraphTypes
<1>2. GraphTypes'
  BY <1>1, BudgetTypes DEF GInv, GraphTypes, Stage, usageVars, fileVars
<1>3. StageContext' /\ BudgetStops' /\ ReviewContext'
  BY <1>1 DEF Transaction, GInv, ControlInv, StageContext, BudgetStops, ReviewContext,
     RoleNode, vars,
     usageVars, fileVars
<1>4. SuperstepBudget' /\ ToolsWithinBudget'
  BY <1>1 DEF GInv, ControlInv, GraphTypes, SuperstepBudget, StepsPaid, ToolsWithinBudget,
     RoleNode, FinalizeNode, vars, usageVars
<1>5. OutcomeHonest' /\ WorkspaceHeld'
  BY <1>1 DEF GInv, ControlInv, OutcomeHonest, WorkspaceHeld, EndNode, fileVars
<1>6. QED BY <1>2, <1>3, <1>4, <1>5 DEF ControlInv

LEMMA FinalizeAsFailedKeeps ==
    ASSUME GInv, FinalizeAsFailed PROVE GraphTypes' /\ ControlInv'
<1>1. /\ stage = "node" /\ stage' = "node"
      /\ supersteps' \in Nat /\ supersteps' <= supersteps + 1
      /\ node \in FinalizeNode /\ node' = "cleanup_workspace"
      /\ review_status' = "failed"
      /\ UNCHANGED <<budget_exceeded, usageVars, calls, review_protocol_errors, change_records,
                     latest_test, reviewed, fileVars>>
  BY BudgetTypes DEF FinalizeAsFailed, FinalizeFailure, Goto, GInv, GraphTypes
<1>2. GraphTypes'
  BY <1>1 DEF GInv, GraphTypes, usageVars, fileVars
<1>3. StageContext' /\ BudgetStops' /\ ReviewContext'
  BY <1>1 DEF GInv, ControlInv, StageContext, BudgetStops, ReviewContext, RoleNode,
     FinalizeNode, usageVars, fileVars
<1>4. SuperstepBudget' /\ ToolsWithinBudget'
  BY <1>1 DEF Transaction, GInv, ControlInv, GraphTypes, SuperstepBudget, StepsPaid,
     ToolsWithinBudget,
     RoleNode, FinalizeNode, usageVars
<1>5. OutcomeHonest' /\ WorkspaceHeld'
  BY <1>1 DEF GInv, ControlInv, OutcomeHonest, WorkspaceHeld, EndNode, FinalizeNode, fileVars
<1>6. QED BY <1>2, <1>3, <1>4, <1>5 DEF ControlInv

\* Evidence is a test record that passed, stably, on the tree there is.
LEMMA EvidenceFacts ==
    ASSUME GraphTypes, Evidence
    PROVE  /\ latest_test \in Tests /\ latest_test # NoTest
           /\ latest_test.passed /\ latest_test.stable
           /\ latest_test.snapshot = tree /\ latest_test.snapshot \in Trees
           /\ workspace = "exists"
BY DEF Evidence, GraphTypes

LEMMA FinalizeAsSuccessKeeps ==
    ASSUME GInv, FinalizeAsSuccess PROVE GraphTypes' /\ ControlInv'
<1>1. /\ stage = "node" /\ stage' = "node"
      /\ supersteps' \in Nat /\ supersteps' <= supersteps + 1
      /\ node = "finalize_review_success" /\ node' = "prepare_workspace_approval"
      /\ UNCHANGED <<budget_exceeded, usageVars, calls, review_protocol_errors, change_records,
                     latest_test, fileVars>>
  BY BudgetTypes DEF FinalizeAsSuccess, FinalizeReviewSuccess, Goto, GInv, GraphTypes
<1>2. /\ review_status' \in {"success", "failed"}
      /\ reviewed' \in Trees \cup {NoTree}
      /\ reviewed' # NoTree =>
           /\ latest_test # NoTest /\ latest_test.passed /\ latest_test.stable
           /\ latest_test.snapshot = reviewed'
  BY EvidenceFacts DEF FinalizeAsSuccess, GInv
<1>3. GraphTypes'
  BY <1>1, <1>2 DEF GInv, GraphTypes, usageVars, fileVars
<1>4. StageContext' /\ BudgetStops' /\ ReviewContext'
  BY <1>1, <1>2 DEF GInv, ControlInv, StageContext, BudgetStops, ReviewContext, RoleNode,
     usageVars, fileVars
<1>5. SuperstepBudget' /\ ToolsWithinBudget'
  BY <1>1 DEF GInv, ControlInv, GraphTypes, SuperstepBudget, StepsPaid, ToolsWithinBudget,
     RoleNode, FinalizeNode, usageVars
<1>6. OutcomeHonest' /\ WorkspaceHeld'
  BY <1>1 DEF GInv, ControlInv, OutcomeHonest, WorkspaceHeld, EndNode, fileVars
<1>7. QED BY <1>3, <1>4, <1>5, <1>6 DEF ControlInv

LEMMA PrepareApprovalKeeps ==
    ASSUME GInv, NEW success \in BOOLEAN, PrepareApproval(success)
    PROVE  GraphTypes' /\ ControlInv'
<1>1. /\ stage = "node" /\ node = "prepare_workspace_approval"
      /\ supersteps' \in Nat /\ supersteps' <= supersteps + 1
      /\ \/ /\ shown' = tree /\ stage' = "apply" /\ workspace = "exists"
            /\ UNCHANGED <<review_status, workspace>>
         \/ /\ review_status' = "failed" /\ workspace' = "gone" /\ stage' = "cleanup"
            /\ shown' = shown
      /\ UNCHANGED <<vars, usageVars, calls, review_protocol_errors, change_records,
                     latest_test, reviewed, tree, source, applied>>
  BY BudgetTypes DEF PrepareApproval, Evidence, Goto, GInv, GraphTypes
<1>2. GraphTypes'
  BY <1>1 DEF GInv, GraphTypes, Stage, usageVars
<1>3. StageContext' /\ BudgetStops' /\ ReviewContext'
  BY <1>1 DEF GInv, ControlInv, StageContext, BudgetStops, ReviewContext, vars, usageVars
<1>4. SuperstepBudget' /\ ToolsWithinBudget'
  BY <1>1 DEF GInv, ControlInv, GraphTypes, SuperstepBudget, StepsPaid, ToolsWithinBudget,
     RoleNode, FinalizeNode, vars, usageVars
<1>5. OutcomeHonest' /\ WorkspaceHeld'
  BY <1>1 DEF Transaction, GInv, ControlInv, ReviewContext, OutcomeHonest, WorkspaceHeld,
     EndNode
<1>6. QED BY <1>2, <1>3, <1>4, <1>5 DEF ControlInv

LEMMA CleanupWorkspaceKeeps ==
    ASSUME GInv, CleanupWorkspace PROVE GraphTypes' /\ ControlInv'
<1>1. /\ stage = "cleanup" \/ (node = "cleanup_workspace" /\ stage = "node")
      /\ supersteps' \in Nat /\ supersteps' <= supersteps + 1
      /\ stage' = "end" /\ workspace' \in {"gone", "left"}
      /\ UNCHANGED <<vars, usageVars, calls, reviewVars, tree, shown, source, applied>>
  BY BudgetTypes DEF CleanupWorkspace, Remove, Goto, GInv, GraphTypes
<1>2. GraphTypes'
  BY <1>1 DEF GInv, GraphTypes, Stage, usageVars, reviewVars
<1>3. StageContext' /\ BudgetStops' /\ ReviewContext'
  BY <1>1 DEF Transaction, GInv, ControlInv, StageContext, BudgetStops, ReviewContext,
     RoleNode, vars,
     usageVars, reviewVars
<1>4. SuperstepBudget' /\ ToolsWithinBudget'
  BY <1>1 DEF Transaction, GInv, ControlInv, GraphTypes, StageContext, SuperstepBudget,
     StepsPaid,
     ToolsWithinBudget, RoleNode, FinalizeNode, vars, usageVars
<1>5. OutcomeHonest' /\ WorkspaceHeld'
  BY <1>1 DEF Transaction, GInv, ControlInv, ReviewContext, OutcomeHonest, WorkspaceHeld,
     reviewVars
<1>6. QED BY <1>2, <1>3, <1>4, <1>5 DEF ControlInv

LEMMA SuspendKeeps == ASSUME GInv, Suspend PROVE GraphTypes' /\ ControlInv'
<1>1. /\ stage = "apply" /\ stage' = "waiting"
      /\ supersteps' \in Nat /\ supersteps' <= supersteps + 1
      /\ UNCHANGED <<vars, usageVars, calls, reviewVars, fileVars>>
  BY BudgetTypes DEF Suspend, Goto, GInv, GraphTypes
<1>2. GraphTypes'
  BY <1>1 DEF GInv, GraphTypes, Stage, usageVars, reviewVars, fileVars
<1>3. StageContext' /\ BudgetStops' /\ ReviewContext'
  BY <1>1 DEF GInv, ControlInv, StageContext, BudgetStops, ReviewContext, RoleNode, vars,
     usageVars, reviewVars, fileVars
<1>4. SuperstepBudget' /\ ToolsWithinBudget'
  BY <1>1 DEF GInv, ControlInv, GraphTypes, SuperstepBudget, StepsPaid, ToolsWithinBudget,
     vars, usageVars
<1>5. OutcomeHonest' /\ WorkspaceHeld'
  BY <1>1 DEF GInv, ControlInv, OutcomeHonest, WorkspaceHeld, fileVars
<1>6. QED BY <1>2, <1>3, <1>4, <1>5 DEF ControlInv

\* The ends of the approval.
LEMMA DecisionKeeps ==
    ASSUME GInv, stage \in {"waiting"} \cup Transaction, stage' = "end",
           supersteps' \in {1, supersteps}, Remove, source' \in Trees,
           \/ review_status' = "success" /\ applied' = TRUE /\ replaced' = changed'
           \/ review_status' = "failed" /\ applied' = applied,
           UNCHANGED <<vars, usageVars, calls, review_protocol_errors, change_records,
                       latest_test, reviewed, tree, shown>>
    PROVE  GraphTypes' /\ ControlInv'
<1>1. GraphTypes'
  <2>1. stage' \in Stage /\ stage # "tools" /\ stage' # "tools"
    BY DEF Stage, Transaction
  <2>2. supersteps' \in Nat
    BY DEF GInv, GraphTypes
  <2>3. applied' \in BOOLEAN /\ review_status' \in {"running", "success", "failed"}
    BY DEF GInv, GraphTypes
  <2>4. workspace' \in {"none", "exists", "gone", "left"}
    BY DEF Remove
  <2>5. QED BY <2>1, <2>2, <2>3, <2>4 DEF GInv, GraphTypes, usageVars
<1>2. StageContext' /\ BudgetStops' /\ ReviewContext'
  BY DEF GInv, ControlInv, StageContext, BudgetStops, ReviewContext, RoleNode, vars, usageVars,
     Transaction
<1>3. SuperstepBudget' /\ ToolsWithinBudget'
  BY DEF GInv, GraphTypes, ControlInv, SuperstepBudget, StepsPaid, ToolsWithinBudget, usageVars,
     Transaction
<1>4. OutcomeHonest' /\ WorkspaceHeld'
  BY DEF GInv, ControlInv, ReviewContext, OutcomeHonest, WorkspaceHeld, Remove, Transaction
<1>5. QED BY <1>1, <1>2, <1>3, <1>4 DEF ControlInv

LEMMA RejectChangesKeeps ==
    ASSUME GInv, RejectChanges PROVE GraphTypes' /\ ControlInv'
BY DecisionKeeps DEF RejectChanges, GInv, GraphTypes

\* The stages of the application follow each other in one superstep.
LEMMA ApplicationGoesOn ==
    ASSUME GInv, stage \in {"waiting"} \cup Transaction, stage' \in Transaction,
           supersteps' \in {1, supersteps}, source' \in Trees,
           UNCHANGED <<vars, usageVars, calls, reviewVars, tree, workspace, shown, applied>>
    PROVE  GraphTypes' /\ ControlInv'
<1>1. GraphTypes'
  BY DEF GInv, GraphTypes, Stage, usageVars, reviewVars, Transaction
<1>2. StageContext' /\ BudgetStops' /\ ReviewContext'
  BY DEF GInv, ControlInv, StageContext, BudgetStops, ReviewContext, RoleNode, vars, usageVars,
     reviewVars, Transaction
<1>3. SuperstepBudget' /\ ToolsWithinBudget'
  BY DEF GInv, GraphTypes, ControlInv, SuperstepBudget, StepsPaid, ToolsWithinBudget, usageVars,
     Transaction
<1>4. OutcomeHonest' /\ WorkspaceHeld'
  BY DEF GInv, ControlInv, ReviewContext, OutcomeHonest, WorkspaceHeld, Transaction
<1>5. QED BY <1>1, <1>2, <1>3, <1>4 DEF ControlInv

LEMMA AtIsMember == ASSUME NEW files, files # {} PROVE At(files) \in files
BY DEF At

LEMMA ReplacedSourceIsTree ==
    ASSUME GInv, ReplaceFile PROVE source' \in Trees /\ replaced' \subseteq DOMAIN staged
<1>1. Pending # {} /\ Unprepared = {}
  BY DEF ReplaceFile, GInv, TransactionContext
<1>2. At(Pending) \in DOMAIN staged /\ At(Pending) \in Files
  BY <1>1, AtIsMember DEF Pending, Unprepared, GInv, TransactionTypes
<1>3. staged[At(Pending)].prepared \in Contents
  BY <1>2 DEF GInv, TransactionTypes
<1>4. QED BY <1>2, <1>3 DEF ReplaceFile, GInv, GraphTypes, TransactionTypes, Trees

LEMMA RolledBackSourceIsTree ==
    ASSUME GInv, NEW kept, ApplyFails(kept) PROVE source' \in Trees
<1>1. \A f \in replaced : staged[f].backup \in Contents
  BY DEF GInv, TransactionTypes
<1>2. \A f \in Files : source[f] \in Contents
  BY DEF GInv, GraphTypes, Trees
<1>3. QED BY <1>1, <1>2 DEF ApplyFails, Trees

LEMMA ApplyKeeps == ASSUME GInv, Apply PROVE GraphTypes' /\ ControlInv'
<1>1. source \in Trees
  BY DEF GInv, GraphTypes
<1>2. CASE CheckWorkspace \/ CheckTarget
  BY <1>1, <1>2, ApplicationGoesOn DEF CheckWorkspace, CheckTarget, Transaction, fileVars
<1>3. CASE CheckSource \/ PrepareFile
  BY <1>1, <1>3, ApplicationGoesOn DEF CheckSource, PrepareFile, Transaction
<1>4. CASE ReplaceFile
  BY <1>4, ApplicationGoesOn, ReplacedSourceIsTree DEF ReplaceFile, Transaction
<1>5. CASE ApplicationEnds
  <2>1. replaced = changed
    BY <1>5 DEF ApplicationEnds, Pending, GInv, TransactionTypes
  <2>2. QED BY <1>1, <1>5, <2>1, DecisionKeeps DEF ApplicationEnds, Transaction, applyVars
<1>6. ASSUME NEW kept, ApplyFails(kept) PROVE GraphTypes' /\ ControlInv'
  BY <1>6, DecisionKeeps, RolledBackSourceIsTree DEF ApplyFails
<1>7. QED BY <1>2, <1>3, <1>4, <1>5, <1>6 DEF Apply

LEMMA ApproveChangesKeeps ==
    ASSUME GInv, ApproveChanges PROVE GraphTypes' /\ ControlInv'
BY ApplicationGoesOn DEF ApproveChanges, Transaction, fileVars, GInv, GraphTypes

\* A run broken off keeps its tree, its workspace and its source.
LEMMA BrokenOffKeeps ==
    ASSUME GInv, stage \notin Stopped \cup Transaction, stage' = "aborted", calls' = 0,
           \/ node \notin EndNode /\ node' = "raised"
           \/ node \in EndNode /\ node' = node,
           tree' \in Trees,
           UNCHANGED <<budget_exceeded, plan_status, supersteps, usageVars, reviewVars,
                       workspace, shown, source, applied>>
    PROVE  GraphTypes' /\ ControlInv'
<1>1. GraphTypes'
  BY BudgetTypes DEF GInv, GraphTypes, Stage, usageVars, reviewVars
<1>2. StageContext' /\ BudgetStops' /\ ReviewContext'
  BY DEF Transaction, GInv, ControlInv, StageContext, BudgetStops, ReviewContext, RoleNode,
     EndNode, Stopped,
     usageVars, reviewVars
<1>3. SuperstepBudget' /\ ToolsWithinBudget'
  <2>1. stage \in {"setup", "node", "tools", "protocol_retry", "apply", "cleanup"}
    BY DEF GInv, GraphTypes, Stage, Stopped
  <2>2. StepsPaid(6)
    BY <2>1 DEF GInv, GraphTypes, ControlInv, StageContext, SuperstepBudget, StepsPaid,
       RoleNode, FinalizeNode, IInv, TypeOK, Node, EndNode
  <2>3. QED BY <2>2 DEF Transaction, SuperstepBudget, StepsPaid, ToolsWithinBudget, usageVars
<1>4. OutcomeHonest' /\ WorkspaceHeld'
  BY DEF Transaction, GInv, ControlInv, OutcomeHonest, WorkspaceHeld
<1>5. QED BY <1>1, <1>2, <1>3, <1>4 DEF ControlInv

LEMMA AbortsKeep ==
    ASSUME GInv, Abort \/ \E content \in Contents : DeveloperWritesTwice(content)
    PROVE  GraphTypes' /\ ControlInv'
<1>1. CASE Abort
  <2>1. /\ budget_exceeded' = budget_exceeded /\ plan_status' = plan_status
        /\ \/ node \notin EndNode /\ node' = "raised"
           \/ node \in EndNode /\ node' = node
    BY <1>1 DEF Abort, NodeRaises, vars
  <2>2. QED BY <1>1, <2>1, BrokenOffKeeps DEF Abort, fileVars, GInv, GraphTypes
<1>2. ASSUME NEW content \in Contents, DeveloperWritesTwice(content)
      PROVE  GraphTypes' /\ ControlInv'
  <2>1. tree' \in Trees
    BY <1>2 DEF DeveloperWritesTwice, GInv, GraphTypes, Trees
  <2>2. QED BY <1>2, <2>1, BrokenOffKeeps
        DEF DeveloperWritesTwice, NodeRaises, Stopped, Transaction, EndNode
<1>3. QED BY <1>1, <1>2

\* The files change and nothing else does.
LEMMA FilesChangeKeeps ==
    ASSUME GInv, tree' \in Trees, source' \in Trees,
           UNCHANGED <<vars, stage, supersteps, usageVars, calls, reviewVars, workspace, shown,
                       applied, changed, replaced>>
    PROVE  GraphTypes' /\ ControlInv'
<1>1. GraphTypes'
  BY DEF GInv, GraphTypes, usageVars, reviewVars
<1>2. StageContext' /\ BudgetStops' /\ ReviewContext'
  BY DEF GInv, ControlInv, StageContext, BudgetStops, ReviewContext, vars, usageVars, reviewVars
<1>3. SuperstepBudget' /\ ToolsWithinBudget' /\ OutcomeHonest' /\ WorkspaceHeld'
  BY DEF GInv, ControlInv, SuperstepBudget, StepsPaid, ToolsWithinBudget, OutcomeHonest,
     WorkspaceHeld, vars, usageVars, reviewVars
<1>4. QED BY <1>1, <1>2, <1>3 DEF ControlInv

LEMMA OutsideKeeps ==
    ASSUME GInv,
           \/ \E f \in Files, content \in Contents :
                TamperTree(f, content) \/ EditSource(f, content)
           \/ Resting \/ UNCHANGED gvars
    PROVE  GraphTypes' /\ ControlInv'
<1>1. tree \in Trees /\ source \in Trees
  BY DEF GInv, GraphTypes
<1>2. ASSUME NEW f \in Files, NEW content \in Contents, TamperTree(f, content)
      PROVE  GraphTypes' /\ ControlInv'
  BY <1>1, <1>2, FilesChangeKeeps DEF TamperTree, Trees
<1>3. ASSUME NEW f \in Files, NEW content \in Contents, EditSource(f, content)
      PROVE  GraphTypes' /\ ControlInv'
  BY <1>1, <1>3, FilesChangeKeeps DEF EditSource, Trees
<1>4. CASE Resting \/ UNCHANGED gvars
  BY <1>1, <1>4, FilesChangeKeeps DEF Resting, gvars, fileVars, applyVars
<1>5. QED BY <1>2, <1>3, <1>4

LEMMA ModelNodeKeeps == ASSUME GInv, ModelNode PROVE GraphTypes' /\ ControlInv'
BY ArchitectTurnKeeps, DeveloperTurnKeeps, ReviewerTurnKeeps DEF ModelNode

LEMMA GraphNodeKeeps == ASSUME GInv, GraphNode PROVE GraphTypes' /\ ControlInv'
BY InitializeWorkspaceKeeps, ModelNodeKeeps, ToolNodeKeeps, ControlNodeKeeps,
   ReviewerProtocolRetryKeeps, FinalizeAsFailedKeeps, FinalizeAsSuccessKeeps,
   PrepareApprovalKeeps, CleanupWorkspaceKeeps, SuspendKeeps, ApplyKeeps
DEF GraphNode

-----------------------------------------------------------------------------
(* What is staged and replaced, and what the windows leave open.             *)

LEMMA NothingStaged ==
    ASSUME GInv, stage \notin Underway, stage' \notin Underway, stage = "end" => stage' = "end",
           UNCHANGED <<changed, staged, replaced>>,
           \/ intrusions' = intrusions
           \/ \E f \in Files, when \in {"replace", "other"} :
                intrusions' = intrusions \cup {<<f, when>>}
    PROVE  TransactionTypes' /\ TransactionContext'
<1>1. TransactionTypes'
  BY DEF GInv, TransactionTypes
<1>2. \A f \in Files : <<f, "read">> \in intrusions' => <<f, "read">> \in intrusions
  OBVIOUS
<1>3. TransactionContext'
  BY <1>2 DEF GInv, TransactionContext, Underway, Transaction
<1>4. QED BY <1>1, <1>3

LEMMA GraphNodeStagesNothing ==
    ASSUME GInv, GraphNode, ~Apply
    PROVE  /\ stage \notin Transaction \cup {"end"} /\ stage' \notin Transaction
           /\ UNCHANGED applyVars
<1>1. CASE ModelNode
  <2>1. ASSUME NEW n, NEW tokens, NEW plan, ArchitectTurn(n, tokens, plan)
        PROVE  stage = "node" /\ stage' \in {"node", "tools"} /\ UNCHANGED applyVars
    BY <2>1 DEF ArchitectTurn, ModelTurn, Goto, fileVars
  <2>2. ASSUME NEW n, NEW tokens, DeveloperTurn(n, tokens)
        PROVE  stage = "node" /\ stage' \in {"node", "tools"} /\ UNCHANGED applyVars
    BY <2>2 DEF DeveloperTurn, ModelTurn, Goto, fileVars
  <2>3. ASSUME NEW n, NEW tokens, NEW marker, ReviewerTurn(n, tokens, marker)
        PROVE  /\ stage = "node" /\ stage' \in {"node", "tools", "protocol_retry"}
               /\ UNCHANGED applyVars
    BY <2>3 DEF ReviewerTurn, ReviewerAnswers, ModelTurn, Goto, fileVars
  <2>4. QED BY <1>1, <2>1, <2>2, <2>3 DEF ModelNode, Transaction
<1>2. CASE ToolNode
  <2>1. stage = "tools" /\ stage' = "node" /\ UNCHANGED applyVars
    BY <1>2 DEF ToolNode, ToolsRead, DeveloperWritesFreely, DeveloperWritesTaskFile,
       ReviewerTests, Goto, fileVars
  <2>2. QED BY <2>1 DEF Transaction
<1>3. CASE InitializeWorkspace \/ ControlNode \/ ReviewerProtocolRetry
  BY <1>3 DEF InitializeWorkspace, ControlNode, ReviewerProtocolRetry, Goto, fileVars,
     Transaction
<1>4. CASE FinalizeAsFailed \/ FinalizeAsSuccess \/ CleanupWorkspace \/ Suspend
  BY <1>4 DEF FinalizeAsFailed, FinalizeAsSuccess, CleanupWorkspace, Suspend, Goto, fileVars,
     Transaction
<1>5. ASSUME NEW success, PrepareApproval(success)
      PROVE  stage = "node" /\ stage' \in {"apply", "cleanup"} /\ UNCHANGED applyVars
  BY <1>5 DEF PrepareApproval, Goto
<1>6. QED BY <1>1, <1>2, <1>3, <1>4, <1>5 DEF GraphNode, Transaction

LEMMA CheckWorkspaceStages ==
    ASSUME GInv, CheckWorkspace PROVE TransactionTypes' /\ TransactionContext'
<1>1. /\ stage = "approved" /\ stage' = "checked" /\ tree = shown /\ tree = reviewed
      /\ UNCHANGED <<reviewed, tree, shown, source, changed, staged, replaced, intrusions>>
  BY DEF CheckWorkspace, fileVars, applyVars, reviewVars
<1>2. reviewed # NoTree
  BY <1>1, NoValueAssumption DEF GInv, GraphTypes
<1>3. /\ changed = {} /\ replaced = {} /\ DOMAIN staged = {}
      /\ \A f \in Files : <<f, "read">> \notin intrusions
  BY <1>1 DEF GInv, TransactionContext, TransactionTypes, Underway
<1>4. TransactionTypes'
  BY <1>1 DEF GInv, TransactionTypes
<1>5. TransactionContext'
  BY <1>1, <1>2, <1>3 DEF TransactionContext, Underway, ReadWindow, Transaction
<1>6. QED BY <1>4, <1>5

LEMMA CheckSourceStages ==
    ASSUME GInv, CheckSource PROVE TransactionTypes' /\ TransactionContext'
<1>1. /\ stage = "checked" /\ changed' = {f \in Files : tree[f] # Baseline}
      /\ stage' = IF changed' = {} THEN "commit" ELSE "prepare"
      /\ UNCHANGED <<reviewed, tree, shown, source, staged, replaced, intrusions>>
  BY DEF CheckSource, reviewVars
<1>2. /\ changed = {} /\ replaced = {} /\ DOMAIN staged = {}
      /\ reviewed # NoTree /\ shown = reviewed
      /\ \A f \in Files : <<f, "read">> \notin intrusions => tree[f] = shown[f]
  BY <1>1 DEF GInv, TransactionContext, TransactionTypes, Underway, Transaction, ReadWindow
<1>3. TransactionTypes'
  BY <1>1, <1>2 DEF GInv, TransactionTypes
<1>4. Unprepared' = changed'
  BY <1>1, <1>2 DEF Unprepared
<1>5. TransactionContext'
  BY <1>1, <1>2, <1>4 DEF TransactionContext, Underway, Transaction, ReadWindow
<1>6. QED BY <1>3, <1>5

LEMMA PrepareFileStages ==
    ASSUME GInv, PrepareFile PROVE TransactionTypes' /\ TransactionContext'
<1> DEFINE g == At(Unprepared)
           done == DOMAIN staged \cup {g}
<1>1. /\ stage = "prepare"
      /\ staged' = [f \in done |-> IF f \in DOMAIN staged THEN staged[f]
                                   ELSE [prepared |-> tree[f], backup |-> source[f]]]
      /\ stage' = IF changed \subseteq done THEN "commit" ELSE "prepare"
      /\ UNCHANGED <<reviewed, tree, shown, source, changed, replaced, intrusions>>
  BY DEF PrepareFile, reviewVars
<1>2. g \in changed /\ g \notin DOMAIN staged /\ g \in Files
  BY <1>1, AtIsMember DEF Unprepared, GInv, TransactionContext, TransactionTypes
<1>3. /\ replaced = {} /\ reviewed # NoTree /\ shown = reviewed
      /\ \A f \in Files : <<f, "read">> \notin intrusions =>
           /\ f \in Unprepared => tree[f] = shown[f]
           /\ f \in DOMAIN staged => staged[f].prepared = shown[f]
           /\ f \in changed <=> shown[f] # Baseline
  BY <1>1 DEF GInv, TransactionContext, Underway, Transaction, ReadWindow
<1>4. DOMAIN staged' = done /\ \A f \in done :
        staged'[f] = IF f \in DOMAIN staged THEN staged[f]
                     ELSE [prepared |-> tree[f], backup |-> source[f]]
  BY <1>1
<1>5. TransactionTypes'
  <2>1. tree[g] \in Contents /\ source[g] \in Contents
    BY <1>2 DEF GInv, GraphTypes, Trees
  <2>2. \A f \in done : staged'[f] \in [prepared : Contents, backup : Contents]
    <3>1. ASSUME NEW f \in DOMAIN staged
          PROVE  staged'[f] \in [prepared : Contents, backup : Contents]
      BY <1>4 DEF GInv, TransactionTypes
    <3>2. staged'[g] = [prepared |-> tree[g], backup |-> source[g]]
      BY <1>2, <1>4
    <3>3. staged'[g] \in [prepared : Contents, backup : Contents]
      BY <2>1, <3>2
    <3>4. QED BY <3>1, <3>3
  <2>3. staged' \in [done -> [prepared : Contents, backup : Contents]]
    BY <1>1, <1>4, <2>2
  <2>4. QED BY <1>1, <1>2, <1>3, <1>4, <2>3 DEF GInv, TransactionTypes
<1>6. TransactionContext'
  <2>1. Unprepared' = changed \ done /\ Unprepared' \subseteq Unprepared /\ g \in Unprepared
    BY <1>1, <1>2, <1>4 DEF Unprepared
  <2>2. /\ stage' \in {"prepare", "commit"}
        /\ stage' = "prepare" => Unprepared' # {}
        /\ stage' = "commit" => Unprepared' = {}
    BY <1>1, <2>1
  <2>3. \A f \in Files : <<f, "read">> \notin intrusions /\ f \in done =>
            staged'[f].prepared = shown[f]
    <3>1. staged'[g] = [prepared |-> tree[g], backup |-> source[g]]
      BY <1>2, <1>4
    <3>2. ASSUME NEW f \in DOMAIN staged PROVE staged'[f] = staged[f]
      BY <1>4
    <3>3. QED BY <1>3, <2>1, <3>1, <3>2
  <2>4. QED BY <1>1, <1>3, <1>4, <2>1, <2>2, <2>3
        DEF TransactionContext, Underway, Transaction, ReadWindow
<1>7. QED BY <1>5, <1>6

LEMMA CommitStages ==
    ASSUME GInv, CheckTarget \/ ReplaceFile PROVE TransactionTypes' /\ TransactionContext'
<1>1. /\ stage \in {"commit", "replace"} /\ stage' \in {"commit", "replace"}
      /\ UNCHANGED <<reviewed, tree, shown, changed, staged, intrusions>>
  BY DEF CheckTarget, ReplaceFile, reviewVars, fileVars, applyVars
<1>2. /\ Unprepared = {} /\ reviewed # NoTree /\ shown = reviewed
      /\ \A f \in Files : <<f, "read">> \notin intrusions =>
           /\ f \in DOMAIN staged => staged[f].prepared = shown[f]
           /\ f \in changed <=> shown[f] # Baseline
  BY <1>1 DEF GInv, TransactionContext, Underway, Transaction
<1>3. Unprepared' = {}
  BY <1>1, <1>2 DEF Unprepared
<1>4. TransactionTypes'
  <2>1. replaced' \subseteq DOMAIN staged
    BY ReplacedSourceIsTree DEF CheckTarget, fileVars, applyVars, GInv, TransactionTypes
  <2>2. QED BY <1>1, <2>1 DEF GInv, TransactionTypes
<1>5. stage' = "replace" =>
        /\ Pending' # {}
        /\ source'[At(Pending')] = Baseline
  BY DEF CheckTarget, ReplaceFile, Pending, fileVars, applyVars
<1>6. TransactionContext'
  BY <1>1, <1>2, <1>3, <1>5 DEF TransactionContext, Underway, Transaction, ReadWindow
<1>7. QED BY <1>4, <1>6

LEMMA ApplicationEndStages ==
    ASSUME GInv, ApplicationEnds \/ \E kept \in SUBSET Files : ApplyFails(kept)
    PROVE  TransactionTypes' /\ TransactionContext'
<1>1. /\ stage' = "end" /\ replaced' \subseteq replaced
      /\ UNCHANGED <<changed, staged, intrusions>>
  BY DEF ApplicationEnds, ApplyFails, applyVars
<1>2. TransactionTypes'
  BY <1>1 DEF GInv, TransactionTypes
<1>3. TransactionContext'
  BY <1>1 DEF TransactionContext, Underway, Transaction
<1>4. QED BY <1>2, <1>3

\* A write into the working copy is recorded as one in a window if it is one.
LEMMA TamperStages ==
    ASSUME GInv, NEW f \in Files, NEW content \in Contents, TamperTree(f, content)
    PROVE  TransactionTypes' /\ TransactionContext'
<1> DEFINE when == IF ReadWindow(f) THEN "read" ELSE "other"
<1>1. /\ tree' = [tree EXCEPT ![f] = content]
      /\ intrusions' = intrusions \cup {<<f, when>>}
      /\ UNCHANGED <<stage, reviewed, shown, source, changed, staged, replaced>>
  BY DEF TamperTree, Intrude, reviewVars
<1>2. CASE stage \notin Underway
  <2>1. when = "other"
    BY <1>2 DEF ReadWindow, Underway, Transaction
  <2>2. QED BY <1>1, <1>2, <2>1, NothingStaged
<1>3. CASE stage \in Underway
  <2>1. TransactionTypes'
    BY <1>1 DEF GInv, TransactionTypes
  <2>2. /\ Unprepared' = Unprepared /\ Pending' = Pending
        /\ \A g \in Files : ReadWindow(g)' <=> ReadWindow(g)
    BY <1>1 DEF Unprepared, Pending, ReadWindow
  <2>3. \A g \in Files : <<g, "read">> \notin intrusions' =>
          <<g, "read">> \notin intrusions /\ (ReadWindow(g) => tree'[g] = tree[g])
    BY <1>1 DEF GInv, GraphTypes, Trees
  <2>4. <<At(Pending), "replace">> \in intrusions => <<At(Pending), "replace">> \in intrusions'
    BY <1>1
  <2>5. TransactionContext'
    BY <1>1, <1>3, <2>2, <2>3, <2>4 DEF GInv, TransactionContext, Underway, Transaction
  <2>6. QED BY <2>1, <2>5
<1>4. QED BY <1>2, <1>3

LEMMA EditStages ==
    ASSUME GInv, NEW f \in Files, NEW content \in Contents, EditSource(f, content)
    PROVE  TransactionTypes' /\ TransactionContext'
<1> DEFINE when == IF stage = "replace" /\ f = At(Pending) THEN "replace" ELSE "other"
<1>1. /\ source' = [source EXCEPT ![f] = content]
      /\ intrusions' = intrusions \cup {<<f, when>>}
      /\ UNCHANGED <<stage, reviewed, tree, shown, changed, staged, replaced>>
  BY DEF EditSource, Intrude, reviewVars
<1>2. CASE stage \notin Underway
  <2>1. when \in {"replace", "other"}
    OBVIOUS
  <2>2. QED BY <1>1, <1>2, <2>1, NothingStaged
<1>3. CASE stage \in Underway
  <2>1. TransactionTypes'
    BY <1>1 DEF GInv, TransactionTypes
  <2>2. /\ Unprepared' = Unprepared /\ Pending' = Pending
        /\ \A g \in Files : ReadWindow(g)' <=> ReadWindow(g)
    BY <1>1 DEF Unprepared, Pending, ReadWindow
  <2>3. \A g \in Files : <<g, "read">> \in intrusions' => <<g, "read">> \in intrusions
    BY <1>1
  <2>4. stage = "replace" =>
          \/ source'[At(Pending)] = source[At(Pending)] /\ f # At(Pending)
          \/ <<At(Pending), "replace">> \in intrusions'
    BY <1>1 DEF GInv, GraphTypes, Trees
  <2>5. <<At(Pending), "replace">> \in intrusions => <<At(Pending), "replace">> \in intrusions'
    BY <1>1
  <2>6. TransactionContext'
    BY <1>1, <1>3, <2>2, <2>3, <2>4, <2>5 DEF GInv, TransactionContext, Underway, Transaction
  <2>7. QED BY <2>1, <2>6
<1>4. QED BY <1>2, <1>3

LEMMA TransactionKept ==
    ASSUME GInv, [GraphNext]_gvars PROVE TransactionTypes' /\ TransactionContext'
<1>1. CASE Apply
  BY <1>1, CheckWorkspaceStages, CheckSourceStages, PrepareFileStages, CommitStages,
     ApplicationEndStages DEF Apply
<1>2. CASE GraphNode /\ ~Apply
  BY <1>2, GraphNodeStagesNothing, NothingStaged DEF Underway, Transaction, applyVars
<1>3. CASE RejectChanges \/ ApproveChanges
  BY <1>3, NothingStaged DEF RejectChanges, ApproveChanges, Underway, Transaction, fileVars,
     applyVars
<1>4. CASE Abort \/ \E content \in Contents : DeveloperWritesTwice(content)
  BY <1>4, NothingStaged DEF Abort, DeveloperWritesTwice, Underway, Transaction, Stopped,
     fileVars, applyVars
<1>5. ASSUME NEW f \in Files, NEW content \in Contents,
             TamperTree(f, content) \/ EditSource(f, content)
      PROVE  TransactionTypes' /\ TransactionContext'
  BY <1>5, TamperStages, EditStages
<1>6. CASE Resting \/ UNCHANGED gvars
  <2>1. UNCHANGED <<stage, changed, staged, replaced, intrusions, tree, source, shown, reviewed>>
    BY <1>6 DEF Resting, gvars, fileVars, applyVars, reviewVars
  <2>2. QED BY <2>1 DEF GInv, TransactionTypes, TransactionContext, Pending, Unprepared,
            ReadWindow
<1>7. QED BY <1>1, <1>2, <1>3, <1>4, <1>5, <1>6 DEF GraphNext, GraphNode
-----------------------------------------------------------------------------
LEMMA GraphNextInvariant == GInv /\ [GraphNext]_gvars => GInv'
<1> SUFFICES ASSUME GInv, [GraphNext]_gvars PROVE GInv'
  OBVIOUS
<1>1. GraphTypes' /\ ControlInv'
  <2>1. CASE GraphNode
    BY <2>1, GraphNodeKeeps
  <2>2. CASE RejectChanges \/ ApproveChanges
    BY <2>2, RejectChangesKeeps, ApproveChangesKeeps
  <2>3. CASE Abort \/ \E content \in Contents : DeveloperWritesTwice(content)
    BY <2>3, AbortsKeep
  <2>4. CASE \/ \E f \in Files, content \in Contents :
                  TamperTree(f, content) \/ EditSource(f, content)
             \/ Resting \/ UNCHANGED gvars
    BY <2>4, OutsideKeeps
  <2>5. QED BY <2>1, <2>2, <2>3, <2>4 DEF GraphNext
<1>2. IInv'
  BY GraphStepBase
<1>3. TransactionTypes' /\ TransactionContext'
  BY TransactionKept
<1>4. QED BY <1>1, <1>2, <1>3 DEF GInv
-----------------------------------------------------------------------------
(* The theorems. *)

\* What a graph node may count on holds of every run of the graph.
THEOREM GraphInvariance == GraphSpec => []GInv
  BY InitGraphInvariant, GraphNextInvariant, PTL DEF GraphSpec

\* The graph with its tools, budgets, evidence gate and approval carries the
\* control plane out, so every theorem about Spec is one about GraphSpec.
THEOREM GraphImplementsScheduler == GraphSpec => Spec
<1>1. GraphInit => Init
  BY DEF GraphInit
<1>2. GInv /\ [GraphNext]_gvars => [Next]_vars
  BY GraphNextStep
<1>3. QED BY <1>1, <1>2, GraphInvariance, PTL DEF GraphSpec, Spec

\* run_usage, the review records and the files keep their types for all limits.
THEOREM GraphTypeCorrect == GraphSpec => []GraphTypeOK
<1>1. GInv => GraphTypeOK
  BY DEF GInv, GraphTypeOK
<1>2. QED BY <1>1, GraphInvariance, PTL

\* A run that came to END reports success exactly if the application ran to its
\* end, and then every file of the change was replaced and none put back.  Of a
\* failure it says nothing about the files: a rollback may leave some.
THEOREM ReportedOutcome == GraphSpec => []OutcomeHonest
<1>1. GInv => OutcomeHonest
  BY DEF GInv, ControlInv
<1>2. QED BY <1>1, GraphInvariance, PTL

\* No tool runs beyond the budget or without a model step left to answer it.
THEOREM ToolsStayWithinBudget == GraphSpec => []ToolsWithinBudget
<1>1. GInv => ToolsWithinBudget
  BY DEF GInv, ControlInv
<1>2. QED BY <1>1, GraphInvariance, PTL

\* The directory of a run is there while a node needs it, and no way to END
\* forgets it.
THEOREM WorkspaceKept == GraphSpec => []WorkspaceHeld
<1>1. GInv => WorkspaceHeld
  BY DEF GInv, ControlInv
<1>2. QED BY <1>1, GraphInvariance, PTL

\* The formula of build_graph_config is enough for every pair of budgets: each
\* model call pays for three supersteps, and six more lead to END.
THEOREM RecursionLimitSuffices == GraphSpec => []BudgetsBeforeRecursionLimit
<1>1. GInv => BudgetsBeforeRecursionLimit
  <2> SUFFICES ASSUME GInv PROVE supersteps <= RecursionLimit
    BY DEF BudgetsBeforeRecursionLimit
  <2>1. supersteps \in Nat /\ agent_steps \in 0 .. MaxAgentSteps
    BY DEF GInv, GraphTypes
  <2>2. stage = "setup" => supersteps = 0
    BY DEF GInv, ControlInv, StageContext
  <2>3. stage # "setup" => supersteps <= 3 * agent_steps + 6
    BY <2>1, BudgetTypes DEF GInv, GraphTypes, Stage, ControlInv, StageContext,
       SuperstepBudget, StepsPaid, RoleNode, FinalizeNode, IInv, TypeOK, Node, EndNode
  <2>4. 3 * agent_steps + 6 <= 3 * MaxAgentSteps + 2 * MaxToolCalls + 10
    BY <2>1, BudgetTypes
  <2>5. QED BY <2>1, <2>2, <2>3, <2>4, BudgetTypes DEF RecursionLimit
<1>2. QED BY <1>1, GraphInvariance, PTL

\* Whoever writes into the directory of the run or edits the source, and whenever:
\* outside the two windows of a file what is written over it is what was tested,
\* reviewed and shown, on the file as it was, with the whole plan complete; and
\* a change that counts as applied has every file that was shown in it.
THEOREM AppliedTree == GraphSpec => AppliedAsReviewed
<1> DEFINE Reviewed ==
        /\ stage = "replace" /\ stage' = "commit" =>
            LET f == At(Pending) IN
            /\ source[f] = Baseline \/ <<f, "replace">> \in intrusions
            /\ source'[f] = shown[f] \/ <<f, "read">> \in intrusions
            /\ shown = latest_test.snapshot /\ latest_test.passed /\ latest_test.stable
            /\ refactor_plan # NoPlan => completed_task_ids = Tasks
        /\ applied' # applied =>
            \A f \in Files : <<f, "read">> \notin intrusions =>
                (f \in replaced <=> shown[f] # Baseline)
<1>1. ASSUME GInv, [GraphNext]_gvars, stage = "replace", stage' = "commit" PROVE ReplaceFile
  <2>1. ~GraphNode \/ Apply
    BY <1>1, GraphNodeStagesNothing DEF Transaction
  <2>2. QED BY <1>1, <2>1 DEF GraphNext, Apply, CheckWorkspace, CheckSource, PrepareFile,
            CheckTarget, ApplicationEnds, ApplyFails, DeveloperWritesTwice, RejectChanges,
            ApproveChanges, Abort, Resting, TamperTree, EditSource, gvars
<1>2. ASSUME GInv, [GraphNext]_gvars, applied' # applied PROVE ApplicationEnds
  <2>1. ASSUME ModelNode \/ ToolNode PROVE applied' = applied
    BY <2>1 DEF ModelNode, ToolNode, ArchitectTurn, DeveloperTurn, ReviewerTurn, ModelTurn,
       ToolsRead, DeveloperWritesFreely, DeveloperWritesTaskFile, ReviewerTests, fileVars
  <2>2. ASSUME GraphNode, ~Apply PROVE applied' = applied
    BY <2>1, <2>2 DEF GraphNode, InitializeWorkspace, ControlNode, ReviewerProtocolRetry,
       FinalizeAsFailed, FinalizeAsSuccess, PrepareApproval, CleanupWorkspace, Suspend, fileVars
  <2>3. CASE Apply
    BY <1>2, <2>3 DEF Apply, CheckWorkspace, CheckSource, PrepareFile, CheckTarget, ReplaceFile,
       ApplyFails, fileVars
  <2>4. CASE ~GraphNode
    BY <1>2, <2>4 DEF GraphNext, DeveloperWritesTwice, RejectChanges, ApproveChanges, Abort,
       Resting, TamperTree, EditSource, gvars, fileVars
  <2>5. QED BY <1>2, <2>2, <2>3, <2>4
<1>3. ASSUME GInv, ReplaceFile
      PROVE  LET f == At(Pending) IN
             /\ source[f] = Baseline \/ <<f, "replace">> \in intrusions
             /\ source'[f] = shown[f] \/ <<f, "read">> \in intrusions
             /\ shown = latest_test.snapshot /\ latest_test.passed /\ latest_test.stable
             /\ refactor_plan # NoPlan => completed_task_ids = Tasks
  <2> DEFINE f == At(Pending)
  <2>1. /\ Pending # {} /\ Unprepared = {} /\ reviewed # NoTree /\ shown = reviewed
        /\ source[f] = Baseline \/ <<f, "replace">> \in intrusions
        /\ \A g \in Files : <<g, "read">> \notin intrusions =>
             (g \in DOMAIN staged => staged[g].prepared = shown[g])
    BY <1>3 DEF ReplaceFile, GInv, TransactionContext, Underway, Transaction
  <2>2. f \in Files /\ f \in DOMAIN staged
    <3>1. f \in Pending
      BY <2>1, AtIsMember
    <3>2. Unprepared = {} /\ changed \subseteq Files
      BY <2>1, <1>3 DEF GInv, TransactionTypes
    <3>3. \A g \in Pending : g \in Files /\ g \in DOMAIN staged
      BY <3>2 DEF Pending, Unprepared
    <3>4. QED BY <3>1, <3>3
  <2>3. source'[f] = staged[f].prepared
    BY <1>3, <2>2 DEF ReplaceFile, GInv, GraphTypes, Trees
  <2>4. /\ node = "prepare_workspace_approval"
        /\ latest_test.passed /\ latest_test.stable /\ latest_test.snapshot = reviewed
    BY <2>1, <1>3 DEF GInv, ControlInv, ReviewContext
  <2>5. completed_task_ids = Tasks
    BY <1>3, <2>4 DEF GInv, IInv, NodeContext, WholePlanNode
  <2>6. QED BY <2>1, <2>2, <2>3, <2>4, <2>5
<1>4. ASSUME GInv, ApplicationEnds
      PROVE  \A f \in Files : <<f, "read">> \notin intrusions =>
                (f \in replaced <=> shown[f] # Baseline)
  <2>1. replaced = changed
    BY <1>4 DEF ApplicationEnds, Pending, GInv, TransactionTypes
  <2>2. \A f \in Files : <<f, "read">> \notin intrusions =>
            (f \in changed <=> shown[f] # Baseline)
    BY <1>4 DEF ApplicationEnds, GInv, TransactionContext, Underway, Transaction
  <2>3. QED BY <2>1, <2>2
<1>5. GInv /\ [GraphNext]_gvars => [Reviewed]_gvars
  BY <1>1, <1>2, <1>3, <1>4
<1>6. QED BY <1>5, GraphInvariance, PTL DEF GraphSpec, AppliedAsReviewed
=============================================================================
