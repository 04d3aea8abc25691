----------------------------- MODULE AgentGraph -----------------------------
(***************************************************************************)
(* The whole graph of one run (backend/agent/workflow.py): the task control *)
(* plane of TaskScheduler with the model calls and their budget, the tool   *)
(* nodes, the workspace the tools change, the Reviewer's evidence gate, the *)
(* human approval and the application to the user's source.                 *)
(*                                                                         *)
(* Several graph nodes share one value of TaskScheduler's node: stage says  *)
(* which of them runs next.  A step of a graph node is a TaskScheduler step *)
(* or leaves its variables alone, so its theorems hold here as well.        *)
(***************************************************************************)
EXTENDS TaskScheduler, Sequences, FiniteSets

CONSTANTS MaxAgentSteps, MaxToolCalls,   \* run_budget_limits of the run
          MaxCallsPerTurn,               \* bound: tool calls in one response
          MaxReviewProtocolErrors,       \* edges.py MAX_REVIEW_PROTOCOL_ERRORS
          MaxChangeRecords,              \* state.py MAX_CHANGE_RECORDS
          MaxIntrusions,                 \* bound: kinds of writes from outside
          NoTest, NoTree                 \* no test record, no digest

ASSUME BudgetAssumption ==
    /\ MaxAgentSteps \in Nat /\ MaxAgentSteps >= 3
    /\ MaxToolCalls \in Nat \ {0} /\ MaxCallsPerTurn \in Nat \ {0}
    /\ MaxReviewProtocolErrors \in Nat /\ MaxChangeRecords \in Nat \ {0}
    /\ MaxIntrusions \in Nat

Files == 1 .. MaxPlanTasks          \* a task's file has the task's number
Trees == [Files -> Contents]
BaselineTree == [f \in Files |-> Baseline]
Tests == [records : 0 .. MaxChangeRecords, snapshot : Trees,
          stable : BOOLEAN, passed : BOOLEAN]

ASSUME NoValueAssumption == NoTest \notin Tests /\ NoTree \notin Trees

VARIABLES
    stage,                    \* the graph node at hand, see Stage
    supersteps,               \* graph nodes run since stream() was called
    agent_steps, tool_calls,  \* run_usage
    calls,                    \* tool calls the tool node is about to run
    review_protocol_errors, review_status,
    change_records,           \* how many; the list keeps the last ones
    latest_test,              \* test_run_records[-1]
    reviewed,                 \* review_evidence: the tree that was tested
    tree,                     \* the files of working/
    workspace,                \* the directory of the run
    shown,                    \* the tree whose diff and digest were fixed
    source,                   \* the user's own files
    applied,                  \* workspace_applied
    changed,                  \* locals of _atomic_apply_workspace_locked:
    staged,                   \*   prepared and backups, of the files prepared
    replaced,                 \*   its list applied; what is left of it at the end
    intrusions                \* history: writes from outside, as <<file, when>>

usageVars == <<agent_steps, tool_calls>>
reviewVars == <<review_protocol_errors, review_status, change_records, latest_test,
                reviewed>>
applyVars == <<changed, staged, replaced, intrusions>>
fileVars == <<tree, workspace, shown, source, applied, applyVars>>
gvars == <<vars, stage, supersteps, usageVars, calls, reviewVars, fileVars>>

\* "setup" is initialize_workspace; "node" the graph node that node names;
\* "tools" its tool node; "protocol_retry" reviewer_protocol_retry; "apply"
\* apply_workspace up to its interrupt; "waiting" the interrupt; Transaction the
\* parts of the application, "replace" between the last check of a file and its
\* replacement; "cleanup" cleanup_workspace after a failed preparation; "end"
\* END; "aborted" a raised exception or a cancelled stream.
Transaction == {"approved", "checked", "prepare", "commit", "replace"}
Stage == {"setup", "node", "tools", "protocol_retry", "apply", "waiting",
          "cleanup", "end", "aborted"} \cup Transaction
Stopped == {"waiting", "end", "aborted"}
TightRecursionLimit == MaxAgentSteps + MaxToolCalls + 10   \* mutant of it
RecursionLimit == 3 * MaxAgentSteps + 2 * MaxToolCalls + 10     \* app.py

GraphInit ==
    /\ Init
    /\ stage = "setup" /\ supersteps = 0
    /\ agent_steps = 0 /\ tool_calls = 0 /\ calls = 0
    /\ review_protocol_errors = 0 /\ review_status = "running"
    /\ change_records = 0 /\ latest_test = NoTest /\ reviewed = NoTree
    /\ tree = BaselineTree /\ workspace = "none" /\ shown = NoTree
    /\ source = BaselineTree /\ applied = FALSE
    /\ changed = {} /\ staged = <<>> /\ replaced = {} /\ intrusions = {}

\* One superstep, after which the graph is at next.  The count stops once the
\* recursion limit, at which LangGraph would raise, is exceeded.
Goto(next) ==
    /\ stage' = next
    /\ supersteps' = IF supersteps > RecursionLimit THEN supersteps ELSE supersteps + 1

InitializeWorkspace ==
    /\ stage = "setup" /\ Goto("node")
    /\ workspace' = "exists" /\ tree' = source
    /\ UNCHANGED <<vars, usageVars, calls, reviewVars, shown, source, applied, applyVars>>
-----------------------------------------------------------------------------
(***************************************************************************)
(* Budgets.  tokens is what the token budget says of a model call: "left",  *)
(* "spent" before it, "crossed" by it.                                      *)
(***************************************************************************)
Tokens == {"left", "spent", "crossed"}

\* budget_preflight_reason: the model is not called.
Refused(tokens) == agent_steps >= MaxAgentSteps \/ tokens = "spent"

\* Mutant of Exceeded: the tool calls at hand are not counted.
ExceededAfterwards(n, tokens) ==
    Refused(tokens) \/ tokens = "crossed" \/ tool_calls > MaxToolCalls

\* Mutant of Usage: the node returns the usage of its response, not the sum.
UsageOfResponse(n, tokens) ==
    IF Refused(tokens) THEN UNCHANGED usageVars
    ELSE agent_steps' = 1 /\ tool_calls' = n

\* account_agent_response for a response with n tool calls: what it adds to
\* run_usage and whether it is replaced by a budget notice.
Usage(n, tokens) ==
    IF Refused(tokens) THEN UNCHANGED usageVars
    ELSE agent_steps' = agent_steps + 1 /\ tool_calls' = tool_calls + n
Exceeded(n, tokens) ==
    \/ Refused(tokens) \/ tokens = "crossed"
    \/ tool_calls + n > MaxToolCalls
    \/ agent_steps + 1 >= MaxAgentSteps /\ n > 0

\* invoke_budgeted_agent: tool calls within the budget go to the tool node and
\* set budget_exceeded to FALSE; final stands for what any other response does.
ModelTurn(role, n, tokens, final) ==
    /\ node = role /\ stage = "node"
    /\ Usage(n, tokens)
    /\ IF n > 0 /\ ~Exceeded(n, tokens)
       THEN /\ Goto("tools") /\ calls' = n
            /\ budget_exceeded' = FALSE
            /\ UNCHANGED <<node, planVars, plan_status, active_task_id, taskVars,
                           active_task_write_succeeded, retry_count>>
       ELSE final /\ calls' = 0
    /\ UNCHANGED <<reviewVars, fileVars>>

ArchitectTurn(n, tokens, plan) ==
    ModelTurn("architect", n, tokens,
        /\ Goto("node")
        /\ IF Exceeded(n, tokens) THEN ArchitectExceedsBudget ELSE ArchitectPlans(plan))

DeveloperTurn(n, tokens) ==
    ModelTurn("developer", n, tokens, Goto("node") /\ DeveloperEnds(Exceeded(n, tokens)))
-----------------------------------------------------------------------------
\* The Architect's tools and the Developer's reading tools change nothing.
ToolsRead ==
    /\ node \in {"architect", "developer"} /\ stage = "tools"
    /\ Goto("node") /\ calls' = 0
    /\ UNCHANGED <<vars, usageVars, reviewVars, fileVars>>

\* One write_code_file call: refused or failed before the file was opened,
\* "failed" after it was (the file changes, no change record), or "written".
WriteCall == [file : Files, content : Contents, outcome : {"refused", "failed", "written"}]
Writes(f, ws) == {i \in DOMAIN ws : ws[i].file = f /\ ws[i].outcome # "refused"}

\* The calls of one response run in parallel: of several writes to one file
\* any may be the last.
TreesAfter(ws) ==
    {t \in Trees : \A f \in Files :
        IF Writes(f, ws) = {} THEN t[f] = tree[f]
        ELSE \E i \in Writes(f, ws) : t[f] = ws[i].content}

\* Mutant of RecordChanges: the list is not cut.
RecordChangesUncut(n) ==
    IF n = 0 THEN UNCHANGED <<change_records, latest_test>>
    ELSE change_records' = change_records + n /\ latest_test' = NoTest

\* merge_change_records, and the empty list that clears test_run_records.
RecordChanges(n) ==
    LET total == change_records + n IN
    IF n = 0 THEN UNCHANGED <<change_records, latest_test>>
    ELSE /\ change_records' = IF total > MaxChangeRecords THEN MaxChangeRecords ELSE total
         /\ latest_test' = NoTest

\* Fallback: no plan, no active task, any file.
DeveloperWritesFreely(ws) ==
    /\ node = "developer" /\ stage = "tools" /\ active_task_id = NoTask
    /\ Len(ws) <= calls
    /\ tree' \in TreesAfter(ws)
    /\ RecordChanges(Cardinality({i \in DOMAIN ws : ws[i].outcome = "written"}))
    /\ Goto("node") /\ calls' = 0
    /\ UNCHANGED <<vars, usageVars, review_protocol_errors, review_status, reviewed,
                   workspace, shown, source, applied, applyVars>>

\* Under an active task a call for another file is refused.
DeveloperWritesTaskFile(w) ==
    /\ node = "developer" /\ stage = "tools" /\ active_task_id # NoTask
    /\ w.file # active_task_id => w.outcome = "refused"
    /\ tree' \in TreesAfter(<<w>>)
    /\ RecordChanges(IF w.outcome = "written" THEN 1 ELSE 0)
    /\ DeveloperWrites(IF w.outcome = "refused" THEN written[active_task_id] ELSE w.content,
                       w.outcome = "written")
    /\ Goto("node") /\ calls' = 0
    /\ UNCHANGED <<usageVars, review_protocol_errors, review_status, reviewed,
                   workspace, shown, source, applied, applyVars>>

\* Two write_code_file calls in one response under an active task give the
\* channel active_task_write_succeeded, which has no reducer, two values:
\* LangGraph raises after the calls have changed the file.
DeveloperWritesTwice(content) ==
    /\ node = "developer" /\ stage = "tools" /\ active_task_id # NoTask /\ calls >= 2
    /\ tree' = [tree EXCEPT ![active_task_id] = content]
    /\ NodeRaises
    /\ stage' = "aborted" /\ calls' = 0
    /\ UNCHANGED <<supersteps, usageVars, reviewVars, workspace, shown,
                   source, applied, applyVars>>
-----------------------------------------------------------------------------
(***************************************************************************)
(* The Reviewer and the evidence gate.                                      *)
(***************************************************************************)

\* review_evidence_errors is empty.  passed stands for exit code 0, the
\* success marker and a suite with the behaviour contract; the digest of the
\* change records is abstracted to their number.
Evidence ==
    /\ change_records > 0 /\ latest_test # NoTest
    /\ latest_test.records = change_records
    /\ latest_test.passed /\ latest_test.stable
    /\ workspace = "exists" /\ latest_test.snapshot = tree

\* route_reviewer on a response without tool calls, by its protocol marker.
Markers == {"fail", "success", "none"}
RouteReviewer(marker) ==
    CASE marker = "fail" -> IF RetryLeft THEN "developer_retry" ELSE "finalize_review_failure"
      [] marker = "success" /\ Evidence -> "finalize_review_success"
      [] OTHER -> IF review_protocol_errors < MaxReviewProtocolErrors
                  THEN "reviewer_protocol_retry" ELSE "finalize_review_failure"

ReviewerAnswers(exceeded, marker) ==
    IF ~exceeded /\ RouteReviewer(marker) = "reviewer_protocol_retry"
    THEN /\ Goto("protocol_retry")
         /\ budget_exceeded' = FALSE
         /\ UNCHANGED <<node, planVars, plan_status, active_task_id, taskVars,
                        active_task_write_succeeded, retry_count>>
    ELSE /\ Goto("node")
         /\ ReviewerEnds(exceeded, IF exceeded THEN "finalize_budget_failure"
                                               ELSE RouteReviewer(marker))

ReviewerTurn(n, tokens, marker) ==
    ModelTurn("reviewer", n, tokens, ReviewerAnswers(Exceeded(n, tokens), marker))

ReviewerProtocolRetry ==
    /\ stage = "protocol_retry" /\ Goto("node")
    /\ review_protocol_errors' = review_protocol_errors + 1
    /\ UNCHANGED <<vars, usageVars, calls, review_status, change_records, latest_test,
                   reviewed, fileVars>>

\* run_unit_tests.  The tests run in the workspace and may leave it as after;
\* a record of tests that could not be run or timed out is not stable.
\* Calls of one response run in parallel: the last record may start from what
\* another one left, and see a change that is not its own or miss it.
ReviewerTests(after, record) ==
    /\ node = "reviewer" /\ stage = "tools"
    /\ record.records = change_records
    /\ record.passed => record.stable
    /\ IF calls = 1
       THEN record.snapshot = tree /\ (record.stable => after = tree)
       ELSE record.snapshot \in {tree, after}
    /\ tree' = after /\ latest_test' = record
    /\ Goto("node") /\ calls' = 0
    /\ UNCHANGED <<vars, usageVars, review_protocol_errors, review_status, change_records,
                   reviewed, workspace, shown,
                   source, applied, applyVars>>
-----------------------------------------------------------------------------
\* The nodes without a model call before the workspace is prepared.
ControlNode ==
    /\ stage = "node" /\ Goto("node")
    /\ \/ ScheduleTask \/ ScheduleNothing \/ CompleteTask \/ FailTask
       \/ \E reply \in SUBSET (Tasks \cup {MaxPlanTasks + 1}) : DeveloperRetry(reply)
    /\ UNCHANGED <<usageVars, calls, reviewVars, fileVars>>

FinalizeAsFailed ==
    /\ stage = "node" /\ FinalizeFailure /\ Goto("node")
    /\ review_status' = "failed"
    /\ UNCHANGED <<usageVars, calls, review_protocol_errors, change_records, latest_test,
                   reviewed, fileVars>>

\* finalize_review_success_node checks the evidence again, and whatever it
\* finds the preparation follows.
FinalizeAsSuccess ==
    /\ stage = "node" /\ FinalizeReviewSuccess /\ Goto("node")
    /\ IF Evidence
       THEN review_status' = "success" /\ reviewed' = latest_test.snapshot
       ELSE review_status' = "failed" /\ reviewed' = NoTree
    /\ UNCHANGED <<usageVars, calls, review_protocol_errors, change_records, latest_test,
                   fileVars>>

\* prepare_workspace_approval_node: evidence and a change to show, or failure
\* (the diff may also be too large or touch protected files).
PrepareApproval(success) ==
    /\ node = "prepare_workspace_approval" /\ stage = "node"
    /\ success => Evidence /\ tree # BaselineTree
    /\ IF success
       THEN shown' = tree /\ Goto("apply") /\ UNCHANGED <<review_status, workspace>>
       ELSE /\ review_status' = "failed" /\ workspace' = "gone" /\ Goto("cleanup")
            /\ UNCHANGED shown
    /\ UNCHANGED <<vars, usageVars, calls, review_protocol_errors, change_records,
                   latest_test, reviewed, tree, source, applied, applyVars>>

\* Mutant of Remove: only a failed run gives its workspace back.
RemoveOfFailedRun ==
    workspace' \in IF review_status = "failed" THEN {"gone", "left"} ELSE {workspace}

\* cleanup_workspace_node; rmtree may fail, which workspace_error records.
Remove == workspace' \in {"gone", "left"}

CleanupWorkspace ==
    /\ stage = "cleanup" \/ (node = "cleanup_workspace" /\ stage = "node")
    /\ Goto("end") /\ Remove
    /\ UNCHANGED <<vars, usageVars, calls, reviewVars, tree, shown, source, applied,
                   applyVars>>
-----------------------------------------------------------------------------
\* apply_workspace_changes_node up to interrupt(): the run is suspended.
Suspend ==
    /\ stage = "apply" /\ Goto("waiting")
    /\ UNCHANGED <<vars, usageVars, calls, reviewVars, fileVars>>

\* Mutant of RejectChanges: the status of the review stands.
RejectChangesQuietly ==
    /\ stage = "waiting" /\ stage' = "end" /\ supersteps' = 1
    /\ Remove
    /\ UNCHANGED <<vars, usageVars, calls, reviewVars, tree, shown, source, applied,
                   applyVars>>

\* The user rejects; stream() is called anew, with a recursion limit of its own.
RejectChanges ==
    /\ stage = "waiting" /\ stage' = "end" /\ supersteps' = 1
    /\ Remove /\ review_status' = "failed"
    /\ UNCHANGED <<vars, usageVars, calls, review_protocol_errors, change_records,
                   latest_test, reviewed, tree, shown, source, applied, applyVars>>
-----------------------------------------------------------------------------
(***************************************************************************)
(* The application, loop by loop; the files come in an order left open.     *)
(* ApplyTransaction has its rollback and its temporary files in detail.     *)
(***************************************************************************)
ApproveChanges ==
    /\ stage = "waiting" /\ stage' = "approved" /\ supersteps' = 1
    /\ UNCHANGED <<vars, usageVars, calls, reviewVars, fileVars>>

\* The working copy is what was reviewed and shown ...
CheckWorkspace ==
    /\ stage = "approved" /\ stage' = "checked"
    /\ workspace = "exists" /\ tree = shown /\ tree = reviewed
    /\ UNCHANGED <<vars, supersteps, usageVars, calls, reviewVars, fileVars>>

\* ... and the source is the baseline; the list of files to change is made.
CheckSource ==
    /\ stage = "checked" /\ source = BaselineTree
    /\ changed' = {f \in Files : tree[f] # Baseline}
    /\ stage' = IF changed' = {} THEN "commit" ELSE "prepare"
    /\ UNCHANGED <<vars, supersteps, usageVars, calls, reviewVars, tree, workspace, shown,
                   source, applied, staged, replaced, intrusions>>

At(files) == CHOOSE f \in files : TRUE
Unprepared == changed \ DOMAIN staged
Pending == changed \ replaced

\* The new content and the backup of the file at hand are read anew.
PrepareFile ==
    LET done == DOMAIN staged \cup {At(Unprepared)} IN
    /\ stage = "prepare"
    /\ staged' = [f \in done |-> IF f \in DOMAIN staged THEN staged[f]
                                 ELSE [prepared |-> tree[f], backup |-> source[f]]]
    /\ stage' = IF changed \subseteq done THEN "commit" ELSE "prepare"
    /\ UNCHANGED <<vars, supersteps, usageVars, calls, reviewVars, tree, workspace, shown,
                   source, applied, changed, replaced, intrusions>>

\* Mutant of CheckTarget: the comparison of the whole source is relied on.
TrustTarget ==
    /\ stage = "commit" /\ Pending # {} /\ stage' = "replace"
    /\ UNCHANGED <<vars, supersteps, usageVars, calls, reviewVars, fileVars>>

\* Right before it is replaced a file is compared with the baseline again.
CheckTarget ==
    /\ stage = "commit" /\ Pending # {} /\ stage' = "replace"
    /\ source[At(Pending)] = Baseline
    /\ UNCHANGED <<vars, supersteps, usageVars, calls, reviewVars, fileVars>>

ReplaceFile ==
    LET f == At(Pending) IN
    /\ stage = "replace" /\ stage' = "commit"
    /\ source' = [source EXCEPT ![f] = staged[f].prepared]
    /\ replaced' = replaced \cup {f}
    /\ UNCHANGED <<vars, supersteps, usageVars, calls, reviewVars, tree, workspace, shown,
                   applied, changed, staged, intrusions>>

ApplicationEnds ==
    /\ stage = "commit" /\ Pending = {} /\ stage' = "end"
    /\ applied' = TRUE /\ review_status' = "success"
    /\ Remove
    /\ UNCHANGED <<vars, supersteps, usageVars, calls, review_protocol_errors, change_records,
                   latest_test, reviewed, tree, shown, source, applyVars>>

\* Something raises, at any point, the clean-up after the last replacement
\* included.  Of the files replaced the rollback leaves those in kept.
ApplyFails(kept) ==
    /\ stage \in Transaction /\ stage' = "end"
    /\ kept \subseteq replaced /\ replaced' = kept
    /\ source' = [f \in Files |->
                    IF f \in replaced \ kept THEN staged[f].backup ELSE source[f]]
    /\ review_status' = "failed"
    /\ Remove
    /\ UNCHANGED <<vars, supersteps, usageVars, calls, review_protocol_errors, change_records,
                   latest_test, reviewed, tree, shown, applied, changed, staged, intrusions>>

Apply ==
    \/ CheckWorkspace \/ CheckSource \/ PrepareFile \/ CheckTarget \/ ReplaceFile
    \/ ApplicationEnds \/ \E kept \in SUBSET Files : ApplyFails(kept)
-----------------------------------------------------------------------------
\* A node raises, or the cancelled stream takes no further step; a node that
\* applies a change catches what it raises and is not interrupted.
Abort ==
    /\ stage \notin Stopped \cup Transaction /\ stage' = "aborted" /\ calls' = 0
    /\ NodeRaises \/ (node \in EndNode /\ UNCHANGED vars)
    /\ UNCHANGED <<supersteps, usageVars, reviewVars, fileVars>>

\* A file of the working copy has been compared and is yet to be read.
ReadWindow(f) == stage = "checked" \/ (stage = "prepare" /\ f \in Unprepared)

Intrude(f, when) ==
    intrusions' = intrusions \cup {<<f, when>>} /\ Cardinality(intrusions') <= MaxIntrusions

\* Something outside the graph changes the workspace after the review ...
TamperTree(f, content) ==
    /\ \/ stage \in {"apply", "waiting"} \cup Transaction
       \/ stage = "node" /\ node \in {"finalize_review_success", "prepare_workspace_approval"}
    /\ tree' = [tree EXCEPT ![f] = content]
    /\ Intrude(f, IF ReadWindow(f) THEN "read" ELSE "other")
    /\ UNCHANGED <<vars, stage, supersteps, usageVars, calls, reviewVars, workspace,
                   shown, source, applied, changed, staged, replaced>>

\* ... or the user edits a file of the source.  Only the apply step looks, so
\* the edits of the whole run are taken from the time it waits.
EditSource(f, content) ==
    /\ stage \in {"waiting"} \cup Transaction
    /\ source' = [source EXCEPT ![f] = content]
    /\ Intrude(f, IF stage = "replace" /\ f = At(Pending) THEN "replace" ELSE "other")
    /\ UNCHANGED <<vars, stage, supersteps, usageVars, calls, reviewVars, tree,
                   workspace, shown, applied, changed, staged, replaced>>

Resting == stage \in {"end", "aborted"} /\ UNCHANGED gvars

ToolNode ==
    \/ ToolsRead
    \/ \E ws \in UNION {[1 .. k -> WriteCall] : k \in 1 .. MaxCallsPerTurn} :
         DeveloperWritesFreely(ws)
    \/ \E w \in WriteCall : DeveloperWritesTaskFile(w)
    \/ \E after \in Trees, record \in Tests : ReviewerTests(after, record)

ModelNode ==
    \E n \in 0 .. MaxCallsPerTurn, tokens \in Tokens :
        \/ \E plan \in Plans \cup {NoPlan} : ArchitectTurn(n, tokens, plan)
        \/ DeveloperTurn(n, tokens)
        \/ \E marker \in Markers : ReviewerTurn(n, tokens, marker)

GraphNode ==
    \/ InitializeWorkspace \/ ModelNode \/ ToolNode
    \/ ControlNode \/ ReviewerProtocolRetry
    \/ FinalizeAsFailed \/ FinalizeAsSuccess
    \/ \E success \in BOOLEAN : PrepareApproval(success)
    \/ CleanupWorkspace \/ Suspend \/ Apply

GraphNext ==
    \/ GraphNode
    \/ \E content \in Contents : DeveloperWritesTwice(content)
    \/ RejectChanges \/ ApproveChanges
    \/ Abort \/ Resting
    \/ \E f \in Files, content \in Contents : TamperTree(f, content) \/ EditSource(f, content)

\* LangGraph runs the next node as soon as the last one is done; a model call
\* ends, by its time-out at the latest.  The user owes no decision.
GraphSpec == GraphInit /\ [][GraphNext]_gvars /\ WF_gvars(GraphNode)
-----------------------------------------------------------------------------
GraphTypes ==
    /\ stage \in Stage
    /\ supersteps \in Nat
    /\ agent_steps \in 0 .. MaxAgentSteps
    /\ tool_calls \in 0 .. MaxToolCalls + MaxCallsPerTurn
    /\ calls \in 0 .. MaxCallsPerTurn /\ (stage = "tools" <=> calls > 0)
    /\ review_protocol_errors \in 0 .. MaxReviewProtocolErrors
    /\ review_status \in {"running", "success", "failed"}
    /\ change_records \in 0 .. MaxChangeRecords
    /\ latest_test \in Tests \cup {NoTest}
    /\ reviewed \in Trees \cup {NoTree} /\ shown \in Trees \cup {NoTree}
    /\ tree \in Trees /\ source \in Trees
    /\ workspace \in {"none", "exists", "gone", "left"}
    /\ applied \in BOOLEAN

TransactionTypes ==
    /\ changed \subseteq Files
    /\ staged \in [DOMAIN staged -> [prepared : Contents, backup : Contents]]
    /\ DOMAIN staged \subseteq changed /\ replaced \subseteq DOMAIN staged
    /\ intrusions \subseteq Files \X {"read", "replace", "other"}

GraphTypeOK == GraphTypes /\ TransactionTypes

\* A write in a window is the only way past the checks.  A file of the source
\* is replaced only while it is as in the baseline, by the content that the last
\* test run passed on, the review accepted and the user was shown, of a plan
\* carried out as a whole, unless that very file was written between its last
\* comparison and its replacement (source), or between the comparison of the
\* working copy and the reading of the file (workspace).  And when the change
\* counts as applied, no file that was shown as changed is left out, and none
\* that was not shown is in.
AppliedAsReviewed ==
    [][/\ stage = "replace" /\ stage' = "commit" =>
            LET f == At(Pending) IN
            /\ source[f] = Baseline \/ <<f, "replace">> \in intrusions
            /\ source'[f] = shown[f] \/ <<f, "read">> \in intrusions
            /\ shown = latest_test.snapshot /\ latest_test.passed /\ latest_test.stable
            /\ refactor_plan # NoPlan => completed_task_ids = Tasks
       /\ applied' # applied =>
            \A f \in Files : <<f, "read">> \notin intrusions =>
                (f \in replaced <=> shown[f] # Baseline)]_gvars

\* review_status, which is set to success before the approval, is success at
\* END only if the change was applied, and then no file of it was left out or
\* put back.  A failure does not say that every file was put back.
OutcomeHonest ==
    stage = "end" =>
        /\ review_status = "success" <=> applied
        /\ applied => replaced = changed

\* app.py: the business budgets end a run before the recursion limit does.
BudgetsBeforeRecursionLimit == supersteps <= RecursionLimit

\* A tool runs only within the budget, and with a model step left to answer it.
ToolsWithinBudget ==
    stage = "tools" => tool_calls <= MaxToolCalls /\ agent_steps < MaxAgentSteps

\* The workspace is there from the first node to the approval, and no way to
\* END forgets it (a failed removal is reported).
WorkspaceHeld ==
    /\ stage \in {"tools", "protocol_retry", "apply", "waiting"} \cup Transaction =>
         workspace = "exists"
    /\ stage = "node" /\ node \notin EndNode => workspace = "exists"
    /\ stage = "end" => workspace \in {"gone", "left"}

\* A run comes to END, is aborted or waits for the user, and so it does again
\* once the user has approved: retries, protocol retries and tool loops all end.
RunSettles == (stage \notin Stopped) ~> (stage \in Stopped)

-----------------------------------------------------------------------------
(***************************************************************************)
(* The inductive invariant: what a stage may count on.                      *)
(***************************************************************************)
RoleNode == {"architect", "developer", "reviewer"}

StageContext ==
    /\ stage = "setup" => node = "architect" /\ supersteps = 0
    /\ stage = "tools" => node \in RoleNode
    /\ stage = "protocol_retry" =>
         node = "reviewer" /\ review_protocol_errors < MaxReviewProtocolErrors
    /\ stage \in {"apply", "waiting", "cleanup"} \cup Transaction =>
         node = "prepare_workspace_approval"
    /\ stage = "node" => node # "raised"
    /\ stage = "end" => node \in {"prepare_workspace_approval", "cleanup_workspace"}

\* Once the budget is exceeded no model is called and no task scheduled.
BudgetStops ==
    /\ node \in RoleNode => ~budget_exceeded /\ tool_calls <= MaxToolCalls
    /\ node \in {"developer_retry", "finalize_review_success", "prepare_workspace_approval"} =>
         ~budget_exceeded
    /\ node = "schedule_task" /\ budget_exceeded => plan_status = "failed"
    /\ node \in {"schedule_task", "complete_task", "developer_retry"} /\ ~budget_exceeded =>
         tool_calls <= MaxToolCalls

ReviewContext ==
    /\ review_status = "success" => node = "prepare_workspace_approval"
    /\ node = "cleanup_workspace" \/ stage = "cleanup" => review_status = "failed"
    /\ applied => stage = "end" /\ review_status = "success"
    /\ reviewed # NoTree =>
         /\ node = "prepare_workspace_approval"
         /\ latest_test # NoTest /\ latest_test.passed /\ latest_test.stable
         /\ latest_test.snapshot = reviewed

\* A model call is paid for with three supersteps, itself included; the one the
\* budget refuses, and the way to END after it, are what the limit has left.
StepsPaid(slack) == supersteps <= 3 * agent_steps + slack
SuperstepBudget ==
    /\ stage \in {"tools", "protocol_retry"} => StepsPaid(-1)
    /\ stage = "node" =>
         /\ node \in RoleNode => StepsPaid(1)
         /\ node \in {"complete_task", "developer_retry"} =>
              StepsPaid(IF budget_exceeded THEN 2 ELSE -1)
         /\ node = "schedule_task" => StepsPaid(IF budget_exceeded THEN 3 ELSE 0)
         /\ node \in FinalizeNode => StepsPaid(IF budget_exceeded THEN 4 ELSE 1)
         /\ node = "finalize_review_success" => StepsPaid(-1)
         /\ node = "prepare_workspace_approval" => StepsPaid(0)
         /\ node = "cleanup_workspace" => StepsPaid(5)
    /\ stage = "apply" => StepsPaid(1)
    /\ stage \in {"waiting", "cleanup"} \cup Transaction => StepsPaid(2)
    /\ stage \in {"end", "aborted"} => StepsPaid(6)

\* Outside the transaction nothing is staged.  Inside it what was not written in
\* a window is what was shown.
Underway == Transaction \ {"approved"}
TransactionContext ==
    /\ stage \notin Underway \cup {"end"} =>
         /\ changed = {} /\ staged = <<>> /\ replaced = {}
         /\ \A f \in Files : <<f, "read">> \notin intrusions
    /\ stage \in {"checked", "prepare"} => replaced = {}
    /\ stage = "checked" => changed = {}
    /\ stage = "prepare" => Unprepared # {}
    /\ stage \in {"commit", "replace"} => Unprepared = {}
    /\ stage = "replace" =>
         /\ Pending # {}
         /\ source[At(Pending)] = Baseline \/ <<At(Pending), "replace">> \in intrusions
    /\ stage \in Underway =>
         /\ reviewed # NoTree /\ shown = reviewed
         /\ \A f \in Files : <<f, "read">> \notin intrusions =>
              /\ ReadWindow(f) => tree[f] = shown[f]
              /\ f \in DOMAIN staged => staged[f].prepared = shown[f]
              /\ stage # "checked" => (f \in changed <=> shown[f] # Baseline)

ControlInv ==
    /\ StageContext /\ BudgetStops /\ ReviewContext /\ SuperstepBudget
    /\ OutcomeHonest /\ ToolsWithinBudget /\ WorkspaceHeld
=============================================================================
