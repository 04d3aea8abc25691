---------------------------- MODULE RunLifecycle ----------------------------
(***************************************************************************)
(* What becomes of the resources of a run when its stream ends             *)
(* (backend/agent/run_lifecycle.py): the producer thread is asked to stop   *)
(* and waited for, then the credential, the checkpoint, the lease and the  *)
(* workspace are given back, or all but the credential kept for the        *)
(* approval.  Each stream has a RunLifecycle object, named by its request; *)
(* the request that resumes a run has another one for the same run.        *)
(*                                                                         *)
(* An await is a step boundary: cleanup says where the coroutine is.       *)
(***************************************************************************)
EXTENDS RunStatusRegistry, CredentialVault, Naturals

CONSTANT MaxFaults      \* bound: releases that raise, records that expire

VARIABLES
    lifecycle,          \* of each request: its object, see Lifecycle
    active_runs,        \* ActiveRunRegistry: of each run the object, or None
    producer,           \* of each request: where its producer thread is
    checkpoint,         \* of the session's thread, see Checkpoint, or None
    workspaces,         \* the workspaces on disk, named by the creating request
    faults              \* releases that have raised, records that have expired

resourceVars == <<session, vault, checkpoint, workspaces, faults>>

\* "waiting": for the producer; "deferred": for the producer, after the
\* time-out; then the resource to release next; "reporting"; "done".
CleanupStep == {"none", "waiting", "deferred", "releasing", "checkpoint", "lease",
                "workspace", "reporting", "done"}
Resource == {"credential", "checkpoint", "lease", "workspace"}

\* Several terminations share a value: "left" is a disconnect, a cancellation
\* or a closed generator, "failed" also a spent budget or a failed recovery.
Termination == {"completed", "failed", "left", "hitl_paused", "service_shutdown"}

Retention == [workspace : Requests, approval : Requests]
Lifecycle ==
    [cleanup : CleanupStep,
     stop_requested : BOOLEAN,
     workspace : Requests \cup {None},
     hitl_retention : Retention \cup {None},
     reason : Termination,
     retain_for_hitl : BOOLEAN,            \* argument of cleanup
     released : SUBSET Resource,           \* the flags of _run_once
     errors : SUBSET (Resource \cup {"discovery", "retention"}),
     producer_timed_out : BOOLEAN,
     workspace_retained : BOOLEAN, cleanup_complete : BOOLEAN]

Checkpoint == [workspace : Requests,
               shows : {"running", "interrupted", "success", "failed"}]

\* None is no checkpoint.
ASSUME NoCheckpoint == None \notin Checkpoint

NewLifecycle ==
    [cleanup |-> "none", stop_requested |-> FALSE, workspace |-> None,
     hitl_retention |-> None, reason |-> "left", retain_for_hitl |-> FALSE,
     released |-> {}, errors |-> {}, producer_timed_out |-> FALSE,
     workspace_retained |-> FALSE, cleanup_complete |-> FALSE]

LifecycleInit ==
    /\ SessionInit /\ StatusInit /\ VaultInit
    /\ lifecycle = [q \in Requests |-> NewLifecycle]
    /\ active_runs = [run \in Requests |-> None]
    /\ producer = [q \in Requests |-> "none"]
    /\ checkpoint = None /\ workspaces = {} /\ faults = 0

Fault == faults < MaxFaults /\ faults' = faults + 1

ProducerAlive(q) == producer[q] \notin {"none", "dead"}

\* The constructor, and active_runs.register, which replaces the object that an
\* earlier request of the run has left there.
CreateLifecycle(q, run) ==
    /\ StartStatus(run)
    /\ active_runs' = [active_runs EXCEPT ![run] = q]
    /\ lifecycle' = [lifecycle EXCEPT ![q] = NewLifecycle]

Unregister(q, run) ==
    active_runs' = IF active_runs[run] = q THEN [active_runs EXCEPT ![run] = None]
                   ELSE active_runs
-----------------------------------------------------------------------------
\* The object as cleanup, and _cleanup_impl up to the wait, leave it.
CleaningFor(q, reason, retain) ==
    [lifecycle[q] EXCEPT
       !.cleanup = "waiting", !.stop_requested = TRUE,
       !.reason = reason, !.retain_for_hitl = retain,
       !.errors = {}, !.producer_timed_out = FALSE,
       !.workspace_retained = FALSE, !.cleanup_complete = FALSE]

BeginCleanup(q, run, reason, retain) ==
    /\ lifecycle' = [lifecycle EXCEPT ![q] = CleaningFor(q, reason, retain)]
    /\ UpdateLifecycle(run, "cancelling")

\* A cleanup that is done is repeated by another call only if it kept the run
\* for an approval, or was incomplete for another reason than the time-out.
Repeats(q) ==
    /\ lifecycle[q].cleanup = "done"
    /\ \/ lifecycle[q].workspace_retained
       \/ ~lifecycle[q].cleanup_complete /\ ~lifecycle[q].producer_timed_out

\* Mutant of JoinProducer: the thread is asked to stop, not waited for.
AbandonProducer(q) ==
    /\ lifecycle[q].cleanup = "waiting"
    /\ lifecycle' = [lifecycle EXCEPT ![q].cleanup = "releasing"]
    /\ UNCHANGED <<status, active_runs, producer, resourceVars>>

JoinProducer(q) ==
    /\ lifecycle[q].cleanup = "waiting" /\ ~ProducerAlive(q)
    /\ lifecycle' = [lifecycle EXCEPT ![q].cleanup = "releasing"]
    /\ UNCHANGED <<status, active_runs, producer, resourceVars>>

\* What may take the producer longer than the five seconds it is given: the
\* graph, and the snapshot of the workspace before the approval.
Slow == {"streaming", "approving"}

ProducerTimesOut(q, run) ==
    /\ lifecycle[q].cleanup = "waiting" /\ producer[q] \in Slow
    /\ lifecycle' = [lifecycle EXCEPT ![q].cleanup = "deferred",
                                                ![q].producer_timed_out = TRUE]
    /\ UpdateLifecycle(run, "cleanup_pending")
    /\ UNCHANGED <<active_runs, producer, resourceVars>>

\* _finish_after_producer, which keeps nothing for an approval.
JoinDeferred(q) ==
    /\ lifecycle[q].cleanup = "deferred" /\ ~ProducerAlive(q)
    /\ lifecycle' = [lifecycle EXCEPT
         ![q].cleanup = "releasing", ![q].retain_for_hitl = FALSE]
    /\ UNCHANGED <<status, active_runs, producer, resourceVars>>
-----------------------------------------------------------------------------
(***************************************************************************)
(* _release_owned_resources.                                                *)
(***************************************************************************)

\* The workspace is taken from the checkpoint if the producer has not said it.
Discovered(q) ==
    IF lifecycle[q].workspace = None /\ checkpoint # None THEN checkpoint.workspace
    ELSE lifecycle[q].workspace

ValidRetention(q, workspace) ==
    /\ lifecycle[q].retain_for_hitl
    /\ lifecycle[q].hitl_retention # None
    /\ lifecycle[q].hitl_retention.workspace = workspace

RevokeCredential(q, run) ==
    /\ lifecycle[q].cleanup = "releasing"
    /\ Revoke(q)
    /\ LET workspace == Discovered(q)
           retained == ValidRetention(q, workspace) IN
       /\ lifecycle' = [lifecycle EXCEPT
            ![q].workspace = workspace,
            ![q].released = @ \cup {"credential"},
            ![q].workspace_retained = retained,
            ![q].cleanup_complete = retained,
            ![q].cleanup = IF retained THEN "done" ELSE "checkpoint",
            ![q].errors = IF lifecycle[q].retain_for_hitl /\ ~retained
                          THEN {"retention"} ELSE {}]
       /\ IF retained THEN UpdateWaiting(run) ELSE UNCHANGED status
    /\ UNCHANGED <<active_runs, producer, session, checkpoint, workspaces, faults>>

\* The checkpoint cannot be read: the workspace stays unknown.
DiscoveryRaises(q) ==
    /\ lifecycle[q].cleanup = "releasing" /\ lifecycle[q].workspace = None
    /\ Fault
    /\ Revoke(q)
    /\ lifecycle' = [lifecycle EXCEPT
         ![q].released = @ \cup {"credential"},
         ![q].cleanup = "checkpoint",
         ![q].errors = IF lifecycle[q].retain_for_hitl THEN {"discovery", "retention"}
                       ELSE {"discovery"}]
    /\ UNCHANGED <<status, active_runs, producer, session, checkpoint, workspaces>>

\* _run_once: done once; what raises is recorded and the next one is tried.
Released(q, resource, next) ==
    lifecycle' = [lifecycle EXCEPT
        ![q].cleanup = next, ![q].released = @ \cup {resource}]

Raises(q, resource, next) ==
    /\ Fault
    /\ resource \notin lifecycle[q].released
    /\ lifecycle' = [lifecycle EXCEPT
         ![q].cleanup = next, ![q].errors = @ \cup {resource}]

DeleteCheckpoint(q) ==
    /\ lifecycle[q].cleanup = "checkpoint"
    /\ \/ /\ Released(q, "checkpoint", "lease")
          /\ checkpoint' = IF "checkpoint" \in lifecycle[q].released THEN checkpoint ELSE None
          /\ UNCHANGED faults
       \/ Raises(q, "checkpoint", "lease") /\ UNCHANGED checkpoint
    /\ UNCHANGED <<status, active_runs, producer, session, vault, workspaces>>

\* finish_owned_run cannot raise; that it finds another run is not looked at.
ReleaseLease(q, run) ==
    /\ lifecycle[q].cleanup = "lease"
    /\ Released(q, "lease", "workspace")
    /\ IF "lease" \in lifecycle[q].released THEN UNCHANGED session ELSE FinishOwnedRun(run)
    /\ UNCHANGED <<status, active_runs, producer, vault, checkpoint, workspaces, faults>>

\* No workspace is a workspace deleted.
DeleteWorkspace(q) ==
    /\ lifecycle[q].cleanup = "workspace"
    /\ \/ /\ Released(q, "workspace", "reporting")
          /\ workspaces' = IF "workspace" \in lifecycle[q].released THEN workspaces
                           ELSE workspaces \ {lifecycle[q].workspace}
          /\ UNCHANGED faults
       \/ /\ lifecycle[q].workspace # None
          /\ Raises(q, "workspace", "reporting") /\ UNCHANGED workspaces
    /\ UNCHANGED <<status, active_runs, producer, session, vault, checkpoint>>

\* Of a complete cleanup only what still matters is kept in the model.
Finished(q) ==
    [NewLifecycle EXCEPT !.cleanup = "done", !.stop_requested = TRUE,
                         !.workspace = lifecycle[q].workspace,
                         !.released = Resource, !.cleanup_complete = TRUE]

ReportCleanup(q, run) ==
    /\ lifecycle[q].cleanup = "reporting"
    /\ LET complete == lifecycle[q].errors = {} IN
       /\ lifecycle' = [lifecycle EXCEPT
            ![q] = IF complete THEN Finished(q) ELSE [@ EXCEPT !.cleanup = "done"]]
       /\ IF complete THEN Unregister(q, run) ELSE UNCHANGED active_runs
       /\ Update(run, IF complete THEN "cleanup_completed" ELSE "cleanup_failed",
                 IF complete /\ lifecycle[q].reason = "completed" THEN "completed" ELSE "failed",
                 FALSE)
    /\ UNCHANGED <<producer, resourceVars>>

CleanupProceeds(q, run) ==
    \/ JoinProducer(q) \/ JoinDeferred(q) \/ RevokeCredential(q, run)
    \/ DiscoveryRaises(q) \/ DeleteCheckpoint(q) \/ ReleaseLease(q, run) \/ DeleteWorkspace(q)
    \/ ReportCleanup(q, run)
=============================================================================
