-------------------------- MODULE RunStatusRegistry --------------------------
(***************************************************************************)
(* The status a client can poll for each run (backend/agent/run_status.py).*)
(* The times of the records are left out: a record may be dropped at any   *)
(* time, by its own time-out or because others fill the registry.          *)
(***************************************************************************)
EXTENDS SessionRegistry

VARIABLE status         \* of each run: its snapshot, or None

LifecycleStatus == {"running", "waiting_for_hitl", "cancelling", "cleanup_pending",
                    "cleanup_completed", "cleanup_failed", "completed", "failed"}
Snapshot == [lifecycle : LifecycleStatus,
             terminal : {"none", "completed", "failed"},
             retained : BOOLEAN]

StatusInit == status = [run \in Requests |-> None]

\* A new snapshot, also for a run that has one.
StartStatus(run) ==
    status' = [status EXCEPT
        ![run] = [lifecycle |-> "running", terminal |-> "none", retained |-> FALSE]]

\* update sets the fields it is given, of a record that is still there.
Update(run, lifecycle, terminal, retained) ==
    status' = [status EXCEPT
        ![run] = IF @ = None THEN @
                 ELSE [lifecycle |-> lifecycle, terminal |-> terminal, retained |-> retained]]

UpdateLifecycle(run, lifecycle) ==
    Update(run, lifecycle, status[run].terminal, status[run].retained)

UpdateTerminal(run, lifecycle, terminal) ==
    Update(run, lifecycle, terminal, status[run].retained)

UpdateWaiting(run) == Update(run, "waiting_for_hitl", status[run].terminal, TRUE)

\* _prune.
DropStatus(run) == status[run] # None /\ status' = [status EXCEPT ![run] = None]
=============================================================================
