---------------------------- MODULE StreamService ----------------------------
(***************************************************************************)
(* The requests of one session to /api/refactor/stream (backend/app.py),   *)
(* each with the thread that runs the graph (produce_events), the          *)
(* coroutine that sends its events (event_generator) and the RunLifecycle  *)
(* that gives back what the run holds, beside the user who answers the     *)
(* approvals, leaves, and sends the next request.                          *)
(*                                                                         *)
(* The graph itself is AgentGraph; here it is what it leaves behind: a     *)
(* checkpoint that waits for the approval or tells how the run ended, the  *)
(* workspace, and the user's source, changed or not.                       *)
(***************************************************************************)
EXTENDS RunLifecycle, Sequences, FiniteSets

VARIABLES
    request,        \* of each request: its handler's and generator's locals
    queue,          \* of each request: event_queue
    known,          \* the approvals the user has been told of
    approved,       \* history: the workspaces whose change the user has approved
    applied,        \* history: the workspaces whose change is in the source
    overtaken,      \* history: the runs resumed before the cleanup of the
                    \* request that suspended them was done
    down            \* the service has shut down

historyVars == <<approved, applied, overtaken>>
cleanupVars == <<status, lifecycle, active_runs, producer, resourceVars>>
svars == <<cleanupVars, request, queue, known, historyVars, down>>

\* "admitted": authorized, the credential stored; "beginning": there is no
\* decision to consume; "accepted": the response is returned; "serving": the
\* generator runs; "leaving": its finally; "done": cleanup is called.  A "lost"
\* request has a response whose generator never runs, or raised in the handler.
Phase == {"new", "admitted", "beginning", "accepted", "serving", "leaving", "done",
          "refused", "lost"}
Request == [phase : Phase,
            run : Requests \cup {None},
            resume_value : Verdicts \cup {"none"},
            approval : Requests \cup {None},        \* approval_id
            graph : [workspace : Requests, resumed : BOOLEAN] \cup {None},
            termination : Termination,
            hitl_retained : BOOLEAN,
            stream_failed : BOOLEAN]
NewRequest == [phase |-> "new", run |-> None, resume_value |-> "none",
               approval |-> None, graph |-> None, termination |-> "left",
               hitl_retained |-> FALSE, stream_failed |-> FALSE]

\* Where produce_events is: before and in stream_refactor, after it, then on
\* the way to the approval or to the report of the outcome.
ProducerStep == {"none", "starting", "streaming", "streamed", "suspended", "approving",
                 "retaining", "announcing", "succeeded", "failing", "finishing", "dead"}

\* The events of the graph and of its outcome change nothing and are left out.
Event == {"approval.waiting", "producer_finished"}

Run(q) == request[q].run

ServiceInit ==
    /\ LifecycleInit
    /\ request = [q \in Requests |-> NewRequest]
    /\ queue = [q \in Requests |-> <<>>]
    /\ known = {}
    /\ approved = {} /\ applied = {} /\ overtaken = {}
    /\ down = FALSE

To(q, phase) == request' = [request EXCEPT ![q].phase = phase]
-----------------------------------------------------------------------------
(***************************************************************************)
(* refactor_code_stream, the handler.                                       *)
(***************************************************************************)

Admit(q) ==
    /\ request[q].phase = "new" /\ ~down /\ Open
    /\ \A p \in Requests : p < q => request[p].phase # "new"
    /\ To(q, "admitted") /\ Store(q)
    /\ UNCHANGED <<status, lifecycle, active_runs, producer, session, checkpoint,
                   workspaces, faults, queue, known, historyVars, down>>

\* The former request of the run is still busy with it.
Overtakes(run) ==
    \E p \in Requests :
        /\ Run(p) = run
        /\ \/ request[p].phase \in {"serving", "leaving"}
           \/ lifecycle[p].cleanup \notin {"none", "done"}

ResumeRun(q, run, verdict) ==
    /\ request[q].phase = "admitted"
    /\ ConsumeDecision(run, verdict)
    /\ request' = [request EXCEPT ![q].phase = "accepted", ![q].run = run,
                                  ![q].resume_value = verdict]
    /\ overtaken' = IF Overtakes(run) THEN overtaken \cup {run} ELSE overtaken
    /\ UNCHANGED <<status, lifecycle, active_runs, producer, vault, checkpoint,
                   workspaces, faults, queue, known, approved, applied, down>>

NothingToResume(q) ==
    /\ request[q].phase = "admitted" /\ Open /\ ~Decided
    /\ To(q, "beginning")
    /\ UNCHANGED <<cleanupVars, queue, known, historyVars, down>>

BeginNewRun(q) ==
    /\ request[q].phase = "beginning"
    /\ BeginRun(q)
    /\ request' = [request EXCEPT ![q].phase = "accepted", ![q].run = q]
    /\ UNCHANGED <<status, lifecycle, active_runs, producer, vault, checkpoint,
                   workspaces, faults, queue, known, historyVars, down>>

\* RunStateError: 409.
RefuseRun(q) ==
    /\ request[q].phase = "beginning" /\ Open /\ session.active_run # None
    /\ To(q, "refused") /\ Revoke(q)
    /\ UNCHANGED <<status, lifecycle, active_runs, producer, session, checkpoint,
                   workspaces, faults, queue, known, historyVars, down>>

\* The session is pruned since the request was admitted, which the handler does
\* not expect: the exception leaves the credential in the vault.
RaiseInHandler(q) ==
    /\ request[q].phase \in {"admitted", "beginning"} /\ ~Open
    /\ To(q, "lost")
    /\ UNCHANGED <<cleanupVars, queue, known, historyVars, down>>

\* The client is gone before the generator has run a step.
LoseResponse(q) ==
    /\ request[q].phase = "accepted"
    /\ To(q, "lost")
    /\ UNCHANGED <<cleanupVars, queue, known, historyVars, down>>

\* The first step of event_generator.
StartGenerator(q) ==
    /\ request[q].phase = "accepted"
    /\ To(q, "serving")
    /\ CreateLifecycle(q, Run(q))
    /\ producer' = [producer EXCEPT ![q] = "starting"]
    /\ UNCHANGED <<resourceVars, queue, known, historyVars, down>>
-----------------------------------------------------------------------------
(***************************************************************************)
(* produce_events, the producer thread.                                     *)
(***************************************************************************)
At(q, step, next) == producer[q] = step /\ producer' = [producer EXCEPT ![q] = next]
Stopped(q) == lifecycle[q].stop_requested

Enqueue(q, event) ==
    queue' = IF Stopped(q) THEN queue ELSE [queue EXCEPT ![q] = Append(@, event)]

\* The stream sees the stop request: before it starts, between two updates of
\* the graph, or at its end.
ProducerStops(q) ==
    /\ Stopped(q)
    /\ \E step \in {"starting", "streaming", "streamed"} : At(q, step, "dead")
    /\ UNCHANGED <<status, lifecycle, active_runs, resourceVars, request, queue, known,
                   historyVars, down>>

Interrupted == checkpoint # None /\ checkpoint.shows = "interrupted"

\* stream_refactor up to the graph: a suspended graph is resumed ...
ResumeGraph(q) ==
    /\ ~Stopped(q) /\ Interrupted /\ request[q].resume_value # "none"
    /\ At(q, "starting", "streaming")
    /\ request' = [request EXCEPT
         ![q].graph = [workspace |-> checkpoint.workspace, resumed |-> TRUE]]
    /\ UNCHANGED <<status, lifecycle, active_runs, resourceVars, queue, known,
                   historyVars, down>>

\* ... or left alone if there is no decision ...
LeaveGraphSuspended(q) ==
    /\ ~Stopped(q) /\ Interrupted /\ request[q].resume_value = "none"
    /\ At(q, "starting", "streamed")
    /\ UNCHANGED <<status, lifecycle, active_runs, resourceVars, request, queue, known,
                   historyVars, down>>

\* ... or begins anew, in a workspace of its own.
BeginGraph(q) ==
    /\ ~Stopped(q) /\ ~Interrupted
    /\ At(q, "starting", "streaming")
    /\ request' = [request EXCEPT ![q].graph = [workspace |-> q, resumed |-> FALSE]]
    /\ checkpoint' = [workspace |-> q, shows |-> "running"]
    /\ workspaces' = workspaces \cup {q}
    /\ UNCHANGED <<status, lifecycle, active_runs, session, vault, faults, queue, known,
                   historyVars, down>>

\* The graph stops; its last checkpoint shows how.
GraphLeaves(q, shows) ==
    /\ At(q, "streaming", "streamed")
    /\ checkpoint' = [workspace |-> request[q].graph.workspace, shows |-> shows]

\* cleanup_workspace_node, or the end of the apply node: rmtree may fail.
GraphRemovesWorkspace(q) ==
    \/ workspaces' = workspaces \ {request[q].graph.workspace} /\ UNCHANGED faults
    \/ Fault /\ UNCHANGED workspaces

GraphSuspends(q) ==
    /\ GraphLeaves(q, "interrupted") /\ ~request[q].graph.resumed
    /\ UNCHANGED <<status, lifecycle, active_runs, session, vault, workspaces, faults,
                   request, queue, known, historyVars, down>>

\* The run fails before the approval, the user rejects it, or its change cannot
\* be applied; run.failed is among the events unless only the review failed.
GraphFails(q, stream_failed) ==
    /\ GraphLeaves(q, "failed") /\ GraphRemovesWorkspace(q)
    /\ request[q].graph.resumed => stream_failed
    /\ request' = [request EXCEPT ![q].stream_failed = stream_failed]
    /\ UNCHANGED <<status, lifecycle, active_runs, session, vault, queue, known,
                   historyVars, down>>

\* Mutant of GraphApplies: a rejected change is applied.
GraphAppliesAnyway(q) ==
    /\ GraphLeaves(q, "success") /\ GraphRemovesWorkspace(q)
    /\ request[q].graph.resumed /\ request[q].graph.workspace \in workspaces
    /\ applied' = applied \cup {request[q].graph.workspace}
    /\ UNCHANGED <<status, lifecycle, active_runs, session, vault, request, queue,
                   known, approved, overtaken, down>>

\* The approved change is applied, which needs its workspace.
GraphApplies(q) ==
    /\ GraphLeaves(q, "success") /\ GraphRemovesWorkspace(q)
    /\ request[q].graph.resumed /\ request[q].graph.workspace \in workspaces
    /\ request[q].resume_value = "approved"
    /\ applied' = applied \cup {request[q].graph.workspace}
    /\ UNCHANGED <<status, lifecycle, active_runs, session, vault, request, queue,
                   known, approved, overtaken, down>>

\* A node raises: _cleanup_checkpoint_workspace, run.failed.
GraphRaises(q) ==
    /\ At(q, "streaming", "streamed")
    /\ request' = [request EXCEPT ![q].stream_failed = TRUE]
    /\ IF checkpoint = None THEN UNCHANGED <<workspaces, faults>>
       ELSE \/ workspaces' = workspaces \ {checkpoint.workspace} /\ UNCHANGED faults
            \/ Fault /\ UNCHANGED workspaces
    /\ UNCHANGED <<status, lifecycle, active_runs, session, vault, checkpoint, queue, known, historyVars, down>>
-----------------------------------------------------------------------------
\* The state of the graph is read, unless a stop was requested before.
SetWorkspace(q) ==
    lifecycle' = IF checkpoint = None THEN lifecycle
                 ELSE [lifecycle EXCEPT ![q].workspace = checkpoint.workspace]

SeeSuspension(q) ==
    /\ ~Stopped(q) /\ Interrupted
    /\ At(q, "streamed", "suspended") /\ SetWorkspace(q)
    /\ UNCHANGED <<status, active_runs, resourceVars, request, queue, known, historyVars,
                   down>>

\* workspace_applied and review_status of the checkpoint, and stream_failed.
Outcome(q) ==
    CASE request[q].stream_failed -> "stream_failed"
      [] ~request[q].stream_failed /\ checkpoint # None -> checkpoint.shows
      [] OTHER -> "unknown"

\* apply_failure: a resumed graph that could not apply the approved change.
ChangeNotApplied(q) ==
    /\ checkpoint # None /\ checkpoint.shows = "failed"
    /\ request[q].graph # None /\ request[q].graph.resumed
    /\ request[q].resume_value = "approved"

SeeOutcome(q) ==
    /\ ~Stopped(q) /\ ~Interrupted /\ SetWorkspace(q)
    /\ \/ /\ Outcome(q) = "success" /\ At(q, "streamed", "succeeded")
          /\ request' = [request EXCEPT ![q].termination = "completed"]
       \/ /\ Outcome(q) = "failed" /\ At(q, "streamed", "failing")
          /\ request' = [request EXCEPT ![q].termination = "failed"]
       \/ /\ Outcome(q) = "stream_failed"
          /\ \/ At(q, "streamed", "finishing")
             \/ At(q, "streamed", "failing") /\ ChangeNotApplied(q)
          /\ request' = [request EXCEPT ![q].termination = "failed"]
       \/ /\ Outcome(q) \in {"unknown", "running"} /\ At(q, "streamed", "finishing")
          /\ UNCHANGED request
    /\ UNCHANGED <<status, active_runs, resourceVars, queue, known, historyVars, down>>

ReportOutcome(q) ==
    /\ \/ /\ At(q, "succeeded", "finishing")
          /\ UpdateTerminal(Run(q), "completed", "completed")
       \/ /\ At(q, "failing", "finishing")
          /\ UpdateTerminal(Run(q), "failed", "failed")
    /\ UNCHANGED <<lifecycle, active_runs, resourceVars, request, queue, known, historyVars,
                   down>>

AskApproval(q) ==
    /\ At(q, "suspended", "approving") /\ BeginApproval(Run(q), q)
    /\ request' = [request EXCEPT ![q].approval = IF Undecided THEN session.approval ELSE q]
    /\ UNCHANGED <<status, lifecycle, active_runs, vault, checkpoint, workspaces, faults,
                   queue, known, historyVars, down>>

\* The workspace is there and unchanged, the approval pending: the run is kept.
RetainForHitl(q) ==
    /\ At(q, "approving", "retaining")
    /\ lifecycle[q].workspace \in workspaces
    /\ IsResumableApproval(Run(q), request[q].approval)
    /\ lifecycle' = [lifecycle EXCEPT ![q].hitl_retention =
         [workspace |-> lifecycle[q].workspace, approval |-> request[q].approval]]
    /\ UpdateWaiting(Run(q))
    /\ UNCHANGED <<active_runs, resourceVars, request, queue, known, historyVars, down>>

\* Mutant of RecoveryFails: what is raised ends the thread.
RecoveryUncaught(q) ==
    /\ \/ At(q, "suspended", "dead") /\ ~LeasedTo(Run(q))
       \/ At(q, "approving", "dead")
    /\ UNCHANGED <<status, lifecycle, active_runs, resourceVars, request, queue, known,
                   historyVars, down>>

\* begin_approval raises, or one of the checks does; the snapshot may also have
\* changed since the review.
RecoveryFails(q) ==
    /\ \/ At(q, "suspended", "finishing") /\ ~LeasedTo(Run(q))
       \/ At(q, "approving", "finishing")
    /\ request' = [request EXCEPT ![q].termination = "failed", ![q].stream_failed = TRUE]
    /\ UNCHANGED <<status, lifecycle, active_runs, resourceVars, queue, known, historyVars,
                   down>>

MarkRetained(q) ==
    /\ At(q, "retaining", "announcing")
    /\ request' = [request EXCEPT ![q].hitl_retained = TRUE, ![q].termination = "hitl_paused"]
    /\ UNCHANGED <<status, lifecycle, active_runs, resourceVars, queue, known, historyVars,
                   down>>

\* approval.waiting for the stream, approval_request for the WebSocket, which
\* may be closed.
AnnounceApproval(q) ==
    /\ At(q, "announcing", "finishing")
    /\ Enqueue(q, "approval.waiting")
    /\ known' \in {known, known \cup {request[q].approval}}
    /\ UNCHANGED <<status, lifecycle, active_runs, resourceVars, request, historyVars, down>>

FinishProducer(q) ==
    /\ At(q, "finishing", "dead")
    /\ Enqueue(q, "producer_finished")
    /\ UNCHANGED <<status, lifecycle, active_runs, resourceVars, request, known,
                   historyVars, down>>
-----------------------------------------------------------------------------
(***************************************************************************)
(* event_generator, the consumer.                                           *)
(***************************************************************************)
Deliver(q) ==
    /\ request[q].phase = "serving" /\ queue[q] # <<>>
    /\ Head(queue[q]) # "producer_finished"
    /\ queue' = [queue EXCEPT ![q] = Tail(@)]
    /\ known' = IF Head(queue[q]) = "approval.waiting" THEN known \cup {request[q].approval} ELSE known
    /\ UNCHANGED <<cleanupVars, request, historyVars, down>>

EndOfStream(q) ==
    /\ request[q].phase = "serving" /\ queue[q] # <<>>
    /\ Head(queue[q]) = "producer_finished"
    /\ To(q, "leaving")
    /\ UNCHANGED <<cleanupVars, queue, known, historyVars, down>>

\* The client disconnects or the request is cancelled; a generator that is
\* closed keeps the termination there is.
ClientLeaves(q) ==
    /\ request[q].phase = "serving"
    /\ \E termination \in {"left", request[q].termination} :
         request' = [request EXCEPT ![q].phase = "leaving", ![q].termination = termination]
    /\ UNCHANGED <<cleanupVars, queue, known, historyVars, down>>

\* The finally reads what the producer thread may be about to write.
CallCleanup(q) ==
    /\ request[q].phase = "leaving"
    /\ To(q, "done")
    /\ BeginCleanup(q, Run(q), request[q].termination, request[q].hitl_retained)
    /\ queue' = [queue EXCEPT ![q] = <<>>]
    /\ UNCHANGED <<active_runs, producer, resourceVars, known, historyVars, down>>

\* With the cleanup done, the locals of the generator are garbage.
CleanUp(q) ==
    /\ CleanupProceeds(q, Run(q))
    /\ request' = IF lifecycle'[q].cleanup = "done"
                  THEN [request EXCEPT ![q] = [NewRequest EXCEPT !.phase = "done", !.run = Run(q)]]
                  ELSE request
    /\ UNCHANGED <<queue, known, historyVars, down>>

TimeOutProducer(q) ==
    /\ ProducerTimesOut(q, Run(q))
    /\ UNCHANGED <<request, queue, known, historyVars, down>>
-----------------------------------------------------------------------------
\* submit_approval, or approval_response on the WebSocket, for an approval the
\* user has been told of, with the change; a stale one is refused.
UserDecides(approval, verdict) ==
    /\ approval \in known /\ ~down
    /\ Decide(approval, verdict)
    /\ LET change == lifecycle[approval].workspace IN
         approved' = IF verdict = "approved" THEN approved \cup {change} ELSE approved \ {change}
    /\ UNCHANGED <<status, lifecycle, active_runs, producer, vault, checkpoint, workspaces,
                   faults, request, queue, known, applied, overtaken, down>>

\* What the time-outs of the registries drop.
SessionExpires ==
    /\ Fault /\ ExpireSession
    /\ UNCHANGED <<status, lifecycle, active_runs, producer, vault, checkpoint, workspaces,
                   request, queue, known, historyVars, down>>

CredentialExpires(q) ==
    /\ Fault /\ PurgeCredential(q)
    /\ UNCHANGED <<status, lifecycle, active_runs, producer, session, checkpoint, workspaces,
                   request, queue, known, historyVars, down>>

StatusExpires(run) ==
    /\ Fault /\ DropStatus(run)
    /\ UNCHANGED <<lifecycle, active_runs, producer, session, vault, checkpoint, workspaces,
                   request, queue, known, historyVars, down>>

\* lifespan: the server has ended its requests before; every registered run is
\* cleaned up, unless its cleanup is not to be repeated.
InProgress(q) ==
    \/ request[q].phase \in {"admitted", "beginning", "accepted", "serving", "leaving"}
    \/ lifecycle[q].cleanup \notin {"none", "deferred", "done"}

Shutdown ==
    /\ ~down /\ down' = TRUE
    /\ \A q \in Requests : ~InProgress(q)
    /\ LET again == {q \in Requests : Repeats(q) /\ \E run \in Requests : active_runs[run] = q} IN
       /\ lifecycle' = [q \in Requests |->
            IF q \in again THEN CleaningFor(q, "service_shutdown", FALSE) ELSE lifecycle[q]]
       /\ status' = [run \in Requests |->
            IF active_runs[run] \in again /\ status[run] # None
            THEN [status[run] EXCEPT !.lifecycle = "cancelling"] ELSE status[run]]
    /\ UNCHANGED <<active_runs, producer, resourceVars, request, queue, known, historyVars>>

Handler(q) ==
    \/ \E run \in Requests, verdict \in Verdicts : ResumeRun(q, run, verdict)
    \/ NothingToResume(q) \/ BeginNewRun(q) \/ RefuseRun(q) \/ RaiseInHandler(q) \/ StartGenerator(q)

Producer(q) ==
    \/ ProducerStops(q)
    \/ ResumeGraph(q) \/ LeaveGraphSuspended(q) \/ BeginGraph(q)
    \/ GraphSuspends(q) \/ GraphApplies(q) \/ GraphRaises(q)
    \/ \E stream_failed \in BOOLEAN : GraphFails(q, stream_failed)
    \/ SeeSuspension(q) \/ SeeOutcome(q) \/ ReportOutcome(q)
    \/ AskApproval(q) \/ RetainForHitl(q) \/ RecoveryFails(q)
    \/ MarkRetained(q) \/ AnnounceApproval(q) \/ FinishProducer(q)

Consumer(q) == Deliver(q) \/ EndOfStream(q) \/ CallCleanup(q)

Resting == (\A q \in Requests : ~InProgress(q)) /\ UNCHANGED svars

ServiceNext ==
    \/ \E q \in Requests :
         \/ Admit(q) \/ Handler(q) \/ LoseResponse(q)
         \/ Producer(q) \/ Consumer(q) \/ ClientLeaves(q)
         \/ CleanUp(q) \/ TimeOutProducer(q)
         \/ CredentialExpires(q) \/ StatusExpires(q)
         \/ \E verdict \in Verdicts : UserDecides(q, verdict)
    \/ SessionExpires \/ Shutdown \/ Resting

\* As long as a thread or the event loop has a step to take, one is taken; a
\* model call ends, by its time-out at the latest.  Nobody has to send, answer or
\* leave.
Step == \E q \in Requests : Handler(q) \/ Producer(q) \/ Consumer(q) \/ CleanUp(q)

ServiceSpec == ServiceInit /\ [][ServiceNext]_svars /\ WF_svars(Step)
-----------------------------------------------------------------------------
ServiceTypeOK ==
    /\ SessionTypeOK
    /\ \A run \in Requests : status[run] # None => status[run] \in Snapshot
    /\ vault \subseteq Requests
    /\ \A q \in Requests :
         /\ lifecycle[q].cleanup \in CleanupStep
         /\ lifecycle[q].stop_requested <=> lifecycle[q].cleanup # "none"
         /\ lifecycle[q].released \subseteq Resource
         /\ request[q].phase \in Phase /\ Run(q) \in Requests \cup {None}
         /\ request[q].termination \in Termination
         /\ producer[q] \in ProducerStep
    /\ checkpoint # None => checkpoint \in Checkpoint
    /\ workspaces \subseteq Requests
    /\ \A run \in Requests : active_runs[run] \in Requests \cup {None}

\* Until the service shuts down, two requests never have a thread at work at
\* once, also when a cleanup has given up waiting for one: the lease is held for
\* it until it is done.
OneProducer ==
    overtaken = {} /\ ~down =>
        \A q \in Requests : ProducerAlive(q) =>
            /\ Open => LeasedTo(Run(q))
            /\ \A p \in Requests \ {q} : ~ProducerAlive(p)

\* No graph works on a checkpoint that is not its own, or without its workspace:
\* no cleanup deletes either under it.  (Left out: the graph of another run,
\* left behind by a cleanup that could not delete the checkpoint.)
ProducerOwnsRun ==
    overtaken = {} /\ ~down =>
        \A q \in Requests : producer[q] = "streaming" =>
            /\ checkpoint # None /\ checkpoint.workspace = request[q].graph.workspace
            /\ checkpoint.workspace = Run(q) => checkpoint.workspace \in workspaces

\* A run that is kept for its approval can be resumed: until it is, the lease,
\* the checkpoint, the workspace and the approval are there, and its status says
\* that it waits.  (Left out: the run that was shown the suspended graph of a
\* former run, whose cleanup could not delete the checkpoint.)
Waiting(q) ==
    /\ lifecycle[q].cleanup = "done" /\ lifecycle[q].workspace_retained
    /\ active_runs[Run(q)] = q /\ overtaken = {}
    /\ lifecycle[q].workspace = Run(q)
Taken(q) == \E p \in Requests : request[p].resume_value # "none" /\ Run(p) = Run(q)

WaitingRunKept ==
    \A q \in Requests : Waiting(q) =>
        /\ Interrupted /\ checkpoint.workspace = lifecycle[q].workspace
        /\ lifecycle[q].workspace \in workspaces
        /\ Open => /\ LeasedTo(Run(q))
                   /\ Taken(q) \/ session.approval = lifecycle[q].hitl_retention.approval
        /\ status[Run(q)] # None => status[Run(q)].lifecycle = "waiting_for_hitl"

\* Somebody answers for whatever is held: a request in progress or whose
\* producer is late, a run kept for its approval, a cleanup that has failed.
Pending(q) == InProgress(q) \/ lifecycle[q].cleanup = "deferred"
Registered(q) == lifecycle[q].cleanup = "done" /\ active_runs[Run(q)] = q
Kept(q) == Registered(q) /\ lifecycle[q].workspace_retained
Failed(q) == Registered(q) /\ ~lifecycle[q].cleanup_complete

NothingForgotten ==
    /\ \A q \in vault : Pending(q) \/ request[q].phase = "lost"
    /\ Open /\ ~LeasedTo(None) =>
         \E q \in Requests : LeasedTo(Run(q)) /\ (Pending(q) \/ Kept(q) \/ request[q].phase = "lost")
    /\ \A w \in workspaces :
         \/ \E q \in Requests :
              /\ Run(q) = Run(w)
              /\ Pending(q) \/ Failed(q) \/ (Kept(q) /\ ~down)
         \/ overtaken # {} \/ (down /\ faults > 0)

\* What the user is told is what happened: a change is in the source only if
\* the user was shown that very change and approved it, and a run is reported as
\* completed only if its change is in the source.
ToldTruly ==
    /\ applied \subseteq approved \/ overtaken # {}
    /\ \A run \in Requests : status[run] # None /\ status[run].terminal = "completed" =>
         \E q \in Requests : Run(q) = run /\ lifecycle[q].workspace \in applied

\* ADR-0006: a workspace is not deleted while a thread may use it, and app.py:
\* whether it is kept for the approval follows from the verified retention.  So
\* until the shutdown a resumed graph has its workspace, whatever the request
\* that had suspended the run is doing.
ResumedRunKeepsWorkspace ==
    ~down =>
        \A q \in Requests : producer[q] = "streaming" /\ request[q].graph.resumed =>
            request[q].graph.workspace \in workspaces

\* Whatever the clients and the model do, every request ends and is cleaned up:
\* the generator, the cleanup, the late cleanup and the producer never wait for
\* each other for ever.
EveryRequestEnds == <>[](\A q \in Requests : ~Pending(q))
=============================================================================
